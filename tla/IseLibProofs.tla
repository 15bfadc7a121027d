--------------------------- MODULE IseLibProofs ---------------------------
(***************************************************************************)
(* libiseio, for any number of processes on a board, channels, frames and  *)
(* sizes of firmware and lines: what a process holds, what ISE_OK means,   *)
(* and that lines come whole.                                              *)
(***************************************************************************)
EXTENDS IseLib, SequenceTheorems, WellFoundedInduction, TLAPS

\* Processes that have taken channel 0, and those that have moved it to 254.
Takes0   == {"switch", "number", "send", "sync", "close0"}
Takes254 == {"hello", "prompt", "version", "goodbye"}

\* Places of a process that has no channel of its own and no frame.
BarePlaces ==
  {"null", "lost", "restart1", "monitor", "switch", "restart2", "opened", "last restart"} \cup Takes254
FramePlaces == {"map", "free", "free all"}

Bases == [Handles -> [Frames -> {"null", "good"}]]

\* The variables have a value for each process and channel.
Kinds ==
  /\ DOMAIN pc = Handles /\ DOMAIN arg = Handles /\ DOMAIN left = Handles /\ DOMAIN version = Handles
  /\ clist \in [Handles -> Seq(Cids)]
  /\ base \in Bases
  /\ owner \in [Channels -> Handles \cup {None}]

\* What the argument of a call is.
ArgInv(h) ==
  /\ pc[h] \in {"open", "number", "readln"} => arg[h] \in Cids
  /\ pc[h] \in FramePlaces => arg[h] \in Frames
  /\ pc[h] = "close channels" => ~Linux

InList(s, c) == \E i \in DOMAIN s : s[i] = c
Distinct(s) == \A i, j \in DOMAIN s : s[i] = s[j] => i = j

\* A process that has a channel is at a place where it has one, or has it in its
\* list; and it has all that are in its list, once.
OwnerInv(h) ==
  /\ pc[h] \in Takes0 <=> owner[0] = h
  /\ pc[h] \in Takes254 <=> owner[254] = h
  /\ \A c \in Cids : owner[c] = h <=> InList(clist[h], c)
  /\ Distinct(clist[h])
  /\ pc[h] \in BarePlaces => clist[h] = <<>> /\ FramesDone(h)

-----------------------------------------------------------------------------
(* A step of one process.                                                   *)

LEMMA Went ==
  ASSUME Kinds, NEW h \in Handles, NEW place, Go(h, place)
  PROVE  DOMAIN pc' = Handles /\ pc'[h] = place /\ \A g \in Handles \ {h} : pc'[g] = pc[g]
BY DEF Go, Kinds

LEMMA Ended ==
  ASSUME Kinds, NEW h \in Handles, NEW place, End(h, place)
  PROVE  /\ DOMAIN pc' = Handles /\ pc'[h] = place /\ \A g \in Handles \ {h} : pc'[g] = pc[g]
         /\ DOMAIN arg' = Handles /\ arg'[h] = 0 /\ \A g \in Handles \ {h} : arg'[g] = arg[g]
         /\ DOMAIN left' = Handles /\ left'[h] = 0 /\ \A g \in Handles \ {h} : left'[g] = left[g]
         /\ hindered' = hindered \ {h}
BY Went DEF End, Kinds

\* What a process has of its own no other process changes.
Own(g) == <<pc[g], arg[g], left[g], version[g], clist[g], base[g]>>

Domains == <<DOMAIN pc, DOMAIN arg, DOMAIN left, DOMAIN version>>

LEMMA OthersStay ==
  ASSUME Kinds, NEW h \in Handles, Call(h) \/ Step(h) \/ Exit(h)
  PROVE  /\ \A g \in Handles \ {h} : Own(g)' = Own(g)
         /\ Domains' = <<Handles, Handles, Handles, Handles>>
<1> DEFINE Stay == /\ \A g \in Handles \ {h} : Own(g)' = Own(g)
                   /\ Domains' = <<Handles, Handles, Handles, Handles>>
<1>1. ASSUME ise_bind(h) \/ bind_windows(h) \/ ise_open(h) \/ ise_restart(h) PROVE Stay
  BY <1>1, Went DEF ise_bind, bind_windows, ise_open, ise_restart, Own, Domains, Kinds, Bases
<1>2. ASSUME ise_channel(h) \/ ise_timeout(h) \/ ise_writeln(h) \/ ise_readln(h) PROVE Stay
  BY <1>2, Went DEF ise_channel, ise_timeout, ise_writeln, ise_readln, callVars, Own, Domains, Kinds, Bases
<1>3. ASSUME NEW f \in Frames, make_frame_ise(h, f) \/ make_frame_windows(h, f) PROVE Stay
  BY <1>3, Went DEF make_frame_ise, make_frame_windows, restVars, callVars, Own, Domains, Kinds, Bases
<1>4. ASSUME NEW f \in Frames, delete_frame_ise(h, f) \/ delete_frame_windows(h, f) PROVE Stay
  BY <1>4, Went DEF delete_frame_ise, Unmap, delete_frame_windows, FramesWithout, restVars, callVars, Own, Domains, Kinds, Bases
<1>5. ASSUME ise_close(h) \/ CloseFrames(h) \/ CloseFrameDevice(h) PROVE Stay
  BY <1>5, Went DEF ise_close, CloseFrames, Unmap, CloseFrameDevice, FramesWithout, restVars, Own, Domains, Kinds, Bases
<1>6. ASSUME RestartFirst(h) \/ OpenMonitor(h) \/ SwitchMonitor(h) PROVE Stay
  BY <1>6, Went, Ended DEF RestartFirst, OpenMonitor, SwitchMonitor, OpenRefused, OpenFails, OpenLost, Own, Domains, Kinds, Bases
<1>7. ASSUME Hello(h) \/ Prompt(h) \/ Version(h) \/ VersionFails(h) \/ FindsPrompt(h) \/ CloseMonitor(h) PROVE Stay
  BY <1>7, Went DEF Hello, Prompt, Version, VersionFails, FindsPrompt, CloseMonitor, Own, Domains, Kinds, Bases
<1>8. ASSUME RestartAgain(h) \/ OpenReturns(h) \/ ResetForFirmware(h) \/ OpenFirmware(h) \/ NoFirmware(h) PROVE Stay
  BY <1>8, Went, Ended DEF RestartAgain, OpenReturns, ResetForFirmware, OpenFirmware, NoFirmware, Return, Own, Domains, Kinds, Bases
<1>9. ASSUME SendFirmware(h) \/ SendFails(h) \/ SyncFirmware(h) \/ CloseFirmware(h) PROVE Stay
  BY <1>9, Went DEF SendFirmware, SendFails, SyncFirmware, CloseFirmware, callVars, Own, Domains, Kinds, Bases
<1>10. ASSUME run_program(h) \/ RestartReturns(h) PROVE Stay
  BY <1>10, Went, Ended DEF run_program, Retry, RestartReturns, Return, Own, Domains, Kinds, Bases
<1>11. ASSUME OpenChannel(h) \/ NumberChannel(h) PROVE Stay
  BY <1>11, Went, Ended DEF OpenChannel, NumberChannel, NumberBusy, Return, Own, Domains, Kinds, Bases
<1>12. ASSUME readln_linux(h) \/ readln_windows(h) PROVE Stay
  BY <1>12, Ended DEF readln_linux, readln_windows, TakeText, GiveLine, Return, callVars, Own, Domains, Kinds, Bases
<1>13. ASSUME ReadMore(h) \/ ReadFails(h) PROVE Stay
  BY <1>13, Ended DEF ReadMore, ReadFails, GiveUp, Return, callVars, Own, Domains, Kinds, Bases
<1>14. ASSUME MapFrame(h) \/ FreeFrame(h) PROVE Stay
  BY <1>14, Ended DEF MapFrame, FreeFrame, Return, restVars, Own, Domains, Kinds, Bases
<1>15. ASSUME CloseChannels(h) PROVE Stay
  BY <1>15 DEF CloseChannels, CloseChannel, callVars, Own, Domains, Kinds, Bases
<1>16. ASSUME LastStep(h) \/ LastRestart(h) PROVE Stay
  BY <1>16, Went, Ended DEF LastStep, LastRestart, Forget, Own, Domains, Kinds, Bases
<1>17. ASSUME Exit(h) \/ Crash(h) PROVE Stay
  BY <1>17, Ended DEF Exit, Crash, Die, Forget, Own, Domains, Kinds, Bases
<1>. QED
  BY <1>1, <1>2, <1>3, <1>4, <1>5, <1>6, <1>7, <1>8, <1>9, <1>10, <1>11, <1>12, <1>13, <1>14, <1>15,
     <1>16, <1>17 DEF Call, Step

LEMMA InCons ==
  ASSUME NEW s \in Seq(Cids), NEW c \in Cids
  PROVE  /\ <<c>> \o s \in Seq(Cids) /\ InList(<<c>> \o s, c) /\ <<c>> \o s # <<>>
         /\ \A d : InList(<<c>> \o s, d) <=> d = c \/ InList(s, d)
         /\ Distinct(s) /\ ~InList(s, c) => Distinct(<<c>> \o s)
<1> DEFINE t == <<c>> \o s
<1>1. <<c>> \in Seq(Cids) /\ Len(<<c>>) = 1 /\ Len(s) \in Nat /\ DOMAIN s = 1 .. Len(s)
  BY LenProperties
<1>2. /\ t \in Seq(Cids) /\ Len(t) = 1 + Len(s) /\ DOMAIN t = 1 .. 1 + Len(s)
      /\ \A i \in 1 .. 1 + Len(s) : t[i] = IF i <= 1 THEN c ELSE s[i - 1]
  BY <1>1, ConcatProperties, LenProperties
<1> HIDE DEF t
<1>3. t[1] = c /\ 1 \in DOMAIN t /\ t # <<>>
  BY <1>1, <1>2
<1>4. ASSUME NEW d, InList(s, d) PROVE InList(t, d)
  <2>1. PICK i \in 1 .. Len(s) : s[i] = d
    BY <1>1, <1>4 DEF InList
  <2>2. i + 1 \in DOMAIN t /\ t[i + 1] = d
    BY <1>1, <1>2, <2>1
  <2>. QED BY <2>2 DEF InList
<1>5. ASSUME NEW d, InList(t, d), d # c PROVE InList(s, d)
  <2>1. PICK i \in 1 .. 1 + Len(s) : t[i] = d /\ i # 1
    BY <1>2, <1>3, <1>5 DEF InList
  <2>2. i - 1 \in DOMAIN s /\ s[i - 1] = d
    BY <1>1, <1>2, <2>1
  <2>. QED BY <2>2 DEF InList
<1>6. ASSUME Distinct(s), ~InList(s, c) PROVE Distinct(t)
  <2> SUFFICES ASSUME NEW i \in 1 .. 1 + Len(s), NEW j \in 1 .. 1 + Len(s), t[i] = t[j] PROVE i = j
    BY <1>2 DEF Distinct
  <2>1. \A k \in 1 .. 1 + Len(s) : k # 1 => k - 1 \in DOMAIN s /\ t[k] = s[k - 1] /\ t[k] # c
    BY <1>1, <1>2, <1>6 DEF InList
  <2>2. i = 1 <=> j = 1
    BY <1>3, <2>1
  <2>3. i # 1 => i - 1 = j - 1
    BY <1>6, <2>1, <2>2 DEF Distinct
  <2>. QED BY <1>1, <2>2, <2>3
<1>. QED BY <1>2, <1>3, <1>4, <1>5, <1>6 DEF t, InList

LEMMA InTail ==
  ASSUME NEW s \in Seq(Cids), s # <<>>
  PROVE  /\ Head(s) \in Cids /\ Tail(s) \in Seq(Cids)
         /\ \A d : InList(s, d) <=> d = Head(s) \/ InList(Tail(s), d)
         /\ Distinct(s) => Distinct(Tail(s)) /\ ~InList(Tail(s), Head(s))
<1>1. /\ Head(s) \in Cids /\ Head(s) = s[1] /\ Tail(s) \in Seq(Cids) /\ Len(s) \in Nat
      /\ Len(Tail(s)) = Len(s) - 1 /\ \A i \in 1 .. Len(Tail(s)) : Tail(s)[i] = s[i + 1]
      /\ DOMAIN s = 1 .. Len(s) /\ DOMAIN Tail(s) = 1 .. Len(Tail(s))
  BY HeadTailProperties, LenProperties
<1>2. ASSUME NEW d, InList(s, d), d # Head(s) PROVE InList(Tail(s), d)
  <2>1. PICK i \in 1 .. Len(s) : s[i] = d /\ i # 1
    BY <1>1, <1>2 DEF InList
  <2>2. i - 1 \in DOMAIN Tail(s) /\ Tail(s)[i - 1] = d
    BY <1>1, <2>1
  <2>. QED BY <2>2 DEF InList
<1>3. Len(s) > 0 /\ 1 \in DOMAIN s
  BY <1>1
<1>4. \A i \in DOMAIN Tail(s) : i + 1 \in DOMAIN s /\ i + 1 # 1 /\ Tail(s)[i] = s[i + 1]
  BY <1>1
<1>5. InList(s, Head(s)) /\ \A d : InList(Tail(s), d) => InList(s, d)
  BY <1>1, <1>3, <1>4 DEF InList
<1>6. ASSUME Distinct(s) PROVE Distinct(Tail(s)) /\ ~InList(Tail(s), Head(s))
  <2>1. ASSUME NEW i \in DOMAIN Tail(s), NEW j \in DOMAIN Tail(s), Tail(s)[i] = Tail(s)[j] PROVE i = j
    <3>1. i + 1 = j + 1 /\ i \in Nat /\ j \in Nat
      BY <1>1, <1>4, <1>6, <2>1 DEF Distinct
    <3>. QED BY <3>1
  <2>2. ~InList(Tail(s), Head(s))
    BY <1>1, <1>3, <1>4, <1>6 DEF Distinct, InList
  <2>. QED BY <2>1, <2>2 DEF Distinct
<1>. QED BY <1>1, <1>2, <1>5, <1>6

-----------------------------------------------------------------------------
(* Who has a channel.                                                       *)

\* A process takes channels that nobody has and gives back its own; and it has
\* channel 0 and channel 254 where it needs them.
LEMMA OwnerStep ==
  ASSUME Kinds, NEW h \in Handles, ArgInv(h), OwnerInv(h), Call(h) \/ Step(h) \/ Exit(h)
  PROVE  /\ owner' \in [Channels -> Handles \cup {None}]
         /\ \A c \in Channels : \A g \in Handles \ {h} : owner'[c] = g <=> owner[c] = g
         /\ clist' \in [Handles -> Seq(Cids)]
         /\ OwnerInv(h)'
<1> DEFINE Fair == /\ owner' \in [Channels -> Handles \cup {None}]
                   /\ \A c \in Channels : \A g \in Handles \ {h} : owner'[c] = g <=> owner[c] = g
           Kept == Fair /\ clist' \in [Handles -> Seq(Cids)] /\ OwnerInv(h)'
<1>0. 0 \in Channels /\ 254 \in Channels /\ 0 \notin Cids /\ 254 \notin Cids /\ Cids \subseteq Channels /\ None \notin Handles
  BY LibAssumption DEF Channels
<1> USE <1>0
<1>1. ASSUME UNCHANGED <<owner, clist, base>>,
             \/ pc'[h] = pc[h] \/ /\ pc[h] \notin Takes0 /\ pc'[h] \notin Takes0
                                  /\ pc[h] \notin Takes254 /\ pc'[h] \notin Takes254
                                  /\ pc'[h] \in BarePlaces => pc[h] \in BarePlaces
      PROVE  Kept
  BY <1>1 DEF OwnerInv, Kinds, FramesDone
<1>21. ASSUME owner[0] = None, owner' = [owner EXCEPT ![0] = h], UNCHANGED <<clist, base>>,
              pc'[h] \in Takes0, pc[h] \notin Takes254, pc'[h] \notin Takes254,
              pc'[h] \in BarePlaces => pc[h] \in BarePlaces
       PROVE  Kept
  <2>1. owner' \in [Channels -> Handles \cup {None}] /\ owner'[0] = h /\ \A c \in Channels \ {0} : owner'[c] = owner[c]
    BY <1>21 DEF Kinds
  <2>2. Fair
    BY <2>1, <1>21
  <2>3. OwnerInv(h)'
    BY <2>1, <1>21 DEF OwnerInv, FramesDone
  <2>. QED BY <2>2, <2>3, <1>21 DEF Kinds
<1>22. ASSUME pc[h] \in Takes0, owner' = [owner EXCEPT ![0] = None], UNCHANGED <<clist, base>>,
              pc'[h] \notin Takes0, pc[h] \notin Takes254, pc'[h] \notin Takes254,
              pc'[h] \in BarePlaces => pc[h] \in BarePlaces
       PROVE  Kept
  <2>1. /\ owner' \in [Channels -> Handles \cup {None}] /\ owner'[0] = None /\ owner[0] = h
        /\ \A c \in Channels \ {0} : owner'[c] = owner[c]
    BY <1>22 DEF Kinds, OwnerInv
  <2>2. Fair
    BY <2>1
  <2>3. OwnerInv(h)'
    BY <2>1, <1>22 DEF OwnerInv, FramesDone
  <2>. QED BY <2>2, <2>3, <1>22 DEF Kinds
<1>2. ASSUME ise_bind(h) \/ bind_windows(h) \/ ise_open(h) \/ ise_restart(h) PROVE Kept
  <2>1. UNCHANGED <<owner, clist, base>>
    BY <1>2 DEF ise_bind, bind_windows, ise_open, ise_restart
  <2>2. (pc[h] = "null" /\ pc'[h] \in {"idle", "restart1"}) \/ (pc[h] = "idle" /\ pc'[h] = "reset")
    BY <1>2, Went DEF ise_bind, bind_windows, ise_open, ise_restart
  <2>. QED BY <1>1, <2>1, <2>2 DEF Takes0, Takes254, BarePlaces
<1>3. ASSUME ise_channel(h) \/ ise_timeout(h) \/ ise_writeln(h) \/ ise_readln(h) PROVE Kept
  <2>1. UNCHANGED <<owner, clist, base>>
    BY <1>3 DEF ise_channel, ise_timeout, ise_writeln, ise_readln
  <2>2. pc[h] = "idle" /\ pc'[h] \in {"idle", "open", "readln"}
    BY <1>3, Went DEF ise_channel, ise_timeout, ise_writeln, ise_readln, callVars
  <2>. QED BY <1>1, <2>1, <2>2 DEF Takes0, Takes254, BarePlaces
<1>4. ASSUME UNCHANGED <<owner, clist>>, pc[h] \notin BarePlaces \cup Takes0, pc'[h] \notin BarePlaces \cup Takes0
      PROVE  Kept
  BY <1>4 DEF OwnerInv, Kinds, BarePlaces
<1>5. ASSUME NEW f \in Frames, \/ make_frame_ise(h, f) \/ make_frame_windows(h, f)
                               \/ delete_frame_ise(h, f) \/ delete_frame_windows(h, f)
      PROVE  Kept
  <2>1. UNCHANGED <<owner, clist>> /\ pc[h] = "idle" /\ pc'[h] \in {"idle", "map", "free"}
    BY <1>5, Went DEF make_frame_ise, make_frame_windows, delete_frame_ise, Unmap,
         delete_frame_windows, FramesWithout, restVars, callVars
  <2>. QED BY <1>4, <2>1 DEF BarePlaces, Takes0, Takes254
<1>6. ASSUME ise_close(h) \/ CloseFrames(h) \/ CloseFrameDevice(h) \/ MapFrame(h) \/ FreeFrame(h)
      PROVE  Kept
  <2>1. /\ UNCHANGED <<owner, clist>>
        /\ pc[h] \in {"idle", "close", "close channels"} \cup FramePlaces
        /\ pc'[h] \in {"idle", "close", "close channels"} \cup FramePlaces
    BY <1>6, Went, Ended DEF ise_close, CloseFrames, Unmap, CloseFrameDevice, FramesWithout, MapFrame, FreeFrame,
         Return, restVars, FramePlaces
  <2>. QED BY <1>4, <2>1 DEF BarePlaces, Takes0, Takes254, FramePlaces
<1>7. ASSUME RestartFirst(h) \/ RestartAgain(h) \/ OpenReturns(h) \/ ResetForFirmware(h) PROVE Kept
  <2>1. UNCHANGED <<owner, clist, base>>
    BY <1>7 DEF RestartFirst, RestartAgain, OpenReturns, ResetForFirmware
  <2>2. \/ pc[h] = "restart1" /\ pc'[h] \in {"monitor", "null"}
        \/ pc[h] = "restart2" /\ pc'[h] = "opened"
        \/ pc[h] = "opened" /\ pc'[h] = "idle"
        \/ pc[h] = "reset" /\ pc'[h] \in {"open0", "idle"}
    BY <1>7, Went, Ended DEF RestartFirst, RestartAgain, OpenReturns, ResetForFirmware, OpenFails, Return
  <2>. QED BY <1>1, <2>1, <2>2 DEF Takes0, Takes254, BarePlaces
<1>8. ASSUME OpenMonitor(h) PROVE Kept
  <2>1. /\ pc[h] = "monitor" /\ UNCHANGED <<clist, base>>
        /\ \/ owner[0] = None /\ owner' = [owner EXCEPT ![0] = h] /\ pc'[h] = "switch"
           \/ owner' = owner /\ pc'[h] \in {"lost", "null"}
    BY <1>8, Went, Ended DEF OpenMonitor, OpenRefused, OpenFails, OpenLost
  <2>2. /\ pc[h] \in BarePlaces /\ pc[h] \notin Takes0 /\ pc[h] \notin Takes254 /\ pc'[h] \notin Takes254
        /\ pc'[h] = "switch" <=> pc'[h] \in Takes0
    BY <2>1 DEF Takes0, Takes254, BarePlaces
  <2>3. CASE pc'[h] = "switch"
    BY <1>21, <2>1, <2>2, <2>3
  <2>4. CASE pc'[h] # "switch"
    BY <1>1, <2>1, <2>2, <2>4
  <2>. QED BY <2>3, <2>4
<1>9. ASSUME SwitchMonitor(h) PROVE Kept
  <2>1. /\ pc[h] = "switch" /\ UNCHANGED <<clist, base>>
        /\ \/ /\ owner[254] = None /\ owner' = [owner EXCEPT ![0] = None, ![254] = h]
              /\ pc'[h] = "hello"
           \/ owner' = [owner EXCEPT ![0] = None] /\ pc'[h] \in {"lost", "null"}
    BY <1>9, Went, Ended DEF SwitchMonitor, OpenRefused, OpenFails, OpenLost
  <2>2. /\ pc[h] \in BarePlaces /\ pc[h] \in Takes0 /\ pc[h] \notin Takes254 /\ pc'[h] \notin Takes0
        /\ pc'[h] = "hello" <=> pc'[h] \in Takes254
    BY <2>1 DEF Takes0, Takes254, BarePlaces
  <2>3. CASE pc'[h] = "hello"
    <3>1. /\ owner' \in [Channels -> Handles \cup {None}] /\ owner'[0] = None /\ owner[0] = h
          /\ owner'[254] = h /\ owner[254] = None
          /\ \A c \in Channels \ {0, 254} : owner'[c] = owner[c]
      BY <2>1, <2>2, <2>3 DEF Kinds, OwnerInv
    <3>2. Fair
      BY <3>1
    <3>3. OwnerInv(h)'
      BY <3>1, <2>1, <2>2, <2>3 DEF OwnerInv, FramesDone
    <3>. QED BY <3>2, <3>3, <2>1 DEF Kinds
  <2>4. CASE pc'[h] # "hello"
    BY <1>22, <2>1, <2>2, <2>4
  <2>. QED BY <2>3, <2>4
<1>10. ASSUME Hello(h) \/ Prompt(h) \/ Version(h) \/ VersionFails(h) \/ FindsPrompt(h) PROVE Kept
  <2>1. /\ UNCHANGED <<owner, clist, base>>
        /\ \/ pc[h] \in Takes254 /\ pc'[h] \in Takes254
           \/ pc[h] = "lost" /\ pc'[h] = "restart2"
    BY <1>10, Went DEF Hello, Prompt, Version, VersionFails, FindsPrompt, Astray, Takes254
  <2>. QED BY <2>1 DEF OwnerInv, Kinds, Takes0, Takes254, BarePlaces, FramesDone
<1>11. ASSUME CloseMonitor(h) PROVE Kept
  <2>1. /\ pc[h] = "goodbye" /\ pc'[h] = "restart2" /\ UNCHANGED <<clist, base>>
        /\ owner' = [owner EXCEPT ![254] = None]
    BY <1>11, Went DEF CloseMonitor, Closed
  <2>5. Fair
    BY <2>1 DEF OwnerInv, Kinds, Takes0, Takes254
  <2>6. OwnerInv(h)'
    BY <2>1 DEF OwnerInv, Kinds, Takes0, Takes254, BarePlaces, FramesDone
  <2>. QED BY <2>1, <2>5, <2>6 DEF Kinds
<1>12. ASSUME OpenFirmware(h) \/ OpenChannel(h) PROVE Kept
  <2>1. /\ pc[h] \in {"open0", "open"} /\ UNCHANGED <<clist, base>>
        /\ \/ owner[0] = None /\ owner' = [owner EXCEPT ![0] = h] /\ pc'[h] \in {"send", "number"}
           \/ owner' = owner /\ pc'[h] = "idle"
    BY <1>12, Went, Ended DEF OpenFirmware, OpenChannel, Return
  <2>2. /\ pc'[h] \notin BarePlaces /\ pc[h] \notin Takes0 /\ pc[h] \notin Takes254 /\ pc'[h] \notin Takes254
        /\ pc'[h] # "idle" <=> pc'[h] \in Takes0
    BY <2>1 DEF Takes0, Takes254, BarePlaces
  <2>3. CASE pc'[h] # "idle"
    BY <1>21, <2>1, <2>2, <2>3
  <2>4. CASE pc'[h] = "idle"
    BY <1>1, <2>1, <2>2, <2>4
  <2>. QED BY <2>3, <2>4
<1>13. ASSUME NoFirmware(h) \/ CloseFirmware(h) PROVE Kept
  <2>1. /\ pc[h] \in {"send", "close0"} /\ UNCHANGED <<clist, base>> /\ pc'[h] \in {"idle", "run"}
        /\ owner' = [owner EXCEPT ![0] = None]
    BY <1>13, Went, Ended DEF NoFirmware, CloseFirmware, Closed, Return
  <2>2. /\ pc'[h] \notin BarePlaces /\ pc[h] \in Takes0 /\ pc'[h] \notin Takes0
        /\ pc[h] \notin Takes254 /\ pc'[h] \notin Takes254
    BY <2>1 DEF Takes0, Takes254, BarePlaces
  <2>. QED BY <1>22, <2>1, <2>2
<1>14. ASSUME SendFirmware(h) \/ SendFails(h) \/ SyncFirmware(h) PROVE Kept
  <2>1. UNCHANGED <<owner, clist, base>> /\ pc[h] \in {"send", "sync"} /\ pc'[h] \in {"send", "sync", "close0"}
    BY <1>14, Went DEF SendFirmware, SendFails, SyncFirmware
  <2>. QED BY <2>1 DEF OwnerInv, Kinds, Takes0, Takes254, BarePlaces
<1>15. ASSUME run_program(h) \/ RestartReturns(h) PROVE Kept
  <2>1. UNCHANGED <<owner, clist, base>> /\ pc[h] \in {"run", "running"} /\ pc'[h] \in {"run", "running", "idle"}
    BY <1>15, Went, Ended DEF run_program, Retry, RestartReturns, Return
  <2>. QED BY <1>1, <2>1 DEF Takes0, Takes254, BarePlaces
<1>16. ASSUME NumberChannel(h) PROVE Kept
  <2>1. /\ pc[h] = "number" /\ pc'[h] = "idle" /\ arg[h] \in Cids /\ base' = base
        /\ \/ /\ owner[arg[h]] = None /\ owner' = [owner EXCEPT ![0] = None, ![arg[h]] = h]
              /\ clist' = [clist EXCEPT ![h] = <<arg[h]>> \o @]
           \/ owner' = [owner EXCEPT ![0] = None] /\ clist' = clist
    BY <1>16, Ended DEF NumberChannel, NumberBusy, Return, ArgInv
  <2>2. /\ clist[h] \in Seq(Cids) /\ <<arg[h]>> \o clist[h] \in Seq(Cids)
        /\ InList(<<arg[h]>> \o clist[h], arg[h])
        /\ \A d : InList(<<arg[h]>> \o clist[h], d) <=> d = arg[h] \/ InList(clist[h], d)
        /\ ~InList(clist[h], arg[h]) => Distinct(<<arg[h]>> \o clist[h])
    BY <2>1, InCons DEF Kinds, OwnerInv
  <2>3. /\ pc'[h] \notin BarePlaces /\ pc[h] \in Takes0 /\ pc'[h] \notin Takes0
        /\ pc[h] \notin Takes254 /\ pc'[h] \notin Takes254
    BY <2>1 DEF Takes0, Takes254, BarePlaces
  <2>4. CASE clist' = clist /\ owner' = [owner EXCEPT ![0] = None]
    BY <1>22, <2>1, <2>3, <2>4
  <2>5. CASE /\ owner[arg[h]] = None /\ owner' = [owner EXCEPT ![0] = None, ![arg[h]] = h]
             /\ clist' = [clist EXCEPT ![h] = <<arg[h]>> \o @]
    <3> DEFINE a == arg[h]
    <3>0. a \in Channels /\ a # 0 /\ a # 254 /\ owner[0] = h /\ owner \in [Channels -> Handles \cup {None}]
      BY <2>1, <2>3 DEF Kinds, OwnerInv
    <3> HIDE DEF a
    <3>5. owner[a] = None /\ owner' = [owner EXCEPT ![0] = None, ![a] = h]
      BY <2>5 DEF a
    <3>1. /\ owner' \in [Channels -> Handles \cup {None}] /\ owner'[0] = None /\ owner[0] = h
          /\ owner'[a] = h /\ owner[a] = None /\ a # 0 /\ a # 254
          /\ \A c \in Channels \ {0, a} : owner'[c] = owner[c]
      BY <3>0, <3>5
    <3>2. Fair
      BY <3>1
    <3>3. clist' \in [Handles -> Seq(Cids)] /\ clist'[h] = <<a>> \o clist[h]
      BY <2>2, <2>5 DEF Kinds, a
    <3>9. a \in Cids /\ h # None
      BY <2>1 DEF a
    <3>6. /\ \A d : InList(clist'[h], d) <=> d = a \/ InList(clist[h], d)
          /\ ~InList(clist[h], a) => Distinct(clist'[h])
      BY <3>3, <2>2 DEF a
    <3>7. (\A c \in Cids : owner'[c] = h <=> InList(clist'[h], c)) /\ Distinct(clist'[h])
      BY <3>1, <3>6, <3>9 DEF OwnerInv
    <3>8. owner'[254] # h
      BY <3>1, <2>3 DEF OwnerInv
    <3>4. OwnerInv(h)'
      BY <3>1, <3>7, <3>8, <2>3 DEF OwnerInv
    <3>. QED BY <3>2, <3>3, <3>4
  <2>. QED BY <2>1, <2>4, <2>5
<1>17. ASSUME readln_linux(h) \/ readln_windows(h) \/ ReadMore(h) \/ ReadFails(h) PROVE Kept
  <2>1. UNCHANGED <<owner, clist, base>> /\ pc[h] = "readln" /\ pc'[h] \in {"readln", "idle"}
    BY <1>17, Ended DEF readln_linux, readln_windows, TakeText, GiveLine, ReadMore, ReadFails, GiveUp, Return, callVars
  <2>. QED BY <1>1, <2>1 DEF Takes0, Takes254, BarePlaces
<1>18. ASSUME CloseChannels(h) PROVE Kept
  <2>1. /\ clist[h] # <<>> /\ pc[h] \in {"close", "close channels"} /\ pc' = pc
        /\ owner' = [owner EXCEPT ![Head(clist[h])] = None]
        /\ clist' = [clist EXCEPT ![h] = Tail(@)]
    BY <1>18 DEF CloseChannels, CloseChannel, callVars
  <2>2. PICK c \in Cids, s \in Seq(Cids) :
          /\ c = Head(clist[h]) /\ s = Tail(clist[h])
          /\ \A d : InList(clist[h], d) <=> d = c \/ InList(s, d)
          /\ Distinct(s) /\ ~InList(s, c)
    <3>1. clist[h] \in Seq(Cids) /\ clist[h] # <<>> /\ Distinct(clist[h])
      BY <2>1 DEF Kinds, OwnerInv
    <3>. QED BY <3>1, InTail
  <2>3. /\ owner' \in [Channels -> Handles \cup {None}] /\ owner'[c] = None
        /\ \A d \in Channels \ {c} : owner'[d] = owner[d]
        /\ c # 0 /\ c # 254
    <3>1. owner' = [owner EXCEPT ![c] = None] /\ owner \in [Channels -> Handles \cup {None}]
      BY <2>1, <2>2 DEF Kinds
    <3>. QED BY <3>1
  <2>4. clist' \in [Handles -> Seq(Cids)] /\ clist'[h] = s
    BY <2>1, <2>2 DEF Kinds
  <2>5. Fair
    BY <2>2, <2>3 DEF OwnerInv
  <2>6. pc[h] \notin BarePlaces /\ pc'[h] \notin BarePlaces
    BY <2>1 DEF BarePlaces, Takes254
  <2>7. OwnerInv(h)'
    <3>1. (\A d \in Cids : owner'[d] = h <=> InList(clist'[h], d)) /\ Distinct(clist'[h])
      BY <2>2, <2>3, <2>4 DEF OwnerInv
    <3>2. owner'[0] = owner[0] /\ owner'[254] = owner[254]
      BY <2>3
    <3>. QED BY <3>1, <3>2, <2>1, <2>6 DEF OwnerInv
  <2>. QED BY <2>4, <2>5, <2>7
<1>19. ASSUME LastStep(h) \/ LastRestart(h) PROVE Kept
  <2>1. /\ UNCHANGED <<owner, clist, base>> /\ pc'[h] \in {"last restart", "null"}
        /\ pc[h] = "last restart" \/ (pc[h] = "close" /\ FramesDone(h) /\ clist[h] = <<>>)
    BY <1>19, Went, Ended DEF LastStep, LastRestart, Forget
  <2>. QED BY <2>1 DEF OwnerInv, Kinds, Takes0, Takes254, BarePlaces, FramesDone
<1>20. ASSUME Exit(h) \/ Crash(h) PROVE Kept
  <2>1. /\ pc'[h] = "null" /\ owner' = [c \in Channels |-> IF owner[c] = h THEN None ELSE owner[c]]
        /\ clist' = [clist EXCEPT ![h] = <<>>]
        /\ base' = [base EXCEPT ![h] = [f \in Frames |-> "null"]]
    BY <1>20, Ended DEF Exit, Crash, Die, Forget
  <2>2. <<>> \in Seq(Cids) /\ Distinct(<<>>) /\ \A d : ~InList(<<>>, d)
    BY DEF Distinct, InList
  <2>5. Fair
    BY <2>1 DEF OwnerInv, Kinds, Bases, Takes0, Takes254
  <2>6. OwnerInv(h)'
    <3>1. clist'[h] = <<>> /\ FramesDone(h)'
      BY <2>1 DEF Kinds, Bases, FramesDone
    <3>2. \A c \in Channels : owner'[c] # h
      BY <2>1, LibAssumption
    <3>3. {0, 254} \cup Cids \subseteq Channels
      BY DEF Channels
    <3>. QED BY <2>1, <2>2, <3>1, <3>2, <3>3 DEF OwnerInv, Takes0, Takes254, BarePlaces
  <2>. QED BY <2>1, <2>2, <2>5, <2>6 DEF Kinds
<1>. QED
  BY <1>2, <1>3, <1>5, <1>6, <1>7, <1>8, <1>9, <1>10, <1>11, <1>12, <1>13, <1>14, <1>15, <1>16,
     <1>17, <1>18, <1>19, <1>20 DEF Call, Step
-----------------------------------------------------------------------------
(* The argument of a call, and what a process knows of its frames.          *)

LEMMA OneBase ==
  ASSUME base \in Bases, NEW h \in Handles, NEW f \in Frames, NEW v \in {"null", "good"},
         base' = [base EXCEPT ![h][f] = v]
  PROVE  base' \in Bases /\ base'[h][f] = v /\ \A g \in Frames \ {f} : base'[h][g] = base[h][g]
BY DEF Bases

LEMMA NoBases ==
  ASSUME base \in Bases, NEW h \in Handles, NEW gone,
         base' = [base EXCEPT ![h] = [f \in Frames |-> IF f \in gone THEN "null" ELSE @[f]]]
  PROVE  base' \in Bases /\ \A f \in Frames : base'[h][f] = IF f \in gone THEN "null" ELSE base[h][f]
<1>1. [f \in Frames |-> IF f \in gone THEN "null" ELSE base[h][f]] \in [Frames -> {"null", "good"}]
  BY DEF Bases
<1>. QED BY <1>1 DEF Bases

LEMMA ArgStep ==
  ASSUME Kinds, NEW h \in Handles, ArgInv(h), Call(h) \/ Step(h) \/ Exit(h)
  PROVE  /\ base' \in Bases
         /\ UNCHANGED <<platform, talker>>
         /\ ArgInv(h)'
<1>0. base \in Bases
  BY DEF Kinds
<1> DEFINE Kept == /\ base' \in Bases
                   /\ UNCHANGED <<platform, talker>> /\ ArgInv(h)'
<1>1. ASSUME UNCHANGED <<platform, talker, base>>,
             \/ pc'[h] \notin {"open", "number", "readln", "close channels"} \cup FramePlaces
             \/ pc'[h] = pc[h] /\ arg'[h] = arg[h]
      PROVE  Kept
  BY <1>0, <1>1 DEF ArgInv, Linux
<1>2. ASSUME ise_bind(h) \/ bind_windows(h) \/ ise_open(h) \/ ise_restart(h) \/ ise_timeout(h) \/ ise_writeln(h) PROVE Kept
  <2>1. /\ UNCHANGED <<platform, talker, base>> /\ arg' = arg
        /\ pc'[h] \in {"idle", "restart1", "reset"} \/ pc'[h] = pc[h]
    BY <1>2, Went DEF ise_bind, bind_windows, ise_open, ise_restart, ise_timeout, ise_writeln, callVars
  <2>. QED BY <1>1, <2>1 DEF FramePlaces
<1>3. ASSUME ise_channel(h) \/ ise_readln(h) PROVE Kept
  <2>1. /\ UNCHANGED <<platform, talker, base>>
        /\ pc'[h] \in {"open", "readln"} /\ arg'[h] \in Cids
    BY <1>3, Went DEF ise_channel, ise_readln, Kinds
  <2>. QED BY <1>0, <2>1 DEF ArgInv, FramePlaces
<1>4. ASSUME NEW f \in Frames, make_frame_ise(h, f) \/ delete_frame_ise(h, f) PROVE Kept
  <2>1. /\ UNCHANGED <<platform, talker>> /\ pc'[h] \in {"map", "free"} /\ arg'[h] = f
        /\ base' = base \/ base' = [base EXCEPT ![h][f] = "null"]
    BY <1>4, Went DEF make_frame_ise, delete_frame_ise, Unmap, restVars, Kinds
  <2>2. base' \in Bases
    BY <1>0, <2>1, OneBase
  <2>. QED BY <2>1, <2>2 DEF ArgInv, FramePlaces
<1>5. ASSUME NEW f \in Frames, make_frame_windows(h, f) \/ delete_frame_windows(h, f) PROVE Kept
  <2>1. UNCHANGED <<platform, talker, pc, arg>>
    BY <1>5 DEF make_frame_windows, delete_frame_windows, FramesWithout, restVars, callVars
  <2>2. ASSUME make_frame_windows(h, f) PROVE base' \in Bases
    BY <2>2, <1>0, OneBase DEF make_frame_windows
  <2>3. ASSUME delete_frame_windows(h, f) PROVE base' \in Bases
    BY <2>3, <1>0, NoBases DEF delete_frame_windows, FramesWithout
  <2>. QED BY <1>5, <2>1, <2>2, <2>3 DEF ArgInv, Linux
<1>6. ASSUME ise_close(h) PROVE Kept
  <2>1. /\ UNCHANGED <<platform, talker, base>>
        /\ pc'[h] = "close" \/ (~Linux /\ pc'[h] = "close channels")
    BY <1>6, Went DEF ise_close, restVars
  <2>2. base' \in Bases
    BY <1>0, <2>1, OneBase
  <2>. QED BY <2>1, <2>2 DEF ArgInv, FramePlaces, Linux
<1>7. ASSUME CloseFrames(h) PROVE Kept
  <2>1. PICK f \in Frames : pc[h] = "close" /\ Unmap(h, f) /\ Go(h, "free all") /\ UNCHANGED restVars
    BY <1>7 DEF CloseFrames
  <2>2. /\ UNCHANGED <<platform, talker>> /\ pc'[h] = "free all" /\ arg'[h] = f
        /\ base' = [base EXCEPT ![h][f] = "null"]
    BY <2>1, Went DEF Unmap, restVars, Kinds
  <2>3. base' \in Bases
    <3>1. "null" \in {"null", "good"} /\ f \in Frames
      BY <2>1
    <3>2. base' = [base EXCEPT ![h][f] = "null"]
      BY <2>2
    <3>. QED BY <1>0, <3>1, <3>2, OneBase
  <2>. QED BY <2>2, <2>3 DEF ArgInv, FramePlaces
<1>8. ASSUME CloseFrameDevice(h) PROVE Kept
  <2>1. UNCHANGED <<platform, talker>> /\ pc'[h] = "close"
    BY <1>8, Went DEF CloseFrameDevice, restVars
  <2>2. base' \in Bases
    BY <1>0, <1>8, NoBases DEF CloseFrameDevice, FramesWithout
  <2>. QED BY <2>1, <2>2 DEF ArgInv, FramePlaces
<1>9. ASSUME RestartFirst(h) \/ OpenMonitor(h) \/ SwitchMonitor(h) PROVE Kept
  <2>1. /\ UNCHANGED <<platform, talker, base>>
        /\ pc'[h] \in {"monitor", "null", "lost", "switch", "hello"}
    BY <1>9, Went, Ended DEF RestartFirst, OpenMonitor, SwitchMonitor, OpenRefused, OpenFails, OpenLost
  <2>. QED BY <1>1, <2>1 DEF FramePlaces
<1>10. ASSUME Hello(h) \/ Prompt(h) \/ Version(h) \/ VersionFails(h) \/ FindsPrompt(h) \/ CloseMonitor(h) PROVE Kept
  <2>1. /\ UNCHANGED <<platform, talker, base>>
        /\ pc'[h] \in {"prompt", "version", "goodbye", "restart2"}
    BY <1>10, Went DEF Hello, Prompt, Version, VersionFails, FindsPrompt, CloseMonitor
  <2>. QED BY <1>1, <2>1 DEF FramePlaces
<1>11. ASSUME RestartAgain(h) \/ OpenReturns(h) \/ ResetForFirmware(h) \/ OpenFirmware(h) \/ NoFirmware(h) \/ OpenChannel(h) PROVE Kept
  <2>1. /\ UNCHANGED <<platform, talker, base>>
        /\ pc'[h] \in {"opened", "idle", "open0", "send"} \/ (pc[h] = "open" /\ pc'[h] = "number" /\ arg' = arg)
    BY <1>11, Went, Ended DEF RestartAgain, OpenReturns, ResetForFirmware, OpenFirmware, NoFirmware, OpenChannel, Return
  <2>. QED BY <1>0, <2>1 DEF ArgInv, FramePlaces, Linux
<1>12. ASSUME SendFirmware(h) \/ SendFails(h) \/ SyncFirmware(h) \/ CloseFirmware(h) \/ run_program(h) \/ RestartReturns(h) PROVE Kept
  <2>1. /\ UNCHANGED <<platform, talker, base>>
        /\ pc'[h] \in {"send", "sync", "close0", "run", "running", "idle"}
    BY <1>12, Went, Ended DEF SendFirmware, SendFails, SyncFirmware, CloseFirmware, run_program, Retry, RestartReturns, Return
  <2>. QED BY <1>1, <2>1 DEF FramePlaces
<1>13. ASSUME NumberChannel(h) PROVE Kept
  <2>1. UNCHANGED <<platform, talker, base>> /\ pc'[h] = "idle"
    BY <1>13, Ended DEF NumberChannel, Return
  <2>. QED BY <1>1, <2>1 DEF FramePlaces
<1>14. ASSUME readln_linux(h) \/ readln_windows(h) \/ ReadMore(h) \/ ReadFails(h) PROVE Kept
  <2>1. UNCHANGED <<platform, talker, base>> /\ (pc'[h] = "idle" \/ (pc'[h] = pc[h] /\ arg'[h] = arg[h]))
    BY <1>14, Ended DEF readln_linux, readln_windows, TakeText, GiveLine, ReadMore, ReadFails, GiveUp, Return, callVars
  <2>. QED BY <1>1, <2>1 DEF FramePlaces
<1>15. ASSUME MapFrame(h) PROVE Kept
  <2>1. /\ UNCHANGED <<platform, talker>> /\ pc'[h] = "idle" /\ arg[h] \in Frames
        /\ base' = [base EXCEPT ![h][arg[h]] = "good"]
    BY <1>15, Ended DEF MapFrame, Return, restVars, ArgInv, FramePlaces
  <2>2. base' \in Bases
    BY <1>0, <2>1, OneBase
  <2>. QED BY <2>1, <2>2 DEF ArgInv, FramePlaces
<1>16. ASSUME FreeFrame(h) PROVE Kept
  <2>1. UNCHANGED <<platform, talker, base>> /\ pc'[h] \in {"idle", "close"}
    BY <1>16, Ended DEF FreeFrame, restVars
  <2>. QED BY <1>1, <2>1 DEF FramePlaces
<1>17. ASSUME CloseChannels(h) PROVE Kept
  <2>1. UNCHANGED <<platform, talker, base, pc, arg>>
    BY <1>17 DEF CloseChannels, CloseChannel, callVars
  <2>. QED BY <1>1, <2>1
<1>18. ASSUME LastStep(h) \/ LastRestart(h) PROVE Kept
  <2>1. UNCHANGED <<platform, talker, base>> /\ pc'[h] \in {"last restart", "null"}
    BY <1>18, Went, Ended DEF LastStep, LastRestart, Forget
  <2>. QED BY <1>1, <2>1 DEF FramePlaces
<1>19. ASSUME Exit(h) \/ Crash(h) PROVE Kept
  <2>1. /\ UNCHANGED <<platform, talker>> /\ pc'[h] = "null"
        /\ base' = [base EXCEPT ![h] = [f \in Frames |-> "null"]]
    BY <1>19, Ended DEF Exit, Crash, Die, Forget
  <2>2. base' \in Bases
    BY <2>1, <1>0 DEF Bases
  <2>. QED BY <2>1, <2>2 DEF ArgInv, FramePlaces
<1>. QED
  BY <1>2, <1>3, <1>4, <1>5, <1>6, <1>7, <1>8, <1>9, <1>10, <1>11, <1>12, <1>13, <1>14, <1>15, <1>16,
     <1>17, <1>18, <1>19 DEF Call, Step

-----------------------------------------------------------------------------
(* Who has a frame.                                                         *)

\* A mapping of the library is one of the driver, frames that are mapped are
\* there, and every frame has a holder with a channel to free it on.
FrameInv ==
  /\ frames \subseteq Frames /\ orphans \subseteq frames
  /\ mapped \in [Frames -> SUBSET Handles]
  /\ \A f \in Frames : mapped[f] # {} => f \in frames
  /\ \A h \in Handles : \A f \in Frames : base[h][f] = "good" <=> h \in mapped[f]
  /\ FramesAreHeld /\ ChannelForFrames

\* What a step of process h may do about frames.
FrameFacts(h) ==
  /\ frames' \subseteq Frames /\ orphans' \subseteq frames'
  /\ mapped' \in [Frames -> SUBSET Handles]
  /\ \A f \in Frames : mapped'[f] # {} => f \in frames'
  /\ \A f \in Frames : \A g \in Handles \ {h} : g \in mapped'[f] <=> g \in mapped[f]
  /\ \A f \in Frames : base'[h][f] = "good" <=> h \in mapped'[f]
  /\ \A f \in frames' \ orphans' :
       \/ Holds(h, f)' \/ \E g \in Handles \ {h} : Holds(g, f)
       \/ f \in frames \ orphans /\ ~Holds(h, f)
  /\ Linux => \A f \in Frames : Holds(h, f)' => clist'[h] # <<>>

LEMMA FramesFrom ==
  ASSUME Kinds, FrameInv, NEW h \in Handles, UNCHANGED platform,
         \A g \in Handles \ {h} : Own(g)' = Own(g), FrameFacts(h)
  PROVE  FrameInv'
<1>1. \A g \in Handles \ {h} : \A f : Holds(g, f)' <=> Holds(g, f)
  BY DEF Holds, Own
<1>2. \A g \in Handles \ {h} : base'[g] = base[g] /\ clist'[g] = clist[g]
  BY DEF Own
<1>3. FramesAreHeld'
  <2> SUFFICES ASSUME NEW f \in frames' \ orphans' PROVE \E g \in Handles : Holds(g, f)'
    BY DEF FramesAreHeld
  <2>1. CASE Holds(h, f)'
    BY <2>1
  <2>2. CASE \E g \in Handles \ {h} : Holds(g, f)
    BY <2>2, <1>1
  <2>3. CASE f \in frames \ orphans /\ ~Holds(h, f)
    <3>1. PICK g \in Handles : Holds(g, f)
      BY <2>3 DEF FrameInv, FramesAreHeld
    <3>. QED BY <3>1, <2>3, <1>1
  <2>. QED BY <2>1, <2>2, <2>3 DEF FrameFacts
<1>4. ChannelForFrames'
  <2> SUFFICES ASSUME Linux, NEW g \in Handles, NEW f \in Frames, Holds(g, f)' PROVE clist'[g] # <<>>
    BY DEF ChannelForFrames, Linux
  <2>1. CASE g = h
    BY <2>1 DEF FrameFacts
  <2>2. CASE g # h
    BY <2>2, <1>1, <1>2 DEF FrameInv, ChannelForFrames
  <2>. QED BY <2>1, <2>2
<1>5. \A g \in Handles : \A f \in Frames : base'[g][f] = "good" <=> g \in mapped'[f]
  BY <1>2 DEF FrameFacts, FrameInv
<1>. QED BY <1>3, <1>4, <1>5 DEF FrameFacts, FrameInv

\* A step that has nothing to do with frames, but may restart the board.
LEMMA FramesRest ==
  ASSUME Kinds, FrameInv, NEW h \in Handles, base' = base, UNCHANGED frameVars \/ restart_ise,
         pc[h] \notin FramePlaces, pc'[h] \notin FramePlaces,
         Linux => (clist[h] # <<>> => clist'[h] # <<>>) \/ FramesDone(h)
  PROVE  FrameFacts(h)
<1>1. \/ UNCHANGED <<frames, mapped, orphans>>
      \/ frames' = {f \in frames : mapped[f] # {}} /\ orphans' = orphans \cap frames' /\ mapped' = mapped
  BY DEF restart_ise, RestartBoard, frameVars
<1>2. \A f : Holds(h, f)' <=> Holds(h, f)
  BY DEF Holds, FramePlaces
<1>3. \A f \in Frames : Holds(h, f) => clist[h] # <<>> \/ ~Linux
  BY DEF FrameInv, ChannelForFrames
<1>4. FramesDone(h) => \A f \in Frames : ~Holds(h, f)
  BY DEF FramesDone, Holds, FramePlaces
<1>5. UNCHANGED mapped /\ frames' \subseteq frames /\ orphans' = orphans \cap frames' /\ \A f \in frames : mapped[f] # {} => f \in frames'
  BY <1>1 DEF frameVars, FrameInv
<1>6. \A f \in frames' \ orphans' : Holds(h, f)' \/ (f \in frames \ orphans /\ ~Holds(h, f))
  BY <1>2, <1>5
<1>. QED BY <1>2, <1>3, <1>4, <1>5, <1>6 DEF FrameFacts, FrameInv

LEMMA FrameStep ==
  ASSUME Kinds, FrameInv, NEW h \in Handles, ArgInv(h), Call(h) \/ Step(h) \/ Exit(h)
  PROVE  FrameFacts(h)
<1>0. base \in Bases /\ ChannelForFrames /\ FramesAreHeld
  BY DEF Kinds, FrameInv
<1>1. ASSUME UNCHANGED <<clist, base>>, UNCHANGED frameVars \/ restart_ise,
             pc[h] \notin FramePlaces, pc'[h] \notin FramePlaces
      PROVE  FrameFacts(h)
  BY <1>1, FramesRest
<1>2. ASSUME \/ ise_bind(h) \/ bind_windows(h) \/ ise_open(h) \/ ise_restart(h)
             \/ ise_channel(h) \/ ise_timeout(h) \/ ise_writeln(h) \/ ise_readln(h) \/ ise_close(h)
      PROVE  FrameFacts(h)
  <2>1. /\ UNCHANGED <<clist, base, frameVars>> /\ pc[h] \in {"null", "idle"}
        /\ pc'[h] \in {"idle", "restart1", "reset", "open", "readln", "close", "close channels"}
    BY <1>2, Went DEF ise_bind, bind_windows, ise_open, ise_restart, ise_channel, ise_timeout, ise_writeln,
         ise_readln, ise_close, restVars, callVars
  <2>. QED BY <1>1, <2>1 DEF FramePlaces
<1>3. ASSUME \/ RestartFirst(h) \/ OpenMonitor(h) \/ SwitchMonitor(h) \/ Hello(h) \/ Prompt(h) \/ Version(h)
             \/ VersionFails(h) \/ FindsPrompt(h) \/ CloseMonitor(h)
      PROVE  FrameFacts(h)
  <2>1. /\ UNCHANGED <<clist, base>> /\ (UNCHANGED frameVars \/ restart_ise)
        /\ pc[h] \in {"restart1", "monitor", "switch", "lost"} \cup Takes254
        /\ pc'[h] \in {"monitor", "null", "lost", "switch", "restart2"} \cup Takes254
    BY <1>3, Went, Ended DEF RestartFirst, OpenMonitor, SwitchMonitor, OpenRefused, OpenFails, OpenLost, Hello, Prompt, Version,
         VersionFails, FindsPrompt, Astray, CloseMonitor, Takes254
  <2>. QED BY <1>1, <2>1 DEF FramePlaces, Takes254
<1>4. ASSUME RestartAgain(h) \/ OpenReturns(h) \/ ResetForFirmware(h) \/ OpenFirmware(h) \/ NoFirmware(h) \/ OpenChannel(h)
      PROVE  FrameFacts(h)
  <2>1. /\ UNCHANGED <<clist, base>> /\ (UNCHANGED frameVars \/ restart_ise)
        /\ pc[h] \in {"restart2", "opened", "reset", "open0", "send", "open"}
        /\ pc'[h] \in {"opened", "idle", "open0", "send", "number"}
    BY <1>4, Went, Ended DEF RestartAgain, OpenReturns, ResetForFirmware, OpenFirmware, NoFirmware, OpenChannel, Return
  <2>. QED BY <1>1, <2>1 DEF FramePlaces
<1>5. ASSUME SendFirmware(h) \/ SendFails(h) \/ SyncFirmware(h) \/ CloseFirmware(h) \/ run_program(h) \/ RestartReturns(h)
      PROVE  FrameFacts(h)
  <2>1. /\ UNCHANGED <<clist, base, frameVars>>
        /\ pc[h] \in {"send", "sync", "close0", "run", "running"}
        /\ pc'[h] \in {"send", "sync", "close0", "run", "running", "idle"}
    BY <1>5, Went, Ended DEF SendFirmware, SendFails, SyncFirmware, CloseFirmware, run_program, Retry, RestartReturns, Return
  <2>. QED BY <1>1, <2>1 DEF FramePlaces
<1>6. ASSUME NumberChannel(h) PROVE FrameFacts(h)
  <2>1. /\ UNCHANGED <<base, frameVars>> /\ pc[h] = "number" /\ pc'[h] = "idle" /\ arg[h] \in Cids
        /\ clist' = clist \/ clist' = [clist EXCEPT ![h] = <<arg[h]>> \o @]
    BY <1>6, Ended DEF NumberChannel, NumberBusy, Return, ArgInv
  <2>2. clist'[h] = clist[h] \/ clist'[h] # <<>>
    BY <2>1, InCons DEF Kinds
  <2>. QED BY <2>1, <2>2, FramesRest DEF FramePlaces
<1>7. ASSUME readln_linux(h) \/ readln_windows(h) \/ ReadMore(h) \/ ReadFails(h) PROVE FrameFacts(h)
  <2>1. /\ UNCHANGED <<clist, base, frameVars>> /\ pc[h] = "readln" /\ pc'[h] \in {"idle", "readln"}
    BY <1>7, Ended DEF readln_linux, readln_windows, TakeText, GiveLine, ReadMore, ReadFails, GiveUp, Return, callVars
  <2>. QED BY <1>1, <2>1 DEF FramePlaces
<1>8. ASSUME CloseChannels(h) PROVE FrameFacts(h)
  <2>1. /\ UNCHANGED <<base, frameVars>> /\ pc' = pc
        /\ (pc[h] = "close" /\ FramesDone(h)) \/ pc[h] = "close channels"
    BY <1>8 DEF CloseChannels, CloseChannel, callVars
  <2>2. pc[h] = "close channels" => ~Linux
    BY DEF ArgInv
  <2>. QED BY <2>1, <2>2, FramesRest DEF FramePlaces
<1>9. ASSUME LastStep(h) \/ LastRestart(h) PROVE FrameFacts(h)
  <2>1. /\ UNCHANGED <<clist, base>> /\ (UNCHANGED frameVars \/ restart_ise)
        /\ pc[h] \in {"close", "last restart"} /\ pc'[h] \in {"last restart", "null"}
    BY <1>9, Went, Ended DEF LastStep, LastRestart, Forget
  <2>. QED BY <1>1, <2>1 DEF FramePlaces
<1>10. ASSUME NEW f \in Frames, make_frame_ise(h, f) PROVE FrameFacts(h)
  <2>1. /\ pc[h] = "idle" /\ clist[h] # <<>> /\ frames' = frames \cup {f} /\ pc'[h] = "map" /\ arg'[h] = f
        /\ UNCHANGED <<mapped, orphans, clist, base>>
    BY <1>10, Went DEF make_frame_ise, Kinds
  <2>2. \A g : Holds(h, g)' <=> Holds(h, g) \/ g = f
    BY <2>1 DEF Holds
  <2>. QED BY <2>1, <2>2 DEF FrameFacts, FrameInv
<1>11. ASSUME MapFrame(h) PROVE FrameFacts(h)
  <2>1. PICK f \in Frames : f = arg[h]
    BY <1>11 DEF MapFrame, ArgInv, FramePlaces
  <2>2. /\ pc[h] = "map" /\ pc'[h] = "idle" /\ UNCHANGED <<frames, orphans, clist>>
        /\ f \in frames /\ mapped' = [mapped EXCEPT ![f] = @ \cup {h}]
        /\ base' = [base EXCEPT ![h][f] = "good"]
    BY <1>11, <2>1, Ended DEF MapFrame, Return
  <2>3. Holds(h, f) /\ \A g \in Frames : Holds(h, g)' <=> Holds(h, g)
    <3>1. base'[h][f] # "null" /\ \A g \in Frames \ {f} : base'[h][g] = base[h][g]
      BY <1>0, <2>2, OneBase
    <3>. QED BY <3>1, <2>1, <2>2 DEF Holds, FramePlaces
  <2>4. base'[h][f] = "good" /\ \A g \in Frames \ {f} : base'[h][g] = base[h][g]
    BY <1>0, <2>2, OneBase
  <2>5. /\ mapped' \in [Frames -> SUBSET Handles] /\ \A g \in Frames \ {f} : mapped'[g] = mapped[g]
        /\ mapped'[f] = mapped[f] \cup {h}
    BY <2>2 DEF FrameInv
  <2>6. \A g \in Frames : mapped[g] # {} => g \in frames
    BY DEF FrameInv
  <2>. QED
    BY <2>2, <2>3, <2>4, <2>5, <2>6, <1>0 DEF FrameFacts, FrameInv, ChannelForFrames
<1>12. ASSUME NEW f \in Frames, make_frame_windows(h, f) PROVE FrameFacts(h)
  <2>1. /\ pc[h] = "idle" /\ pc' = pc /\ ~Linux /\ UNCHANGED orphans /\ frames' = frames \cup {f}
        /\ mapped' = [mapped EXCEPT ![f] = @ \cup {h}] /\ base' = [base EXCEPT ![h][f] = "good"]
    BY <1>12 DEF make_frame_windows, callVars
  <2>2. base'[h][f] = "good" /\ \A g \in Frames \ {f} : base'[h][g] = base[h][g]
    BY <1>0, <2>1, OneBase
  <2>3. \A g \in Frames : Holds(h, g)' <=> Holds(h, g) \/ g = f
    BY <2>1, <2>2 DEF Holds
  <2>4. /\ mapped' \in [Frames -> SUBSET Handles] /\ \A g \in Frames \ {f} : mapped'[g] = mapped[g]
        /\ mapped'[f] = mapped[f] \cup {h}
    BY <2>1 DEF FrameInv
  <2>. QED BY <2>1, <2>2, <2>3, <2>4 DEF FrameFacts, FrameInv
<1>13. ASSUME NEW f \in Frames, base[h][f] # "null", UNCHANGED <<frames, orphans, clist>>, Unmap(h, f),
              pc[h] \notin FramePlaces, pc'[h] \in {"free", "free all"}
       PROVE  FrameFacts(h)
  <2>1. /\ mapped' = [mapped EXCEPT ![f] = @ \ {h}] /\ base' = [base EXCEPT ![h][f] = "null"] /\ arg'[h] = f
    BY <1>13 DEF Unmap, Kinds
  <2>2. base'[h][f] = "null" /\ \A g \in Frames \ {f} : base'[h][g] = base[h][g]
    BY <1>0, <2>1, OneBase
  <2>3. \A g \in Frames : Holds(h, g)' <=> Holds(h, g)
    BY <1>13, <2>1, <2>2 DEF Holds, FramePlaces
  <2>4. /\ mapped' \in [Frames -> SUBSET Handles] /\ \A g \in Frames \ {f} : mapped'[g] = mapped[g]
        /\ mapped'[f] = mapped[f] \ {h}
    BY <2>1 DEF FrameInv
  <2>. QED BY <1>13, <2>2, <2>3, <2>4, <1>0 DEF FrameFacts, FrameInv, ChannelForFrames
<1>14. ASSUME NEW f \in Frames, delete_frame_ise(h, f) PROVE FrameFacts(h)
  <2>1. /\ base[h][f] # "null" /\ UNCHANGED <<frames, orphans, clist>> /\ Unmap(h, f)
        /\ pc[h] = "idle" /\ pc'[h] = "free"
    BY <1>14, Went DEF delete_frame_ise
  <2>. QED BY <1>13, <2>1 DEF FramePlaces
<1>15. ASSUME CloseFrames(h) PROVE FrameFacts(h)
  <2>1. PICK f \in Frames : base[h][f] # "null" /\ Unmap(h, f) /\ Go(h, "free all")
    BY <1>15 DEF CloseFrames
  <2>2. UNCHANGED <<frames, orphans, clist>> /\ pc[h] = "close" /\ pc'[h] = "free all"
    BY <1>15, <2>1, Went DEF CloseFrames
  <2>. QED BY <1>13, <2>1, <2>2 DEF FramePlaces
<1>16. ASSUME FreeFrame(h) PROVE FrameFacts(h)
  <2>1. PICK f \in Frames : f = arg[h]
    BY <1>16 DEF FreeFrame, ArgInv, FramePlaces
  <2>2. /\ pc[h] \in {"free", "free all"} /\ pc'[h] \in {"idle", "close"}
        /\ UNCHANGED <<mapped, clist, base>>
        /\ frames' = (IF mapped[f] = {} THEN frames \ {f} ELSE frames) /\ orphans' = orphans \cap frames'
    BY <1>16, <2>1, Ended DEF FreeFrame, Free
  <2>3. \A g \in Frames : Holds(h, g)' <=> base[h][g] # "null"
    BY <2>2 DEF Holds
  <2>4. \A g \in Frames : Holds(h, g) <=> base[h][g] # "null" \/ g = f
    BY <2>1, <2>2 DEF Holds, FramePlaces
  <2>5. f \in frames' => Holds(h, f)' \/ \E g \in Handles \ {h} : Holds(g, f)
    <3>1. SUFFICES ASSUME mapped[f] # {} PROVE Holds(h, f)' \/ \E g \in Handles \ {h} : Holds(g, f)
      BY <2>2
    <3>2. PICK g \in Handles : g \in mapped[f]
      BY <3>1 DEF FrameInv
    <3>3. base[g][f] = "good"
      BY <3>2 DEF FrameInv
    <3>. QED BY <3>3, <2>3 DEF Holds
  <2>6. \A g \in frames' \ orphans' :
          \/ Holds(h, g)' \/ \E i \in Handles \ {h} : Holds(i, g)
          \/ g \in frames \ orphans /\ ~Holds(h, g)
    BY <2>2, <2>3, <2>4, <2>5 DEF FrameInv
  <2>. QED BY <2>2, <2>3, <2>4, <2>6, <1>0 DEF FrameFacts, FrameInv, ChannelForFrames
<1>17. ASSUME NEW gone, FramesWithout(h, gone), pc[h] \notin FramePlaces, pc'[h] \notin FramePlaces, ~Linux
       PROVE  FrameFacts(h)
  <2>1. /\ mapped' = [f \in Frames |-> IF f \in gone THEN mapped[f] \ {h} ELSE mapped[f]]
        /\ frames' = {f \in frames : f \notin gone \/ mapped'[f] # {}}
        /\ base' = [base EXCEPT ![h] = [f \in Frames |-> IF f \in gone THEN "null" ELSE @[f]]]
        /\ orphans' = orphans \cap frames'
    BY <1>17 DEF FramesWithout
  <2>2. \A f \in Frames : base'[h][f] = IF f \in gone THEN "null" ELSE base[h][f]
    BY <1>0, <2>1, NoBases
  <2>3. \A f \in Frames : Holds(h, f)' <=> f \notin gone /\ Holds(h, f)
    BY <1>17, <2>2 DEF Holds, FramePlaces
  <2>4. /\ mapped' \in [Frames -> SUBSET Handles]
        /\ \A f \in Frames : mapped'[f] = IF f \in gone THEN mapped[f] \ {h} ELSE mapped[f]
    BY <2>1 DEF FrameInv
  <2>5. \A f \in frames' \ orphans' :
          \/ Holds(h, f)' \/ \E g \in Handles \ {h} : Holds(g, f)
          \/ f \in frames \ orphans /\ ~Holds(h, f)
    <3> SUFFICES ASSUME NEW f \in frames' \ orphans', ~Holds(h, f)', Holds(h, f)
                 PROVE  \E g \in Handles \ {h} : Holds(g, f)
      BY <2>1 DEF FrameInv
    <3>1. f \in Frames /\ f \in gone /\ mapped'[f] # {}
      BY <2>1, <2>3 DEF FrameInv
    <3>2. PICK g \in Handles \ {h} : g \in mapped[f]
      BY <3>1, <2>4 DEF FrameInv
    <3>3. base[g][f] = "good"
      BY <3>1, <3>2 DEF FrameInv
    <3>. QED BY <3>3 DEF Holds
  <2>6. frames' \subseteq Frames /\ orphans' \subseteq frames'
    BY <2>1 DEF FrameInv
  <2>7. \A f \in Frames : mapped'[f] # {} => f \in frames'
    BY <2>1, <2>4 DEF FrameInv
  <2>. QED BY <1>17, <2>2, <2>4, <2>5, <2>6, <2>7 DEF FrameFacts, FrameInv
<1>18. ASSUME NEW f \in Frames, delete_frame_windows(h, f) PROVE FrameFacts(h)
  <2>1. FramesWithout(h, {f}) /\ pc[h] = "idle" /\ pc' = pc /\ ~Linux
    BY <1>18 DEF delete_frame_windows, callVars
  <2>. QED BY <1>17, <2>1 DEF FramePlaces
<1>19. ASSUME CloseFrameDevice(h) PROVE FrameFacts(h)
  <2>1. FramesWithout(h, Frames) /\ pc[h] = "close channels" /\ pc'[h] = "close"
    BY <1>19, Went DEF CloseFrameDevice
  <2>. QED BY <1>17, <2>1 DEF FramePlaces, ArgInv
<1>20. ASSUME Exit(h) \/ Crash(h) PROVE FrameFacts(h)
  <2>1. /\ pc'[h] = "null" /\ frames' = frames
        /\ mapped' = [f \in Frames |-> mapped[f] \ {h}]
        /\ base' = [base EXCEPT ![h] = [f \in Frames |-> "null"]]
        /\ orphans' = {f \in frames : \A g \in Handles \ {h} : ~Holds(g, f)}
    BY <1>20, Ended DEF Exit, Crash, Die, Forget
  <2>2. \A f \in Frames : base'[h][f] = "null" /\ ~Holds(h, f)'
    BY <1>0, <2>1 DEF Holds, Bases
  <2>3. /\ mapped' \in [Frames -> SUBSET Handles] /\ \A f \in Frames : mapped'[f] = mapped[f] \ {h}
    BY <2>1 DEF FrameInv
  <2>. QED BY <2>1, <2>2, <2>3 DEF FrameFacts, FrameInv
<1>. QED
  BY <1>2, <1>3, <1>4, <1>5, <1>6, <1>7, <1>8, <1>9, <1>10, <1>11, <1>12, <1>14, <1>15, <1>16, <1>18,
     <1>19, <1>20 DEF Call, Step

-----------------------------------------------------------------------------
(* Firmware on its way, and what else has a limit.                          *)

\* Processes with firmware on channel 0, and what `left` may be.
Writes0 == {"send", "sync", "close0"}
Lefts == (0 .. Pieces + Retries) \cup BufLens

LEMMA LeftsKnown ==
  /\ Pieces \in Nat \ {0} /\ Retries \in Nat \ {0} /\ Lefts \subseteq Nat
  /\ 0 .. Pieces + Retries \subseteq Lefts /\ BufLens \subseteq Lefts /\ 0 \in 0 .. Pieces + Retries
<1>1. Pieces \in Nat \ {0} /\ Retries \in Nat \ {0} /\ BufLens \subseteq Nat
  BY LibAssumption
<1>. QED BY <1>1 DEF Lefts

\* Nobody but the process that sends has firmware on channel 0, and it sends no
\* more than the board takes.
SizeInv ==
  /\ image \in Seq(Handles) /\ Len(image) <= Pieces
  /\ fifo \in Seq(Handles) /\ Len(fifo) <= Pieces
  /\ fifo # <<>> => \E h \in Handles : owner[0] = h /\ pc[h] \in Writes0
  /\ \A h \in Handles : pc[h] = "send" => Len(fifo) + left[h] <= Pieces
  /\ \A h \in Handles : pc[h] = "run" => left[h] \in 1 .. Retries
  /\ mode \in {"prom", "loaded", "program"}
  /\ left \in [Handles -> Lefts]
  /\ isex \subseteq Handles /\ hindered \subseteq Handles

\* What a step of process h may do about them when it sends nothing.
SizeFacts(h) ==
  /\ image' = image \/ image' = <<>>
  /\ fifo' = fifo \/ fifo' = <<>>
  /\ fifo' # <<>> => \/ owner[0] # h
                     \/ owner'[0] = h /\ pc'[h] \in Writes0
  /\ mode' \in {"prom", "loaded", "program"}
  /\ left' = left \/ \E n \in Lefts : left' = [left EXCEPT ![h] = n]
  /\ pc'[h] = "run" => left'[h] \in 1 .. Retries
  /\ pc'[h] = "send" => Len(fifo') + left'[h] <= Pieces
  /\ isex' \subseteq Handles /\ hindered' \subseteq Handles

\* Process h does what the invariants of its own variables say.
Moved(h) ==
  /\ Kinds /\ h \in Handles /\ \A g \in Handles : OwnerInv(g)
  /\ \A g \in Handles \ {h} : Own(g)' = Own(g)
  /\ Domains' = <<Handles, Handles, Handles, Handles>>
  /\ \A g \in Handles \ {h} : owner[0] = g => owner'[0] = g

LEMMA SizeFrom ==
  ASSUME SizeInv, NEW h, Moved(h), SizeFacts(h)
  PROVE  SizeInv'
<1>0. Pieces \in Nat /\ Retries \in Nat /\ None \notin Handles /\ Lefts \subseteq Nat
  BY LibAssumption, LeftsKnown
<1>8. <<>> \in Seq(Handles) /\ Len(<<>>) = 0 /\ Len(fifo) \in Nat /\ Len(image) \in Nat
  BY LenProperties DEF SizeInv
<1>1. \A g \in Handles \ {h} : pc'[g] = pc[g] /\ left'[g] = left[g]
  BY DEF Moved, Own
<1>2. left' \in [Handles -> Lefts]
  BY DEF Moved, SizeInv, SizeFacts
<1>3. image' \in Seq(Handles) /\ Len(image') <= Pieces
  <2>1. image \in Seq(Handles) /\ Len(image) <= Pieces /\ (image' = image \/ image' = <<>>)
    BY DEF SizeInv, SizeFacts
  <2>2. CASE image' = image
    BY <2>1, <2>2
  <2>3. CASE image' = <<>>
    BY <1>0, <1>8, <2>3
  <2>. QED BY <2>1, <2>2, <2>3
<1>4. fifo' \in Seq(Handles) /\ Len(fifo') <= Len(fifo) /\ Len(fifo) <= Pieces /\ Len(fifo) \in Nat /\ Len(fifo') \in Nat
  <2>1. fifo \in Seq(Handles) /\ Len(fifo) <= Pieces /\ (fifo' = fifo \/ fifo' = <<>>)
    BY DEF SizeInv, SizeFacts
  <2>2. CASE fifo' = fifo
    BY <1>8, <2>1, <2>2
  <2>3. CASE fifo' = <<>>
    BY <1>0, <1>8, <2>1, <2>3
  <2>. QED BY <2>1, <2>2, <2>3
<1>5. ASSUME fifo' # <<>> PROVE \E g \in Handles : owner'[0] = g /\ pc'[g] \in Writes0
  <2>1. fifo' = fifo
    BY <1>5 DEF SizeFacts
  <2>2. PICK g \in Handles : owner[0] = g /\ pc[g] \in Writes0
    BY <1>5, <2>1 DEF SizeInv
  <2>3. CASE g = h
    BY <1>5, <2>2, <2>3 DEF SizeFacts, Moved
  <2>4. CASE g # h
    BY <1>1, <2>2, <2>4 DEF Moved
  <2>. QED BY <2>3, <2>4
<1>6. ASSUME NEW g \in Handles, pc'[g] = "send" PROVE Len(fifo') + left'[g] <= Pieces
  <2>1. CASE g = h
    BY <1>6, <2>1 DEF SizeFacts
  <2>2. CASE g # h
    <3>1. left'[g] = left[g] /\ pc[g] = "send" /\ left[g] \in Lefts
      BY <1>1, <1>6, <2>2 DEF SizeInv
    <3>2. Len(fifo) + left[g] <= Pieces
      BY <3>1 DEF SizeInv
    <3>3. left[g] \in Nat
      BY <1>0, <3>1
    <3>. QED BY <1>0, <1>4, <1>8, <3>1, <3>2, <3>3
  <2>. QED BY <2>1, <2>2
<1>7. ASSUME NEW g \in Handles, pc'[g] = "run" PROVE left'[g] \in 1 .. Retries
  BY <1>1, <1>7 DEF SizeFacts, SizeInv
<1>. QED
  <2>1. Len(fifo') <= Pieces
    BY <1>0, <1>4
  <2>. QED BY <1>2, <1>3, <1>4, <1>5, <1>6, <1>7, <2>1 DEF SizeInv, SizeFacts

\* Most steps send nothing.
LEMMA SizeCalm ==
  ASSUME SizeInv, NEW h \in Handles, UNCHANGED <<fifo, image, mode>> \/ restart_ise,
         pc[h] \notin Writes0, pc'[h] \notin {"send", "run"},
         left' = left \/ \E n \in BufLens \cup {0} : left' = [left EXCEPT ![h] = n],
         isex' \subseteq Handles, hindered' \subseteq Handles
  PROVE  SizeFacts(h)
<1>1. UNCHANGED <<fifo, image, mode>> \/ (fifo' = <<>> /\ image' = <<>> /\ mode' = "prom")
  BY DEF restart_ise, RestartBoard, boardVars
<1>2. fifo # <<>> => owner[0] # h
  BY DEF SizeInv
<1>3. 0 \in Lefts /\ BufLens \subseteq Lefts
  BY LeftsKnown
<1>4. fifo' # <<>> => owner[0] # h
  BY <1>1, <1>2
<1>5. mode' \in {"prom", "loaded", "program"}
  BY <1>1 DEF SizeInv
<1>. QED BY <1>1, <1>3, <1>4, <1>5 DEF SizeFacts

LEMMA Flags ==
  ASSUME SizeInv, NEW h \in Handles
  PROVE  /\ Meet(h) => hindered' \subseteq Handles
         /\ Hinder(h) => hindered' \subseteq Handles
         /\ hindered' = hindered \/ hindered' = hindered \ {h} => hindered' \subseteq Handles
         /\ isex' = isex \/ isex' = isex \ {h} \/ isex' = isex \cup {h} => isex' \subseteq Handles
BY DEF Meet, Hinder, SizeInv

LEMMA SizeStep ==
  ASSUME SizeInv, NEW h, Moved(h), Call(h) \/ Step(h) \/ Exit(h)
  PROVE  SizeInv'
<1>0. /\ h \in Handles /\ Kinds /\ Pieces \in Nat \ {0} /\ Retries \in Nat \ {0}
      /\ Lefts \subseteq Nat /\ 0 .. Pieces + Retries \subseteq Lefts /\ 0 \in 0 .. Pieces + Retries
  BY LeftsKnown DEF Moved
<1> USE <1>0
<1>1. ASSUME \/ ise_bind(h) \/ bind_windows(h) \/ ise_open(h) \/ ise_restart(h)
             \/ ise_channel(h) \/ ise_timeout(h) \/ ise_writeln(h) \/ ise_readln(h) \/ ise_close(h)
      PROVE  SizeFacts(h)
  <2>1. /\ UNCHANGED <<fifo, image, mode>> /\ pc[h] \in {"null", "idle"}
        /\ left' = left \/ \E n \in BufLens : left' = [left EXCEPT ![h] = n]
        /\ pc'[h] \in {"idle", "restart1", "reset", "open", "readln", "close", "close channels"}
    BY <1>1, Went DEF ise_bind, bind_windows, ise_open, ise_restart, ise_channel, ise_timeout, ise_writeln,
         ise_readln, ise_close, restVars, callVars, boardVars
  <2>2. /\ isex' = isex \/ isex' = isex \cup {h}
        /\ hindered' = hindered \/ Meet(h)
    BY <1>1 DEF ise_bind, bind_windows, ise_open, ise_restart, ise_channel, ise_timeout, ise_writeln,
         ise_readln, ise_close, restVars
  <2>3. isex' \subseteq Handles /\ hindered' \subseteq Handles
    BY <2>2, Flags
  <2>. QED BY <2>1, <2>3, SizeCalm DEF Writes0
<1>2. ASSUME NEW f \in Frames, \/ make_frame_ise(h, f) \/ make_frame_windows(h, f)
                               \/ delete_frame_ise(h, f) \/ delete_frame_windows(h, f)
      PROVE  SizeFacts(h)
  <2>1. /\ UNCHANGED <<fifo, image, mode, left, isex, hindered>> /\ pc[h] = "idle"
        /\ pc'[h] \in {"idle", "map", "free"}
    BY <1>2, Went DEF make_frame_ise, make_frame_windows, delete_frame_ise, delete_frame_windows, restVars,
         callVars, boardVars
  <2>3. isex' \subseteq Handles /\ hindered' \subseteq Handles
    BY <2>1, Flags
  <2>. QED BY <2>1, <2>3, SizeCalm DEF Writes0
<1>3. ASSUME RestartFirst(h) \/ OpenMonitor(h) \/ SwitchMonitor(h) PROVE SizeFacts(h)
  <2>1. /\ UNCHANGED <<fifo, image, mode>> \/ restart_ise
        /\ pc[h] \in {"restart1", "monitor", "switch"}
        /\ pc'[h] \in {"monitor", "null", "lost", "switch", "hello"}
        /\ left' = left \/ left' = [left EXCEPT ![h] = 0]
        /\ isex' = isex \/ isex' = isex \ {h}
        /\ hindered' = hindered \/ hindered' = hindered \ {h} \/ Hinder(h)
    BY <1>3, Went, Ended DEF RestartFirst, OpenMonitor, SwitchMonitor, OpenRefused, OpenFails, OpenLost, End, boardVars
  <2>3. isex' \subseteq Handles /\ hindered' \subseteq Handles
    BY <2>1, Flags
  <2>. QED BY <2>1, <2>3, SizeCalm DEF Writes0
<1>4. ASSUME Hello(h) \/ Prompt(h) \/ Version(h) \/ VersionFails(h) \/ FindsPrompt(h) \/ CloseMonitor(h) PROVE SizeFacts(h)
  <2>1. /\ UNCHANGED <<fifo, image, mode, left, isex, hindered>>
        /\ pc[h] \in Takes254 \cup {"lost"} /\ pc'[h] \in Takes254 \cup {"restart2"}
    BY <1>4, Went DEF Hello, Prompt, Version, VersionFails, FindsPrompt, Astray, CloseMonitor, Closed, Takes254, boardVars
  <2>3. isex' \subseteq Handles /\ hindered' \subseteq Handles
    BY <2>1, Flags
  <2>. QED BY <2>1, <2>3, SizeCalm DEF Takes254, Writes0
<1>5. ASSUME \/ RestartAgain(h) \/ OpenReturns(h) \/ ResetForFirmware(h) \/ RestartReturns(h) \/ OpenChannel(h)
             \/ NumberChannel(h)
      PROVE  SizeFacts(h)
  <2>1. /\ UNCHANGED <<fifo, image, mode>> \/ restart_ise
        /\ pc[h] \in {"restart2", "opened", "reset", "running", "open", "number"}
        /\ pc'[h] \in {"opened", "idle", "open0", "number"}
        /\ left' = left \/ left' = [left EXCEPT ![h] = 0]
        /\ isex' = isex
        /\ hindered' = hindered \/ hindered' = hindered \ {h} \/ Hinder(h)
    BY <1>5, Went, Ended DEF RestartAgain, OpenReturns, ResetForFirmware, RestartReturns, OpenChannel, NumberChannel, Return, End, boardVars
  <2>3. isex' \subseteq Handles /\ hindered' \subseteq Handles
    BY <2>1, Flags
  <2>. QED BY <2>1, <2>3, SizeCalm DEF Writes0
<1>6. ASSUME readln_linux(h) \/ readln_windows(h) \/ ReadMore(h) \/ ReadFails(h) \/ MapFrame(h) PROVE SizeFacts(h)
  <2>1. /\ UNCHANGED <<fifo, image, mode, isex>> /\ pc[h] \in {"readln", "map"} /\ pc'[h] \in {"idle", "readln"}
        /\ left' = left \/ left' = [left EXCEPT ![h] = 0]
        /\ hindered' = hindered \/ hindered' = hindered \ {h}
    BY <1>6, Ended DEF readln_linux, readln_windows, TakeText, GiveLine, ReadMore, ReadFails, GiveUp, MapFrame, Return, End,
         callVars, boardVars, restVars
  <2>3. isex' \subseteq Handles /\ hindered' \subseteq Handles
    BY <2>1, Flags
  <2>. QED BY <2>1, <2>3, SizeCalm DEF Writes0
<1>7. ASSUME FreeFrame(h) \/ CloseFrames(h) \/ CloseChannels(h) \/ CloseFrameDevice(h) PROVE SizeFacts(h)
  <2>1. /\ UNCHANGED <<fifo, image, mode, isex>> /\ pc[h] \in {"free", "free all", "close", "close channels"}
        /\ pc'[h] \in {"idle", "close", "free all", "close channels"}
        /\ left' = left \/ left' = [left EXCEPT ![h] = 0]
        /\ hindered' = hindered \/ hindered' = hindered \ {h}
    BY <1>7, Went, Ended DEF FreeFrame, CloseFrames, CloseChannels, CloseChannel, CloseFrameDevice, End,
         callVars, boardVars, restVars
  <2>3. isex' \subseteq Handles /\ hindered' \subseteq Handles
    BY <2>1, Flags
  <2>. QED BY <2>1, <2>3, SizeCalm DEF Writes0
<1>8. ASSUME LastStep(h) \/ LastRestart(h) PROVE SizeFacts(h)
  <2>1. /\ UNCHANGED <<fifo, image, mode>> \/ restart_ise
        /\ pc[h] \in {"close", "last restart"} /\ pc'[h] \in {"null", "last restart"}
        /\ left' = left \/ left' = [left EXCEPT ![h] = 0]
        /\ isex' = isex \/ isex' = isex \ {h}
        /\ hindered' = hindered \/ hindered' = hindered \ {h} \/ Meet(h)
    BY <1>8, Went, Ended DEF LastStep, LastRestart, Forget, End, boardVars
  <2>3. isex' \subseteq Handles /\ hindered' \subseteq Handles
    BY <2>1, Flags
  <2>. QED BY <2>1, <2>3, SizeCalm DEF Writes0
<1>9. ASSUME Exit(h) \/ Crash(h) PROVE SizeFacts(h)
  <2>1. /\ UNCHANGED <<image, mode>> /\ fifo' = (IF owner[0] = h THEN <<>> ELSE fifo)
        /\ pc'[h] = "null" /\ left' = [left EXCEPT ![h] = 0]
        /\ isex' = isex \ {h} /\ hindered' = hindered \ {h}
    BY <1>9, Ended DEF Exit, Crash, Die, Forget, End
  <2>3. isex' \subseteq Handles /\ hindered' \subseteq Handles /\ mode' \in {"prom", "loaded", "program"}
    BY <2>1, Flags DEF SizeInv
  <2>4. 0 \in Lefts
    OBVIOUS
  <2>. QED BY <2>1, <2>3, <2>4 DEF SizeFacts
<1>10. ASSUME OpenFirmware(h) PROVE SizeFacts(h)
  <2>1. /\ UNCHANGED <<image, mode, isex, fifo>> /\ pc[h] = "open0"
        /\ \/ pc'[h] = "idle" /\ left' = [left EXCEPT ![h] = 0] /\ hindered' = hindered \ {h}
           \/ /\ pc'[h] = "send" /\ left' = [left EXCEPT ![h] = Pieces] /\ hindered' = hindered
              /\ owner[0] = None
    BY <1>10, Went, Ended DEF OpenFirmware, Return, End, boardVars
  <2>3. isex' \subseteq Handles /\ hindered' \subseteq Handles
    BY <2>1, Flags
  <2>4. CASE pc'[h] = "idle"
    <3>1. left' = [left EXCEPT ![h] = 0] /\ UNCHANGED <<fifo, image, mode>>
      BY <2>1, <2>4
    <3>. QED BY <2>1, <2>3, <2>4, <3>1, SizeCalm DEF Writes0
  <2>5. CASE pc'[h] = "send"
    <3>1. fifo = <<>>
      BY <2>1, <2>5, LibAssumption DEF SizeInv
    <3>2. left'[h] = Pieces /\ Len(fifo') = 0
      BY <2>1, <2>5, <3>1 DEF SizeInv
    <3>3. mode' \in {"prom", "loaded", "program"} /\ Pieces \in Lefts
      BY <2>1 DEF SizeInv
    <3>. QED BY <2>1, <2>3, <2>5, <3>1, <3>2, <3>3 DEF SizeFacts
  <2>. QED BY <2>1, <2>4, <2>5
<1>11. ASSUME NoFirmware(h) \/ CloseFirmware(h) PROVE SizeFacts(h)
  <2>1. /\ UNCHANGED <<image, mode, isex>> /\ fifo' = <<>>
        /\ \/ pc'[h] = "idle" /\ left' = [left EXCEPT ![h] = 0] /\ hindered' = hindered \ {h}
           \/ pc'[h] = "run" /\ left' = [left EXCEPT ![h] = Retries] /\ hindered' = hindered
    BY <1>11, Went, Ended DEF NoFirmware, CloseFirmware, Closed, Return, End
  <2>3. isex' \subseteq Handles /\ hindered' \subseteq Handles /\ mode' \in {"prom", "loaded", "program"}
    BY <2>1, Flags DEF SizeInv
  <2>4. 0 \in Lefts /\ Retries \in Lefts /\ Retries \in 1 .. Retries
    OBVIOUS
  <2>5. pc'[h] = "run" => left'[h] \in 1 .. Retries
    BY <2>1, <2>4 DEF SizeInv
  <2>. QED BY <2>1, <2>3, <2>4, <2>5 DEF SizeFacts
<1>12. ASSUME SyncFirmware(h) PROVE SizeFacts(h)
  <2>1. /\ UNCHANGED <<owner, image, mode, isex, left, hindered, fifo>> /\ pc[h] = "sync" /\ pc'[h] = "close0"
    BY <1>12, Went DEF SyncFirmware, boardVars
  <2>2. owner[0] = h
    BY <2>1 DEF Moved, OwnerInv, Takes0
  <2>. QED BY <2>1, <2>2 DEF SizeFacts, SizeInv, Writes0
<1>15. ASSUME SendFails(h) PROVE SizeFacts(h)
  <2>1. /\ UNCHANGED <<owner, image, mode, isex, hindered, fifo, pc>> /\ pc[h] = "send" /\ left[h] > 0
        /\ left' = [left EXCEPT ![h] = @ - 1]
    BY <1>15 DEF SendFails, boardVars
  <2>2. owner[0] = h
    BY <2>1 DEF Moved, OwnerInv, Takes0
  <2>3. /\ left \in [Handles -> Lefts] /\ fifo \in Seq(Handles) /\ Len(fifo) \in Nat
        /\ Len(fifo) + left[h] <= Pieces
    BY <2>1, LenProperties DEF SizeInv
  <2>4. left[h] - 1 \in 0 .. Pieces + Retries /\ Len(fifo) + (left[h] - 1) <= Pieces
    <3>1. left[h] \in Nat
      BY <2>3
    <3>. QED BY <2>1, <2>3, <3>1
  <2>5. left' = [left EXCEPT ![h] = left[h] - 1] /\ left'[h] = left[h] - 1
    BY <2>1, <2>3
  <2>6. left[h] - 1 \in Lefts
    BY <2>4
  <2>. QED BY <2>1, <2>2, <2>4, <2>5, <2>6 DEF SizeFacts, SizeInv, Writes0
<1>13. ASSUME run_program(h) PROVE SizeFacts(h)
  <2>1. /\ UNCHANGED <<fifo, isex>> /\ pc[h] = "run" /\ (image' = image \/ image' = <<>>)
        /\ mode' \in {mode, "program"}
        /\ \/ pc'[h] = "running" /\ left' = left /\ hindered' = hindered
           \/ pc'[h] = "idle" /\ left' = [left EXCEPT ![h] = 0] /\ hindered' = hindered \ {h}
           \/ pc'[h] = "run" /\ left[h] # 1 /\ left' = [left EXCEPT ![h] = @ - 1] /\ hindered' = hindered
    BY <1>13, Went, Ended DEF run_program, Retry, Return, End
  <2>2. isex' \subseteq Handles /\ hindered' \subseteq Handles /\ mode' \in {"prom", "loaded", "program"}
    BY <2>1, Flags DEF SizeInv
  <2>3. fifo # <<>> => owner[0] # h
    BY <2>1 DEF SizeInv, Writes0
  <2>4. left[h] \in 1 .. Retries /\ DOMAIN left = Handles
    BY <2>1 DEF SizeInv
  <2>7. left[h] - 1 \in 0 .. Pieces + Retries /\ (left[h] # 1 => left[h] - 1 \in 1 .. Retries)
    BY <2>4
  <2>8. left[h] - 1 \in Lefts /\ 0 \in Lefts
    BY <2>7
  <2>5. \/ left' = left \/ \E n \in Lefts : left' = [left EXCEPT ![h] = n]
    BY <2>1, <2>8
  <2>6. pc'[h] = "run" => left'[h] \in 1 .. Retries
    BY <2>1, <2>4, <2>7
  <2>. QED BY <2>1, <2>2, <2>3, <2>5, <2>6 DEF SizeFacts
<1>14. ASSUME SendFirmware(h) PROVE SizeInv'
  <2>1. pc[h] = "send" /\ UNCHANGED <<owner, image, mode, isex, hindered>>
    BY <1>14 DEF SendFirmware
  <2>2. owner[0] = h
    BY <2>1 DEF Moved, OwnerInv, Takes0
  <2>3. \A g \in Handles \ {h} : pc'[g] = pc[g] /\ left'[g] = left[g]
    BY DEF Moved, Own
  <2>4. \A g \in Handles \ {h} : pc[g] # "send"
    BY <2>2 DEF Moved, OwnerInv, Takes0
  <2>5. /\ left \in [Handles -> Lefts] /\ fifo \in Seq(Handles) /\ Len(fifo) \in Nat /\ Len(fifo) + left[h] <= Pieces
        /\ left[h] \in Nat
    BY <2>1, LenProperties DEF SizeInv
  <2>6. CASE left[h] > 0
    <3>1. fifo' = Append(fifo, h) /\ left' = [left EXCEPT ![h] = @ - 1] /\ pc' = pc
      BY <1>14, <2>6 DEF SendFirmware
    <3>2. fifo' \in Seq(Handles) /\ Len(fifo') = Len(fifo) + 1
      BY <2>5, <3>1, AppendProperties
    <3>6. left[h] - 1 \in 0 .. Pieces + Retries
      BY <2>5, <2>6
    <3>7. left[h] - 1 \in Lefts
      BY <3>6
    <3>3. left' \in [Handles -> Lefts] /\ left'[h] = left[h] - 1
      BY <2>5, <3>1, <3>7
    <3>4. Len(fifo') <= Pieces /\ Len(fifo') + left'[h] <= Pieces
      BY <2>5, <2>6, <3>2, <3>3
    <3>5. owner'[0] = h /\ pc'[h] = "send"
      BY <2>1, <2>2, <3>1
    <3>. QED BY <2>1, <2>3, <2>4, <3>1, <3>2, <3>3, <3>4, <3>5 DEF SizeInv, Writes0
  <2>7. CASE ~(left[h] > 0)
    <3>1. UNCHANGED <<fifo, left>> /\ pc'[h] = "sync"
      BY <1>14, <2>7, Went DEF SendFirmware
    <3>2. owner'[0] = h
      BY <2>1, <2>2
    <3>. QED BY <2>1, <2>3, <3>1, <3>2 DEF SizeInv, Writes0
  <2>. QED BY <2>6, <2>7
<1>. QED
  BY <1>1, <1>2, <1>3, <1>4, <1>5, <1>6, <1>7, <1>8, <1>9, <1>10, <1>11, <1>12, <1>13, <1>14, <1>15, SizeFrom DEF Call, Step

-----------------------------------------------------------------------------
(* Lines asked for, sent and read.                                          *)

CountInv ==
  /\ asked \in [Cids -> Nat] /\ sent \in [Cids -> Nat] /\ taken \in [Cids -> Nat]
  /\ \A c \in Cids : taken[c] <= sent[c] /\ sent[c] <= LineLen * asked[c]

LEMMA OneMoreLine ==
  ASSUME NEW n \in Nat, NEW l \in Nat
  PROVE  l * n \in Nat /\ l * 0 = 0 /\ l * (n + 1) = l * n + l
OBVIOUS

LEMMA CountFreed ==
  ASSUME CountInv, NEW gone, Freed(gone)
  PROVE  CountInv'
<1>1. /\ asked' = [c \in Cids |-> IF c \in gone THEN 0 ELSE asked[c]]
      /\ sent' = [c \in Cids |-> IF c \in gone THEN 0 ELSE sent[c]]
      /\ taken' = [c \in Cids |-> IF c \in gone THEN 0 ELSE taken[c]]
  BY DEF Freed
<1>2. LineLen \in Nat
  BY LibAssumption
<1>3. asked' \in [Cids -> Nat] /\ sent' \in [Cids -> Nat] /\ taken' \in [Cids -> Nat]
  BY <1>1 DEF CountInv
<1>4. ASSUME NEW c \in Cids PROVE taken'[c] <= sent'[c] /\ sent'[c] <= LineLen * asked'[c]
  <2>1. CASE c \in gone
    <3>1. asked'[c] = 0 /\ sent'[c] = 0 /\ taken'[c] = 0
      BY <1>1, <2>1
    <3>. QED BY <3>1, <1>2, OneMoreLine
  <2>2. CASE c \notin gone
    BY <1>1, <2>2 DEF CountInv
  <2>. QED BY <2>1, <2>2
<1>. QED BY <1>3, <1>4 DEF CountInv

LEMMA CountStep ==
  ASSUME Kinds, CountInv, [Next]_vars
  PROVE  CountInv'
<1>1. ASSUME UNCHANGED lineVars PROVE CountInv'
  BY <1>1 DEF lineVars, CountInv
<1>2. CASE UNCHANGED vars
  BY <1>1, <1>2 DEF vars
<1>3. CASE BoardTakes \/ BoardLoads
  BY <1>1, <1>3 DEF BoardTakes, BoardLoads
<1>4. ASSUME NEW c \in Cids, BoardSends(c) PROVE CountInv'
  <2>1. /\ sent[c] < LineLen * asked[c] /\ sent' = [sent EXCEPT ![c] = @ + 1] /\ UNCHANGED <<asked, taken>>
    BY <1>4 DEF BoardSends
  <2>2. ASSUME NEW d \in Cids PROVE taken'[d] <= sent'[d] /\ sent'[d] <= LineLen * asked'[d]
    <3>1. /\ LineLen * asked[d] \in Nat /\ taken[d] <= sent[d] /\ sent[d] <= LineLen * asked[d]
          /\ sent[d] \in Nat /\ taken[d] \in Nat
      BY OneMoreLine, LibAssumption DEF CountInv
    <3>2. sent'[d] = IF d = c THEN sent[d] + 1 ELSE sent[d]
      BY <2>1 DEF CountInv
    <3> DEFINE most == LineLen * asked[d]
    <3>3. taken[d] <= sent'[d] /\ (d = c => sent[d] < most)
      BY <2>1, <3>1, <3>2
    <3>4. sent'[d] <= most
      <4> HIDE DEF most
      <4>. QED BY <3>1, <3>2, <3>3 DEF most
    <3>. QED BY <2>1, <3>3, <3>4
  <2>. QED BY <2>1, <2>2 DEF CountInv
<1>5. ASSUME NEW h \in Handles, ise_writeln(h) PROVE CountInv'
  <2>1. PICK c \in Cids : asked' = [asked EXCEPT ![c] = @ + 1]
    BY <1>5 DEF ise_writeln
  <2>2. UNCHANGED <<sent, taken>>
    BY <1>5 DEF ise_writeln
  <2>3. ASSUME NEW d \in Cids PROVE sent[d] <= LineLen * asked'[d]
    <3>1. /\ asked[d] \in Nat /\ LineLen \in Nat /\ sent[d] \in Nat /\ sent[d] <= LineLen * asked[d]
      BY LibAssumption DEF CountInv
    <3>2. asked'[d] = asked[d] \/ asked'[d] = asked[d] + 1
      BY <2>1 DEF CountInv
    <3>3. LineLen * asked[d] \in Nat /\ LineLen * (asked[d] + 1) = LineLen * asked[d] + LineLen
      BY <3>1, OneMoreLine
    <3> DEFINE most == LineLen * asked[d]
               more == LineLen * (asked[d] + 1)
    <3>4. sent[d] <= most /\ sent[d] <= more
      <4>1. most \in Nat /\ more = most + LineLen /\ sent[d] <= most
        BY <3>1, <3>3
      <4> HIDE DEF most, more
      <4>. QED BY <3>1, <4>1
    <3>. QED BY <3>2, <3>4
  <2>4. asked' \in [Cids -> Nat]
    BY <2>1 DEF CountInv
  <2>. QED BY <2>2, <2>3, <2>4 DEF CountInv
<1>6. ASSUME NEW h \in Handles, ReadMore(h) PROVE CountInv'
  <2>1. UNCHANGED <<asked, sent>> /\ taken' = [taken EXCEPT ![arg[h]] = sent[arg[h]]]
    BY <1>6 DEF ReadMore
  <2>2. taken' \in [Cids -> Nat] /\ \A c \in Cids : taken'[c] = taken[c] \/ taken'[c] = sent[c]
    BY <2>1 DEF CountInv
  <2>. QED BY <2>1, <2>2 DEF CountInv
<1>7. ASSUME NEW h \in Handles, CloseChannels(h) \/ Exit(h) \/ Crash(h) PROVE CountInv'
  BY <1>7, CountFreed DEF CloseChannels, CloseChannel, Exit, Crash, Die
<1>8. ASSUME UNCHANGED <<asked, sent, taken>> PROVE CountInv'
  BY <1>8 DEF CountInv
<1>9. ASSUME NEW h \in Handles, readln_linux(h) \/ readln_windows(h) \/ ReadFails(h) \/ ise_timeout(h) PROVE CountInv'
  BY <1>8, <1>9 DEF readln_linux, readln_windows, TakeText, ReadFails, ise_timeout
<1>10. ASSUME NEW h \in Handles,
              \/ ise_bind(h) \/ bind_windows(h) \/ ise_open(h) \/ ise_restart(h) \/ ise_channel(h)
              \/ ise_readln(h) \/ ise_close(h)
              \/ \E f \in Frames : \/ make_frame_ise(h, f) \/ make_frame_windows(h, f)
                                   \/ delete_frame_ise(h, f) \/ delete_frame_windows(h, f)
       PROVE  CountInv'
  BY <1>1, <1>10 DEF ise_bind, bind_windows, ise_open, ise_restart, ise_channel, ise_readln, ise_close,
       make_frame_ise, make_frame_windows, delete_frame_ise, delete_frame_windows, restVars
<1>11. ASSUME NEW h \in Handles,
              \/ RestartFirst(h) \/ OpenMonitor(h) \/ SwitchMonitor(h) \/ Hello(h) \/ Prompt(h)
              \/ Version(h) \/ VersionFails(h) \/ FindsPrompt(h) \/ CloseMonitor(h) \/ RestartAgain(h) \/ OpenReturns(h)
              \/ ResetForFirmware(h) \/ OpenFirmware(h) \/ NoFirmware(h) \/ SendFirmware(h)
              \/ SendFails(h) \/ SyncFirmware(h) \/ CloseFirmware(h) \/ run_program(h) \/ RestartReturns(h)
       PROVE  CountInv'
  BY <1>1, <1>11 DEF RestartFirst, OpenMonitor, SwitchMonitor, Hello, Prompt, Version, VersionFails, FindsPrompt,
       CloseMonitor, RestartAgain, OpenReturns,
       ResetForFirmware, OpenFirmware, NoFirmware, SendFirmware, SendFails, SyncFirmware, CloseFirmware, run_program, RestartReturns
<1>12. ASSUME NEW h \in Handles,
              \/ OpenChannel(h) \/ NumberChannel(h) \/ MapFrame(h) \/ FreeFrame(h)
              \/ CloseFrames(h) \/ CloseFrameDevice(h) \/ LastStep(h) \/ LastRestart(h)
       PROVE  CountInv'
  BY <1>1, <1>12 DEF OpenChannel, NumberChannel, MapFrame, FreeFrame, CloseFrames, CloseFrameDevice, LastStep,
       LastRestart, restVars
<1>. QED
  BY <1>2, <1>3, <1>4, <1>5, <1>6, <1>7, <1>9, <1>10, <1>11, <1>12 DEF Next, Board, Call, Step

-----------------------------------------------------------------------------
(* All of them together.                                                    *)

HoldInv ==
  /\ Kinds /\ \A h \in Handles : ArgInv(h) /\ OwnerInv(h)
  /\ FrameInv /\ SizeInv /\ CountInv

LEMMA HoldInit == Init => HoldInv
<1> SUFFICES ASSUME Init PROVE HoldInv
  OBVIOUS
<1>0. /\ None \notin Handles /\ Pieces \in Nat /\ Retries \in Nat /\ LineLen \in Nat
      /\ 0 \in Channels /\ 254 \in Channels /\ Cids \subseteq Channels
  BY LibAssumption DEF Channels
<1>1. \A h \in Handles : pc[h] = "null" /\ arg[h] = 0 /\ left[h] = 0 /\ clist[h] = <<>>
  BY DEF Init
<1>2. \A h \in Handles : \A f \in Frames : base[h][f] = "null"
  BY DEF Init
<1>3. \A c \in Channels : owner[c] = None
  BY DEF Init
<1>4. Kinds
  BY <1>0 DEF Init, Kinds, Bases
<1>5. \A h \in Handles : ArgInv(h)
  BY <1>1 DEF ArgInv, FramePlaces
<1>6. ASSUME NEW h \in Handles PROVE OwnerInv(h)
  <2>1. pc[h] \notin Takes0 /\ pc[h] \notin Takes254
    BY <1>1 DEF Takes0, Takes254
  <2>2. \A c \in Channels : owner[c] # h
    BY <1>0, <1>3
  <2>3. Distinct(clist[h]) /\ \A c : ~InList(clist[h], c)
    BY <1>1 DEF Distinct, InList
  <2>. QED BY <1>0, <1>1, <1>2, <2>1, <2>2, <2>3 DEF OwnerInv, FramesDone
<1>7. FrameInv
  <2>1. \A h \in Handles : \A f \in Frames : ~Holds(h, f)
    BY <1>1, <1>2 DEF Holds
  <2>2. frames = {} /\ orphans = {} /\ mapped = [f \in Frames |-> {}]
    BY DEF Init
  <2>. QED BY <1>2, <2>1, <2>2 DEF FrameInv, FramesAreHeld, ChannelForFrames
<1>8. SizeInv
  <2>1. /\ fifo = <<>> /\ image = <<>> /\ mode = "prom" /\ isex = {} /\ hindered = {}
        /\ left = [h \in Handles |-> 0]
    BY DEF Init
  <2>2. <<>> \in Seq(Handles) /\ Len(<<>>) = 0
    OBVIOUS
  <2>3. left \in [Handles -> Lefts]
    BY <1>0, <2>1 DEF Lefts
  <2>4. Len(fifo) <= Pieces /\ Len(image) <= Pieces
    BY <1>0, <2>1, <2>2
  <2>. QED BY <1>1, <2>1, <2>2, <2>3, <2>4 DEF SizeInv
<1>9. CountInv
  <2>1. asked = [c \in Cids |-> 0] /\ sent = [c \in Cids |-> 0] /\ taken = [c \in Cids |-> 0]
    BY DEF Init
  <2>2. LineLen * 0 = 0
    BY <1>0, OneMoreLine
  <2>3. \A c \in Cids : taken[c] = 0 /\ sent[c] = 0 /\ asked[c] = 0
    BY <2>1
  <2>. QED BY <2>1, <2>2, <2>3 DEF CountInv
<1>. QED BY <1>4, <1>5, <1>6, <1>7, <1>8, <1>9 DEF HoldInv

LEMMA HoldBoard ==
  ASSUME HoldInv, Board \/ UNCHANGED vars
  PROVE  HoldInv'
<1>1. UNCHANGED <<platform, owner, frameVars, pc, arg, left, isex, version, clist, base, hindered>>
  BY DEF Board, BoardTakes, BoardLoads, BoardSends, vars, callVars
<1>2. Kinds' /\ \A h \in Handles : ArgInv(h)' /\ OwnerInv(h)'
  <2>1. Kinds'
    BY <1>1 DEF HoldInv, Kinds
  <2>2. ASSUME NEW h \in Handles PROVE ArgInv(h)'
    BY <1>1 DEF HoldInv, ArgInv, Linux
  <2>3. ASSUME NEW h \in Handles PROVE OwnerInv(h)'
    BY <1>1 DEF HoldInv, OwnerInv, FramesDone
  <2>. QED BY <2>1, <2>2, <2>3
<1>3. FrameInv'
  <2>1. FrameInv
    BY DEF HoldInv
  <2>2. (\A h \in Handles, f \in Frames : Holds(h, f)' <=> Holds(h, f)) /\ (Linux' <=> Linux)
    BY <1>1 DEF Holds, Linux
  <2>. QED BY <1>1, <2>1, <2>2 DEF FrameInv, FramesAreHeld, ChannelForFrames, frameVars
<1>4. CountInv'
  BY CountStep DEF HoldInv, Next
<1>5. SizeInv'
  <2>1. CASE UNCHANGED <<fifo, image>> /\ mode' \in {mode, "loaded"}
    BY <1>1, <2>1 DEF HoldInv, SizeInv
  <2>2. CASE BoardTakes
    <3>1. SizeInv /\ Pieces \in Nat
      BY LibAssumption DEF HoldInv
    <3>2. /\ fifo # <<>> /\ fifo' = Tail(fifo) /\ mode' = mode
          /\ image' = IF Len(image) < Pieces THEN Append(image, Head(fifo)) ELSE image
      BY <2>2 DEF BoardTakes
    <3>3. fifo \in Seq(Handles) /\ image \in Seq(Handles) /\ Len(fifo) <= Pieces /\ Len(image) <= Pieces
      BY <3>1 DEF SizeInv
    <3>4. fifo' \in Seq(Handles) /\ Head(fifo) \in Handles /\ Len(fifo') = Len(fifo) - 1 /\ Len(fifo) \in Nat
      BY <3>2, <3>3, HeadTailProperties, LenProperties
    <3>5. image' \in Seq(Handles) /\ Len(image') <= Pieces
      <4>1. CASE Len(image) < Pieces
        <5>1. image' = Append(image, Head(fifo)) /\ Len(image') = Len(image) + 1 /\ image' \in Seq(Handles)
          BY <3>2, <3>3, <3>4, <4>1, AppendProperties
        <5>. QED BY <3>1, <3>3, <4>1, <5>1, LenProperties
      <4>2. CASE ~(Len(image) < Pieces)
        BY <3>2, <3>3, <4>2
      <4>. QED BY <4>1, <4>2
    <3>6. Len(fifo') <= Pieces
      BY <3>1, <3>3, <3>4
    <3>9. \A h \in Handles : left[h] \in Nat
      BY <3>1, LeftsKnown DEF SizeInv
    <3>7. \A h \in Handles : pc[h] = "send" => Len(fifo') + left[h] <= Pieces
      BY <3>1, <3>4, <3>9 DEF SizeInv
    <3>8. \E h \in Handles : owner'[0] = h /\ pc'[h] \in Writes0
      BY <1>1, <3>1, <3>2 DEF SizeInv
    <3>. QED BY <1>1, <3>1, <3>2, <3>4, <3>5, <3>6, <3>7, <3>8 DEF SizeInv
  <2>. QED BY <2>1, <2>2 DEF Board, BoardLoads, BoardSends, boardVars, vars
<1>. QED BY <1>2, <1>3, <1>4, <1>5 DEF HoldInv

LEMMA HoldStep ==
  ASSUME HoldInv, NEW h \in Handles, Call(h) \/ Step(h) \/ Exit(h)
  PROVE  HoldInv'
<1>0. Kinds /\ FrameInv /\ SizeInv /\ CountInv /\ \A g \in Handles : ArgInv(g) /\ OwnerInv(g)
  BY DEF HoldInv
<1>1. /\ owner' \in [Channels -> Handles \cup {None}]
      /\ \A c \in Channels : \A g \in Handles \ {h} : owner'[c] = g <=> owner[c] = g
      /\ clist' \in [Handles -> Seq(Cids)]
      /\ OwnerInv(h)'
  BY <1>0, OwnerStep
<1>2. base' \in Bases /\ UNCHANGED <<platform, talker>> /\ ArgInv(h)'
  BY <1>0, ArgStep
<1>3. /\ \A g \in Handles \ {h} : Own(g)' = Own(g)
      /\ Domains' = <<Handles, Handles, Handles, Handles>>
  BY <1>0, OthersStay
<1>4. Kinds'
  BY <1>1, <1>2, <1>3 DEF Kinds, Domains
<1>5. ASSUME NEW g \in Handles, g # h PROVE ArgInv(g)' /\ OwnerInv(g)'
  <2>1. UNCHANGED <<pc[g], arg[g], clist[g], base[g]>>
    BY <1>3, <1>5 DEF Own
  <2>2. 0 \in Channels /\ 254 \in Channels /\ Cids \subseteq Channels
    BY DEF Channels
  <2>3. ArgInv(g) /\ OwnerInv(g)
    BY <1>0
  <2>4. ArgInv(g)'
    BY <1>2, <2>1, <2>3 DEF ArgInv, Linux
  <2>5. /\ owner'[0] = g <=> owner[0] = g
        /\ owner'[254] = g <=> owner[254] = g
        /\ \A c \in Cids : owner'[c] = g <=> owner[c] = g
    BY <1>1, <1>5, <2>2
  <2>. QED BY <2>1, <2>3, <2>4, <2>5 DEF OwnerInv, FramesDone
<1>6. FrameInv'
  BY <1>0, <1>2, <1>3, FrameStep, FramesFrom
<1>7. Moved(h)
  BY <1>0, <1>1, <1>3 DEF Moved, Channels
<1>8. SizeInv'
  BY <1>0, <1>7, SizeStep
<1>9. CountInv'
  BY <1>0, CountStep DEF Next
<1>. QED BY <1>1, <1>2, <1>4, <1>5, <1>6, <1>8, <1>9 DEF HoldInv

LEMMA HoldHolds == HoldInv => ResourcesHeld
<1> SUFFICES ASSUME HoldInv PROVE ResourcesHeld
  OBVIOUS
<1>1. FrameInv /\ SizeInv /\ CountInv /\ Kinds /\ \A h \in Handles : OwnerInv(h)
  BY DEF HoldInv
<1>2. TypeOK
  BY <1>1 DEF TypeOK, FrameInv, SizeInv, CountInv, Kinds, Lefts
<1>3. NothingLeft
  <2> SUFFICES ASSUME NEW h \in Handles, pc[h] = "null"
               PROVE  (\A c \in Channels : owner[c] # h) /\ (\A f \in Frames : h \notin mapped[f])
    BY DEF NothingLeft
  <2>1. pc[h] \in BarePlaces /\ pc[h] \notin Takes0 /\ pc[h] \notin Takes254
    BY DEF BarePlaces, Takes0, Takes254
  <2>2. clist[h] = <<>> /\ FramesDone(h) /\ owner[0] # h /\ owner[254] # h
    BY <1>1, <2>1 DEF OwnerInv
  <2>3. ASSUME NEW c \in Cids PROVE owner[c] # h
    <3>1. ~InList(<<>>, c)
      BY DEF InList
    <3>. QED BY <1>1, <2>2, <3>1 DEF OwnerInv
  <2>4. ASSUME NEW f \in Frames PROVE h \notin mapped[f]
    BY <1>1, <2>2 DEF FramesDone, FrameInv
  <2>. QED BY <2>2, <2>3, <2>4 DEF Channels
<1>. QED BY <1>1, <1>2, <1>3 DEF ResourcesHeld, FrameInv

LEMMA SpecHolds == Spec => []HoldInv
<1>1. ASSUME HoldInv, [Next]_vars PROVE HoldInv'
  BY <1>1, HoldBoard, HoldStep DEF Next
<1>. QED BY <1>1, HoldInit, PTL DEF Spec

\* However calls fail and whoever dies, a process without a handle has no channel
\* and no mapping, every frame of the board has a holder unless its holder died,
\* and a holder has a channel to free it on.
THEOREM HeldWell == Spec => []ResourcesHeld
BY SpecHolds, HoldHolds, PTL

-----------------------------------------------------------------------------
(* What a process says and hears, and what it leaves alone.                 *)

\* Two processes that control the board at the same time know of it.
ControlInv ==
  \A g, h \in Handles :
    g # h /\ pc[g] \in ControlCalls /\ pc[h] \in ControlCalls => g \in hindered /\ h \in hindered

Talks(h) == Hello(h) \/ Prompt(h) \/ Version(h) \/ VersionFails(h) \/ FindsPrompt(h)

\* The steps of ise_open that matter to the firmware, and those of ise_restart.
Opens(h) == \/ RestartFirst(h) \/ OpenMonitor(h) \/ SwitchMonitor(h) \/ Talks(h) \/ CloseMonitor(h)
            \/ RestartAgain(h)

Loads(h) == \/ ResetForFirmware(h) \/ OpenFirmware(h) \/ NoFirmware(h) \/ SendFirmware(h) \/ SendFails(h)
            \/ SyncFirmware(h) \/ CloseFirmware(h) \/ run_program(h) \/ RestartReturns(h)

\* Places of ise_open after its first restart, and of ise_restart after its own.
OpenPlaces == {"monitor", "switch", "lost", "restart2", "opened"} \cup Takes254
FirmwarePlaces == {"open0", "send", "sync", "close0", "run", "running"} \cup OpenPlaces

\* A step of process h that has nothing to do with the prom's monitor.
Quiet(h) ==
  /\ said' = said \/ said' = <<>>
  /\ pc[h] \in Takes254 => said' = <<>>
  /\ pc'[h] \notin {"prompt", "version"}
  /\ version'[h] = None \/ (pc[h] # "version" /\ version'[h] = version[h])

\* A version is the one the prom gave, or one that a failing read has spoiled.
Said(v) == v = None \/ v = Junk \/ v = [text |-> <<"ident">>, sound |-> TRUE]

\* Who goes on with a control call, or ends a call, lets nobody forget.
Minds(h) ==
  \/ pc'[h] \notin ControlCalls /\ hindered \ {h} \subseteq hindered'
  \/ pc[h] \in ControlCalls /\ hindered \subseteq hindered'
  \/ pc'[h] \notin FirmwarePlaces /\ Meet(h)

\* Outside control calls the board is left alone.
Aside(h) ==
  pc[h] \notin ControlCalls =>
    UNCHANGED <<image, mode, running>> /\ (fifo' = fifo \/ (owner[0] = h /\ fifo' = <<>>))

Manners(h) ==
  Minds(h) /\ Aside(h) /\ (Quiet(h) \/ Talks(h)) /\ (pc'[h] \notin FirmwarePlaces \/ Loads(h) \/ Opens(h))

LEMMA ControlStep ==
  ASSUME Kinds, NEW h \in Handles, OwnerInv(h), Call(h) \/ Step(h) \/ Exit(h)
  PROVE  Manners(h)
<1>1. ASSUME ise_open(h) \/ ise_restart(h) PROVE Manners(h)
  <2>1. /\ Meet(h) /\ UNCHANGED <<fifo, image, mode, running, said, version>> /\ pc[h] \in {"null", "idle"}
        /\ pc'[h] \in {"restart1", "reset"}
    BY <1>1, Went DEF ise_open, ise_restart, boardVars
  <2>. QED BY <2>1 DEF Manners, Minds, Aside, Quiet, Takes254, FirmwarePlaces, OpenPlaces
<1>2. ASSUME UNCHANGED <<fifo, image, mode, running, said, version>>, hindered \ {h} \subseteq hindered',
             pc[h] \notin Takes254, pc'[h] \notin ControlCalls
      PROVE  Manners(h)
  BY <1>2 DEF Manners, Minds, Aside, Quiet, Takes254, FirmwarePlaces, OpenPlaces, ControlCalls
<1>3. ASSUME \/ ise_bind(h) \/ bind_windows(h) \/ ise_channel(h) \/ ise_timeout(h) \/ ise_writeln(h) \/ ise_readln(h)
             \/ ise_close(h)
             \/ \E f \in Frames : \/ make_frame_ise(h, f) \/ make_frame_windows(h, f)
                                  \/ delete_frame_ise(h, f) \/ delete_frame_windows(h, f)
      PROVE  Manners(h)
  <2>1. /\ UNCHANGED <<fifo, image, mode, running, said, version, hindered>> /\ pc[h] \in {"null", "idle"}
        /\ pc'[h] \in {"idle", "open", "readln", "close", "close channels", "map", "free"}
    BY <1>3, Went DEF ise_bind, bind_windows, ise_channel, ise_timeout, ise_writeln, ise_readln, ise_close,
         make_frame_ise, make_frame_windows, delete_frame_ise, delete_frame_windows, restVars, callVars, boardVars
  <2>. QED BY <1>2, <2>1 DEF Takes254, ControlCalls
<1>4. ASSUME \/ OpenChannel(h) \/ NumberChannel(h) \/ readln_linux(h) \/ readln_windows(h) \/ ReadMore(h) \/ ReadFails(h)
      PROVE  Manners(h)
  <2>1. /\ UNCHANGED <<fifo, image, mode, running, said, version>> /\ pc[h] \in {"open", "number", "readln"}
        /\ pc'[h] \in {"idle", "number", "readln"} /\ (hindered' = hindered \/ hindered' = hindered \ {h})
    BY <1>4, Went, Ended DEF OpenChannel, NumberChannel, readln_linux, readln_windows, TakeText, GiveLine, ReadMore,
         ReadFails, GiveUp, Return, callVars, boardVars
  <2>. QED BY <1>2, <2>1 DEF Takes254, ControlCalls
<1>5. ASSUME MapFrame(h) \/ FreeFrame(h) \/ CloseFrames(h) \/ CloseChannels(h) \/ CloseFrameDevice(h) PROVE Manners(h)
  <2>1. /\ UNCHANGED <<fifo, image, mode, running, said, version>>
        /\ pc[h] \in {"map", "free", "free all", "close", "close channels"}
        /\ pc'[h] \in {"idle", "free all", "close", "close channels"}
        /\ (hindered' = hindered \/ hindered' = hindered \ {h})
    BY <1>5, Went, Ended DEF MapFrame, FreeFrame, CloseFrames, CloseChannels, CloseChannel, CloseFrameDevice, Return,
         restVars, callVars, boardVars
  <2>. QED BY <1>2, <2>1 DEF Takes254, ControlCalls
<1>6. ASSUME said' = said \/ said' = <<>>, version'[h] = None \/ version'[h] = version[h],
             pc[h] \in {"restart1", "monitor", "switch", "restart2", "opened", "reset", "last restart", "open0", "send", "sync", "close0", "run", "running"},
             pc'[h] \notin {"prompt", "version"}
      PROVE  Quiet(h)
  BY <1>6 DEF Quiet, Takes254
<1>7. ASSUME restart_ise PROVE said' = said \/ said' = <<>>
  BY <1>7 DEF restart_ise, RestartBoard, boardVars
<1>8. ASSUME RestartFirst(h) \/ OpenMonitor(h) \/ SwitchMonitor(h) PROVE Manners(h)
  <2>1. /\ restart_ise \/ said' = said
        /\ version' = version /\ pc[h] \in {"restart1", "monitor", "switch"}
        /\ \/ pc'[h] \in {"monitor", "switch", "hello", "lost"} /\ (hindered' = hindered \/ Hinder(h))
           \/ pc'[h] = "null" /\ hindered' = hindered \ {h}
    <3>1. CASE RestartFirst(h)
      BY <3>1, Went, Ended DEF RestartFirst, OpenFails
    <3>2. CASE OpenMonitor(h)
      BY <3>2, Went, Ended DEF OpenMonitor, OpenRefused, OpenFails, OpenLost, boardVars
    <3>3. CASE SwitchMonitor(h)
      BY <3>3, Went, Ended DEF SwitchMonitor, OpenRefused, OpenFails, OpenLost, boardVars
    <3>. QED BY <1>8, <3>1, <3>2, <3>3
  <2>2. hindered \ {h} \subseteq hindered' /\ (hindered \subseteq hindered' \/ pc'[h] = "null")
    BY <2>1 DEF Hinder
  <2>3. Quiet(h)
    BY <1>6, <1>7, <2>1
  <2>. QED BY <1>8, <2>1, <2>2, <2>3 DEF Manners, Minds, Aside, Opens, ControlCalls
<1>9. ASSUME Talks(h) PROVE Manners(h)
  <2>1. hindered' = hindered /\ pc[h] \in {"hello", "prompt", "version", "lost"}
    BY <1>9 DEF Talks, Hello, Prompt, Version, VersionFails, FindsPrompt, Astray
  <2>. QED BY <1>9, <2>1 DEF Manners, Minds, Aside, Opens, ControlCalls
<1>10. ASSUME CloseMonitor(h) PROVE Manners(h)
  <2>1. hindered' = hindered /\ pc[h] = "goodbye" /\ pc'[h] = "restart2" /\ said' = <<>> /\ version' = version
    BY <1>10, Went DEF CloseMonitor, Closed
  <2>. QED BY <1>10, <2>1 DEF Manners, Minds, Aside, Quiet, Opens, ControlCalls
<1>15. ASSUME RestartAgain(h) PROVE Manners(h)
  <2>1. /\ restart_ise /\ hindered' = hindered /\ pc[h] = "restart2" /\ pc'[h] = "opened" /\ version' = version
    BY <1>15, Went DEF RestartAgain
  <2>2. Quiet(h)
    BY <1>6, <1>7, <2>1
  <2>. QED BY <1>15, <2>1, <2>2 DEF Manners, Minds, Aside, Opens, ControlCalls
<1>11. ASSUME OpenReturns(h) \/ LastRestart(h) PROVE Manners(h)
  <2>1. /\ restart_ise \/ said' = said
        /\ hindered' = hindered \ {h} /\ pc[h] \in {"opened", "last restart"}
        /\ pc'[h] \in {"idle", "null"} /\ (version' = version \/ version' = [version EXCEPT ![h] = None])
    BY <1>11, Ended DEF OpenReturns, LastRestart, Return, Forget, boardVars
  <2>2. Quiet(h)
    BY <1>6, <1>7, <2>1 DEF Kinds
  <2>. QED BY <2>1, <2>2 DEF Manners, Minds, Aside, FirmwarePlaces, OpenPlaces, Takes254, ControlCalls
<1>12. ASSUME Loads(h) PROVE Manners(h)
  <2> DEFINE places == {"open0", "send", "sync", "close0", "run", "running"}
  <2>1. /\ restart_ise \/ said' = said
        /\ version' = version /\ pc[h] \in places \cup {"reset"}
        /\ \/ pc'[h] \in places /\ (hindered' = hindered \/ Hinder(h))
           \/ pc'[h] = "idle" /\ hindered' = hindered \ {h}
    <3>1. CASE ResetForFirmware(h) \/ OpenFirmware(h) \/ NoFirmware(h)
      BY <3>1, Went, Ended DEF ResetForFirmware, OpenFirmware, NoFirmware, Closed, Return, boardVars
    <3>2. CASE SendFirmware(h) \/ SendFails(h) \/ SyncFirmware(h) \/ CloseFirmware(h)
      BY <3>2, Went DEF SendFirmware, SendFails, SyncFirmware, CloseFirmware, Closed, boardVars
    <3>3. CASE run_program(h) \/ RestartReturns(h)
      BY <3>3, Went, Ended DEF run_program, Retry, RestartReturns, Return, boardVars
    <3>. QED BY <1>12, <3>1, <3>2, <3>3 DEF Loads
  <2>2. hindered \ {h} \subseteq hindered' /\ (hindered \subseteq hindered' \/ pc'[h] = "idle")
    BY <2>1 DEF Hinder
  <2>3. Quiet(h)
    BY <1>6, <1>7, <2>1
  <2>. QED BY <1>12, <2>1, <2>2, <2>3 DEF Manners, Minds, Aside, ControlCalls
<1>13. ASSUME LastStep(h) PROVE Manners(h)
  <2>1. /\ UNCHANGED <<fifo, image, mode, running, said>> /\ pc[h] = "close"
        /\ \/ pc'[h] = "last restart" /\ Meet(h) /\ version' = version
           \/ pc'[h] = "null" /\ hindered' = hindered \ {h} /\ version' = [version EXCEPT ![h] = None]
    BY <1>13, Went, Ended DEF LastStep, Forget, boardVars
  <2>. QED BY <2>1 DEF Manners, Minds, Aside, Quiet, FirmwarePlaces, OpenPlaces, ControlCalls, Takes254, Kinds
<1>14. ASSUME Exit(h) \/ Crash(h) PROVE Manners(h)
  <2>1. /\ UNCHANGED <<image, mode, running>> /\ pc'[h] = "null" /\ hindered' = hindered \ {h}
        /\ fifo' = (IF owner[0] = h THEN <<>> ELSE fifo) /\ said' = (IF owner[254] = h THEN <<>> ELSE said)
        /\ version' = [version EXCEPT ![h] = None]
    BY <1>14, Ended DEF Exit, Crash, Die, Forget
  <2>2. version'[h] = None
    BY <2>1 DEF Kinds
  <2>3. Minds(h)
    BY <2>1 DEF Minds, ControlCalls
  <2>4. Aside(h)
    BY <2>1 DEF Aside
  <2>5. Quiet(h)
    BY <2>1, <2>2 DEF Quiet, OwnerInv
  <2>. QED BY <2>1, <2>3, <2>4, <2>5 DEF Manners, FirmwarePlaces, OpenPlaces, Takes254
<1>. QED
  BY <1>1, <1>3, <1>4, <1>5, <1>8, <1>9, <1>10, <1>11, <1>12, <1>13, <1>14, <1>15 DEF Call, Step, Talks, Loads

LEMMA ControlKept ==
  ASSUME ControlInv, NEW h \in Handles, Minds(h), \A g \in Handles \ {h} : pc'[g] = pc[g]
  PROVE  /\ ControlInv'
         /\ hindered \ {h} \subseteq hindered'
<1>1. hindered \ {h} \subseteq hindered'
  BY DEF Minds, Meet
<1>2. ASSUME NEW g \in Handles, g # h, pc[g] \in ControlCalls, pc'[h] \in ControlCalls
      PROVE  g \in hindered' /\ h \in hindered'
  <2>1. CASE pc[h] \in ControlCalls /\ hindered \subseteq hindered'
    BY <1>2, <2>1 DEF ControlInv
  <2>2. CASE Meet(h)
    BY <1>2, <2>2 DEF Meet
  <2>. QED BY <1>2, <2>1, <2>2 DEF Minds
<1>3. ASSUME NEW g \in Handles, NEW i \in Handles, g # i, pc'[g] \in ControlCalls, pc'[i] \in ControlCalls
      PROVE  g \in hindered' /\ i \in hindered'
  <2>1. CASE g # h /\ i # h
    BY <1>1, <1>3, <2>1 DEF ControlInv
  <2>2. CASE g = h
    BY <1>2, <1>3, <2>2
  <2>3. CASE i = h
    BY <1>2, <1>3, <2>3
  <2>. QED BY <2>1, <2>2, <2>3
<1>. QED BY <1>1, <1>3 DEF ControlInv, ControlCalls

-----------------------------------------------------------------------------
(* What ISE_OK means.                                                       *)

\* What the prom says while a process takes its version.
Hears(v, s) == \/ v = [text |-> <<>>, sound |-> TRUE] /\ s \in {<<>>, <<"ident", ">">>}
               \/ v = [text |-> <<"ident">>, sound |-> TRUE] /\ s \in {<<>>, <<">">>}

\* What the prom has said to the process that asks for its version.
PromptInv ==
  /\ said # <<>> => \E h \in Handles : owner[254] = h /\ pc[h] \in {"prompt", "version", "goodbye"}
  /\ \A h \in Handles :
       /\ pc[h] = "prompt" => said \in {<<>>, <<"banner", ">">>, <<">">>}
       /\ pc[h] = "version" => Hears(version[h], said)
       /\ pc[h] # "version" => Said(version[h])

LEMMA PromptQuiet ==
  ASSUME PromptInv, NEW h, Moved(h), Quiet(h),
         \A g \in Handles \ {h} : owner[254] = g => owner'[254] = g
  PROVE  PromptInv'
<1>1. /\ \A g \in Handles \ {h} : pc'[g] = pc[g] /\ version'[g] = version[g]
      /\ h \in Handles
  BY DEF Moved, Own
<1>2. ASSUME said' # <<>> PROVE \E g \in Handles : owner'[254] = g /\ pc'[g] \in {"prompt", "version", "goodbye"}
  <2>1. PICK g \in Handles : owner[254] = g /\ pc[g] \in {"prompt", "version", "goodbye"}
    BY <1>2 DEF Quiet, PromptInv
  <2>2. g # h
    BY <1>2, <2>1 DEF Quiet, Takes254
  <2>. QED BY <1>1, <2>1, <2>2
<1>3. ASSUME NEW g \in Handles
      PROVE  /\ pc'[g] = "prompt" => said' \in {<<>>, <<"banner", ">">>, <<">">>}
             /\ pc'[g] = "version" => Hears(version'[g], said')
             /\ pc'[g] # "version" => Said(version'[g])
  <2>1. CASE g = h
    BY <2>1 DEF Quiet, PromptInv, Said
  <2>2. CASE g # h
    <3>1. pc'[g] = pc[g] /\ version'[g] = version[g]
      BY <1>1, <2>2
    <3>2. CASE said' = said
      BY <3>1, <3>2 DEF PromptInv
    <3>3. CASE said' = <<>>
      BY <3>1, <3>3 DEF PromptInv, Hears
    <3>. QED BY <3>2, <3>3 DEF Quiet
  <2>. QED BY <2>1, <2>2
<1>. QED BY <1>2, <1>3 DEF PromptInv

\* The lines of the prom, as the library takes them.
LEMMA PromLines ==
  /\ <<>> \o <<"banner", ">">> = <<"banner", ">">>
  /\ <<>> \o <<"ident", ">">> = <<"ident", ">">>
  /\ Head(<<"banner", ">">>) # ">" /\ Tail(<<"banner", ">">>) = <<">">>
  /\ Head(<<">">>) = ">" /\ Tail(<<">">>) = <<>>
  /\ Head(<<"ident", ">">>) = "ident" /\ Tail(<<"ident", ">">>) = <<">">> /\ "ident" # ">"
  /\ Append(<<>>, "ident") = <<"ident">>
OBVIOUS

LEMMA PromptTalks ==
  ASSUME PromptInv, NEW h, Moved(h), Talks(h)
  PROVE  PromptInv'
<1>0. /\ \A g \in Handles \ {h} : pc'[g] = pc[g] /\ version'[g] = version[g]
      /\ h \in Handles /\ Kinds
  BY DEF Moved, Own
<1>9. CASE VersionFails(h) \/ FindsPrompt(h)
  <2>1. /\ UNCHANGED <<said, owner>> /\ version'[h] = Junk /\ pc[h] \in {"prompt", "version", "lost"}
        /\ pc'[h] = (IF pc[h] = "lost" THEN "restart2" ELSE "goodbye")
    BY <1>0, <1>9, Went DEF VersionFails, FindsPrompt, Astray, boardVars, Kinds
  <2>2. pc[h] = "lost" => owner[254] # h
    BY <1>0 DEF Moved, OwnerInv, Takes254
  <2>3. said' # <<>> => \E g \in Handles : owner'[254] = g /\ pc'[g] \in {"prompt", "version", "goodbye"}
    BY <1>0, <2>1, <2>2 DEF PromptInv
  <2>. QED BY <1>0, <2>1, <2>3 DEF PromptInv, Said
<1> SUFFICES ASSUME Hello(h) \/ Prompt(h) \/ Version(h) PROVE PromptInv'
  BY <1>9 DEF Talks
<1>1. pc[h] \in {"hello", "prompt", "version"} /\ owner' = owner
  BY DEF Hello, Prompt, Version
<1>2. owner[254] = h
  BY <1>1 DEF Moved, OwnerInv, Takes254
<1>3. \A g \in Handles \ {h} : pc[g] \notin {"prompt", "version"}
  BY <1>2 DEF Moved, OwnerInv, Takes254
<1>4. pc'[h] \in {"prompt", "version", "goodbye"}
  BY <1>0, Went DEF Hello, Prompt, Version
<1>5. ASSUME /\ pc'[h] = "prompt" => said' \in {<<>>, <<"banner", ">">>, <<">">>}
             /\ pc'[h] = "version" => Hears(version'[h], said')
             /\ pc'[h] # "version" => Said(version'[h])
      PROVE  PromptInv'
  <2>1. \A g \in Handles \ {h} : /\ pc'[g] \notin {"prompt", "version"}
                                 /\ Said(version'[g])
    BY <1>0, <1>3 DEF PromptInv
  <2>2. \E g \in Handles : owner'[254] = g /\ pc'[g] \in {"prompt", "version", "goodbye"}
    BY <1>0, <1>1, <1>2, <1>4
  <2>. QED BY <1>5, <2>1, <2>2 DEF PromptInv
<1>6. CASE Hello(h)
  <2>1. said = <<>>
    BY <1>2, <1>6 DEF PromptInv, Hello
  <2>2. /\ pc[h] = "hello" /\ pc'[h] = "prompt" /\ version' = version
        /\ said' = <<>> \o <<"banner", ">">> \/ said' = <<>>
    BY <1>0, <1>6, <2>1, Went DEF Hello, Answer
  <2>3. Said(version'[h])
    BY <1>0, <2>2 DEF PromptInv
  <2>4. said' = <<"banner", ">">> \/ said' = <<>>
    BY <2>2, PromLines
  <2>. QED BY <1>5, <2>2, <2>3, <2>4
<1>7. CASE Prompt(h)
  <2>1. /\ pc[h] = "prompt" /\ said \in {<<"banner", ">">>, <<">">>} /\ Said(version[h])
    BY <1>0, <1>7 DEF PromptInv, Prompt
  <2>2. CASE said = <<">">>
    <3>1. /\ said' = Tail(said) \o <<"ident", ">">> /\ version' = [version EXCEPT ![h] = [text |-> <<>>, sound |-> TRUE]]
          /\ pc'[h] = "version"
      BY <1>0, <1>7, <2>2, PromLines, Went DEF Prompt, IsPrompt
    <3>2. said' = <<"ident", ">">> /\ version'[h] = [text |-> <<>>, sound |-> TRUE]
      BY <1>0, <2>2, <3>1, PromLines DEF Kinds
    <3>. QED BY <1>5, <3>1, <3>2 DEF Hears
  <2>3. CASE said = <<"banner", ">">>
    <3>1. said' = Tail(said) /\ UNCHANGED <<pc, version>>
      BY <1>7, <2>3, PromLines DEF Prompt, IsPrompt
    <3>2. said' = <<">">>
      BY <2>3, <3>1, PromLines
    <3>. QED BY <1>5, <2>1, <3>1, <3>2
  <2>. QED BY <2>1, <2>2, <2>3
<1>8. CASE Version(h)
  <2>1. pc[h] = "version" /\ said # <<>> /\ Hears(version[h], said)
    BY <1>0, <1>8 DEF PromptInv, Version
  <2>2. CASE version[h] = [text |-> <<>>, sound |-> TRUE] /\ said = <<"ident", ">">>
    <3>1. /\ said' = Tail(said) /\ pc' = pc
          /\ version' = [version EXCEPT ![h] = [text |-> Append(@.text, Head(said)), sound |-> TRUE]]
      BY <1>8, <2>2, PromLines DEF Version
    <3>2. said' = <<">">> /\ version'[h] = [text |-> <<"ident">>, sound |-> TRUE]
      BY <1>0, <2>2, <3>1, PromLines DEF Kinds
    <3>. QED BY <1>5, <2>1, <3>1, <3>2 DEF Hears
  <2>3. CASE version[h] = [text |-> <<"ident">>, sound |-> TRUE] /\ said = <<">">>
    <3>1. pc'[h] = "goodbye" /\ version' = version
      BY <1>0, <1>8, <2>3, PromLines, Went DEF Version
    <3>. QED BY <1>5, <2>3, <3>1 DEF Said
  <2>. QED BY <2>1, <2>2, <2>3 DEF Hears
<1>. QED BY <1>6, <1>7, <1>8

-----------------------------------------------------------------------------
\* Only pieces of process h.
All(s, h) == \A i \in DOMAIN s : s[i] = h

\* The board is as a restart leaves it.
Blank == fifo = <<>> /\ image = <<>> /\ mode = "prom" /\ running = <<>>

\* How far a process is that opens the board, or loads its firmware, undisturbed.
\* One with a channel of its own open gets nothing to run.
FirmwareInv(h) ==
  /\ pc[h] \in OpenPlaces => Blank
  /\ clist[h] = <<>> =>
       /\ pc[h] = "open0" => Blank
       /\ pc[h] \in {"send", "sync", "close0", "run"} =>
            /\ mode # "program" /\ All(image, h) /\ All(fifo, h)
            /\ mode = "loaded" => Len(image) = Pieces
  /\ pc[h] = "running" => mode = "program" /\ running = [i \in 1 .. Pieces |-> h]

LEMMA Controls == FirmwarePlaces \subseteq ControlCalls
BY DEF FirmwarePlaces, OpenPlaces, Takes254, ControlCalls

\* Elsewhere it says nothing.
LEMMA FirmwareElse ==
  ASSUME NEW h, pc[h] \notin FirmwarePlaces
  PROVE  FirmwareInv(h)
BY DEF FirmwareInv, FirmwarePlaces

\* What another process does leaves it where it is.
LEMMA FirmwareOthers ==
  ASSUME ControlInv, NEW h, Moved(h), Minds(h), Aside(h), NEW g \in Handles, g # h, g \notin hindered',
         FirmwareInv(g)
  PROVE  FirmwareInv(g)'
<1>1. pc'[g] = pc[g] /\ clist'[g] = clist[g] /\ h \in Handles
  BY DEF Moved, Own
<1>2. hindered \ {h} \subseteq hindered'
  BY DEF Minds, Meet
<1>3. CASE pc[g] \notin FirmwarePlaces
  BY <1>1, <1>3 DEF FirmwareInv, FirmwarePlaces
<1>4. CASE pc[g] \in FirmwarePlaces
  <2>1. pc[h] \notin ControlCalls
    BY <1>1, <1>2, <1>4, Controls DEF ControlInv
  <2>2. UNCHANGED <<image, mode, running>> /\ (fifo' = fifo \/ fifo' = <<>>)
    BY <2>1 DEF Aside
  <2>3. (Blank => Blank') /\ (All(fifo, g) => All(fifo', g))
    BY <2>2 DEF Blank, All
  <2>. QED BY <1>1, <2>2, <2>3 DEF FirmwareInv
<1>. QED BY <1>3, <1>4

LEMMA AllAppend ==
  ASSUME NEW s \in Seq(Handles), NEW h \in Handles, All(s, h)
  PROVE  Append(s, h) \in Seq(Handles) /\ All(Append(s, h), h)
<1>1. /\ Append(s, h) \in Seq(Handles) /\ Len(s) \in Nat
      /\ \A i \in 1 .. Len(s) : Append(s, h)[i] = s[i]
      /\ Append(s, h)[Len(s) + 1] = h /\ DOMAIN s = 1 .. Len(s)
      /\ DOMAIN Append(s, h) = 1 .. Len(s) + 1
  BY AppendProperties, LenProperties
<1>. QED BY <1>1 DEF All

LEMMA AllTail ==
  ASSUME NEW s \in Seq(Handles), s # <<>>, NEW h \in Handles, All(s, h)
  PROVE  Head(s) = h /\ All(Tail(s), h)
<1>1. /\ Head(s) = s[1] /\ Tail(s) \in Seq(Handles) /\ Len(s) \in Nat /\ Len(s) > 0
      /\ Len(Tail(s)) = Len(s) - 1 /\ \A i \in 1 .. Len(Tail(s)) : Tail(s)[i] = s[i + 1]
      /\ DOMAIN s = 1 .. Len(s) /\ DOMAIN Tail(s) = 1 .. Len(Tail(s))
  BY HeadTailProperties, LenProperties
<1>. QED BY <1>1 DEF All

\* A process with channels in its list has one open, and one with none has only
\* those that its place says.
LEMMA OwnChannels ==
  ASSUME Kinds, NEW h \in Handles, OwnerInv(h)
  PROVE  /\ clist[h] # <<>> => ~NoChannels
         /\ \A c \in Channels : owner[c] = h => c = 0 \/ c = 254 \/ clist[h] # <<>>
<1>0. Cids \subseteq Channels /\ None \notin Handles
  BY LibAssumption DEF Channels
<1>1. ASSUME clist[h] # <<>> PROVE ~NoChannels
  <2>1. Head(clist[h]) \in Cids /\ InList(clist[h], Head(clist[h]))
    BY <1>1, InTail DEF Kinds
  <2>2. owner[Head(clist[h])] = h
    BY <2>1 DEF OwnerInv
  <2>. QED BY <1>0, <2>1, <2>2 DEF NoChannels
<1>2. ASSUME NEW c \in Channels, owner[c] = h, c # 0, c # 254 PROVE clist[h] # <<>>
  <2>1. c \in Cids /\ InList(clist[h], c)
    BY <1>2 DEF Channels, OwnerInv
  <2>. QED BY <2>1 DEF InList
<1>. QED BY <1>1, <1>2

\* ise_open of process h, as long as nobody else comes across it.
LEMMA FirmwareOpens ==
  ASSUME NEW h, Moved(h), Opens(h), h \notin hindered', FirmwareInv(h)
  PROVE  FirmwareInv(h)'
<1>0. h \in Handles /\ Kinds
  BY DEF Moved
<1>1. ASSUME Blank', pc'[h] \in OpenPlaces \cup {"null"} PROVE FirmwareInv(h)'
  BY <1>1 DEF FirmwareInv, OpenPlaces, Takes254
<1>2. CASE RestartFirst(h)
  <2>1. pc'[h] = "null" \/ (pc'[h] = "monitor" /\ NoChannels /\ restart_ise)
    BY <1>0, <1>2, Went, Ended DEF RestartFirst, OpenFails, Hinder
  <2>2. CASE pc'[h] = "null"
    BY <2>2 DEF FirmwareInv, OpenPlaces, Takes254
  <2>3. CASE pc'[h] = "monitor" /\ NoChannels /\ restart_ise
    <3>1. Blank'
      BY <2>3 DEF restart_ise, RestartBoard, Blank
    <3>. QED BY <1>1, <2>3, <3>1 DEF OpenPlaces
  <2>. QED BY <2>1, <2>2, <2>3
<1>3. CASE OpenMonitor(h) \/ SwitchMonitor(h)
  <2>1. /\ UNCHANGED <<fifo, image, mode, running>> /\ pc[h] \in {"monitor", "switch"}
        /\ pc'[h] \in {"switch", "hello", "lost", "null"}
    BY <1>0, <1>3, Went, Ended DEF OpenMonitor, SwitchMonitor, OpenRefused, OpenFails, OpenLost, boardVars
  <2>2. Blank'
    BY <2>1 DEF FirmwareInv, OpenPlaces, Blank
  <2>. QED BY <1>1, <2>1, <2>2 DEF OpenPlaces, Takes254
<1>4. CASE Talks(h)
  <2>1. /\ UNCHANGED <<fifo, image, mode, running>> /\ pc[h] \in {"hello", "prompt", "version", "lost"}
        /\ pc'[h] \in {"prompt", "version", "goodbye", "restart2"}
    BY <1>0, <1>4, Went DEF Talks, Hello, Prompt, Version, VersionFails, FindsPrompt, Astray, boardVars
  <2>2. Blank'
    BY <2>1 DEF FirmwareInv, OpenPlaces, Takes254, Blank
  <2>. QED BY <1>1, <2>1, <2>2 DEF OpenPlaces, Takes254
<1>5. CASE CloseMonitor(h)
  <2>1. UNCHANGED <<fifo, image, mode, running>> /\ pc[h] = "goodbye" /\ pc'[h] = "restart2"
    BY <1>0, <1>5, Went DEF CloseMonitor, Closed
  <2>2. Blank'
    BY <2>1 DEF FirmwareInv, OpenPlaces, Takes254, Blank
  <2>. QED BY <1>1, <2>1, <2>2 DEF OpenPlaces
<1>6. CASE RestartAgain(h)
  <2>1. /\ pc[h] = "restart2" /\ pc'[h] = "opened"
        /\ \/ UNCHANGED <<fifo, image, mode, running>>
           \/ fifo' = <<>> /\ image' = <<>> /\ mode' = "prom" /\ running' = <<>>
    BY <1>0, <1>6, Went DEF RestartAgain, restart_ise, RestartBoard, boardVars
  <2>2. Blank'
    BY <2>1 DEF FirmwareInv, OpenPlaces, Blank
  <2>. QED BY <1>1, <2>1, <2>2 DEF OpenPlaces
<1>. QED BY <1>2, <1>3, <1>4, <1>5, <1>6 DEF Opens

\* ise_restart of process h, as long as nobody else comes across it.
LEMMA FirmwareOwn ==
  ASSUME SizeInv, NEW h, Moved(h), Loads(h), h \notin hindered', FirmwareInv(h)
  PROVE  FirmwareInv(h)'
<1>0. /\ h \in Handles /\ Kinds /\ OwnerInv(h) /\ Pieces \in Nat \ {0}
      /\ fifo \in Seq(Handles) /\ image \in Seq(Handles)
  BY LibAssumption DEF Moved, SizeInv
<1>1. ASSUME pc'[h] = "idle" PROVE FirmwareInv(h)'
  BY <1>1 DEF FirmwareInv, OpenPlaces, Takes254
<1>11. UNCHANGED clist
  BY DEF Loads, ResetForFirmware, OpenFirmware, NoFirmware, SendFirmware, SendFails, SyncFirmware, CloseFirmware,
       run_program, RestartReturns
<1>12. All(<<>>, h) /\ Len(<<>>) = 0
  BY DEF All
<1>2. CASE ResetForFirmware(h)
  <2>1. CASE pc'[h] = "idle"
    BY <1>1, <2>1
  <2>2. CASE pc'[h] # "idle"
    <3>1. /\ pc[h] = "reset" /\ pc'[h] = "open0" /\ restart_ise
          /\ \A c \in Channels : owner[c] \in {None, h}
      BY <1>0, <1>2, <2>2, Went, Ended DEF ResetForFirmware, Return, Hinder
    <3>2. ASSUME clist[h] = <<>> PROVE NoChannels
      <4>1. owner[0] # h /\ owner[254] # h
        BY <1>0, <3>1 DEF OwnerInv, Takes0, Takes254
      <4>. QED BY <1>0, <3>1, <3>2, <4>1, OwnChannels DEF NoChannels
    <3>3. clist[h] = <<>> => Blank'
      BY <3>1, <3>2 DEF restart_ise, RestartBoard, Blank
    <3>. QED BY <1>11, <3>1, <3>3 DEF FirmwareInv, OpenPlaces, Takes254
  <2>. QED BY <2>1, <2>2
<1>3. CASE OpenFirmware(h)
  <2>1. CASE pc'[h] = "idle"
    BY <1>1, <2>1
  <2>2. CASE pc'[h] # "idle"
    <3>1. pc[h] = "open0" /\ pc'[h] = "send" /\ UNCHANGED <<fifo, image, mode>>
      BY <1>0, <1>3, <2>2, Went, Ended DEF OpenFirmware, Return, boardVars
    <3>. QED BY <1>11, <1>12, <3>1 DEF FirmwareInv, Blank, OpenPlaces, Takes254
  <2>. QED BY <2>1, <2>2
<1>4. CASE NoFirmware(h) \/ RestartReturns(h)
  BY <1>0, <1>1, <1>4, Ended DEF NoFirmware, RestartReturns, Return
<1>5. CASE SendFirmware(h) \/ SendFails(h) \/ SyncFirmware(h) \/ CloseFirmware(h)
  <2>1. /\ pc[h] \in {"send", "sync", "close0"} /\ UNCHANGED <<image, mode>>
        /\ fifo' = fifo \/ fifo' = <<>> \/ fifo' = Append(fifo, h)
        /\ pc'[h] \in {"send", "sync", "close0", "run"}
    BY <1>0, <1>5, Went DEF SendFirmware, SendFails, SyncFirmware, CloseFirmware, Closed, boardVars
  <2>2. All(fifo, h) => All(fifo', h)
    BY <1>0, <1>12, <2>1, AllAppend
  <2>. QED BY <1>11, <2>1, <2>2 DEF FirmwareInv, OpenPlaces, Takes254
<1>8. CASE run_program(h)
  <2>1. pc[h] = "run"
    BY <1>8 DEF run_program
  <2>2. CASE Go(h, "running") /\ NoChannels /\ mode \in {"loaded", "program"}
    <3>1. clist[h] = <<>>
      BY <1>0, <2>2, OwnChannels
    <3>2. mode = "loaded" /\ All(image, h) /\ Len(image) = Pieces
      BY <2>1, <2>2, <3>1 DEF FirmwareInv
    <3>3. pc'[h] = "running" /\ mode' = "program" /\ running' = image
      <4>1. pc'[h] = "running"
        BY <1>0, <2>2, Went
      <4>. QED BY <1>0, <1>8, <3>2, <4>1, Ended DEF run_program, Retry, Return
    <3>4. image = [i \in 1 .. Pieces |-> h]
      <4>1. image \in [1 .. Pieces -> Handles] /\ DOMAIN image = 1 .. Pieces
        BY <1>0, <3>2, LenProperties
      <4>2. \A i \in 1 .. Pieces : image[i] = h
        BY <3>2, <4>1 DEF All
      <4>. QED BY <4>1, <4>2
    <3>. QED BY <3>3, <3>4 DEF FirmwareInv, OpenPlaces, Takes254
  <2>3. CASE Retry(h) /\ UNCHANGED <<mode, running, image>>
    <3>1. pc'[h] \in {"run", "idle"} /\ fifo' = fifo
      BY <1>0, <1>8, <2>1, <2>3, Ended DEF Retry, Return, run_program
    <3>. QED BY <1>11, <2>1, <2>3, <3>1 DEF FirmwareInv, OpenPlaces, Takes254
  <2>. QED BY <1>8, <2>2, <2>3 DEF run_program
<1>. QED BY <1>2, <1>3, <1>4, <1>5, <1>8 DEF Loads

LEMMA FirmwareBoard ==
  ASSUME SizeInv, ControlInv, Board, NEW g \in Handles, g \notin hindered, FirmwareInv(g)
  PROVE  FirmwareInv(g)'
<1>0. /\ Pieces \in Nat \ {0}
      /\ fifo \in Seq(Handles) /\ image \in Seq(Handles) /\ Len(<<>>) = 0
  BY LibAssumption DEF SizeInv
<1>1. CASE BoardTakes
  <2>1. /\ mode # "program" /\ fifo # <<>> /\ fifo' = Tail(fifo)
        /\ image' = IF Len(image) < Pieces THEN Append(image, Head(fifo)) ELSE image
        /\ UNCHANGED <<mode, running, pc, clist>>
    BY <1>1 DEF BoardTakes, callVars
  <2>2. PICK i \in Handles : owner[0] = i /\ pc[i] \in Writes0
    BY <2>1 DEF SizeInv
  <2>3. CASE i # g
    <3>1. pc[g] \notin FirmwarePlaces
      BY <2>2, <2>3, Controls DEF ControlInv, ControlCalls, Writes0
    <3>. QED BY <2>1, <3>1 DEF FirmwareInv, FirmwarePlaces
  <2>4. CASE i = g
    <3>1. SUFFICES ASSUME clist[g] = <<>>
                   PROVE  All(image', g) /\ All(fifo', g) /\ (mode = "loaded" => Len(image') = Pieces)
      BY <2>1, <2>2, <2>4 DEF FirmwareInv, Writes0, OpenPlaces, Takes254
    <3>2. All(image, g) /\ All(fifo, g) /\ (mode = "loaded" => Len(image) = Pieces)
      BY <2>2, <2>4, <3>1 DEF FirmwareInv, Writes0
    <3>3. Head(fifo) = g /\ All(fifo', g)
      BY <1>0, <2>1, <3>2, AllTail
    <3>4. All(image', g)
      BY <1>0, <2>1, <3>2, <3>3, AllAppend
    <3>5. mode = "loaded" => image' = image
      BY <1>0, <2>1, <3>2
    <3>. QED BY <3>2, <3>3, <3>4, <3>5
  <2>. QED BY <2>3, <2>4
<1>2. CASE BoardLoads
  <2>1. mode = "prom" /\ Len(image) = Pieces /\ mode' = "loaded" /\ UNCHANGED <<fifo, image, running, pc, clist>>
    BY <1>2 DEF BoardLoads, callVars
  <2>2. ~Blank
    BY <1>0, <2>1 DEF Blank
  <2>. QED BY <2>1, <2>2 DEF FirmwareInv
<1>3. CASE \E c \in Cids : BoardSends(c)
  <2>1. UNCHANGED <<fifo, image, mode, running, pc, clist>>
    BY <1>3 DEF BoardSends, boardVars, callVars
  <2>. QED BY <2>1 DEF FirmwareInv, Blank
<1>. QED BY <1>1, <1>2, <1>3 DEF Board

OKInv ==
  /\ ControlInv /\ PromptInv
  /\ \A h \in Handles \ hindered : FirmwareInv(h)

LEMMA OKInit == Init => OKInv
<1> SUFFICES ASSUME Init PROVE OKInv
  OBVIOUS
<1>1. said = <<>> /\ \A h \in Handles : pc[h] = "null" /\ version[h] = None
  BY DEF Init
<1>2. \A h \in Handles : FirmwareInv(h)
  BY <1>1, FirmwareElse DEF FirmwarePlaces, OpenPlaces, Takes254
<1>. QED BY <1>1, <1>2 DEF OKInv, ControlInv, ControlCalls, PromptInv, Said

LEMMA OKStep ==
  ASSUME HoldInv, OKInv, [Next]_vars
  PROVE  OKInv'
<1>0. /\ Kinds /\ SizeInv /\ ControlInv /\ PromptInv
      /\ \A h \in Handles : ArgInv(h) /\ OwnerInv(h)
      /\ \A h \in Handles \ hindered : FirmwareInv(h)
  BY DEF HoldInv, OKInv
<1>1. CASE UNCHANGED vars
  BY <1>0, <1>1 DEF vars, boardVars, callVars, OKInv, ControlInv, PromptInv, FirmwareInv, Blank
<1>2. CASE Board
  <2>1. UNCHANGED <<said, owner, pc, version, hindered>>
    BY <1>2 DEF Board, BoardTakes, BoardLoads, BoardSends, boardVars, callVars
  <2>2. ControlInv' /\ PromptInv'
    BY <1>0, <2>1 DEF ControlInv, PromptInv
  <2>3. \A h \in Handles \ hindered' : FirmwareInv(h)'
    BY <1>0, <1>2, <2>1, FirmwareBoard
  <2>. QED BY <2>2, <2>3 DEF OKInv
<1>3. ASSUME NEW h \in Handles, Call(h) \/ Step(h) \/ Exit(h) PROVE OKInv'
  <2>1. Manners(h)
    BY <1>0, <1>3, ControlStep
  <2>2. /\ \A g \in Handles \ {h} : Own(g)' = Own(g)
        /\ Domains' = <<Handles, Handles, Handles, Handles>>
    BY <1>0, <1>3, OthersStay
  <2>3. \A c \in {0, 254} : \A g \in Handles \ {h} : owner[c] = g => owner'[c] = g
    BY <1>0, <1>3, OwnerStep DEF Channels
  <2>4. Moved(h)
    BY <1>0, <2>2, <2>3 DEF Moved
  <2>5. \A g \in Handles \ {h} : pc'[g] = pc[g]
    BY <2>2 DEF Own
  <2>6. ControlInv' /\ hindered \ {h} \subseteq hindered'
    BY <1>0, <2>1, <2>5, ControlKept DEF Manners
  <2>7. PromptInv'
    BY <1>0, <2>1, <2>3, <2>4, PromptQuiet, PromptTalks DEF Manners
  <2>8. ASSUME NEW g \in Handles, g \notin hindered', g # h PROVE FirmwareInv(g)'
    <3>1. FirmwareInv(g)
      BY <1>0, <2>6, <2>8
    <3>. QED BY <1>0, <2>1, <2>4, <2>8, <3>1, FirmwareOthers DEF Manners
  <2>9. ASSUME h \notin hindered' PROVE FirmwareInv(h)'
    <3>1. CASE pc'[h] \notin FirmwarePlaces
      BY <3>1 DEF FirmwareInv, FirmwarePlaces
    <3>2. CASE pc'[h] \in FirmwarePlaces
      <4>1. FirmwareInv(h)
        BY <1>0, <2>1, <2>9, <3>2, Controls DEF Manners, Minds
      <4>. QED BY <1>0, <2>1, <2>4, <2>9, <3>2, <4>1, FirmwareOwn, FirmwareOpens DEF Manners
    <3>. QED BY <3>1, <3>2
  <2>. QED BY <2>6, <2>7, <2>8, <2>9 DEF OKInv
<1>. QED BY <1>1, <1>2, <1>3 DEF Next

LEMMA SpecOK == Spec => []OKInv
BY SpecHolds, OKInit, OKStep, PTL DEF Spec

\* What a call leaves when another process has not come across it: a handle of
\* ise_open has the identity that the prom gave, unless a read of it failed, and
\* the board is in its prom with no firmware; after ise_restart with ISE_OK it
\* runs what this process has sent, all of it.
THEOREM OKKept == Spec => []OKMeansDone
<1>1. HoldInv /\ OKInv => OKMeansDone
  <2> SUFFICES ASSUME HoldInv, OKInv PROVE OKMeansDone
    OBVIOUS
  <2>1. Identified
    BY DEF OKInv, PromptInv, Said, Junk, Identified
  <2>2. RestartRuns
    BY DEF OKInv, FirmwareInv, RestartRuns
  <2>3. OpenResets
    BY DEF OKInv, FirmwareInv, OpenPlaces, Blank, OpenResets
  <2>. QED BY <2>1, <2>2, <2>3 DEF OKMeansDone
<1>. QED BY <1>1, SpecHolds, SpecOK, PTL

-----------------------------------------------------------------------------
(* Lines that programs read.                                                *)

\* Where the characters of a channel are: with the program, in the line so far,
\* in the buffer.
LineInv(c) ==
  /\ taken[c] \in Nat /\ Len(told[c]) + Len(acc[c]) + Len(buf[c]) = taken[c]
  /\ \A i \in 1 .. Len(told[c]) : told[c][i] = i
  /\ \A i \in 1 .. Len(acc[c]) : acc[c][i] = Len(told[c]) + i /\ ~IsNewline(acc[c][i])
  /\ \A i \in 1 .. Len(buf[c]) : buf[c][i] = Len(told[c]) + Len(acc[c]) + i
  /\ \A n \in ends[c] : n \in 1 .. Len(told[c]) /\ IsNewline(n)
  /\ \A n \in 1 .. Len(told[c]) : IsNewline(n) /\ (Linux \/ LineOf(n) \notin LogLines) => n \in ends[c]

Texts ==
  /\ told \in [Cids -> Seq(Nat)] /\ acc \in [Cids -> Seq(Nat)] /\ buf \in [Cids -> Seq(Nat)]
  /\ ends \in [Cids -> SUBSET Nat]

LineTexts == Texts /\ \A c \in Cids : LineInv(c)

\* A set of numbers has a least.
LEMMA LeastOf ==
  ASSUME NEW T, T \subseteq Nat, T # {}
  PROVE  \E i \in T : \A j \in T : i <= j
<1> DEFINE less == {ss \in Nat \X Nat : ss[1] < ss[2]}
<1>1. IsWellFoundedOn(less, Nat)
  BY NatLessThanWellFounded DEF OpToRel
<1>2. PICK i \in T : \A j \in T : ~ (<<j, i>> \in less)
  <2> HIDE DEF less
  <2>. QED BY <1>1, WFMin
<1>3. ASSUME NEW j \in T PROVE i <= j
  <2>1. i \in Nat /\ j \in Nat /\ ~ (<<j, i>> \in less)
    BY <1>2
  <2>2. ~(j < i)
    BY <2>1
  <2>. QED BY <2>1, <2>2
<1>. QED BY <1>3

\* Text is taken up to the first newline, or all of it.
LEMMA UptoFirst ==
  ASSUME NEW s \in Seq(Nat), s # <<>>
  PROVE  /\ Upto(s) \in 1 .. Len(s)
         /\ \A i \in 1 .. Upto(s) - 1 : ~IsNewline(s[i])
         /\ ~IsNewline(s[Upto(s)]) => Upto(s) = Len(s)
<1> DEFINE at == {i \in DOMAIN s : IsNewline(s[i])}
<1>1. DOMAIN s = 1 .. Len(s) /\ Len(s) \in Nat /\ Len(s) > 0
  BY LenProperties
<1>2. CASE at = {}
  <2>1. Upto(s) = Len(s)
    BY <1>2 DEF Upto
  <2>. QED BY <1>1, <1>2, <2>1
<1>3. CASE at # {}
  <2> DEFINE first == CHOOSE i \in at : \A j \in at : i <= j
  <2>1. Upto(s) = first
    BY <1>3 DEF Upto
  <2>2. first \in at /\ \A j \in at : first <= j
    <3>1. at \subseteq Nat
      BY <1>1
    <3> HIDE DEF at
    <3>2. \E i \in at : \A j \in at : i <= j
      BY <1>3, <3>1, LeastOf
    <3>. QED BY <3>2
  <2> HIDE DEF first
  <2>3. first \in 1 .. Len(s) /\ IsNewline(s[first])
    BY <1>1, <2>2
  <2>4. ASSUME NEW i \in 1 .. first - 1 PROVE ~IsNewline(s[i])
    BY <1>1, <2>2, <2>3
  <2>. QED BY <2>1, <2>3, <2>4
<1>. QED BY <1>2, <1>3

\* Numbers of characters by lines.
LEMMA LineNumber ==
  ASSUME NEW l \in Nat \ {0}, NEW k \in Nat, NEW r \in 0 .. l - 1
  PROVE  (k * l + r) % l = r /\ (k * l + r) \div l = k
OBVIOUS

LEMMA LinePlace ==
  ASSUME NEW l \in Nat \ {0}, NEW n \in Nat
  PROVE  n = (n \div l) * l + (n % l) /\ n \div l \in Nat /\ n % l \in 0 .. l - 1
OBVIOUS

\* The first newline from the first character of a line on ends that line.
LEMMA SameLine ==
  ASSUME NEW t \in Nat, t % LineLen = 1, NEW n \in Nat, n >= t, IsNewline(n),
         \A i \in t .. n - 1 : ~IsNewline(i)
  PROVE  LineOf(n) = LineOf(t)
<1> DEFINE l == LineLen
<1>0. l \in Nat \ {0}
  BY LibAssumption
<1>1. t % l = 1 /\ n % l = 0 /\ \A i \in t .. n - 1 : i % l # 0
  BY DEF IsNewline
<1> SUFFICES (n + l - 1) \div l = (t + l - 1) \div l
  BY DEF LineOf
<1> HIDE DEF l
<1> USE <1>0
<1>2. PICK k \in Nat : t = k * l + 1
  <2>1. t = (t \div l) * l + (t % l) /\ t \div l \in Nat
    BY LinePlace
  <2>2. t = (t \div l) * l + 1
    BY <1>1, <2>1
  <2>. QED BY <2>1, <2>2
<1>3. l >= 2
  <2>1. t % 1 = 0
    OBVIOUS
  <2>. QED BY <1>1, <2>1
<1>4. PICK j \in Nat : n = j * l
  <2>1. n = (n \div l) * l + 0 /\ n \div l \in Nat
    BY <1>1, LinePlace
  <2>. QED BY <2>1
<1> DEFINE a == j * l
           b == k * l
           c == (k + 1) * l
<1>5. a \in Nat /\ b \in Nat /\ c \in Nat /\ n = a /\ t = b + 1 /\ c = b + l /\ c + 0 = c
  BY <1>2, <1>4
<1>6. j <= k => a <= b
  OBVIOUS
<1>7. j > k + 1 => a >= b + l + l
  <2>1. j > k + 1 => j * l >= (k + 2) * l
    OBVIOUS
  <2>2. (k + 2) * l = k * l + l + l
    OBVIOUS
  <2>. QED BY <2>1, <2>2
<1>8. c % l = 0
  <2>1. (c + 0) % l = 0
    BY LineNumber
  <2> HIDE DEF c
  <2>. QED BY <1>5, <2>1
<1>9. j = k + 1
  <2> HIDE DEF a, b, c
  <2>1. ~(j <= k)
    BY <1>5, <1>6
  <2>2. j > k + 1 => c \in t .. n - 1
    BY <1>3, <1>5, <1>7
  <2>. QED BY <1>1, <1>8, <2>1, <2>2
<1>10. n + l - 1 = (k + 1) * l + (l - 1) /\ t + l - 1 = (k + 1) * l + 0
  <2>1. c = (k + 1) * l /\ a = c
    BY <1>9
  <2> HIDE DEF a, b, c
  <2>. QED BY <1>5, <2>1
<1>11. ((k + 1) * l + (l - 1)) \div l = k + 1 /\ ((k + 1) * l + 0) \div l = k + 1
  <2>1. k + 1 \in Nat /\ l - 1 \in 0 .. l - 1 /\ 0 \in 0 .. l - 1
    OBVIOUS
  <2>2. ((k + 1) * l + (l - 1)) \div l = k + 1
    BY <2>1, LineNumber
  <2>3. ((k + 1) * l + 0) \div l = k + 1
    BY <2>1, LineNumber
  <2>. QED BY <2>2, <2>3
<1>. QED BY <1>10, <1>11

-----------------------------------------------------------------------------
(* Text goes from the buffer to the line so far, and from there to the       *)
(* program.                                                                 *)

LEMMA Parts ==
  ASSUME NEW s \in Seq(Nat), NEW u \in 1 .. Len(s)
  PROVE  /\ SubSeq(s, 1, u) \in Seq(Nat) /\ Len(SubSeq(s, 1, u)) = u
         /\ \A i \in 1 .. u : SubSeq(s, 1, u)[i] = s[i]
         /\ SubSeq(s, u + 1, Len(s)) \in Seq(Nat) /\ Len(SubSeq(s, u + 1, Len(s))) = Len(s) - u
         /\ \A i \in 1 .. Len(s) - u : SubSeq(s, u + 1, Len(s))[i] = s[u + i]
<1>1. Len(s) \in Nat /\ \A i \in 1 .. Len(s) : s[i] \in Nat
  BY LenProperties
<1>2. /\ SubSeq(s, 1, u) \in Seq(Nat) /\ Len(SubSeq(s, 1, u)) = IF 1 <= u THEN u - 1 + 1 ELSE 0
      /\ \A i \in 1 .. u - 1 + 1 : SubSeq(s, 1, u)[i] = s[1 + i - 1]
  <2>1. \A i \in 1 .. u : s[i] \in Nat
    BY <1>1
  <2>. QED BY <1>1, <2>1, SubSeqProperties
<1>3. /\ SubSeq(s, u + 1, Len(s)) \in Seq(Nat)
      /\ Len(SubSeq(s, u + 1, Len(s))) = IF u + 1 <= Len(s) THEN Len(s) - (u + 1) + 1 ELSE 0
      /\ \A i \in 1 .. Len(s) - (u + 1) + 1 : SubSeq(s, u + 1, Len(s))[i] = s[(u + 1) + i - 1]
  <2>1. \A i \in u + 1 .. Len(s) : s[i] \in Nat
    BY <1>1
  <2>. QED BY <1>1, <2>1, SubSeqProperties
<1>. QED BY <1>1, <1>2, <1>3

\* The text of the line with what the buffer adds to it, u characters.
LEMMA TextOfLine ==
  ASSUME Texts, NEW c \in Cids, LineInv(c), buf[c] # <<>>
  PROVE  \E u \in 1 .. Len(buf[c]) :
           /\ LineText(c) \in Seq(Nat) /\ Len(LineText(c)) = Len(acc[c]) + u
           /\ \A i \in 1 .. Len(acc[c]) + u : LineText(c)[i] = Len(told[c]) + i
           /\ \A i \in 1 .. Len(acc[c]) + u - 1 : ~IsNewline(Len(told[c]) + i)
           /\ LineDone(c) <=> IsNewline(Len(told[c]) + Len(acc[c]) + u)
           /\ ~LineDone(c) => u = Len(buf[c])
           /\ Rest(c, Upto(buf[c])) \in Seq(Nat) /\ Len(Rest(c, Upto(buf[c]))) = Len(buf[c]) - u
           /\ \A i \in 1 .. Len(buf[c]) - u :
                Rest(c, Upto(buf[c]))[i] = Len(told[c]) + Len(acc[c]) + u + i
<1> DEFINE b == buf[c]
           a == acc[c]
           t == told[c]
           u == Upto(b)
           first == SubSeq(b, 1, u)
           rest == SubSeq(b, u + 1, Len(b))
<1>1. /\ b \in Seq(Nat) /\ a \in Seq(Nat) /\ t \in Seq(Nat) /\ b # <<>>
      /\ Len(b) \in Nat /\ Len(a) \in Nat /\ Len(t) \in Nat
  BY LenProperties DEF Texts
<1>2. /\ \A i \in 1 .. Len(a) : a[i] = Len(t) + i /\ ~IsNewline(a[i])
      /\ \A i \in 1 .. Len(b) : b[i] = Len(t) + Len(a) + i
  BY DEF LineInv
<1>3. LineText(c) = a \o first /\ (LineDone(c) <=> IsNewline(b[u])) /\ Rest(c, Upto(buf[c])) = rest
  BY DEF LineText, LineDone, Rest
<1> HIDE DEF b, a, t
<1>4. /\ u \in 1 .. Len(b) /\ \A i \in 1 .. u - 1 : ~IsNewline(b[i])
      /\ ~IsNewline(b[u]) => u = Len(b)
  BY <1>1, UptoFirst
<1>11. Len(a) \in Nat /\ Len(b) \in Nat /\ Len(t) \in Nat /\ u \in Nat /\ 1 <= u /\ u <= Len(b)
  BY <1>1, <1>4
<1> HIDE DEF u
<1>5. /\ first \in Seq(Nat) /\ Len(first) = u /\ \A i \in 1 .. u : first[i] = b[i]
      /\ rest \in Seq(Nat) /\ Len(rest) = Len(b) - u
      /\ \A i \in 1 .. Len(b) - u : rest[i] = b[u + i]
  BY <1>1, <1>4, Parts
<1> HIDE DEF first, rest
<1>6. /\ a \o first \in Seq(Nat) /\ Len(a \o first) = Len(a) + u
      /\ \A i \in 1 .. Len(a) + u : (a \o first)[i] = IF i <= Len(a) THEN a[i] ELSE first[i - Len(a)]
  BY <1>1, <1>5, ConcatProperties
<1>7. ASSUME NEW i \in 1 .. Len(a) + u
      PROVE  (a \o first)[i] = Len(t) + i /\ (i # Len(a) + u => ~IsNewline(Len(t) + i))
  <2>1. CASE i <= Len(a)
    <3>1. i \in 1 .. Len(a)
      BY <1>1, <1>4, <2>1
    <3>. QED BY <1>2, <1>6, <2>1, <3>1
  <2>2. CASE ~(i <= Len(a))
    <3>1. i - Len(a) \in 1 .. u
      BY <1>1, <1>4, <2>2
    <3>2. (a \o first)[i] = b[i - Len(a)] /\ i - Len(a) \in 1 .. Len(b)
      BY <1>1, <1>4, <1>5, <1>6, <2>2, <3>1
    <3>3. b[i - Len(a)] = Len(t) + Len(a) + (i - Len(a))
      BY <1>2, <3>2
    <3>4. b[i - Len(a)] = Len(t) + i
      BY <1>1, <1>4, <3>3
    <3>5. i # Len(a) + u => i - Len(a) \in 1 .. u - 1
      BY <1>11, <3>1
    <3>. QED BY <1>4, <3>2, <3>4, <3>5
  <2>. QED BY <2>1, <2>2
<1>8. \A i \in 1 .. Len(a) + u - 1 : ~IsNewline(Len(t) + i)
  <2>1. ASSUME NEW i \in 1 .. Len(a) + u - 1 PROVE i \in 1 .. Len(a) + u /\ i # Len(a) + u
    BY <1>11
  <2>. QED BY <1>7, <2>1
<1>9. b[u] = Len(t) + Len(a) + u
  BY <1>2, <1>4
<1>10. \A i \in 1 .. Len(b) - u : rest[i] = Len(t) + Len(a) + u + i
  <2> SUFFICES ASSUME NEW i \in 1 .. Len(b) - u PROVE rest[i] = Len(t) + Len(a) + u + i
    OBVIOUS
  <2>1. u + i \in 1 .. Len(b)
    BY <1>1, <1>4
  <2>2. rest[i] = Len(t) + Len(a) + (u + i)
    BY <1>2, <1>5, <2>1
  <2>. QED BY <1>1, <1>4, <2>2
<1>. QED
  <2>1. \E n \in 1 .. Len(b) :
           /\ LineText(c) \in Seq(Nat) /\ Len(LineText(c)) = Len(a) + n
           /\ \A i \in 1 .. Len(a) + n : LineText(c)[i] = Len(t) + i
           /\ \A i \in 1 .. Len(a) + n - 1 : ~IsNewline(Len(t) + i)
           /\ LineDone(c) <=> IsNewline(Len(t) + Len(a) + n)
           /\ ~LineDone(c) => n = Len(b)
           /\ Rest(c, Upto(buf[c])) \in Seq(Nat) /\ Len(Rest(c, Upto(buf[c]))) = Len(b) - n
           /\ \A i \in 1 .. Len(b) - n : Rest(c, Upto(buf[c]))[i] = Len(t) + Len(a) + n + i
    <3>1. LineDone(c) <=> IsNewline(Len(t) + Len(a) + u)
      BY <1>3, <1>9
    <3>2. ~LineDone(c) => u = Len(b)
      BY <1>3, <1>4
    <3>3. /\ LineText(c) \in Seq(Nat) /\ Len(LineText(c)) = Len(a) + u
          /\ \A i \in 1 .. Len(a) + u : LineText(c)[i] = Len(t) + i
      BY <1>3, <1>6, <1>7
    <3>4. /\ Rest(c, Upto(buf[c])) \in Seq(Nat) /\ Len(Rest(c, Upto(buf[c]))) = Len(b) - u
          /\ \A i \in 1 .. Len(b) - u : Rest(c, Upto(buf[c]))[i] = Len(t) + Len(a) + u + i
      BY <1>3, <1>5, <1>10
    <3>. QED BY <1>4, <1>8, <3>1, <3>2, <3>3, <3>4
  <2>. QED BY <2>1 DEF a, b, t

\* The invariant of a channel is about that channel's text alone.
LEMMA LineSame ==
  ASSUME NEW c, LineInv(c), UNCHANGED <<platform, taken[c], told[c], acc[c], buf[c], ends[c]>>
  PROVE  LineInv(c)'
BY DEF LineInv, Linux, LineOf, IsNewline

\* The m characters of s follow number p.
Run(s, p, m) == \A i \in 1 .. m : s[i] = p + i

\* Text joins what was told: p characters of it, and m of the text.
LEMMA Joined ==
  ASSUME NEW t \in Seq(Nat), NEW text \in Seq(Nat), NEW p \in Nat, NEW m \in Nat,
         Len(t) = p, Len(text) = m, Run(t, 0, p), Run(text, p, m)
  PROVE  t \o text \in Seq(Nat) /\ Len(t \o text) = p + m /\ Run(t \o text, 0, p + m)
<1>1. /\ t \o text \in Seq(Nat) /\ Len(t \o text) = p + m
      /\ \A i \in 1 .. p + m : (t \o text)[i] = IF i <= p THEN t[i] ELSE text[i - p]
  BY ConcatProperties
<1>2. ASSUME NEW i \in 1 .. p + m PROVE (t \o text)[i] = 0 + i
  <2>1. CASE i <= p
    BY <1>1, <2>1 DEF Run
  <2>2. CASE ~(i <= p)
    <3>1. i - p \in 1 .. m /\ p + (i - p) = 0 + i
      BY <2>2
    <3>. QED BY <1>1, <2>2, <3>1 DEF Run
  <2>. QED BY <2>1, <2>2
<1>. QED BY <1>1, <1>2 DEF Run

LEMMA TakeLine ==
  ASSUME LineTexts, NEW h, NEW c \in Cids, c = arg[h], TakeText(c), NEW whole \in BOOLEAN, GiveLine(h, whole),
         whole => LineDone(c), LineDone(c) /\ ~whole => ~Linux /\ IsLogLine(LineText(c))
  PROVE  LineTexts'
<1>0. Texts /\ LineInv(c) /\ buf[c] # <<>> /\ UNCHANGED <<platform, taken>>
  BY DEF LineTexts, TakeText
<1> DEFINE text == LineText(c)
           rest == Rest(c, Upto(buf[c]))
<1>9. PICK p \in Nat, q \in Nat, r \in Nat : p = Len(told[c]) /\ q = Len(acc[c]) /\ r = Len(buf[c])
  BY <1>0, LenProperties DEF Texts
<1>1. PICK u \in 1 .. r :
           /\ text \in Seq(Nat) /\ Len(text) = q + u
           /\ \A i \in 1 .. q + u : text[i] = p + i
           /\ \A i \in 1 .. q + u - 1 : ~IsNewline(p + i)
           /\ LineDone(c) <=> IsNewline(p + q + u)
           /\ ~LineDone(c) => u = r
           /\ rest \in Seq(Nat) /\ Len(rest) = r - u
           /\ \A i \in 1 .. r - u : rest[i] = p + q + u + i
  <2>1. PICK u \in 1 .. Len(buf[c]) :
           /\ text \in Seq(Nat) /\ Len(text) = Len(acc[c]) + u
           /\ \A i \in 1 .. Len(acc[c]) + u : text[i] = Len(told[c]) + i
           /\ \A i \in 1 .. Len(acc[c]) + u - 1 : ~IsNewline(Len(told[c]) + i)
           /\ LineDone(c) <=> IsNewline(Len(told[c]) + Len(acc[c]) + u)
           /\ ~LineDone(c) => u = Len(buf[c])
           /\ rest \in Seq(Nat) /\ Len(rest) = Len(buf[c]) - u
           /\ \A i \in 1 .. Len(buf[c]) - u : rest[i] = Len(told[c]) + Len(acc[c]) + u + i
    BY <1>0, TextOfLine
  <2> HIDE DEF text, rest
  <2>. QED BY <1>9, <2>1
<1>2. told[c] \in Seq(Nat) /\ ends[c] \subseteq Nat /\ taken'[c] \in Nat /\ p + q + r = taken'[c] /\ u \in Nat /\ 1 <= u /\ u <= r
  BY <1>0, <1>1, <1>9 DEF Texts, LineInv
<1>3. <<>> \in Seq(Nat) /\ Len(<<>>) = 0
  OBVIOUS
<1>4. /\ buf' = [buf EXCEPT ![c] = rest]
      /\ acc' = [acc EXCEPT ![c] = IF LineDone(c) THEN <<>> ELSE text]
      /\ told' = IF LineDone(c) THEN [told EXCEPT ![c] = @ \o text] ELSE told
      /\ ends' = IF whole THEN [ends EXCEPT ![c] = @ \cup {Len(told'[c])}] ELSE ends
  BY DEF TakeText, GiveLine
<1>5. ASSUME NEW d \in Cids, d # c PROVE LineInv(d)'
  <2>1. UNCHANGED <<told[d], acc[d], buf[d], ends[d]>>
    BY <1>4, <1>5, <1>0 DEF Texts
  <2>. QED BY <1>0, <2>1, LineSame DEF LineTexts
<1> HIDE DEF text, rest
<1>6. buf' \in [Cids -> Seq(Nat)] /\ acc' \in [Cids -> Seq(Nat)] /\ buf'[c] = rest
  BY <1>0, <1>1, <1>3, <1>4 DEF Texts
<1>7. ASSUME ~LineDone(c) PROVE Texts' /\ LineInv(c)'
  <2>1. told' = told /\ ends' = ends /\ acc'[c] = text /\ u = r
    BY <1>0, <1>1, <1>4, <1>7 DEF Texts
  <2>2. Texts'
    BY <1>0, <1>6, <2>1 DEF Texts
  <2>3. Len(told'[c]) = p /\ Len(acc'[c]) = q + u /\ Len(buf'[c]) = 0
    <3>1. r - u = 0
      BY <2>1
    <3>. QED BY <1>1, <1>6, <1>9, <2>1, <3>1
  <2>4. ASSUME NEW i \in 1 .. q + u PROVE text[i] = p + i /\ ~IsNewline(p + i)
    <3>1. i \in 1 .. q + u - 1 \/ p + i = p + q + u
      BY u \in Nat
    <3>. QED BY <1>1, <1>7, <3>1
  <2>5. p + (q + u) + 0 = taken'[c]
    BY <1>2, <2>1
  <2>6. \A i \in 1 .. Len(acc'[c]) : acc'[c][i] = Len(told'[c]) + i /\ ~IsNewline(acc'[c][i])
    BY <2>1, <2>3, <2>4
  <2>7. \A i \in 1 .. Len(buf'[c]) : buf'[c][i] = Len(told'[c]) + Len(acc'[c]) + i
    BY <2>3
  <2>8. LineInv(c)
    BY <1>0
  <2>. QED BY <1>0, <1>2, <2>1, <2>2, <2>3, <2>5, <2>6, <2>7, <2>8 DEF LineInv, Linux, LineOf, IsNewline
<1>8. ASSUME LineDone(c) PROVE Texts' /\ LineInv(c)'
  <2> DEFINE t == told[c] \o text
  <2>0. PICK n \in Nat : n = p + q + u
    BY <1>2
  <2>1. t \in Seq(Nat) /\ Len(t) = n /\ \A i \in 1 .. n : t[i] = i
    <3>1. \A i \in 1 .. p : told[c][i] = i
      BY <1>0, <1>9 DEF LineInv
    <3>2. q + u \in Nat /\ p + (q + u) = n
      BY <1>2, <2>0
    <3>3. Len(text) = q + u /\ text \in Seq(Nat) /\ Len(told[c]) = p /\ \A i \in 1 .. q + u : text[i] = p + i
      BY <1>1, <1>9
    <3>4. Run(told[c], 0, p) /\ Run(text, p, q + u)
      BY <3>1, <3>3 DEF Run
    <3>5. PICK m \in Nat : m = q + u
      BY <3>2
    <3>7. /\ told[c] \in Seq(Nat) /\ text \in Seq(Nat) /\ Len(told[c]) = p /\ Len(text) = m
          /\ Run(told[c], 0, p) /\ Run(text, p, m)
      BY <1>2, <3>3, <3>4, <3>5
    <3>6. t \in Seq(Nat) /\ Len(t) = p + m /\ Run(t, 0, p + m)
      <4> DEFINE s == told[c]
      <4>1. /\ s \in Seq(Nat) /\ text \in Seq(Nat) /\ Len(s) = p /\ Len(text) = m
            /\ Run(s, 0, p) /\ Run(text, p, m)
        BY <3>7
      <4> HIDE DEF s
      <4>2. s \o text \in Seq(Nat) /\ Len(s \o text) = p + m /\ Run(s \o text, 0, p + m)
        BY <4>1, Joined
      <4>. QED BY <4>2 DEF s
    <3>. QED BY <3>2, <3>5, <3>6 DEF Run
  <2>2. told' = [told EXCEPT ![c] = t] /\ acc'[c] = <<>>
    BY <1>0, <1>4, <1>8 DEF Texts
  <2> HIDE DEF t
  <2>3. told' \in [Cids -> Seq(Nat)] /\ told'[c] = t
    BY <1>0, <2>1, <2>2 DEF Texts
  <2>4. IsNewline(n) /\ n > p
    <3>1. IsNewline(p + q + u)
      BY <1>1, <1>8
    <3>2. n > p
      BY <1>2, <2>0
    <3>. QED BY <2>0, <3>1, <3>2
  <2>5. ends' = IF whole THEN [ends EXCEPT ![c] = @ \cup {n}] ELSE ends
    BY <1>4, <2>1, <2>3
  <2>6. ends' \in [Cids -> SUBSET Nat] /\ ends'[c] = IF whole THEN ends[c] \cup {n} ELSE ends[c]
    BY <1>0, <2>5 DEF Texts
  <2>7. Texts'
    BY <1>6, <2>3, <2>6 DEF Texts
  <2>8. ASSUME NEW i \in p + 1 .. n - 1 PROVE ~IsNewline(i)
    <3>1. i - p \in 1 .. q + u - 1 /\ p + (i - p) = i
      BY <1>2, <2>0
    <3>2. ~IsNewline(p + (i - p))
      BY <1>1, <3>1
    <3>. QED BY <3>1, <3>2
  <2>9. Len(told'[c]) = n /\ Len(acc'[c]) = 0 /\ Len(buf'[c]) = r - u
    BY <1>1, <1>3, <1>6, <2>1, <2>2, <2>3
  <2>10. n + 0 + (r - u) = taken'[c]
    BY <1>2, <2>0
  <2>11. ASSUME NEW i \in 1 .. r - u PROVE buf'[c][i] = n + 0 + i
    <3>1. buf'[c][i] = p + q + u + i
      BY <1>1, <1>6
    <3>. QED BY <1>2, <2>0, <3>1
  <2>12. \A m \in ends'[c] : m \in 1 .. n /\ IsNewline(m)
    <3>1. \A m \in ends[c] : m \in 1 .. p /\ IsNewline(m)
      BY <1>0, <1>9 DEF LineInv
    <3>2. \A m \in 1 .. p : m \in 1 .. n
      BY <2>4
    <3>3. n \in 1 .. n
      BY <2>4
    <3>. QED BY <2>4, <2>6, <3>1, <3>2, <3>3
  <2>13. ASSUME NEW m \in 1 .. n, IsNewline(m), Linux \/ LineOf(m) \notin LogLines PROVE m \in ends'[c]
    <3>1. CASE m <= p
      <4>1. m \in 1 .. p
        BY <3>1
      <4>2. m \in ends[c]
        BY <1>0, <1>9, <2>13, <4>1 DEF LineInv
      <4>. QED BY <2>6, <4>2
    <3>2. CASE ~(m <= p)
      <4>1. m \notin p + 1 .. n - 1
        BY <2>8, <2>13
      <4>2. m = n
        BY <3>2, <4>1
      <4>3. CASE whole
        BY <2>6, <4>2, <4>3
      <4>4. CASE ~whole
        <5>1. ~Linux /\ IsLogLine(text)
          BY <1>8, <4>4 DEF text
        <5>2. 1 \in 1 .. q + u
          BY <1>2
        <5>3. text[1] = p + 1
          BY <1>1, <5>2
        <5>4. LineOf(p + 1) \in LogLines /\ (p + 1) % LineLen = 1
          BY <5>1, <5>3 DEF IsLogLine
        <5>5. p + 1 \in Nat /\ n >= p + 1
          BY <2>4
        <5>6. LineOf(n) = LineOf(p + 1)
          BY <2>4, <2>8, <5>4, <5>5, SameLine
        <5>. QED BY <2>13, <4>2, <5>1, <5>4, <5>6
      <4>. QED BY <4>3, <4>4
    <3>. QED BY <3>1, <3>2
  <2>14. Linux' = Linux
    BY <1>0 DEF Linux
  <2>15. \A i \in 1 .. Len(told'[c]) : told'[c][i] = i
    BY <2>1, <2>3, <2>9
  <2>16. \A i \in 1 .. Len(buf'[c]) : buf'[c][i] = Len(told'[c]) + Len(acc'[c]) + i
    BY <2>9, <2>11
  <2>17. LineInv(c)'
    BY <1>2, <2>9, <2>10, <2>12, <2>13, <2>14, <2>15, <2>16 DEF LineInv, LineOf, IsNewline
  <2>. QED BY <2>7, <2>17
<1>. QED BY <1>5, <1>7, <1>8 DEF LineTexts

\* A call that gives up leaves the text so far with the program, and there is no
\* newline in it.
LEMMA TextGiven ==
  ASSUME Texts, NEW c \in Cids, LineInv(c), UNCHANGED <<platform, ends>>,
         \/ UNCHANGED <<told, acc>>
         \/ told' = [told EXCEPT ![c] = @ \o acc[c]] /\ acc' = [acc EXCEPT ![c] = <<>>]
  PROVE  /\ told' \in [Cids -> Seq(Nat)] /\ acc' \in [Cids -> Seq(Nat)]
         /\ \A d \in Cids \ {c} : told'[d] = told[d] /\ acc'[d] = acc[d]
         /\ Len(told'[c]) + Len(acc'[c]) = Len(told[c]) + Len(acc[c])
         /\ \A i \in 1 .. Len(told'[c]) : told'[c][i] = i
         /\ \A i \in 1 .. Len(acc'[c]) : acc'[c][i] = Len(told'[c]) + i /\ ~IsNewline(acc'[c][i])
         /\ \A n \in ends'[c] : n \in 1 .. Len(told'[c]) /\ IsNewline(n)
         /\ \A n \in 1 .. Len(told'[c]) :
              IsNewline(n) /\ (Linux' \/ LineOf(n) \notin LogLines) => n \in ends'[c]
<1> DEFINE s == told[c]
           a == acc[c]
<1>0. Linux' = Linux /\ ends'[c] = ends[c]
  BY DEF Linux
<1>1. CASE UNCHANGED <<told, acc>>
  <2>1. told'[c] = told[c] /\ acc'[c] = acc[c] /\ told' \in [Cids -> Seq(Nat)] /\ acc' \in [Cids -> Seq(Nat)]
    BY <1>1 DEF Texts
  <2>2. \A d \in Cids \ {c} : told'[d] = told[d] /\ acc'[d] = acc[d]
    BY <1>1
  <2>. QED BY <1>0, <2>1, <2>2 DEF LineInv
<1>2. CASE told' = [told EXCEPT ![c] = @ \o acc[c]] /\ acc' = [acc EXCEPT ![c] = <<>>]
  <2>1. PICK p \in Nat, q \in Nat : s \in Seq(Nat) /\ a \in Seq(Nat) /\ Len(s) = p /\ Len(a) = q
    BY LenProperties DEF Texts
  <2>2. Run(s, 0, p) /\ Run(a, p, q) /\ \A i \in 1 .. q : ~IsNewline(p + i)
    <3>1. Len(told[c]) = p /\ Len(acc[c]) = q
      BY <2>1
    <3>2. /\ \A i \in 1 .. Len(told[c]) : told[c][i] = i
          /\ \A i \in 1 .. Len(acc[c]) : acc[c][i] = Len(told[c]) + i /\ ~IsNewline(acc[c][i])
      BY DEF LineInv
    <3>3. \A i \in 1 .. p : s[i] = 0 + i
      BY <3>1, <3>2
    <3>4. \A i \in 1 .. q : a[i] = p + i /\ ~IsNewline(p + i)
      BY <3>1, <3>2
    <3>. QED BY <3>3, <3>4 DEF Run
  <2>3. s \o a \in Seq(Nat) /\ Len(s \o a) = p + q /\ Run(s \o a, 0, p + q)
    <3> HIDE DEF s, a
    <3>. QED BY <2>1, <2>2, Joined
  <2>4. /\ told' \in [Cids -> Seq(Nat)] /\ told'[c] = s \o a
        /\ acc' \in [Cids -> Seq(Nat)] /\ acc'[c] = <<>>
        /\ \A d \in Cids \ {c} : told'[d] = told[d] /\ acc'[d] = acc[d]
    BY <1>2, <2>3, EmptySeq DEF Texts
  <2>5. Len(told'[c]) = p + q /\ Len(acc'[c]) = 0 /\ p + q + 0 = p + q
    <3>1. Len(<<>>) = 0 /\ told'[c] = s \o a /\ acc'[c] = <<>> /\ Len(s \o a) = p + q
      BY <2>3, <2>4
    <3> HIDE DEF s, a
    <3>. QED BY <3>1
  <2>6. \A i \in 1 .. p + q : told'[c][i] = i
    <3>1. \A i \in 1 .. p + q : (s \o a)[i] = 0 + i
      BY <2>3 DEF Run
    <3>2. \A i \in 1 .. p + q : 0 + i = i
      OBVIOUS
    <3>. QED BY <2>4, <3>1, <3>2
  <2>7. \A m \in ends[c] : m \in 1 .. p /\ IsNewline(m)
    BY <2>1 DEF LineInv
  <2>8. ASSUME NEW m \in 1 .. p + q, IsNewline(m), Linux \/ LineOf(m) \notin LogLines PROVE m \in ends[c]
    <3>1. CASE m <= p
      <4>1. m \in 1 .. p
        BY <3>1
      <4>. QED BY <2>1, <2>8, <4>1 DEF LineInv
    <3>2. CASE ~(m <= p)
      <4>1. m - p \in 1 .. q /\ p + (m - p) = m
        BY <3>2
      <4>. QED BY <2>2, <2>8, <4>1
    <3>. QED BY <3>1, <3>2
  <2>9. \A m \in 1 .. p : m \in 1 .. p + q
    BY <2>1
  <2>10. Len(told'[c]) + Len(acc'[c]) = Len(told[c]) + Len(acc[c])
    <3>1. Len(told[c]) = p /\ Len(acc[c]) = q
      BY <2>1
    <3>. QED BY <2>5, <3>1
  <2>11. \A n \in ends'[c] : n \in 1 .. Len(told'[c]) /\ IsNewline(n)
    BY <1>0, <2>5, <2>7, <2>9
  <2>12. \A n \in 1 .. Len(told'[c]) :
           IsNewline(n) /\ (Linux' \/ LineOf(n) \notin LogLines) => n \in ends'[c]
    BY <1>0, <2>5, <2>8
  <2>13. \A i \in 1 .. Len(acc'[c]) : acc'[c][i] = Len(told'[c]) + i /\ ~IsNewline(acc'[c][i])
    BY <2>5
  <2>14. \A i \in 1 .. Len(told'[c]) : told'[c][i] = i
    BY <2>5, <2>6
  <2>. QED BY <2>4, <2>10, <2>11, <2>12, <2>13, <2>14
<1>. QED BY <1>1, <1>2

\* A read that fails.
LEMMA CutLine ==
  ASSUME LineTexts, NEW h, NEW c \in Cids, c = arg[h], ReadFails(h)
  PROVE  LineTexts'
<1>0. /\ Texts /\ LineInv(c) /\ UNCHANGED <<platform, taken, buf, ends>> /\ buf[c] = <<>>
      /\ told' = [told EXCEPT ![c] = @ \o acc[c]] /\ acc' = [acc EXCEPT ![c] = <<>>]
  BY DEF LineTexts, ReadFails, GiveUp
<1>1. /\ told' \in [Cids -> Seq(Nat)] /\ acc' \in [Cids -> Seq(Nat)]
      /\ \A d \in Cids \ {c} : told'[d] = told[d] /\ acc'[d] = acc[d]
      /\ Len(told'[c]) + Len(acc'[c]) = Len(told[c]) + Len(acc[c])
      /\ \A i \in 1 .. Len(told'[c]) : told'[c][i] = i
      /\ \A i \in 1 .. Len(acc'[c]) : acc'[c][i] = Len(told'[c]) + i /\ ~IsNewline(acc'[c][i])
      /\ \A n \in ends'[c] : n \in 1 .. Len(told'[c]) /\ IsNewline(n)
      /\ \A n \in 1 .. Len(told'[c]) :
           IsNewline(n) /\ (Linux' \/ LineOf(n) \notin LogLines) => n \in ends'[c]
  BY <1>0, TextGiven
<1>2. ASSUME NEW d \in Cids, d # c PROVE LineInv(d)'
  BY <1>0, <1>1, <1>2, LineSame DEF LineTexts
<1>3. /\ taken'[c] \in Nat /\ Len(told'[c]) + Len(acc'[c]) + Len(buf'[c]) = taken'[c]
      /\ \A i \in 1 .. Len(buf'[c]) : buf'[c][i] = Len(told'[c]) + Len(acc'[c]) + i
  <2>1. Len(buf'[c]) = 0 /\ taken'[c] = taken[c]
    BY <1>0
  <2>2. taken[c] \in Nat /\ Len(told[c]) + Len(acc[c]) + Len(buf[c]) = taken[c]
    BY <1>0 DEF LineInv
  <2>3. Len(told'[c]) + Len(acc'[c]) + Len(buf'[c]) = taken'[c]
    BY <1>0, <1>1, <2>2
  <2>4. \A i \in 1 .. Len(buf'[c]) : buf'[c][i] = Len(told'[c]) + Len(acc'[c]) + i
    BY <2>1
  <2>5. taken'[c] \in Nat
    BY <2>1, <2>2
  <2>. QED BY <2>3, <2>4, <2>5
<1>4. LineInv(c)'
  BY <1>1, <1>3 DEF LineInv, LineOf, IsNewline
<1>5. Texts'
  BY <1>0, <1>1 DEF Texts
<1>. QED BY <1>2, <1>4, <1>5 DEF LineTexts

\* What the board has sent comes into the empty buffer.
LEMMA MoreLine ==
  ASSUME LineTexts, CountInv, NEW h, NEW c \in Cids, c = arg[h], ReadMore(h)
  PROVE  LineTexts'
<1> DEFINE more == [i \in 1 .. sent[c] - taken[c] |-> taken[c] + i]
<1>0. /\ Texts /\ LineInv(c) /\ UNCHANGED <<platform, ends>> /\ buf[c] = <<>>
      /\ \/ UNCHANGED <<told, acc>>
         \/ told' = [told EXCEPT ![c] = @ \o acc[c]] /\ acc' = [acc EXCEPT ![c] = <<>>]
  BY DEF LineTexts, ReadMore, GiveUp
<1>1. sent[c] \in Nat /\ taken[c] \in Nat /\ taken[c] < sent[c] /\ taken \in [Cids -> Nat]
  BY DEF CountInv, ReadMore
<1>2. buf' = [buf EXCEPT ![c] = more] /\ taken' = [taken EXCEPT ![c] = sent[c]]
  BY DEF ReadMore
<1>3. PICK s \in Nat, k \in Nat : s = sent[c] /\ k = taken[c] /\ k < s
  BY <1>1
<1>4. more \in Seq(Nat) /\ Len(more) = s - k /\ \A i \in 1 .. s - k : more[i] = k + i
  <2>1. more = [i \in 1 .. s - k |-> k + i] /\ s - k \in Nat
    BY <1>3
  <2>2. \A i \in 1 .. s - k : k + i \in Nat
    BY <1>3
  <2> HIDE DEF more
  <2>. QED BY <2>1, <2>2, IsASeq
<1> HIDE DEF more
<1>5. buf' \in [Cids -> Seq(Nat)] /\ buf'[c] = more /\ taken'[c] = s
  BY <1>0, <1>1, <1>2, <1>3, <1>4 DEF Texts
<1>6. /\ told' \in [Cids -> Seq(Nat)] /\ acc' \in [Cids -> Seq(Nat)]
      /\ \A d \in Cids \ {c} : told'[d] = told[d] /\ acc'[d] = acc[d]
      /\ Len(told'[c]) + Len(acc'[c]) = Len(told[c]) + Len(acc[c])
      /\ \A i \in 1 .. Len(told'[c]) : told'[c][i] = i
      /\ \A i \in 1 .. Len(acc'[c]) : acc'[c][i] = Len(told'[c]) + i /\ ~IsNewline(acc'[c][i])
      /\ \A n \in ends'[c] : n \in 1 .. Len(told'[c]) /\ IsNewline(n)
      /\ \A n \in 1 .. Len(told'[c]) :
           IsNewline(n) /\ (Linux' \/ LineOf(n) \notin LogLines) => n \in ends'[c]
  BY <1>0, TextGiven
<1>7. ASSUME NEW d \in Cids, d # c PROVE LineInv(d)'
  <2>1. UNCHANGED <<platform, taken[d], told[d], acc[d], buf[d], ends[d]>>
    BY <1>0, <1>1, <1>2, <1>6, <1>7 DEF Texts
  <2>. QED BY <2>1, LineSame DEF LineTexts
<1>8. Len(told'[c]) + Len(acc'[c]) = k
  <2>1. Len(buf[c]) = 0
    BY <1>0
  <2>2. Len(told[c]) + Len(acc[c]) + Len(buf[c]) = taken[c]
    BY <1>0 DEF LineInv
  <2>3. PICK p \in Nat, q \in Nat : p = Len(told[c]) /\ q = Len(acc[c])
    BY <1>0, LenProperties DEF Texts
  <2>4. p + q + 0 = k
    BY <1>3, <2>1, <2>2, <2>3
  <2>5. Len(told'[c]) + Len(acc'[c]) = p + q
    BY <1>6, <2>3
  <2>6. p + q = k
    BY <2>4
  <2>. QED BY <2>5, <2>6
<1>9. Len(buf'[c]) = s - k /\ k + (s - k) = s
  BY <1>4, <1>5
<1>10. taken'[c] \in Nat /\ Len(told'[c]) + Len(acc'[c]) + Len(buf'[c]) = taken'[c]
  BY <1>5, <1>8, <1>9
<1>11. \A i \in 1 .. Len(buf'[c]) : buf'[c][i] = Len(told'[c]) + Len(acc'[c]) + i
  BY <1>4, <1>5, <1>8, <1>9
<1>12. LineInv(c)'
  BY <1>6, <1>10, <1>11 DEF LineInv, LineOf, IsNewline
<1>13. Texts'
  BY <1>0, <1>5, <1>6 DEF Texts
<1>. QED BY <1>7, <1>12, <1>13 DEF LineTexts

\* Nothing is left of a channel that is closed.
LEMMA LinesFreed ==
  ASSUME LineTexts, NEW gone, Freed(gone), UNCHANGED platform
  PROVE  LineTexts'
<1>0. Texts
  BY DEF LineTexts
<1>1. /\ taken' = [c \in Cids |-> IF c \in gone THEN 0 ELSE taken[c]]
      /\ buf' = [c \in Cids |-> IF c \in gone THEN <<>> ELSE buf[c]]
      /\ acc' = [c \in Cids |-> IF c \in gone THEN <<>> ELSE acc[c]]
      /\ told' = [c \in Cids |-> IF c \in gone THEN <<>> ELSE told[c]]
      /\ ends' = [c \in Cids |-> IF c \in gone THEN {} ELSE ends[c]]
  BY DEF Freed
<1>2. <<>> \in Seq(Nat) /\ Len(<<>>) = 0
  OBVIOUS
<1>3. Texts'
  BY <1>0, <1>1, <1>2 DEF Texts
<1>4. ASSUME NEW c \in Cids PROVE LineInv(c)'
  <2>1. CASE c \in gone
    <3>1. taken'[c] = 0 /\ buf'[c] = <<>> /\ acc'[c] = <<>> /\ told'[c] = <<>> /\ ends'[c] = {}
      BY <1>1, <2>1
    <3>. QED BY <1>2, <3>1 DEF LineInv
  <2>2. CASE c \notin gone
    <3>1. UNCHANGED <<platform, taken[c], told[c], acc[c], buf[c], ends[c]>>
      BY <1>1, <2>2
    <3>. QED BY <3>1, LineSame DEF LineTexts
  <2>. QED BY <2>1, <2>2
<1>. QED BY <1>3, <1>4 DEF LineTexts

LEMMA LineStep ==
  ASSUME HoldInv, LineTexts, [Next]_vars
  PROVE  LineTexts'
<1>0. Texts /\ CountInv /\ (\A c \in Cids : LineInv(c)) /\ \A h \in Handles : ArgInv(h)
  BY DEF HoldInv, LineTexts
<1>1. ASSUME UNCHANGED <<platform, taken, told, acc, buf, ends>> PROVE LineTexts'
  BY <1>0, <1>1, LineSame DEF LineTexts, Texts
<1>2. CASE UNCHANGED vars
  BY <1>1, <1>2 DEF vars, lineVars
<1>3. CASE Board
  BY <1>1, <1>3 DEF Board, BoardTakes, BoardLoads, BoardSends, lineVars
<1>4. ASSUME NEW h \in Handles,
             \/ ise_bind(h) \/ bind_windows(h) \/ ise_open(h) \/ ise_restart(h) \/ ise_channel(h)
             \/ ise_timeout(h) \/ ise_writeln(h) \/ ise_readln(h) \/ ise_close(h)
             \/ \E f \in Frames : \/ make_frame_ise(h, f) \/ make_frame_windows(h, f)
                                  \/ delete_frame_ise(h, f) \/ delete_frame_windows(h, f)
      PROVE  LineTexts'
  BY <1>1, <1>4 DEF ise_bind, bind_windows, ise_open, ise_restart, ise_channel, ise_timeout, ise_writeln,
       ise_readln, ise_close, make_frame_ise, make_frame_windows, delete_frame_ise, delete_frame_windows,
       restVars, lineVars
<1>5. ASSUME NEW h \in Handles,
             \/ RestartFirst(h) \/ OpenMonitor(h) \/ SwitchMonitor(h) \/ Hello(h) \/ Prompt(h)
             \/ Version(h) \/ VersionFails(h) \/ FindsPrompt(h) \/ CloseMonitor(h) \/ RestartAgain(h)
             \/ OpenReturns(h)
             \/ ResetForFirmware(h) \/ OpenFirmware(h) \/ NoFirmware(h) \/ SendFirmware(h)
             \/ SendFails(h) \/ SyncFirmware(h) \/ CloseFirmware(h) \/ run_program(h) \/ RestartReturns(h)
      PROVE  LineTexts'
  BY <1>1, <1>5 DEF RestartFirst, OpenMonitor, SwitchMonitor, Hello, Prompt, Version, VersionFails, FindsPrompt,
       CloseMonitor, RestartAgain, OpenReturns, ResetForFirmware, OpenFirmware, NoFirmware, SendFirmware,
       SendFails, SyncFirmware, CloseFirmware, run_program, RestartReturns, lineVars
<1>6. ASSUME NEW h \in Handles,
             \/ OpenChannel(h) \/ NumberChannel(h) \/ MapFrame(h) \/ FreeFrame(h)
             \/ CloseFrames(h) \/ CloseFrameDevice(h) \/ LastStep(h) \/ LastRestart(h)
      PROVE  LineTexts'
  BY <1>1, <1>6 DEF OpenChannel, NumberChannel, MapFrame, FreeFrame, CloseFrames, CloseFrameDevice, LastStep,
       LastRestart, restVars, lineVars
<1>7. ASSUME NEW h \in Handles, CloseChannels(h) \/ Exit(h) \/ Crash(h) PROVE LineTexts'
  BY <1>7, LinesFreed DEF CloseChannels, CloseChannel, Exit, Crash, Die
<1>8. ASSUME NEW h \in Handles, readln_linux(h) \/ readln_windows(h) PROVE LineTexts'
  <2>1. arg[h] \in Cids /\ TakeText(arg[h])
    BY <1>0, <1>8 DEF readln_linux, readln_windows, ArgInv
  <2>2. CASE readln_linux(h)
    <3>1. GiveLine(h, LineDone(arg[h])) /\ LineDone(arg[h]) \in BOOLEAN
      BY <2>2 DEF readln_linux, LineDone, IsNewline
    <3>. QED BY <2>1, <3>1, TakeLine
  <2>3. CASE readln_windows(h)
    <3> DEFINE whole == LineDone(arg[h]) /\ ~IsLogLine(LineText(arg[h]))
    <3>1. /\ GiveLine(h, whole) /\ whole \in BOOLEAN /\ ~Linux
          /\ whole => LineDone(arg[h])
          /\ LineDone(arg[h]) /\ ~whole => ~Linux /\ IsLogLine(LineText(arg[h]))
      BY <2>3 DEF readln_windows
    <3> HIDE DEF whole
    <3>. QED BY <2>1, <3>1, TakeLine
  <2>. QED BY <1>8, <2>2, <2>3
<1>9. ASSUME NEW h \in Handles, ReadMore(h) \/ ReadFails(h) PROVE LineTexts'
  <2>1. arg[h] \in Cids
    BY <1>0, <1>9 DEF ReadMore, ReadFails, ArgInv
  <2>. QED BY <1>0, <1>9, <2>1, MoreLine, CutLine
<1>. QED BY <1>2, <1>3, <1>4, <1>5, <1>6, <1>7, <1>8, <1>9 DEF Next, Call, Step

LEMMA LineInit == Init => LineTexts
<1> SUFFICES ASSUME Init PROVE LineTexts
  OBVIOUS
<1>1. <<>> \in Seq(Nat) /\ Len(<<>>) = 0
  OBVIOUS
<1>2. \A c \in Cids : taken[c] = 0 /\ told[c] = <<>> /\ acc[c] = <<>> /\ buf[c] = <<>> /\ ends[c] = {}
  BY DEF Init
<1>3. Texts
  BY <1>1 DEF Init, Texts
<1>4. ASSUME NEW c \in Cids PROVE LineInv(c)
  <2>1. taken[c] = 0 /\ told[c] = <<>> /\ acc[c] = <<>> /\ buf[c] = <<>> /\ ends[c] = {}
    BY <1>2
  <2>. QED BY <1>1, <2>1 DEF LineInv
<1>. QED BY <1>3, <1>4 DEF LineTexts

\* Numbers with no newline among them are fewer than a line has.
LEMMA ShortRun ==
  ASSUME NEW p \in Nat, NEW m \in Nat, \A i \in 1 .. m : ~IsNewline(p + i)
  PROVE  m < LineLen
<1> DEFINE l == LineLen
<1>0. l \in Nat \ {0}
  BY LibAssumption
<1>1. \A i \in 1 .. m : (p + i) % l # 0
  BY DEF IsNewline
<1> SUFFICES ASSUME m >= l PROVE FALSE
  BY <1>0
<1> HIDE DEF l
<1> DEFINE k == p \div l
           i == l - (p % l)
<1>2. p = k * l + (p % l) /\ k \in Nat /\ p % l \in 0 .. l - 1
  BY <1>0, LinePlace
<1>3. ((k + 1) * l + 0) % l = 0
  <2>1. k + 1 \in Nat /\ 0 \in 0 .. l - 1
    BY <1>0, <1>2
  <2> HIDE DEF k
  <2>. QED BY <1>0, <2>1, LineNumber
<1>4. (k + 1) * l = k * l + l /\ k * l \in Nat
  <2> HIDE DEF k
  <2>. QED BY <1>0, <1>2
<1>5. p + i = (k + 1) * l + 0 /\ i \in 1 .. m
  <2> DEFINE a == k * l
             b == (k + 1) * l
             r == p % l
  <2>1. a \in Nat /\ b = a + l /\ p = a + r /\ r \in 0 .. l - 1 /\ i = l - r
    BY <1>2, <1>4
  <2> HIDE DEF a, b, r, i
  <2>2. p + i = b + 0 /\ i \in 1 .. m
    BY <1>0, <2>1
  <2>. QED BY <2>2 DEF b
<1>. QED BY <1>1, <1>3, <1>5

\* A line that fits its buffer is not given up for its length.
LEMMA LinesFit ==
  ASSUME LineTexts, NEW c \in Cids, NEW n \in Nat, n >= LineLen
  PROVE  Len(acc[c]) < n /\ (buf[c] # <<>> => Len(LineText(c)) <= n)
<1>0. Texts /\ LineInv(c) /\ LineLen \in Nat \ {0}
  BY LibAssumption DEF LineTexts
<1>1. PICK p \in Nat, q \in Nat, r \in Nat : p = Len(told[c]) /\ q = Len(acc[c]) /\ r = Len(buf[c])
  BY <1>0, LenProperties DEF Texts
<1>2. q < LineLen
  <2>1. \A i \in 1 .. q : ~IsNewline(p + i)
    <3>1. \A i \in 1 .. Len(acc[c]) : acc[c][i] = Len(told[c]) + i /\ ~IsNewline(acc[c][i])
      BY <1>0 DEF LineInv
    <3>2. \A i \in 1 .. q : acc[c][i] = p + i /\ ~IsNewline(acc[c][i])
      BY <1>1, <3>1
    <3>. QED BY <3>2
  <2>. QED BY <2>1, ShortRun
<1>3. ASSUME buf[c] # <<>> PROVE Len(LineText(c)) <= LineLen
  <2>1. PICK u \in 1 .. Len(buf[c]) :
          /\ Len(LineText(c)) = Len(acc[c]) + u
          /\ \A i \in 1 .. Len(acc[c]) + u - 1 : ~IsNewline(Len(told[c]) + i)
    BY <1>0, <1>3, TextOfLine
  <2>2. PICK m \in Nat : m = q + u - 1
    <3>1. u \in 1 .. r
      BY <1>1, <2>1
    <3>. QED BY <3>1
  <2>3. \A i \in 1 .. m : ~IsNewline(p + i)
    BY <1>1, <2>1, <2>2
  <2>4. m < LineLen
    BY <2>3, ShortRun
  <2>5. Len(LineText(c)) = m + 1
    BY <1>1, <2>1, <2>2
  <2>. QED BY <1>0, <2>4, <2>5
<1>4. ASSUME buf[c] # <<>> PROVE Len(LineText(c)) \in Nat
  BY <1>0, <1>1, <1>4, TextOfLine
<1>. QED BY <1>0, <1>1, <1>2, <1>3, <1>4

\* Whatever chunks the text comes in, and wherever a timeout, a signal or a
\* buffer too short for it cuts a line, programs get the characters of a channel
\* in order, each once, and a call that succeeds for each newline; a buffer as
\* long as a line is not overrun.
THEOREM LinesKept == Spec => []LinesAreWhole
<1>1. ASSUME HoldInv, LineTexts, [Next]_vars PROVE LineTexts'
  BY <1>1, LineStep
<1>3. HoldInv /\ LineTexts => BuffersSuffice
  <2> SUFFICES ASSUME HoldInv, LineTexts, NEW h \in Handles, pc[h] = "readln", left[h] >= LineLen
               PROVE  /\ Len(acc[arg[h]]) < left[h]
                      /\ buf[arg[h]] # <<>> => Len(LineText(arg[h])) <= left[h]
    BY DEF BuffersSuffice
  <2>1. arg[h] \in Cids
    BY DEF HoldInv, ArgInv
  <2>2. left[h] \in Nat
    BY LeftsKnown DEF HoldInv, SizeInv
  <2>. QED BY <2>1, <2>2, LinesFit
<1>2. LineTexts => CharactersInOrder /\ OneCallPerLine
  <2> SUFFICES ASSUME LineTexts, NEW c \in Cids
               PROVE  /\ told[c] \o acc[c] \o buf[c] = [i \in 1 .. taken[c] |-> i]
                      /\ \A n \in ends[c] : IsNewline(told[c][n])
                      /\ \A n \in DOMAIN told[c] :
                           IsNewline(told[c][n]) /\ (Linux \/ LineOf(told[c][n]) \notin LogLines)
                             => n \in ends[c]
    BY DEF CharactersInOrder, OneCallPerLine
  <2> DEFINE s == told[c]
             a == acc[c]
             b == buf[c]
  <2>1. PICK p \in Nat, q \in Nat, r \in Nat :
          /\ s \in Seq(Nat) /\ a \in Seq(Nat) /\ b \in Seq(Nat)
          /\ Len(s) = p /\ Len(a) = q /\ Len(b) = r
    BY LenProperties DEF LineTexts, Texts
  <2>2. /\ taken[c] \in Nat /\ p + q + r = taken[c]
        /\ Run(s, 0, p) /\ Run(a, p, q) /\ Run(b, p + q, r)
    <3>1. LineInv(c) /\ Len(told[c]) = p /\ Len(acc[c]) = q /\ Len(buf[c]) = r
      BY <2>1 DEF LineTexts
    <3>2. /\ taken[c] \in Nat /\ Len(told[c]) + Len(acc[c]) + Len(buf[c]) = taken[c]
          /\ \A i \in 1 .. Len(told[c]) : told[c][i] = i
          /\ \A i \in 1 .. Len(acc[c]) : acc[c][i] = Len(told[c]) + i
          /\ \A i \in 1 .. Len(buf[c]) : buf[c][i] = Len(told[c]) + Len(acc[c]) + i
      BY <3>1 DEF LineInv
    <3>3. \A i \in 1 .. p : s[i] = 0 + i
      BY <3>1, <3>2
    <3>4. (\A i \in 1 .. q : a[i] = p + i) /\ \A i \in 1 .. r : b[i] = p + q + i
      BY <3>1, <3>2
    <3>5. p + q + r = taken[c]
      BY <3>1, <3>2
    <3>. QED BY <3>2, <3>3, <3>4, <3>5 DEF Run
  <2> HIDE DEF s, a, b
  <2>3. s \o a \in Seq(Nat) /\ Len(s \o a) = p + q /\ Run(s \o a, 0, p + q)
    BY <2>1, <2>2, Joined
  <2>4. PICK m \in Nat : m = p + q
    OBVIOUS
  <2>5. (s \o a) \o b \in Seq(Nat) /\ Len((s \o a) \o b) = m + r /\ Run((s \o a) \o b, 0, m + r)
    <3> DEFINE v == s \o a
    <3>1. v \in Seq(Nat) /\ Len(v) = m /\ Run(v, 0, m) /\ Run(b, m, r)
      BY <2>2, <2>3, <2>4
    <3> HIDE DEF v
    <3>2. v \o b \in Seq(Nat) /\ Len(v \o b) = m + r /\ Run(v \o b, 0, m + r)
      BY <2>1, <3>1, Joined
    <3>. QED BY <3>2 DEF v
  <2>6. (s \o a) \o b = [i \in 1 .. taken[c] |-> i]
    <3>1. m + r = taken[c]
      BY <2>2, <2>4
    <3> DEFINE w == (s \o a) \o b
    <3>2. w \in Seq(Nat) /\ Len(w) = taken[c] /\ \A i \in 1 .. taken[c] : w[i] = i
      BY <2>5, <3>1 DEF Run
    <3> HIDE DEF w
    <3>3. w = [i \in 1 .. taken[c] |-> w[i]]
      BY <3>2, LenProperties
    <3>. QED BY <3>2, <3>3 DEF w
  <2>7. DOMAIN told[c] = 1 .. Len(told[c])
    BY <2>1, LenProperties DEF s
  <2>8. /\ \A n \in 1 .. Len(told[c]) : told[c][n] = n
        /\ \A n \in ends[c] : n \in 1 .. Len(told[c]) /\ IsNewline(n)
        /\ \A n \in 1 .. Len(told[c]) : IsNewline(n) /\ (Linux \/ LineOf(n) \notin LogLines) => n \in ends[c]
    BY DEF LineTexts, LineInv
  <2>9. \A n \in ends[c] : IsNewline(told[c][n])
    BY <2>8
  <2>10. \A n \in DOMAIN told[c] :
           IsNewline(told[c][n]) /\ (Linux \/ LineOf(told[c][n]) \notin LogLines) => n \in ends[c]
    BY <2>7, <2>8
  <2>11. told[c] \o acc[c] \o buf[c] = [i \in 1 .. taken[c] |-> i]
    BY <2>6 DEF s, a, b
  <2>. QED BY <2>9, <2>10, <2>11
<1>4. HoldInv /\ LineTexts => LinesAreWhole
  BY <1>2, <1>3 DEF LinesAreWhole
<1>. QED BY <1>1, <1>4, LineInit, SpecHolds, PTL DEF Spec

=============================================================================
