--------------------------- MODULE UcrRootProofs ---------------------------
(***************************************************************************)
(* Proofs about UcrRoot, for every number of files, channel numbers, pool  *)
(* entries, frames and pages.                                              *)
(***************************************************************************)
EXTENDS UcrRoot, TLAPS

\* The local variables a caller reads after it slept hold values of the right
\* kind at each place it can sleep.
LocalOK ==
  \A p \in Callers :
    /\ pc[p] # "idle" => xpd[p] \in Handles
    /\ pc[p] = "drain" => arg[p] \in ChanIds
    /\ pc[p] \in {"make", "free"} => arg[p] \in Frames
    /\ pc[p] \in SwapPCs => sent[p] \in Pages

TypeInv == TypeOK /\ LocalOK

ChanLists  == [ChanIds -> Slots \cup {None}]
FrameLists == [Frames -> Tables \cup {None}]

\* The empty tables have the types of tables.
LEMMA EmptyLists == Unused \in ChanLists /\ NoFrames \in FrameLists
  BY DEF Unused, NoFrames, ChanLists, FrameLists

\* Changing one entry of a channel list leaves a channel list.
LEMMA EditedList ==
  ASSUME NEW l \in ChanLists, NEW i \in ChanIds, NEW s \in Slots \cup {None}
  PROVE  [l EXCEPT ![i] = s] \in ChanLists
  BY DEF ChanLists

\* So does moving an entry to another number.
LEMMA MovedList ==
  ASSUME NEW l \in ChanLists, NEW i \in ChanIds, NEW j \in ChanIds
  PROVE  [l EXCEPT ![i] = l[j], ![j] = None] \in ChanLists
  BY DEF ChanLists

\* The initial values have their types.
LEMMA InitType == Init => TypeInv
<1> SUFFICES ASSUME Init PROVE TypeInv
  OBVIOUS
<1>1. rootChan \in [Pages -> ChanLists] /\ rootFrame \in [Pages -> FrameLists]
  BY EmptyLists DEF Init
<1>2. livePages \in SUBSET Pages /\ maps \in SUBSET (Handles \X Frames \X MapIds)
      /\ liveSlots \in SUBSET Slots /\ channels \in SUBSET Handles
      /\ frame \in FrameLists /\ timers \in SUBSET Callers /\ stale \in SUBSET Frames
  BY EmptyLists DEF Init
<1>3. pc \in [Callers -> PCs] /\ LocalOK
  BY DEF Init, PCs, LocalOK, SwapPCs
<1> QED
  BY <1>1, <1>2, <1>3, ConstantsAssumption
  DEF Init, TypeInv, TypeOK, ChanLists, FrameLists

(* What the duplicate of the root table changes, and the types it keeps.   *)
LEMMA DuplicateType ==
  ASSUME TypeOK, NEW p \in Callers, NEW ch \in ChanLists, NEW fr \in FrameLists,
         DuplicateAndSend(p, ch, fr)
  PROVE  /\ livePages' \in SUBSET Pages
         /\ rootChan' \in [Pages -> ChanLists]
         /\ rootFrame' \in [Pages -> FrameLists]
         /\ sent' \in [Callers -> Pages \cup {None}] /\ sent'[p] \in Pages
         /\ \A q \in Callers \ {p} : sent'[q] = sent[q]
         /\ timers' \in SUBSET Callers /\ root_timeout_flag' = FALSE
         /\ imr0' \in Pages /\ omr0' \in Pages \cup {None} /\ bell0' = TRUE
         /\ UNCHANGED <<inforce, mode, bell30>>
<1> PICK new \in FreePages :
      /\ livePages' = livePages \cup {new}
      /\ rootChan' = [rootChan EXCEPT ![new] = ch]
      /\ rootFrame' = [rootFrame EXCEPT ![new] = fr]
      /\ Send(p, new)
  BY DEF DuplicateAndSend
<1> QED
  BY DEF TypeOK, FreePages, Send, ChanLists, FrameLists

\* A new call keeps the types.
LEMMA CallType ==
  ASSUME TypeInv, NEW p \in Callers, Call(p)
  PROVE  TypeInv'
<1> USE ConstantsAssumption
    DEF TypeInv, TypeOK, LocalOK, PCs, WaitPCs, SwapPCs, Send, Enter, Goto,
        driverVars, handleVars, memoryVars, callerVars, waitVars, boardVars
<1>1. ASSUME NEW h \in Handles, OpenConnect(p, h) PROVE TypeInv'
  BY <1>1 DEF OpenConnect
<1>2. ASSUME NEW h \in Handles, OpenNext(p, h) PROVE TypeInv'
  BY <1>2 DEF OpenNext
<1>3. ASSUME NEW h \in Handles, CloseStart(p, h) PROVE TypeInv'
  <2>1. [rootChan[root] EXCEPT ![channel[h]] = None] \in ChanLists
        /\ rootFrame[root] \in FrameLists
    BY DEF ChanLists, FrameLists
  <2> QED
    BY <1>3, <2>1, DuplicateType DEF CloseStart, ChanLists, FrameLists
<1>4. ASSUME NEW h \in Handles, NEW i \in ChanIds, SwitchCheck(p, h, i) PROVE TypeInv'
  BY <1>4 DEF SwitchCheck
<1>5. ASSUME NEW h \in Handles, NEW f \in Frames, MakeFrame(p, h, f) PROVE TypeInv'
  <2> PICK t \in Tables :
        /\ frame' = [frame EXCEPT ![f] = t]
        /\ DuplicateAndSend(p, rootChan[root], [rootFrame[root] EXCEPT ![f] = t])
    BY <1>5 DEF MakeFrame, FreeTables
  <2>1. [rootFrame[root] EXCEPT ![f] = t] \in FrameLists
        /\ rootChan[root] \in ChanLists
    BY DEF ChanLists, FrameLists
  <2>2. livePages' \in SUBSET Pages /\ rootChan' \in [Pages -> ChanLists]
        /\ rootFrame' \in [Pages -> FrameLists]
    BY <2>1, DuplicateType
  <2>3. /\ sent' \in [Callers -> Pages \cup {None}] /\ sent'[p] \in Pages
        /\ \A q \in Callers \ {p} : sent'[q] = sent[q]
        /\ timers' \in SUBSET Callers /\ root_timeout_flag' = FALSE
        /\ imr0' \in Pages /\ omr0' \in Pages \cup {None} /\ bell0' = TRUE
        /\ UNCHANGED <<inforce, mode, bell30>>
    BY <2>1, DuplicateType
  <2>4. pc' \in [Callers -> PCs] /\ LocalOK'
    BY <1>5, <2>3 DEF MakeFrame
  <2> QED
    BY <1>5, <2>2, <2>3, <2>4 DEF MakeFrame, ChanLists, FrameLists
<1>6. ASSUME NEW h \in Handles, NEW f \in Frames, FreeFrame(p, h, f) PROVE TypeInv'
  <2>1. [rootFrame[root] EXCEPT ![f] = None] \in FrameLists
        /\ rootChan[root] \in ChanLists
    BY DEF ChanLists, FrameLists
  <2>2. DuplicateAndSend(p, rootChan[root], [rootFrame[root] EXCEPT ![f] = None])
    BY <1>6 DEF FreeFrame
  <2> QED
    BY <1>6, <2>1, <2>2, DuplicateType DEF FreeFrame, ChanLists, FrameLists
<1>7. ASSUME NEW h \in Handles, NEW f \in Frames, MapFrame(p, h, f) PROVE TypeInv'
  BY <1>7 DEF MapFrame
<1>8. ASSUME ResetBoard(p) PROVE TypeInv'
  BY <1>8 DEF ResetBoard, Control, FreeAllFrames, ClearRegisters
<1>9. ASSUME RestartBoard(p) PROVE TypeInv'
  BY <1>9 DEF RestartBoard, Control, FreeAllFrames, ClearRegisters
<1>10. ASSUME RemoveBoard(p) PROVE TypeInv'
  BY <1>10 DEF RemoveBoard, Control, FreeAllFrames
<1>11. ASSUME ReplaceBoard(p) PROVE TypeInv'
  BY <1>11 DEF ReplaceBoard, Control, ClearRegisters
<1> QED
  BY <1>1, <1>2, <1>3, <1>4, <1>5, <1>6, <1>7, <1>8, <1>9, <1>10, <1>11 DEF Call

\* A call that goes on after it slept keeps the types.
LEMMA ContinueType ==
  ASSUME TypeInv, NEW p \in Callers, Continue(p)
  PROVE  TypeInv'
<1> USE ConstantsAssumption
    DEF TypeInv, TypeOK, LocalOK, PCs, WaitPCs, SwapPCs, Send, Enter, Goto,
        Return, Resume, CancelTimer, SwapRoot, DropChannel, Unused, NoFrames,
        driverVars, handleVars, memoryVars, callerVars, waitVars, boardVars
<1>1. ASSUME OpenConnected(p) PROVE TypeInv'
  BY <1>1 DEF OpenConnected
<1>2. ASSUME OpenBusy(p) PROVE TypeInv'
  BY <1>2 DEF OpenBusy
<1>3. ASSUME OpenInsert(p) PROVE TypeInv'
  <2> PICK s \in FreeSlots :
        /\ liveSlots' = liveSlots \cup {s}
        /\ table' = [table EXCEPT ![xpd[p]] = s]
        /\ DuplicateAndSend(p, [rootChan[root] EXCEPT ![0] = s], rootFrame[root])
    BY <1>3 DEF OpenInsert
  <2> DEFINE edited == [rootChan[root] EXCEPT ![0] = s]
  <2>1. rootChan[root] \in ChanLists /\ rootFrame[root] \in FrameLists /\ s \in Slots
    BY DEF ChanLists, FrameLists, FreeSlots
  <2>2. edited \in ChanLists
    BY <2>1, EditedList
  <2>3. DuplicateAndSend(p, edited, rootFrame[root])
    OBVIOUS
  <2> HIDE DEF edited
  <2>4. /\ livePages' \in SUBSET Pages
        /\ rootChan' \in [Pages -> ChanLists]
        /\ rootFrame' \in [Pages -> FrameLists]
        /\ sent' \in [Callers -> Pages \cup {None}] /\ sent'[p] \in Pages
        /\ \A q \in Callers \ {p} : sent'[q] = sent[q]
        /\ timers' \in SUBSET Callers /\ root_timeout_flag' = FALSE
        /\ imr0' \in Pages /\ omr0' \in Pages \cup {None} /\ bell0' = TRUE
        /\ UNCHANGED <<inforce, mode, bell30>>
    BY <2>1, <2>2, <2>3, DuplicateType
  <2>5. /\ table' \in [Handles -> Slots \cup {None}] /\ liveSlots' \in SUBSET Slots
        /\ channel' \in [Handles -> ChanIds]
        /\ channels' \in SUBSET Handles
    BY <1>3, <2>1 DEF OpenInsert
  <2>6. pc' \in [Callers -> PCs] /\ LocalOK'
    BY <1>3, <2>4 DEF OpenInsert
  <2> QED
    BY <1>3, <2>4, <2>5, <2>6 DEF OpenInsert, ChanLists, FrameLists
<1>4. ASSUME OpenOops(p) PROVE TypeInv'
  BY <1>4 DEF OpenOops
<1>5. ASSUME OpenDone(p) PROVE TypeInv'
  BY <1>5 DEF OpenDone
<1>6. ASSUME SwitchChannel(p) PROVE TypeInv'
  <2> DEFINE moved == [rootChan[root] EXCEPT ![arg[p]] = rootChan[root][channel[xpd[p]]],
                                             ![channel[xpd[p]]] = None]
  <2>0. rootChan[root] \in ChanLists /\ arg[p] \in ChanIds /\ channel[xpd[p]] \in ChanIds
    BY <1>6 DEF SwitchChannel, ChanLists
  <2>1. moved \in ChanLists /\ rootFrame[root] \in FrameLists
    BY <2>0, MovedList DEF FrameLists
  <2>2. DuplicateAndSend(p, moved, rootFrame[root])
    BY <1>6 DEF SwitchChannel
  <2> HIDE DEF moved
  <2> QED
    BY <1>6, <2>1, <2>2, DuplicateType DEF SwitchChannel, ChanLists, FrameLists
<1>7. ASSUME SwitchNoMem(p) PROVE TypeInv'
  BY <1>7 DEF SwitchNoMem
<1>8. ASSUME SwitchDone(p) PROVE TypeInv'
  BY <1>8 DEF SwitchDone
<1>9. ASSUME MakeDone(p) PROVE TypeInv'
  BY <1>9 DEF MakeDone
<1>10. ASSUME FreeDone(p) PROVE TypeInv'
  BY <1>10 DEF FreeDone
<1>11. ASSUME CloseDone(p) PROVE TypeInv'
  BY <1>11 DEF CloseDone
<1>12. ASSUME CloseLast(p) PROVE TypeInv'
  BY <1>12 DEF CloseLast
<1>13. ASSUME DetachDone(p) PROVE TypeInv'
  BY <1>13 DEF DetachDone
<1> QED
  BY <1>1, <1>2, <1>3, <1>4, <1>5, <1>6, <1>7, <1>8, <1>9, <1>10, <1>11,
     <1>12, <1>13 DEF Continue

\* So do the timers, the board, the end of a mapping and stuttering.
LEMMA OtherType ==
  ASSUME TypeInv,
         \/ \E p \in Callers : TimerFires(p)
         \/ \E m \in maps : UnmapFrame(m)
         \/ Board
         \/ UNCHANGED vars
  PROVE  TypeInv'
<1> USE DEF TypeInv, TypeOK, LocalOK,
        driverVars, handleVars, memoryVars, callerVars, waitVars, boardVars
<1>1. ASSUME NEW p \in Callers, TimerFires(p) PROVE TypeInv'
  BY <1>1 DEF TimerFires
<1>2. ASSUME NEW m \in maps, UnmapFrame(m) PROVE TypeInv'
  BY <1>2 DEF UnmapFrame
<1>3. ASSUME BoardAcks PROVE TypeInv'
  BY <1>3 DEF BoardAcks
<1>4. ASSUME BoardHangs \/ BoardRestarts \/ BoardBoots PROVE TypeInv'
  BY <1>4 DEF BoardHangs, BoardRestarts, BoardBoots
<1>5. ASSUME UNCHANGED vars PROVE TypeInv'
  BY <1>5 DEF vars
<1> QED
  BY <1>1, <1>2, <1>3, <1>4, <1>5 DEF Board

(* Every variable keeps its type, whatever the number of callers: in       *)
(* particular a call that resumes finds in its local variables the handle, *)
(* the channel or frame number and the page it needs there.                *)
THEOREM TypeCorrect == Spec => []TypeOK
<1>1. Init => TypeInv
  BY InitType
<1>2. TypeInv /\ [Next]_vars => TypeInv'
  BY CallType, ContinueType, OtherType DEF Next
<1>3. TypeInv => TypeOK
  BY DEF TypeInv
<1> QED
  BY <1>1, <1>2, <1>3, PTL DEF Spec

-----------------------------------------------------------------------------
(***************************************************************************)
(* The safety of the root table swap when calls do not overlap             *)
(* (OneAtATime), for every number of callers, files, channel numbers, pool *)
(* entries, frames and pages.                                              *)
(*                                                                         *)
(* The argument: the pages in use are the current root table and the one   *)
(* being installed (PageInv); both list only pool entries of open channels *)
(* (SlotInv, TableInv); and from the moment root_to_board lets a caller go *)
(* on -- because the board answered or because the timer ran out -- a      *)
(* running board uses the new table and not the one about to be released   *)
(* (RegisterInv, BoardInv).  Calls that do not overlap leave at most one   *)
(* caller inside, and what the invariant says of the others is plain; so   *)
(* it is restated for that caller alone (Solo).  Each lemma below shows    *)
(* that one action of the caller keeps the parts of Solo, a part in a step *)
(* of its own; the board, the timers and the mappings act at any time.     *)
(***************************************************************************)

\* The other callers are outside the driver and hold nothing.
OthersOut(p) == OthersIdle(p) /\ \A q \in Callers \ {p} : xpd[q] = None

\* The invariant when p is the only caller that may be inside.
SoloPage(p) == livePages = {root} \cup (IF pc[p] \in SwapPCs THEN {sent[p]} ELSE {})

SoloTable(p) ==
  /\ pc[p] \notin {"open", "switch"} => Lists(root, channels)
  /\ RootLists
  /\ TableAt(p)

SoloRegister(p) ==
  /\ RegisterAt(p)
  /\ pc[p] \notin WaitPCs =>
       /\ imr0 = IF pc[p] = "idle" /\ channels = {} THEN None ELSE root
       /\ mode = "up" => inforce = imr0

SoloBoard(p) == NoTableAway /\ BoardAt(p)

Solo(p) ==
  /\ OthersOut(p) /\ CallerAt(p) /\ SoloPage(p) /\ SlotInv
  /\ SoloTable(p) /\ SoloRegister(p) /\ SoloBoard(p)

\* Before a call, and before a caller goes on, the others are outside.
LEMMA SoloBefore ==
  ASSUME TypeInv, IInv, NEW p \in Callers, OthersIdle(p)
  PROVE  Solo(p)
<1>1. OthersOut(p)
  BY DEF IInv, CallerInv, CallerAt, OthersOut, OthersIdle
<1>2. SoloPage(p)
  BY DEF IInv, PageInv, SoloPage, OthersIdle, SwapPCs
<1>3. \A S : "idle" \notin S /\ pc[p] \notin S => NobodyIn(S)
  BY DEF NobodyIn, OthersIdle
<1>4. SoloTable(p)
  BY <1>3 DEF IInv, TableInv, SoloTable
<1>5. Idle <=> pc[p] = "idle"
  BY DEF Idle, OthersIdle
<1>6. SoloRegister(p)
  BY <1>3, <1>5 DEF IInv, RegisterInv, SoloRegister, WaitPCs
<1> QED
  BY <1>1, <1>2, <1>4, <1>6 DEF IInv, CallerInv, BoardInv, SoloBoard, Solo

\* What holds for the one caller inside holds for all of them.
LEMMA SoloAfter ==
  ASSUME NEW p \in Callers, Solo(p)'
  PROVE  IInv'
<1> USE DEF Solo, OthersOut, OthersIdle
<1>1. \A q \in Callers : q # p => pc'[q] = "idle" /\ xpd'[q] = None
  OBVIOUS
<1>2. AtMostOne'
  BY <1>1 DEF AtMostOne
<1>3. CallerInv'
  BY <1>1 DEF CallerInv, CallerAt, SwapPCs
<1>4. PageInv'
  BY <1>1 DEF PageInv, SoloPage, SwapPCs
<1>5. TableInv'
  BY <1>1 DEF TableInv, SoloTable, TableAt, NobodyIn, SwapPCs
<1>6. RegisterInv'
  BY <1>1 DEF RegisterInv, SoloRegister, RegisterAt, NobodyIn, Idle, Waiting, WaitPCs
<1>7. BoardInv'
  BY <1>1 DEF BoardInv, SoloBoard, BoardAt, Waiting, WaitPCs
<1> QED
  BY <1>2, <1>3, <1>4, <1>5, <1>6, <1>7 DEF IInv

\* The page duplicate_root takes is no page in use.
LEMMA FreshPage ==
  ASSUME TypeInv, NEW p \in Callers, Solo(p), pc[p] \notin SwapPCs,
         NEW ch, NEW fr, DuplicateAndSend(p, ch, fr)
  PROVE  \E new \in Pages \ {root} :
           /\ livePages = {root}
           /\ livePages' = {root, new}
           /\ rootChan' = [rootChan EXCEPT ![new] = ch]
           /\ rootFrame' = [rootFrame EXCEPT ![new] = fr]
           /\ Send(p, new)
<1>1. livePages = {root}
  BY DEF Solo, SoloPage
<1> QED
  BY <1>1 DEF DuplicateAndSend, FreePages

\* A call that only reads, or only moves on, keeps the invariant.
LEMMA LocalStepInductive ==
  ASSUME TypeInv, NEW p \in Callers, Solo(p),
         \/ \E h \in Handles : OpenNext(p, h) \/ \E i \in ChanIds : SwitchCheck(p, h, i)
         \/ OpenConnected(p) \/ OpenBusy(p) \/ OpenOops(p) \/ SwitchNoMem(p)
  PROVE  Solo(p)'
<1>1. OpenBusy(p) => channels # {}
  BY DEF OpenBusy, TakenBy
<1> USE ConstantsAssumption DEF TypeInv, TypeOK, LocalOK, Solo,
        WaitPCs, SwapPCs, PCs, driverVars, handleVars, memoryVars, callerVars,
        waitVars, boardVars, OpenNext, SwitchCheck, OpenConnected,
        OpenBusy, OpenOops, SwitchNoMem, Enter, Goto, Usable, Resume,
        Answered, CancelTimer, Return
<1>2. OthersOut(p)'
  BY DEF OthersOut, OthersIdle
<1>3. CallerAt(p)'
  BY <1>1 DEF CallerAt, TakenBy
<1>4. SoloPage(p)'
  BY DEF CallerAt, SoloPage
<1>5. SlotInv'
  BY DEF CallerAt, SlotInv, ExclusiveChannels, TakenBy
<1>6. SoloTable(p)'
  BY DEF CallerAt, SlotInv, ExclusiveChannels, SoloTable, TableAt, RootLists, Lists,
         TakenBy
<1>7. SoloRegister(p)'
  BY <1>1 DEF CallerAt, SoloRegister, RegisterAt, SoloBoard, BoardAt, NoTableAway, Waiting
<1>8. SoloBoard(p)'
  BY DEF CallerAt, SoloRegister, RegisterAt, SoloBoard, BoardAt, NoTableAway, Waiting
<1> QED
  BY <1>2, <1>3, <1>4, <1>5, <1>6, <1>7, <1>8

\* The four calls that end when the new table is installed.
LEMMA SwapDoneInductive ==
  ASSUME TypeInv, NEW p \in Callers, Solo(p),
         OpenDone(p) \/ SwitchDone(p) \/ MakeDone(p) \/ FreeDone(p)
  PROVE  Solo(p)'
<1> USE ConstantsAssumption DEF TypeInv, TypeOK, LocalOK, Solo,
        WaitPCs, SwapPCs, PCs, driverVars, handleVars, memoryVars, callerVars,
        waitVars, boardVars, OpenDone, SwitchDone, MakeDone, FreeDone, Resume,
        Answered, SwapRoot, CancelTimer, Return, Goto
<1>1. OthersOut(p)'
  BY DEF OthersOut, OthersIdle
<1>2. CallerAt(p)'
  BY DEF CallerAt, TakenBy
<1>3. SoloPage(p)'
  BY DEF CallerAt, SoloPage
<1>4. SlotInv'
  BY DEF CallerAt, SlotInv, ExclusiveChannels, TakenBy
<1>5. SoloTable(p)'
  BY DEF CallerAt, SlotInv, ExclusiveChannels, SoloTable, TableAt, RootLists, Lists,
         TakenBy
<1>6. SoloRegister(p)'
  BY DEF CallerAt, SoloRegister, RegisterAt, SoloBoard, BoardAt, NoTableAway, Waiting
<1>7. SoloBoard(p)'
  BY DEF CallerAt, SoloRegister, RegisterAt, SoloBoard, BoardAt, NoTableAway, Waiting
<1> QED
  BY <1>1, <1>2, <1>3, <1>4, <1>5, <1>6, <1>7

\* The control device acts on a board that has no channel open.
LEMMA ControlInductive ==
  ASSUME TypeInv, NEW p \in Callers, Solo(p),
         ResetBoard(p) \/ RestartBoard(p) \/ RemoveBoard(p) \/ ReplaceBoard(p)
  PROVE  Solo(p)'
<1> USE ConstantsAssumption DEF TypeInv, TypeOK, LocalOK, Solo,
        WaitPCs, SwapPCs, PCs, driverVars, handleVars, memoryVars, callerVars,
        waitVars, boardVars, ResetBoard, RestartBoard, RemoveBoard,
        ReplaceBoard, Control, ClearRegisters
<1>1. OthersOut(p)'
  BY DEF OthersOut, OthersIdle
<1>2. CallerAt(p)'
  BY DEF CallerAt, TakenBy
<1>3. SoloPage(p)'
  BY DEF CallerAt, SoloPage
<1>4. SlotInv'
  BY DEF CallerAt, SlotInv, ExclusiveChannels, TakenBy
<1>5. SoloTable(p)'
  BY DEF CallerAt, SlotInv, ExclusiveChannels, SoloTable, TableAt, RootLists, Lists,
         TakenBy
<1>6. SoloRegister(p)'
  BY DEF CallerAt, SoloRegister, RegisterAt, SoloBoard, BoardAt, NoTableAway, Waiting
<1>7. SoloBoard(p)'
  BY DEF CallerAt, SoloRegister, RegisterAt, SoloBoard, BoardAt, NoTableAway, Waiting
<1> QED
  BY <1>1, <1>2, <1>3, <1>4, <1>5, <1>6, <1>7

\* A new table that differs from the current one in a frame entry.
LEMMA FrameInductive ==
  ASSUME TypeInv, NEW p \in Callers, Solo(p),
         NEW h \in Handles, NEW f \in Frames, MakeFrame(p, h, f) \/ FreeFrame(p, h, f)
  PROVE  Solo(p)'
<1>1. PICK new \in Pages \ {root} :
        Send(p, new) /\ rootChan' = [rootChan EXCEPT ![new] = rootChan[root]]
  <2>1. pc[p] \notin SwapPCs
    BY DEF MakeFrame, FreeFrame, Usable, SwapPCs
  <2>2. \E fr : DuplicateAndSend(p, rootChan[root], fr)
    BY DEF MakeFrame, FreeFrame
  <2> QED
    BY <2>1, <2>2, FreshPage
<1>2. NobodyIn(SwapPCs) /\ Lists(root, channels)
  BY DEF Solo, OthersOut, OthersIdle, SoloTable, NobodyIn, MakeFrame, FreeFrame, Usable, SwapPCs
<1>3. /\ UNCHANGED <<channels, channel, table, liveSlots, root>>
      /\ sent'[p] = new /\ pc'[p] # "close"
  BY <1>1 DEF MakeFrame, FreeFrame, Enter, Goto, Send, TypeInv, TypeOK, driverVars,
              handleVars
<1>4. SoloTable(p)'
  <2>1. rootChan'[root] = rootChan[root] /\ rootChan'[new] = rootChan[root]
    BY <1>1 DEF TypeInv, TypeOK
  <2>2. Lists(root, channels)' /\ Lists(new, channels)'
    BY <1>2, <1>3, <2>1 DEF Lists
  <2>3. \A i \in ChanIds : rootChan'[root'][i] \in liveSlots' \cup {None}
    BY <1>3, <2>1 DEF Solo, SoloTable, RootLists
  <2> QED
    BY <1>3, <2>2, <2>3 DEF SoloTable, TableAt, RootLists, Lists
<1> USE ConstantsAssumption DEF TypeInv, TypeOK, LocalOK, Solo,
        WaitPCs, SwapPCs, PCs, driverVars, handleVars, memoryVars, callerVars,
        waitVars, boardVars, MakeFrame, FreeFrame, DuplicateAndSend,
        FreePages, Send, Enter, Goto, Usable
<1>5. OthersOut(p)'
  BY DEF OthersOut, OthersIdle
<1>6. CallerAt(p)'
  BY <1>1 DEF CallerAt, TakenBy
<1>7. SoloPage(p)'
  BY DEF CallerAt, SoloPage
<1>8. SlotInv'
  BY DEF CallerAt, SlotInv, ExclusiveChannels, TakenBy
<1>9. SoloRegister(p)'
  BY DEF CallerAt, SoloRegister, RegisterAt, SoloBoard, BoardAt, NoTableAway, Waiting
<1>10. SoloBoard(p)'
  BY DEF CallerAt, SoloRegister, RegisterAt, SoloBoard, BoardAt, NoTableAway, Waiting
<1> QED
  BY <1>4, <1>5, <1>6, <1>7, <1>8, <1>9, <1>10

\* The first open tells the board of the table there is.
LEMMA OpenConnectInductive ==
  ASSUME TypeInv, NEW p \in Callers, Solo(p),
         NEW h \in Handles, OpenConnect(p, h)
  PROVE  Solo(p)'
<1> USE ConstantsAssumption DEF TypeInv, TypeOK, LocalOK, Solo,
        WaitPCs, SwapPCs, PCs, driverVars, handleVars, memoryVars, callerVars,
        waitVars, boardVars, OpenConnect, Send, Enter, Goto
<1>1. OthersOut(p)'
  BY DEF OthersOut, OthersIdle
<1>2. CallerAt(p)'
  BY DEF CallerAt, TakenBy
<1>3. SoloPage(p)'
  BY DEF CallerAt, SoloPage
<1>4. SlotInv'
  BY DEF CallerAt, SlotInv, ExclusiveChannels, TakenBy
<1>5. SoloTable(p)'
  BY DEF CallerAt, SlotInv, ExclusiveChannels, SoloTable, TableAt, RootLists, Lists,
         TakenBy
<1>6. SoloRegister(p)'
  BY DEF CallerAt, SoloRegister, RegisterAt, SoloBoard, BoardAt, NoTableAway, Waiting
<1>7. SoloBoard(p)'
  BY DEF CallerAt, SoloRegister, RegisterAt, SoloBoard, BoardAt, NoTableAway, Waiting
<1> QED
  BY <1>1, <1>2, <1>3, <1>4, <1>5, <1>6, <1>7

\* An open takes a pool entry for a new channel 0.
LEMMA OpenInsertInductive ==
  ASSUME TypeInv, NEW p \in Callers, Solo(p),
         OpenInsert(p)
  PROVE  Solo(p)'
<1>1. PICK new \in Pages \ {root} : Send(p, new)
  <2>1. pc[p] \notin SwapPCs
    BY DEF OpenInsert, SwapPCs
  <2>2. \E ch : DuplicateAndSend(p, ch, rootFrame[root])
    BY DEF OpenInsert
  <2> QED
    BY <2>1, <2>2, FreshPage
<1> USE ConstantsAssumption DEF TypeInv, TypeOK, LocalOK, Solo,
        WaitPCs, SwapPCs, PCs, driverVars, handleVars, memoryVars, callerVars,
        waitVars, boardVars, OpenInsert, DuplicateAndSend, FreePages, Send,
        FreeSlots, Goto
<1>2. OthersOut(p)'
  BY DEF OthersOut, OthersIdle
<1>3. CallerAt(p)'
  BY <1>1 DEF CallerAt, TakenBy
<1>4. SoloPage(p)'
  BY DEF CallerAt, SoloPage
<1>5. SlotInv'
  BY DEF CallerAt, SlotInv, ExclusiveChannels, TakenBy
<1>6. SoloTable(p)'
  BY DEF CallerAt, SlotInv, ExclusiveChannels, SoloTable, TableAt, RootLists, Lists,
         TakenBy
<1>7. SoloRegister(p)'
  BY DEF CallerAt, SoloRegister, RegisterAt, SoloBoard, BoardAt, NoTableAway, Waiting
<1>8. SoloBoard(p)'
  BY DEF CallerAt, SoloRegister, RegisterAt, SoloBoard, BoardAt, NoTableAway, Waiting
<1> QED
  BY <1>2, <1>3, <1>4, <1>5, <1>6, <1>7, <1>8

\* A channel switch moves the entry to the new number.
LEMMA SwitchChannelInductive ==
  ASSUME TypeInv, NEW p \in Callers, Solo(p),
         SwitchChannel(p)
  PROVE  Solo(p)'
<1> DEFINE h == xpd[p]
           i == arg[p]
           moved == [rootChan[root] EXCEPT ![i] = rootChan[root][channel[h]],
                                           ![channel[h]] = None]
<1>1. PICK new \in Pages \ {root} :
        rootChan' = [rootChan EXCEPT ![new] = moved] /\ Send(p, new)
  <2>1. pc[p] \notin SwapPCs
    BY DEF SwitchChannel, SwapPCs
  <2>2. DuplicateAndSend(p, moved, rootFrame[root])
    BY DEF SwitchChannel
  <2> QED
    BY <2>1, <2>2, FreshPage
<1> USE ConstantsAssumption DEF TypeInv, TypeOK, LocalOK, Solo,
        WaitPCs, SwapPCs, PCs, driverVars, handleVars, memoryVars, callerVars,
        waitVars, boardVars, SwitchChannel, DuplicateAndSend, FreePages, Send,
        Goto
<1>2. OthersOut(p)'
  BY DEF OthersOut, OthersIdle
<1>3. CallerAt(p)'
  BY <1>1 DEF CallerAt, TakenBy
<1>4. SoloPage(p)'
  BY DEF CallerAt, SoloPage
<1>5. SlotInv'
  BY DEF CallerAt, SlotInv, ExclusiveChannels, TakenBy
<1>6. SoloTable(p)'
  <2>1. /\ h \in channels /\ TakenBy(i) = {}
        /\ i \in ChanIds /\ channel[h] \in ChanIds /\ i # channel[h]
    BY DEF CallerAt, TakenBy
  <2>2. Lists(root, channels) /\ RootLists
    BY DEF SoloTable
  <2>3. moved = [j \in ChanIds |-> IF j = channel[h] THEN None
                                   ELSE IF j = i THEN rootChan[root][channel[h]]
                                   ELSE rootChan[root][j]]
    BY <2>1
  <2>4. rootChan'[root] = rootChan[root] /\ rootChan'[new] = moved
    BY <1>1
  <2>5. /\ UNCHANGED <<channels, table, root, liveSlots>> /\ channel' = [channel EXCEPT ![h] = i]
        /\ sent'[p] = new /\ pc'[p] = "switch"
    BY <1>1
  <2> HIDE DEF moved
  <2>6. \A g \in channels : moved[channel'[g]] = table[g]
    BY <2>1, <2>2, <2>3, <2>5 DEF Lists, TakenBy, SlotInv, ExclusiveChannels
  <2>7. \A j \in ChanIds : moved[j] # None =>
          \E g \in channels : channel'[g] = j /\ moved[j] = table[g]
    BY <2>1, <2>2, <2>3, <2>5 DEF Lists, SlotInv, ExclusiveChannels
  <2> HIDE DEF Solo, TypeInv, SwitchChannel
  <2>8. Lists(new, channels)'
    <3>1. \A g \in channels' : rootChan'[new][channel'[g]] = table'[g]
      BY <2>4, <2>5, <2>6
    <3>2. \A j \in ChanIds : rootChan'[new][j] # None =>
            \E g \in channels' : channel'[g] = j /\ rootChan'[new][j] = table'[g]
      <4>1. table' = table /\ channels' = channels
        BY <2>5
      <4> QED
        BY <2>4, <2>7, <4>1
    <3> QED
      BY <3>1, <3>2 DEF Lists
  <2>9. RootLists'
    BY <2>2, <2>4, <2>5 DEF RootLists
  <2> QED
    BY <2>5, <2>8, <2>9 DEF SoloTable, TableAt
<1>7. SoloRegister(p)'
  BY DEF CallerAt, SoloRegister, RegisterAt, SoloBoard, BoardAt, NoTableAway, Waiting
<1>8. SoloBoard(p)'
  BY DEF CallerAt, SoloRegister, RegisterAt, SoloBoard, BoardAt, NoTableAway, Waiting
<1> QED
  BY <1>2, <1>3, <1>4, <1>5, <1>6, <1>7, <1>8

\* A close installs a table that lists one channel less.
LEMMA CloseStartInductive ==
  ASSUME TypeInv, NEW p \in Callers, Solo(p),
         NEW h \in Handles, CloseStart(p, h)
  PROVE  Solo(p)'
<1> DEFINE ch == [rootChan[root] EXCEPT ![channel[h]] = None]
<1>1. PICK new \in Pages \ {root} :
        /\ livePages = {root}
        /\ livePages' = {root, new}
        /\ rootChan' = [rootChan EXCEPT ![new] = ch]
        /\ rootFrame' = [rootFrame EXCEPT ![new] = rootFrame[root]]
        /\ Send(p, new)
  <2>1. pc[p] \notin SwapPCs
    BY DEF CloseStart, Usable, SwapPCs
  <2>2. DuplicateAndSend(p, ch, rootFrame[root])
    BY DEF CloseStart
  <2> QED
    BY <2>1, <2>2, FreshPage
<1> USE ConstantsAssumption DEF TypeInv, TypeOK, LocalOK, Solo,
        WaitPCs, SwapPCs, PCs, driverVars, handleVars, memoryVars, callerVars,
        waitVars, boardVars, CloseStart, DuplicateAndSend, FreePages, Send,
        Enter, Goto, Usable
<1>2. OthersOut(p)'
  BY DEF OthersOut, OthersIdle
<1>3. CallerAt(p)'
  BY <1>1 DEF CallerAt, TakenBy
<1>4. SoloPage(p)'
  BY DEF CallerAt, SoloPage
<1>5. SlotInv'
  BY DEF CallerAt, SlotInv, ExclusiveChannels, TakenBy
<1>6. SoloTable(p)'
  <2>1. Lists(root, channels) /\ channel[h] \in ChanIds
    BY DEF SoloTable, TableAt, RootLists
  <2>2. ch = [i \in ChanIds |-> IF i = channel[h] THEN None ELSE rootChan[root][i]]
    OBVIOUS
  <2>3. rootChan'[root] = rootChan[root] /\ rootChan'[new] = ch
    BY <1>1
  <2> HIDE DEF ch
  <2>4. /\ \A g \in channels \ {h} : ch[channel[g]] = table[g]
        /\ \A i \in ChanIds : ch[i] # None =>
             \E g \in channels \ {h} : channel[g] = i /\ ch[i] = table[g]
    BY <2>1, <2>2 DEF Lists, SlotInv, ExclusiveChannels
  <2>5. sent'[p] = new /\ xpd'[p] = h /\ pc'[p] = "close"
    BY <1>1
  <2>6. UNCHANGED <<channels, channel, table, root, liveSlots>>
    OBVIOUS
  <2> QED
    BY <2>1, <2>3, <2>4, <2>5, <2>6 DEF SoloTable, TableAt, RootLists, Lists
<1>7. SoloRegister(p)'
  BY DEF CallerAt, SoloRegister, RegisterAt, SoloBoard, BoardAt, NoTableAway, Waiting
<1>8. SoloBoard(p)'
  BY DEF CallerAt, SoloRegister, RegisterAt, SoloBoard, BoardAt, NoTableAway, Waiting
<1> QED
  BY <1>2, <1>3, <1>4, <1>5, <1>6, <1>7, <1>8

\* Only then does the pool entry go back, and no other channel has it.
LEMMA CloseDoneInductive ==
  ASSUME TypeInv, NEW p \in Callers, Solo(p),
         CloseDone(p)
  PROVE  Solo(p)'
<1> USE ConstantsAssumption DEF TypeInv, TypeOK, LocalOK, Solo,
        WaitPCs, SwapPCs, PCs, driverVars, handleVars, memoryVars, callerVars,
        waitVars, boardVars, CloseDone, Resume, Answered, SwapRoot,
        DropChannel, CancelTimer, Return, Goto
<1>1. OthersOut(p)'
  BY DEF OthersOut, OthersIdle
<1>2. CallerAt(p)'
  BY DEF CallerAt, TakenBy
<1>3. SoloPage(p)'
  BY DEF CallerAt, SoloPage
<1>4. SlotInv'
  <2>1. xpd[p] \in channels /\ xpd[p] \in Handles
    BY DEF CallerAt
  <2>2. /\ channels' = channels \ {xpd[p]}
        /\ \A h \in channels' : table'[h] = table[h] /\ channel'[h] = channel[h]
        /\ liveSlots' = liveSlots \ {table[xpd[p]]}
    OBVIOUS
  <2>3. \A h \in channels' : table[h] # table[xpd[p]] /\ h \in channels
    BY <2>1, <2>2 DEF SlotInv
  <2>4. liveSlots' = {table[h] : h \in channels'}
    BY <2>1, <2>2, <2>3 DEF SlotInv
  <2>5. liveSlots' = {table'[h] : h \in channels'}
    BY <2>2, <2>4
  <2> QED
    BY <2>2, <2>5 DEF SlotInv, ExclusiveChannels
<1>5. SoloTable(p)'
  BY DEF CallerAt, SlotInv, ExclusiveChannels, SoloTable, TableAt, RootLists, Lists,
         TakenBy
<1>6. SoloRegister(p)'
  BY DEF CallerAt, SoloRegister, RegisterAt, SoloBoard, BoardAt, NoTableAway, Waiting
<1>7. SoloBoard(p)'
  BY DEF CallerAt, SoloRegister, RegisterAt, SoloBoard, BoardAt, NoTableAway, Waiting
<1> QED
  BY <1>1, <1>2, <1>3, <1>4, <1>5, <1>6, <1>7

\* The last close goes on to detach the board.
LEMMA CloseLastInductive ==
  ASSUME TypeInv, NEW p \in Callers, Solo(p),
         CloseLast(p)
  PROVE  Solo(p)'
<1> USE ConstantsAssumption DEF TypeInv, TypeOK, LocalOK, Solo,
        WaitPCs, SwapPCs, PCs, driverVars, handleVars, memoryVars, callerVars,
        waitVars, boardVars, CloseLast, Resume, Answered, SwapRoot,
        DropChannel, Send, Enter, Goto
<1>1. OthersOut(p)'
  BY DEF OthersOut, OthersIdle
<1>2. CallerAt(p)'
  BY DEF CallerAt, TakenBy
<1>3. SoloPage(p)'
  BY DEF CallerAt, SoloPage
<1>4. SlotInv'
  BY DEF CallerAt, SlotInv, ExclusiveChannels, TakenBy
<1>5. SoloTable(p)'
  BY DEF CallerAt, SlotInv, ExclusiveChannels, SoloTable, TableAt, RootLists, Lists,
         TakenBy
<1>6. SoloRegister(p)'
  BY DEF CallerAt, SoloRegister, RegisterAt, SoloBoard, BoardAt, NoTableAway, Waiting
<1>7. SoloBoard(p)'
  BY DEF CallerAt, SoloRegister, RegisterAt, SoloBoard, BoardAt, NoTableAway, Waiting
<1> QED
  BY <1>1, <1>2, <1>3, <1>4, <1>5, <1>6, <1>7

\* The board is detached.
LEMMA DetachDoneInductive ==
  ASSUME TypeInv, NEW p \in Callers, Solo(p),
         DetachDone(p)
  PROVE  Solo(p)'
<1> USE ConstantsAssumption DEF TypeInv, TypeOK, LocalOK, Solo,
        WaitPCs, SwapPCs, PCs, driverVars, handleVars, memoryVars, callerVars,
        waitVars, boardVars, DetachDone, Resume, Answered, CancelTimer,
        Return, Goto
<1>1. OthersOut(p)'
  BY DEF OthersOut, OthersIdle
<1>2. CallerAt(p)'
  BY DEF CallerAt, TakenBy
<1>3. SoloPage(p)'
  BY DEF CallerAt, SoloPage
<1>4. SlotInv'
  BY DEF CallerAt, SlotInv, ExclusiveChannels, TakenBy
<1>5. SoloTable(p)'
  BY DEF CallerAt, SlotInv, ExclusiveChannels, SoloTable, TableAt, RootLists, Lists,
         TakenBy
<1>6. SoloRegister(p)'
  BY DEF CallerAt, SoloRegister, RegisterAt, SoloBoard, BoardAt, NoTableAway, Waiting
<1>7. SoloBoard(p)'
  BY DEF CallerAt, SoloRegister, RegisterAt, SoloBoard, BoardAt, NoTableAway, Waiting
<1> QED
  BY <1>1, <1>2, <1>3, <1>4, <1>5, <1>6, <1>7

\* A timer only runs out when no answer is on its way.
LEMMA TimerFiresInductive ==
  ASSUME TypeInv, IInv, NEW p \in Callers, TimerFires(p)
  PROVE  IInv'
<1>1. UNCHANGED <<driverVars, handleVars, memoryVars, callerVars, boardVars>>
      /\ root_timeout_flag' = TRUE /\ (mode # "up" \/ ~bell0)
  BY DEF TimerFires
<1>2. AtMostOne' /\ CallerInv' /\ PageInv' /\ SlotInv' /\ TableInv' /\ RegisterInv'
  BY <1>1 DEF IInv, AtMostOne, OthersIdle, CallerInv, CallerAt, PageInv, SlotInv,
     ExclusiveChannels, TableInv, TableAt, RootLists, Lists, RegisterInv, RegisterAt,
     NobodyIn, Waiting, Idle, TakenBy, driverVars, handleVars, memoryVars, callerVars,
     boardVars
<1>3. BoardInv'
  BY <1>1 DEF IInv, BoardInv, BoardAt, NoTableAway, Waiting, driverVars, callerVars,
     boardVars
<1> QED
  BY <1>2, <1>3 DEF IInv

\* A new mapping changes nothing the invariant speaks of, whoever else is in
\* the driver.
LEMMA MapInductive ==
  ASSUME IInv, NEW p \in Callers, NEW h \in Handles, NEW f \in Frames, MapFrame(p, h, f)
  PROVE  IInv'
BY DEF IInv, AtMostOne, OthersIdle, CallerInv, CallerAt, PageInv, SlotInv,
       ExclusiveChannels, TableInv, TableAt, RootLists, Lists, RegisterInv, RegisterAt,
       BoardInv, BoardAt, NoTableAway, NobodyIn, Waiting, Idle, TakenBy, MapFrame,
       handleVars, memoryVars, callerVars, waitVars, boardVars

\* Nor does one that goes away.
LEMMA UnmapInductive ==
  ASSUME IInv, NEW m \in maps, UnmapFrame(m)
  PROVE  IInv'
BY DEF IInv, AtMostOne, OthersIdle, CallerInv, CallerAt, PageInv, SlotInv,
       ExclusiveChannels, TableInv, TableAt, RootLists, Lists, RegisterInv, RegisterAt,
       BoardInv, BoardAt, NoTableAway, NobodyIn, Waiting, Idle, TakenBy, UnmapFrame,
       handleVars, memoryVars, callerVars, waitVars, boardVars

\* The board and the timers keep the invariant: the board only ever takes
\* the table in its base register.
LEMMA BoardInductive ==
  ASSUME TypeInv, IInv, Board
  PROVE  IInv'
<1>1. UNCHANGED <<driverVars, handleVars, memoryVars, callerVars, waitVars, imr0>>
  BY DEF Board, BoardAcks, BoardHangs, BoardRestarts, BoardBoots
<1>2. AtMostOne' /\ CallerInv' /\ PageInv' /\ SlotInv' /\ TableInv'
  BY <1>1 DEF IInv, AtMostOne, OthersIdle, CallerInv, CallerAt, PageInv, SlotInv,
     ExclusiveChannels, TableInv, TableAt, RootLists, Lists, NobodyIn, TakenBy,
     driverVars, handleVars, memoryVars, callerVars
<1>3. \A p \in Callers : RegisterAt(p)'
  BY <1>1 DEF IInv, RegisterInv, RegisterAt, Waiting, callerVars
<1>4. ASSUME NEW p \in Callers, Waiting(p)
      PROVE  /\ imr0 \in {root, sent[p], None} /\ (mode = "up" => imr0 = sent[p])
             /\ imr0 = sent[p]
  BY <1>4 DEF IInv, RegisterInv, RegisterAt
<1> USE ConstantsAssumption
    DEF TypeInv, TypeOK, IInv, RegisterInv, BoardInv, BoardAt, NoTableAway, NobodyIn,
        Waiting, Idle, driverVars, handleVars, callerVars, waitVars
<1>5. CASE BoardAcks
  BY <1>1, <1>2, <1>3, <1>4, <1>5 DEF BoardAcks
<1>6. CASE BoardHangs
  BY <1>1, <1>2, <1>3, <1>6 DEF BoardHangs
<1>7. CASE BoardRestarts
  BY <1>1, <1>2, <1>3, <1>7 DEF BoardRestarts
<1>8. CASE BoardBoots
  BY <1>1, <1>2, <1>3, <1>4, <1>8 DEF BoardBoots
<1> QED
  BY <1>5, <1>6, <1>7, <1>8 DEF Board

\* The invariant holds at the start.
LEMMA InitIInv == Init => IInv
BY ConstantsAssumption
DEF Init, IInv, AtMostOne, OthersIdle, CallerInv, CallerAt, PageInv, SlotInv,
    ExclusiveChannels, TableInv, TableAt, RootLists, Lists, RegisterInv, RegisterAt,
    BoardInv, BoardAt, NoTableAway, NobodyIn, Waiting, Idle, TakenBy, Unused,
    WaitPCs, SwapPCs

\* Stuttering keeps the invariant.
LEMMA StutterIInv == IInv /\ UNCHANGED vars => IInv'
BY DEF IInv, AtMostOne, OthersIdle, CallerInv, CallerAt, PageInv, SlotInv,
       ExclusiveChannels, TableInv, TableAt, RootLists, Lists, RegisterInv, RegisterAt,
       BoardInv, BoardAt, NoTableAway, NobodyIn, Waiting, Idle, TakenBy,
       vars, driverVars, handleVars, memoryVars, callerVars, waitVars, boardVars

\* When nobody is inside, whoever calls is alone; so is a caller that goes on.
LEMMA Alone ==
  ASSUME IInv, NEW p \in Callers, Idle \/ Continue(p)
  PROVE  OthersIdle(p)
<1>1. Continue(p) => pc[p] # "idle"
  BY DEF Continue, OpenConnected, OpenBusy, OpenInsert, OpenOops, OpenDone, SwitchChannel,
     SwitchNoMem, SwitchDone, MakeDone, FreeDone, CloseDone, CloseLast, DetachDone, Resume
<1> QED
  BY <1>1 DEF IInv, AtMostOne, Idle, OthersIdle

\* A caller inside the driver does not move the others.
LEMMA OthersStay ==
  ASSUME TypeInv, NEW p \in Callers, OthersIdle(p), Call(p) \/ Continue(p)
  PROVE  OthersIdle(p)'
<1> USE DEF TypeInv, TypeOK, OthersIdle, callerVars, Goto, Return, Enter
<1>1. CASE Call(p)
  BY <1>1 DEF Call, OpenConnect, OpenNext, CloseStart, SwitchCheck, MakeFrame, FreeFrame,
     MapFrame, ResetBoard, RestartBoard, RemoveBoard, ReplaceBoard, Control
<1>2. CASE Continue(p)
  BY <1>2 DEF Continue, OpenConnected, OpenBusy, OpenInsert, OpenOops, OpenDone,
     SwitchChannel, SwitchNoMem, SwitchDone, MakeDone, FreeDone, CloseDone, CloseLast,
     DetachDone
<1> QED
  BY <1>1, <1>2

\* Every step keeps the invariant, if it begins no call while one is in
\* progress.
LEMMA StepIInv ==
  ASSUME TypeInv, IInv, [SerialStep]_vars
  PROVE  IInv'
<1>1. ASSUME NEW p \in Callers, NEW h \in Handles, NEW f \in Frames, MapFrame(p, h, f)
      PROVE  IInv'
  BY <1>1, MapInductive
<1>2. ASSUME NEW p \in Callers, Idle, Call(p) PROVE IInv'
  <2>1. Solo(p)
    BY <1>2, Alone, SoloBefore
  <2>2. CASE \E h \in Handles, f \in Frames : MapFrame(p, h, f)
    BY <1>1, <2>2
  <2>3. CASE ~\E h \in Handles, f \in Frames : MapFrame(p, h, f)
    <3>1. Solo(p)'
      BY <1>2, <2>1, <2>3, LocalStepInductive, OpenConnectInductive, CloseStartInductive,
         FrameInductive, ControlInductive
      DEF Call
    <3> QED
      BY <3>1, SoloAfter
  <2> QED
    BY <2>2, <2>3
<1>3. ASSUME NEW p \in Callers, Continue(p) PROVE IInv'
  <2>1. Solo(p)
    BY <1>3, Alone, SoloBefore
  <2>2. Solo(p)'
    BY <1>3, <2>1, LocalStepInductive, OpenInsertInductive, SwitchChannelInductive,
       SwapDoneInductive, CloseDoneInductive, CloseLastInductive,
       DetachDoneInductive
    DEF Continue
  <2> QED
    BY <2>2, SoloAfter
<1> QED
  BY <1>1, <1>2, <1>3, TimerFiresInductive, UnmapInductive, BoardInductive, StutterIInv
  DEF SerialStep

\* The calls of a single caller never overlap.
LEMMA SingleCaller ==
  ASSUME \A p, q \in Callers : p = q
  PROVE  Spec => OneAtATime
<1>1. ASSUME NEW p \in Callers, Call(p) PROVE Idle
  BY <1>1 DEF Call, OpenConnect, OpenNext, CloseStart, SwitchCheck, MakeFrame, FreeFrame,
     MapFrame, Usable, ResetBoard, RestartBoard, RemoveBoard, ReplaceBoard, Control, Idle
<1>2. [Next]_vars => [SerialStep]_vars
  BY <1>1 DEF Next, SerialStep
<1> QED
  BY <1>2, PTL DEF Spec, OneAtATime

(* IInv and the types hold throughout, when calls do not overlap.           *)
THEOREM Inductive == Spec /\ OneAtATime => [](TypeInv /\ IInv)
<1>1. Init => TypeInv /\ IInv
  BY InitIInv, InitType
<1>2. TypeInv /\ [Next]_vars => TypeInv'
  BY CallType, ContinueType, OtherType DEF Next
<1>3. TypeInv /\ IInv /\ [SerialStep]_vars => IInv'
  BY StepIInv
<1> QED
  BY <1>1, <1>2, <1>3, PTL DEF Spec, OneAtATime

\* A running board uses the current root table, the one being installed, or
\* none.
LEMMA InforceKnown ==
  ASSUME TypeInv, IInv, mode = "up", inforce # None
  PROVE  \/ inforce = root
         \/ \E p \in Callers : pc[p] \in SwapPCs /\ inforce = sent[p]
<1>1. CASE NobodyIn(WaitPCs)
  BY <1>1 DEF IInv, RegisterInv, RegisterAt
<1>2. CASE ~NobodyIn(WaitPCs)
  <2> PICK p \in Callers : pc[p] \in WaitPCs
    BY <1>2 DEF NobodyIn
  <2>1. inforce \in {root, sent[p]}
    BY DEF IInv, BoardInv, BoardAt, Waiting
  <2>2. pc[p] = "connect" => sent[p] = root
    BY DEF IInv, CallerInv, CallerAt
  <2>3. pc[p] = "detach" => sent[p] = None
    BY DEF IInv, RegisterInv, RegisterAt
  <2> QED
    BY <2>1, <2>2, <2>3 DEF WaitPCs, SwapPCs
<1> QED
  BY <1>1, <1>2

\* The invariant rules out a dangling channel pointer.
LEMMA IInvDangling ==
  ASSUME TypeInv, IInv
  PROVE  NoDanglingChannel
<1> SUFFICES ASSUME mode = "up", inforce # None
             PROVE  /\ inforce \in livePages
                    /\ \A i \in ChanIds : rootChan[inforce][i] \in liveSlots \cup {None}
  BY DEF NoDanglingChannel
<1>1. CASE inforce = root
  BY <1>1 DEF IInv, PageInv, TableInv, RootLists
<1>2. ASSUME NEW p \in Callers, pc[p] \in SwapPCs, inforce = sent[p]
      PROVE  /\ inforce \in livePages
             /\ \A i \in ChanIds : rootChan[inforce][i] \in liveSlots \cup {None}
  <2>1. inforce \in livePages
    BY <1>2 DEF IInv, PageInv
  <2>2. \E S \in SUBSET channels : Lists(sent[p], S)
    BY <1>2 DEF IInv, TableInv, TableAt
  <2>3. \A h \in channels : table[h] \in liveSlots
    BY DEF IInv, SlotInv
  <2> QED
    BY <1>2, <2>1, <2>2, <2>3 DEF Lists
<1> QED
  BY <1>1, <1>2, InforceKnown

(* The root table swap is safe: whether the board answers or the timer runs *)
(* out, a running board never holds a released root page, or a table with a *)
(* pointer to a pool entry that has gone back.                              *)
THEOREM DanglingSafe == Spec /\ OneAtATime => []NoDanglingChannel
<1>1. TypeInv /\ IInv => NoDanglingChannel
  BY IInvDangling
<1> QED
  BY <1>1, Inductive, PTL

(* Between calls driver and board agree on the table, and on what it lists. *)
THEOREM AlwaysSynchronized == Spec /\ OneAtATime => []Synchronized
<1>1. TypeInv /\ IInv => Synchronized
  BY DEF IInv, TableInv, RegisterInv, NobodyIn, Synchronized, Idle, WaitPCs
<1> QED
  BY <1>1, Inductive, PTL

(* No two open files are on one channel, whatever closes and switches       *)
(* happened between the check of the number and its use.                    *)
THEOREM ChannelsExclusive == Spec /\ OneAtATime => []ExclusiveChannels
<1>1. IInv => ExclusiveChannels
  BY DEF IInv, SlotInv
<1> QED
  BY <1>1, Inductive, PTL

(* The swap leaks no page: between calls the current one is all there is.   *)
THEOREM PagesReturned == Spec /\ OneAtATime => []NoPageLeak
<1>1. IInv => NoPageLeak
  BY DEF IInv, PageInv, NoPageLeak, Idle, SwapPCs
<1> QED
  BY <1>1, Inductive, PTL

-----------------------------------------------------------------------------
(* Frames, which outlive the last close                                     *)

\* At the start there are no frames.
LEMMA InitFrames == Init => FrameInv
BY DEF Init, FrameInv, NoFrames, SwapPCs

\* Frame tables that an action does not concern.
LEMMA FramesKept ==
  ASSUME TypeInv, FrameInv, UNCHANGED <<root, frame, stale, rootFrame>>,
         \A p \in Callers : pc'[p] \in SwapPCs =>
           pc'[p] = pc[p] /\ UNCHANGED <<sent[p], arg[p], xpd[p]>>
  PROVE  FrameInv'
BY DEF FrameInv

\* Every step keeps the frame entries of the tables in use right.
LEMMA StepFrames ==
  ASSUME TypeInv, IInv, FrameInv, [SerialStep]_vars
  PROVE  FrameInv'
<1> USE ConstantsAssumption DEF TypeInv, TypeOK, LocalOK, SwapPCs, Goto,
        driverVars, handleVars, memoryVars, callerVars, waitVars, boardVars
<1>1. ASSUME NEW p \in Callers, NEW h \in Handles,
             \/ OpenConnect(p, h) \/ OpenNext(p, h)
             \/ \E i \in ChanIds : SwitchCheck(p, h, i)
             \/ \E f \in Frames : MapFrame(p, h, f)
      PROVE  FrameInv'
  BY <1>1, FramesKept DEF OpenConnect, OpenNext, SwitchCheck, MapFrame, Enter, Send
<1>2. ASSUME NEW p \in Callers,
             \/ OpenConnected(p) \/ OpenBusy(p) \/ OpenOops(p) \/ SwitchNoMem(p)
             \/ DetachDone(p)
      PROVE  FrameInv'
  BY <1>2, FramesKept DEF OpenConnected, OpenBusy, OpenOops, SwitchNoMem, DetachDone,
                          Return, CancelTimer, Resume
<1>3. ASSUME Board \/ (\E p \in Callers : TimerFires(p)) \/ (\E m \in maps : UnmapFrame(m))
             \/ UNCHANGED vars
      PROVE  FrameInv'
  BY <1>3, FramesKept DEF Board, BoardAcks, BoardHangs, BoardRestarts, BoardBoots,
                          TimerFires, UnmapFrame, vars
<1>4. ASSUME NEW p \in Callers, Idle,
             ResetBoard(p) \/ RestartBoard(p) \/ RemoveBoard(p) \/ ReplaceBoard(p)
      PROVE  FrameInv'
  <2>1. UNCHANGED <<pc, root, rootFrame>> /\ pc'[p] = "idle"
    BY <1>4 DEF Control, ResetBoard, RestartBoard, RemoveBoard, ReplaceBoard, Idle
  <2>2. FreeAllFrames \/ UNCHANGED <<frame, stale>>
    BY <1>4 DEF ResetBoard, RestartBoard, RemoveBoard, ReplaceBoard
  <2>3. \A f \in Frames : f \notin stale' =>
          f \notin stale /\ (frame'[f] = frame[f] \/ rootFrame[root][f] = None)
    BY <2>2 DEF FreeAllFrames
  <2> QED
    BY <1>4, <2>1, <2>3 DEF FrameInv, Idle
<1>5. ASSUME NEW p \in Callers, NEW h \in Handles, NEW f \in Frames,
             OthersIdle(p), MakeFrame(p, h, f) \/ FreeFrame(p, h, f)
      PROVE  FrameInv'
  <2>1. PICK e \in Tables \cup {None} :
          /\ DuplicateAndSend(p, rootChan[root], [rootFrame[root] EXCEPT ![f] = e])
          /\ \/ e = None /\ UNCHANGED frame
             \/ frame[f] = None /\ frame' = [frame EXCEPT ![f] = e]
          /\ FreeFrame(p, h, f) => e = None
    <3>1. CASE MakeFrame(p, h, f)
      BY <3>1 DEF MakeFrame, FreeFrame, FreeTables
    <3>2. CASE FreeFrame(p, h, f)
      BY <3>2 DEF FreeFrame
    <3> QED
      BY <1>5, <3>1, <3>2
  <2>2. pc[p] \notin SwapPCs /\ OthersIdle(p)'
        /\ UNCHANGED <<root, stale>> /\ pc'[p] \in {"make", "free"} /\ arg'[p] = f
        /\ (pc'[p] = "free" => FreeFrame(p, h, f))
    BY <1>5 DEF OthersIdle, MakeFrame, FreeFrame, Usable, Enter
  <2>3. PICK new \in Pages \ {root} :
          /\ rootFrame' = [rootFrame EXCEPT ![new] = [rootFrame[root] EXCEPT ![f] = e]]
          /\ Send(p, new)
    BY <1>5, <2>1, <2>2, FreshPage, SoloBefore
  <2>4. sent'[p] = new /\ rootFrame'[root] = rootFrame[root]
        /\ \A g \in Frames : rootFrame'[new][g] = IF g = f THEN e ELSE rootFrame[root][g]
    BY <2>3 DEF Send
  <2>5. /\ \A g \in Frames \ stale : /\ rootFrame[root][g] \in {frame[g], None}
                                   /\ rootFrame[root][g] \in {frame'[g], None}
                                   /\ rootFrame'[new][g] \in {frame'[g], None}
        /\ rootFrame'[new][f] \in {frame'[f], None}
    BY <2>1, <2>4 DEF FrameInv
  <2>6. pc'[p] = "free" => rootFrame'[new][f] = None
    BY <2>1, <2>2, <2>4
  <2> QED
    BY <2>2, <2>4, <2>5, <2>6 DEF FrameInv, OthersIdle
<1>6. ASSUME NEW p \in Callers, OthersIdle(p), OpenInsert(p) \/ SwitchChannel(p)
      PROVE  FrameInv'
  <2>1. PICK new \in Pages \ {root} :
          rootFrame' = [rootFrame EXCEPT ![new] = rootFrame[root]] /\ Send(p, new)
    <3>1. pc[p] \notin SwapPCs
      BY <1>6 DEF OpenInsert, SwitchChannel
    <3>2. \E ch : DuplicateAndSend(p, ch, rootFrame[root])
      BY <1>6 DEF OpenInsert, SwitchChannel
    <3> QED
      BY <1>6, <3>1, <3>2, FreshPage, SoloBefore
  <2>2. OthersIdle(p)' /\ pc'[p] \in {"open", "switch"}
        /\ UNCHANGED <<root, frame, stale>>
    BY <1>6 DEF OthersIdle, OpenInsert, SwitchChannel
  <2> QED
    BY <2>1, <2>2 DEF FrameInv, Send, OthersIdle
<1>7. ASSUME NEW p \in Callers, NEW h \in Handles, OthersIdle(p), CloseStart(p, h)
      PROVE  FrameInv'
  <2>1. PICK new \in Pages \ {root} :
          rootFrame' = [rootFrame EXCEPT ![new] = rootFrame[root]] /\ Send(p, new)
    <3>1. pc[p] \notin SwapPCs
      BY <1>7 DEF CloseStart, Usable
    <3>2. \E ch : DuplicateAndSend(p, ch, rootFrame[root])
      BY <1>7 DEF CloseStart
    <3> QED
      BY <1>7, <3>1, <3>2, FreshPage, SoloBefore
  <2>2. OthersIdle(p)'
    BY <1>7 DEF OthersIdle, CloseStart, Enter
  <2> QED
    BY <1>7, <2>1, <2>2 DEF CloseStart, Enter, FrameInv, Send, OthersIdle
<1>8. ASSUME NEW p \in Callers, OthersIdle(p),
             \/ OpenDone(p) \/ SwitchDone(p) \/ MakeDone(p) \/ FreeDone(p)
             \/ CloseDone(p) \/ CloseLast(p)
      PROVE  FrameInv'
  <2>1. /\ OthersIdle(p)' /\ pc[p] \in SwapPCs /\ sent[p] \in Pages /\ sent[p] # root
        /\ SwapRoot(p) /\ pc'[p] \in {"idle", "detach"}
    BY <1>8 DEF OthersIdle, OpenDone, SwitchDone, MakeDone, FreeDone, CloseDone,
                CloseLast, Resume, Return, Enter, IInv, CallerInv, CallerAt
  <2>2. root' = sent[p] /\ rootFrame'[root'] = rootFrame[sent[p]]
    BY <2>1 DEF SwapRoot, NoFrames
  <2>3. CASE FreeDone(p)
    <3>1. pc[p] = "free" /\ arg[p] \in Frames /\ rootFrame[sent[p]][arg[p]] = None
      BY <2>3 DEF FreeDone, Resume, FrameInv
    <3>2. /\ frame' = IF Mapped(arg[p]) THEN frame ELSE [frame EXCEPT ![arg[p]] = None]
          /\ stale' = stale \ {arg[p]}
      BY <2>3 DEF FreeDone
    <3> QED
      BY <2>1, <2>2, <3>1, <3>2 DEF FrameInv, OthersIdle
  <2>4. CASE MakeDone(p)
    <3>1. pc[p] = "make" /\ arg[p] \in Frames
          /\ rootFrame[sent[p]][arg[p]] \in {frame[arg[p]], None}
      BY <2>4 DEF MakeDone, Resume, FrameInv
    <3>2. frame' = frame /\ stale' = stale \ {arg[p]}
      BY <2>4 DEF MakeDone
    <3> QED
      BY <2>1, <2>2, <3>1, <3>2 DEF FrameInv, OthersIdle
  <2>5. CASE ~FreeDone(p) /\ ~MakeDone(p)
    <3>1. UNCHANGED <<frame, stale>>
      BY <1>8, <2>5 DEF OpenDone, SwitchDone, CloseDone, CloseLast, DropChannel
    <3> QED
      BY <2>1, <2>2, <3>1 DEF FrameInv, OthersIdle
  <2> QED
    BY <2>3, <2>4, <2>5
<1>9. ASSUME NEW p \in Callers, Idle, Call(p) PROVE FrameInv'
  BY <1>1, <1>4, <1>5, <1>7, <1>9, Alone DEF Call
<1>10. ASSUME NEW p \in Callers, Continue(p) PROVE FrameInv'
  BY <1>2, <1>6, <1>8, <1>10, Alone DEF Continue
<1> QED
  BY <1>1, <1>3, <1>9, <1>10 DEF SerialStep

(* Nor does a running board hold a table with a pointer to a frame table    *)
(* that has been freed, but for the entries a reset, restart or removal of  *)
(* the board left in the root table: no sequence of opens, closes, channel  *)
(* switches and calls on frames makes another, whoever leaves frames        *)
(* behind.                                                                  *)
THEOREM FramesSafe == Spec /\ OneAtATime => []NoDanglingFrame
<1>1. Init => FrameInv
  BY InitFrames
<1>2. TypeInv /\ IInv /\ FrameInv /\ [SerialStep]_vars => FrameInv'
  BY StepFrames
<1>3. TypeInv /\ IInv /\ FrameInv => NoDanglingFrame
  BY InforceKnown DEF NoDanglingFrame, FrameInv
<1> QED
  BY <1>1, <1>2, <1>3, Inductive, PTL DEF Spec, OneAtATime

-----------------------------------------------------------------------------
(* The order of UCR_FREE_FRAME: the board first, the memory second          *)

\* The table that is being installed has no entry for the frame being freed.
FreeInv == \A p \in Callers : pc[p] = "free" => rootFrame[sent[p]][arg[p]] = None

\* Only UCR_FREE_FRAME itself comes to wait for that table.
LEMMA StepFree ==
  ASSUME TypeInv, IInv, FreeInv, [SerialStep]_vars
  PROVE  FreeInv'
<1> USE DEF TypeInv, TypeOK, driverVars, handleVars, memoryVars, callerVars, Goto
<1>1. ASSUME NEW p \in Callers, OthersIdle(p)', pc'[p] # "free" PROVE FreeInv'
  BY <1>1 DEF OthersIdle, FreeInv
<1>2. ASSUME UNCHANGED <<pc, rootFrame, sent, arg>> PROVE FreeInv'
  BY <1>2 DEF FreeInv
<1>3. ASSUME NEW p \in Callers, OthersIdle(p)', NEW h \in Handles, NEW f \in Frames,
             FreeFrame(p, h, f)
      PROVE  FreeInv'
  <2> PICK new \in Pages :
        /\ rootFrame' = [rootFrame EXCEPT ![new] = [rootFrame[root] EXCEPT ![f] = None]]
        /\ Send(p, new)
    BY <1>3 DEF FreeFrame, DuplicateAndSend, FreePages
  <2>1. sent'[p] = new /\ arg'[p] = f
    BY <1>3 DEF FreeFrame, Enter, Send
  <2> QED
    BY <1>3, <2>1 DEF FreeInv, OthersIdle
<1>4. ASSUME NEW p \in Callers, Idle, Call(p) PROVE FreeInv'
  <2>0. OthersIdle(p)'
    BY <1>4, Alone, OthersStay
  <2>1. ASSUME NEW h \in Handles, OpenConnect(p, h) \/ OpenNext(p, h) \/ CloseStart(p, h)
        PROVE  FreeInv'
    BY <1>1, <2>0, <2>1 DEF OpenConnect, OpenNext, CloseStart, Enter
  <2>2. ASSUME NEW h \in Handles, NEW i \in ChanIds, SwitchCheck(p, h, i) PROVE FreeInv'
    BY <1>1, <2>0, <2>2 DEF SwitchCheck, Enter
  <2>3. ASSUME NEW h \in Handles, NEW f \in Frames, MakeFrame(p, h, f) \/ MapFrame(p, h, f)
        PROVE  FreeInv'
    BY <1>1, <1>2, <2>0, <2>3 DEF MakeFrame, MapFrame, Enter
  <2>4. ASSUME ResetBoard(p) \/ RestartBoard(p) \/ RemoveBoard(p) \/ ReplaceBoard(p)
        PROVE  FreeInv'
    BY <1>2, <2>4 DEF ResetBoard, RestartBoard, RemoveBoard, ReplaceBoard, Control
  <2> QED
    BY <1>3, <1>4, <2>0, <2>1, <2>2, <2>3, <2>4 DEF Call
<1>5. ASSUME NEW p \in Callers, Continue(p) PROVE FreeInv'
  <2>1. OthersIdle(p)'
    BY <1>5, Alone, OthersStay
  <2> QED
    BY <1>1, <1>5, <2>1 DEF Continue, OpenConnected, OpenBusy, OpenInsert, OpenOops, OpenDone,
     SwitchChannel, SwitchNoMem, SwitchDone, MakeDone, FreeDone, CloseDone, CloseLast,
     DetachDone, Return, Enter
<1>6. ASSUME \/ \E p \in Callers, h \in Handles, f \in Frames : MapFrame(p, h, f)
             \/ \E p \in Callers : TimerFires(p)
             \/ \E m \in maps : UnmapFrame(m)
             \/ Board
             \/ UNCHANGED vars
      PROVE  FreeInv'
  BY <1>2, <1>6 DEF MapFrame, TimerFires, UnmapFrame, Board, BoardAcks, BoardHangs,
     BoardRestarts, BoardBoots, vars
<1> QED
  BY <1>4, <1>5, <1>6 DEF SerialStep

\* What a step that frees a frame finds.
LEMMA StepFreesFrame ==
  ASSUME TypeInv, IInv, FreeInv, [SerialStep]_vars,
         NEW f \in Frames, frame[f] # None, frame'[f] # frame[f],
         mode' = "up", inforce' # None
  PROVE  rootFrame[inforce'][f] # frame[f]
<1> USE DEF TypeInv, TypeOK, driverVars, handleVars, memoryVars, callerVars, waitVars,
        boardVars, Goto
<1>1. ASSUME NEW p \in Callers, FreeDone(p) PROVE rootFrame[inforce'][f] # frame[f]
  <2>1. pc[p] = "free" /\ Answered(p) /\ arg[p] = f /\ UNCHANGED <<inforce, mode>>
    BY <1>1 DEF FreeDone, Resume, CancelTimer
  <2>2. inforce = sent[p]
    BY <2>1 DEF IInv, BoardInv, BoardAt, Answered, Waiting, WaitPCs
  <2> QED
    BY <2>1, <2>2 DEF FreeInv
<1>2. ASSUME NEW p \in Callers, Idle, RestartBoard(p) PROVE FALSE
  <2>1. NobodyIn(WaitPCs) /\ channels = {} /\ UNCHANGED <<inforce, mode>>
    BY <1>2 DEF RestartBoard, Control, NobodyIn, Idle, WaitPCs
  <2> QED
    BY <1>2, <2>1 DEF IInv, RegisterInv
<1>3. ASSUME NEW p \in Callers, ResetBoard(p) \/ RemoveBoard(p) PROVE FALSE
  BY <1>3 DEF ResetBoard, RemoveBoard
<1>4. ASSUME NEW p \in Callers, NEW h \in Handles, NEW g \in Frames, MakeFrame(p, h, g)
      PROVE  FALSE
  BY <1>4 DEF MakeFrame
<1>5. ASSUME UNCHANGED frame PROVE FALSE
  BY <1>5
<1>6. ASSUME NEW p \in Callers, Idle, Call(p) PROVE rootFrame[inforce'][f] # frame[f]
  BY <1>2, <1>3, <1>4, <1>5, <1>6 DEF Call, OpenConnect, OpenNext, CloseStart,
     SwitchCheck, FreeFrame, MapFrame, ReplaceBoard
<1>7. ASSUME NEW p \in Callers, Continue(p) PROVE rootFrame[inforce'][f] # frame[f]
  BY <1>1, <1>5, <1>7 DEF Continue, OpenConnected, OpenBusy, OpenInsert, OpenOops,
     OpenDone, SwitchChannel, SwitchNoMem, SwitchDone, MakeDone, CloseDone, CloseLast,
     DropChannel, DetachDone
<1>8. ASSUME \/ \E p \in Callers, h \in Handles, g \in Frames : MapFrame(p, h, g)
             \/ \E p \in Callers : TimerFires(p)
             \/ \E m \in maps : UnmapFrame(m)
             \/ Board
             \/ UNCHANGED vars
      PROVE  FALSE
  BY <1>5, <1>8 DEF MapFrame, TimerFires, UnmapFrame, Board, BoardAcks, BoardHangs,
     BoardRestarts, BoardBoots, vars
<1> QED
  BY <1>6, <1>7, <1>8 DEF SerialStep

(* The memory of a frame is given back only when a running board no longer  *)
(* has the frame in the table it uses, even if processes leave frames       *)
(* behind.                                                                  *)
THEOREM FramesFreedLast == Spec /\ OneAtATime => FreedFrameStaysAway
<1> DEFINE Away == \A f \in Frames : frame[f] # None /\ frame'[f] # frame[f] /\ mode' = "up"
                     /\ inforce' # None => rootFrame[inforce'][f] # frame[f]
<1>1. Init => FreeInv
  BY DEF Init, FreeInv
<1>2. TypeInv /\ IInv /\ FreeInv /\ [SerialStep]_vars => FreeInv'
  BY StepFree
<1>3. TypeInv /\ IInv /\ FreeInv /\ [SerialStep]_vars => [Away]_vars
  BY StepFreesFrame
<1>4. Spec /\ OneAtATime => [][Away]_vars
  BY <1>1, <1>2, <1>3, Inductive, PTL DEF Spec, OneAtATime
<1> QED
  BY <1>4 DEF FreedFrameStaysAway
=============================================================================
