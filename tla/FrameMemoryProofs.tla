------------------------- MODULE FrameMemoryProofs -------------------------
(***************************************************************************)
(* Proofs about FrameMemory, for any number of boards, frames and pages:   *)
(* the shared page counter, how far the limit can be overrun, and that no  *)
(* page is lost by a failed allocation.                                    *)
(***************************************************************************)
EXTENDS MCFrameMemory, FiniteSetTheorems, TLAPS

\* The initial values have their types.
LEMMA InitType == Init => TypeOK
BY FrameAssumption DEF Init, TypeOK, Sleeping

\* The counter never goes below zero.
LEMMA LessType == \A u, n \in Nat : Less(u, n) \in Nat /\ Less(u, n) <= u
BY DEF Less

\* The set of pages stays finite, so it can be counted.
Finite == IsFiniteSet(held)

\* Types and finiteness survive the head of the page loop.
LEMMA NextPageType ==
  ASSUME TypeOK, NEW b \in Boards, NEW k \in Nat, NEW got, NEW used \in Nat,
         got \subseteq Boards \X FrameIds \X Nat, IsFiniteSet(got),
         NextPage(b, k, got, used), UNCHANGED <<ref, vma, early>>
  PROVE  TypeOK' /\ Finite'
<1> DEFINE f == arg[b].frame
           mine == {h \in got : h[1] = b /\ h[2] = f}
<1>1. IsFiniteSet(mine) /\ Cardinality(mine) \in Nat /\ IsFiniteSet(got \ mine)
  BY FS_Subset, FS_CardinalityType
<1>2. CASE k < arg[b].pages /\ used >= Limit
  <2>1. RollBack(b, got, used, 0)
    BY <1>2 DEF NextPage, LimitReached
  <2>2. Less(used, Cardinality(mine) + 0) \in Nat
    <3>1. Cardinality(mine) + 0 \in Nat
      BY <1>1
    <3> QED BY <3>1, LessType
  <2>3. inUse' \in Nat /\ held' = got \ mine /\ bogus' = bogus
    BY <2>1, <2>2 DEF RollBack, Mine, TypeOK
  <2> QED
    BY <1>1, <2>1, <2>3 DEF RollBack, Mine, TypeOK, Finite
<1>3. CASE ~(k < arg[b].pages /\ used >= Limit)
  <2>1. /\ arg[b] \in [frame : FrameIds, pages : Nat, idx : Nat]
        /\ f \in FrameIds /\ arg[b].pages \in Nat
    BY DEF TypeOK
  <2>2. /\ held' = got /\ inUse' = used /\ bogus' = bogus
        /\ table' = [table EXCEPT ![b][f] = "set"]
        /\ count' = [count EXCEPT ![b][f] = arg[b].pages]
        /\ arg' = [arg EXCEPT ![b].idx = k]
        /\ pc' = [pc EXCEPT ![b] = IF k = arg[b].pages THEN "idle" ELSE "page"]
    BY <1>3 DEF NextPage, LimitReached
  <2> HIDE DEF f
  <2>3. /\ table' \in [Boards -> [FrameIds -> {"null", "raw", "set"}]]
        /\ count' \in [Boards -> [FrameIds -> Nat]]
    BY <2>1, <2>2 DEF TypeOK
  <2>4. arg' \in [Boards -> [frame : FrameIds, pages : Nat, idx : Nat]]
    BY <2>1, <2>2 DEF TypeOK
  <2>5. pc' \in [Boards -> {"idle", "killed"} \cup Sleeping]
    BY <2>2 DEF TypeOK, Sleeping
  <2> QED
    BY <2>2, <2>3, <2>4, <2>5 DEF TypeOK, Finite
<1> QED
  BY <1>2, <1>3

\* Counting a mapping in or out leaves a count.
LEMMA CountedType ==
  ASSUME TypeOK, NEW v \in Vmas, vma[v] # None,
         Counted(v, Refs(v) + 1) \/ Counted(v, Refs(v) - 1)
  PROVE  ref' \in [Boards -> [FrameIds -> Int]]
<1>1. vma[v].board \in Boards /\ vma[v].frame \in FrameIds
  BY DEF TypeOK, Mapping
<1>2. Refs(v) \in Int
  BY <1>1 DEF Refs, TypeOK
<1>3. CASE vma[v].file = "channel"
  <2>0. Refs(v) + 1 \in Int /\ Refs(v) - 1 \in Int
    BY <1>2
  <2>1. PICK n \in Int : ref' = [ref EXCEPT ![vma[v].board][vma[v].frame] = n]
    <3>1. CASE Counted(v, Refs(v) + 1)
      BY <1>3, <2>0, <3>1 DEF Counted
    <3>2. CASE Counted(v, Refs(v) - 1)
      BY <1>3, <2>0, <3>2 DEF Counted
    <3> QED
      BY <3>1, <3>2
  <2> DEFINE bb == vma[v].board
             ff == vma[v].frame
  <2>2. bb \in Boards /\ ff \in FrameIds /\ ref' = [ref EXCEPT ![bb][ff] = n]
    BY <1>1, <2>1
  <2> HIDE DEF bb, ff
  <2> QED
    BY <2>2 DEF TypeOK
<1>4. CASE vma[v].file # "channel"
  BY <1>4 DEF Counted, TypeOK
<1> QED
  BY <1>3, <1>4

\* Every step keeps the types, and the set of pages finite.
LEMMA StepType ==
  ASSUME TypeOK, Finite, [Next]_vars
  PROVE  TypeOK' /\ Finite'
<1> USE FrameAssumption
<1>1. ASSUME NEW b \in Boards, NEW f \in FrameIds, NEW n \in 0..MaxPages, MakeFrame(b, f, n)
      PROVE  TypeOK' /\ Finite'
  BY <1>1 DEF MakeFrame, TypeOK, Finite, frameVars, Sleeping
<1>2. ASSUME NEW b \in Boards, NoTable(b) PROVE TypeOK' /\ Finite'
  BY <1>2 DEF NoTable, TypeOK, Finite, frameVars
<1>3. ASSUME NEW b \in Boards, GotTable(b) PROVE TypeOK' /\ Finite'
  BY <1>3 DEF GotTable, TypeOK, Finite, Sleeping
<1>4. ASSUME NEW b \in Boards, GotVirt(b) PROVE TypeOK' /\ Finite'
  BY <1>4, NextPageType DEF GotVirt, TypeOK, Finite
<1>5. ASSUME NEW b \in Boards, GotPage(b) PROVE TypeOK' /\ Finite'
  <2> DEFINE got == held \cup {<<b, arg[b].frame, arg[b].idx>>}
  <2>1. got \subseteq Boards \X FrameIds \X Nat /\ IsFiniteSet(got)
    <3>1. arg[b].frame \in FrameIds /\ arg[b].idx \in Nat /\ IsFiniteSet(held)
      BY DEF TypeOK, Finite
    <3>2. IsFiniteSet(got)
      BY <3>1, FS_AddElement
    <3> QED
      BY <3>1, <3>2 DEF TypeOK
  <2>2. arg[b].idx + 1 \in Nat /\ inUse + 1 \in Nat
    BY DEF TypeOK
  <2> HIDE DEF got
  <2>3. NextPage(b, arg[b].idx + 1, got, inUse + 1) /\ UNCHANGED <<ref, vma, early>>
    BY <1>5 DEF GotPage, got
  <2> QED
    BY <2>1, <2>2, <2>3, NextPageType
<1>6. ASSUME NEW b \in Boards, NoPage(b) PROVE TypeOK' /\ Finite'
  <2>1. PICK stale \in {0, 1} : RollBack(b, held, inUse, stale)
    BY <1>6 DEF NoPage
  <2> DEFINE mine == {h \in held : h[1] = b /\ h[2] = arg[b].frame}
  <2>2. IsFiniteSet(mine) /\ Cardinality(mine) \in Nat /\ IsFiniteSet(held \ mine)
    BY FS_Subset, FS_CardinalityType DEF Finite
  <2>3. inUse' \in Nat /\ bogus' \in Nat
    <3>0. inUse \in Nat /\ Cardinality(mine) + stale \in Nat
      BY <2>2 DEF TypeOK
    <3> HIDE DEF mine
    <3>1. Less(inUse, Cardinality(mine) + stale) \in Nat
      BY <3>0, LessType
    <3> QED
      BY <2>1, <3>1 DEF RollBack, Mine, TypeOK, mine
  <2>4. held' = held \ mine
    BY <2>1 DEF RollBack, Mine
  <2> QED
    BY <1>6, <2>1, <2>2, <2>3, <2>4 DEF NoPage, RollBack, Mine, TypeOK, Finite
<1>7. ASSUME NEW b \in Boards, NEW fs \in SUBSET FrameIds, Free(b, fs) PROVE TypeOK' /\ Finite'
  <2> DEFINE gone == {f \in fs : table[b][f] = "set" /\ ref[b][f] = 0}
             back == {h \in held : h[1] = b /\ h[2] \in gone}
  <2>1. IsFiniteSet(back) /\ Cardinality(back) \in Nat /\ IsFiniteSet(held \ back)
    BY FS_Subset, FS_CardinalityType DEF Finite
  <2>2. inUse' \in Nat /\ held' = held \ back
    BY <1>7, <2>1, LessType DEF Free, TypeOK
  <2> QED
    BY <1>7, <2>1, <2>2 DEF Free, TypeOK, Finite
<1>8. ASSUME NEW b \in Boards, NEW f \in FrameIds, MapMissing(b, f) PROVE TypeOK' /\ Finite'
  BY <1>8 DEF MapMissing, TypeOK, Finite, frameVars
<1>9. ASSUME NEW b \in Boards, NEW f \in FrameIds, NEW v \in Vmas, NEW first \in 0..MaxPages,
             NEW n \in 1..MaxPages, NEW file \in {"channel", "control"},
             Map(b, v, f, first, n, file)
      PROVE  TypeOK' /\ Finite'
  BY <1>9 DEF Map, TypeOK, Finite, frameVars, Mapping
<1>10. ASSUME NEW v \in Vmas, NEW w \in Vmas, VmOpen(v, w) PROVE TypeOK' /\ Finite'
  BY <1>10, CountedType DEF VmOpen, TypeOK, Finite, frameVars
<1>11. ASSUME NEW v \in Vmas, VmClose(v) PROVE TypeOK' /\ Finite'
  BY <1>11, CountedType DEF VmClose, TypeOK, Finite, frameVars
<1>12. ASSUME UNCHANGED vars PROVE TypeOK' /\ Finite'
  BY <1>12 DEF vars, TypeOK, Finite
<1> QED
  BY <1>1, <1>2, <1>3, <1>4, <1>5, <1>6, <1>7, <1>8, <1>9, <1>10, <1>11, <1>12
     DEF Next, Call, Continue, FreeFrame, FreeAllFrames

\* TypeOK and finiteness hold from the start.
THEOREM TypeCorrect == Spec => [](TypeOK /\ Finite)
<1>1. Init => TypeOK /\ Finite
  BY InitType, FS_EmptySet DEF Init, Finite
<1> QED
  BY <1>1, StepType, PTL DEF Spec

-----------------------------------------------------------------------------
(* The counter, the limit, and the pages of frames that are being made      *)

\* Boards that wait for a page can be counted.
LEMMA WaitingFinite ==
  /\ IsFiniteSet(Waiting) /\ Cardinality(Waiting) \in Nat
  /\ Cardinality(Boards) \in Nat
  /\ Cardinality(Waiting) <= Cardinality(Boards)
  /\ \A b \in Boards : b \notin Waiting => Cardinality(Waiting) + 1 <= Cardinality(Boards)
<1>1. Waiting \in SUBSET Boards
  BY DEF Waiting
<1>2. ASSUME NEW b \in Boards, b \notin Waiting
      PROVE  Cardinality(Waiting) + 1 <= Cardinality(Boards)
  <2>1. Waiting \cup {b} \in SUBSET Boards
    BY <1>1
  <2>2. IsFiniteSet(Waiting)
    BY <1>1, FS_Subset, FrameAssumption
  <2>3. Cardinality(Waiting \cup {b}) = Cardinality(Waiting) + 1
    BY <1>2, <2>2, FS_AddElement
  <2> QED
    BY <2>1, <2>3, FS_Subset, FrameAssumption
<1> QED
  BY <1>1, <1>2, FS_Subset, FS_CardinalityType, FrameAssumption

\* Taking pages out of the set and as many, or more, off the counter keeps
\* the two apart by no more than the bogus frees.
LEMMA TakeBack ==
  ASSUME NEW S, IsFiniteSet(S), NEW T \in SUBSET S, NEW used \in Nat, NEW extra \in Nat,
         NEW slack \in Nat, used <= Cardinality(S), Cardinality(S) <= used + slack
  PROVE  /\ Less(used, Cardinality(T) + extra) <= Cardinality(S \ T)
         /\ Cardinality(S \ T) <= Less(used, Cardinality(T) + extra) + slack + extra
<1>1. /\ Cardinality(S) \in Nat /\ Cardinality(T) \in Nat /\ IsFiniteSet(T)
      /\ Cardinality(T) <= Cardinality(S)
  BY FS_Subset, FS_CardinalityType
<1>2. Cardinality(S \ T) = Cardinality(S) - Cardinality(T)
  <2>1. S \cap T = T
    OBVIOUS
  <2> QED
    BY <1>1, <2>1, FS_Difference
<1> QED
  BY <1>1, <1>2 DEF Less

\* Releasing the pages of a frame with its table keeps what is said of pages.
LEMMA RollBackInv ==
  ASSUME TypeOK, FrameInv, NEW b \in Boards, pc[b] \in {"virt", "page"},
         NEW got, IsFiniteSet(got), held \subseteq got,
         \A h \in got \ held : h[1] = b /\ h[2] = arg[b].frame,
         NEW used \in Nat, NEW stale \in Nat,
         used <= Cardinality(got), Cardinality(got) <= used + bogus,
         used + Cardinality(Waiting \ {b}) <= Limit + Cardinality(Boards) - 1,
         RollBack(b, got, used, stale)
  PROVE  FrameInv'
<1> DEFINE f == arg[b].frame
           mine == {h \in got : h[1] = b /\ h[2] = f}
<1>0. f \in FrameIds /\ bogus \in Nat
  BY DEF TypeOK
<1>1. /\ held' = got \ mine
      /\ inUse' = Less(used, Cardinality(mine) + stale)
      /\ bogus' = bogus + stale
      /\ table' = [table EXCEPT ![b][f] = "null"]
      /\ count' = [count EXCEPT ![b][f] = 0]
      /\ pc' = [pc EXCEPT ![b] = "idle"]
      /\ arg' = arg
  BY DEF RollBack, Mine
<1>2. mine \in SUBSET got
  OBVIOUS
<1>3. IsFiniteSet(mine) /\ Cardinality(mine) \in Nat /\ Cardinality(mine) + stale \in Nat
  BY <1>2, FS_Subset, FS_CardinalityType
<1>4. \A h \in held' : h \in held /\ ~(h[1] = b /\ h[2] = f)
  BY <1>1
<1> HIDE DEF mine, f
<1>5. NoPageLost'
  BY <1>0, <1>1, <1>4 DEF NoPageLost, FrameInv, TypeOK
<1>6. CountBounds'
  <2>1. /\ Less(used, Cardinality(mine) + stale) <= Cardinality(got \ mine)
        /\ Cardinality(got \ mine)
             <= Less(used, Cardinality(mine) + stale) + bogus + stale
    BY <1>0, <1>2, TakeBack
  <2>2. Less(used, Cardinality(mine) + stale) \in Nat
    BY <1>3, LessType
  <2> QED
    BY <1>0, <1>1, <2>1, <2>2 DEF CountBounds
<1>7. Waiting' = Waiting \ {b}
  BY <1>1 DEF Waiting, TypeOK
<1>8. BudgetInv'
  <2>1. Less(used, Cardinality(mine) + stale) \in Nat /\ Less(used, Cardinality(mine) + stale) <= used
    BY <1>3, LessType
  <2>2. /\ Cardinality(Waiting \ {b}) \in Nat /\ Cardinality(Boards) \in Nat /\ Limit \in Nat
    BY WaitingFinite, FS_RemoveElement, FS_CardinalityType, FrameAssumption
  <2> QED
    BY <1>1, <1>7, <2>1, <2>2 DEF BudgetInv
<1>9. MakerInv'
  <2> SUFFICES ASSUME NEW c \in Boards PROVE MakerInv!(c)'
    BY DEF MakerInv
  <2>1. CASE c = b
    BY <1>1, <2>1 DEF TypeOK
  <2>2. CASE c # b
    <3>1. /\ pc'[c] = pc[c] /\ arg'[c] = arg[c]
          /\ table'[c] = table[c] /\ count'[c] = count[c]
      BY <1>1, <2>2 DEF TypeOK
    <3> QED
      BY <1>4, <3>1 DEF FrameInv, MakerInv, PagesOf
  <2> QED
    BY <2>1, <2>2
<1> QED
  BY <1>5, <1>6, <1>8, <1>9 DEF FrameInv

\* So does the head of the page loop.
LEMMA NextPageInv ==
  ASSUME TypeOK, FrameInv, NEW b \in Boards, pc[b] \in {"virt", "page"},
         NEW got, IsFiniteSet(got), held \subseteq got,
         \A h \in got \ held : h[1] = b /\ h[2] = arg[b].frame,
         NEW k \in Nat, k <= arg[b].pages,
         \A h \in got : h[1] = b /\ h[2] = arg[b].frame => h[3] \in Nat /\ h[3] < k,
         NEW used \in Nat,
         used <= Cardinality(got), Cardinality(got) <= used + bogus,
         used + Cardinality(Waiting \ {b}) <= Limit + Cardinality(Boards) - 1,
         NextPage(b, k, got, used)
  PROVE  FrameInv'
<1> DEFINE f == arg[b].frame
<1>0. f \in FrameIds /\ bogus \in Nat /\ arg[b].pages \in Nat
  BY DEF TypeOK
<1>1. CASE k < arg[b].pages /\ used >= Limit
  <2>1. RollBack(b, got, used, 0)
    BY <1>1 DEF NextPage, LimitReached
  <2> QED
    BY <2>1, RollBackInv
<1>2. CASE ~(k < arg[b].pages /\ used >= Limit)
  <2>1. /\ held' = got /\ inUse' = used /\ bogus' = bogus
        /\ table' = [table EXCEPT ![b][f] = "set"]
        /\ count' = [count EXCEPT ![b][f] = arg[b].pages]
        /\ arg' = [arg EXCEPT ![b].idx = k]
        /\ pc' = [pc EXCEPT ![b] = IF k = arg[b].pages THEN "idle" ELSE "page"]
    BY <1>2 DEF NextPage, LimitReached
  <2>2. /\ arg'[b].frame = f /\ arg'[b].pages = arg[b].pages /\ arg'[b].idx = k
        /\ table'[b][f] = "set" /\ count'[b][f] = arg[b].pages
        /\ \A c \in Boards : c # b => /\ arg'[c] = arg[c] /\ pc'[c] = pc[c]
                                      /\ table'[c] = table[c] /\ count'[c] = count[c]
        /\ \A g \in FrameIds : g # f => table'[b][g] = table[b][g] /\ count'[b][g] = count[b][g]
        /\ pc'[b] = IF k = arg[b].pages THEN "idle" ELSE "page"
    BY <1>0, <2>1 DEF TypeOK
  <2>3. \A h \in held' : (h \in held \/ (h[1] = b /\ h[2] = f))
    BY <2>1
  <2> HIDE DEF f
  <2>4. NoPageLost'
    <3> SUFFICES ASSUME NEW h \in held'
                 PROVE  table'[h[1]][h[2]] = "set" /\ h[3] < count'[h[1]][h[2]]
      BY DEF NoPageLost
    <3>1. CASE h[1] = b /\ h[2] = f
      <4>1. h[3] \in Nat /\ h[3] < k
        BY <2>1, <3>1 DEF f
      <4> QED
        BY <1>0, <2>2, <3>1, <4>1
    <3>2. CASE ~(h[1] = b /\ h[2] = f)
      <4>1. /\ h \in held /\ h[1] \in Boards /\ h[2] \in FrameIds
            /\ table[h[1]][h[2]] = "set" /\ h[3] < count[h[1]][h[2]]
        BY <2>3, <3>2 DEF FrameInv, NoPageLost, TypeOK
      <4> QED
        BY <2>2, <3>2, <4>1
    <3> QED
      BY <3>1, <3>2
  <2>5. CountBounds'
    BY <2>1 DEF CountBounds
  <2>6. BudgetInv'
    <3>1. /\ Cardinality(Waiting \ {b}) \in Nat /\ Cardinality(Boards) \in Nat
          /\ Limit \in Nat /\ IsFiniteSet(Waiting \ {b})
      BY WaitingFinite, FS_RemoveElement, FS_CardinalityType, FrameAssumption
    <3>2. CASE k = arg[b].pages
      <4>1. Waiting' = Waiting \ {b}
        BY <2>1, <3>2 DEF Waiting, TypeOK
      <4> QED
        BY <2>1, <4>1 DEF BudgetInv
    <3>3. CASE k # arg[b].pages
      <4>1. used < Limit
        BY <1>0, <1>2, <3>1, <3>3
      <4>2. Waiting' \in SUBSET Boards
        BY DEF Waiting
      <4>3. Cardinality(Waiting') \in Nat /\ Cardinality(Waiting') <= Cardinality(Boards)
        BY <4>2, FS_Subset, FS_CardinalityType, FrameAssumption
      <4> QED
        BY <2>1, <3>1, <4>1, <4>3 DEF BudgetInv
    <3> QED
      BY <3>2, <3>3
  <2>7. MakerInv'
    <3> SUFFICES ASSUME NEW c \in Boards PROVE MakerInv!(c)'
      BY DEF MakerInv
    <3>1. CASE c = b
      <4>1. \A h \in held' : h[1] = b /\ h[2] = f => h[3] < k
        BY <2>1 DEF f
      <4>2. arg[b].pages \in Nat /\ k \in Nat /\ k <= arg[b].pages
        BY <1>0
      <4> QED
        BY <2>2, <3>1, <4>1, <4>2 DEF PagesOf
    <3>2. CASE c # b
      <4>1. \A g : PagesOf(c, g)' \subseteq PagesOf(c, g)
        BY <2>3, <3>2 DEF PagesOf
      <4> QED
        BY <2>2, <3>2, <4>1 DEF FrameInv, MakerInv
    <3> QED
      BY <3>1, <3>2
  <2> QED
    BY <2>4, <2>5, <2>6, <2>7 DEF FrameInv
<1> QED
  BY <1>1, <1>2

\* A step that leaves pages, counter and tables alone, and wakes or sends
\* nobody to sleep for a page, keeps the counts.
LEMMA SameCounts ==
  ASSUME FrameInv, UNCHANGED <<table, count, held, inUse, bogus>>, Waiting' = Waiting
  PROVE  NoPageLost' /\ CountBounds' /\ BudgetInv'
BY DEF FrameInv, NoPageLost, CountBounds, BudgetInv

\* Every step keeps FrameInv.
LEMMA StepFrameInv ==
  ASSUME TypeOK, Finite, FrameInv, [Next]_vars
  PROVE  FrameInv'
<1>0. /\ IsFiniteSet(held) /\ Cardinality(held) \in Nat /\ inUse \in Nat /\ bogus \in Nat
      /\ \A b \in Boards : arg[b].frame \in FrameIds /\ arg[b].pages \in Nat /\ arg[b].idx \in Nat
  BY FS_CardinalityType DEF Finite, TypeOK
<1>1. ASSUME NEW b \in Boards, NEW f \in FrameIds, NEW n \in 0..MaxPages, MakeFrame(b, f, n)
      PROVE  FrameInv'
  <2>1. Waiting' = Waiting
    BY <1>1 DEF MakeFrame, Waiting, TypeOK
  <2>2. MakerInv'
    BY <1>1 DEF MakeFrame, frameVars, FrameInv, MakerInv, PagesOf, TypeOK
  <2> QED
    BY <1>1, <2>1, <2>2, SameCounts DEF MakeFrame, frameVars, FrameInv
<1>2. ASSUME NEW b \in Boards, NoTable(b) PROVE FrameInv'
  <2>1. Waiting' = Waiting
    BY <1>2 DEF NoTable, Waiting, TypeOK
  <2>2. MakerInv'
    BY <1>2 DEF NoTable, frameVars, FrameInv, MakerInv, PagesOf, TypeOK
  <2> QED
    BY <1>2, <2>1, <2>2, SameCounts DEF NoTable, frameVars, FrameInv
<1>3. ASSUME NEW b \in Boards, GotTable(b) PROVE FrameInv'
  <2> DEFINE f == arg[b].frame
  <2>1. /\ Waiting' = Waiting
        /\ pc' = [pc EXCEPT ![b] = "virt"]
        /\ table' = [table EXCEPT ![b][f] = "raw"] /\ table[b][f] = "null"
        /\ UNCHANGED <<count, held, inUse, bogus, arg>>
    BY <1>3 DEF GotTable, Waiting, TypeOK, FrameInv, MakerInv
  <2>2. f \in FrameIds
    BY <1>0
  <2>3. MakerInv'
    <3> SUFFICES ASSUME NEW c \in Boards PROVE MakerInv!(c)'
      BY DEF MakerInv
    <3>1. CASE c = b
      BY <2>1, <2>2, <3>1 DEF TypeOK
    <3>2. CASE c # b
      BY <2>1, <3>2 DEF TypeOK, FrameInv, MakerInv, PagesOf
    <3> QED
      BY <3>1, <3>2
  <2> HIDE DEF f
  <2>4. NoPageLost'
    BY <2>1, <2>2 DEF NoPageLost, FrameInv, TypeOK
  <2> QED
    BY <2>1, <2>3, <2>4 DEF FrameInv, CountBounds, BudgetInv
<1>4. ASSUME NEW b \in Boards, GotVirt(b) PROVE FrameInv'
  <2>1. pc[b] = "virt" /\ NextPage(b, 0, held, inUse)
    BY <1>4 DEF GotVirt
  <2>2. \A h \in held : ~(h[1] = b /\ h[2] = arg[b].frame)
    BY <2>1 DEF FrameInv, NoPageLost, MakerInv, PagesOf
  <2>3. Waiting \ {b} = Waiting
    BY <2>1 DEF Waiting
  <2>4. /\ inUse <= Cardinality(held) /\ Cardinality(held) <= inUse + bogus
        /\ inUse + Cardinality(Waiting \ {b}) <= Limit + Cardinality(Boards) - 1
    BY <2>3 DEF FrameInv, CountBounds, BudgetInv
  <2>5. 0 \in Nat /\ 0 <= arg[b].pages
    BY <1>0
  <2> QED
    BY <1>0, <2>1, <2>2, <2>4, <2>5, NextPageInv
<1>5. ASSUME NEW b \in Boards, GotPage(b) PROVE FrameInv'
  <2> DEFINE new == <<b, arg[b].frame, arg[b].idx>>
             got == held \cup {new}
  <2>1. pc[b] = "page" /\ NextPage(b, arg[b].idx + 1, got, inUse + 1)
    BY <1>5 DEF GotPage
  <2>2. /\ arg[b].idx < arg[b].pages
        /\ \A h \in held : h[1] = b /\ h[2] = arg[b].frame => h[3] < arg[b].idx
    BY <2>1 DEF FrameInv, MakerInv, PagesOf
  <2>3. new \notin held
    BY <1>0, <2>2
  <2> HIDE DEF new
  <2>4. IsFiniteSet(got) /\ Cardinality(got) = Cardinality(held) + 1
    BY <1>0, <2>3, FS_AddElement
  <2>5. Cardinality(Waiting \ {b}) = Cardinality(Waiting) - 1 /\ Cardinality(Waiting) \in Nat
    BY <2>1, WaitingFinite, FS_RemoveElement DEF Waiting
  <2>6. /\ inUse + 1 <= Cardinality(got) /\ Cardinality(got) <= inUse + 1 + bogus
        /\ inUse + 1 + Cardinality(Waiting \ {b}) <= Limit + Cardinality(Boards) - 1
    <3>1. Limit \in Nat /\ Cardinality(Boards) \in Nat
      BY WaitingFinite, FrameAssumption
    <3> QED
      BY <1>0, <2>4, <2>5, <3>1 DEF FrameInv, CountBounds, BudgetInv
  <2>7. \A h \in got : h[1] = b /\ h[2] = arg[b].frame => h[3] \in Nat /\ h[3] < arg[b].idx + 1
    <3>1. new[3] = arg[b].idx
      BY DEF new
    <3>2. \A h \in held : h[3] \in Nat
      BY DEF TypeOK
    <3> QED
      BY <1>0, <2>2, <3>1, <3>2
  <2>8. \A h \in got \ held : h[1] = b /\ h[2] = arg[b].frame
    BY DEF new
  <2>9. arg[b].idx + 1 \in Nat /\ arg[b].idx + 1 <= arg[b].pages /\ inUse + 1 \in Nat
    BY <1>0, <2>2
  <2>10. held \subseteq got
    OBVIOUS
  <2> HIDE DEF got
  <2> QED
    BY <2>1, <2>4, <2>6, <2>7, <2>8, <2>9, <2>10, NextPageInv
<1>6. ASSUME NEW b \in Boards, NoPage(b) PROVE FrameInv'
  <2>1. PICK stale \in {0, 1} : pc[b] = "page" /\ RollBack(b, held, inUse, stale)
    BY <1>6 DEF NoPage
  <2>2. Cardinality(Waiting \ {b}) = Cardinality(Waiting) - 1 /\ Cardinality(Waiting) \in Nat
    BY <2>1, WaitingFinite, FS_RemoveElement DEF Waiting
  <2>3. /\ inUse <= Cardinality(held) /\ Cardinality(held) <= inUse + bogus
        /\ inUse + Cardinality(Waiting \ {b}) <= Limit + Cardinality(Boards) - 1
    <3>1. Limit \in Nat /\ Cardinality(Boards) \in Nat
      BY WaitingFinite, FrameAssumption
    <3> QED
      BY <1>0, <2>2, <3>1 DEF FrameInv, CountBounds, BudgetInv
  <2>4. stale \in Nat
    OBVIOUS
  <2> QED
    BY <1>0, <2>1, <2>3, <2>4, RollBackInv
<1>7. ASSUME NEW b \in Boards, NEW fs \in SUBSET FrameIds, Free(b, fs) PROVE FrameInv'
  <2> DEFINE gone == {f \in fs : table[b][f] = "set" /\ ref[b][f] = 0}
             back == {h \in held : h[1] = b /\ h[2] \in gone}
  <2>1. /\ pc[b] = "idle" /\ held' = held \ back
        /\ inUse' = Less(inUse, Cardinality(back))
        /\ table' = [table EXCEPT ![b] = [f \in FrameIds |-> IF f \in gone THEN "null" ELSE @[f]]]
        /\ count' = [count EXCEPT ![b] = [f \in FrameIds |-> IF f \in gone THEN 0 ELSE @[f]]]
        /\ bogus' = bogus /\ pc' = pc /\ arg' = arg
    BY <1>7 DEF Free
  <2>2. back \in SUBSET held
    OBVIOUS
  <2>3. \A h \in held' : h \in held /\ ~(h[1] = b /\ h[2] \in gone)
    BY <2>1
  <2>4. Cardinality(back) \in Nat /\ Cardinality(back) + 0 = Cardinality(back)
    BY <1>0, <2>2, FS_Subset, FS_CardinalityType
  <2>5. /\ table'[b] = [f \in FrameIds |-> IF f \in gone THEN "null" ELSE table[b][f]]
        /\ count'[b] = [f \in FrameIds |-> IF f \in gone THEN 0 ELSE count[b][f]]
        /\ \A c \in Boards : c # b => table'[c] = table[c] /\ count'[c] = count[c]
    BY <2>1 DEF TypeOK
  <2> HIDE DEF gone, back
  <2>6. NoPageLost'
    BY <2>3, <2>5 DEF NoPageLost, FrameInv, TypeOK
  <2>7. inUse <= Cardinality(held) /\ Cardinality(held) <= inUse + bogus /\ 0 \in Nat
    BY DEF FrameInv, CountBounds
  <2>8. /\ Less(inUse, Cardinality(back) + 0) <= Cardinality(held \ back)
        /\ Cardinality(held \ back) <= Less(inUse, Cardinality(back) + 0) + bogus + 0
    BY <1>0, <2>2, <2>7, TakeBack
  <2>9. CountBounds'
    <3>1. inUse' = Less(inUse, Cardinality(back) + 0)
      BY <2>1, <2>4
    <3>2. inUse' \in Nat /\ Cardinality(held \ back) \in Nat
      BY <1>0, <2>1, <2>4, LessType, FS_Difference, FS_CardinalityType
    <3> QED
      BY <1>0, <2>1, <2>8, <3>1, <3>2 DEF CountBounds
  <2>10. BudgetInv'
    <3>1. Waiting' = Waiting
      BY <2>1 DEF Waiting
    <3>2. inUse' \in Nat /\ inUse' <= inUse
      BY <1>0, <2>1, <2>4, LessType
    <3>3. Limit \in Nat /\ Cardinality(Boards) \in Nat /\ Cardinality(Waiting) \in Nat
      BY WaitingFinite, FrameAssumption
    <3> QED
      BY <1>0, <3>1, <3>2, <3>3 DEF FrameInv, BudgetInv
  <2>11. MakerInv'
    BY <2>1, <2>3, <2>5 DEF FrameInv, MakerInv, PagesOf
  <2> QED
    BY <2>6, <2>9, <2>10, <2>11 DEF FrameInv
<1>8. ASSUME NEW b \in Boards, NEW f \in FrameIds, MapMissing(b, f) PROVE FrameInv'
  <2>1. Waiting' = Waiting
    BY <1>8 DEF MapMissing, Waiting, TypeOK
  <2>2. MakerInv'
    BY <1>8 DEF MapMissing, frameVars, FrameInv, MakerInv, PagesOf, TypeOK
  <2> QED
    BY <1>8, <2>1, <2>2, SameCounts DEF MapMissing, frameVars, FrameInv
<1>9. ASSUME UNCHANGED <<frameVars, pc, arg>> PROVE FrameInv'
  <2>1. Waiting' = Waiting
    BY <1>9 DEF Waiting
  <2>2. MakerInv'
    BY <1>9 DEF frameVars, FrameInv, MakerInv, PagesOf
  <2> QED
    BY <1>9, <2>1, <2>2, SameCounts DEF frameVars, FrameInv
<1>10. ASSUME UNCHANGED vars PROVE FrameInv'
  BY <1>9, <1>10 DEF vars, frameVars
<1>11. ASSUME NEW v \in Vmas, NEW w \in Vmas, VmOpen(v, w) \/ VmClose(v) PROVE FrameInv'
  BY <1>9, <1>11 DEF VmOpen, VmClose
<1>12. ASSUME NEW b \in Boards, NEW f \in FrameIds, NEW v \in Vmas, NEW first \in 0..MaxPages,
              NEW n \in 1..MaxPages, NEW file \in {"channel", "control"},
              Map(b, v, f, first, n, file)
       PROVE  FrameInv'
  BY <1>9, <1>12 DEF Map
<1> QED
  BY <1>1, <1>2, <1>3, <1>4, <1>5, <1>6, <1>7, <1>8, <1>10, <1>11, <1>12
     DEF Next, Call, Continue, FreeFrame, FreeAllFrames

\* What holds at the start.
LEMMA InitFrameInv == Init => FrameInv
<1> SUFFICES ASSUME Init PROVE FrameInv
  OBVIOUS
<1>1. Cardinality(held) = 0 /\ held = {}
  BY FS_EmptySet DEF Init
<1>2. Waiting = {}
  BY DEF Init, Waiting
<1>3. Cardinality(Waiting) = 0 /\ Limit \in Nat \ {0} /\ Cardinality(Boards) \in Nat
  BY <1>2, FS_EmptySet, WaitingFinite, FrameAssumption
<1>4. MakerInv /\ NoPageLost
  BY <1>1 DEF Init, MakerInv, NoPageLost
<1>5. inUse = 0 /\ bogus = 0
  BY DEF Init
<1>6. CountBounds /\ BudgetInv
  BY <1>1, <1>3, <1>5 DEF CountBounds, BudgetInv
<1> QED
  BY <1>4, <1>6 DEF FrameInv

(* FrameInv is an invariant.                                                *)
THEOREM PagesCounted == Spec => []FrameInv
<1>1. Init => TypeOK /\ Finite /\ FrameInv
  BY InitType, InitFrameInv, FS_EmptySet DEF Init, Finite
<1>2. TypeOK /\ Finite /\ FrameInv /\ [Next]_vars => (TypeOK /\ Finite /\ FrameInv)'
  BY StepType, StepFrameInv
<1> QED
  BY <1>1, <1>2, PTL DEF Spec

\* The counter tells the pages that are held, up to bogus frees.
THEOREM CounterExact == Spec => []CountBounds
<1>1. FrameInv => CountBounds
  BY DEF FrameInv
<1> QED
  BY <1>1, PagesCounted, PTL

\* The limit for all boards is overrun by at most a page for each board but
\* one, and a page for each bogus free.
THEOREM LimitHolds == Spec => []LimitKept
<1>1. TypeOK /\ Finite /\ FrameInv => LimitKept
  <2> SUFFICES ASSUME TypeOK, Finite, FrameInv PROVE LimitKept
    OBVIOUS
  <2>1. /\ Cardinality(held) \in Nat /\ inUse \in Nat /\ bogus \in Nat /\ Limit \in Nat
        /\ Cardinality(Boards) \in Nat /\ Cardinality(Waiting) \in Nat
    BY WaitingFinite, FS_CardinalityType, FrameAssumption DEF TypeOK, Finite
  <2> QED
    BY <2>1 DEF FrameInv, CountBounds, BudgetInv, LimitKept
<1> QED
  BY <1>1, TypeCorrect, PagesCounted, PTL

\* A failed allocation loses no page.
THEOREM PagesKept == Spec => []NoPageLost
<1>1. FrameInv => NoPageLost
  BY DEF FrameInv
<1> QED
  BY <1>1, PagesCounted, PTL

-----------------------------------------------------------------------------
(***************************************************************************)
(* Why a page fault finds its page (linux.c: xxmmap, xxvmopen, xxvmclose   *)
(* and the -EBUSY of ucr_free_frame), for any number of boards, frames and *)
(* mappings, when nobody maps a frame that another process is making: the  *)
(* count of mappings of a frame covers those there are, so a frame that is *)
(* mapped stays, with all its pages.                                       *)
(***************************************************************************)

\* The mappings of a frame can be counted.
LEMMA MapsCounted ==
  ASSUME NEW m, NEW b, NEW f, NEW file
  PROVE  /\ IsFiniteSet(MapsOn(m, b, f, file))
         /\ Cardinality(MapsOn(m, b, f, file)) \in Nat
<1>1. MapsOn(m, b, f, file) \in SUBSET Vmas
  BY DEF MapsOn
<1>. QED
  BY <1>1, FS_Subset, FS_CardinalityType, FrameAssumption

\* One more mapping is at most one more to count.
LEMMA OneMore ==
  ASSUME NEW S, NEW x, IsFiniteSet(S)
  PROVE  Cardinality(S \cup {x}) \in Nat /\ Cardinality(S \cup {x}) <= Cardinality(S) + 1
<1>1. Cardinality(S) \in Nat
  BY FS_CardinalityType
<1>2. Cardinality(S \cup {x}) = IF x \in S THEN Cardinality(S) ELSE Cardinality(S) + 1
  BY FS_AddElement
<1>. QED
  BY <1>1, <1>2

\* A new mapping belongs to one frame and one file.
LEMMA Added ==
  ASSUME TypeOK, NEW v \in Vmas, NEW m \in Mapping, vma[v] = None, vma' = [vma EXCEPT ![v] = m]
  PROVE  /\ MapsOn(vma', m.board, m.frame, m.file)
              = MapsOn(vma, m.board, m.frame, m.file) \cup {v}
         /\ \A b, f, file : <<b, f, file>> # <<m.board, m.frame, m.file>> =>
              MapsOn(vma', b, f, file) = MapsOn(vma, b, f, file)
<1>1. m # None
  BY FrameAssumption
<1>. QED
  BY <1>1 DEF MapsOn, TypeOK

\* A mapping that goes is missing where it was.
LEMMA Dropped ==
  ASSUME TypeOK, NEW v \in Vmas, vma' = [vma EXCEPT ![v] = None]
  PROVE  \A b, f, file : MapsOn(vma', b, f, file) = MapsOn(vma, b, f, file) \ {v}
BY DEF MapsOn, TypeOK

\* mmap counts the mapping it makes, whatever file it is made on.
LEMMA MapCounts ==
  ASSUME TypeOK, RefInv, NEW b \in Boards, NEW v \in Vmas, NEW f \in FrameIds,
         NEW first \in Nat, NEW n \in Nat \ {0}, NEW file \in {"channel", "control"},
         Map(b, v, f, first, n, file)
  PROVE  RefInv'
<1>1. PICK m \in Mapping : m = [board |-> b, frame |-> f, first |-> first, pages |-> n,
                                file |-> file]
  BY DEF Mapping
<1>2. DOMAIN vma = Vmas /\ vma[v] = None /\ vma' = [vma EXCEPT ![v] = m]
  BY <1>1 DEF Map, TypeOK
<1>3. ref' = [ref EXCEPT ![b][f] = @ + 1]
  BY DEF Map
<1>. SUFFICES ASSUME NEW bb \in Boards, NEW ff \in FrameIds
              PROVE  /\ Cardinality(MapsOn(vma', bb, ff, "channel")) <= ref'[bb][ff]
                     /\ MapsOn(vma', bb, ff, "control") # {} =>
                          Cardinality(MapsOn(vma', bb, ff, "channel")) < ref'[bb][ff]
  BY DEF RefInv
<1>4. PICK C, K : C = MapsOn(vma, bb, ff, "channel") /\ K = MapsOn(vma, bb, ff, "control")
  OBVIOUS
<1>5. /\ IsFiniteSet(C) /\ Cardinality(C) \in Nat /\ ref[bb][ff] \in Int
      /\ Cardinality(C) <= ref[bb][ff] /\ (K # {} => Cardinality(C) < ref[bb][ff])
  BY <1>4, MapsCounted DEF TypeOK, RefInv
<1>6. Cardinality(C \cup {v}) \in Nat /\ Cardinality(C \cup {v}) <= Cardinality(C) + 1
  BY <1>5, OneMore
<1>7. /\ MapsOn(vma', b, f, file) = MapsOn(vma, b, f, file) \cup {v}
      /\ \A where : <<bb, ff, where>> # <<b, f, file>> =>
           MapsOn(vma', bb, ff, where) = MapsOn(vma, bb, ff, where)
  <2>1. m.board = b /\ m.frame = f /\ m.file = file
    BY <1>1
  <2>2. /\ MapsOn(vma', m.board, m.frame, m.file)
             = MapsOn(vma, m.board, m.frame, m.file) \cup {v}
        /\ \A b2, f2, file2 : <<b2, f2, file2>> # <<m.board, m.frame, m.file>> =>
             MapsOn(vma', b2, f2, file2) = MapsOn(vma, b2, f2, file2)
    BY <1>2, Added
  <2>. QED BY <2>1, <2>2
<1>9. CASE bb = b /\ ff = f
  <2>1. ref'[bb][ff] = ref[bb][ff] + 1
    BY <1>3, <1>9 DEF TypeOK
  <2>2. CASE file = "channel"
    <3>1. MapsOn(vma', bb, ff, "channel") = C \cup {v} /\ MapsOn(vma', bb, ff, "control") = K
      BY <1>4, <1>7, <1>9, <2>2
    <3>2. Cardinality(MapsOn(vma', bb, ff, "channel")) = Cardinality(C \cup {v})
      BY <3>1
    <3>3. Cardinality(C \cup {v}) <= ref[bb][ff] + 1
      BY <1>5, <1>6
    <3>4. K # {} => Cardinality(C \cup {v}) < ref[bb][ff] + 1
      BY <1>5, <1>6
    <3>. QED BY <2>1, <3>1, <3>2, <3>3, <3>4
  <2>3. CASE file = "control"
    <3>1. MapsOn(vma', bb, ff, "channel") = C
      BY <1>4, <1>7, <1>9, <2>3
    <3>. QED BY <1>5, <2>1, <3>1
  <2>. QED BY <2>2, <2>3
<1>10. CASE ~(bb = b /\ ff = f)
  <2>1. ref'[bb][ff] = ref[bb][ff]
    BY <1>3, <1>10 DEF TypeOK
  <2>2. MapsOn(vma', bb, ff, "channel") = C /\ MapsOn(vma', bb, ff, "control") = K
    BY <1>4, <1>7, <1>10
  <2>. QED BY <1>5, <2>1, <2>2
<1>. QED
  BY <1>9, <1>10

\* A fork counts the copy it makes of a mapping of the channel device; one of
\* the control device was counted when it was made.
LEMMA OpenCounts ==
  ASSUME TypeOK, RefInv, NEW v \in Vmas, NEW w \in Vmas, VmOpen(v, w)
  PROVE  RefInv'
<1>1. PICK m \in Mapping : m = vma[v]
  BY DEF VmOpen, TypeOK
<1>2. vma[w] = None /\ vma' = [vma EXCEPT ![w] = m] /\ v \in MapsOn(vma, m.board, m.frame, m.file)
  BY <1>1 DEF VmOpen, MapsOn
<1>3. m.board \in Boards /\ m.frame \in FrameIds /\ m.file \in {"channel", "control"}
  BY DEF Mapping
<1>4. ref' = IF m.file = "channel" THEN [ref EXCEPT ![m.board][m.frame] = ref[m.board][m.frame] + 1]
                                   ELSE ref
  BY <1>1 DEF VmOpen, Counted, Refs
<1>. SUFFICES ASSUME NEW bb \in Boards, NEW ff \in FrameIds
              PROVE  /\ Cardinality(MapsOn(vma', bb, ff, "channel")) <= ref'[bb][ff]
                     /\ MapsOn(vma', bb, ff, "control") # {} =>
                          Cardinality(MapsOn(vma', bb, ff, "channel")) < ref'[bb][ff]
  BY DEF RefInv
<1>5. PICK C, K : C = MapsOn(vma, bb, ff, "channel") /\ K = MapsOn(vma, bb, ff, "control")
  OBVIOUS
<1>6. /\ IsFiniteSet(C) /\ Cardinality(C) \in Nat /\ ref[bb][ff] \in Int
      /\ Cardinality(C) <= ref[bb][ff] /\ (K # {} => Cardinality(C) < ref[bb][ff])
  BY <1>5, MapsCounted DEF TypeOK, RefInv
<1>7. Cardinality(C \cup {w}) \in Nat /\ Cardinality(C \cup {w}) <= Cardinality(C) + 1
  BY <1>6, OneMore
<1>8. /\ MapsOn(vma', m.board, m.frame, m.file) = MapsOn(vma, m.board, m.frame, m.file) \cup {w}
      /\ \A b, f, file : <<b, f, file>> # <<m.board, m.frame, m.file>> =>
           MapsOn(vma', b, f, file) = MapsOn(vma, b, f, file)
  BY <1>2, Added
<1>9. CASE m.board = bb /\ m.frame = ff /\ m.file = "channel"
  <2>1. ref'[bb][ff] = ref[bb][ff] + 1
    BY <1>3, <1>4, <1>9 DEF TypeOK
  <2>2. MapsOn(vma', bb, ff, "channel") = C \cup {w}
    BY <1>5, <1>8, <1>9
  <2>3. MapsOn(vma', bb, ff, "control") = K
    BY <1>5, <1>8, <1>9
  <2>4. Cardinality(C \cup {w}) <= ref[bb][ff] + 1
        /\ (K # {} => Cardinality(C \cup {w}) < ref[bb][ff] + 1)
    BY <1>6, <1>7
  <2>. QED BY <2>1, <2>2, <2>3, <2>4
<1>10. CASE m.board = bb /\ m.frame = ff /\ m.file = "control"
  <2>1. ref'[bb][ff] = ref[bb][ff]
    BY <1>4, <1>10
  <2>2. MapsOn(vma', bb, ff, "channel") = C
    BY <1>5, <1>8, <1>10
  <2>3. K # {}
    BY <1>2, <1>5, <1>10
  <2>. QED BY <1>6, <2>1, <2>2, <2>3
<1>11. CASE ~(m.board = bb /\ m.frame = ff)
  <2>1. ref'[bb][ff] = ref[bb][ff]
    BY <1>3, <1>4, <1>11 DEF TypeOK
  <2>2. MapsOn(vma', bb, ff, "channel") = C
    BY <1>5, <1>8, <1>11
  <2>3. MapsOn(vma', bb, ff, "control") = K
    BY <1>5, <1>8, <1>11
  <2>. QED BY <1>6, <2>1, <2>2, <2>3
<1>. QED
  BY <1>3, <1>9, <1>10, <1>11

\* munmap takes back what was counted for its own mapping and no more.
LEMMA CloseCounts ==
  ASSUME TypeOK, RefInv, NEW v \in Vmas, VmClose(v)
  PROVE  RefInv'
<1>1. PICK m \in Mapping : m = vma[v]
  BY DEF VmClose, TypeOK
<1>2. vma' = [vma EXCEPT ![v] = None] /\ v \in MapsOn(vma, m.board, m.frame, m.file)
  BY <1>1 DEF VmClose, MapsOn
<1>3. m.board \in Boards /\ m.frame \in FrameIds /\ m.file \in {"channel", "control"}
  BY DEF Mapping
<1>4. ref' = IF m.file = "channel" THEN [ref EXCEPT ![m.board][m.frame] = ref[m.board][m.frame] - 1]
                                   ELSE ref
  BY <1>1 DEF VmClose, Counted, Refs
<1>. SUFFICES ASSUME NEW bb \in Boards, NEW ff \in FrameIds
              PROVE  /\ Cardinality(MapsOn(vma', bb, ff, "channel")) <= ref'[bb][ff]
                     /\ MapsOn(vma', bb, ff, "control") # {} =>
                          Cardinality(MapsOn(vma', bb, ff, "channel")) < ref'[bb][ff]
  BY DEF RefInv
<1>5. PICK C, K : C = MapsOn(vma, bb, ff, "channel") /\ K = MapsOn(vma, bb, ff, "control")
  OBVIOUS
<1>6. /\ IsFiniteSet(C) /\ Cardinality(C) \in Nat /\ ref[bb][ff] \in Int
      /\ Cardinality(C) <= ref[bb][ff] /\ (K # {} => Cardinality(C) < ref[bb][ff])
  BY <1>5, MapsCounted DEF TypeOK, RefInv
<1>7. MapsOn(vma', bb, ff, "channel") = C \ {v} /\ MapsOn(vma', bb, ff, "control") = K \ {v}
  <2>1. \A b, f, file : MapsOn(vma', b, f, file) = MapsOn(vma, b, f, file) \ {v}
    BY <1>2, Dropped
  <2>. QED BY <1>5, <2>1
<1>8. /\ Cardinality(C \ {v}) = IF v \in C THEN Cardinality(C) - 1 ELSE Cardinality(C)
      /\ K \ {v} # {} => K # {}
  BY <1>6, FS_RemoveElement
<1>9. CASE m.board = bb /\ m.frame = ff /\ m.file = "channel"
  <2>1. ref'[bb][ff] = ref[bb][ff] - 1
    BY <1>3, <1>4, <1>9 DEF TypeOK
  <2>2. v \in C
    BY <1>2, <1>5, <1>9
  <2>3. Cardinality(C \ {v}) <= ref[bb][ff] - 1 /\ (K # {} => Cardinality(C \ {v}) < ref[bb][ff] - 1)
    BY <1>6, <1>8, <2>2
  <2>. QED BY <1>7, <1>8, <2>1, <2>3
<1>10. CASE ~(m.board = bb /\ m.frame = ff /\ m.file = "channel")
  <2>1. ref'[bb][ff] = ref[bb][ff]
    BY <1>3, <1>4, <1>10 DEF TypeOK
  <2>2. Cardinality(C \ {v}) <= Cardinality(C) /\ Cardinality(C \ {v}) \in Int
    BY <1>6, <1>8
  <2>3. Cardinality(C \ {v}) <= ref[bb][ff] /\ (K # {} => Cardinality(C \ {v}) < ref[bb][ff])
    BY <1>6, <2>2
  <2>. QED BY <1>7, <1>8, <2>1, <2>3
<1>. QED
  BY <1>9, <1>10

-----------------------------------------------------------------------------
(* Pages of frames and the mappings of them                                 *)

\* A frame with no mapping counted has none.
LEMMA Unreferenced ==
  ASSUME TypeOK, RefInv, NEW v \in Vmas, vma[v] # None
  PROVE  Refs(v) # 0
<1>1. PICK m \in Mapping : m = vma[v]
  BY DEF TypeOK
<1>2. m.board \in Boards /\ m.frame \in FrameIds /\ m.file \in {"channel", "control"}
  BY DEF Mapping
<1>3. PICK C, K : /\ C = MapsOn(vma, m.board, m.frame, "channel")
                  /\ K = MapsOn(vma, m.board, m.frame, "control")
  OBVIOUS
<1>4. v \in C \/ v \in K
  BY <1>1, <1>2, <1>3 DEF MapsOn
<1>5. /\ IsFiniteSet(C) /\ Cardinality(C) \in Nat /\ ref[m.board][m.frame] \in Int
      /\ Cardinality(C) <= ref[m.board][m.frame]
      /\ K # {} => Cardinality(C) < ref[m.board][m.frame]
  BY <1>2, <1>3, MapsCounted DEF TypeOK, RefInv
<1>6. C # {} => Cardinality(C) # 0
  BY <1>5, FS_EmptySet
<1>7. ref[m.board][m.frame] # 0
  BY <1>4, <1>5, <1>6
<1>. QED
  BY <1>1, <1>7 DEF Refs

\* A frame's part of WholeInv.
Whole(b, f) ==
  /\ table[b][f] = "raw" => pc[b] = "virt" /\ arg[b].frame = f
  /\ table[b][f] = "set" /\ ~BeingMade(b, f) =>
       \A i \in 0..(count[b][f] - 1) : <<b, f, i>> \in held
  /\ pc[b] = "page" /\ arg[b].frame = f =>
       \A i \in 0..(arg[b].idx - 1) : <<b, f, i>> \in held

\* A step of a board's caller that works on one frame, which nobody maps but
\* too early, leaves the others alone.
LEMMA OneFrame ==
  ASSUME WholeInv, SegmentInv, NEW b \in Boards, NEW f \in FrameIds, vma' = vma,
         early' = early, TypeOK,
         \A v \in Vmas : OfWhole(v) => <<vma[v].board, vma[v].frame>> # <<b, f>>,
         \A c \in Boards, g \in FrameIds : <<c, g>> # <<b, f>> =>
           /\ table'[c][g] = table[c][g] /\ count'[c][g] = count[c][g]
           /\ \A i \in Nat : <<c, g, i>> \in held => <<c, g, i>> \in held',
         \A c \in Boards \ {b} : pc'[c] = pc[c] /\ arg'[c] = arg[c],
         pc[b] \in Sleeping => arg[b].frame = f,
         pc'[b] \in Sleeping => arg'[b].frame = f,
         Whole(b, f)'
  PROVE  WholeInv' /\ SegmentInv'
<1>1. ASSUME NEW c \in Boards, NEW g \in FrameIds, <<c, g>> # <<b, f>>
      PROVE  BeingMade(c, g)' <=> BeingMade(c, g)
  <2>1. CASE c = b
    BY <1>1, <2>1 DEF BeingMade
  <2>2. CASE c # b
    BY <2>2 DEF BeingMade
  <2>. QED BY <2>1, <2>2
<1>2. ASSUME NEW c \in Boards, NEW g \in FrameIds, <<c, g>> # <<b, f>>
      PROVE  Whole(c, g)'
  <2>1. Whole(c, g)
    BY DEF WholeInv, Whole
  <2>2. CASE c = b
    <3>1. g # f /\ ~BeingMade(b, g) /\ table[b][g] # "raw"
      BY <1>2, <2>1, <2>2 DEF BeingMade, Whole, Sleeping
    <3>2. table'[b][g] # "raw" /\ ~(pc'[b] = "page" /\ arg'[b].frame = g)
      BY <1>2, <2>2, <3>1 DEF Sleeping
    <3>3. table'[b][g] = "set" => \A i \in 0..(count'[b][g] - 1) : <<b, g, i>> \in held'
      BY <1>2, <2>1, <2>2, <3>1 DEF Whole
    <3>. QED BY <2>2, <3>2, <3>3 DEF Whole
  <2>3. CASE c # b
    <3>1. arg[c].idx \in Nat /\ count[c][g] \in Nat
      BY DEF TypeOK
    <3>2. pc'[c] = pc[c] /\ arg'[c] = arg[c] /\ (BeingMade(c, g)' <=> BeingMade(c, g))
      BY <1>1, <1>2, <2>3
    <3>. QED BY <1>2, <2>1, <3>1, <3>2 DEF Whole
  <2>. QED BY <2>2, <2>3
<1>3. WholeInv'
  BY <1>2 DEF WholeInv, Whole
<1>4. SegmentInv'
  <2>. SUFFICES ASSUME NEW v \in Vmas, OfWhole(v)
                PROVE  /\ table'[vma[v].board][vma[v].frame] = "set"
                       /\ ~BeingMade(vma[v].board, vma[v].frame)'
                       /\ vma[v].first + vma[v].pages <= count'[vma[v].board][vma[v].frame]
    BY DEF SegmentInv, OfWhole
  <2>1. PICK c \in Boards, g \in FrameIds : c = vma[v].board /\ g = vma[v].frame
    BY DEF TypeOK, Mapping, OfWhole
  <2>2. /\ table[c][g] = "set" /\ ~BeingMade(c, g) /\ <<c, g>> # <<b, f>>
        /\ vma[v].first + vma[v].pages <= count[c][g]
    BY <2>1 DEF SegmentInv
  <2>3. ~BeingMade(c, g)'
    BY <1>1, <2>2
  <2>. QED BY <2>1, <2>2, <2>3
<1>. QED
  BY <1>3, <1>4

\* Nobody maps a frame that is not there or not finished.
LEMMA NotMapped ==
  ASSUME SegmentInv, NEW b, NEW f, table[b][f] # "set" \/ BeingMade(b, f)
  PROVE  \A v \in Vmas : OfWhole(v) => <<vma[v].board, vma[v].frame>> # <<b, f>>
BY DEF SegmentInv

\* A step that leaves mappings and their counts alone.
LEMMA SameMaps ==
  ASSUME RefInv, vma' = vma, ref' = ref
  PROVE  RefInv'
<1>1. \A b, f, file : MapsOn(vma', b, f, file) = MapsOn(vma, b, f, file)
  BY DEF MapsOn
<1>. QED
  BY <1>1 DEF RefInv

\* The caller goes to sleep for the table, or wakes up with it or without it.
LEMMA TableWhole ==
  ASSUME TypeOK, FrameInv, MappingInv, NEW b \in Boards,
         NoTable(b) \/ GotTable(b) \/ \E f \in FrameIds, n \in 0..MaxPages : MakeFrame(b, f, n)
  PROVE  MappingInv'
<1>1. RefInv' /\ vma' = vma /\ early' = early
  BY SameMaps DEF NoTable, GotTable, MakeFrame, MappingInv
<1>2. CASE \E f \in FrameIds, n \in 0..MaxPages : MakeFrame(b, f, n)
  <2>1. PICK f \in FrameIds, n \in 0..MaxPages : MakeFrame(b, f, n)
    BY <1>2
  <2>2. /\ pc[b] = "idle" /\ table[b][f] = "null" /\ pc'[b] = "table" /\ arg'[b].frame = f
        /\ table' = table /\ count' = count /\ held' = held
        /\ \A c \in Boards \ {b} : pc'[c] = pc[c] /\ arg'[c] = arg[c]
    BY <2>1 DEF MakeFrame, frameVars, TypeOK
  <2>3. \A v \in Vmas : OfWhole(v) => <<vma[v].board, vma[v].frame>> # <<b, f>>
    BY <2>2, NotMapped DEF MappingInv
  <2>4. Whole(b, f)'
    BY <2>2 DEF Whole
  <2>5. pc[b] \in Sleeping => arg[b].frame = f
    BY <2>2 DEF Sleeping
  <2>6. WholeInv' /\ SegmentInv'
    BY <1>1, <2>2, <2>3, <2>4, <2>5, OneFrame DEF MappingInv
  <2>. QED BY <1>1, <2>6 DEF MappingInv
<1>3. CASE NoTable(b) \/ GotTable(b)
  <2>1. PICK f \in FrameIds : f = arg[b].frame
    BY DEF TypeOK
  <2>2. /\ pc[b] = "table" /\ table[b][f] = "null" /\ arg' = arg
        /\ count' = count /\ held' = held
        /\ \A c \in Boards \ {b} : pc'[c] = pc[c]
        /\ \A c \in Boards, g \in FrameIds : <<c, g>> # <<b, f>> => table'[c][g] = table[c][g]
        /\ \/ pc'[b] = "idle" /\ table'[b][f] = "null"
           \/ pc'[b] = "virt" /\ table'[b][f] = "raw"
    BY <1>3, <2>1 DEF NoTable, GotTable, frameVars, TypeOK, FrameInv, MakerInv
  <2>3. \A v \in Vmas : OfWhole(v) => <<vma[v].board, vma[v].frame>> # <<b, f>>
    BY <2>2, NotMapped DEF MappingInv
  <2>4. Whole(b, f)'
    BY <2>1, <2>2 DEF Whole
  <2>5. WholeInv' /\ SegmentInv'
    BY <1>1, <2>1, <2>2, <2>3, <2>4, OneFrame DEF MappingInv
  <2>. QED BY <1>1, <2>5 DEF MappingInv
<1>. QED
  BY <1>2, <1>3

\* A rollback takes the frame away with all its pages.
LEMMA RollBackWhole ==
  ASSUME TypeOK, MappingInv, NEW b \in Boards, pc[b] \in {"virt", "page"}, vma' = vma, ref' = ref,
         early' = early,
         NEW got, held \subseteq got, NEW used, NEW stale, RollBack(b, got, used, stale)
  PROVE  MappingInv'
<1>1. PICK f \in FrameIds : f = arg[b].frame
  BY DEF TypeOK
<1>2. /\ pc'[b] = "idle" /\ table'[b][f] = "null" /\ arg' = arg
      /\ \A c \in Boards \ {b} : pc'[c] = pc[c]
      /\ \A c \in Boards, g \in FrameIds : <<c, g>> # <<b, f>> =>
           table'[c][g] = table[c][g] /\ count'[c][g] = count[c][g]
  BY <1>1 DEF RollBack, TypeOK
<1>3. ASSUME NEW c \in Boards, NEW g \in FrameIds, <<c, g>> # <<b, f>>, NEW i, <<c, g, i>> \in held
      PROVE  <<c, g, i>> \in held'
  BY <1>1, <1>3 DEF RollBack, Mine
<1>4. \A v \in Vmas : OfWhole(v) => <<vma[v].board, vma[v].frame>> # <<b, f>>
  BY <1>1, NotMapped DEF MappingInv, BeingMade, Sleeping
<1>5. Whole(b, f)'
  BY <1>2 DEF Whole
<1>6. RefInv'
  BY SameMaps DEF MappingInv
<1>7. WholeInv' /\ SegmentInv'
  BY <1>1, <1>2, <1>3, <1>4, <1>5, OneFrame DEF MappingInv, Sleeping
<1>. QED
  BY <1>6, <1>7 DEF MappingInv

\* The head of the page loop finds the pages below its index in the table.
LEMMA NextPageWhole ==
  ASSUME TypeOK, MappingInv, NEW b \in Boards, pc[b] \in {"virt", "page"}, vma' = vma, ref' = ref,
         early' = early,
         NEW got, held \subseteq got, NEW used, NEW k \in Nat,
         \A i \in 0..(k - 1) : <<b, arg[b].frame, i>> \in got,
         NextPage(b, k, got, used)
  PROVE  MappingInv'
<1>1. PICK f \in FrameIds : f = arg[b].frame
  BY DEF TypeOK
<1>2. CASE k < arg[b].pages /\ LimitReached(used)
  BY <1>2, RollBackWhole DEF NextPage
<1>3. CASE ~(k < arg[b].pages /\ LimitReached(used))
  <2>1. /\ held' = got /\ table'[b][f] = "set" /\ count'[b][f] = arg[b].pages
        /\ arg'[b].frame = f /\ arg'[b].idx = k
        /\ pc'[b] = IF k = arg[b].pages THEN "idle" ELSE "page"
        /\ \A c \in Boards \ {b} : pc'[c] = pc[c] /\ arg'[c] = arg[c]
        /\ \A c \in Boards, g \in FrameIds : <<c, g>> # <<b, f>> =>
             table'[c][g] = table[c][g] /\ count'[c][g] = count[c][g]
    BY <1>1, <1>3 DEF NextPage, TypeOK
  <2>2. \A v \in Vmas : OfWhole(v) => <<vma[v].board, vma[v].frame>> # <<b, f>>
    BY <1>1, NotMapped DEF MappingInv, BeingMade, Sleeping
  <2>3. Whole(b, f)'
    <3>1. CASE k = arg[b].pages
      BY <1>1, <2>1, <3>1 DEF Whole
    <3>2. CASE k # arg[b].pages
      <4>1. pc'[b] = "page" /\ BeingMade(b, f)'
        BY <2>1, <3>2 DEF BeingMade, Sleeping
      <4>. QED BY <1>1, <2>1, <4>1 DEF Whole
    <3>. QED BY <3>1, <3>2
  <2>4. WholeInv' /\ SegmentInv'
    BY <1>1, <2>1, <2>2, <2>3, OneFrame DEF MappingInv
  <2>5. RefInv'
    BY SameMaps DEF MappingInv
  <2>. QED BY <2>4, <2>5 DEF MappingInv
<1>. QED
  BY <1>2, <1>3

\* So a sleeping allocation can come back with a page or without.
LEMMA PageWhole ==
  ASSUME TypeOK, FrameInv, MappingInv, NEW b \in Boards, GotVirt(b) \/ GotPage(b) \/ NoPage(b)
  PROVE  MappingInv'
<1>1. /\ vma' = vma /\ ref' = ref /\ early' = early
      /\ arg[b].frame \in FrameIds /\ arg[b].idx \in Nat
  BY DEF GotVirt, GotPage, NoPage, TypeOK
<1>2. CASE GotVirt(b)
  <2>1. pc[b] = "virt" /\ NextPage(b, 0, held, inUse)
    BY <1>2 DEF GotVirt
  <2>2. \A i \in 0..(0 - 1) : <<b, arg[b].frame, i>> \in held
    OBVIOUS
  <2>. QED BY <1>1, <2>1, <2>2, NextPageWhole
<1>3. CASE GotPage(b)
  <2>1. PICK got : got = held \cup {<<b, arg[b].frame, arg[b].idx>>}
    OBVIOUS
  <2>2. pc[b] = "page" /\ NextPage(b, arg[b].idx + 1, got, inUse + 1) /\ held \subseteq got
    BY <1>3, <2>1 DEF GotPage
  <2>3. \A i \in 0..(arg[b].idx - 1) : <<b, arg[b].frame, i>> \in held
    BY <1>1, <2>2 DEF MappingInv, WholeInv
  <2>4. \A i \in 0..((arg[b].idx + 1) - 1) : <<b, arg[b].frame, i>> \in got
    <3>. TAKE i \in 0..((arg[b].idx + 1) - 1)
    <3>1. i = arg[b].idx \/ i \in 0..(arg[b].idx - 1)
      BY <1>1
    <3>. QED BY <2>1, <2>3, <3>1
  <2>5. arg[b].idx + 1 \in Nat
    BY <1>1
  <2>. QED BY <1>1, <2>2, <2>4, <2>5, NextPageWhole
<1>4. CASE NoPage(b)
  <2>1. PICK stale \in {0, 1} : RollBack(b, held, inUse, stale)
    BY <1>4 DEF NoPage
  <2>2. pc[b] = "page"
    BY <1>4 DEF NoPage
  <2>. QED BY <1>1, <2>1, <2>2, RollBackWhole
<1>. QED
  BY <1>2, <1>3, <1>4

\* UCR_FREE_FRAME, and the calls that free all frames, leave a mapped frame
\* and its pages where they are.
LEMMA FreeWhole ==
  ASSUME TypeOK, MappingInv, NEW b \in Boards, NEW fs \in SUBSET FrameIds, Free(b, fs)
  PROVE  MappingInv'
<1>1. PICK gone : gone = {f \in fs : table[b][f] = "set" /\ ref[b][f] = 0}
  OBVIOUS
<1>2. /\ pc[b] = "idle" /\ pc' = pc /\ arg' = arg /\ vma' = vma /\ ref' = ref /\ early' = early
      /\ held' = held \ {h \in held : h[1] = b /\ h[2] \in gone}
      /\ table'[b] = [f \in FrameIds |-> IF f \in gone THEN "null" ELSE table[b][f]]
      /\ count'[b] = [f \in FrameIds |-> IF f \in gone THEN 0 ELSE count[b][f]]
      /\ \A c \in Boards : c # b => table'[c] = table[c] /\ count'[c] = count[c]
  BY <1>1 DEF Free, TypeOK
<1>3. ASSUME NEW c \in Boards, NEW f \in FrameIds, c # b \/ f \notin gone
      PROVE  /\ table'[c][f] = table[c][f] /\ count'[c][f] = count[c][f]
             /\ \A i : <<c, f, i>> \in held => <<c, f, i>> \in held'
  BY <1>2, <1>3
<1>4. \A c, f : BeingMade(c, f)' <=> BeingMade(c, f)
  BY <1>2 DEF BeingMade
<1>5. WholeInv'
  <2>. SUFFICES ASSUME NEW c \in Boards, NEW f \in FrameIds PROVE Whole(c, f)'
    BY DEF WholeInv, Whole
  <2>1. Whole(c, f)
    BY DEF MappingInv, WholeInv, Whole
  <2>2. CASE c # b \/ f \notin gone
    BY <1>2, <1>3, <1>4, <2>1, <2>2 DEF Whole
  <2>3. CASE c = b /\ f \in gone
    <3>1. table'[c][f] = "null" /\ pc'[c] = "idle"
      BY <1>2, <2>3
    <3>. QED BY <3>1 DEF Whole
  <2>. QED BY <2>2, <2>3
<1>6. SegmentInv'
  <2>. SUFFICES ASSUME NEW v \in Vmas, OfWhole(v)
                PROVE  /\ table'[vma[v].board][vma[v].frame] = "set"
                       /\ ~BeingMade(vma[v].board, vma[v].frame)'
                       /\ vma[v].first + vma[v].pages <= count'[vma[v].board][vma[v].frame]
    BY <1>2 DEF MappingInv, SegmentInv, OfWhole
  <2>1. PICK c \in Boards, f \in FrameIds : c = vma[v].board /\ f = vma[v].frame
    BY DEF TypeOK, Mapping, OfWhole
  <2>2. ref[c][f] # 0
    BY <2>1, Unreferenced DEF MappingInv, Refs, OfWhole
  <2>3. c # b \/ f \notin gone
    BY <1>1, <2>2
  <2>4. table[c][f] = "set" /\ ~BeingMade(c, f) /\ vma[v].first + vma[v].pages <= count[c][f]
    BY <2>1 DEF MappingInv, SegmentInv
  <2>5. ~BeingMade(c, f)'
    BY <1>4, <2>4
  <2>. QED BY <1>2, <1>3, <2>1, <2>3, <2>4, <2>5
<1>7. RefInv'
  BY <1>2, SameMaps DEF MappingInv
<1>. QED
  BY <1>5, <1>6, <1>7 DEF MappingInv

\* mmap tests the segment against the size of a frame, which has all its pages
\* unless somebody is making it.
LEMMA MapWhole ==
  ASSUME TypeOK, MappingInv, NEW b \in Boards, NEW v \in Vmas,
         NEW f \in FrameIds, NEW first \in Nat, NEW n \in Nat \ {0},
         NEW file \in {"channel", "control"}, Map(b, v, f, first, n, file)
  PROVE  MappingInv'
<1>1. RefInv'
  BY MapCounts DEF MappingInv
<1>2. table' = table /\ count' = count /\ held' = held /\ pc' = pc /\ arg' = arg
  BY DEF Map, frameVars
<1>3. WholeInv'
  BY <1>2 DEF MappingInv, WholeInv, BeingMade
<1>4. PICK m : m = [board |-> b, frame |-> f, first |-> first, pages |-> n, file |-> file]
  OBVIOUS
<1>5. /\ \A w \in Vmas : vma'[w] = IF w = v THEN m ELSE vma[w]
      /\ early' = IF BeingMade(b, f) THEN early \cup {v} ELSE early
  BY <1>4 DEF Map, TypeOK
<1>6. ~BeingMade(b, f) => table[b][f] = "set" /\ first + n <= count[b][f]
  <2>1. BeingMade(b, f) \/ table[b][f] # "raw"
    BY DEF MappingInv, WholeInv, BeingMade, Sleeping
  <2>. QED BY <2>1 DEF Map, TypeOK
<1>7. m.board = b /\ m.frame = f /\ m.first = first /\ m.pages = n /\ m # None
  BY <1>4, FrameAssumption DEF Mapping
<1>8. SegmentInv'
  <2>. SUFFICES ASSUME NEW w \in Vmas
                PROVE  /\ OfWhole(w)' =>
                            /\ table[vma'[w].board][vma'[w].frame] = "set"
                            /\ ~BeingMade(vma'[w].board, vma'[w].frame)
                            /\ vma'[w].first + vma'[w].pages <= count[vma'[w].board][vma'[w].frame]
                       /\ w \in early' => vma'[w] # None
    BY <1>2 DEF SegmentInv, BeingMade
  <2>1. CASE w = v
    BY <1>5, <1>6, <1>7, <2>1 DEF OfWhole
  <2>2. CASE w # v
    BY <1>5, <2>2 DEF MappingInv, SegmentInv, OfWhole
  <2>. QED BY <2>1, <2>2
<1>. QED
  BY <1>1, <1>3, <1>8 DEF MappingInv

\* A copy lies where the mapping it was made of lies; one that goes leaves the
\* others where they are.
LEMMA VmWhole ==
  ASSUME TypeOK, MappingInv, NEW v \in Vmas, NEW w \in Vmas, VmOpen(v, w) \/ VmClose(v)
  PROVE  MappingInv'
<1>1. RefInv'
  BY OpenCounts, CloseCounts DEF MappingInv
<1>2. table' = table /\ count' = count /\ held' = held /\ pc' = pc /\ arg' = arg
  BY DEF VmOpen, VmClose, frameVars
<1>3. WholeInv'
  BY <1>2 DEF MappingInv, WholeInv, BeingMade
<1>4. \A u \in Vmas : /\ vma'[u] # None /\ u \notin early' =>
                          \E x \in Vmas : vma'[u] = vma[x] /\ vma[x] # None /\ x \notin early
                      /\ u \in early' => vma'[u] # None
  BY DEF VmOpen, VmClose, TypeOK, MappingInv, SegmentInv
<1>5. ASSUME NEW u \in Vmas, vma'[u] # None, u \notin early'
      PROVE  /\ table'[vma'[u].board][vma'[u].frame] = "set"
             /\ ~BeingMade(vma'[u].board, vma'[u].frame)
             /\ vma'[u].first + vma'[u].pages <= count'[vma'[u].board][vma'[u].frame]
  <2>1. PICK x \in Vmas : vma'[u] = vma[x] /\ vma[x] # None /\ x \notin early
    BY <1>4, <1>5
  <2>2. /\ table[vma[x].board][vma[x].frame] = "set" /\ ~BeingMade(vma[x].board, vma[x].frame)
        /\ vma[x].first + vma[x].pages <= count[vma[x].board][vma[x].frame]
    BY <2>1 DEF MappingInv, SegmentInv, OfWhole
  <2>. QED BY <1>2, <2>1, <2>2
<1>6. SegmentInv'
  BY <1>2, <1>4, <1>5 DEF SegmentInv, OfWhole, BeingMade
<1>. QED
  BY <1>1, <1>3, <1>6 DEF MappingInv

\* Whatever is left alone, or killed, stays as it is.
LEMMA OtherWhole ==
  ASSUME TypeOK, MappingInv, UNCHANGED vars \/ \E b \in Boards, f \in FrameIds : MapMissing(b, f)
  PROVE  MappingInv'
<1>1. /\ vma' = vma /\ ref' = ref /\ table' = table /\ count' = count /\ held' = held /\ arg' = arg
      /\ early' = early
  BY DEF vars, MapMissing, frameVars
<1>2. \A b \in Boards : pc'[b] = pc[b] \/ (pc[b] = "idle" /\ pc'[b] = "killed")
  BY DEF vars, MapMissing, TypeOK
<1>3. \A b \in Boards : \A f : BeingMade(b, f)' <=> BeingMade(b, f)
  BY <1>1, <1>2 DEF BeingMade, Sleeping
<1>4. WholeInv'
  BY <1>1, <1>2, <1>3 DEF MappingInv, WholeInv
<1>5. SegmentInv'
  <2>1. \A v \in Vmas : OfWhole(v) => vma[v].board \in Boards
    BY DEF TypeOK, Mapping, OfWhole
  <2>. QED BY <1>1, <1>3, <2>1 DEF MappingInv, SegmentInv, OfWhole
<1>. QED
  BY <1>1, <1>4, <1>5, SameMaps DEF MappingInv

\* At the start there are no mappings and no frames.
LEMMA InitWhole == Init => MappingInv
<1>. SUFFICES ASSUME Init PROVE MappingInv
  OBVIOUS
<1>1. \A b, f, file : MapsOn(vma, b, f, file) = {}
  BY DEF Init, MapsOn
<1>2. \A b \in Boards, f \in FrameIds :
        ref[b][f] = 0 /\ table[b][f] = "null" /\ pc[b] = "idle"
  BY DEF Init
<1>3. RefInv
  BY <1>1, <1>2, FS_EmptySet DEF RefInv
<1>4. WholeInv /\ SegmentInv
  BY <1>2 DEF Init, WholeInv, SegmentInv, OfWhole
<1>. QED
  BY <1>3, <1>4 DEF MappingInv

\* Every step keeps mappings, their counts and the pages in line.
LEMMA StepWhole ==
  ASSUME TypeOK, FrameInv, MappingInv, [Next]_vars
  PROVE  MappingInv'
<1>1. CASE UNCHANGED vars
  BY <1>1, OtherWhole
<1>2. ASSUME NEW b \in Boards, Continue(b) PROVE MappingInv'
  BY <1>2, TableWhole, PageWhole DEF Continue
<1>3. ASSUME NEW b \in Boards, Call(b) PROVE MappingInv'
  <2>1. CASE \E f \in FrameIds, n \in 0..MaxPages : MakeFrame(b, f, n)
    BY <2>1, TableWhole
  <2>2. CASE FreeAllFrames(b) \/ \E f \in FrameIds : FreeFrame(b, f)
    BY <2>2, FreeWhole DEF FreeFrame, FreeAllFrames
  <2>3. CASE \E f \in FrameIds : MapMissing(b, f)
    BY <2>3, OtherWhole
  <2>4. CASE \E f \in FrameIds, v \in Vmas, first \in 0..MaxPages, n \in 1..MaxPages,
               file \in {"channel", "control"} : Map(b, v, f, first, n, file)
    <3>1. PICK f \in FrameIds, v \in Vmas, first \in 0..MaxPages, n \in 1..MaxPages,
               file \in {"channel", "control"} : Map(b, v, f, first, n, file)
      BY <2>4
    <3>2. first \in Nat /\ n \in Nat \ {0}
      BY FrameAssumption
    <3>. QED BY <3>1, <3>2, MapWhole
  <2>. QED BY <1>3, <2>1, <2>2, <2>3, <2>4 DEF Call
<1>4. ASSUME NEW v \in Vmas, NEW w \in Vmas, VmOpen(v, w) \/ VmClose(v) PROVE MappingInv'
  BY <1>4, VmWhole
<1>. QED
  BY <1>1, <1>2, <1>3, <1>4 DEF Next

(* A frame that was whole when it was mapped is there, counted as mapped,    *)
(* with all its pages, until its mappings are gone -- whatever mappings of   *)
(* frames that are being made there are besides, and whatever becomes of     *)
(* those frames.                                                             *)
THEOREM MappingsKept == Spec => []MappingInv
<1>1. Init => MappingInv
  BY InitWhole
<1>2. TypeOK /\ FrameInv /\ MappingInv /\ [Next]_vars => MappingInv'
  BY StepWhole
<1>. QED
  BY <1>1, <1>2, TypeCorrect, PagesCounted, PTL DEF Spec

(* Then a page fault finds its page, in every mapping but those of a frame   *)
(* that was being made.                                                      *)
THEOREM FaultsFindPages == Spec => []MappedPagesHeld
<1>1. TypeOK /\ MappingInv => MappedPagesHeld
  <2>. SUFFICES ASSUME TypeOK, MappingInv, NEW v \in Vmas, OfWhole(v),
                       NEW k \in 0..(vma[v].pages - 1)
                PROVE  <<vma[v].board, vma[v].frame, vma[v].first + k>> \in held
    BY DEF MappedPagesHeld
  <2>1. /\ vma[v].board \in Boards /\ vma[v].frame \in FrameIds
        /\ vma[v].first \in Nat /\ vma[v].pages \in Nat
    BY DEF TypeOK, Mapping, OfWhole
  <2>2. count[vma[v].board][vma[v].frame] \in Nat
    BY <2>1 DEF TypeOK
  <2>3. vma[v].first + k \in 0..(count[vma[v].board][vma[v].frame] - 1)
    BY <2>1, <2>2 DEF MappingInv, SegmentInv
  <2>. QED BY <2>1, <2>3 DEF MappingInv, SegmentInv, WholeInv
<1>. QED
  BY <1>1, TypeCorrect, MappingsKept, PTL

-----------------------------------------------------------------------------
(* FrameMemory implements FrameStore, for any number of boards, frames and *)
(* mappings.                                                               *)

\* The size of a frame, as programs see it.
LEMMA SizeIs ==
  ASSUME NEW b \in Boards, NEW f \in FrameIds
  PROVE  FrameSize[b][f] = IF table[b][f] = "set" /\ ~BeingMade(b, f) THEN count[b][f] ELSE None
BY DEF FrameSize

\* A table that differs from another in one entry is that table updated.
LEMMA OneEntry ==
  ASSUME NEW B, NEW F, NEW s, NEW t, NEW b \in B, NEW f \in F,
         s = [c \in B |-> [g \in F |-> s[c][g]]],
         t = [c \in B |-> [g \in F |-> t[c][g]]],
         \A c \in B, g \in F : <<c, g>> # <<b, f>> => t[c][g] = s[c][g]
  PROVE  t = [s EXCEPT ![b][f] = t[b][f]] /\ (t[b][f] = s[b][f] => t = s)
<1>1. \A c \in B : c # b => t[c] = s[c]
  <2>. TAKE c \in B
  <2>1. s[c] = [g \in F |-> s[c][g]] /\ t[c] = [g \in F |-> t[c][g]]
    OBVIOUS
  <2>. QED BY <2>1
<1>2. t[b] = [s[b] EXCEPT ![f] = t[b][f]]
  <2>1. s[b] = [g \in F |-> s[b][g]] /\ t[b] = [g \in F |-> t[b][g]]
    OBVIOUS
  <2>. QED BY <2>1
<1>3. t = [s EXCEPT ![b] = [s[b] EXCEPT ![f] = t[b][f]]]
  BY <1>1, <1>2
<1>. QED
  BY <1>3

\* The sizes are a table.
LEMMA SizeTable ==
  FrameSize = [c \in Boards |-> [g \in FrameIds |-> FrameSize[c][g]]]
BY DEF FrameSize

\* A step of a board's caller that works on one frame changes the size of no
\* other.
LEMMA OneSize ==
  ASSUME TypeOK, NEW b \in Boards, NEW f \in FrameIds,
         \A c \in Boards, g \in FrameIds : <<c, g>> # <<b, f>> =>
           table'[c][g] = table[c][g] /\ count'[c][g] = count[c][g],
         \A c \in Boards \ {b} : pc'[c] = pc[c] /\ arg'[c] = arg[c],
         pc[b] \in Sleeping => arg[b].frame = f,
         pc'[b] \in Sleeping => arg'[b].frame = f
  PROVE  /\ FrameSize' = [FrameSize EXCEPT ![b][f] = FrameSize'[b][f]]
         /\ FrameSize'[b][f] = FrameSize[b][f] => FrameSize' = FrameSize
<1>1. ASSUME NEW c \in Boards, NEW g \in FrameIds, <<c, g>> # <<b, f>>
      PROVE  FrameSize'[c][g] = FrameSize[c][g]
  <2>1. BeingMade(c, g)' <=> BeingMade(c, g)
    <3>1. CASE c = b
      BY <1>1, <3>1 DEF BeingMade
    <3>2. CASE c # b
      BY <3>2 DEF BeingMade
    <3>. QED BY <3>1, <3>2
  <2>. QED BY <1>1, <2>1 DEF FrameSize
<1>2. FrameSize' = [c \in Boards |-> [g \in FrameIds |-> FrameSize'[c][g]]]
  BY DEF FrameSize
<1>. QED
  BY <1>1, <1>2, SizeTable, OneEntry

\* Making a frame is invisible until it is done, and so is failing to.
LEMMA MakeUnseen ==
  ASSUME TypeOK, FrameInv, MappingInv, NEW b \in Boards,
         NoTable(b) \/ GotTable(b) \/ \E f \in FrameIds, n \in 0..MaxPages : MakeFrame(b, f, n)
  PROVE  FrameSize' = FrameSize /\ Mapped' = Mapped
<1>1. Mapped' = Mapped
  BY DEF Mapped, OfWhole, FrameIn, NoTable, GotTable, MakeFrame
<1>2. PICK f \in FrameIds :
        /\ table[b][f] # "set" /\ table'[b][f] # "set"
        /\ pc[b] \in Sleeping => arg[b].frame = f
        /\ pc'[b] \in Sleeping => arg'[b].frame = f
        /\ count' = count
        /\ \A c \in Boards \ {b} : pc'[c] = pc[c] /\ arg'[c] = arg[c]
        /\ \A c \in Boards, g \in FrameIds : <<c, g>> # <<b, f>> => table'[c][g] = table[c][g]
  <2>1. CASE \E f \in FrameIds, n \in 0..MaxPages : MakeFrame(b, f, n)
    BY <2>1 DEF MakeFrame, frameVars, TypeOK, Sleeping
  <2>2. CASE NoTable(b) \/ GotTable(b)
    <3>1. PICK f \in FrameIds : f = arg[b].frame
      BY DEF TypeOK
    <3>2. pc[b] = "table" /\ table[b][f] = "null" /\ arg' = arg /\ count' = count
      BY <2>2, <3>1 DEF NoTable, GotTable, frameVars, FrameInv, MakerInv
    <3>3. /\ \A c \in Boards \ {b} : pc'[c] = pc[c]
          /\ \A c \in Boards, g \in FrameIds : <<c, g>> # <<b, f>> => table'[c][g] = table[c][g]
          /\ table'[b][f] # "set"
      BY <2>2, <3>1, <3>2 DEF NoTable, GotTable, frameVars, TypeOK
    <3>. QED BY <3>1, <3>2, <3>3
  <2>. QED BY <2>1, <2>2
<1>3. FrameSize'[b][f] = FrameSize[b][f] => FrameSize' = FrameSize
  BY <1>2, OneSize
<1>4. FrameSize[b][f] = None /\ FrameSize'[b][f] = None
  BY <1>2 DEF FrameSize
<1>. QED
  BY <1>1, <1>3, <1>4

\* The head of the page loop finishes the frame, or nothing is seen of it.
LEMMA NextPageStore ==
  ASSUME TypeOK, NEW b \in Boards, pc[b] \in {"virt", "page"}, vma' = vma,
         early' = early, NEW got, NEW used, NEW k, NEW stale,
         NextPage(b, k, got, used) \/ RollBack(b, got, used, stale)
  PROVE  Store!Next \/ (FrameSize' = FrameSize /\ Mapped' = Mapped)
<1>1. PICK f \in FrameIds : f = arg[b].frame
  BY DEF TypeOK
<1>2. Mapped' = Mapped
  BY DEF Mapped, OfWhole, FrameIn
<1>3. /\ arg'[b].frame = f
      /\ \A c \in Boards, g \in FrameIds : <<c, g>> # <<b, f>> =>
           table'[c][g] = table[c][g] /\ count'[c][g] = count[c][g]
      /\ \A c \in Boards \ {b} : pc'[c] = pc[c] /\ arg'[c] = arg[c]
      /\ \/ table'[b][f] = "null"
         \/ table'[b][f] = "set" /\ count'[b][f] = arg[b].pages
  BY <1>1 DEF NextPage, RollBack, TypeOK
<1>4. /\ FrameSize' = [FrameSize EXCEPT ![b][f] = FrameSize'[b][f]]
      /\ FrameSize'[b][f] = FrameSize[b][f] => FrameSize' = FrameSize
  BY <1>1, <1>3, OneSize
<1>5. FrameSize[b][f] = None
  BY <1>1 DEF FrameSize, BeingMade, Sleeping
<1>6. CASE FrameSize'[b][f] = None
  BY <1>2, <1>4, <1>5, <1>6
<1>7. CASE FrameSize'[b][f] # None
  <2>1. FrameSize'[b][f] \in Nat
    BY <1>3, <1>7 DEF FrameSize, TypeOK
  <2>2. Store!Make(b, f)
    BY <1>2, <1>4, <1>5, <2>1 DEF Store!Make
  <2>. QED BY <2>2 DEF Store!Next
<1>. QED
  BY <1>6, <1>7

\* What a mapping shows.
Shown(m) == [at |-> <<m.board, m.frame>>, pages |-> m.first..(m.first + m.pages - 1)]

\* It is not taken for no mapping.
LEMMA ShownIs ==
  ASSUME NEW m \in Mapping
  PROVE  Shown(m) # None
<1>1. m.board \in Boards /\ m.frame \in FrameIds /\ m.first \in Nat /\ m.pages \in Nat
  BY DEF Mapping
<1>2. <<m.board, m.frame>> \in Boards \X FrameIds /\ m.first..(m.first + m.pages - 1) \in SUBSET Int
  BY <1>1
<1>3. Shown(m) \in [at : Boards \X FrameIds, pages : SUBSET Int]
  BY <1>2 DEF Shown
<1>. QED
  BY <1>3, StoreAssumption

\* What programs see of the mappings.
LEMMA MappedIs ==
  Mapped = [v \in Vmas |-> IF ~OfWhole(v) THEN None ELSE Shown(vma[v])]
BY DEF Mapped, FrameIn, Shown

\* Only frames that nobody maps are freed.
LEMMA FreeStore ==
  ASSUME TypeOK, MappingInv, NEW b \in Boards, NEW fs \in SUBSET FrameIds, Free(b, fs)
  PROVE  Store!Next
<1>1. PICK gone : gone = {f \in fs : table[b][f] = "set" /\ ref[b][f] = 0}
  OBVIOUS
<1>2. /\ pc[b] = "idle" /\ pc' = pc /\ arg' = arg /\ vma' = vma /\ early' = early
      /\ table'[b] = [f \in FrameIds |-> IF f \in gone THEN "null" ELSE table[b][f]]
      /\ count'[b] = [f \in FrameIds |-> IF f \in gone THEN 0 ELSE count[b][f]]
      /\ \A c \in Boards : c # b => table'[c] = table[c] /\ count'[c] = count[c]
  BY <1>1 DEF Free, TypeOK
<1>3. Mapped' = Mapped
  BY <1>2 DEF Mapped, OfWhole, FrameIn
<1>4. \A c, f : BeingMade(c, f)' <=> BeingMade(c, f)
  BY <1>2 DEF BeingMade
<1>5. ASSUME NEW c \in Boards, NEW f \in FrameIds
      PROVE  FrameSize'[c][f] = IF c = b /\ f \in gone THEN None ELSE FrameSize[c][f]
  BY <1>2, <1>4 DEF FrameSize
<1>6. FrameSize' = [FrameSize EXCEPT ![b] =
                      [f \in FrameIds |-> IF f \in gone THEN None ELSE FrameSize[b][f]]]
  <2>1. /\ FrameSize = [c \in Boards |-> FrameSize[c]]
        /\ FrameSize' = [c \in Boards |-> [f \in FrameIds |-> FrameSize'[c][f]]]
        /\ \A c \in Boards : FrameSize[c] = [f \in FrameIds |-> FrameSize[c][f]]
    BY DEF FrameSize
  <2>2. FrameSize'[b] = [f \in FrameIds |-> IF f \in gone THEN None ELSE FrameSize[b][f]]
    <3>1. \A f \in FrameIds : FrameSize'[b][f] = IF f \in gone THEN None ELSE FrameSize[b][f]
      BY <1>5
    <3>. QED BY <2>1, <3>1
  <2>3. \A c \in Boards : c # b => FrameSize'[c] = FrameSize[c]
    <3>1. \A c \in Boards : c # b => \A f \in FrameIds : FrameSize'[c][f] = FrameSize[c][f]
      BY <1>5
    <3>. QED BY <2>1, <3>1
  <2>. QED BY <2>1, <2>2, <2>3
<1>7. ASSUME NEW f \in gone PROVE Store!Unmapped(b, f)
  <2>. SUFFICES ASSUME NEW v \in Vmas, Mapped[v] # None PROVE Mapped[v].at # <<b, f>>
    BY DEF Store!Unmapped
  <2>1. vma[v] # None /\ Mapped[v].at = <<vma[v].board, vma[v].frame>>
    BY DEF Mapped, OfWhole, FrameIn
  <2>2. Refs(v) # 0 /\ ref[b][f] = 0
    BY <1>1, <2>1, Unreferenced DEF MappingInv
  <2>. QED BY <2>1, <2>2 DEF Refs
<1>8. gone \in SUBSET FrameIds
  BY <1>1
<1>9. Store!Free(b)
  BY <1>3, <1>6, <1>7, <1>8 DEF Store!Free
<1>. QED
  BY <1>9 DEF Store!Next

\* A mapping within a finished frame lies in one that programs see.
LEMMA Inside ==
  ASSUME TypeOK, NEW m \in Mapping, table[m.board][m.frame] = "set",
         ~BeingMade(m.board, m.frame), m.first + m.pages <= count[m.board][m.frame]
  PROVE  LET n == FrameSize[m.board][m.frame] IN
           n # None /\ Shown(m).pages # {} /\ Shown(m).pages \subseteq 0..(n - 1)
<1>1. m.board \in Boards /\ m.frame \in FrameIds /\ m.first \in Nat /\ m.pages \in Nat \ {0}
  BY DEF Mapping
<1>2. FrameSize[m.board][m.frame] = count[m.board][m.frame]
  BY <1>1 DEF FrameSize
<1>3. count[m.board][m.frame] \in Nat /\ count[m.board][m.frame] # None
  BY <1>1, StoreAssumption DEF TypeOK
<1>4. /\ Shown(m).pages = m.first..(m.first + m.pages - 1)
      /\ m.first \in Shown(m).pages
  BY <1>1 DEF Shown
<1>5. Shown(m).pages \subseteq 0..(count[m.board][m.frame] - 1)
  BY <1>1, <1>3, <1>4
<1>. QED
  BY <1>2, <1>3, <1>4, <1>5

\* A mapping that mmap makes, or fork copies, is one of the abstract store, or
\* too early for it.
LEMMA MapStore ==
  ASSUME TypeOK, TypeOK', MappingInv', NEW v \in Vmas, NEW m \in Mapping, vma[v] = None,
         vma' = [vma EXCEPT ![v] = m], UNCHANGED <<table, count, pc, arg>>,
         early' = early \/ early' = early \cup {v}
  PROVE  Store!Next \/ (FrameSize' = FrameSize /\ Mapped' = Mapped)
<1>1. FrameSize' = FrameSize
  BY DEF FrameSize, BeingMade
<1>2. m # None /\ DOMAIN vma = Vmas
  BY FrameAssumption DEF TypeOK
<1>3. CASE v \in early'
  BY <1>1, <1>2, <1>3 DEF Mapped, OfWhole, FrameIn
<1>4. CASE v \notin early'
  <2>1. early' = early
    BY <1>4
  <2>2. Mapped[v] = None /\ Mapped'[v] = Shown(m)
    BY <1>2, <1>4 DEF Mapped, OfWhole, FrameIn, Shown
  <2>3. Mapped' = [Mapped EXCEPT ![v] = Mapped'[v]]
    BY <1>2, <2>1 DEF Mapped, OfWhole, FrameIn
  <2>4. Shown(m) # None /\ Shown(m).at = <<m.board, m.frame>>
    BY ShownIs DEF Shown
  <2>5. LET n == FrameSize[m.board][m.frame] IN
          n # None /\ Shown(m).pages # {} /\ Shown(m).pages \subseteq 0..(n - 1)
    <3>1. vma'[v] = m /\ OfWhole(v)'
      BY <1>2, <1>4 DEF OfWhole
    <3>2. /\ table[m.board][m.frame] = "set" /\ ~BeingMade(m.board, m.frame)
          /\ m.first + m.pages <= count[m.board][m.frame]
      BY <3>1 DEF MappingInv, SegmentInv, BeingMade
    <3>. QED BY <3>2, Inside
  <2>6. Store!Map(v)
    BY <1>1, <2>2, <2>3, <2>4, <2>5 DEF Store!Map
  <2>. QED BY <2>6 DEF Store!Next
<1>. QED
  BY <1>3, <1>4

\* Fork copies a mapping, munmap takes one away.
LEMMA VmStore ==
  ASSUME TypeOK, TypeOK', MappingInv', NEW v \in Vmas, NEW w \in Vmas, VmOpen(v, w) \/ VmClose(v)
  PROVE  Store!Next \/ (FrameSize' = FrameSize /\ Mapped' = Mapped)
<1>1. CASE VmOpen(v, w)
  <2>1. PICK m \in Mapping : m = vma[v]
    BY <1>1 DEF VmOpen, TypeOK
  <2>2. /\ vma[w] = None /\ vma' = [vma EXCEPT ![w] = m] /\ UNCHANGED <<table, count, pc, arg>>
        /\ early' = early \/ early' = early \cup {w}
    BY <1>1, <2>1 DEF VmOpen, frameVars
  <2>. QED BY <2>2, MapStore
<1>2. CASE VmClose(v)
  <2>1. FrameSize' = FrameSize
    BY <1>2 DEF VmClose, frameVars, FrameSize, BeingMade
  <2>2. Mapped' = [Mapped EXCEPT ![v] = None]
    BY <1>2 DEF VmClose, TypeOK, Mapped, OfWhole, FrameIn
  <2>3. Store!Unmap(v)
    BY <2>1, <2>2 DEF Store!Unmap
  <2>. QED BY <2>3 DEF Store!Next
<1>. QED
  BY <1>1, <1>2

\* At the start programs see nothing.
LEMMA InitStore == Init => Store!Init
<1>. SUFFICES ASSUME Init PROVE Store!Init
  OBVIOUS
<1>1. FrameSize = [b \in Boards |-> [f \in FrameIds |-> None]]
  BY DEF Init, FrameSize
<1>2. Mapped = [v \in Vmas |-> None]
  BY DEF Init, Mapped, OfWhole
<1>. QED
  BY <1>1, <1>2 DEF Store!Init

\* Every step is one of the abstract store, or is not seen.
LEMMA StepStore ==
  ASSUME TypeOK, TypeOK', FrameInv, MappingInv, MappingInv', [Next]_vars
  PROVE  Store!Next \/ (FrameSize' = FrameSize /\ Mapped' = Mapped)
<1>1. CASE UNCHANGED vars \/ \E b \in Boards, f \in FrameIds : MapMissing(b, f)
  <2>1. vma' = vma /\ table' = table /\ count' = count /\ arg' = arg /\ early' = early
    BY <1>1 DEF vars, MapMissing, frameVars
  <2>2. \A b \in Boards : pc'[b] = pc[b] \/ (pc[b] = "idle" /\ pc'[b] = "killed")
    BY <1>1 DEF vars, MapMissing, TypeOK
  <2>3. \A b \in Boards : \A f : BeingMade(b, f)' <=> BeingMade(b, f)
    BY <2>1, <2>2 DEF BeingMade, Sleeping
  <2>. QED BY <2>1, <2>3 DEF FrameSize, Mapped, OfWhole, FrameIn
<1>2. ASSUME NEW b \in Boards, Continue(b)
      PROVE  Store!Next \/ (FrameSize' = FrameSize /\ Mapped' = Mapped)
  <2>1. CASE NoTable(b) \/ GotTable(b)
    BY <2>1, MakeUnseen
  <2>2. CASE GotVirt(b) \/ GotPage(b) \/ NoPage(b)
    <3>1. pc[b] \in {"virt", "page"} /\ vma' = vma /\ early' = early
      BY <2>2 DEF GotVirt, GotPage, NoPage
    <3>2. \E got, used, k, stale : NextPage(b, k, got, used) \/ RollBack(b, got, used, stale)
      BY <2>2 DEF GotVirt, GotPage, NoPage
    <3>. QED BY <3>1, <3>2, NextPageStore
  <2>. QED BY <1>2, <2>1, <2>2 DEF Continue
<1>3. ASSUME NEW b \in Boards, Call(b)
      PROVE  Store!Next \/ (FrameSize' = FrameSize /\ Mapped' = Mapped)
  <2>1. CASE \E f \in FrameIds, n \in 0..MaxPages : MakeFrame(b, f, n)
    BY <2>1, MakeUnseen
  <2>2. CASE FreeAllFrames(b) \/ \E f \in FrameIds : FreeFrame(b, f)
    BY <2>2, FreeStore DEF FreeFrame, FreeAllFrames
  <2>3. CASE \E f \in FrameIds : MapMissing(b, f)
    BY <1>1, <2>3
  <2>4. CASE \E f \in FrameIds, v \in Vmas, first \in 0..MaxPages, n \in 1..MaxPages,
               file \in {"channel", "control"} : Map(b, v, f, first, n, file)
    <3>1. PICK f \in FrameIds, v \in Vmas, first \in 0..MaxPages, n \in 1..MaxPages,
               file \in {"channel", "control"} : Map(b, v, f, first, n, file)
      BY <2>4
    <3>2. first \in Nat /\ n \in Nat \ {0}
      BY FrameAssumption
    <3>3. PICK m \in Mapping : m = [board |-> b, frame |-> f, first |-> first, pages |-> n,
                                    file |-> file]
      BY <3>2 DEF Mapping
    <3>4. /\ vma[v] = None /\ vma' = [vma EXCEPT ![v] = m] /\ UNCHANGED <<table, count, pc, arg>>
          /\ early' = early \/ early' = early \cup {v}
      BY <3>1, <3>3 DEF Map, frameVars
    <3>. QED BY <3>4, MapStore
  <2>. QED BY <1>3, <2>1, <2>2, <2>3, <2>4 DEF Call
<1>4. ASSUME NEW v \in Vmas, NEW w \in Vmas, VmOpen(v, w) \/ VmClose(v)
      PROVE  Store!Next \/ (FrameSize' = FrameSize /\ Mapped' = Mapped)
  BY <1>4, VmStore
<1>. QED
  BY <1>1, <1>2, <1>3, <1>4 DEF Next

(* The page tables, the page limit and the counts of mappings give programs  *)
(* whole frames that stay while they are mapped, to every program that maps  *)
(* a frame that is whole.                                                    *)
THEOREM FramesImplementStore == Spec => FramesAreWhole
<1>1. TypeOK /\ TypeOK' /\ FrameInv /\ MappingInv /\ MappingInv' /\ [Next]_vars
        => [Store!Next]_(Store!vars)
  BY StepStore DEF Store!vars
<1>. QED
  BY <1>1, InitStore, TypeCorrect, PagesCounted, MappingsKept, PTL DEF Spec, FramesAreWhole
=============================================================================
