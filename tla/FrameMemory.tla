---------------------------- MODULE FrameMemory ----------------------------
(***************************************************************************)
(* The memory behind the frames of all boards (sys-linux2.4/linux.c:       *)
(* ucr_make_frame, ucr_free_frame, xxmmap and the operations of its        *)
(* mappings).  UcrRoot has the frames of one board as names in a root      *)
(* table; here they have pages, and all boards draw them from one budget.  *)
(*                                                                         *)
(* An action of a board's caller is the code between two allocations: each *)
(* of them can sleep, and then the callers of other boards run.  A board   *)
(* has one caller at a time, as in UcrRoot's proofs; its frames can be     *)
(* mapped, copied by fork and unmapped at any time, those it is making     *)
(* among them: the table of a frame is there before its pages are.         *)
(*                                                                         *)
(* An address that a failed allocation left uninitialised is zero or is    *)
(* not; the rollback takes the second kind for a page (bogus counts them). *)
(* The small array of kernel addresses is assumed to be there: the code    *)
(* does not test that allocation, and does not release the array with the  *)
(* frame.                                                                  *)
(***************************************************************************)
EXTENDS Integers, FiniteSets

CONSTANTS
  Boards,         \* the boards, each with its caller
  FrameIds,       \* frame numbers
  MaxPages,       \* bounds the size of a frame
  Span,           \* pages of the address space of one frame number, 256MB
  Limit,          \* ise_limit_frame_pages
  Vmas,           \* mappings that can exist at once
  MaxBogus,       \* bounds the uninitialised addresses taken for pages
  MaxRefs,        \* bounds frame_ref, which mappings of a control device leave behind
  None            \* no mapping

Mapping == [board : Boards, frame : FrameIds, first : Nat, pages : Nat \ {0},
            file : {"channel", "control"}]

ASSUME FrameAssumption ==
  /\ IsFiniteSet(Boards) /\ Boards # {} /\ IsFiniteSet(Vmas)
  /\ None \notin Mapping
  /\ FrameIds \subseteq Nat
  /\ MaxPages \in Nat /\ Span \in Nat \ {0} /\ MaxBogus \in Nat /\ MaxRefs \in Nat
  /\ Limit \in Nat \ {0}

VARIABLES
  table,   \* xsp->frame[id]: null, allocated but not yet filled, or filled
  count,   \* its page_count
  held,    \* pages allocated, as <<board, frame, index>>
  inUse,   \* ise_frame_pages_in_use
  bogus,   \* history: frees of pages that were never allocated
  ref,     \* frame_ref
  vma,     \* the mappings
  pc, arg, \* where the caller of a board sleeps, and its locals
  early    \* history: mappings made of a frame that was being made, and their copies

frameVars == <<table, count, held, inUse, bogus>>
vars == <<table, count, held, inUse, bogus, ref, vma, pc, arg, early>>

Sleeping == {"table", "virt", "page"}

TypeOK ==
  /\ table \in [Boards -> [FrameIds -> {"null", "raw", "set"}]]
  /\ count \in [Boards -> [FrameIds -> Nat]]
  /\ held \subseteq Boards \X FrameIds \X Nat
  /\ inUse \in Nat /\ bogus \in Nat
  /\ ref \in [Boards -> [FrameIds -> Int]]
  /\ vma \in [Vmas -> Mapping \cup {None}]
  /\ pc \in [Boards -> {"idle", "killed"} \cup Sleeping]
  /\ arg \in [Boards -> [frame : FrameIds, pages : Nat, idx : Nat]]
  /\ early \subseteq Vmas

Init ==
  /\ table = [b \in Boards |-> [f \in FrameIds |-> "null"]]
  /\ count = [b \in Boards |-> [f \in FrameIds |-> 0]]
  /\ held = {} /\ inUse = 0 /\ bogus = 0
  /\ ref = [b \in Boards |-> [f \in FrameIds |-> 0]]
  /\ vma = [v \in Vmas |-> None]
  /\ pc = [b \in Boards |-> "idle"]
  /\ arg \in [Boards -> [frame : FrameIds, pages : {0}, idx : {0}]]
  /\ early = {}

\* The caller of board b is making frame f.
BeingMade(b, f) == pc[b] \in Sleeping /\ arg[b].frame = f

PagesOf(b, f) == {h \in held : h[1] = b /\ h[2] = f}

\* Wrong: pages that are given back are not counted.
LessNever(used, n) == used

\* if (ise_frame_pages_in_use > 0) ise_frame_pages_in_use -= 1, n times
Less(used, n) == IF used >= n THEN used - n ELSE 0

-----------------------------------------------------------------------------
(* ucr_make_frame.  make_and_set_frame calls it when the frame does not    *)
(* exist; when it does, its size is returned and nothing changes.          *)

MakeFrame(b, f, n) ==
  /\ pc[b] = "idle"
  /\ table[b][f] = "null"
  /\ pc' = [pc EXCEPT ![b] = "table"]
  /\ arg' = [arg EXCEPT ![b] = [frame |-> f, pages |-> n, idx |-> 0]]
  /\ UNCHANGED <<frameVars, ref, vma, early>>

\* -ENOMEM
NoTable(b) ==
  /\ pc[b] = "table"
  /\ pc' = [pc EXCEPT ![b] = "idle"]
  /\ UNCHANGED <<frameVars, ref, vma, arg, early>>

\* The block is there, its fields are not; vmalloc comes next.
GotTable(b) ==
  /\ pc[b] = "table"
  /\ table' = [table EXCEPT ![b][arg[b].frame] = "raw"]
  /\ pc' = [pc EXCEPT ![b] = "virt"]
  /\ UNCHANGED <<count, held, inUse, bogus, ref, vma, arg, early>>

\* Wrong: the loop over the pages starts at the second.
MineButFirst(b, got) == {h \in got : h[1] = b /\ h[2] = arg[b].frame /\ h[3] > 0}

\* The pages the caller has so far.
Mine(b, got) == {h \in got : h[1] = b /\ h[2] = arg[b].frame}

\* Wrong: the limit is off by one.
LimitReachedLate(used) == used > Limit

LimitReached(used) == used >= Limit

\* no_mem: give back every page whose address is not zero, then the table.
\* `got' are the pages the frame has by now and `used' the count of all;
\* `stale' is 1 when the failed allocation left a garbage address behind.
RollBack(b, got, used, stale) ==
  /\ held' = got \ Mine(b, got)
  /\ inUse' = Less(used, Cardinality(Mine(b, got)) + stale)
  /\ bogus' = bogus + stale
  /\ table' = [table EXCEPT ![b][arg[b].frame] = "null"]
  /\ count' = [count EXCEPT ![b][arg[b].frame] = 0]
  /\ pc' = [pc EXCEPT ![b] = "idle"]
  /\ UNCHANGED arg

\* The head of the page loop: done, over the limit, or one more allocation.
NextPage(b, k, got, used) ==
  IF k < arg[b].pages /\ LimitReached(used)
    THEN RollBack(b, got, used, 0)
    ELSE /\ held' = got
         /\ inUse' = used
         /\ table' = [table EXCEPT ![b][arg[b].frame] = "set"]
         /\ count' = [count EXCEPT ![b][arg[b].frame] = arg[b].pages]
         /\ arg' = [arg EXCEPT ![b].idx = k]
         /\ pc' = [pc EXCEPT ![b] = IF k = arg[b].pages THEN "idle" ELSE "page"]
         /\ UNCHANGED bogus

GotVirt(b) ==
  /\ pc[b] = "virt"
  /\ NextPage(b, 0, held, inUse)
  /\ UNCHANGED <<ref, vma, early>>

GotPage(b) ==
  /\ pc[b] = "page"
  /\ NextPage(b, arg[b].idx + 1, held \cup {<<b, arg[b].frame, arg[b].idx>>}, inUse + 1)
  /\ UNCHANGED <<ref, vma, early>>

NoPage(b) ==
  /\ pc[b] = "page"
  /\ \E stale \in {0, 1} :
       /\ bogus + stale <= MaxBogus
       /\ RollBack(b, held, inUse, stale)
  /\ UNCHANGED <<ref, vma, early>>

-----------------------------------------------------------------------------
(* ucr_free_frame: -EIO, -EBUSY, or every page of the table goes back.     *)
(* UCR_FREE_FRAME names one frame; reset, restart, removal of the board    *)
(* and unloading the driver go through all of them and ignore the results. *)

Free(b, fs) ==
  LET gone == {f \in fs : table[b][f] = "set" /\ ref[b][f] = 0}
      back == {h \in held : h[1] = b /\ h[2] \in gone}
  IN  /\ pc[b] = "idle"
      /\ gone # {}
      /\ held' = held \ back
      /\ inUse' = Less(inUse, Cardinality(back))
      /\ table' = [table EXCEPT ![b] = [f \in FrameIds |-> IF f \in gone THEN "null" ELSE @[f]]]
      /\ count' = [count EXCEPT ![b] = [f \in FrameIds |-> IF f \in gone THEN 0 ELSE @[f]]]
      /\ UNCHANGED <<bogus, ref, vma, pc, arg, early>>

FreeFrame(b, f) == Free(b, {f})
FreeAllFrames(b) == Free(b, FrameIds)

-----------------------------------------------------------------------------
(* Mappings.  The offset of a file selects the frame with its high bits;   *)
(* pages stand for bytes.  Both files of a board can be mapped, its        *)
(* channel device and its control device.                                  *)

\* Both ends of the segment must have the same frame number.  (The end is
\* the first page behind it: a segment up to the very end of the space of a
\* frame number is refused.)
InOneFrame(f, first, n) == ((f * Span + first + n) \div Span) % 16 = f

FrameIn(v) == <<vma[v].board, vma[v].frame>>

Refs(v) == ref[vma[v].board][vma[v].frame]

\* Wrong: the mapping is not held against the size of the frame.
MapUnbounded(b, v, f, first, n, file) ==
  /\ vma[v] = None /\ ref[b][f] < MaxRefs
  /\ InOneFrame(f, first, n)
  /\ table[b][f] # "null"
  /\ vma' = [vma EXCEPT ![v] = [board |-> b, frame |-> f, first |-> first,
                                pages |-> n, file |-> file]]
  /\ ref' = [ref EXCEPT ![b][f] = @ + 1]
  /\ early' = IF BeingMade(b, f) THEN early \cup {v} ELSE early
  /\ UNCHANGED <<frameVars, pc, arg>>

\* A table that is not filled yet has any size.
Map(b, v, f, first, n, file) ==
  /\ vma[v] = None /\ ref[b][f] < MaxRefs
  /\ InOneFrame(f, first, n)
  /\ table[b][f] # "null"
  /\ table[b][f] = "set" => first + n <= count[b][f]
  /\ vma' = [vma EXCEPT ![v] = [board |-> b, frame |-> f, first |-> first,
                                pages |-> n, file |-> file]]
  /\ ref' = [ref EXCEPT ![b][f] = @ + 1]
  /\ early' = IF BeingMade(b, f) THEN early \cup {v} ELSE early
  /\ UNCHANGED <<frameVars, pc, arg>>

\* xxmmap reads the page size from the table it did not look for, and the
\* process is gone.  (The death of a process other than the board's caller
\* changes nothing here.)
MapMissing(b, f) ==
  /\ pc[b] = "idle"
  /\ table[b][f] = "null"
  /\ pc' = [pc EXCEPT ![b] = "killed"]
  /\ UNCHANGED <<frameVars, ref, vma, arg, early>>

\* xxvmopen and xxvmclose do not strip the control flag from the minor number
\* as xxmmap does: for the control device they count in the memory behind the
\* table of boards.
Counted(v, n) ==
  ref' = IF vma[v].file = "channel" THEN [ref EXCEPT ![vma[v].board][vma[v].frame] = n] ELSE ref

\* Wrong: only the mappings that mmap makes are counted.
VmOpenUncounted(v, w) ==
  /\ vma[v] # None /\ vma[w] = None /\ Refs(v) < MaxRefs
  /\ vma' = [vma EXCEPT ![w] = vma[v]]
  /\ early' = IF v \in early THEN early \cup {w} ELSE early
  /\ UNCHANGED <<ref, frameVars, pc, arg>>

\* A fork copies a mapping.
VmOpen(v, w) ==
  /\ vma[v] # None /\ vma[w] = None /\ Refs(v) < MaxRefs
  /\ vma' = [vma EXCEPT ![w] = vma[v]]
  /\ early' = IF v \in early THEN early \cup {w} ELSE early
  /\ Counted(v, Refs(v) + 1)
  /\ UNCHANGED <<frameVars, pc, arg>>

VmClose(v) ==
  /\ vma[v] # None
  /\ vma' = [vma EXCEPT ![v] = None]
  /\ early' = early \ {v}
  /\ Counted(v, Refs(v) - 1)
  /\ UNCHANGED <<frameVars, pc, arg>>

-----------------------------------------------------------------------------
\* What an allocation that sleeps comes back with.
Continue(b) ==
  \/ NoTable(b)
  \/ GotTable(b)
  \/ GotVirt(b)
  \/ GotPage(b)
  \/ NoPage(b)

Call(b) ==
  \/ \E f \in FrameIds :
       \/ \E n \in 0..MaxPages : MakeFrame(b, f, n)
       \/ FreeFrame(b, f)
       \/ MapMissing(b, f)
       \/ \E v \in Vmas, first \in 0..MaxPages, n \in 1..MaxPages,
             file \in {"channel", "control"} : Map(b, v, f, first, n, file)
  \/ FreeAllFrames(b)

Next ==
  \/ \E b \in Boards : Call(b) \/ Continue(b)
  \/ \E v, w \in Vmas : VmOpen(v, w)
  \/ \E v \in Vmas : VmClose(v)

Spec == Init /\ [][Next]_vars

-----------------------------------------------------------------------------
(* What must be true.                                                      *)

\* The shared counter never says more than is held (a board would be refused
\* pages nobody has), and less only by what rollbacks freed without having it.
CountBounds ==
  /\ inUse <= Cardinality(held)
  /\ Cardinality(held) <= inUse + bogus

Waiting == {b \in Boards : pc[b] = "page"}

\* The limit of linux.c:198 is tested before an allocation that sleeps and
\* counted after it: boards that wait at the same time overrun it, by at most
\* one page for each board but one, and a page for each bogus free.
LimitKept == Cardinality(held) + Cardinality(Waiting) <= Limit + Cardinality(Boards) - 1 + bogus

\* Every page the kernel gave is in the table of a frame that will free it,
\* whatever failed half way.
NoPageLost ==
  \A h \in held : table[h[1]][h[2]] = "set" /\ h[3] < count[h[1]][h[2]]

\* What a caller that sleeps in ucr_make_frame counts on when it wakes up.
MakerInv ==
  \A b \in Boards :
    LET f == arg[b].frame IN
      /\ pc[b] = "table" => table[b][f] = "null"
      /\ pc[b] = "virt" => table[b][f] = "raw"
      /\ pc[b] = "page" =>
           /\ table[b][f] = "set"
           /\ count[b][f] = arg[b].pages
           /\ arg[b].idx < arg[b].pages
           /\ \A h \in PagesOf(b, f) : h[3] < arg[b].idx

\* The part of the limit that is inductive.
BudgetInv == inUse + Cardinality(Waiting) <= Limit + Cardinality(Boards) - 1

FrameInv == NoPageLost /\ MakerInv /\ CountBounds /\ BudgetInv

\* The mappings of a frame, among those of m, that were made on a file.
MapsOn(m, b, f, file) ==
  {v \in Vmas : m[v] # None /\ m[v].board = b /\ m[v].frame = f /\ m[v].file = file}

\* frame_ref covers the mappings of a frame: each one of the channel device,
\* and as long as there are any of the control device, one of those.
RefInv ==
  \A b \in Boards, f \in FrameIds :
    /\ Cardinality(MapsOn(vma, b, f, "channel")) <= ref[b][f]
    /\ MapsOn(vma, b, f, "control") # {} => Cardinality(MapsOn(vma, b, f, "channel")) < ref[b][f]

\* A frame nobody is making has all its pages, one that is being made those
\* up to the index of the loop.
WholeInv ==
  \A b \in Boards, f \in FrameIds :
    /\ table[b][f] = "raw" => pc[b] = "virt" /\ arg[b].frame = f
    /\ table[b][f] = "set" /\ ~BeingMade(b, f) =>
         \A i \in 0..(count[b][f] - 1) : <<b, f, i>> \in held
    /\ pc[b] = "page" /\ arg[b].frame = f =>
         \A i \in 0..(arg[b].idx - 1) : <<b, f, i>> \in held

\* A mapping of a frame that was whole when mmap was called.
OfWhole(v) == vma[v] # None /\ v \notin early

\* It lies within the frame, and the frame is there.
SegmentInv ==
  \A v \in Vmas :
    /\ OfWhole(v) =>
         /\ table[vma[v].board][vma[v].frame] = "set"
         /\ ~BeingMade(vma[v].board, vma[v].frame)
         /\ vma[v].first + vma[v].pages <= count[vma[v].board][vma[v].frame]
    /\ v \in early => vma[v] # None

\* Why a mapping keeps its frame.
MappingInv == RefInv /\ WholeInv /\ SegmentInv

\* A page fault finds its page: mappings end where their frame ends, and a
\* frame stays while it is mapped.  The only mappings without all their pages
\* are those of a frame that was being made (linux.c:643-694 tests neither
\* for that nor, in the rollback of linux.c:243-276, for mappings).
MappedPagesHeld ==
  \A v \in Vmas : OfWhole(v) =>
    \A k \in 0..(vma[v].pages - 1) :
      <<vma[v].board, vma[v].frame, vma[v].first + k>> \in held

=============================================================================
