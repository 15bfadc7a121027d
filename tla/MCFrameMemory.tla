--------------------------- MODULE MCFrameMemory ---------------------------
(***************************************************************************)
(* FrameMemory for TLC, with the refinement of FrameStore: a frame exists  *)
(* when its caller has finished making it, and a mapping is the set of     *)
(* pages it shows.  A mapping of a frame that was being made has no        *)
(* counterpart: FrameStore promises nothing of it.                         *)
(***************************************************************************)
EXTENDS FrameMemory, TLC

\* Boards are interchangeable, and so are mappings.
Symmetry == Permutations(Boards) \cup Permutations(Vmas)

FrameSize ==
  [b \in Boards |-> [f \in FrameIds |->
     IF table[b][f] = "set" /\ ~BeingMade(b, f) THEN count[b][f] ELSE None]]

Mapped ==
  [v \in Vmas |->
     IF ~OfWhole(v) THEN None
     ELSE [at |-> FrameIn(v),
           pages |-> vma[v].first..(vma[v].first + vma[v].pages - 1)]]

ASSUME StoreAssumption ==
  None \notin Nat /\ None \notin [at : Boards \X FrameIds, pages : SUBSET Int]

Store == INSTANCE FrameStore WITH size <- FrameSize, mapped <- Mapped

\* The paged frames implement FrameStore: a frame appears whole or not at all,
\* and no program that maps a whole frame maps beyond it or has it taken away
\* under its mapping, whatever mappings of unfinished frames there are too.
FramesAreWhole == Store!Init /\ [][Store!Next]_(Store!vars)
=============================================================================
