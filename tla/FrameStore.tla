----------------------------- MODULE FrameStore -----------------------------
(***************************************************************************)
(* What the frames of the boards promise to the programs that use them:    *)
(* a frame comes into being whole or not at all, a mapping lies inside its *)
(* frame, and a frame goes away only when nobody maps it.                  *)
(***************************************************************************)
EXTENDS Naturals

CONSTANTS Boards, FrameIds, Vmas, None

VARIABLES
  size,   \* pages of a frame, None when it does not exist
  mapped  \* mapping -> None or its frame and pages

vars == <<size, mapped>>

Init ==
  /\ size = [b \in Boards |-> [f \in FrameIds |-> None]]
  /\ mapped = [v \in Vmas |-> None]

Make(b, f) ==
  /\ size[b][f] = None
  /\ size'[b][f] \in Nat
  /\ size' = [size EXCEPT ![b][f] = size'[b][f]]
  /\ UNCHANGED mapped

Unmapped(b, f) == \A v \in Vmas : mapped[v] # None => mapped[v].at # <<b, f>>

Free(b) ==
  /\ \E fs \in SUBSET FrameIds :
       /\ \A f \in fs : Unmapped(b, f)
       /\ size' = [size EXCEPT ![b] = [f \in FrameIds |-> IF f \in fs THEN None ELSE @[f]]]
  /\ UNCHANGED mapped

Map(v) ==
  /\ mapped[v] = None
  /\ mapped' = [mapped EXCEPT ![v] = mapped'[v]]
  /\ LET m == mapped'[v] IN
       /\ m # None
       /\ size[m.at[1]][m.at[2]] # None
       /\ m.pages # {}
       /\ m.pages \subseteq 0..(size[m.at[1]][m.at[2]] - 1)
  /\ UNCHANGED size

Unmap(v) ==
  /\ mapped' = [mapped EXCEPT ![v] = None]
  /\ UNCHANGED size

Next ==
  \/ \E b \in Boards : Free(b) \/ \E f \in FrameIds : Make(b, f)
  \/ \E v \in Vmas : Map(v) \/ Unmap(v)

Spec == Init /\ [][Next]_vars
=============================================================================
