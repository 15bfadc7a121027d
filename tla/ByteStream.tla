----------------------------- MODULE ByteStream -----------------------------
(***************************************************************************)
(* What the output half of a channel promises its user (ucrif.h): the      *)
(* bytes and file marks a process sends reach the target in the order they *)
(* were sent, each once, however they were cut into buffers.               *)
(***************************************************************************)
EXTENDS Naturals, Sequences

VARIABLES
  sent,   \* what the process has sent since the file was opened
  queue,  \* what of it the driver still holds
  taken   \* what the target has read

vars == <<sent, queue, taken>>

Init == sent = <<>> /\ queue = <<>> /\ taken = <<>>

\* The process sends some more: sent and queue grow by the same items.
Put ==
  /\ Len(sent') > Len(sent)
  /\ SubSeq(sent', 1, Len(sent)) = sent
  /\ queue' = queue \o SubSeq(sent', Len(sent) + 1, Len(sent'))
  /\ UNCHANGED taken

\* The target reads some of the oldest items.
Take ==
  /\ \E n \in 1..Len(queue) :
       /\ taken' = taken \o SubSeq(queue, 1, n)
       /\ queue' = SubSeq(queue, n + 1, Len(queue))
  /\ UNCHANGED sent

\* The file is closed and opened again.
Reopen == sent' = <<>> /\ queue' = <<>> /\ taken' = <<>>

Next == Put \/ Take \/ Reopen

Spec == Init /\ [][Next]_vars
=============================================================================
