-------------------------- MODULE UcrChannelStream --------------------------
(***************************************************************************)
(* Each half of a channel implements ByteStream: the rings and the offsets *)
(* into their buffers are one queue of bytes and file marks.               *)
(***************************************************************************)
EXTENDS UcrChannel, SequencesExt

\* Ring indices from `first` up to, but not including, `next`.
Indices(first, next, size) ==
  [k \in 1..((next + size - first) % size) |-> (first + k - 1) % size]

\* What the process has sent and the board has not taken: the published
\* buffers, and what is in the one being filled.
Held ==
  LET ring == Indices(first_out_idx, next_out_idx, NOut)
  IN  FlattenSeq([k \in DOMAIN ring |-> Contents(ring[k])])
        \o SubSeq(out_page[next_out_idx], 1, out_off)

\* What the board has made and the process has not read.
Ready ==
  LET ring == Indices(first_in_idx, next_in_idx, NIn)
      all == FlattenSeq([k \in DOMAIN ring |->
                           SubSeq(in_page[ring[k]], 1, in_count[ring[k]])])
  IN  SubSeq(all, in_off + 1, Len(all))

Out == INSTANCE ByteStream WITH sent <- sent, queue <- Held, taken <- taken
In  == INSTANCE ByteStream WITH sent <- [k \in 1..made |-> k],
                                queue <- Ready, taken <- received

\* Bytes and file marks reach the board in order, each once.
WritesAreAStream == Out!Spec

\* Bytes reach the process in order, each once.
ReadsAreAStream == In!Spec
=============================================================================
