---------------------------- MODULE MC_MemRing ----------------------------
(***************************************************************************)
(* The ring of MemRing.tla for TLC, with the lengths that its callers have *)
(* passed so far as a history variable.  Both lengths divide the capacity. *)
(* A caller that keeps to one of them, as the sink does, must be safe;     *)
(* one that mixes them can bring a chunk to the end of the block.          *)
(***************************************************************************)
EXTENDS MemRing

VARIABLE used   \* lengths passed to the ring

Passing(n) == used' = used \cup {n}

UsedInit == mem_ring_alloc /\ used = {}

UsedNext ==
  \/ \E chunk \in Chunks : mem_ring_enqueue(chunk) /\ Passing(Len(chunk))
  \/ \E n \in ChunkLens :
       /\ mem_ring_dequeue(n) \/ mem_ring_drop(n) \/ mem_ring_peek(n)
       /\ Passing(n)
  \/ mem_ring_is_empty /\ UNCHANGED used
  \/ mem_ring_free /\ UNCHANGED used

UsedSpec == UsedInit /\ [][UsedNext]_<<vars, used>>

\* In whatever order the ring fills, wraps around and drains, the bounds
\* assertion of mem_block_slice fails only for a caller that has passed
\* different lengths.
AbortsOnlyIfMixed == aborted => \E m, n \in used : m # n
=============================================================================
