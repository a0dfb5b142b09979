---------------------------- MODULE ByteQueue ----------------------------
(***************************************************************************)
(* What mem/ring.h promises: a bounded first-in-first-out queue of bytes.  *)
(* An operation that does not fit (an enqueue without room, a dequeue,     *)
(* drop or peek of more than there is) returns false and changes nothing.  *)
(* "ret" is what the last call handed back to its caller.                  *)
(***************************************************************************)
EXTENDS Naturals, Sequences

CONSTANTS
  Byte,       \* the values a byte of the queue may take
  Capacity,   \* bytes the queue holds at most
  ChunkLens   \* the lengths its callers enqueue and dequeue

VARIABLES
  q,          \* the queued bytes, oldest first
  bound,      \* Capacity, or 0 once the queue was freed
  ret         \* [op, ok, data] of the last call

queueVars == <<q, bound, ret>>

Chunks == UNION {[1..n -> Byte] : n \in ChunkLens}

Result(op, ok, data) == [op |-> op, ok |-> ok, data |-> data]

Init ==
  /\ q = << >>
  /\ bound = Capacity
  /\ ret = Result("alloc", TRUE, << >>)

Refuse(op) ==
  /\ ret' = Result(op, FALSE, << >>)
  /\ UNCHANGED <<q, bound>>

Enqueue(chunk) ==
  \/ Len(q) + Len(chunk) > bound /\ Refuse("enqueue")
  \/ /\ Len(q) + Len(chunk) <= bound
     /\ q' = q \o chunk
     /\ ret' = Result("enqueue", TRUE, << >>)
     /\ UNCHANGED bound

\* The oldest n bytes leave the queue and reach the caller.
Dequeue(n) ==
  \/ n > Len(q) /\ Refuse("dequeue")
  \/ /\ n <= Len(q)
     /\ q' = SubSeq(q, n + 1, Len(q))
     /\ ret' = Result("dequeue", TRUE, SubSeq(q, 1, n))
     /\ UNCHANGED bound

Drop(n) ==
  \/ n > Len(q) /\ Refuse("drop")
  \/ /\ n <= Len(q)
     /\ q' = SubSeq(q, n + 1, Len(q))
     /\ ret' = Result("drop", TRUE, << >>)
     /\ UNCHANGED bound

Peek(n) ==
  \/ n > Len(q) /\ Refuse("peek")
  \/ /\ n <= Len(q)
     /\ ret' = Result("peek", TRUE, SubSeq(q, 1, n))
     /\ UNCHANGED <<q, bound>>

\* Its answer is left open: mem_ring_is_empty (ring.c:21) returns the opposite
\* of what ring.h:28 says, and nothing in the library calls it.
IsEmpty ==
  /\ \E answer \in BOOLEAN : ret' = Result("is_empty", answer, << >>)
  /\ UNCHANGED <<q, bound>>

Free ==
  /\ q' = << >>
  /\ bound' = 0
  /\ ret' = Result("free", TRUE, << >>)

Next ==
  \/ \E chunk \in Chunks : Enqueue(chunk)
  \/ \E n \in ChunkLens : Dequeue(n) \/ Drop(n) \/ Peek(n)
  \/ IsEmpty
  \/ Free

Spec == Init /\ [][Next]_queueVars
=============================================================================
