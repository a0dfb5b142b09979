----------------------------- MODULE MemRing -----------------------------
(***************************************************************************)
(* The ring buffer of src/mem/ring.c over a memory block of src/mem/       *)
(* block.c.  The ring keeps "front" and "len" in bytes and never splits a  *)
(* chunk: mem_block_slice asserts that the chunk lies inside the block, so *)
(* a chunk that would cross the end of the block ends the process          *)
(* ("aborted").  A caller that always passes one length that divides the   *)
(* capacity, as the sink does, must never meet that assertion.             *)
(***************************************************************************)
EXTENDS Naturals, Sequences

CONSTANTS
  Byte,       \* the values a byte may take
  Capacity,   \* the length given to mem_ring_alloc
  ChunkLens   \* the lengths the callers of the ring pass

ASSUME RingAssumption ==
  /\ Byte # {}
  /\ Capacity \in Nat \ {0}
  /\ ChunkLens \subseteq Nat \ {0}

VARIABLES
  buf,        \* the bytes of the block, offsets 0 .. Capacity - 1
  size,       \* buf.size: Capacity, or 0 after mem_ring_free
  front,      \* offset of the oldest byte
  len,        \* number of queued bytes
  aborted,    \* an assertion of mem_block_slice failed
  ret         \* [op, ok, data] of the last call

vars == <<buf, size, front, len, aborted, ret>>

Offsets == 0 .. Capacity - 1
Chunks == UNION {[1..n -> Byte] : n \in ChunkLens}

Result(op, ok, data) == [op |-> op, ok |-> ok, data |-> data]

-----------------------------------------------------------------------------
\* mem_ring_alloc: malloc leaves the block's content open.
mem_ring_alloc ==
  /\ buf \in [Offsets -> Byte]
  /\ size = Capacity
  /\ front = 0
  /\ len = 0
  /\ aborted = FALSE
  /\ ret = Result("alloc", TRUE, << >>)

\* The assertion of mem_block_slice, and the bytes the slice refers to.
mem_block_slice_ok(offset, n) == offset + n <= size
mem_block_slice(offset, n) == [i \in 1..n |-> buf[offset + i - 1]]

Fail(op) ==
  /\ ret' = Result(op, FALSE, << >>)
  /\ UNCHANGED <<buf, size, front, len, aborted>>

Abort ==
  /\ aborted' = TRUE
  /\ UNCHANGED <<buf, size, front, len, ret>>

\* Mutant: the write position does not wrap around.
Back_NoWrap == front + len

\* Where the next chunk is copied to.
Back == (front + len) % size

\* The order of the copies and the two counters does not matter to a caller.
mem_ring_enqueue(chunk) ==
  /\ ~aborted
  /\ \/ /\ size < len + Len(chunk)
        /\ Fail("enqueue")
     \/ /\ size >= len + Len(chunk)
        /\ ~mem_block_slice_ok(Back, Len(chunk))
        /\ Abort
     \/ /\ size >= len + Len(chunk)
        /\ mem_block_slice_ok(Back, Len(chunk))
        /\ len' = len + Len(chunk)
        /\ buf' = [o \in Offsets |->
                     IF o \in Back .. Back + Len(chunk) - 1
                     THEN chunk[o - Back + 1] ELSE buf[o]]
        /\ ret' = Result("enqueue", TRUE, << >>)
        /\ UNCHANGED <<size, front, aborted>>

\* Mutant: the front does not wrap around.
Skip_NoWrap(n) ==
  /\ front' = front + n
  /\ len' = len - n

\* Mutant: the front moves, the length is not reduced.
Skip_KeepLen(n) ==
  /\ front' = (front + n) % size
  /\ UNCHANGED len

\* Advance past the n oldest bytes.
Skip(n) ==
  /\ front' = (front + n) % size
  /\ len' = len - n

mem_ring_dequeue(n) ==
  /\ ~aborted
  /\ \/ len < n /\ Fail("dequeue")
     \/ len >= n /\ ~mem_block_slice_ok(front, n) /\ Abort
     \/ /\ len >= n
        /\ mem_block_slice_ok(front, n)
        /\ Skip(n)
        /\ ret' = Result("dequeue", TRUE, mem_block_slice(front, n))
        /\ UNCHANGED <<buf, size, aborted>>

mem_ring_drop(n) ==
  /\ ~aborted
  /\ \/ len < n /\ Fail("drop")
     \/ /\ len >= n
        /\ Skip(n)
        /\ ret' = Result("drop", TRUE, << >>)
        /\ UNCHANGED <<buf, size, aborted>>

\* The caller gets an address; "data" is what it reads there.
mem_ring_peek(n) ==
  /\ ~aborted
  /\ \/ len < n /\ Fail("peek")
     \/ len >= n /\ ~mem_block_slice_ok(front, n) /\ Abort
     \/ /\ len >= n
        /\ mem_block_slice_ok(front, n)
        /\ ret' = Result("peek", TRUE, mem_block_slice(front, n))
        /\ UNCHANGED <<buf, size, front, len, aborted>>

mem_ring_is_empty ==
  /\ ~aborted
  /\ ret' = Result("is_empty", len > 0, << >>)
  /\ UNCHANGED <<buf, size, front, len, aborted>>

\* The block is gone: its size and capacity are 0.
mem_ring_free ==
  /\ ~aborted
  /\ size' = 0
  /\ front' = 0
  /\ len' = 0
  /\ ret' = Result("free", TRUE, << >>)
  /\ UNCHANGED <<buf, aborted>>

Next ==
  \/ \E chunk \in Chunks : mem_ring_enqueue(chunk)
  \/ \E n \in ChunkLens :
       mem_ring_dequeue(n) \/ mem_ring_drop(n) \/ mem_ring_peek(n)
  \/ mem_ring_is_empty
  \/ mem_ring_free

Spec == mem_ring_alloc /\ [][Next]_vars

-----------------------------------------------------------------------------
(* Properties. *)

\* The two counters of the ring stay inside the block they index.
TypeOK ==
  /\ buf \in [Offsets -> Byte]
  /\ size \in {0, Capacity}
  /\ front \in Offsets
  /\ len \in 0 .. size
  /\ aborted \in BOOLEAN

\* No call ever trips the bounds assertion of mem_block_slice, in whatever
\* order the ring fills, wraps around and drains.
NoAbort == ~aborted

\* The queued bytes, read from front onwards around the end of the block.
Content == [i \in 1..len |-> buf[(front + i - 1) % size]]

Queue == INSTANCE ByteQueue WITH q <- Content, bound <- size

\* The ring is the queue that ring.h describes: what dequeue and peek return
\* are the oldest bytes, a call that does not fit is refused and changes
\* nothing, and no byte still queued is overwritten by a later enqueue.
ImplementsByteQueue == Queue!Spec
=============================================================================
