------------------------- MODULE MemRing_proofs -------------------------
(***************************************************************************)
(* For every block length and every set of chunk lengths the ring of       *)
(* mem/ring.c implements the byte queue of ring.h up to the assertion of   *)
(* mem_block_slice, and a caller that keeps to one chunk length dividing   *)
(* the capacity never meets that assertion: when it fails, two different   *)
(* lengths have been passed.                                               *)
(***************************************************************************)
EXTENDS MC_MemRing, SequenceTheorems, TLAPS

\* Positions in the ring exceed the block at most once, so that taking them
\* modulo its size subtracts the size at most once.
LEMMA WrapOnce ==
  ASSUME NEW c \in Nat \ {0}, NEW a \in Nat, a < 2 * c
  PROVE  a % c = IF a < c THEN a ELSE a - c
  <1>1. CASE a < c
    BY <1>1
  <1>2. CASE a >= c
    BY <1>2
  <1> QED BY <1>1, <1>2

\* The block's bytes and the counters stay in range: mem_ring_alloc
\* establishes it and every call of ring.c keeps it.
THEOREM TypeCorrect == Spec => []TypeOK
  <1>1. mem_ring_alloc => TypeOK
    BY RingAssumption DEF mem_ring_alloc, TypeOK, Offsets
  <1>2. TypeOK /\ [Next]_vars => TypeOK'
    <2> SUFFICES ASSUME TypeOK, [Next]_vars PROVE TypeOK'
      OBVIOUS
    <2> USE RingAssumption
    <2>1. ASSUME NEW op, Fail(op) PROVE TypeOK'
      BY <2>1 DEF TypeOK, Fail
    <2>2. CASE Abort
      BY <2>2 DEF TypeOK, Abort
    <2>3. ASSUME NEW n \in Nat \ {0}, len >= n, Skip(n)
          PROVE  front' \in Offsets /\ len' \in 0 .. size
      <3>1. size = Capacity
        BY <2>3 DEF TypeOK
      <3>2. front + n < 2 * Capacity
        BY <2>3, <3>1 DEF TypeOK, Offsets
      <3> QED BY <2>3, <3>1, <3>2, WrapOnce DEF TypeOK, Offsets, Skip
    <2>4. ASSUME NEW chunk \in Chunks, mem_ring_enqueue(chunk) PROVE TypeOK'
      <3> PICK n \in ChunkLens : chunk \in [1..n -> Byte]
        BY DEF Chunks
      <3>0. n \in Nat \ {0} /\ chunk \in Seq(Byte) /\ Len(chunk) = n
        OBVIOUS
      <3>1. CASE Fail("enqueue")
        BY <2>1, <3>1
      <3>2. CASE /\ size >= len + n
                 /\ mem_block_slice_ok(Back, n)
                 /\ len' = len + n
                 /\ buf' = [o \in Offsets |->
                              IF o \in Back .. Back + n - 1
                              THEN chunk[o - Back + 1] ELSE buf[o]]
                 /\ UNCHANGED <<size, front, aborted>>
        <4>1. size = Capacity
          BY <3>0, <3>2 DEF TypeOK
        <4>2. Back \in Nat
          BY <4>1 DEF TypeOK, Back, Offsets
        <4>3. \A o \in Offsets : o \in Back .. Back + n - 1 =>
                chunk[o - Back + 1] \in Byte
          BY <3>0, <4>2 DEF Offsets
        <4>4. buf' \in [Offsets -> Byte]
          BY <3>2, <4>3 DEF TypeOK
        <4> QED BY <3>0, <3>2, <4>1, <4>4 DEF TypeOK
      <3> QED BY <2>2, <2>4, <3>0, <3>1, <3>2 DEF mem_ring_enqueue
    <2>5. ASSUME NEW n \in ChunkLens, mem_ring_dequeue(n) PROVE TypeOK'
      BY <2>1, <2>2, <2>3, <2>5 DEF mem_ring_dequeue, TypeOK
    <2>6. ASSUME NEW n \in ChunkLens, mem_ring_drop(n) PROVE TypeOK'
      BY <2>1, <2>3, <2>6 DEF mem_ring_drop, TypeOK
    <2>7. ASSUME NEW n \in ChunkLens, mem_ring_peek(n) PROVE TypeOK'
      BY <2>1, <2>2, <2>7 DEF mem_ring_peek, TypeOK
    <2>8. CASE mem_ring_is_empty
      BY <2>8 DEF mem_ring_is_empty, TypeOK
    <2>9. CASE mem_ring_free
      BY <2>9 DEF mem_ring_free, TypeOK, Offsets
    <2>10. CASE UNCHANGED vars
      BY <2>10 DEF vars, TypeOK
    <2> QED BY <2>4, <2>5, <2>6, <2>7, <2>8, <2>9, <2>10 DEF Next
  <1> QED BY <1>1, <1>2, PTL DEF Spec

-----------------------------------------------------------------------------
(* Chunks of one length that divides the capacity never straddle its end. *)

\* The sink's use of the ring: every chunk is one frame of u bytes, and the
\* capacity is a whole number m of frames.
UniformChunks(u, m) ==
  /\ u \in Nat \ {0}
  /\ m \in Nat \ {0}
  /\ ChunkLens = {u}
  /\ Capacity = u * m

\* x is a whole number of chunks, at most lim of them.
Boundary(x, u, lim) == \E i \in 0 .. lim : x = u * i

\* The front and the length lie on chunk boundaries.
Aligned(u, m) == Boundary(front, u, m - 1) /\ Boundary(len, u, m)

LEMMA BoundaryZero ==
  ASSUME NEW u \in Nat, NEW lim \in Nat
  PROVE  Boundary(0, u, lim)
  <1> 0 \in 0 .. lim /\ 0 = u * 0
    OBVIOUS
  <1> QED BY DEF Boundary

LEMMA BoundaryOne ==
  ASSUME NEW u \in Nat, NEW lim \in Nat \ {0}
  PROVE  Boundary(u, u, lim)
  <1> 1 \in 0 .. lim /\ u = u * 1
    OBVIOUS
  <1> QED BY DEF Boundary

\* One chunk more, as long as it fits, or one chunk less.
LEMMA BoundaryStep ==
  ASSUME NEW u \in Nat \ {0}, NEW m \in Nat \ {0}, NEW x, Boundary(x, u, m)
  PROVE  /\ x + u <= u * m => Boundary(x + u, u, m)
         /\ x >= u => Boundary(x - u, u, m)
  <1> PICK i \in 0 .. m : x = u * i
    BY DEF Boundary
  <1>1. ASSUME x + u <= u * m PROVE Boundary(x + u, u, m)
    <2> i + 1 \in 0 .. m /\ x + u = u * (i + 1)
      BY <1>1
    <2> QED BY DEF Boundary
  <1>2. ASSUME x >= u PROVE Boundary(x - u, u, m)
    <2> i - 1 \in 0 .. m /\ x - u = u * (i - 1)
      BY <1>2
    <2> QED BY DEF Boundary
  <1> QED BY <1>1, <1>2

\* Two positions on chunk boundaries add up, around the end of the block, to
\* a position on a chunk boundary.
LEMMA BoundaryWrap ==
  ASSUME NEW u \in Nat \ {0}, NEW m \in Nat \ {0}, NEW c, c = u * m,
         NEW x, Boundary(x, u, m - 1), NEW y, Boundary(y, u, m)
  PROVE  Boundary((x + y) % c, u, m - 1)
  <1> PICK k \in 0 .. m - 1 : x = u * k
    BY DEF Boundary
  <1> PICK j \in 0 .. m : y = u * j
    BY DEF Boundary
  <1> DEFINE a == x + y
  <1>1. a = u * (k + j) /\ a - c = u * (k + j - m)
    OBVIOUS
  <1>2. c \in Nat \ {0} /\ a \in Nat /\ a < 2 * c
    OBVIOUS
  <1> HIDE DEF a
  <1>3. a % c = IF a < c THEN a ELSE a - c
    BY <1>2, WrapOnce
  <1>4. CASE k + j < m
    <2>1. u * (k + j) < u * m
      BY <1>4
    <2>2. a % c = u * (k + j)
      BY <1>1, <1>3, <2>1
    <2>3. k + j \in 0 .. m - 1
      BY <1>4
    <2> QED BY <2>2, <2>3 DEF Boundary, a
  <1>5. CASE k + j >= m
    <2>1. u * (k + j) >= u * m
      BY <1>5
    <2>2. a % c = u * (k + j - m)
      BY <1>1, <1>2, <1>3, <2>1
    <2>3. k + j - m \in 0 .. m - 1
      BY <1>5
    <2> QED BY <2>2, <2>3 DEF Boundary, a
  <1> QED BY <1>4, <1>5

\* A chunk that starts on a boundary inside the block ends inside it.
LEMMA BoundaryFits ==
  ASSUME NEW u \in Nat \ {0}, NEW m \in Nat \ {0}, NEW x,
         Boundary(x, u, m - 1)
  PROVE  x + u <= u * m
  <1> PICK k \in 0 .. m - 1 : x = u * k
    BY DEF Boundary
  <1> QED OBVIOUS

\* One call on the ring that passes the length u, or none at all.
CallOf(u) ==
  \/ \E chunk \in [1..u -> Byte] : mem_ring_enqueue(chunk)
  \/ mem_ring_dequeue(u) \/ mem_ring_drop(u) \/ mem_ring_peek(u)
  \/ mem_ring_is_empty
  \/ mem_ring_free
  \/ UNCHANGED vars

\* A call with a length that divides the capacity finds aligned counters and
\* leaves them aligned: its slice ends inside the block.
LEMMA AlignedCall ==
  ASSUME NEW u \in Nat \ {0}, NEW m \in Nat \ {0}, Capacity = u * m,
         TypeOK, ~aborted, Aligned(u, m), CallOf(u)
  PROVE  ~aborted' /\ Aligned(u, m)'
  <1> USE RingAssumption
  <1>a. Boundary(front, u, m - 1) /\ Boundary(len, u, m) /\ m - 1 \in Nat
    BY DEF Aligned
  <1>0. ASSUME UNCHANGED <<front, len, aborted>> PROVE ~aborted' /\ Aligned(u, m)'
    BY <1>0 DEF Aligned
  <1>1. ASSUME NEW op, Fail(op) PROVE ~aborted' /\ Aligned(u, m)'
    BY <1>0, <1>1 DEF Fail
  <1>2. size > 0 => size = u * m
    BY DEF TypeOK
  <1>3. size > 0 => mem_block_slice_ok(front, u)
    BY <1>2, <1>a, BoundaryFits DEF mem_block_slice_ok
  <1>4. size > 0 => mem_block_slice_ok(Back, u)
    <2> SUFFICES ASSUME size = u * m PROVE mem_block_slice_ok(Back, u)
      BY <1>2
    <2>1. Boundary(Back, u, m - 1)
      BY <1>a, BoundaryWrap DEF Back
    <2> QED BY <2>1, BoundaryFits DEF mem_block_slice_ok
  <1>5. ASSUME len >= u, Skip(u), aborted' = aborted
        PROVE  ~aborted' /\ Aligned(u, m)'
    <2>1. size = u * m
      BY <1>2, <1>5 DEF TypeOK
    <2>2. Boundary((front + u) % size, u, m - 1)
      BY <1>a, <2>1, BoundaryOne, BoundaryWrap
    <2>3. Boundary(len - u, u, m)
      BY <1>a, <1>5, BoundaryStep
    <2> QED BY <1>5, <1>a, <2>2, <2>3 DEF Skip, Aligned
  <1>6. ASSUME NEW chunk \in [1..u -> Byte], mem_ring_enqueue(chunk)
        PROVE  ~aborted' /\ Aligned(u, m)'
    <2>0. Len(chunk) = u
      OBVIOUS
    <2>1. CASE Fail("enqueue")
      BY <1>1, <2>1
    <2>2. CASE /\ size >= len + u
               /\ len' = len + u
               /\ UNCHANGED <<front, aborted>>
      <3>1. size = u * m
        BY <1>2, <2>2 DEF TypeOK
      <3>2. Boundary(len + u, u, m)
        BY <1>a, <2>2, <3>1, BoundaryStep DEF TypeOK
      <3> QED BY <1>a, <2>2, <3>2 DEF Aligned
    <2>3. size >= len + u => size > 0
      BY DEF TypeOK
    <2> QED BY <1>4, <1>6, <2>0, <2>1, <2>2, <2>3 DEF mem_ring_enqueue
  <1>7. len >= u => size > 0
    BY DEF TypeOK
  <1>8. CASE mem_ring_dequeue(u)
    BY <1>1, <1>3, <1>5, <1>7, <1>8 DEF mem_ring_dequeue
  <1>9. CASE mem_ring_drop(u)
    BY <1>1, <1>5, <1>9 DEF mem_ring_drop
  <1>10. CASE mem_ring_peek(u)
    BY <1>0, <1>1, <1>3, <1>7, <1>10 DEF mem_ring_peek
  <1>11. CASE mem_ring_is_empty
    BY <1>0, <1>11 DEF mem_ring_is_empty
  <1>12. CASE mem_ring_free
    BY <1>a, <1>12, BoundaryZero DEF mem_ring_free, Aligned
  <1>13. CASE UNCHANGED vars
    BY <1>0, <1>13 DEF vars
  <1> QED BY <1>6, <1>8, <1>9, <1>10, <1>11, <1>12, <1>13 DEF CallOf

\* The inductive invariant: no assertion failed yet, and the counters are
\* aligned.
AlignInv(u, m) ==
  /\ TypeOK
  /\ ~aborted
  /\ Aligned(u, m)

\* A caller such as the sink, all of whose chunks have one length dividing
\* the capacity, never trips the assertion in mem_block_slice.
THEOREM UniformNeverAborts ==
  ASSUME NEW u, NEW m, UniformChunks(u, m)
  PROVE  Spec => []NoAbort
  <1> USE RingAssumption
  <1>u. u \in Nat \ {0} /\ m \in Nat \ {0} /\ m - 1 \in Nat
        /\ ChunkLens = {u} /\ Capacity = u * m
    BY DEF UniformChunks
  <1>1. mem_ring_alloc => AlignInv(u, m)
    <2> SUFFICES ASSUME mem_ring_alloc PROVE AlignInv(u, m)
      OBVIOUS
    <2>1. TypeOK /\ ~aborted
      BY DEF mem_ring_alloc, TypeOK, Offsets
    <2>2. Aligned(u, m)
      BY <1>u, BoundaryZero DEF mem_ring_alloc, Aligned
    <2> QED BY <2>1, <2>2 DEF AlignInv
  <1>2. AlignInv(u, m) /\ [Next]_vars /\ TypeOK' => AlignInv(u, m)'
    <2> SUFFICES ASSUME AlignInv(u, m), [Next]_vars, TypeOK'
                 PROVE  AlignInv(u, m)'
      OBVIOUS
    <2>1. CallOf(u)
      BY <1>u DEF Next, CallOf, Chunks
    <2> QED BY <1>u, <2>1, AlignedCall DEF AlignInv
  <1>3. AlignInv(u, m) => NoAbort
    BY DEF AlignInv, NoAbort
  <1> QED BY <1>1, <1>2, <1>3, TypeCorrect, PTL DEF Spec

-----------------------------------------------------------------------------
(* A failed assertion is the work of two lengths. *)

\* Every length the callers may pass divides the capacity.
ChunksDivide == \A n \in ChunkLens : \E m \in Nat \ {0} : Capacity = n * m

\* The ring with its history of lengths is the ring.
LEMMA UsedIsRing == UsedSpec => Spec
  <1>1. UsedInit => mem_ring_alloc
    BY DEF UsedInit
  <1>2. [UsedNext]_<<vars, used>> => [Next]_vars
    BY DEF UsedNext, Next, vars
  <1> QED BY <1>1, <1>2, PTL DEF UsedSpec, Spec

\* The inductive invariant: before the first length is passed the ring is as
\* mem_ring_alloc left it (or freed), and while only one has been passed the
\* counters are aligned to it.
MixInv ==
  /\ used \subseteq ChunkLens
  /\ used = {} => ~aborted /\ front = 0 /\ len = 0
  /\ \A u \in ChunkLens, m \in Nat \ {0} :
       used = {u} /\ Capacity = u * m => ~aborted /\ Aligned(u, m)

\* mem_block_slice's assertion in block.c fails only after calls with two
\* different lengths, even though each of them alone divides the capacity:
\* whatever the order of the calls and wherever the ring wraps around.
THEOREM OnlyMixedAborts ==
  ASSUME ChunksDivide
  PROVE  UsedSpec => []AbortsOnlyIfMixed
  <1> USE RingAssumption
  <1>1. UsedInit => MixInv
    BY DEF UsedInit, mem_ring_alloc, MixInv
  <1>2. TypeOK /\ MixInv /\ [UsedNext]_<<vars, used>> => MixInv'
    <2> SUFFICES ASSUME TypeOK, MixInv, [UsedNext]_<<vars, used>> PROVE MixInv'
      OBVIOUS
    <2>1. ASSUME NEW n \in ChunkLens, CallOf(n), Passing(n) PROVE MixInv'
      <3>1. used' \subseteq ChunkLens /\ used' # {}
        BY <2>1 DEF MixInv, Passing
      <3>2. ASSUME NEW u \in ChunkLens, NEW m \in Nat \ {0},
                   used' = {u}, Capacity = u * m
            PROVE  ~aborted' /\ Aligned(u, m)'
        <4>1. u = n /\ (used = {} \/ used = {u})
          BY <2>1, <3>2 DEF Passing
        <4>2. CASE used = {}
          <5>1. ~aborted /\ front = 0 /\ len = 0
            BY <4>2 DEF MixInv
          <5>2. Aligned(u, m)
            BY <5>1, BoundaryZero DEF Aligned
          <5> QED BY <2>1, <3>2, <4>1, <5>1, <5>2, AlignedCall
        <4>3. CASE used = {u}
          <5>1. ~aborted /\ Aligned(u, m)
            BY <3>2, <4>3 DEF MixInv
          <5> QED BY <2>1, <3>2, <4>1, <5>1, AlignedCall
        <4> QED BY <4>1, <4>2, <4>3
      <3> QED BY <3>1, <3>2 DEF MixInv
    <2>2. ASSUME mem_ring_is_empty \/ mem_ring_free \/ UNCHANGED vars,
                 UNCHANGED used
          PROVE  MixInv'
      <3>1. used = {} => ~aborted' /\ front' = 0 /\ len' = 0
        BY <2>2 DEF MixInv, mem_ring_is_empty, mem_ring_free, vars
      <3>2. ASSUME NEW u \in ChunkLens, NEW m \in Nat \ {0},
                   used = {u}, Capacity = u * m
            PROVE  ~aborted' /\ Aligned(u, m)'
        <4>1. ~aborted /\ Aligned(u, m) /\ CallOf(u)
          BY <2>2, <3>2 DEF MixInv, CallOf
        <4> QED BY <3>2, <4>1, AlignedCall
      <3> QED BY <2>2, <3>1, <3>2 DEF MixInv
    <2>3. CASE UsedNext
      <3>1. ASSUME NEW chunk \in Chunks, mem_ring_enqueue(chunk), Passing(Len(chunk))
            PROVE  MixInv'
        <4> PICK n \in ChunkLens : chunk \in [1..n -> Byte]
          BY DEF Chunks
        <4>1. Len(chunk) = n
          OBVIOUS
        <4> QED BY <2>1, <3>1, <4>1 DEF CallOf
      <3>2. ASSUME NEW n \in ChunkLens, Passing(n),
                   mem_ring_dequeue(n) \/ mem_ring_drop(n) \/ mem_ring_peek(n)
            PROVE  MixInv'
        BY <2>1, <3>2 DEF CallOf
      <3> QED BY <2>2, <2>3, <3>1, <3>2 DEF UsedNext
    <2>4. CASE UNCHANGED <<vars, used>>
      BY <2>2, <2>4
    <2> QED BY <2>3, <2>4
  <1>3. MixInv => AbortsOnlyIfMixed
    <2> SUFFICES ASSUME MixInv, aborted, \A m, n \in used : m = n PROVE FALSE
      BY DEF AbortsOnlyIfMixed
    <2>1. PICK u \in used : used = {u}
      BY DEF MixInv
    <2>2. u \in ChunkLens
      BY DEF MixInv
    <2>3. PICK m \in Nat \ {0} : Capacity = u * m
      BY <2>2 DEF ChunksDivide
    <2> QED BY <2>1, <2>2, <2>3 DEF MixInv
  <1> QED BY <1>1, <1>2, <1>3, UsedIsRing, TypeCorrect, PTL DEF UsedSpec

-----------------------------------------------------------------------------
(* The ring implements the queue of ring.h. *)

\* The queued bytes as a function of the ring's fields.
View(b, f, l, c) == [i \in 1..l |-> b[(f + i - 1) % c]]

\* A position of at most one turn past the front, brought back into the block.
At(p) == IF p < Capacity THEN p ELSE p - Capacity

LEMMA ViewProperties ==
  ASSUME NEW b \in [Offsets -> Byte], NEW f \in Offsets,
         NEW c \in {0, Capacity}, NEW l \in 0 .. c
  PROVE  /\ View(b, f, l, c) \in Seq(Byte)
         /\ Len(View(b, f, l, c)) = l
         /\ \A i \in 1..l : View(b, f, l, c)[i] = b[At(f + i - 1)]
  <1> USE RingAssumption
  <1>1. ASSUME NEW i \in 1..l
        PROVE  (f + i - 1) % c = At(f + i - 1) /\ At(f + i - 1) \in Offsets
    <2>1. c = Capacity /\ f + i - 1 \in Nat /\ f + i - 1 < 2 * Capacity
      BY DEF Offsets
    <2> HIDE RingAssumption
    <2>2. (f + i - 1) % c = At(f + i - 1)
      BY <2>1, WrapOnce, RingAssumption DEF At
    <2> QED BY <2>1, <2>2, RingAssumption DEF At, Offsets
  <1>2. \A i \in 1..l : View(b, f, l, c)[i] = b[At(f + i - 1)] /\ b[At(f + i - 1)] \in Byte
    BY <1>1 DEF View
  <1>3. View(b, f, l, c) \in [1..l -> Byte] /\ l \in Nat
    BY <1>2 DEF View
  <1>4. View(b, f, l, c) \in Seq(Byte) /\ Len(View(b, f, l, c)) = l
    BY <1>3
  <1> QED BY <1>2, <1>4

\* The same for a block that was allocated.
LEMMA ViewFull ==
  ASSUME NEW b \in [Offsets -> Byte], NEW f \in Offsets, NEW l \in 0 .. Capacity
  PROVE  /\ View(b, f, l, Capacity) \in Seq(Byte)
         /\ Len(View(b, f, l, Capacity)) = l
         /\ \A i \in 1..l : View(b, f, l, Capacity)[i] = b[At(f + i - 1)]
  <1>1. Capacity \in {0, Capacity}
    OBVIOUS
  <1> QED BY <1>1, ViewProperties

LEMMA WrapAt ==
  ASSUME NEW f \in Offsets, NEW l \in 0 .. Capacity
  PROVE  (f + l) % Capacity = At(f + l) /\ At(f + l) \in Offsets
  <1>1. f + l \in Nat /\ f + l < 2 * Capacity
    BY RingAssumption DEF Offsets
  <1>2. (f + l) % Capacity = At(f + l)
    BY <1>1, WrapOnce, RingAssumption DEF At
  <1> QED BY <1>1, <1>2, RingAssumption DEF At, Offsets

\* Skipping the n oldest bytes leaves the rest of the queue.
LEMMA ViewSkip ==
  ASSUME NEW b \in [Offsets -> Byte], NEW f \in Offsets,
         NEW l \in 0 .. Capacity, NEW n \in 1 .. l, NEW g,
         g = (f + n) % Capacity
  PROVE  /\ g \in Offsets
         /\ View(b, g, l - n, Capacity) = SubSeq(View(b, f, l, Capacity), n + 1, l)
  <1> DEFINE s == View(b, f, l, Capacity)
             t == View(b, g, l - n, Capacity)
             r == SubSeq(s, n + 1, l)
  <1>1. g = At(f + n) /\ g \in Offsets
    BY WrapAt, RingAssumption
  <1>2. s \in Seq(Byte) /\ Len(s) = l /\ \A i \in 1..l : s[i] = b[At(f + i - 1)]
    BY ViewFull
  <1>3. l - n \in 0 .. Capacity
    BY RingAssumption
  <1>4. /\ t \in Seq(Byte) /\ Len(t) = l - n
        /\ \A i \in 1..(l - n) : t[i] = b[At(g + i - 1)]
    BY <1>1, <1>3, ViewProperties
  <1> HIDE DEF s, t
  <1>5. \A i \in (n + 1) .. l : s[i] \in Byte
    BY <1>2, ElementOfSeq
  <1>6. /\ r \in Seq(Byte) /\ Len(r) = l - n
        /\ \A i \in 1..(l - n) : r[i] = s[n + i]
    BY <1>5, SubSeqProperties, RingAssumption
  <1> HIDE DEF r
  <1>7. ASSUME NEW i \in 1..(l - n) PROVE t[i] = r[i]
    <2>1. At(g + i - 1) = At(f + (n + i) - 1)
      BY <1>1, RingAssumption DEF At, Offsets
    <2>2. n + i \in 1..l
      BY RingAssumption
    <2> QED BY <1>2, <1>4, <1>6, <2>1, <2>2
  <1>8. t = r
    BY <1>4, <1>6, <1>7, SeqEqual
  <1> QED BY <1>1, <1>8 DEF s, t, r

\* A slice at the front that stays inside the block is the queue's prefix.
LEMMA ViewPrefix ==
  ASSUME NEW b \in [Offsets -> Byte], NEW f \in Offsets,
         NEW l \in 0 .. Capacity, NEW n \in 1 .. l, f + n <= Capacity
  PROVE  [i \in 1..n |-> b[f + i - 1]] = SubSeq(View(b, f, l, Capacity), 1, n)
  <1> DEFINE s == View(b, f, l, Capacity)
             t == [i \in 1..n |-> b[f + i - 1]]
             r == SubSeq(s, 1, n)
  <1>1. s \in Seq(Byte) /\ Len(s) = l /\ \A i \in 1..l : s[i] = b[At(f + i - 1)]
    BY ViewFull
  <1> HIDE DEF s
  <1>2. \A i \in 1..n : At(f + i - 1) = f + i - 1 /\ f + i - 1 \in Offsets
    BY RingAssumption DEF At, Offsets
  <1>3. t \in Seq(Byte) /\ Len(t) = n /\ \A i \in 1..n : t[i] = b[f + i - 1]
    BY <1>2
  <1> HIDE DEF t
  <1>4. \A i \in 1 .. n : s[i] \in Byte
    BY <1>1, ElementOfSeq
  <1>5. r \in Seq(Byte) /\ Len(r) = n /\ \A i \in 1..n : r[i] = s[i]
    BY <1>4, SubSeqProperties, RingAssumption
  <1> HIDE DEF r
  <1>6. ASSUME NEW i \in 1..n PROVE t[i] = r[i]
    BY <1>1, <1>2, <1>3, <1>5
  <1>7. t = r
    BY <1>3, <1>5, <1>6, SeqEqual
  <1> QED BY <1>7 DEF s, t, r

\* The block after a chunk of n bytes is copied to offset k.
Written(b, k, n, chunk) ==
  [o \in Offsets |-> IF o \in k .. k + n - 1 THEN chunk[o - k + 1] ELSE b[o]]

\* Writing a chunk behind the queued bytes appends it and disturbs none of
\* them, even when the queue wraps around the end of the block.
LEMMA ViewAppend ==
  ASSUME NEW b \in [Offsets -> Byte], NEW f \in Offsets, NEW l \in 0 .. Capacity,
         NEW n \in Nat \ {0}, NEW chunk \in [1..n -> Byte],
         NEW m \in 0 .. Capacity, m = l + n,
         NEW k \in Offsets, k = At(f + l), k + n <= Capacity,
         NEW d \in [Offsets -> Byte], d = Written(b, k, n, chunk)
  PROVE  View(d, f, m, Capacity) = View(b, f, l, Capacity) \o chunk
  <1> DEFINE s == View(b, f, l, Capacity)
             t == View(d, f, m, Capacity)
             r == s \o chunk
  <1>0. chunk \in Seq(Byte) /\ Len(chunk) = n
    OBVIOUS
  <1>1. \A o \in Offsets : d[o] = IF o \in k .. k + n - 1
                                  THEN chunk[o - k + 1] ELSE b[o]
    BY DEF Written
  <1>2. s \in Seq(Byte) /\ Len(s) = l /\ \A i \in 1..l : s[i] = b[At(f + i - 1)]
    BY ViewFull
  <1>3. t \in Seq(Byte) /\ Len(t) = m /\ \A i \in 1..m : t[i] = d[At(f + i - 1)]
    BY ViewFull
  <1> HIDE DEF s, t
  <1>4. r \in Seq(Byte) /\ Len(r) = m
    BY <1>0, <1>2, ConcatProperties
  <1>5. \A i \in 1..m : r[i] = IF i <= l THEN s[i] ELSE chunk[i - l]
    <2>1. \A i \in 1..(Len(s) + Len(chunk)) :
            r[i] = IF i <= Len(s) THEN s[i] ELSE chunk[i - Len(s)]
      BY <1>0, <1>2, ConcatProperties
    <2> HIDE DEF r
    <2> QED BY <1>0, <1>2, <2>1
  <1> HIDE DEF r
  <1>6. ASSUME NEW i \in 1..m PROVE t[i] = r[i]
    <2>1. CASE i <= l
      <3>1. At(f + i - 1) \in Offsets /\ At(f + i - 1) \notin k .. k + n - 1
        BY <2>1, RingAssumption DEF At, Offsets
      <3>2. d[At(f + i - 1)] = b[At(f + i - 1)]
        BY <1>1, <3>1
      <3>3. i \in 1..l
        BY <2>1
      <3> QED BY <1>2, <1>3, <1>5, <2>1, <3>2, <3>3
    <2>2. CASE i > l
      <3>1. /\ At(f + i - 1) \in Offsets
            /\ At(f + i - 1) \in k .. k + n - 1
            /\ At(f + i - 1) - k + 1 = i - l
        BY <2>2, RingAssumption DEF At, Offsets
      <3>2. d[At(f + i - 1)] = chunk[i - l]
        BY <1>1, <3>1
      <3>3. ~(i <= l)
        BY <2>2
      <3> QED BY <1>3, <1>5, <3>2, <3>3
    <2> QED BY <2>1, <2>2
  <1>7. t = r
    BY <1>3, <1>4, <1>6, SeqEqual
  <1> QED BY <1>7 DEF s, t, r

\* For every capacity and every set of chunk lengths, ring.c is the queue
\* that ring.h describes, up to a failed assertion, which changes nothing.
THEOREM RingImplementsQueue == Spec => ImplementsByteQueue
  <1> USE RingAssumption
  <1>1. mem_ring_alloc => Queue!Init
    <2> SUFFICES ASSUME mem_ring_alloc PROVE Content = << >>
      BY DEF mem_ring_alloc, Queue!Init, Result, Queue!Result
    <2> QED BY DEF mem_ring_alloc, Content
  <1>2. TypeOK /\ TypeOK' /\ [Next]_vars => [Queue!Next]_(Queue!queueVars)
    <2> SUFFICES ASSUME TypeOK, TypeOK', [Next]_vars
                 PROVE  [Queue!Next]_(Queue!queueVars)
      OBVIOUS
    <2>1. /\ Content = View(buf, front, len, size)
          /\ Content' = View(buf', front', len', size')
      BY DEF Content, View
    <2>2. Content \in Seq(Byte) /\ Len(Content) = len
      BY <2>1, ViewProperties, ZenonT(60) DEF TypeOK
    <2>3. UNCHANGED <<buf, size, front, len>> => UNCHANGED Content
      BY <2>1
    <2>r. \A op, ok, data : Queue!Result(op, ok, data) = Result(op, ok, data)
      BY DEF Queue!Result, Result
    <2>f. ASSUME NEW op, Fail(op) PROVE Queue!Refuse(op)
      BY <2>3, <2>r, <2>f DEF Fail, Queue!Refuse
    <2>4. len > 0 \/ size > 0 => size = Capacity
      BY DEF TypeOK
    <2>5. ASSUME NEW n \in ChunkLens, len >= n, Skip(n), UNCHANGED <<buf, size>>
          PROVE  Content' = SubSeq(Content, n + 1, Len(Content))
      <3>1. size = Capacity /\ n \in 1 .. len
        BY <2>4, <2>5 DEF TypeOK
      <3>2. front' = (front + n) % Capacity /\ len' = len - n
        BY <2>5, <3>1 DEF Skip
      <3>3. View(buf, front', len - n, Capacity)
              = SubSeq(View(buf, front, len, Capacity), n + 1, len)
        BY <3>1, <3>2, ViewSkip, ZenonT(60) DEF TypeOK
      <3> QED BY <2>1, <2>2, <2>5, <3>1, <3>2, <3>3
    <2>6. ASSUME NEW n \in ChunkLens, len >= n, mem_block_slice_ok(front, n)
          PROVE  mem_block_slice(front, n) = SubSeq(Content, 1, n)
      BY <2>1, <2>4, <2>6, ViewPrefix
         DEF mem_block_slice, mem_block_slice_ok, TypeOK
    <2>7. CASE Abort
      BY <2>3, <2>7 DEF Abort, Queue!queueVars
    <2>8. ASSUME NEW chunk \in Chunks, mem_ring_enqueue(chunk)
          PROVE  Queue!Enqueue(chunk) \/ Abort
      <3> PICK n \in ChunkLens : chunk \in [1..n -> Byte]
        BY DEF Chunks
      <3>1. n \in Nat \ {0} /\ Len(chunk) = n
        OBVIOUS
      <3>2. CASE size < len + n /\ Fail("enqueue")
        BY <2>2, <2>f, <3>1, <3>2 DEF Queue!Enqueue, TypeOK
      <3>3. CASE /\ size >= len + n
                 /\ mem_block_slice_ok(Back, n)
                 /\ len' = len + n
                 /\ buf' = Written(buf, Back, n, chunk)
                 /\ ret' = Result("enqueue", TRUE, << >>)
                 /\ UNCHANGED <<size, front>>
        <4>1. size = Capacity
          BY <2>4, <3>1, <3>3 DEF TypeOK
        <4>2. Back = At(front + len) /\ Back \in Offsets
          BY <4>1, WrapAt DEF Back, TypeOK
        <4>3. Content' = Content \o chunk
          BY <2>1, <3>1, <3>3, <4>1, <4>2, ViewAppend, SMTT(60) DEF TypeOK, mem_block_slice_ok
        <4> QED BY <2>2, <2>r, <3>1, <3>3, <4>3 DEF Queue!Enqueue, TypeOK
      <3> QED BY <2>8, <3>1, <3>2, <3>3 DEF mem_ring_enqueue, Written
    <2>9. ASSUME NEW n \in ChunkLens, mem_ring_dequeue(n)
          PROVE  Queue!Dequeue(n) \/ Abort
      <3>1. CASE len < n /\ Fail("dequeue")
        BY <2>2, <2>f, <3>1 DEF Queue!Dequeue, TypeOK
      <3>2. CASE /\ len >= n
                 /\ mem_block_slice_ok(front, n)
                 /\ Skip(n)
                 /\ ret' = Result("dequeue", TRUE, mem_block_slice(front, n))
                 /\ UNCHANGED <<buf, size, aborted>>
        BY <2>2, <2>5, <2>6, <2>r, <3>2 DEF Queue!Dequeue, TypeOK
      <3> QED BY <2>9, <3>1, <3>2 DEF mem_ring_dequeue
    <2>10. ASSUME NEW n \in ChunkLens, mem_ring_drop(n) PROVE Queue!Drop(n)
      <3>1. CASE len < n /\ Fail("drop")
        BY <2>2, <2>f, <3>1 DEF Queue!Drop, TypeOK
      <3>2. CASE /\ len >= n
                 /\ Skip(n)
                 /\ ret' = Result("drop", TRUE, << >>)
                 /\ UNCHANGED <<buf, size, aborted>>
        BY <2>2, <2>5, <2>r, <3>2 DEF Queue!Drop, TypeOK
      <3> QED BY <2>10, <3>1, <3>2 DEF mem_ring_drop
    <2>11. ASSUME NEW n \in ChunkLens, mem_ring_peek(n)
           PROVE  Queue!Peek(n) \/ Abort
      <3>1. CASE len < n /\ Fail("peek")
        BY <2>2, <2>f, <3>1 DEF Queue!Peek, TypeOK
      <3>2. CASE /\ len >= n
                 /\ mem_block_slice_ok(front, n)
                 /\ ret' = Result("peek", TRUE, mem_block_slice(front, n))
                 /\ UNCHANGED <<buf, size, front, len, aborted>>
        BY <2>2, <2>3, <2>6, <2>r, <3>2 DEF Queue!Peek, TypeOK
      <3> QED BY <2>11, <3>1, <3>2 DEF mem_ring_peek
    <2>12. ASSUME mem_ring_is_empty PROVE Queue!IsEmpty
      <3>1. (len > 0) = TRUE \/ (len > 0) = FALSE
        OBVIOUS
      <3>2. \E answer \in BOOLEAN : ret' = Result("is_empty", answer, << >>)
        BY <2>12, <3>1 DEF mem_ring_is_empty
      <3> QED BY <2>3, <2>12, <2>r, <3>2 DEF mem_ring_is_empty, Queue!IsEmpty
    <2>13. ASSUME mem_ring_free PROVE Queue!Free
      <3>1. Content' = << >>
        BY <2>13 DEF mem_ring_free, Content
      <3> QED BY <2>13, <2>r, <3>1 DEF mem_ring_free, Queue!Free
    <2>14. CASE UNCHANGED vars
      BY <2>3, <2>14 DEF vars, Queue!queueVars
    <2> QED BY <2>7, <2>8, <2>9, <2>10, <2>11, <2>12, <2>13, <2>14
            DEF Next, Queue!Next, Chunks, Queue!Chunks
  <1> QED BY <1>1, <1>2, TypeCorrect, PTL DEF Spec, ImplementsByteQueue, Queue!Spec
=============================================================================
