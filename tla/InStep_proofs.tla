--------------------------- MODULE InStep_proofs ---------------------------
(***************************************************************************)
(* The frames of a loan keep their places (InStep): whatever one datagram  *)
(* the network delays, loses, repeats or swaps, and whenever the sink is   *)
(* stopped, the n-th frame that entered the ring is the n-th that the      *)
(* source put, or the one that stands in for it.                           *)
(*                                                                         *)
(* The argument follows the line of a source: the messages it sent that    *)
(* the sink has yet to handle, those still on the network behind the one   *)
(* in hand.  A line is some BORROW followed by ENQUEUE whose frames are a  *)
(* piece of one of the orders in which a network that errs once can        *)
(* deliver all the frames there will ever be.                              *)
(***************************************************************************)
EXTENDS MC_Atolla, Atolla_proofs

\* One fault at most, a sink that fills a gap of one frame, and indices
\* enough to tell an overtaken frame from one far ahead (256 and 128).
OneFault ==
  /\ MaxFaults \in {0, 1}
  /\ MaxSkip \in Nat /\ MaxSkip >= 2
  /\ IdxMod > MaxSkip + 1

-----------------------------------------------------------------------------
(* The orders in which frames may arrive. *)

\* Where, if anywhere, the network erred: at the at-th delivery a frame is
\* missing, is repeated by the next delivery, or is overtaken by the next.
Orders == [kind : {"kept", "lost", "repeated", "swapped"}, at : Nat]

Kept == [kind |-> "kept", at |-> 0]

\* The frame delivered as the p-th, counting from 0.
Delivered(o, p) ==
  CASE o.kind = "kept"     -> p
    [] o.kind = "lost"     -> IF p < o.at THEN p ELSE p + 1
    [] o.kind = "repeated" -> IF p <= o.at THEN p ELSE p - 1
    [] o.kind = "swapped"  ->
         IF p = o.at THEN p + 1 ELSE IF p = o.at + 1 THEN p - 1 ELSE p

\* How many frames the ring has taken after p deliveries.
Filled(o, p) ==
  CASE o.kind = "kept"     -> p
    [] o.kind = "lost"     -> IF p <= o.at THEN p ELSE p + 1
    [] o.kind = "repeated" -> IF p <= o.at + 1 THEN p ELSE p - 1
    [] o.kind = "swapped"  -> IF p = o.at + 1 THEN p + 1 ELSE p

\* The fault lies before the p-th delivery.
Settled(o, p) ==
  CASE o.kind = "kept"                    -> TRUE
    [] o.kind = "lost"                    -> p >= o.at
    [] o.kind \in {"repeated", "swapped"} -> p >= o.at + 2

\* A delivery is at most one frame ahead of the ring and two behind; after
\* it the ring holds one more than the latest frame delivered.
LEMMA OrderFacts ==
  ASSUME NEW o \in Orders, NEW p \in Nat
  PROVE  /\ Delivered(o, p) \in Nat
         /\ Filled(o, p) \in Nat
         /\ Filled(o, 0) = 0
         /\ Filled(o, p) - 2 <= Delivered(o, p)
         /\ Delivered(o, p) <= Filled(o, p) + 1
         /\ Filled(o, p + 1) = IF Delivered(o, p) < Filled(o, p)
                               THEN Filled(o, p) ELSE Delivered(o, p) + 1
         /\ Settled(o, p) => /\ Settled(o, p + 1)
                             /\ Delivered(o, p + 1) = Delivered(o, p) + 1
  <1>1. o.kind \in {"kept", "lost", "repeated", "swapped"} /\ o.at \in Nat
    BY DEF Orders
  <1>2. CASE o.kind = "kept"
    BY <1>2 DEF Delivered, Filled, Settled
  <1>3. CASE o.kind = "lost"
    BY <1>1, <1>3 DEF Delivered, Filled, Settled
  <1>4. CASE o.kind = "repeated"
    BY <1>1, <1>4 DEF Delivered, Filled, Settled
  <1>5. CASE o.kind = "swapped"
    BY <1>1, <1>5 DEF Delivered, Filled, Settled
  <1> QED BY <1>1, <1>2, <1>3, <1>4, <1>5

\* The index of the last frame enqueued, after n frames.
LastIdx(n) == IF n = 0 THEN -1 ELSE (n - 1) % IdxMod

LEMMA ModNext ==
  ASSUME NEW n \in Nat
  PROVE  (n + 1) % IdxMod = IF (n % IdxMod) + 1 = IdxMod THEN 0 ELSE (n % IdxMod) + 1
  <1> DEFINE q == n \div IdxMod
             r == n % IdxMod
  <1>1. q \in Nat /\ r \in 0 .. IdxMod - 1 /\ n = IdxMod * q + r
    BY SourceAssumption
  <1>2. \A a \in Nat, b \in 0 .. IdxMod - 1 : (IdxMod * a + b) % IdxMod = b
    BY SourceAssumption
  <1>3. CASE r + 1 = IdxMod
    <2>1. n + 1 = IdxMod * (q + 1) + 0
      BY <1>1, <1>3, SourceAssumption
    <2> HIDE DEF q, r
    <2>2. (n + 1) % IdxMod = 0
      BY <1>1, <1>2, <2>1, SourceAssumption
    <2> QED BY <1>3, <2>2 DEF r
  <1>4. CASE r + 1 # IdxMod
    <2>1. n + 1 = IdxMod * q + (r + 1) /\ r + 1 \in 0 .. IdxMod - 1
      BY <1>1, <1>4, SourceAssumption
    <2> HIDE DEF q, r
    <2>2. (n + 1) % IdxMod = r + 1
      BY <1>1, <1>2, <2>1
    <2> QED BY <1>4, <2>2 DEF r
  <1> QED BY <1>3, <1>4

LEMMA LastIdxNext ==
  ASSUME OneFault, NEW n \in Nat
  PROVE  LastIdx(n + 1) = (LastIdx(n) + 1) % IdxMod
  <1>1. CASE n = 0
    BY <1>1, SourceAssumption DEF LastIdx, OneFault
  <1>2. CASE n # 0
    <2>1. n - 1 \in Nat /\ (n - 1) + 1 = n
      BY <1>2
    <2> DEFINE r == (n - 1) % IdxMod
    <2>2. r \in 0 .. IdxMod - 1 /\ n % IdxMod = IF r + 1 = IdxMod THEN 0 ELSE r + 1
      <3>1. r \in 0 .. IdxMod - 1
        BY <2>1, SourceAssumption
      <3>2. n % IdxMod = IF r + 1 = IdxMod THEN 0 ELSE r + 1
        BY <2>1, ModNext
      <3> QED BY <3>1, <3>2
    <2>3. (r + 1) % IdxMod = n % IdxMod
      <3> HIDE DEF r
      <3>1. CASE r + 1 = IdxMod
        BY <2>2, <3>1, SourceAssumption
      <3>2. CASE r + 1 # IdxMod
        BY <2>2, <3>2, ModSmall, SourceAssumption
      <3> QED BY <3>1, <3>2
    <2> QED BY <1>2, <2>3 DEF LastIdx
  <1> QED BY <1>1, <1>2

\* What bounded_diff makes of the index of frame t when n were enqueued: how
\* far it is ahead of the last one, or, for an overtaken frame, almost all
\* the way round.
LEMMA DiffFacts ==
  ASSUME OneFault, NEW n \in Nat, NEW t \in Nat, n - 2 <= t, t <= n + 1
  PROVE  K!bounded_diff(LastIdx(n), t % IdxMod, IdxMod)
           = IF t = n - 2 THEN IdxMod - 1 ELSE t - n + 1
  <1> DEFINE M == IdxMod
             d == K!bounded_diff(LastIdx(n), t % M, M)
  <1>0. M \in Nat /\ M > 3
    BY SourceAssumption DEF OneFault
  <1>1. CASE n = 0
    <2>1. t % M = t
      BY <1>0, <1>1, ModSmall
    <2> QED BY <1>0, <1>1, <2>1 DEF K!bounded_diff, LastIdx
  <1>2. CASE n > 0
    <2> DEFINE x == (n - 1) % M
    <2>1. n - 1 \in Nat /\ x \in 0 .. M - 1
      BY <1>0, <1>2
    <2>2. d = IF t % M < x THEN M - x + (t % M) ELSE (t % M) - x
      BY <1>2 DEF K!bounded_diff, LastIdx
    <2>3. CASE t = n - 1
      <3>1. t % M = x
        BY <2>3
      <3> HIDE DEF x
      <3> QED BY <1>0, <2>1, <2>2, <2>3, <3>1
    <2>4. CASE t = n
      <3>1. t % M = IF x + 1 = M THEN 0 ELSE x + 1
        BY <2>1, <2>4, ModNext
      <3> HIDE DEF x
      <3> QED BY <1>0, <2>1, <2>2, <2>4, <3>1
    <2>5. CASE t = n + 1
      <3> DEFINE y == n % M
      <3>1. y = IF x + 1 = M THEN 0 ELSE x + 1
        BY <2>1, ModNext
      <3>2. t % M = IF y + 1 = M THEN 0 ELSE y + 1
        BY <2>5, ModNext
      <3> HIDE DEF x, y
      <3> QED BY <1>0, <2>1, <2>2, <2>5, <3>1, <3>2
    <2>6. CASE t = n - 2
      <3>1. x = IF (t % M) + 1 = M THEN 0 ELSE (t % M) + 1
        BY <2>6, ModNext
      <3>2. t % M \in 0 .. M - 1
        BY <1>0
      <3> DEFINE z == t % M
      <3> HIDE DEF x, z
      <3> QED BY <1>0, <2>1, <2>2, <2>6, <3>1, <3>2 DEF z
    <2> QED BY <2>3, <2>4, <2>5, <2>6
  <1> QED BY <1>1, <1>2

-----------------------------------------------------------------------------
(* The line of a source. *)

Msgs(queue) == [i \in 1 .. Len(queue) |-> queue[i].msg]

\* The message of s in hand, and those on the network behind it.
Taken(s) == IF pc \in {"iterate", "enqueue"} /\ rx.from = s THEN rx.msgs ELSE << >>
Line(s) == Taken(s) \o Msgs(to_sink[s])

FrameMsg(s, t) == K!Enqueue(t % IdxMod, [by |-> s, tag |-> t], FALSE)

Waits(s) == src[s].state = "WAITING"
LentTo(s) == state = "LENT" /\ pc # "freed" /\ borrower_endpoint = s

\* The first b messages of the line are BORROW, the others ENQUEUE; a source
\* that waits for its loan has sent no frame.
Kinds(s, b) ==
  /\ b \in 0 .. Len(Line(s))
  /\ \A i \in 1 .. b : Line(s)[i].type = "BORROW"
  /\ \A i \in b + 1 .. Len(Line(s)) : Line(s)[i].type = "ENQUEUE"
  /\ Waits(s) => b = Len(Line(s))

\* No frame of s can have been enqueued yet.
Fresh(s, b) == b > 0 \/ Waits(s)

\* The loop that fills the ring brings the count from what it was before the
\* frame in hand to what it is after it.
Counted(o, c) ==
  IF pc = "enqueue"
  THEN Filled(o, c) <= queued /\ queued <= Delivered(o, c) + 1
  ELSE queued = Filled(o, c)

\* After c deliveries the frames of the line are the next ones of the order
\* o, and the source is about to put the one that follows.
Placed(s, b, o, c) ==
  /\ \A i \in b + 1 .. Len(Line(s)) :
       Line(s)[i] = FrameMsg(s, Delivered(o, c + i - b - 1))
  /\ src[s].frames = Delivered(o, c + Len(Line(s)) - b)
  /\ Settled(o, c + Len(Line(s)) - b)
  /\ faults = 0 => o.kind = "kept"
  /\ Fresh(s, b) => c = 0 /\ (LentTo(s) => queued = 0)
  /\ LentTo(s) => Counted(o, c)

\* The line is that of a source which is to be lent the sink, or has it.  A
\* source that lost its loan never borrows again.
Stream(s) ==
  \E b \in Nat :
    /\ Kinds(s, b)
    /\ Fresh(s, b) \/ LentTo(s) => \E o \in Orders, c \in Nat : Placed(s, b, o, c)

-----------------------------------------------------------------------------
(* What a step does to a line. *)

\* Nothing: it concerns neither the line nor, for the worse, the loan.
LEMMA LineKept ==
  ASSUME NEW s \in Sources, Stream(s), Line(s)' = Line(s),
         src'[s].frames = src[s].frames, Waits(s)' => Waits(s),
         faults' = 0 => faults = 0,
         LentTo(s)' => /\ LentTo(s) /\ queued' = queued
                       /\ pc' = "enqueue" <=> pc = "enqueue"
  PROVE  Stream(s)'
  <1>1. PICK b \in Nat :
          /\ Kinds(s, b)
          /\ Fresh(s, b) \/ LentTo(s) => \E o \in Orders, c \in Nat : Placed(s, b, o, c)
    BY DEF Stream
  <1>2. Kinds(s, b)'
    BY <1>1 DEF Kinds
  <1>3. (Fresh(s, b) \/ LentTo(s))' => Fresh(s, b) \/ LentTo(s)
    BY DEF Fresh
  <1>4. ASSUME NEW o \in Orders, NEW c \in Nat, Placed(s, b, o, c)
        PROVE  Placed(s, b, o, c)'
    BY <1>4 DEF Placed, Counted, Fresh
  <1> QED BY <1>1, <1>2, <1>3, <1>4 DEF Stream

\* Another BORROW, while the source waits.
LEMMA LineBorrows ==
  ASSUME NEW s \in Sources, Stream(s), NEW S, Line(s) \in Seq(S),
         NEW m \in S, m.type = "BORROW",
         Line(s)' = Append(Line(s), m), Waits(s), Waits(s)',
         src'[s].frames = src[s].frames, faults' = faults,
         LentTo(s)' => LentTo(s), queued' = queued, pc' = pc
  PROVE  Stream(s)'
  <1> DEFINE n == Len(Line(s))
  <1>1. PICK b \in Nat :
          /\ Kinds(s, b)
          /\ \E o \in Orders, c \in Nat : Placed(s, b, o, c)
    BY DEF Stream, Fresh
  <1>2. PICK o \in Orders, c \in Nat : Placed(s, b, o, c)
    BY <1>1
  <1>3. /\ n \in Nat /\ b = n
        /\ Len(Line(s)') = n + 1 /\ Line(s)'[n + 1] = m
        /\ \A i \in 1 .. n : Line(s)'[i] = Line(s)[i]
    BY <1>1, AppendProperties, LenProperties DEF Kinds
  <1>4. Kinds(s, b + 1)'
    BY <1>1, <1>3 DEF Kinds
  <1>5. Placed(s, b + 1, o, c)'
    BY <1>2, <1>3 DEF Placed, Fresh, Counted
  <1> QED BY <1>4, <1>5 DEF Stream

\* Another frame.
LEMMA LineGrows ==
  ASSUME NEW s \in Sources, Stream(s), NEW S, Line(s) \in Seq(S),
         FrameMsg(s, src[s].frames) \in S,
         Line(s)' = Append(Line(s), FrameMsg(s, src[s].frames)),
         ~Waits(s), ~Waits(s)',
         src'[s].frames = src[s].frames + 1, faults' = faults,
         LentTo(s)' => LentTo(s), queued' = queued, pc' = pc
  PROVE  Stream(s)'
  <1> DEFINE n == Len(Line(s))
             m == FrameMsg(s, src[s].frames)
  <1>1. PICK b \in Nat :
          /\ Kinds(s, b)
          /\ Fresh(s, b) \/ LentTo(s) => \E o \in Orders, c \in Nat : Placed(s, b, o, c)
    BY DEF Stream
  <1>2. /\ n \in Nat /\ b <= n
        /\ Len(Line(s)') = n + 1 /\ Line(s)'[n + 1] = m
        /\ \A i \in 1 .. n : Line(s)'[i] = Line(s)[i]
    BY <1>1, AppendProperties, LenProperties DEF Kinds
  <1>3. m.type = "ENQUEUE"
    BY DEF FrameMsg, K!Enqueue
  <1>4. Kinds(s, b)'
    BY <1>1, <1>2, <1>3 DEF Kinds
  <1>5. ASSUME NEW o \in Orders, NEW c \in Nat, Placed(s, b, o, c)
        PROVE  Placed(s, b, o, c)'
    <2> DEFINE p == c + n - b
    <2>1. p \in Nat /\ src[s].frames = Delivered(o, p) /\ Settled(o, p)
      BY <1>2, <1>5 DEF Placed
    <2>2. Settled(o, p + 1) /\ Delivered(o, p + 1) = Delivered(o, p) + 1
      BY <2>1, OrderFacts
    <2>3. /\ c + (n + 1) - b = p + 1
          /\ c + (n + 1) - b - 1 = p
      BY <1>2
    <2>4. \A i \in b + 1 .. n + 1 : Line(s)'[i] = FrameMsg(s, Delivered(o, c + i - b - 1))
      <3> SUFFICES ASSUME NEW i \in b + 1 .. n + 1
                   PROVE  Line(s)'[i] = FrameMsg(s, Delivered(o, c + i - b - 1))
        OBVIOUS
      <3>1. CASE i <= n
        BY <1>2, <1>5, <3>1 DEF Placed
      <3>2. CASE i = n + 1
        BY <1>2, <2>1, <2>3, <3>2
      <3> QED BY <1>2, <3>1, <3>2
    <2> HIDE DEF n, m, p
    <2>5. src'[s].frames = Delivered(o, c + Len(Line(s)') - b) /\ Settled(o, c + Len(Line(s)') - b)
      BY <1>2, <2>1, <2>2, <2>3
    <2>6. \A i \in b + 1 .. Len(Line(s)') : Line(s)'[i] = FrameMsg(s, Delivered(o, c + i - b - 1))
      BY <1>2, <2>4
    <2> QED BY <1>5, <2>5, <2>6 DEF Placed, Fresh, Counted
  <1> QED BY <1>1, <1>4, <1>5 DEF Stream, Fresh

\* The line is lost, and with it the loan.
LEMMA LineCut ==
  ASSUME NEW s \in Sources, Line(s)' = << >>, ~LentTo(s)',
         Waits(s)' => src'[s].frames = 0
  PROVE  Stream(s)'
  <1>1. Kinds(s, 0)'
    BY DEF Kinds
  <1>2. Waits(s)' => Placed(s, 0, Kept, 0)'
    BY DEF Placed, Kept, Delivered, Settled
  <1>3. Kept \in Orders
    BY DEF Kept, Orders
  <1> QED BY <1>1, <1>2, <1>3 DEF Stream, Fresh
\* The sink handles a BORROW: if s has the loan afterwards, it is at its
\* beginning.
LEMMA LineBorrowTaken ==
  ASSUME NEW s \in Sources, Stream(s), NEW S, Line(s) \in Seq(S),
         Line(s) # << >>, Line(s)[1].type = "BORROW", Line(s)' = Tail(Line(s)),
         src' = src, faults' = faults, pc' # "enqueue",
         LentTo(s)' => queued' = 0 \/ (LentTo(s) /\ queued' = queued)
  PROVE  Stream(s)'
  <1> DEFINE n == Len(Line(s))
  <1>1. PICK b \in Nat :
          /\ Kinds(s, b)
          /\ Fresh(s, b) \/ LentTo(s) => \E o \in Orders, c \in Nat : Placed(s, b, o, c)
    BY DEF Stream
  <1>2. /\ n \in Nat \ {0} /\ b <= n
        /\ Len(Line(s)') = n - 1
        /\ \A i \in 1 .. n - 1 : Line(s)'[i] = Line(s)[i + 1]
    BY <1>1, HeadTailProperties, EmptySeq, LenProperties DEF Kinds
  <1>3. b > 0
    <2>1. b = 0 => 1 \in b + 1 .. Len(Line(s))
      BY <1>2
    <2>2. b = 0 => Line(s)[1].type = "ENQUEUE"
      BY <1>1, <2>1 DEF Kinds
    <2> QED BY <2>2
  <1>4. PICK o \in Orders, c \in Nat : Placed(s, b, o, c)
    BY <1>1, <1>3 DEF Fresh
  <1>5. b - 1 \in Nat /\ Kinds(s, b - 1)'
    <2>1. b - 1 \in 0 .. n - 1 /\ (b - 1) + 1 = b
      BY <1>2, <1>3
    <2>2. \A i \in 1 .. b - 1 : i + 1 \in 1 .. b /\ i \in 1 .. n - 1
      BY <1>2, <1>3
    <2>3. \A i \in b .. n - 1 : i + 1 \in b + 1 .. n /\ i \in 1 .. n - 1
      BY <1>2, <1>3
    <2>4. \A i \in 1 .. b - 1 : Line(s)'[i].type = "BORROW"
      BY <1>1, <1>2, <2>2, ZenonT(60) DEF Kinds
    <2>5. \A i \in b .. n - 1 : Line(s)'[i].type = "ENQUEUE"
      BY <1>1, <1>2, <2>3, ZenonT(60) DEF Kinds
    <2>6. Waits(s)' => b = n
      BY <1>1 DEF Kinds, Waits
    <2> HIDE DEF n
    <2> QED BY <1>2, <2>1, <2>4, <2>5, <2>6 DEF Kinds
  <1>6. c = 0 /\ (LentTo(s) => queued = 0)
    BY <1>3, <1>4 DEF Placed, Fresh
  <1>7. Placed(s, b - 1, o, c)'
    <2>1. \A i \in b .. n - 1 :
            Line(s)'[i] = FrameMsg(s, Delivered(o, c + i - (b - 1) - 1))
      <3> SUFFICES ASSUME NEW i \in b .. n - 1
                   PROVE  Line(s)'[i] = FrameMsg(s, Delivered(o, c + i - (b - 1) - 1))
        OBVIOUS
      <3>1. i + 1 \in b + 1 .. n /\ c + (i + 1) - b - 1 = c + i - (b - 1) - 1
        BY <1>2, <1>3
      <3>2. Line(s)[i + 1] = FrameMsg(s, Delivered(o, c + (i + 1) - b - 1))
        BY <1>4, <3>1 DEF Placed
      <3> QED BY <1>2, <1>3, <3>1, <3>2
    <2>2. c + (n - 1) - (b - 1) = c + n - b /\ (b - 1) + 1 = b
      BY <1>2, <1>3
    <2>3. LentTo(s)' => queued' = 0
      BY <1>6
    <2>4. Filled(o, c) = 0
      BY <1>6, OrderFacts
    <2> QED BY <1>2, <1>4, <1>6, <2>1, <2>2, <2>3, <2>4 DEF Placed, Fresh, Waits, Counted
  <1> QED BY <1>5, <1>7 DEF Stream

\* While s has the loan, a frame at the head of its line is the next of the
\* order, and none is missing from it.
LEMMA LineHead ==
  ASSUME NEW s \in Sources, Stream(s), NEW S, Line(s) \in Seq(S),
         Line(s) # << >>, Line(s)[1].type = "ENQUEUE", LentTo(s)
  PROVE  /\ ~Waits(s)
         /\ \E o \in Orders, c \in Nat :
              /\ Kinds(s, 0) /\ Placed(s, 0, o, c)
              /\ Line(s)[1] = FrameMsg(s, Delivered(o, c))
  <1> DEFINE n == Len(Line(s))
  <1>1. PICK b \in Nat : Kinds(s, b) /\ \E o \in Orders, c \in Nat : Placed(s, b, o, c)
    BY DEF Stream
  <1>2. n \in Nat \ {0}
    BY EmptySeq
  <1>3. b = 0
    BY <1>1, <1>2 DEF Kinds
  <1>4. PICK o \in Orders, c \in Nat : Placed(s, 0, o, c)
    BY <1>1, <1>3
  <1>5. Line(s)[1] = FrameMsg(s, Delivered(o, c))
    BY <1>2, <1>4 DEF Placed
  <1> QED BY <1>1, <1>2, <1>3, <1>4, <1>5 DEF Kinds

\* The sink is done with a frame.  If it came from the borrower, the ring
\* holds all that it should.
LEMMA LineFrameTaken ==
  ASSUME NEW s \in Sources, Stream(s), NEW S, Line(s) \in Seq(S),
         Line(s) # << >>, Line(s)[1].type = "ENQUEUE", Line(s)' = Tail(Line(s)),
         src' = src, faults' = faults, pc' # "enqueue",
         LentTo(s)' =>
           /\ LentTo(s) /\ queued' = queued
           /\ \A o \in Orders, c \in Nat :
                Placed(s, 0, o, c) /\ Line(s)[1] = FrameMsg(s, Delivered(o, c)) =>
                  queued = Filled(o, c + 1)
  PROVE  Stream(s)'
  <1> DEFINE n == Len(Line(s))
  <1>1. PICK b \in Nat : Kinds(s, b)
    BY DEF Stream
  <1>2. /\ n \in Nat \ {0}
        /\ Len(Line(s)') = n - 1
        /\ \A i \in 1 .. n - 1 : Line(s)'[i] = Line(s)[i + 1]
    BY HeadTailProperties, EmptySeq, LenProperties
  <1>3. b = 0 /\ ~Waits(s)
    <2>1. b > 0 => 1 \in 1 .. b
      OBVIOUS
    <2>2. b = 0
      BY <1>1, <2>1 DEF Kinds
    <2> QED BY <1>1, <1>2, <2>2 DEF Kinds
  <1>4. Kinds(s, 0)' /\ ~Fresh(s, 0)'
    BY <1>1, <1>2, <1>3 DEF Kinds, Waits, Fresh
  <1>5. ASSUME LentTo(s)' PROVE \E o \in Orders, c \in Nat : Placed(s, 0, o, c)'
    <2>1. PICK o \in Orders, c \in Nat :
            Placed(s, 0, o, c) /\ Line(s)[1] = FrameMsg(s, Delivered(o, c))
      BY <1>5, LineHead
    <2>2. queued' = Filled(o, c + 1)
      BY <1>5, <2>1
    <2>3. \A i \in 1 .. n - 1 :
            Line(s)'[i] = FrameMsg(s, Delivered(o, (c + 1) + i - 0 - 1))
      <3> SUFFICES ASSUME NEW i \in 1 .. n - 1
                   PROVE  Line(s)'[i] = FrameMsg(s, Delivered(o, (c + 1) + i - 0 - 1))
        OBVIOUS
      <3>1. i + 1 \in 0 + 1 .. n /\ c + (i + 1) - 0 - 1 = (c + 1) + i - 0 - 1
        BY <1>2
      <3>2. Line(s)[i + 1] = FrameMsg(s, Delivered(o, c + (i + 1) - 0 - 1))
        BY <2>1, <3>1 DEF Placed
      <3> QED BY <1>2, <3>1, <3>2
    <2>4. (c + 1) + (n - 1) - 0 = c + n - 0 /\ c + 1 \in Nat /\ 0 + 1 = 1
      BY <1>2
    <2>5. Placed(s, 0, o, c + 1)'
      BY <1>2, <1>4, <2>1, <2>2, <2>3, <2>4 DEF Placed, Counted
    <2> QED BY <2>4, <2>5
  <1> QED BY <1>4, <1>5 DEF Stream

\* The loop that fills the ring begins, or makes a turn.
LEMMA LineFills ==
  ASSUME NEW s \in Sources, Stream(s), NEW S, Line(s) \in Seq(S),
         Line(s) # << >>, Line(s)[1].type = "ENQUEUE", Line(s)' = Line(s),
         src' = src, faults' = faults, pc' = "enqueue", LentTo(s),
         \A o \in Orders, c \in Nat :
           Placed(s, 0, o, c) /\ Line(s)[1] = FrameMsg(s, Delivered(o, c)) =>
             Filled(o, c) <= queued' /\ queued' <= Delivered(o, c) + 1
  PROVE  Stream(s)'
  <1>1. PICK o \in Orders, c \in Nat :
          /\ Kinds(s, 0) /\ Placed(s, 0, o, c) /\ ~Waits(s)
          /\ Line(s)[1] = FrameMsg(s, Delivered(o, c))
    BY LineHead
  <1>2. Kinds(s, 0)' /\ ~Fresh(s, 0)'
    BY <1>1 DEF Kinds, Fresh, Waits
  <1>3. Placed(s, 0, o, c)'
    BY <1>1, <1>2 DEF Placed, Counted
  <1> QED BY <1>2, <1>3 DEF Stream
-----------------------------------------------------------------------------
(* What the network does to a line. *)

LEMMA RemoveFacts ==
  ASSUME NEW S, NEW q \in Seq(S), NEW i \in 1 .. Len(q)
  PROVE  /\ RemoveAt(q, i) \in Seq(S)
         /\ Len(RemoveAt(q, i)) = Len(q) - 1
         /\ \A j \in 1 .. Len(q) - 1 :
              RemoveAt(q, i)[j] = IF j < i THEN q[j] ELSE q[j + 1]
  <1> DEFINE a == SubSeq(q, 1, i - 1)
             z == SubSeq(q, i + 1, Len(q))
  <1>1. Len(q) \in Nat /\ \A j \in 1 .. Len(q) : q[j] \in S
    BY ElementOfSeq, LenProperties
  <1>2. /\ a \in Seq(S) /\ Len(a) = i - 1
        /\ \A j \in 1 .. i - 1 : a[j] = q[j]
    BY <1>1, SubSeqProperties
  <1>3. /\ z \in Seq(S) /\ Len(z) = Len(q) - i
        /\ \A j \in 1 .. Len(q) - i : z[j] = q[i + j]
    BY <1>1, SubSeqProperties
  <1>4. RemoveAt(q, i) = a \o z
    BY DEF RemoveAt
  <1> HIDE DEF a, z
  <1>5. /\ a \o z \in Seq(S)
        /\ Len(a \o z) = Len(q) - 1
        /\ \A j \in 1 .. Len(q) - 1 : (a \o z)[j] = IF j <= i - 1 THEN a[j] ELSE z[j - (i - 1)]
    BY <1>1, <1>2, <1>3, ConcatProperties
  <1>6. ASSUME NEW j \in 1 .. Len(q) - 1
        PROVE  (a \o z)[j] = IF j < i THEN q[j] ELSE q[j + 1]
    <2>1. CASE j < i
      BY <1>1, <1>2, <1>5, <2>1
    <2>2. CASE j >= i
      <3>1. j - (i - 1) \in 1 .. Len(q) - i /\ i + (j - (i - 1)) = j + 1
        BY <1>1, <2>2
      <3> QED BY <1>1, <1>3, <1>5, <2>2, <3>1
    <2>3. j < i \/ j >= i
      BY <1>1
    <2> QED BY <2>1, <2>2, <2>3
  <1> QED BY <1>4, <1>5, <1>6

LEMMA InsertFacts ==
  ASSUME NEW S, NEW q \in Seq(S), NEW i \in 1 .. Len(q)
  PROVE  /\ InsertAt(q, i, q[i]) \in Seq(S)
         /\ Len(InsertAt(q, i, q[i])) = Len(q) + 1
         /\ \A j \in 1 .. Len(q) + 1 :
              InsertAt(q, i, q[i])[j] = IF j <= i THEN q[j] ELSE q[j - 1]
  <1> DEFINE a == SubSeq(q, 1, i - 1)
             z == SubSeq(q, i, Len(q))
  <1>1. Len(q) \in Nat /\ \A j \in 1 .. Len(q) : q[j] \in S
    BY ElementOfSeq, LenProperties
  <1>2. /\ a \in Seq(S) /\ Len(a) = i - 1
        /\ \A j \in 1 .. i - 1 : a[j] = q[j]
    BY <1>1, SubSeqProperties
  <1>3. /\ z \in Seq(S) /\ Len(z) = Len(q) - i + 1
        /\ \A j \in 1 .. Len(q) - i + 1 : z[j] = q[i + j - 1]
    BY <1>1, SubSeqProperties
  <1>4. InsertAt(q, i, q[i]) = a \o <<q[i]>> \o z
    BY DEF InsertAt
  <1> DEFINE b == a \o <<q[i]>>
  <1>5. <<q[i]>> \in Seq(S) /\ Len(<<q[i]>>) = 1 /\ <<q[i]>>[1] = q[i]
    BY <1>1
  <1> HIDE DEF a, z
  <1>6. /\ b \in Seq(S) /\ Len(b) = i
        /\ \A j \in 1 .. i : b[j] = IF j <= i - 1 THEN a[j] ELSE <<q[i]>>[j - (i - 1)]
    BY <1>1, <1>2, <1>5, ConcatProperties
  <1>7. \A j \in 1 .. i : b[j] = q[j]
    <2> SUFFICES ASSUME NEW j \in 1 .. i PROVE b[j] = q[j]
      OBVIOUS
    <2>1. CASE j <= i - 1
      BY <1>2, <1>6, <2>1
    <2>2. CASE j = i
      <3>1. j - (i - 1) = 1 /\ ~(j <= i - 1)
        BY <2>2
      <3> QED BY <1>5, <1>6, <2>2, <3>1
    <2>3. j <= i - 1 \/ j = i
      BY <1>1
    <2> QED BY <2>1, <2>2, <2>3
  <1> HIDE DEF b
  <1>8. /\ b \o z \in Seq(S)
        /\ Len(b \o z) = Len(q) + 1
        /\ \A j \in 1 .. Len(q) + 1 : (b \o z)[j] = IF j <= i THEN b[j] ELSE z[j - i]
    <2>1. /\ b \o z \in Seq(S)
          /\ Len(b \o z) = Len(b) + Len(z)
          /\ \A j \in 1 .. Len(b) + Len(z) :
               (b \o z)[j] = IF j <= Len(b) THEN b[j] ELSE z[j - Len(b)]
      BY <1>3, <1>6, ConcatProperties
    <2>2. Len(b) + Len(z) = Len(q) + 1
      BY <1>1, <1>3, <1>6
    <2> QED BY <1>6, <2>1, <2>2
  <1>9. ASSUME NEW j \in 1 .. Len(q) + 1
        PROVE  (b \o z)[j] = IF j <= i THEN q[j] ELSE q[j - 1]
    <2>1. CASE j <= i
      BY <1>7, <1>8, <2>1
    <2>2. CASE j > i
      <3>1. j - i \in 1 .. Len(q) - i + 1 /\ i + (j - i) - 1 = j - 1
        BY <1>1, <2>2
      <3>2. z[j - i] = q[j - 1]
        BY <1>3, <3>1
      <3>3. ~(j <= i)
        BY <1>1, <2>2
      <3>4. (b \o z)[j] = z[j - i]
        BY <1>8, <3>3
      <3> QED BY <3>2, <3>3, <3>4
    <2>3. j <= i \/ j > i
      BY <1>1
    <2> QED BY <2>1, <2>2, <2>3
  <1> QED BY <1>4, <1>8, <1>9 DEF b

\* Two neighbours change places.
Exchange(q, i) ==
  [j \in 1 .. Len(q) |-> IF j = i THEN q[i + 1] ELSE IF j = i + 1 THEN q[i] ELSE q[j]]

LEMMA ExchangeFacts ==
  ASSUME NEW S, NEW q \in Seq(S), NEW i \in 1 .. Len(q) - 1
  PROVE  /\ Exchange(q, i) \in Seq(S)
         /\ Len(Exchange(q, i)) = Len(q)
         /\ \A j \in 1 .. Len(q) :
              Exchange(q, i)[j] = IF j = i THEN q[i + 1] ELSE IF j = i + 1 THEN q[i] ELSE q[j]
  <1>1. Len(q) \in Nat /\ \A j \in 1 .. Len(q) : q[j] \in S
    BY ElementOfSeq, LenProperties
  <1>2. Exchange(q, i) \in [1 .. Len(q) -> S]
    BY <1>1 DEF Exchange
  <1>3. \A n \in Nat : [1 .. n -> S] \subseteq Seq(S)
    OBVIOUS
  <1>4. Exchange(q, i) \in Seq(S)
    BY <1>1, <1>2, <1>3
  <1>5. Len(Exchange(q, i)) = Len(q)
    BY <1>1, <1>4, LenProperties DEF Exchange
  <1> QED BY <1>4, <1>5 DEF Exchange
\* One BORROW less, or one frame of the line will not be delivered.
LEMMA LineLoses ==
  ASSUME NEW s \in Sources, Stream(s), NEW S, Line(s) \in Seq(S),
         NEW k \in 1 .. Len(Line(s)), Line(s)' = RemoveAt(Line(s), k),
         src' = src, faults = 0, faults' # 0, pc # "enqueue", pc' # "enqueue",
         LentTo(s)' => LentTo(s), queued' = queued
  PROVE  Stream(s)'
  <1> DEFINE n == Len(Line(s))
  <1>1. PICK b \in Nat :
          /\ Kinds(s, b)
          /\ Fresh(s, b) \/ LentTo(s) => \E o \in Orders, c \in Nat : Placed(s, b, o, c)
    BY DEF Stream
  <1>2. /\ n \in Nat /\ b <= n /\ k \in 1 .. n
        /\ Len(Line(s)') = n - 1
        /\ \A j \in 1 .. n - 1 : Line(s)'[j] = IF j < k THEN Line(s)[j] ELSE Line(s)[j + 1]
    BY <1>1, RemoveFacts, LenProperties, SMTT(60) DEF Kinds
  <1>3. (Waits(s)' <=> Waits(s)) /\ (Fresh(s, b)' <=> Fresh(s, b))
    BY DEF Waits, Fresh
  <1> HIDE DEF n
  <1>4. CASE k <= b
    <2>1. b - 1 \in Nat /\ Kinds(s, b - 1)'
      <3>1. \A j \in 1 .. b - 1 : Line(s)'[j].type = "BORROW"
        <4>1. \A j \in 1 .. b - 1 : j \in 1 .. n - 1 /\ j \in 1 .. b /\ j + 1 \in 1 .. b
          BY <1>2
        <4> QED BY <1>1, <1>2, <4>1 DEF Kinds
      <3>2. \A j \in b .. n - 1 : Line(s)'[j].type = "ENQUEUE"
        <4>1. \A j \in b .. n - 1 : j \in 1 .. n - 1 /\ ~(j < k) /\ j + 1 \in b + 1 .. n
          BY <1>2, <1>4
        <4> QED BY <1>1, <1>2, <4>1 DEF Kinds, n
      <3>3. b - 1 \in 0 .. n - 1 /\ (b - 1) + 1 = b
        BY <1>2, <1>4
      <3>4. Waits(s)' => b - 1 = n - 1
        BY <1>1, <1>3 DEF Kinds, n
      <3> DEFINE d == b - 1
      <3>5. /\ d \in Nat /\ d \in 0 .. n - 1
            /\ \A j \in 1 .. d : Line(s)'[j].type = "BORROW"
            /\ \A j \in d + 1 .. n - 1 : Line(s)'[j].type = "ENQUEUE"
            /\ Waits(s)' => d = n - 1
        BY <1>2, <1>4, <3>1, <3>2, <3>3, <3>4
      <3> HIDE DEF d
      <3>6. d \in Nat /\ Kinds(s, d)'
        BY <1>2, <3>5 DEF Kinds
      <3> QED BY <3>6 DEF d
    <2>2. ASSUME NEW o \in Orders, NEW c \in Nat, Placed(s, b, o, c)
          PROVE  Placed(s, b - 1, o, c)'
      <3>1. \A j \in b .. n - 1 :
              Line(s)'[j] = FrameMsg(s, Delivered(o, c + j - (b - 1) - 1))
        <4> SUFFICES ASSUME NEW j \in b .. n - 1
                     PROVE  Line(s)'[j] = FrameMsg(s, Delivered(o, c + j - (b - 1) - 1))
          OBVIOUS
        <4>1. /\ j \in 1 .. n - 1 /\ ~(j < k) /\ j + 1 \in b + 1 .. n
              /\ c + (j + 1) - b - 1 = c + j - (b - 1) - 1
          BY <1>2, <1>4
        <4>2. Line(s)[j + 1] = FrameMsg(s, Delivered(o, c + (j + 1) - b - 1))
          BY <2>2, <4>1 DEF Placed, n
        <4>3. Line(s)'[j] = Line(s)[j + 1]
          BY <1>2, <4>1
        <4> QED BY <4>1, <4>2, <4>3
      <3>2. c + (n - 1) - (b - 1) = c + n - b /\ (b - 1) + 1 = b
        BY <1>2
      <3>3. Fresh(s, b)
        BY <1>2, <1>4 DEF Fresh
      <3> QED BY <1>2, <1>3, <2>2, <3>1, <3>2, <3>3 DEF Placed, Fresh, Counted, n
    <2>3. Fresh(s, b)
      BY <1>2, <1>4 DEF Fresh
    <2> QED BY <1>1, <2>1, <2>2, <2>3 DEF Stream
  <1>5. CASE k > b
    <2>1. Kinds(s, b)'
      <3>1. b \in 0 .. n - 1
        BY <1>2, <1>5
      <3>2. \A j \in 1 .. b : Line(s)'[j].type = "BORROW"
        <4>1. \A j \in 1 .. b : j \in 1 .. n - 1 /\ j < k
          BY <1>2, <1>5
        <4> QED BY <1>1, <1>2, <4>1 DEF Kinds
      <3>3. \A j \in b + 1 .. n - 1 : Line(s)'[j].type = "ENQUEUE"
        <4>1. \A j \in b + 1 .. n - 1 :
                j \in 1 .. n - 1 /\ j \in b + 1 .. n /\ j + 1 \in b + 1 .. n
          BY <1>2, <1>5
        <4> QED BY <1>1, <1>2, <4>1 DEF Kinds, n
      <3>4. ~Waits(s)'
        BY <1>1, <1>2, <1>3, <1>5 DEF Kinds, n
      <3> QED BY <1>2, <3>1, <3>2, <3>3, <3>4 DEF Kinds
    <2>2. ASSUME NEW o \in Orders, NEW c \in Nat, Placed(s, b, o, c)
          PROVE  \E x \in Orders : Placed(s, b, x, c)'
      <3> DEFINE x == [kind |-> "lost", at |-> c + k - b - 1]
      <3>1. x \in Orders /\ x.kind = "lost" /\ x.at = c + k - b - 1 /\ x.at \in Nat
        BY <1>2, <1>5 DEF Orders
      <3>2. \A p \in Nat : Delivered(o, p) = p /\ Filled(o, p) = p
        BY <2>2 DEF Placed, Delivered, Filled
      <3> HIDE DEF x
      <3>3. \A p \in Nat : /\ Delivered(x, p) = IF p < c + k - b - 1 THEN p ELSE p + 1
                           /\ Settled(x, p) <=> p >= c + k - b - 1
        BY <3>1 DEF Delivered, Settled
      <3>4. Filled(x, c) = c
        BY <1>2, <1>5, <3>1 DEF Filled
      <3>5. \A j \in b + 1 .. n - 1 : Line(s)'[j] = FrameMsg(s, Delivered(x, c + j - b - 1))
        <4> SUFFICES ASSUME NEW j \in b + 1 .. n - 1
                     PROVE  Line(s)'[j] = FrameMsg(s, Delivered(x, c + j - b - 1))
          OBVIOUS
        <4>1. /\ j \in 1 .. n - 1 /\ j \in b + 1 .. n /\ j + 1 \in b + 1 .. n
              /\ c + j - b - 1 \in Nat /\ c + (j + 1) - b - 1 = (c + j - b - 1) + 1
          BY <1>2
        <4>2. /\ Line(s)[j] = FrameMsg(s, Delivered(o, c + j - b - 1))
              /\ Line(s)[j + 1] = FrameMsg(s, Delivered(o, c + (j + 1) - b - 1))
          BY <2>2, <4>1 DEF Placed, n
        <4>3. CASE j < k
          <5>0. c + j - b - 1 < c + k - b - 1
            BY <1>2, <4>1, <4>3
          <5>1. Delivered(x, c + j - b - 1) = c + j - b - 1
            BY <3>3, <4>1, <5>0
          <5> QED BY <1>2, <3>2, <4>1, <4>2, <4>3, <5>1
        <4>4. CASE j >= k
          <5>0. ~(c + j - b - 1 < c + k - b - 1)
            BY <1>2, <4>1, <4>4
          <5>1. Delivered(x, c + j - b - 1) = (c + j - b - 1) + 1
            BY <3>3, <4>1, <5>0
          <5>2. Delivered(o, c + (j + 1) - b - 1) = (c + j - b - 1) + 1
            BY <3>2, <4>1
          <5>3. Line(s)'[j] = Line(s)[j + 1]
            BY <1>2, <4>1, <4>4
          <5> QED BY <4>2, <5>1, <5>2, <5>3
        <4> QED BY <1>2, <4>3, <4>4
      <3>6. src'[s].frames = Delivered(x, c + (n - 1) - b) /\ Settled(x, c + (n - 1) - b)
        <4>1. c + (n - 1) - b \in Nat /\ c + n - b = (c + (n - 1) - b) + 1 /\ c + n - b \in Nat
              /\ c + (n - 1) - b >= c + k - b - 1
          BY <1>2, <1>5, SMTT(60)
        <4>2. src[s].frames = c + n - b
          BY <2>2, <3>2, <4>1 DEF Placed, n
        <4> QED BY <3>3, <4>1, <4>2
      <3>7. LentTo(s)' => queued' = Filled(x, c)
        BY <2>2, <3>2, <3>4 DEF Placed, Counted
      <3> QED BY <1>2, <1>3, <2>2, <3>1, <3>5, <3>6, <3>7 DEF Placed, Fresh, Counted
    <2>3. (Fresh(s, b) \/ LentTo(s))' => Fresh(s, b) \/ LentTo(s)
      BY <1>3
    <2> QED BY <1>1, <2>1, <2>2, <2>3 DEF Stream
  <1> QED BY <1>2, <1>4, <1>5
\* One BORROW more, or a frame of the line will be delivered twice.
LEMMA LineRepeats ==
  ASSUME NEW s \in Sources, Stream(s), NEW S, Line(s) \in Seq(S),
         NEW k \in 1 .. Len(Line(s)), Line(s)' = InsertAt(Line(s), k, Line(s)[k]),
         src' = src, faults = 0, faults' # 0, pc # "enqueue", pc' # "enqueue",
         LentTo(s)' => LentTo(s), queued' = queued
  PROVE  Stream(s)'
  <1> DEFINE n == Len(Line(s))
  <1>1. PICK b \in Nat :
          /\ Kinds(s, b)
          /\ Fresh(s, b) \/ LentTo(s) => \E o \in Orders, c \in Nat : Placed(s, b, o, c)
    BY DEF Stream
  <1>2. /\ n \in Nat /\ b <= n /\ k \in 1 .. n
        /\ Len(Line(s)') = n + 1
        /\ \A j \in 1 .. n + 1 : Line(s)'[j] = IF j <= k THEN Line(s)[j] ELSE Line(s)[j - 1]
    BY <1>1, InsertFacts, LenProperties DEF Kinds
  <1>3. (Waits(s)' <=> Waits(s)) /\ (Fresh(s, b)' <=> Fresh(s, b))
    BY DEF Waits, Fresh
  <1> HIDE DEF n
  <1>4. CASE k <= b
    <2>1. b + 1 \in Nat /\ Kinds(s, b + 1)'
      <3>1. \A j \in 1 .. b + 1 : Line(s)'[j].type = "BORROW"
        <4>1. \A j \in 1 .. b + 1 :
                j \in 1 .. n + 1 /\ (j <= k => j \in 1 .. b) /\ (j > k => j - 1 \in 1 .. b)
          BY <1>2, <1>4
        <4>2. \A j \in 1 .. b + 1 : j <= k \/ j > k
          BY <1>2
        <4> QED BY <1>1, <1>2, <4>1, <4>2, ZenonT(60) DEF Kinds
      <3>2. \A j \in (b + 1) + 1 .. n + 1 : Line(s)'[j].type = "ENQUEUE"
        <4>1. \A j \in (b + 1) + 1 .. n + 1 :
                j \in 1 .. n + 1 /\ ~(j <= k) /\ j - 1 \in b + 1 .. n
          BY <1>2, <1>4
        <4> QED BY <1>1, <1>2, <4>1 DEF Kinds, n
      <3>3. b + 1 \in 0 .. n + 1
        BY <1>2
      <3>4. Waits(s)' => b = n
        BY <1>1, <1>3 DEF Kinds, n
      <3> QED BY <1>2, <3>1, <3>2, <3>3, <3>4 DEF Kinds
    <2>2. ASSUME NEW o \in Orders, NEW c \in Nat, Placed(s, b, o, c)
          PROVE  Placed(s, b + 1, o, c)'
      <3>1. \A j \in (b + 1) + 1 .. n + 1 :
              Line(s)'[j] = FrameMsg(s, Delivered(o, c + j - (b + 1) - 1))
        <4> SUFFICES ASSUME NEW j \in (b + 1) + 1 .. n + 1
                     PROVE  Line(s)'[j] = FrameMsg(s, Delivered(o, c + j - (b + 1) - 1))
          OBVIOUS
        <4>1. /\ j \in 1 .. n + 1 /\ ~(j <= k) /\ j - 1 \in b + 1 .. n
              /\ c + (j - 1) - b - 1 = c + j - (b + 1) - 1
          BY <1>2, <1>4
        <4>2. Line(s)[j - 1] = FrameMsg(s, Delivered(o, c + (j - 1) - b - 1))
          BY <2>2, <4>1 DEF Placed, n
        <4> QED BY <1>2, <4>1, <4>2
      <3>2. c + (n + 1) - (b + 1) = c + n - b
        BY <1>2
      <3>3. Fresh(s, b)
        BY <1>2, <1>4 DEF Fresh
      <3> QED BY <1>2, <1>3, <2>2, <3>1, <3>2, <3>3 DEF Placed, Fresh, Counted, n
    <2>3. Fresh(s, b)
      BY <1>2, <1>4 DEF Fresh
    <2> QED BY <1>1, <2>1, <2>2, <2>3 DEF Stream
  <1>5. CASE k > b
    <2>1. Kinds(s, b)'
      <3>1. b \in 0 .. n + 1
        BY <1>2
      <3>2. \A j \in 1 .. b : Line(s)'[j].type = "BORROW"
        <4>1. \A j \in 1 .. b : j \in 1 .. n + 1 /\ j <= k
          BY <1>2, <1>5
        <4> QED BY <1>1, <1>2, <4>1 DEF Kinds
      <3>3. \A j \in b + 1 .. n + 1 : Line(s)'[j].type = "ENQUEUE"
        <4>1. \A j \in b + 1 .. n + 1 :
                /\ j \in 1 .. n + 1
                /\ j <= k => j \in b + 1 .. n
                /\ ~(j <= k) => j - 1 \in b + 1 .. n
          BY <1>2, <1>5
        <4> QED BY <1>1, <1>2, <4>1, ZenonT(60) DEF Kinds, n
      <3>4. ~Waits(s)'
        BY <1>1, <1>2, <1>3, <1>5 DEF Kinds, n
      <3> QED BY <1>2, <3>1, <3>2, <3>3, <3>4 DEF Kinds
    <2>2. ASSUME NEW o \in Orders, NEW c \in Nat, Placed(s, b, o, c)
          PROVE  \E x \in Orders : Placed(s, b, x, c)'
      <3> DEFINE x == [kind |-> "repeated", at |-> c + k - b - 1]
      <3>1. x \in Orders /\ x.kind = "repeated" /\ x.at = c + k - b - 1 /\ x.at \in Nat
        BY <1>2, <1>5 DEF Orders
      <3>2. \A p \in Nat : Delivered(o, p) = p /\ Filled(o, p) = p
        BY <2>2 DEF Placed, Delivered, Filled
      <3> HIDE DEF x
      <3>3. \A p \in Nat : /\ Delivered(x, p) = IF p <= c + k - b - 1 THEN p ELSE p - 1
                           /\ Settled(x, p) <=> p >= c + k - b - 1 + 2
        BY <3>1 DEF Delivered, Settled
      <3>4. Filled(x, c) = c
        BY <1>2, <1>5, <3>1 DEF Filled
      <3>5. \A j \in b + 1 .. n + 1 : Line(s)'[j] = FrameMsg(s, Delivered(x, c + j - b - 1))
        <4> SUFFICES ASSUME NEW j \in b + 1 .. n + 1
                     PROVE  Line(s)'[j] = FrameMsg(s, Delivered(x, c + j - b - 1))
          OBVIOUS
        <4>1. j \in 1 .. n + 1 /\ c + j - b - 1 \in Nat
          BY <1>2
        <4>2. CASE j <= k
          <5>1. j \in b + 1 .. n /\ c + j - b - 1 <= c + k - b - 1
            BY <1>2, <4>2
          <5>2. Line(s)[j] = FrameMsg(s, Delivered(o, c + j - b - 1))
            BY <2>2, <5>1 DEF Placed, n
          <5>3. Delivered(x, c + j - b - 1) = c + j - b - 1
            BY <3>3, <4>1, <5>1
          <5> QED BY <1>2, <3>2, <4>1, <4>2, <5>2, <5>3
        <4>3. CASE j > k
          <5>1. /\ j - 1 \in b + 1 .. n /\ ~(c + j - b - 1 <= c + k - b - 1)
                /\ c + (j - 1) - b - 1 \in Nat /\ c + (j - 1) - b - 1 = (c + j - b - 1) - 1
            BY <1>2, <1>5, <4>3
          <5>2. Line(s)[j - 1] = FrameMsg(s, Delivered(o, c + (j - 1) - b - 1))
            BY <2>2, <5>1 DEF Placed, n
          <5>3. Delivered(x, c + j - b - 1) = (c + j - b - 1) - 1
            BY <3>3, <4>1, <5>1
          <5>4. Line(s)'[j] = Line(s)[j - 1]
            BY <1>2, <4>1, <4>3
          <5>5. Delivered(o, c + (j - 1) - b - 1) = (c + j - b - 1) - 1
            BY <3>2, <5>1
          <5> QED BY <5>2, <5>3, <5>4, <5>5
        <4>4. j <= k \/ j > k
          BY <1>2
        <4> QED BY <4>2, <4>3, <4>4
      <3>6. src'[s].frames = Delivered(x, c + (n + 1) - b) /\ Settled(x, c + (n + 1) - b)
        <4>0. c + n - b \in Nat /\ c + k - b \in Nat /\ c + k - b <= c + n - b
          BY <1>2, <1>5
        <4>1. /\ c + (n + 1) - b \in Nat /\ c + n - b = (c + (n + 1) - b) - 1
              /\ c + (n + 1) - b >= c + k - b - 1 + 2
              /\ ~(c + (n + 1) - b <= c + k - b - 1)
          BY <1>2, <4>0
        <4>2. src[s].frames = c + n - b
          BY <2>2, <3>2, <4>0 DEF Placed, n
        <4> QED BY <3>3, <4>1, <4>2
      <3>7. LentTo(s)' => queued' = Filled(x, c)
        BY <2>2, <3>2, <3>4 DEF Placed, Counted
      <3> QED BY <1>2, <1>3, <2>2, <3>1, <3>5, <3>6, <3>7 DEF Placed, Fresh, Counted
    <2>3. (Fresh(s, b) \/ LentTo(s))' => Fresh(s, b) \/ LentTo(s)
      BY <1>3
    <2> QED BY <1>1, <2>1, <2>2, <2>3 DEF Stream
  <1> QED BY <1>2, <1>4, <1>5

\* Two BORROW change places, or two frames of the line do.
LEMMA LineSwaps ==
  ASSUME NEW s \in Sources, Stream(s), NEW S, Line(s) \in Seq(S),
         NEW k \in 1 .. Len(Line(s)) - 1, Line(s)' = Exchange(Line(s), k),
         Line(s)[k].type = Line(s)[k + 1].type,
         src' = src, faults = 0, faults' # 0, pc # "enqueue", pc' # "enqueue",
         LentTo(s)' => LentTo(s), queued' = queued
  PROVE  Stream(s)'
  <1> DEFINE n == Len(Line(s))
  <1>1. PICK b \in Nat :
          /\ Kinds(s, b)
          /\ Fresh(s, b) \/ LentTo(s) => \E o \in Orders, c \in Nat : Placed(s, b, o, c)
    BY DEF Stream
  <1>2. /\ n \in Nat /\ b <= n /\ k \in 1 .. n - 1
        /\ Len(Line(s)') = n
        /\ \A j \in 1 .. n :
             Line(s)'[j] = IF j = k THEN Line(s)[k + 1]
                           ELSE IF j = k + 1 THEN Line(s)[k] ELSE Line(s)[j]
    BY <1>1, ExchangeFacts, LenProperties DEF Kinds
  <1>3. (Waits(s)' <=> Waits(s)) /\ (Fresh(s, b)' <=> Fresh(s, b))
    BY DEF Waits, Fresh
  <1> HIDE DEF n
  <1>4. k + 1 <= b \/ k > b
    <2>1. k = b => k \in 1 .. b /\ k + 1 \in b + 1 .. n
      BY <1>2
    <2>2. k = b => Line(s)[k].type = "BORROW" /\ Line(s)[k + 1].type = "ENQUEUE"
      BY <1>1, <2>1 DEF Kinds, n
    <2>3. k # b
      BY <2>2
    <2> QED BY <1>2, <2>3
  <1>5. Kinds(s, b)'
    <2>1. \A j \in 1 .. b : Line(s)'[j].type = "BORROW"
      <3>1. \A j \in 1 .. b :
              /\ j \in 1 .. n
              /\ j = k => k + 1 \in 1 .. b
              /\ j = k + 1 => k \in 1 .. b
        BY <1>2, <1>4
      <3> QED BY <1>1, <1>2, <3>1 DEF Kinds
    <2>2. \A j \in b + 1 .. n : Line(s)'[j].type = "ENQUEUE"
      <3>1. \A j \in b + 1 .. n :
              /\ j \in 1 .. n
              /\ j = k => k + 1 \in b + 1 .. n
              /\ j = k + 1 => k \in b + 1 .. n
        BY <1>2, <1>4
      <3> QED BY <1>1, <1>2, <3>1 DEF Kinds, n
    <2>3. b \in 0 .. n /\ (Waits(s)' => b = n)
      BY <1>1, <1>2, <1>3 DEF Kinds, n
    <2> QED BY <1>2, <2>1, <2>2, <2>3 DEF Kinds
  <1>6. (Fresh(s, b) \/ LentTo(s))' => Fresh(s, b) \/ LentTo(s)
    BY <1>3
  <1>7. CASE k + 1 <= b
    <2>1. ASSUME NEW o \in Orders, NEW c \in Nat, Placed(s, b, o, c)
          PROVE  Placed(s, b, o, c)'
      <3>1. \A j \in b + 1 .. n : j \in 1 .. n /\ j # k /\ j # k + 1
        BY <1>2, <1>7
      <3>2. \A j \in b + 1 .. n : Line(s)'[j] = FrameMsg(s, Delivered(o, c + j - b - 1))
        BY <1>2, <2>1, <3>1 DEF Placed, n
      <3> QED BY <1>2, <1>3, <2>1, <3>2 DEF Placed, Fresh, Counted, n
    <2> QED BY <1>1, <1>5, <1>6, <2>1 DEF Stream
  <1>8. CASE k > b
    <2>1. ASSUME NEW o \in Orders, NEW c \in Nat, Placed(s, b, o, c)
          PROVE  \E x \in Orders : Placed(s, b, x, c)'
      <3> DEFINE x == [kind |-> "swapped", at |-> c + k - b - 1]
      <3>1. x \in Orders /\ x.kind = "swapped" /\ x.at = c + k - b - 1 /\ x.at \in Nat
        BY <1>2, <1>8 DEF Orders
      <3>2. \A p \in Nat : Delivered(o, p) = p /\ Filled(o, p) = p
        BY <2>1 DEF Placed, Delivered, Filled
      <3> HIDE DEF x
      <3>3. \A p \in Nat :
              /\ Delivered(x, p) = IF p = c + k - b - 1 THEN p + 1
                                   ELSE IF p = c + k - b - 1 + 1 THEN p - 1 ELSE p
              /\ Settled(x, p) <=> p >= c + k - b - 1 + 2
        BY <3>1 DEF Delivered, Settled
      <3>4. Filled(x, c) = c
        BY <1>2, <1>8, <3>1 DEF Filled
      <3>5. \A j \in b + 1 .. n : Line(s)'[j] = FrameMsg(s, Delivered(x, c + j - b - 1))
        <4> SUFFICES ASSUME NEW j \in b + 1 .. n
                     PROVE  Line(s)'[j] = FrameMsg(s, Delivered(x, c + j - b - 1))
          OBVIOUS
        <4>0. \A i \in b + 1 .. n : Line(s)[i] = FrameMsg(s, c + i - b - 1)
          <5>1. \A i \in b + 1 .. n : c + i - b - 1 \in Nat
            BY <1>2
          <5> QED BY <2>1, <3>2, <5>1 DEF Placed, n
        <4>1. j \in 1 .. n /\ c + j - b - 1 \in Nat
          BY <1>2
        <4>2. CASE j = k
          <5>1. k + 1 \in b + 1 .. n /\ c + (k + 1) - b - 1 = (c + j - b - 1) + 1
            BY <1>2, <1>8, <4>2
          <5>2. Line(s)'[j] = FrameMsg(s, (c + j - b - 1) + 1)
            BY <1>2, <4>0, <4>1, <4>2, <5>1
          <5>3. Delivered(x, c + j - b - 1) = (c + j - b - 1) + 1
            BY <3>3, <4>1, <4>2
          <5> QED BY <5>2, <5>3
        <4>3. CASE j = k + 1
          <5>1. /\ k \in b + 1 .. n /\ c + k - b - 1 = (c + j - b - 1) - 1
                /\ c + j - b - 1 = c + k - b - 1 + 1 /\ j # k
            BY <1>2, <1>8, <4>3
          <5>2. Line(s)'[j] = FrameMsg(s, (c + j - b - 1) - 1)
            BY <1>2, <4>0, <4>1, <4>3, <5>1
          <5>3. Delivered(x, c + j - b - 1) = (c + j - b - 1) - 1
            BY <1>2, <3>3, <4>1, <5>1
          <5> QED BY <5>2, <5>3
        <4>4. CASE j # k /\ j # k + 1
          <5>1. c + j - b - 1 # c + k - b - 1 /\ c + j - b - 1 # c + k - b - 1 + 1
            BY <1>2, <4>4
          <5>2. Delivered(x, c + j - b - 1) = c + j - b - 1
            BY <3>3, <4>1, <5>1
          <5>3. Line(s)'[j] = Line(s)[j]
            BY <1>2, <4>1, <4>4
          <5> QED BY <4>0, <5>2, <5>3
        <4> QED BY <4>2, <4>3, <4>4
      <3>6. src'[s].frames = Delivered(x, c + n - b) /\ Settled(x, c + n - b)
        <4>1. /\ c + n - b \in Nat /\ c + n - b >= c + k - b - 1 + 2
              /\ c + n - b # c + k - b - 1 /\ c + n - b # c + k - b - 1 + 1
          BY <1>2, <1>8, SMTT(60)
        <4>2. src[s].frames = c + n - b
          BY <2>1, <3>2, <4>1 DEF Placed, n
        <4> QED BY <3>3, <4>1, <4>2
      <3>7. LentTo(s)' => queued' = Filled(x, c)
        BY <2>1, <3>2, <3>4 DEF Placed, Counted
      <3> QED BY <1>2, <1>3, <2>1, <3>1, <3>5, <3>6, <3>7 DEF Placed, Fresh, Counted
    <2> QED BY <1>1, <1>5, <1>6, <2>1 DEF Stream
  <1> QED BY <1>4, <1>7, <1>8
-----------------------------------------------------------------------------
(* Queues and the lines they are part of. *)

LEMMA MsgsFacts ==
  ASSUME NEW S, NEW q \in Seq([msg : S, due : Nat])
  PROVE  /\ Msgs(q) \in Seq(S)
         /\ Len(Msgs(q)) = Len(q)
         /\ \A i \in 1 .. Len(q) : Msgs(q)[i] = q[i].msg
  <1>1. Len(q) \in Nat /\ \A i \in 1 .. Len(q) : q[i] \in [msg : S, due : Nat]
    BY ElementOfSeq, LenProperties
  <1>2. Msgs(q) \in [1 .. Len(q) -> S]
    BY <1>1 DEF Msgs
  <1>3. \A n \in Nat : [1 .. n -> S] \subseteq Seq(S)
    OBVIOUS
  <1>4. Msgs(q) \in Seq(S)
    BY <1>1, <1>2, <1>3
  <1>5. Len(Msgs(q)) = Len(q)
    BY <1>1, <1>4, LenProperties DEF Msgs
  <1> QED BY <1>4, <1>5 DEF Msgs

\* What happens to a queue happens to its messages.
LEMMA MsgsOps ==
  ASSUME now \in Nat, NEW S, NEW q \in Seq([msg : S, due : Nat])
  PROVE  /\ \A m \in S : Msgs(Append(q, InFlight(m))) = Append(Msgs(q), m)
         /\ q # << >> => Msgs(q) = <<Head(q).msg>> \o Msgs(Tail(q))
         /\ Msgs(Late(q)) = Msgs(q)
         /\ \A i \in DOMAIN q : /\ Msgs(RemoveAt(q, i)) = RemoveAt(Msgs(q), i)
                                /\ Msgs(InsertAt(q, i, q[i])) = InsertAt(Msgs(q), i, Msgs(q)[i])
         /\ \A i \in 1 .. Len(q) - 1 : Msgs(Swapped(q, i)) = Exchange(Msgs(q), i)
  <1> DEFINE P == [msg : S, due : Nat]
  <1>1. /\ Len(q) \in Nat /\ DOMAIN q = 1 .. Len(q)
        /\ \A i \in 1 .. Len(q) : q[i] \in P
    BY ElementOfSeq, LenProperties
  <1>2. ASSUME NEW m \in S PROVE Msgs(Append(q, InFlight(m))) = Append(Msgs(q), m)
    <2>1. InFlight(m) \in P /\ InFlight(m).msg = m
      BY DEF InFlight
    <2> DEFINE a == Append(q, InFlight(m))
    <2>2. /\ a \in Seq(P) /\ Len(a) = Len(q) + 1 /\ a[Len(q) + 1] = InFlight(m)
          /\ \A i \in 1 .. Len(q) : a[i] = q[i]
      BY <1>1, <2>1, AppendProperties
    <2> HIDE DEF a
    <2>3. /\ Msgs(a) \in Seq(S) /\ Len(Msgs(a)) = Len(q) + 1
          /\ \A i \in 1 .. Len(q) + 1 : Msgs(a)[i] = a[i].msg
      BY <2>2, MsgsFacts
    <2> DEFINE M == Msgs(q)
    <2>7. M \in Seq(S) /\ Len(M) = Len(q) /\ \A i \in 1 .. Len(q) : M[i] = q[i].msg
      BY MsgsFacts
    <2> HIDE DEF M
    <2>8. /\ Append(M, m) \in Seq(S) /\ Len(Append(M, m)) = Len(M) + 1
          /\ Append(M, m)[Len(M) + 1] = m
          /\ \A i \in 1 .. Len(M) : Append(M, m)[i] = M[i]
      BY <2>7, AppendProperties
    <2>4. /\ Append(M, m) \in Seq(S) /\ Len(Append(M, m)) = Len(q) + 1
          /\ Append(M, m)[Len(q) + 1] = m
          /\ \A i \in 1 .. Len(q) : Append(M, m)[i] = q[i].msg
      BY <2>7, <2>8
    <2>5. \A i \in 1 .. Len(q) + 1 : Msgs(a)[i] = Append(M, m)[i]
      <3>1. \A i \in 1 .. Len(q) + 1 : i \in 1 .. Len(q) \/ i = Len(q) + 1
        BY <1>1
      <3> QED BY <2>1, <2>2, <2>3, <2>4, <3>1
    <2>6. Msgs(a) = Append(M, m)
      BY <2>3, <2>4, <2>5, SeqEqual
    <2> QED BY <2>6 DEF a, M
  <1>3. ASSUME q # << >> PROVE Msgs(q) = <<Head(q).msg>> \o Msgs(Tail(q))
    <2> DEFINE r == Tail(q)
               h == <<Head(q).msg>>
               z == Msgs(r)
               M == Msgs(q)
    <2>1. /\ r \in Seq(P) /\ Len(r) = Len(q) - 1 /\ Len(q) \in Nat \ {0}
          /\ \A i \in 1 .. Len(r) : r[i] = q[i + 1]
      BY <1>3, HeadTailProperties, EmptySeq
    <2>2. h \in Seq(S) /\ Len(h) = 1 /\ h[1] = q[1].msg
      BY <1>1, <2>1
    <2>3. M \in Seq(S) /\ Len(M) = Len(q) /\ \A i \in 1 .. Len(q) : M[i] = q[i].msg
      BY MsgsFacts
    <2> HIDE DEF r, h, M
    <2>4. z \in Seq(S) /\ Len(z) = Len(r) /\ \A i \in 1 .. Len(r) : z[i] = r[i].msg
      BY <2>1, MsgsFacts
    <2> HIDE DEF z
    <2>5. /\ h \o z \in Seq(S)
          /\ Len(h \o z) = Len(h) + Len(z)
          /\ \A i \in 1 .. Len(h) + Len(z) :
               (h \o z)[i] = IF i <= Len(h) THEN h[i] ELSE z[i - Len(h)]
      BY <2>2, <2>4, ConcatProperties, ZenonT(60)
    <2>6. Len(h) + Len(z) = Len(q)
      BY <2>1, <2>2, <2>4
    <2>7. \A i \in 1 .. Len(q) : (h \o z)[i] = q[i].msg
      <3> SUFFICES ASSUME NEW i \in 1 .. Len(q) PROVE (h \o z)[i] = q[i].msg
        OBVIOUS
      <3>1. CASE i = 1
        BY <2>2, <2>5, <2>6, <3>1
      <3>2. CASE i > 1
        <4>1. i - 1 \in 1 .. Len(r) /\ (i - 1) + 1 = i /\ ~(i <= 1)
          BY <1>1, <2>1, <3>2
        <4>2. z[i - 1] = q[i].msg
          BY <2>1, <2>4, <4>1
        <4> QED BY <2>2, <2>5, <2>6, <4>1, <4>2
      <3>3. i = 1 \/ i > 1
        BY <1>1
      <3> QED BY <3>1, <3>2, <3>3
    <2>8. M = h \o z
      BY <2>3, <2>5, <2>6, <2>7, SeqEqual
    <2> QED BY <2>8 DEF M, h, z, r
  <1>4. Msgs(Late(q)) = Msgs(q)
    <2>1. Late(q) \in Seq(P)
      BY QueueOps DEF Queues
    <2>2. Len(Late(q)) = Len(q)
      BY <1>1, <2>1, LenProperties DEF Late
    <2>3. \A i \in 1 .. Len(q) : Late(q)[i].msg = q[i].msg
      BY <1>1 DEF Late
    <2>4. /\ Msgs(Late(q)) \in Seq(S) /\ Len(Msgs(Late(q))) = Len(q)
          /\ \A i \in 1 .. Len(q) : Msgs(Late(q))[i] = Late(q)[i].msg
      BY <2>1, <2>2, MsgsFacts
    <2> QED BY <2>3, <2>4, MsgsFacts, SeqEqual, SMTT(60)
  <1>5. ASSUME NEW i \in 1 .. Len(q)
        PROVE  /\ Msgs(RemoveAt(q, i)) = RemoveAt(Msgs(q), i)
               /\ Msgs(InsertAt(q, i, q[i])) = InsertAt(Msgs(q), i, Msgs(q)[i])
    <2> DEFINE M == Msgs(q)
    <2>1. M \in Seq(S) /\ Len(M) = Len(q) /\ \A j \in 1 .. Len(q) : M[j] = q[j].msg
      BY MsgsFacts
    <2> HIDE DEF M
    <2>2. Msgs(RemoveAt(q, i)) = RemoveAt(M, i)
      <3> DEFINE r == RemoveAt(q, i)
                 R == RemoveAt(M, i)
      <3>1. /\ r \in Seq(P) /\ Len(r) = Len(q) - 1
            /\ \A j \in 1 .. Len(q) - 1 : r[j] = IF j < i THEN q[j] ELSE q[j + 1]
        BY RemoveFacts
      <3>2. /\ R \in Seq(S) /\ Len(R) = Len(q) - 1
            /\ \A j \in 1 .. Len(q) - 1 : R[j] = IF j < i THEN M[j] ELSE M[j + 1]
        BY <2>1, RemoveFacts, SMTT(60)
      <3> HIDE DEF r, R
      <3>3. /\ Msgs(r) \in Seq(S) /\ Len(Msgs(r)) = Len(q) - 1
            /\ \A j \in 1 .. Len(q) - 1 : Msgs(r)[j] = r[j].msg
        BY <3>1, MsgsFacts
      <3>4. \A j \in 1 .. Len(q) - 1 : j \in 1 .. Len(q) /\ j + 1 \in 1 .. Len(q)
        BY <1>1
      <3>5. \A j \in 1 .. Len(q) - 1 : Msgs(r)[j] = R[j]
        BY <2>1, <3>1, <3>2, <3>3, <3>4
      <3>6. Msgs(r) = R
        BY <3>2, <3>3, <3>5, SeqEqual
      <3> QED BY <3>6 DEF r, R
    <2>3. Msgs(InsertAt(q, i, q[i])) = InsertAt(M, i, M[i])
      <3> DEFINE r == InsertAt(q, i, q[i])
                 R == InsertAt(M, i, M[i])
      <3>1. /\ r \in Seq(P) /\ Len(r) = Len(q) + 1
            /\ \A j \in 1 .. Len(q) + 1 : r[j] = IF j <= i THEN q[j] ELSE q[j - 1]
        BY InsertFacts
      <3>2. /\ R \in Seq(S) /\ Len(R) = Len(q) + 1
            /\ \A j \in 1 .. Len(q) + 1 : R[j] = IF j <= i THEN M[j] ELSE M[j - 1]
        BY <2>1, InsertFacts
      <3> HIDE DEF r, R
      <3>3. /\ Msgs(r) \in Seq(S) /\ Len(Msgs(r)) = Len(q) + 1
            /\ \A j \in 1 .. Len(q) + 1 : Msgs(r)[j] = r[j].msg
        BY <3>1, MsgsFacts
      <3>4. \A j \in 1 .. Len(q) + 1 :
              (j <= i => j \in 1 .. Len(q)) /\ (~(j <= i) => j - 1 \in 1 .. Len(q))
        BY <1>1
      <3>5. \A j \in 1 .. Len(q) + 1 : Msgs(r)[j] = R[j]
        BY <2>1, <3>1, <3>2, <3>3, <3>4
      <3>6. Msgs(r) = R
        BY <3>2, <3>3, <3>5, SeqEqual
      <3> QED BY <3>6 DEF r, R
    <2> QED BY <2>2, <2>3 DEF M
  <1>6. ASSUME NEW i \in 1 .. Len(q) - 1 PROVE Msgs(Swapped(q, i)) = Exchange(Msgs(q), i)
    <2>1. Swapped(q, i) \in Seq(P)
      BY <1>6, QueueOps DEF Queues
    <2>2. i \in 1 .. Len(q) /\ i + 1 \in 1 .. Len(q) /\ i # i + 1
      BY <1>1
    <2> DEFINE First == [q[i + 1] EXCEPT !.due = q[i].due]
               Second == [q[i] EXCEPT !.due = q[i + 1].due]
    <2>3. First.msg = q[i + 1].msg /\ Second.msg = q[i].msg
      BY <1>1, <2>2
    <2>4. Swapped(q, i) = [q EXCEPT ![i] = First, ![i + 1] = Second]
      BY DEF Swapped
    <2> HIDE DEF First, Second
    <2>5. /\ DOMAIN Swapped(q, i) = 1 .. Len(q)
          /\ \A j \in 1 .. Len(q) :
               Swapped(q, i)[j] = IF j = i THEN First ELSE IF j = i + 1 THEN Second ELSE q[j]
      BY <1>1, <2>2, <2>4
    <2>6. Len(Swapped(q, i)) = Len(q)
      BY <1>1, <2>1, <2>5, LenProperties
    <2>7. /\ Msgs(Swapped(q, i)) \in Seq(S) /\ Len(Msgs(Swapped(q, i))) = Len(q)
          /\ \A j \in 1 .. Len(q) : Msgs(Swapped(q, i))[j] = Swapped(q, i)[j].msg
      BY <2>1, <2>6, MsgsFacts
    <2> DEFINE M == Msgs(q)
    <2>8. M \in Seq(S) /\ Len(M) = Len(q) /\ \A j \in 1 .. Len(q) : M[j] = q[j].msg
      BY MsgsFacts
    <2> HIDE DEF M
    <2>9. /\ Exchange(M, i) \in Seq(S) /\ Len(Exchange(M, i)) = Len(q)
          /\ \A j \in 1 .. Len(q) :
               Exchange(M, i)[j] = IF j = i THEN M[i + 1] ELSE IF j = i + 1 THEN M[i] ELSE M[j]
      BY <2>8, ExchangeFacts
    <2>10. ASSUME NEW j \in 1 .. Len(q) PROVE Msgs(Swapped(q, i))[j] = Exchange(M, i)[j]
      <3>1. Msgs(Swapped(q, i))[j] = Swapped(q, i)[j].msg
        BY <2>7, Zenon
      <3>2. CASE j = i
        <4>1. Swapped(q, i)[j] = First /\ Exchange(M, i)[j] = M[i + 1]
          BY <2>5, <2>9, <3>2, Zenon
        <4> QED BY <2>2, <2>3, <2>8, <3>1, <4>1, Zenon
      <3>3. CASE j # i /\ j = i + 1
        <4>1. Swapped(q, i)[j] = Second /\ Exchange(M, i)[j] = M[i]
          BY <2>5, <2>9, <3>3, Zenon
        <4> QED BY <2>2, <2>3, <2>8, <3>1, <4>1, Zenon
      <3>4. CASE j # i /\ j # i + 1
        <4>1. Swapped(q, i)[j] = q[j] /\ Exchange(M, i)[j] = M[j]
          BY <2>5, <2>9, <3>4, Zenon
        <4> QED BY <2>8, <3>1, <4>1, Zenon
      <3> QED BY <3>2, <3>3, <3>4
    <2> QED BY <2>7, <2>9, <2>10, SeqEqual DEF M
  <1> QED BY <1>1, <1>2, <1>3, <1>4, <1>5, <1>6
-----------------------------------------------------------------------------
(* The invariant. *)

\* The sink has at most one message in hand, fills the ring for a borrower
\* only, and what is sent to a sink without a socket is lost.
HandOK ==
  /\ pc \in {"iterate", "enqueue"} => K!InHand(rx) /\ Len(rx.msgs) <= 1
  /\ pc = "enqueue" => /\ state = "LENT" /\ rx.from = borrower_endpoint
                       /\ rx.msgs # << >> /\ Head(rx.msgs).type = "ENQUEUE"
  /\ state = "ERROR" => pc \in {"idle", "freed"}
  /\ ~SinkListens => \A s \in Sources : to_sink[s] = << >>

\* last_enqueued_frame_idx and the newest frame of the ring agree with the
\* number of frames enqueued, the latter not while a gap is being filled.
RingOK ==
  /\ queued \in Nat
  /\ pending_frames \in Seq(K!Frames)
  /\ state = "LENT" /\ pc # "freed" =>
       /\ last_enqueued_frame_idx = LastIdx(queued)
       /\ queued > 0 /\ (pc = "enqueue" => Head(rx.msgs).frame.tag < queued) =>
            Newest = [by |-> borrower_endpoint, tag |-> queued - 1]

\* A source numbers its frames, and sends none before it has the loan.
Numbered(r) ==
  /\ r.next_frame_idx = r.frames % IdxMod
  /\ r.state = "WAITING" => r.frames = 0 /\ r.pc \notin {"put_timeout", "put_send"}

\* A source that has sent no frame and cannot in this ms.
Young(r) ==
  /\ r.frames = 0
  /\ r.state # "OPEN"
  /\ r.pc \notin {"put_timeout", "put_send"}

\* As long as nothing was delayed, a BORROW arrives in the ms after the one
\* it was sent in, and in that one nothing arrives for its source any more.
Timely(s) ==
  faults = 0 =>
    /\ src[s].pc = "unmade" => to_source[s] = << >>
    /\ \A i \in 1 .. Len(to_sink[s]) :
         to_sink[s][i].msg.type = "BORROW" =>
           /\ to_sink[s][i].due <= now + 1
           /\ to_sink[s][i].due = now + 1 => Young(src[s]) /\ ~Arrived(to_source[s])

SourceOK(s) ==
  /\ Numbered(src[s])
  /\ src[s].pc = "unmade" => Waits(s)
  /\ Stream(s)
  /\ Timely(s)

IInv ==
  /\ SystemInv
  /\ faults \in Nat
  /\ HandOK
  /\ RingOK
  /\ \A s \in Sources : SourceOK(s)

LEMMA LineTyped ==
  ASSUME WireOK, HandOK, NEW s \in Sources
  PROVE  /\ to_sink[s] \in Seq([msg : FromSource(s), due : Nat])
         /\ Taken(s) \in Seq(FromSource(s))
         /\ Msgs(to_sink[s]) \in Seq(FromSource(s))
         /\ Line(s) \in Seq(FromSource(s))
  <1>1. to_sink[s] \in Seq([msg : FromSource(s), due : Nat])
    BY DEF WireOK, Queues
  <1>2. Taken(s) \in Seq(FromSource(s))
    <2>1. CASE pc \in {"iterate", "enqueue"} /\ rx.from = s
      <3>1. PICK e \in Sources : rx \in [from : {e}, msgs : Seq(K!Messages(e))]
        BY <2>1 DEF HandOK, K!InHand
      <3> QED BY <2>1, <3>1 DEF Taken, FromSource
    <2>2. CASE ~(pc \in {"iterate", "enqueue"} /\ rx.from = s)
      BY <2>2, EmptySeq DEF Taken
    <2> QED BY <2>1, <2>2
  <1>3. Msgs(to_sink[s]) \in Seq(FromSource(s))
    BY <1>1, MsgsFacts
  <1> QED BY <1>1, <1>2, <1>3, ConcatProperties DEF Line

-----------------------------------------------------------------------------
(* The steps of a source. *)

\* What source_update does to what Numbered and Young speak of.
LEMMA UpdateKeeps ==
  ASSUME now \in Nat, NEW r, Sound(r), NEW msg \in Incoming
  PROVE  /\ source_update(r, msg).next_frame_idx = r.next_frame_idx
         /\ source_update(r, msg).state = "WAITING" => r.state = "WAITING"
         /\ Retries(source_receive(r, msg)) =>
              r.state = "WAITING" /\ source_update(r, msg).state = "WAITING"
         /\ Retries(source_receive(r, msg)) => msg = None
         /\ msg = None /\ r.state # "OPEN" => source_update(r, msg).state # "OPEN"
  <1> DEFINE a == source_receive(r, msg)
             b == source_manage_borrow_packet_loss(a)
             c == source_ensure_lent_resent(b)
  <1>1. /\ a \in Records /\ a.next_frame_idx = r.next_frame_idx
        /\ a.state = "WAITING" => r.state = "WAITING" /\ msg = None
        /\ msg = None => a = r
    BY SourceAssumption, TimeRange, Constants
       DEF Sound, source_receive, source_lent, source_fail, Records, Incoming
  <1> HIDE DEF a
  <1>2. /\ b \in Records /\ b.next_frame_idx = a.next_frame_idx
        /\ b.state = "WAITING" => a.state = "WAITING"
        /\ b.state = "OPEN" => a.state = "OPEN"
        /\ Retries(a) => a.state = "WAITING" /\ b.state = "WAITING"
    BY <1>1, SourceAssumption, TimeRange
       DEF source_manage_borrow_packet_loss, source_fail, GivesUp, Retries, Records
  <1> HIDE DEF b
  <1>3. /\ c.next_frame_idx = b.next_frame_idx
        /\ c.state = "WAITING" <=> b.state = "WAITING"
        /\ c.state = "OPEN" => b.state = "OPEN"
    BY <1>2 DEF source_ensure_lent_resent, source_fail, Records
  <1> HIDE DEF c
  <1> QED BY <1>1, <1>2, <1>3 DEF a, b, c, source_update

\* A step of a source that looks into its socket.
LEMMA ReceivingKeeps ==
  ASSUME TypeOK, NEW s \in Sources, NEW msg \in Incoming, Receiving(s, msg),
         Numbered(src[s])
  PROVE  \E x : /\ src' = [src EXCEPT ![s] = x]
                /\ Numbered(x)
                /\ x.pc # "unmade" /\ src[s].pc # "unmade"
                /\ x.frames = src[s].frames
                /\ x.state = "WAITING" => src[s].state = "WAITING"
                /\ msg = None /\ Young(src[s]) => Young(x)
                /\ \/ tx' = None
                   \/ /\ tx' = From(s, BorrowMsg)
                      /\ msg = None
                      /\ src[s].state = "WAITING" /\ x.state = "WAITING"
  <1> DEFINE r == src[s]
             u == source_update(src[s], msg)
             Goal(x) == /\ src' = [src EXCEPT ![s] = x]
                        /\ Numbered(x)
                        /\ x.pc # "unmade" /\ r.pc # "unmade"
                        /\ x.frames = r.frames
                        /\ x.state = "WAITING" => r.state = "WAITING"
                        /\ msg = None /\ Young(r) => Young(x)
                        /\ \/ tx' = None
                           \/ /\ tx' = From(s, BorrowMsg)
                              /\ msg = None
                              /\ r.state = "WAITING" /\ x.state = "WAITING"
  <1>0. now \in Nat /\ Sound(r)
    BY DEF TypeOK, Sound
  <1>1. /\ u \in Records /\ u.pc = r.pc /\ u.frames = r.frames
        /\ u.next_frame_idx = r.next_frame_idx
        /\ u.state = "WAITING" => r.state = "WAITING"
        /\ msg = None /\ r.state # "OPEN" => u.state # "OPEN"
    BY <1>0, UpdateFacts, UpdateKeeps DEF Updated, Sound
  <1>2. ASSUME NEW x, Update(s, msg, x), x.state = u.state
        PROVE  \/ tx' = None
               \/ /\ tx' = From(s, BorrowMsg)
                  /\ msg = None
                  /\ r.state = "WAITING" /\ x.state = "WAITING"
    BY <1>0, <1>2, UpdateKeeps DEF Update, Resent
  <1>3. \A x : Update(s, msg, x) => src' = [src EXCEPT ![s] = x]
    BY DEF Update
  <1>u. u = source_update(src[s], msg)
    OBVIOUS
  <1> HIDE DEF u
  <1>4. CASE atolla_source_state(s, msg)
    <2>1. Update(s, msg, u) /\ r.pc = "idle"
      BY <1>4, <1>u DEF atolla_source_state
    <2>2. Goal(u)
      BY <1>1, <1>2, <1>3, <2>1 DEF Numbered, Young
    <2> QED BY <2>2
  <1>5. CASE source_await_make_completion(s, msg)
    <2> DEFINE y == IF u.state = "WAITING"
                    THEN [u EXCEPT !.wake = now + blocking_make_refresh_interval]
                    ELSE [u EXCEPT !.pc = "idle", !.wake = 0]
    <2>1. Update(s, msg, y) /\ r.pc = "await"
      BY <1>5, <1>u DEF source_await_make_completion
    <2>2. /\ y.state = u.state /\ y.frames = u.frames /\ y.pc \in {"await", "idle"}
          /\ y.next_frame_idx = u.next_frame_idx
      BY <1>1, <2>1 DEF Records
    <2> HIDE DEF y
    <2>3. Goal(y)
      BY <1>1, <1>2, <1>3, <2>1, <2>2 DEF Numbered, Young
    <2> QED BY <2>3
  <1>6. CASE put_update(s, msg)
    <2> DEFINE y == [u EXCEPT !.pc = "put_state"]
    <2>1. Update(s, msg, y) /\ r.pc = "idle"
      BY <1>6, <1>u DEF put_update
    <2>2. /\ y.state = u.state /\ y.frames = u.frames /\ y.pc = "put_state"
          /\ y.next_frame_idx = u.next_frame_idx
      BY <1>1, <2>1 DEF Records
    <2> HIDE DEF y
    <2>3. Goal(y)
      BY <1>1, <1>2, <1>3, <2>1, <2>2 DEF Numbered, Young
    <2> QED BY <2>3
  <1>7. CASE put_state(s, msg)
    <2> DEFINE y == IF u.state = "OPEN" THEN [u EXCEPT !.pc = "put_timeout"]
                    ELSE [u EXCEPT !.pc = "idle"]
    <2>1. Update(s, msg, y) /\ r.pc = "put_state"
      BY <1>7, <1>u DEF put_state
    <2>2. /\ y.state = u.state /\ y.frames = u.frames /\ y.pc \in {"put_timeout", "idle"}
          /\ y.next_frame_idx = u.next_frame_idx
          /\ y.pc = "put_timeout" => y.state = "OPEN"
      BY <1>1, <2>1 DEF Records
    <2> HIDE DEF y
    <2>3. Goal(y)
      BY <1>1, <1>2, <1>3, <2>1, <2>2 DEF Numbered, Young
    <2> QED BY <2>3
  <1>8. CASE put_timeout(s, msg)
    <2> DEFINE y == [u EXCEPT !.pc = "put_send", !.wake = now + Sleep(u)]
    <2>1. Update(s, msg, y) /\ r.pc = "put_timeout"
      BY <1>8, <1>u DEF put_timeout
    <2>2. /\ y.state = u.state /\ y.frames = u.frames /\ y.pc = "put_send"
          /\ y.next_frame_idx = u.next_frame_idx
      BY <1>1, <2>1 DEF Records
    <2>3. r.state # "WAITING"
      BY <2>1 DEF Numbered
    <2> HIDE DEF y
    <2>4. Goal(y)
      BY <1>1, <1>2, <1>3, <2>1, <2>2, <2>3 DEF Numbered, Young
    <2> QED BY <2>4
  <1> QED BY <1>4, <1>5, <1>6, <1>7, <1>8 DEF Receiving
\* A step of a source that does not.
LEMMA ActsKeeps ==
  ASSUME TypeOK, NEW s \in Sources, SourceActs(s), Numbered(src[s]),
         src[s].pc = "unmade" => Waits(s)
  PROVE  \E x : /\ src' = [src EXCEPT ![s] = x]
                /\ Numbered(x)
                /\ x.pc # "unmade"
                /\ Young(src[s]) => Young(x)
                /\ \/ /\ tx' = None
                      /\ x.frames = src[s].frames
                      /\ x.state = "WAITING" => src[s].state = "WAITING"
                   \/ /\ tx' = From(s, BorrowMsg)
                      /\ x.frames = src[s].frames
                      /\ src[s].state = "WAITING" /\ x.state = "WAITING"
                      /\ src[s].pc = "unmade"
                   \/ /\ tx' = From(s, EnqueueMsg(s, src[s]))
                      /\ x.frames = src[s].frames + 1
                      /\ src[s].state # "WAITING" /\ x.state # "WAITING"
                      /\ src[s].pc # "unmade"
  <1>0. src[s] \in Records /\ src[s].frames \in Nat /\ src[s].next_frame_idx \in 0 .. IdxMod - 1
    BY DEF TypeOK, Records
  <1>1. CASE atolla_source_make(s, TRUE, TRUE)
    <2> DEFINE y == [source_private_make EXCEPT
                        !.first_borrow_time = time_now,
                        !.last_borrow_time = time_now,
                        !.pc = "idle",
                        !.wake = now + blocking_make_refresh_interval]
    <2>1. /\ src' = [src EXCEPT ![s] = y]
          /\ tx' = From(s, BorrowMsg) /\ src[s].pc = "unmade"
      BY <1>1 DEF atolla_source_make
    <2>2. y.state = "WAITING" /\ y.frames = 0 /\ y.next_frame_idx = 0 /\ y.pc = "idle"
      BY DEF source_private_make
    <2>3. 0 % IdxMod = 0
      BY SourceAssumption, ModSmall
    <2> HIDE DEF y
    <2> QED BY <2>1, <2>2, <2>3 DEF Numbered, Young, Waits
  <1>2. CASE put_send(s)
    <2>1. /\ src' = [src EXCEPT ![s] = FrameSent(src[s])]
          /\ tx' = From(s, EnqueueMsg(s, src[s])) /\ src[s].pc = "put_send"
      BY <1>2 DEF put_send
    <2> DEFINE y == FrameSent(src[s])
    <2>2. /\ y.state = src[s].state /\ y.frames = src[s].frames + 1 /\ y.pc = "idle"
          /\ y.next_frame_idx = (src[s].next_frame_idx + 1) % IdxMod
      BY <1>0 DEF FrameSent, Records
    <2>3. src[s].state # "WAITING"
      BY <2>1 DEF Numbered
    <2>4. y.next_frame_idx = y.frames % IdxMod
      <3> DEFINE i == src[s].next_frame_idx
                 n == src[s].frames
      <3>1. n \in Nat /\ i = n % IdxMod /\ i \in 0 .. IdxMod - 1
        BY <1>0 DEF Numbered
      <3>2. (n + 1) % IdxMod = IF i + 1 = IdxMod THEN 0 ELSE i + 1
        BY <3>1, ModNext
      <3> HIDE DEF i, n
      <3>3. (i + 1) % IdxMod = IF i + 1 = IdxMod THEN 0 ELSE i + 1
        <4>1. CASE i + 1 = IdxMod
          BY <4>1, SourceAssumption
        <4>2. CASE i + 1 # IdxMod
          BY <3>1, <4>2, ModSmall, SourceAssumption
        <4> QED BY <4>1, <4>2
      <3> QED BY <2>2, <3>2, <3>3 DEF i, n
    <2> HIDE DEF y
    <2>5. Numbered(y)
      BY <2>2, <2>3, <2>4 DEF Numbered
    <2> QED BY <2>1, <2>2, <2>3, <2>5 DEF Young, y
  <1>3. CASE atolla_source_free(s)
    <2> DEFINE y == [src[s] EXCEPT !.pc = "freed"]
    <2>1. src' = [src EXCEPT ![s] = y] /\ tx' = None
      BY <1>3 DEF atolla_source_free
    <2>2. /\ y.state = src[s].state /\ y.frames = src[s].frames /\ y.pc = "freed"
          /\ y.next_frame_idx = src[s].next_frame_idx
      BY <1>0 DEF Records
    <2> HIDE DEF y
    <2> QED BY <2>1, <2>2 DEF Numbered, Young
  <1> QED BY <1>1, <1>2, <1>3 DEF SourceActs

\* A source moves: all that the rest of the argument needs to know of it.
Moves(s, x) ==
  /\ src' = [src EXCEPT ![s] = x]
  /\ Numbered(x)
  /\ x.pc # "unmade"
  /\ faults = 0 /\ Young(src[s]) /\ ~Arrived(to_source[s]) =>
       Young(x) /\ ~Arrived(to_source[s])'
  /\ \A r \in Sources \ {s} : to_source'[r] = to_source[r]
  /\ \/ /\ tx' = None
        /\ x.frames = src[s].frames
        /\ x.state = "WAITING" => src[s].state = "WAITING"
     \/ /\ tx' = From(s, BorrowMsg)
        /\ x.frames = src[s].frames
        /\ src[s].state = "WAITING" /\ x.state = "WAITING"
        /\ faults = 0 => ~Arrived(to_source[s])'
     \/ /\ tx' = From(s, EnqueueMsg(s, src[s]))
        /\ x.frames = src[s].frames + 1
        /\ src[s].state # "WAITING" /\ x.state # "WAITING"

LEMMA SourceMoves ==
  ASSUME IInv, NEW s \in Sources,
         SourceReceives(s) \/ SourceReceivesNothing(s) \/ SourceActs(s)
  PROVE  /\ \E x : Moves(s, x)
         /\ now' = now /\ SourceSends /\ UNCHANGED <<sink, faults>>
  <1>0. /\ TypeOK /\ now \in Nat /\ Numbered(src[s]) /\ (src[s].pc = "unmade" => Waits(s))
        /\ faults = 0 /\ src[s].pc = "unmade" => to_source[s] = << >>
        /\ to_source \in [Sources -> Queues(FromSink)]
    BY DEF IInv, SystemInv, TypeOK, SourceOK, Timely, WireOK
  <1>1. CASE SourceReceives(s)
    <2> DEFINE msg == Head(to_source[s]).msg
    <2>1. msg \in FromSink
      BY <1>0, <1>1, QueueOps DEF SourceReceives, Arrived
    <2>2. msg \in Incoming /\ msg # None
      BY <2>1, FromSinkIsIncoming, NoneIsNoMessage DEF FromSink
    <2>3. /\ Receiving(s, msg) /\ Arrived(to_source[s]) /\ SourceSends
          /\ UNCHANGED <<sink, faults>>
          /\ to_source' = [to_source EXCEPT ![s] = Tail(@)]
      BY <1>1 DEF SourceReceives
    <2> HIDE DEF msg
    <2>4. PICK x : /\ src' = [src EXCEPT ![s] = x]
                   /\ Numbered(x)
                   /\ x.pc # "unmade"
                   /\ x.frames = src[s].frames
                   /\ x.state = "WAITING" => src[s].state = "WAITING"
                   /\ tx' = None \/ (tx' = From(s, BorrowMsg) /\ msg = None)
      BY <1>0, <2>2, <2>3, ReceivingKeeps
    <2>5. Moves(s, x)
      BY <1>0, <2>2, <2>3, <2>4 DEF Moves
    <2>6. now' = now
      BY <1>0, <2>3, SourceSpeaks
    <2> QED BY <2>3, <2>5, <2>6
  <1>2. CASE SourceReceivesNothing(s)
    <2>1. /\ Receiving(s, None) /\ ~Arrived(to_source[s]) /\ SourceSends
          /\ UNCHANGED <<sink, faults, to_source>>
      BY <1>2 DEF SourceReceivesNothing
    <2>2. None \in Incoming
      BY DEF Incoming
    <2>3. PICK x : /\ src' = [src EXCEPT ![s] = x]
                   /\ Numbered(x)
                   /\ x.pc # "unmade"
                   /\ x.frames = src[s].frames
                   /\ x.state = "WAITING" => src[s].state = "WAITING"
                   /\ Young(src[s]) => Young(x)
                   /\ \/ tx' = None
                      \/ /\ tx' = From(s, BorrowMsg)
                         /\ src[s].state = "WAITING" /\ x.state = "WAITING"
      BY <1>0, <2>1, <2>2, ReceivingKeeps
    <2>4. now' = now
      BY <1>0, <2>1, SourceSpeaks
    <2>5. ~Arrived(to_source[s])'
      BY <2>1, <2>4 DEF Arrived
    <2>6. Moves(s, x)
      BY <2>1, <2>3, <2>5 DEF Moves
    <2> QED BY <2>1, <2>4, <2>6
  <1>3. CASE SourceActs(s)
    <2>1. /\ Other(s) /\ SourceSends /\ UNCHANGED <<sink, faults>>
          /\ to_source' = IF Listening(s) THEN to_source ELSE [to_source EXCEPT ![s] = << >>]
      BY <1>3 DEF SourceActs, Other
    <2>2. now' = now
      BY <1>0, <2>1, SourceSpeaks
    <2>3. to_source'[s] \in {to_source[s], << >>}
          /\ \A r \in Sources \ {s} : to_source'[r] = to_source[r]
      BY <1>0, <2>1
    <2>4. ~Arrived(to_source[s]) => ~Arrived(to_source[s])'
      BY <2>2, <2>3 DEF Arrived
    <2>5. to_source[s] = << >> => ~Arrived(to_source[s])'
      BY <2>3 DEF Arrived
    <2>6. \E x : Moves(s, x)
      BY <1>0, <1>3, <2>3, <2>4, <2>5, ActsKeeps DEF Moves
    <2> QED BY <2>1, <2>2, <2>6
  <1> QED BY <1>1, <1>2, <1>3
LEMMA ConcatAppend ==
  ASSUME NEW S, NEW q \in Seq(S), NEW t \in Seq(S), NEW m \in S
  PROVE  t \o Append(q, m) = Append(t \o q, m)
  <1>1. Append(q, m) = q \o <<m>> /\ Append(t \o q, m) = (t \o q) \o <<m>>
    BY ConcatProperties, AppendIsConcat
  <1>2. <<m>> \in Seq(S)
    OBVIOUS
  <1> QED BY <1>1, <1>2, ConcatAssociative

\* What a source sends joins its line, if the sink has a socket.
LEMMA LineSent ==
  ASSUME SystemInv, HandOK, NEW s \in Sources, NEW m \in FromSource(s),
         tx' = From(s, m), SourceSends, UNCHANGED sink
  PROVE  /\ \A r \in Sources \ {s} : to_sink'[r] = to_sink[r] /\ Line(r)' = Line(r)
         /\ \/ /\ to_sink'[s] = Append(to_sink[s], InFlight(m))
               /\ Line(s)' = Append(Line(s), m)
            \/ /\ to_sink'[s] = to_sink[s] /\ Line(s)' = Line(s)
               /\ tx' = None \/ ~SinkListens
  <1>0. now \in Nat /\ WireOK /\ DOMAIN to_sink = Sources
    BY DEF SystemInv, TypeOK, WireOK
  <1>1. \A r \in Sources : Taken(r)' = Taken(r)
    BY DEF Taken, sink
  <1>2. \A r \in Sources : to_sink'[r] = to_sink[r] => Line(r)' = Line(r)
    BY <1>1 DEF Line
  <1>3. CASE tx' # None /\ SinkListens
    <2>1. to_sink' = [to_sink EXCEPT ![s] = Append(@, InFlight(m))]
      BY <1>3 DEF SourceSends, From
    <2>2. /\ to_sink'[s] = Append(to_sink[s], InFlight(m))
          /\ \A r \in Sources \ {s} : to_sink'[r] = to_sink[r]
      BY <1>0, <2>1
    <2>3. Msgs(to_sink'[s]) = Append(Msgs(to_sink[s]), m)
      <3>1. to_sink[s] \in Seq([msg : FromSource(s), due : Nat])
        BY <1>0, LineTyped
      <3>2. Msgs(Append(to_sink[s], InFlight(m))) = Append(Msgs(to_sink[s]), m)
        BY <1>0, <3>1, MsgsOps
      <3> QED BY <2>2, <3>2
    <2>4. Line(s)' = Taken(s) \o Append(Msgs(to_sink[s]), m)
      BY <1>1, <2>3 DEF Line
    <2>5. Line(s)' = Append(Line(s), m)
      BY <1>0, <2>4, LineTyped, ConcatAppend DEF Line
    <2> QED BY <1>2, <2>2, <2>5
  <1>4. CASE tx' = None \/ ~SinkListens
    <2>1. to_sink' = to_sink
      BY <1>4 DEF SourceSends
    <2> QED BY <1>2, <1>4, <2>1
  <1> QED BY <1>3, <1>4

LEMMA NothingSent ==
  ASSUME tx' = None, SourceSends, UNCHANGED sink
  PROVE  \A r \in Sources : to_sink'[r] = to_sink[r] /\ Line(r)' = Line(r)
  BY DEF SourceSends, Line, Taken, sink

\* A step that leaves the sink alone leaves its part of the invariant.
LEMMA SinkIdle ==
  ASSUME HandOK, RingOK, UNCHANGED sink, queued' = queued,
         ~SinkListens => to_sink' = to_sink
  PROVE  /\ HandOK' /\ RingOK'
         /\ \A r \in Sources : LentTo(r)' <=> LentTo(r)
  <1>1. HandOK'
    BY DEF HandOK, sink, SinkListens, K!InHand
  <1>2. RingOK'
    BY DEF RingOK, sink, Newest
  <1>3. \A r \in Sources : LentTo(r)' <=> LentTo(r)
    BY DEF LentTo, sink
  <1> QED BY <1>1, <1>2, <1>3

LEMMA SourceStepOK ==
  ASSUME IInv, NEW s \in Sources, NEW x, Moves(s, x), now' = now, SourceSends,
         UNCHANGED <<sink, faults>>, queued' = queued
  PROVE  HandOK' /\ RingOK' /\ \A r \in Sources : SourceOK(r)'
  <1>0. /\ SystemInv /\ HandOK /\ RingOK /\ SourceOK(s) /\ now \in Nat
        /\ src \in [Sources -> Records]
        /\ WireOK
    BY DEF IInv, SystemInv, TypeOK
  <1>1. ~SinkListens => to_sink' = to_sink
    BY DEF SourceSends
  <1>2. /\ HandOK' /\ RingOK'
        /\ \A r \in Sources : LentTo(r)' <=> LentTo(r)
    BY <1>0, <1>1, SinkIdle
  <1>3. /\ src'[s] = x /\ \A r \in Sources \ {s} : src'[r] = src[r]
        /\ UNCHANGED <<pc, faults>>
    BY <1>0 DEF Moves, sink
  <1>4. tx' = None => \A r \in Sources : to_sink'[r] = to_sink[r] /\ Line(r)' = Line(r)
    BY NothingSent
  <1>5. BorrowMsg \in FromSource(s) /\ BorrowMsg.type = "BORROW"
    BY DEF BorrowMsg, FromSource, K!Messages, K!Borrow
  <1> DEFINE f == FrameMsg(s, src[s].frames)
  <1>6. /\ EnqueueMsg(s, src[s]) = f /\ f \in FromSource(s) /\ f.type = "ENQUEUE"
        /\ From(s, f) # None
    <2>1. src[s].next_frame_idx = src[s].frames % IdxMod
          /\ src[s].next_frame_idx \in 0 .. IdxMod - 1 /\ src[s].frames \in Nat
      BY <1>0 DEF SourceOK, Numbered, Records
    <2>2. f = [type |-> "ENQUEUE", frame_idx |-> src[s].next_frame_idx,
               frame |-> [by |-> s, tag |-> src[s].frames], short |-> FALSE]
      BY <2>1 DEF FrameMsg, K!Enqueue
    <2>3. EnqueueMsg(s, src[s]) = f
      BY <2>2 DEF EnqueueMsg
    <2>4. f \in FromSource(s)
      <3>1. \A i \in 0 .. IdxMod - 1, t \in Nat, short \in BOOLEAN :
              K!Enqueue(i, [by |-> s, tag |-> t], short) \in
                {K!Enqueue(j, [by |-> s, tag |-> u], b) :
                   j \in 0 .. IdxMod - 1, u \in Nat, b \in BOOLEAN}
        OBVIOUS
      <3>2. f = K!Enqueue(src[s].next_frame_idx, [by |-> s, tag |-> src[s].frames], FALSE)
        BY <2>1 DEF FrameMsg
      <3>3. \A i \in 0 .. IdxMod - 1, t \in Nat, short \in BOOLEAN :
              K!Enqueue(i, [by |-> s, tag |-> t], short) \in FromSource(s)
        BY <3>1 DEF FromSource, K!Messages
      <3> HIDE DEF f
      <3> QED BY <2>1, <3>2, <3>3
    <2>5. From(s, f) \in [from : Sources,
             msg : [type : {"ENQUEUE"}, frame_idx : Nat,
                    frame : [by : Sources, tag : Nat], short : BOOLEAN]]
      BY <2>1, <2>2, SourceAssumption DEF From
    <2> QED BY <2>2, <2>3, <2>4, <2>5, NoneIsNoMessage
  <1> HIDE DEF f
  <1>7. ASSUME NEW r \in Sources PROVE Stream(r)'
    <2>0. Stream(r) /\ Line(r) \in Seq(FromSource(r))
      BY <1>0, LineTyped DEF IInv, SourceOK
    <2>1. CASE r # s
      <3>1. Line(r)' = Line(r)
        <4>1. CASE tx' = None
          BY <1>4, <4>1
        <4>2. CASE tx' = From(s, BorrowMsg)
          BY <1>0, <1>5, <2>1, <4>2, LineSent
        <4>3. CASE tx' = From(s, EnqueueMsg(s, src[s]))
          BY <1>0, <1>6, <2>1, <4>3, LineSent
        <4> QED BY <4>1, <4>2, <4>3 DEF Moves
      <3> QED BY <1>2, <1>3, <2>0, <2>1, <3>1, LineKept DEF Waits
    <2>2. CASE r = s
      <3>1. ASSUME Line(s)' = Line(s), x.frames = src[s].frames,
                   x.state = "WAITING" => src[s].state = "WAITING"
            PROVE  Stream(s)'
        BY <1>2, <1>3, <2>0, <2>2, <3>1, LineKept DEF Waits
      <3>2. CASE /\ tx' = None
                 /\ x.frames = src[s].frames
                 /\ x.state = "WAITING" => src[s].state = "WAITING"
        BY <1>4, <2>2, <3>1, <3>2
      <3>3. CASE /\ tx' = From(s, BorrowMsg)
                 /\ x.frames = src[s].frames
                 /\ src[s].state = "WAITING" /\ x.state = "WAITING"
        <4>1. Line(s)' = Append(Line(s), BorrowMsg) \/ Line(s)' = Line(s)
          BY <1>0, <1>5, <3>3, LineSent
        <4>2. Line(s)' = Append(Line(s), BorrowMsg) => Stream(s)'
          BY <1>2, <1>3, <1>5, <2>0, <2>2, <3>3, LineBorrows DEF Waits
        <4> QED BY <2>2, <3>1, <3>3, <4>1, <4>2
      <3>4. CASE /\ tx' = From(s, EnqueueMsg(s, src[s]))
                 /\ x.frames = src[s].frames + 1
                 /\ src[s].state # "WAITING" /\ x.state # "WAITING"
        <4>1. Line(s)' = Append(Line(s), f) \/ (Line(s)' = Line(s) /\ ~SinkListens)
          BY <1>0, <1>6, <3>4, LineSent
        <4>2. Line(s)' = Append(Line(s), f) => Stream(s)'
          BY <1>2, <1>3, <1>6, <2>0, <2>2, <3>4, LineGrows DEF Waits, f
        <4>3. ASSUME Line(s)' = Line(s), ~SinkListens PROVE Stream(s)'
          <5>1. pc \notin {"iterate", "enqueue"} /\ to_sink[s] = << >> /\ ~LentTo(s)
            BY <1>0, <4>3 DEF HandOK, SinkListens, LentTo
          <5>2. Msgs(<< >>) = << >> /\ << >> \o << >> = << >>
            BY EmptySeq, ConcatEmptySeq, MsgsFacts DEF Msgs
          <5>3. Line(s)' = << >>
            BY <4>3, <5>1, <5>2 DEF Line, Taken
          <5> QED BY <1>2, <1>3, <3>4, <5>1, <5>3, LineCut DEF Waits
        <4> QED BY <2>2, <4>1, <4>2, <4>3
      <3> QED BY <3>2, <3>3, <3>4 DEF Moves
    <2> QED BY <2>1, <2>2
  <1>8. ASSUME NEW r \in Sources PROVE Numbered(src'[r]) /\ (src[r].pc = "unmade" => Waits(r))'
    BY <1>3 DEF IInv, SourceOK, Moves, Waits
  <1>9. ASSUME NEW r \in Sources PROVE Timely(r)'
    <2>0. SourceOK(r) /\ Timely(r)
      BY DEF IInv, SourceOK
    <2>1. CASE r # s
      <3>1. to_sink'[r] = to_sink[r]
        <4>1. CASE tx' = None
          BY <1>4, <4>1
        <4>2. CASE tx' = From(s, BorrowMsg)
          BY <1>0, <1>5, <2>1, <4>2, LineSent
        <4>3. CASE tx' = From(s, EnqueueMsg(s, src[s]))
          BY <1>0, <1>6, <2>1, <4>3, LineSent
        <4> QED BY <4>1, <4>2, <4>3 DEF Moves
      <3>2. src'[r] = src[r] /\ to_source'[r] = to_source[r]
        BY <1>3, <2>1 DEF Moves
      <3> QED BY <1>3, <2>0, <3>1, <3>2 DEF Timely, Arrived
    <2>2. CASE r = s
      <3> SUFFICES ASSUME faults = 0,
                          NEW i \in 1 .. Len(to_sink'[s]),
                          to_sink'[s][i].msg.type = "BORROW"
                   PROVE  /\ to_sink'[s][i].due <= now + 1
                          /\ to_sink'[s][i].due = now + 1 =>
                               Young(x) /\ ~Arrived(to_source[s])'
        BY <1>3, <2>2 DEF Timely, Moves
      <3> DEFINE q == to_sink[s]
                 Fine(p) == /\ p.due <= now + 1
                            /\ p.due = now + 1 => Young(x) /\ ~Arrived(to_source[s])'
      <3>1. \A j \in 1 .. Len(q) : q[j].msg.type = "BORROW" => Fine(q[j])
        BY <2>0, <2>2 DEF Timely, Moves
      <3>2. q \in Seq([msg : FromSource(s), due : Nat])
        BY <1>0, LineTyped
      <3> HIDE DEF q
      <3>3. to_sink'[s] = q => Fine(to_sink'[s][i])
        BY <3>1
      <3>4. ASSUME NEW m \in FromSource(s), to_sink'[s] = Append(q, InFlight(m)),
                   m.type = "BORROW" => Young(x) /\ ~Arrived(to_source[s])'
            PROVE  Fine(to_sink'[s][i])
        <4>1. InFlight(m) \in [msg : FromSource(s), due : Nat]
              /\ InFlight(m).msg = m /\ InFlight(m).due = now + 1
          BY <1>0 DEF InFlight
        <4>2. /\ Len(to_sink'[s]) = Len(q) + 1 /\ Len(q) \in Nat
              /\ to_sink'[s][Len(q) + 1] = InFlight(m)
              /\ \A j \in 1 .. Len(q) : to_sink'[s][j] = q[j]
          BY <3>2, <3>4, <4>1, AppendProperties, LenProperties
        <4>3. i \in 1 .. Len(q) \/ i = Len(q) + 1
          BY <4>2
        <4>4. CASE i \in 1 .. Len(q)
          BY <3>1, <4>2, <4>4
        <4>5. CASE i = Len(q) + 1
          BY <1>0, <3>4, <4>1, <4>2, <4>5
        <4> QED BY <4>3, <4>4, <4>5
      <3>5. CASE tx' = None
        BY <1>4, <3>3, <3>5 DEF q
      <3>6. CASE /\ tx' = From(s, BorrowMsg)
                 /\ src[s].state = "WAITING" /\ x.state = "WAITING"
                 /\ faults = 0 => ~Arrived(to_source[s])'
        <4>1. to_sink'[s] = q \/ to_sink'[s] = Append(q, InFlight(BorrowMsg))
          BY <1>0, <1>5, <3>6, LineSent DEF q
        <4>2. Young(x)
          BY <3>6 DEF Moves, Numbered, Young
        <4> QED BY <1>5, <3>3, <3>4, <3>6, <4>1, <4>2
      <3>7. CASE tx' = From(s, EnqueueMsg(s, src[s]))
        <4>1. to_sink'[s] = q \/ to_sink'[s] = Append(q, InFlight(f))
          BY <1>0, <1>6, <3>7, LineSent DEF q
        <4> QED BY <1>6, <3>3, <3>4, <4>1
      <3> QED BY <3>5, <3>6, <3>7 DEF Moves
    <2> QED BY <2>1, <2>2
  <1> QED BY <1>2, <1>7, <1>8, <1>9 DEF SourceOK
-----------------------------------------------------------------------------
(* The steps of the sink. *)

\* Nothing that the sink sends arrives in the same ms, and it takes no
\* message but the first of a queue.
LEMMA TimelyKept ==
  ASSUME IInv, src' = src, now' = now, faults' = faults, NEW s \in Sources,
         \/ to_sink'[s] = to_sink[s]
         \/ to_sink[s] # << >> /\ to_sink'[s] = Tail(to_sink[s]),
         to_source' = to_source \/ SinkSends,
         out' = None \/ out'.msg \in FromSink
  PROVE  Timely(s)'
  <1>0. /\ Timely(s) /\ WireOK /\ HandOK /\ now \in Nat
        /\ to_source[s] \in Queues(FromSink) /\ s \in DOMAIN to_source
    BY DEF IInv, SystemInv, SourceOK, TypeOK, WireOK
  <1>1. /\ src[s].pc = "unmade" /\ to_source[s] = << >> => to_source'[s] = << >>
        /\ ~Arrived(to_source[s]) => ~Arrived(to_source[s])'
    <2>1. CASE to_source'[s] = to_source[s]
      BY <2>1 DEF Arrived
    <2>2. CASE /\ src[s].pc # "unmade"
               /\ to_source'[s] = Append(to_source[s], InFlight(out'.msg))
               /\ out'.msg \in FromSink
      <3> DEFINE q == to_source[s]
                 p == InFlight(out'.msg)
                 P == [msg : FromSink, due : Nat]
      <3>1. q \in Seq(P) /\ p \in P /\ p.due = now + 1
        BY <1>0, <2>2 DEF Queues, InFlight
      <3> HIDE DEF p, P
      <3>2. /\ Append(q, p) \in Seq(P) /\ Len(Append(q, p)) = Len(q) + 1 /\ Len(q) \in Nat
            /\ Append(q, p)[Len(q) + 1] = p
            /\ \A i \in 1 .. Len(q) : Append(q, p)[i] = q[i]
        BY <3>1, AppendProperties, LenProperties
      <3>3. Head(Append(q, p)) = Append(q, p)[1]
        BY <3>2
      <3>4. CASE q = << >>
        <4>1. Head(Append(q, p)) = p
          BY <3>2, <3>3, <3>4
        <4> QED BY <1>0, <2>2, <3>1, <4>1 DEF Arrived, p
      <3>5. CASE q # << >>
        <4>1. Len(q) \in Nat \ {0} /\ Head(q) = q[1]
          BY <3>1, <3>5, EmptySeq
        <4>2. Head(Append(q, p)) = Head(q)
          BY <3>2, <3>3, <4>1
        <4> QED BY <2>2, <3>5, <4>2 DEF Arrived, p
      <3> QED BY <3>4, <3>5
    <2>3. \/ to_source'[s] = to_source[s]
          \/ /\ src[s].pc # "unmade"
             /\ to_source'[s] = Append(to_source[s], InFlight(out'.msg))
             /\ out'.msg \in FromSink
      <3>1. CASE to_source' = to_source
        BY <3>1
      <3>2. CASE /\ out' # None /\ Listening(out'.to)
                 /\ to_source' = [to_source EXCEPT ![out'.to] = Append(@, InFlight(out'.msg))]
        BY <1>0, <3>2 DEF Listening
      <3> QED BY <3>1, <3>2 DEF SinkSends
    <2> QED BY <2>1, <2>2, <2>3
  <1>2. \A i \in 1 .. Len(to_sink'[s]) :
          \E j \in 1 .. Len(to_sink[s]) : to_sink'[s][i] = to_sink[s][j]
    <2>1. CASE to_sink'[s] = to_sink[s]
      BY <2>1
    <2>2. CASE to_sink[s] # << >> /\ to_sink'[s] = Tail(to_sink[s])
      <3> DEFINE q == to_sink[s]
                 r == Tail(q)
      <3>1. q \in Seq([msg : FromSource(s), due : Nat])
        BY <1>0, LineTyped
      <3> HIDE DEF q
      <3>2. /\ Len(r) = Len(q) - 1 /\ Len(q) \in Nat
            /\ \A i \in 1 .. Len(r) : r[i] = q[i + 1]
        BY <2>2, <3>1, HeadTailProperties, LenProperties DEF q
      <3> HIDE DEF r
      <3>3. \A i \in 1 .. Len(r) : i + 1 \in 1 .. Len(q)
        BY <3>2
      <3>4. \A i \in 1 .. Len(r) : \E j \in 1 .. Len(q) : r[i] = q[j]
        BY <3>2, <3>3
      <3> QED BY <2>2, <3>4 DEF r, q
    <2> QED BY <2>1, <2>2
  <1> QED BY <1>0, <1>1, <1>2 DEF Timely

\* A step of the sink that takes no message from a line and gives no loan.
LEMMA SinkAside ==
  ASSUME IInv, src' = src, now' = now, faults' = faults, queued' = queued,
         pc \notin {"enqueue", "freed"}, pc' \notin {"enqueue", "freed"},
         state' = "LENT" => state = "LENT",
         state' = "ERROR" <=> state = "ERROR",
         UNCHANGED <<borrower_endpoint, last_enqueued_frame_idx>>,
         pending_frames' \in Seq(K!Frames),
         Newest' = Newest,
         pc' = "iterate" => K!InHand(rx)' /\ Len(rx'.msgs) <= 1,
         state = "ERROR" => pc' = "idle" /\ to_sink' = to_sink,
         \A s \in Sources :
           /\ Line(s)' = Line(s)
           /\ \/ to_sink'[s] = to_sink[s]
              \/ to_sink[s] # << >> /\ to_sink'[s] = Tail(to_sink[s]),
         to_source' = to_source \/ SinkSends,
         out' = None \/ out'.msg \in FromSink
  PROVE  HandOK' /\ RingOK' /\ \A s \in Sources : SourceOK(s)'
  <1>0. HandOK /\ RingOK /\ \A s \in Sources : SourceOK(s)
    BY DEF IInv
  <1>1. HandOK'
    BY <1>0 DEF HandOK, SinkListens
  <1>2. RingOK'
    BY <1>0 DEF RingOK
  <1>3. ASSUME NEW s \in Sources PROVE SourceOK(s)'
    <2>1. LentTo(s)' => LentTo(s)
      BY DEF LentTo
    <2>2. Stream(s)'
      BY <1>0, <2>1, LineKept DEF SourceOK, Waits
    <2>3. Timely(s)'
      BY TimelyKept
    <2> QED BY <1>0, <2>2, <2>3 DEF SourceOK, Waits
  <1> QED BY <1>1, <1>2, <1>3

\* The lines after a step that leaves the network and what is in hand alone.
LEMMA SameLines ==
  ASSUME to_sink' = to_sink, \A s \in Sources : Taken(s)' = Taken(s)
  PROVE  \A s \in Sources : Line(s)' = Line(s)
  BY DEF Line

LEMMA EmptyConcat ==
  ASSUME NEW S, NEW q \in Seq(S), NEW m \in S
  PROVE  /\ << >> \o q = q
         /\ <<m>> \o q # << >>
         /\ (<<m>> \o q)[1] = m
         /\ Tail(<<m>> \o q) = q
  <1>1. << >> \o q = q
    BY ConcatEmptySeq
  <1> DEFINE h == <<m>>
  <1>2. h \in Seq(S) /\ Len(h) = 1 /\ h[1] = m /\ Len(q) \in Nat
    BY LenProperties
  <1> HIDE DEF h
  <1>3. /\ h \o q \in Seq(S) /\ Len(h \o q) = Len(h) + Len(q)
        /\ \A i \in 1 .. Len(h) + Len(q) :
             (h \o q)[i] = IF i <= Len(h) THEN h[i] ELSE q[i - Len(h)]
    BY <1>2, ConcatProperties
  <1> DEFINE w == h \o q
  <1>4. /\ w \in Seq(S) /\ Len(w) = 1 + Len(q) /\ w[1] = m /\ w # << >>
        /\ \A i \in 1 .. 1 + Len(q) : w[i] = IF i <= 1 THEN h[i] ELSE q[i - 1]
    BY <1>2, <1>3, EmptySeq
  <1> HIDE DEF w
  <1> DEFINE t == Tail(w)
  <1>5. /\ t \in Seq(S) /\ Len(t) = Len(q)
        /\ \A i \in 1 .. Len(t) : t[i] = w[i + 1]
    BY <1>2, <1>4, HeadTailProperties
  <1> HIDE DEF t
  <1>6. \A i \in 1 .. Len(q) : i + 1 \in 1 .. 1 + Len(q) /\ ~(i + 1 <= 1) /\ (i + 1) - 1 = i
    BY <1>2
  <1>7. \A i \in 1 .. Len(q) : t[i] = q[i]
    BY <1>4, <1>5, <1>6
  <1>8. t = q
    BY <1>5, <1>7, SeqEqual
  <1> QED BY <1>1, <1>4, <1>8 DEF t, w, h
\* The message in hand is the first of its sender's line.
LEMMA LineInHand ==
  ASSUME WireOK, HandOK, pc \in {"iterate", "enqueue"}, rx.msgs # << >>,
         NEW s \in Sources, rx.from = s
  PROVE  /\ rx.msgs = <<Head(rx.msgs)>>
         /\ Tail(rx.msgs) = << >>
         /\ Head(rx.msgs) \in FromSource(s)
         /\ Msgs(to_sink[s]) \in Seq(FromSource(s))
         /\ Line(s) = <<Head(rx.msgs)>> \o Msgs(to_sink[s])
         /\ Line(s) \in Seq(FromSource(s))
         /\ Line(s) # << >>
         /\ Line(s)[1] = Head(rx.msgs)
  <1> DEFINE q == rx.msgs
             m == Head(q)
             z == Msgs(to_sink[s])
  <1>1. rx \in [from : {s}, msgs : Seq(FromSource(s))] /\ Len(q) <= 1
    BY DEF HandOK, K!InHand, FromSource
  <1>2. q \in Seq(FromSource(s)) /\ q # << >>
    BY <1>1
  <1>3. Len(q) <= 1
    BY <1>1
  <1> HIDE DEF q, m, z
  <1>4. Len(q) = 1
    <2>1. Len(q) \in Nat /\ Len(q) # 0
      BY <1>2, EmptySeq, LenProperties
    <2> DEFINE n == Len(q)
    <2>2. n \in Nat /\ n # 0 /\ n <= 1
      BY <1>3, <2>1
    <2> HIDE DEF n
    <2>3. n = 1
      BY <2>2
    <2> QED BY <2>3 DEF n
  <1>5. m \in FromSource(s) /\ m = q[1]
    BY <1>2, <1>4, HeadTailProperties DEF m
  <1>6. q = <<m>>
    <2>1. <<m>> \in Seq(FromSource(s)) /\ Len(<<m>>) = 1 /\ <<m>>[1] = m
      BY <1>5
    <2> DEFINE k == <<m>>
    <2> HIDE DEF k
    <2>2. \A i \in 1 .. 1 : q[i] = k[i]
      BY <1>5, <2>1 DEF k
    <2>3. q = k
      BY <1>2, <1>4, <2>1, <2>2, SeqEqual DEF k
    <2> QED BY <2>3 DEF k
  <1>7. Tail(q) = << >>
    <2>1. Tail(q) \in Seq(FromSource(s)) /\ Len(Tail(q)) = 0
      BY <1>2, <1>4, HeadTailProperties
    <2> QED BY <2>1, EmptySeq
  <1>8. z \in Seq(FromSource(s)) /\ Line(s) \in Seq(FromSource(s))
    BY LineTyped DEF z
  <1>9. Line(s) = <<m>> \o z
    BY <1>6 DEF Line, Taken, q, z
  <1>10. Line(s) # << >> /\ Line(s)[1] = m
    BY <1>5, <1>8, <1>9, EmptyConcat
  <1> QED BY <1>5, <1>6, <1>7, <1>8, <1>9, <1>10 DEF m, q, z

\* The message in hand was handled.
LEMMA LineNext ==
  ASSUME WireOK, HandOK, pc \in {"iterate", "enqueue"}, rx.msgs # << >>,
         K!NextMsg, to_sink' = to_sink, pc' = "iterate",
         NEW s \in Sources, rx.from = s
  PROVE  /\ Line(s)' = Tail(Line(s))
         /\ \A r \in Sources \ {s} : Line(r)' = Line(r)
         /\ K!InHand(rx)' /\ Len(rx'.msgs) <= 1
  <1> DEFINE m == Head(rx.msgs)
             z == Msgs(to_sink[s])
  <1>1. /\ Tail(rx.msgs) = << >> /\ m \in FromSource(s)
        /\ z \in Seq(FromSource(s)) /\ Line(s) = <<m>> \o z
    BY LineInHand
  <1>2. rx'.from = s /\ rx'.msgs = << >> /\ rx' = [from |-> s, msgs |-> << >>]
    <2>1. rx \in [from : {s}, msgs : Seq(FromSource(s))]
      BY DEF HandOK, K!InHand, FromSource
    <2>2. rx' = [rx EXCEPT !.msgs = << >>]
      BY <1>1 DEF K!NextMsg
    <2> QED BY <2>1, <2>2
  <1>3. Line(s)' = << >> \o z
    BY <1>2 DEF Line, Taken
  <1> HIDE DEF m, z
  <1>4. Line(s)' = Tail(Line(s))
    BY <1>1, <1>3, EmptyConcat
  <1>5. ASSUME NEW r \in Sources \ {s} PROVE Line(r)' = Line(r)
    BY <1>2 DEF Line, Taken
  <1>6. K!InHand(rx)' /\ Len(rx'.msgs) <= 1
    <2>1. << >> \in Seq(FromSource(s)) /\ Len(<< >>) = 0
      BY EmptySeq
    <2>2. rx' \in [from : {s}, msgs : Seq(FromSource(s))]
      BY <1>2, <2>1
    <2> QED BY <1>2, <2>1, <2>2 DEF K!InHand, FromSource
  <1> QED BY <1>4, <1>5, <1>6

\* The first datagram of a queue is taken in hand.
LEMMA LineReceived ==
  ASSUME WireOK, HandOK, now \in Nat, pc = "idle", pc' = "iterate",
         NEW s \in Sources, to_sink[s] # << >>,
         rx' = [from |-> s, msgs |-> <<Head(to_sink[s]).msg>>],
         to_sink' = [to_sink EXCEPT ![s] = Tail(@)]
  PROVE  /\ \A r \in Sources :
              /\ Line(r)' = Line(r)
              /\ \/ to_sink'[r] = to_sink[r]
                 \/ to_sink[r] # << >> /\ to_sink'[r] = Tail(to_sink[r])
         /\ K!InHand(rx)' /\ Len(rx'.msgs) <= 1
  <1> DEFINE q == to_sink[s]
             m == Head(q).msg
  <1>1. DOMAIN to_sink = Sources
    BY DEF WireOK
  <1>2. to_sink'[s] = Tail(q) /\ \A r \in Sources \ {s} : to_sink'[r] = to_sink[r]
    BY <1>1
  <1>3. q # << >>
    OBVIOUS
  <1>4. q \in Seq([msg : FromSource(s), due : Nat])
    BY LineTyped
  <1>5. /\ rx'.from = s /\ rx'.msgs = <<m>>
        /\ rx' = [from |-> s, msgs |-> <<m>>]
    OBVIOUS
  <1> HIDE DEF q
  <1>6. m \in FromSource(s)
    <2>1. Head(q) \in [msg : FromSource(s), due : Nat]
      BY <1>3, <1>4, HeadTailProperties
    <2> QED BY <2>1
  <1>7. Msgs(q) = <<m>> \o Msgs(Tail(q))
    BY <1>3, <1>4, MsgsOps
  <1>8. Msgs(q) \in Seq(FromSource(s))
    BY <1>4, MsgsFacts
  <1> HIDE DEF m
  <1>9. Line(s) = Msgs(q)
    <2>1. Line(s) = << >> \o Msgs(q)
      BY DEF Line, Taken, q
    <2> QED BY <1>6, <1>8, <2>1, EmptyConcat
  <1>10. Line(s)' = <<m>> \o Msgs(Tail(q))
    BY <1>2, <1>5 DEF Line, Taken
  <1>11. ASSUME NEW r \in Sources \ {s} PROVE Line(r)' = Line(r)
    BY <1>2, <1>5 DEF Line, Taken
  <1>12. K!InHand(rx)' /\ Len(rx'.msgs) <= 1
    <2>1. <<m>> \in Seq(FromSource(s)) /\ Len(<<m>>) = 1
      BY <1>6
    <2>2. rx' \in [from : {s}, msgs : Seq(FromSource(s))]
      BY <1>5, <2>1
    <2> QED BY <1>5, <2>1, <2>2 DEF K!InHand, FromSource
  <1> QED BY <1>2, <1>3, <1>7, <1>9, <1>10, <1>11, <1>12 DEF q

\* Showing a frame leaves the newest one.
LEMMA NewestShown ==
  ASSUME pending_frames \in Seq(K!Frames), K!mem_ring_dequeue
  PROVE  /\ Newest' = Newest
         /\ pending_frames' \in Seq(K!Frames)
         /\ Len(pending_frames') <= Len(pending_frames)
  <1> DEFINE q == pending_frames
             t == pending_frames'
  <1>1. q # << >> /\ t = Tail(q) /\ current_frame' = Head(q)
    BY DEF K!mem_ring_dequeue
  <1>2. q \in Seq(K!Frames)
    OBVIOUS
  <1> HIDE DEF q, t
  <1>3. /\ Len(q) \in Nat \ {0} /\ t \in Seq(K!Frames) /\ Len(t) = Len(q) - 1
        /\ Head(q) = q[1]
        /\ \A i \in 1 .. Len(t) : t[i] = q[i + 1]
    BY <1>1, <1>2, HeadTailProperties, EmptySeq
  <1>4. Newest = q[Len(q)]
    BY <1>1 DEF Newest, Last, q
  <1>5. Newest' = IF t = << >> THEN q[1] ELSE t[Len(t)]
    BY <1>1, <1>3 DEF Newest, Last, t
  <1>6. t = << >> => q[1] = q[Len(q)]
    <2>1. t = << >> => Len(t) = 0
      OBVIOUS
    <2>2. Len(t) = 0 => Len(q) = 1
      BY <1>3
    <2> QED BY <2>1, <2>2
  <1>7. t # << >> => t[Len(t)] = q[Len(q)]
    <2>1. t # << >> => Len(t) \in Nat \ {0}
      BY <1>3, EmptySeq
    <2>2. Len(t) \in Nat \ {0} => Len(t) \in 1 .. Len(t) /\ Len(t) + 1 = Len(q)
      BY <1>3
    <2> QED BY <1>3, <2>1, <2>2
  <1>8. Newest' = Newest
    BY <1>4, <1>5, <1>6, <1>7
  <1>9. Len(t) <= Len(q)
    BY <1>3
  <1> QED BY <1>3, <1>8, <1>9 DEF q, t
\* What ObservedNext makes of queued.
Counts ==
  queued' = IF state # "LENT" /\ state' = "LENT" THEN 0
            ELSE IF Len(pending_frames') > Len(pending_frames)
            THEN queued + 1 ELSE queued

\* The steps of the sink that neither handle a message nor fill the ring.
LEMMA SinkQuietOK ==
  ASSUME IInv, Counts,
         \/ \E s \in Sources : SinkReceives(s)
         \/ SinkReceivesNothing \/ SinkShows
         \/ /\ SinkContinues
            /\ \/ K!sink_receive_done \/ K!sink_send
               \/ K!sink_get_next \/ K!sink_get_done
  PROVE  HandOK' /\ RingOK' /\ \A s \in Sources : SourceOK(s)'
  <1>0. /\ WireOK /\ HandOK /\ RingOK /\ now \in Nat
        /\ pending_frames \in Seq(K!Frames)
    BY DEF IInv, SystemInv, TypeOK, RingOK
  <1>1. now' = now /\ (out' = None \/ out'.msg \in FromSink)
    BY SinkSpeaks
       DEF SinkReceives, SinkReceivesNothing, SinkShows, SinkContinues, K!SinkStep, K!Continue
  <1>2. CASE \E s \in Sources : SinkReceives(s)
    <2>1. PICK s \in Sources : SinkReceives(s)
      BY <1>2
    <2>2. /\ K!sink_receive(s, <<Head(to_sink[s]).msg>>) /\ to_sink[s] # << >>
          /\ to_sink' = [to_sink EXCEPT ![s] = Tail(@)]
          /\ UNCHANGED <<src, faults, to_source>>
      BY <2>1 DEF SinkReceives, Arrived
    <2>3. /\ pc = "idle" /\ state # "ERROR" /\ pc' = "iterate"
          /\ rx' = [from |-> s, msgs |-> <<Head(to_sink[s]).msg>>]
          /\ UNCHANGED <<state, borrower_endpoint, last_enqueued_frame_idx,
                         pending_frames, current_frame>>
      BY <2>2 DEF K!sink_receive, K!loan, K!playing
    <2>4. /\ \A r \in Sources :
               /\ Line(r)' = Line(r)
               /\ \/ to_sink'[r] = to_sink[r]
                  \/ to_sink[r] # << >> /\ to_sink'[r] = Tail(to_sink[r])
          /\ K!InHand(rx)' /\ Len(rx'.msgs) <= 1
      BY <1>0, <2>2, <2>3, LineReceived
    <2>5. queued' = queued /\ Newest' = Newest
      BY <2>3 DEF Counts, Newest
    <2> QED BY <1>0, <1>1, <2>2, <2>3, <2>4, <2>5, SinkAside
  <1>3. CASE \/ SinkReceivesNothing \/ SinkShows
             \/ /\ SinkContinues
                /\ \/ K!sink_receive_done \/ K!sink_send
                   \/ K!sink_get_next \/ K!sink_get_done
    <2>1. /\ UNCHANGED <<src, to_sink, faults>>
          /\ to_source' = to_source \/ SinkSends
      BY <1>3 DEF SinkReceivesNothing, SinkShows, SinkContinues, network
    <2> DEFINE Quiet ==
          /\ pc \in {"idle", "get", "send"} \/ (pc = "iterate" /\ rx.msgs = << >>)
          /\ pc' \in {"idle", "get", "send"}
          /\ state' = "LENT" => state = "LENT"
          /\ state' = "ERROR" <=> state = "ERROR"
          /\ pc' = "idle" \/ state # "ERROR"
          /\ UNCHANGED <<borrower_endpoint, last_enqueued_frame_idx>>
          /\ UNCHANGED <<pending_frames, current_frame>> \/ K!mem_ring_dequeue
    <2>2. Quiet
      <3>1. K!sink_receive_nothing => Quiet
        BY DEF K!sink_receive_nothing, K!sink_drop_borrow, K!loan, K!playing
      <3>2. K!sink_get_nothing => Quiet
        BY DEF K!sink_get_nothing, K!loan
      <3>3. K!sink_get_first => Quiet
        BY DEF K!sink_get_first
      <3>4. K!sink_get_begin => Quiet
        BY DEF K!sink_get_begin, K!loan
      <3>5. K!sink_receive_done => Quiet
        BY <1>0 DEF K!sink_receive_done, K!loan, K!playing, HandOK
      <3>6. K!sink_send => Quiet
        BY DEF K!sink_send, K!loan, K!playing
      <3>7. K!sink_get_next => Quiet
        BY <1>0 DEF K!sink_get_next, HandOK
      <3>8. K!sink_get_done => Quiet
        BY DEF K!sink_get_done, K!loan
      <3> QED BY <1>3, <3>1, <3>2, <3>3, <3>4, <3>5, <3>6, <3>7, <3>8
              DEF SinkReceivesNothing, SinkShows
    <2>3. /\ Newest' = Newest
          /\ pending_frames' \in Seq(K!Frames)
          /\ Len(pending_frames') <= Len(pending_frames)
      <3>1. CASE UNCHANGED <<pending_frames, current_frame>>
        <4>1. Len(pending_frames) \in Nat
          BY <1>0, LenProperties
        <4> QED BY <1>0, <3>1, <4>1 DEF Newest
      <3>2. CASE K!mem_ring_dequeue
        BY <1>0, <3>2, NewestShown
      <3> QED BY <2>2, <3>1, <3>2
    <2>4. queued' = queued
      <3>1. Len(pending_frames) \in Nat /\ Len(pending_frames') \in Nat
        BY <1>0, <2>3, LenProperties
      <3>2. ~(Len(pending_frames') > Len(pending_frames))
        BY <2>3, <3>1
      <3> QED BY <2>2, <3>2 DEF Counts
    <2>5. ASSUME NEW s \in Sources PROVE Line(s)' = Line(s)
      <3>1. Taken(s) = << >> /\ Taken(s)' = << >>
        BY <2>2 DEF Taken
      <3> QED BY <2>1, <3>1 DEF Line
    <2> HIDE DEF Quiet
    <2>6. /\ pc \notin {"enqueue", "freed"} /\ pc' \notin {"enqueue", "freed"}
          /\ pc' # "iterate"
          /\ state' = "LENT" => state = "LENT"
          /\ state' = "ERROR" <=> state = "ERROR"
          /\ UNCHANGED <<borrower_endpoint, last_enqueued_frame_idx>>
          /\ state = "ERROR" => pc' = "idle"
      BY <2>2 DEF Quiet
    <2> QED BY <1>1, <2>1, <2>3, <2>4, <2>5, <2>6, SinkAside
  <1> QED BY <1>2, <1>3
\* What a call of the sink does not touch, and what it sends.
LEMMA ContinuesFacts ==
  ASSUME SinkContinues
  PROVE  /\ UNCHANGED <<src, now, to_sink, faults>>
         /\ to_source' = to_source \/ SinkSends
         /\ out' = None \/ out'.msg \in FromSink
  BY SinkSpeaks DEF SinkContinues, K!SinkStep

\* The message in hand, and its sender.
LEMMA HandFacts ==
  ASSUME HandOK, pc \in {"iterate", "enqueue"}, rx.msgs # << >>
  PROVE  rx.from \in Sources /\ Head(rx.msgs) \in FromSource(rx.from)
  <1>1. PICK e \in Sources : rx \in [from : {e}, msgs : Seq(K!Messages(e))]
    BY DEF HandOK, K!InHand
  <1>2. rx.from = e /\ rx.msgs \in Seq(K!Messages(e))
    BY <1>1
  <1> QED BY <1>2, HeadTailProperties DEF FromSource

\* Once the message in hand was handled it remains to look at the line of its
\* sender, and at the ring.
LEMMA HandledOK ==
  ASSUME IInv, SinkContinues, pc \in {"iterate", "enqueue"}, rx.msgs # << >>,
         K!NextMsg, pc' = "iterate", state' # "ERROR", NEW s \in Sources, rx.from = s,
         \A r \in Sources \ {s} : LentTo(r)' => LentTo(r) /\ queued' = queued,
         RingOK', Stream(s)'
  PROVE  HandOK' /\ RingOK' /\ \A r \in Sources : SourceOK(r)'
  <1>0. /\ WireOK /\ HandOK
        /\ \A r \in Sources : SourceOK(r)
    BY DEF IInv, SystemInv
  <1>1. /\ UNCHANGED <<src, now, to_sink, faults>>
        /\ to_source' = to_source \/ SinkSends
        /\ out' = None \/ out'.msg \in FromSink
    BY ContinuesFacts
  <1>2. /\ \A r \in Sources \ {s} : Line(r)' = Line(r)
        /\ K!InHand(rx)' /\ Len(rx'.msgs) <= 1
    BY <1>0, <1>1, LineNext
  <1>3. HandOK'
    BY <1>2 DEF HandOK, SinkListens
  <1>4. ASSUME NEW r \in Sources \ {s} PROVE Stream(r)'
    <2>1. pc = "enqueue" => ~LentTo(r)
      BY <1>0, <1>4 DEF HandOK, LentTo
    <2>2. LentTo(r)' => LentTo(r) /\ queued' = queued /\ pc # "enqueue" /\ pc' # "enqueue"
      BY <1>4, <2>1
    <2>3. Line(r)' = Line(r) /\ Stream(r)
      BY <1>0, <1>2, <1>4 DEF SourceOK
    <2>4. Waits(r)' => Waits(r)
      BY <1>1 DEF Waits
    <2>5. src'[r].frames = src[r].frames /\ (faults' = 0 => faults = 0)
      BY <1>1
    <2> QED BY <1>4, <2>2, <2>3, <2>4, <2>5, LineKept
  <1>5. ASSUME NEW r \in Sources PROVE SourceOK(r)'
    <2>1. Stream(r)'
      <3>1. r # s => Stream(r)'
        BY <1>4
      <3>2. r = s => Stream(r)'
        OBVIOUS
      <3> QED BY <3>1, <3>2
    <2>2. Timely(r)'
      BY <1>1, TimelyKept
    <2>3. Numbered(src[r])' /\ (src[r].pc = "unmade" => Waits(r))'
      BY <1>0, <1>1 DEF SourceOK, Waits
    <2> QED BY <2>1, <2>2, <2>3 DEF SourceOK
  <1> QED BY <1>3, <1>5

\* While a BORROW of its borrower is on its way, the ring is empty of frames
\* of this loan.
LEMMA LineFresh ==
  ASSUME NEW s \in Sources, Stream(s), NEW S, Line(s) \in Seq(S),
         Line(s) # << >>, Line(s)[1].type = "BORROW", LentTo(s)
  PROVE  queued = 0
  <1>1. PICK b \in Nat :
          /\ Kinds(s, b)
          /\ Fresh(s, b) \/ LentTo(s) => \E o \in Orders, c \in Nat : Placed(s, b, o, c)
    BY DEF Stream
  <1>2. b > 0
    <2>1. Len(Line(s)) \in Nat \ {0}
      BY EmptySeq
    <2>2. b = 0 => 1 \in b + 1 .. Len(Line(s))
      BY <2>1
    <2>3. b = 0 => Line(s)[1].type = "ENQUEUE"
      BY <1>1, <2>2 DEF Kinds
    <2> QED BY <2>3
  <1> QED BY <1>1, <1>2 DEF Fresh, Placed

\* A BORROW is handled.
LEMMA SinkBorrowOK ==
  ASSUME IInv, Counts, SinkContinues, K!sink_handle_borrow
  PROVE  HandOK' /\ RingOK' /\ \A r \in Sources : SourceOK(r)'
  <1>0. /\ pc = "iterate" /\ pc' = "iterate" /\ rx.msgs # << >> /\ K!NextMsg
        /\ Head(rx.msgs).type = "BORROW"
        /\ UNCHANGED <<pending_frames, current_frame>>
    BY DEF K!sink_handle_borrow, K!Handling, K!playing
  <1>a. PICK s \in Sources : rx.from = s
    BY <1>0, HandFacts DEF IInv
  <1>1. /\ WireOK /\ HandOK /\ RingOK /\ Stream(s) /\ state # "ERROR"
        /\ UNCHANGED <<src, now, to_sink, faults>>
    BY <1>0, ContinuesFacts DEF IInv, SystemInv, SourceOK, HandOK
  <1>2. /\ Line(s) \in Seq(FromSource(s)) /\ Line(s) # << >>
        /\ Line(s)[1].type = "BORROW" /\ Line(s)' = Tail(Line(s))
    BY <1>a, <1>0, <1>1, LineInHand, LineNext
  <1>3. \/ state' = "OPEN"
        \/ /\ state' = state
           /\ UNCHANGED <<borrower_endpoint, last_enqueued_frame_idx>>
        \/ /\ state = "OPEN" \/ (state = "LENT" /\ borrower_endpoint = s)
           /\ state' = "LENT"
           /\ borrower_endpoint' = s
           /\ last_enqueued_frame_idx' = -1
    BY <1>a DEF K!sink_handle_borrow, K!RefuseBorrow, K!sink_drop_borrow, K!MayBorrow, K!loan
  <1>4. state # "LENT" /\ state' = "LENT" => queued' = 0
    BY DEF Counts
  <1>5. state = "LENT" => queued' = queued
    <2>1. Len(pending_frames) \in Nat
      BY <1>1, LenProperties DEF RingOK
    <2> QED BY <1>0, <2>1 DEF Counts
  <1>6. LentTo(s) => queued = 0
    BY <1>1, <1>2, LineFresh
  <1>7. Newest' = Newest
    BY <1>0 DEF Newest
  <1>8. /\ state' # "ERROR"
        /\ \A r \in Sources \ {s} : LentTo(r)' => LentTo(r) /\ queued' = queued
        /\ LentTo(s)' => queued' = 0 \/ (LentTo(s) /\ queued' = queued)
    BY <1>0, <1>1, <1>3, <1>4, <1>5 DEF LentTo
  <1>9. RingOK'
    <2>1. queued' \in Nat /\ pending_frames' \in Seq(K!Frames)
      BY <1>0, <1>1 DEF RingOK, Counts
    <2>2. CASE state' # "LENT"
      BY <2>1, <2>2 DEF RingOK
    <2>3. CASE /\ state' = "LENT" /\ state' = state
               /\ UNCHANGED <<borrower_endpoint, last_enqueued_frame_idx>>
      BY <1>0, <1>1, <1>5, <1>7, <2>1, <2>3 DEF RingOK
    <2>4. CASE /\ state = "OPEN" \/ (state = "LENT" /\ borrower_endpoint = s)
               /\ state' = "LENT"
               /\ borrower_endpoint' = s
               /\ last_enqueued_frame_idx' = -1
      <3>1. queued' = 0
        BY <1>0, <1>4, <1>5, <1>6, <2>4 DEF LentTo
      <3> QED BY <2>1, <2>4, <3>1 DEF RingOK, LastIdx
    <2> QED BY <1>3, <2>2, <2>3, <2>4
  <1>10. Stream(s)'
    BY <1>0, <1>1, <1>2, <1>8, LineBorrowTaken
  <1> QED BY <1>0, <1>8, <1>9, <1>10, <1>a, HandledOK
\* What bounded_diff says of the frame in hand.
LEMMA FrameInHand ==
  ASSUME OneFault, RingOK, NEW s \in Sources, LentTo(s), NEW m,
         NEW o \in Orders, NEW c \in Nat, Placed(s, 0, o, c),
         m = FrameMsg(s, Delivered(o, c))
  PROVE  /\ queued \in Nat /\ Delivered(o, c) \in Nat /\ Filled(o, c) \in Nat
         /\ m.frame = [by |-> s, tag |-> Delivered(o, c)]
         /\ pc # "enqueue" => queued = Filled(o, c)
         /\ pc = "enqueue" => Filled(o, c) <= queued /\ queued <= Delivered(o, c) + 1
         /\ K!FrameDiff(m) = IF Delivered(o, c) = queued - 2 THEN IdxMod - 1
                             ELSE Delivered(o, c) - queued + 1
         /\ Filled(o, c + 1) = IF Delivered(o, c) < Filled(o, c)
                               THEN Filled(o, c) ELSE Delivered(o, c) + 1
         /\ Delivered(o, c) <= Filled(o, c) + 1
  <1> DEFINE t == Delivered(o, c)
             f == Filled(o, c)
  <1>1. /\ t \in Nat /\ f \in Nat /\ f - 2 <= t /\ t <= f + 1
        /\ Filled(o, c + 1) = IF t < f THEN f ELSE t + 1
    BY OrderFacts
  <1>2. queued \in Nat /\ last_enqueued_frame_idx = LastIdx(queued)
    BY DEF RingOK, LentTo
  <1>3. Counted(o, c)
    BY DEF Placed
  <1>4. /\ pc # "enqueue" => queued = f
        /\ pc = "enqueue" => f <= queued /\ queued <= t + 1
    BY <1>3 DEF Counted
  <1>5. m.frame_idx = t % IdxMod /\ m.frame = [by |-> s, tag |-> t]
    BY DEF FrameMsg, K!Enqueue
  <1> HIDE DEF t, f
  <1>6. queued - 2 <= t /\ t <= queued + 1
    BY <1>1, <1>2, <1>4
  <1>7. K!bounded_diff(LastIdx(queued), t % IdxMod, IdxMod)
          = IF t = queued - 2 THEN IdxMod - 1 ELSE t - queued + 1
    BY <1>1, <1>2, <1>6, DiffFacts
  <1>8. K!FrameDiff(m) = IF t = queued - 2 THEN IdxMod - 1 ELSE t - queued + 1
    BY <1>2, <1>5, <1>7 DEF K!FrameDiff
  <1> QED BY <1>1, <1>2, <1>4, <1>5, <1>8 DEF t, f

\* An ENQUEUE is handled: it is refused, or too old, or the ring begins to
\* fill.
LEMMA SinkFrameOK ==
  ASSUME IInv, Counts, OneFault, SinkContinues, K!sink_handle_enqueue
  PROVE  HandOK' /\ RingOK' /\ \A r \in Sources : SourceOK(r)'
  <1> DEFINE m == Head(rx.msgs)
  <1>0. /\ pc = "iterate" /\ rx.msgs # << >> /\ m.type = "ENQUEUE"
        /\ UNCHANGED <<pending_frames, current_frame, borrower_endpoint,
                       last_enqueued_frame_idx>>
    BY DEF K!sink_handle_enqueue, K!Handling, K!playing, K!loan
  <1>a. PICK s \in Sources : rx.from = s
    BY <1>0, HandFacts DEF IInv
  <1>1. /\ WireOK /\ HandOK /\ RingOK /\ Stream(s) /\ state # "ERROR"
        /\ UNCHANGED <<src, now, to_sink, faults>>
    BY <1>0, ContinuesFacts DEF IInv, SystemInv, SourceOK, HandOK
  <1>2. state' = "LENT" => state' = state
    BY DEF K!sink_handle_enqueue, K!sink_drop_borrow
  <1>3. queued' = queued /\ Newest' = Newest
    <2>1. Len(pending_frames) \in Nat
      BY <1>1, LenProperties DEF RingOK
    <2> QED BY <1>0, <1>2, <2>1 DEF Counts, Newest
  <1>4. RingOK'
    BY <1>0, <1>1, <1>2, <1>3 DEF RingOK
  <1>5. /\ Line(s) \in Seq(FromSource(s)) /\ Line(s) # << >> /\ Line(s)[1] = m
        /\ Line(s)[1].type = "ENQUEUE"
    BY <1>0, <1>1, <1>a, LineInHand
  <1>6. CASE /\ K!NextMsg /\ pc' = "iterate"
             /\ LentTo(s)' => LentTo(s) /\ state' = "LENT" /\ K!FrameDiff(m) > MaxSkip
    <2>1. Line(s)' = Tail(Line(s))
      BY <1>0, <1>1, <1>6, <1>a, LineNext
    <2>2. ASSUME LentTo(s)', NEW o \in Orders, NEW c \in Nat, Placed(s, 0, o, c),
                 Line(s)[1] = FrameMsg(s, Delivered(o, c))
          PROVE  queued = Filled(o, c + 1)
      <3> DEFINE t == Delivered(o, c)
                 f == Filled(o, c)
                 g == Filled(o, c + 1)
      <3>1. /\ queued \in Nat /\ t \in Nat /\ queued = f
            /\ K!FrameDiff(m) = IF t = queued - 2 THEN IdxMod - 1 ELSE t - queued + 1
            /\ g = IF t < f THEN f ELSE t + 1
            /\ t <= f + 1
        <4>1. LentTo(s) /\ m = FrameMsg(s, Delivered(o, c)) /\ pc # "enqueue" /\ RingOK
          BY <1>0, <1>1, <1>5, <1>6, <2>2
        <4> HIDE DEF m
        <4> QED BY <2>2, <4>1, FrameInHand
      <3>2. K!FrameDiff(m) > MaxSkip
        BY <1>6, <2>2
      <3> HIDE DEF t, f, g, m
      <3>3. t = queued - 2
        BY <3>1, <3>2 DEF OneFault
      <3>4. queued = g
        BY <3>1, <3>3
      <3> QED BY <3>4 DEF g
    <2>3. Stream(s)'
      BY <1>1, <1>3, <1>5, <1>6, <2>1, <2>2, LineFrameTaken
    <2>4. \A r \in Sources \ {s} : LentTo(r)' => LentTo(r) /\ queued' = queued
      BY <1>0, <1>2, <1>3 DEF LentTo
    <2>5. state' # "ERROR"
      BY <1>1 DEF K!sink_handle_enqueue, K!sink_drop_borrow
    <2> QED BY <1>0, <1>4, <1>6, <1>a, <2>3, <2>4, <2>5, HandledOK
  <1>7. CASE /\ pc' = "enqueue" /\ state = "LENT" /\ state' = state /\ rx' = rx
             /\ borrower_endpoint = s /\ K!FrameDiff(m) <= MaxSkip
    <2>1. LentTo(s)
      BY <1>0, <1>7 DEF LentTo
    <2>2. \A r \in Sources : Line(r)' = Line(r)
      BY <1>0, <1>1, <1>7 DEF Line, Taken
    <2>3. ASSUME NEW o \in Orders, NEW c \in Nat, Placed(s, 0, o, c),
                 Line(s)[1] = FrameMsg(s, Delivered(o, c))
          PROVE  Filled(o, c) <= queued /\ queued <= Delivered(o, c) + 1
      <3> DEFINE t == Delivered(o, c)
                 f == Filled(o, c)
      <3>1. /\ queued \in Nat /\ t \in Nat /\ queued = f
            /\ K!FrameDiff(m) = IF t = queued - 2 THEN IdxMod - 1 ELSE t - queued + 1
        <4>1. m = FrameMsg(s, Delivered(o, c)) /\ pc # "enqueue"
          BY <1>0, <1>5, <2>3
        <4> HIDE DEF m
        <4> QED BY <1>1, <2>1, <2>3, <4>1, FrameInHand
      <3>2. f - 2 <= t
        BY OrderFacts
      <3>3. K!FrameDiff(m) <= MaxSkip
        BY <1>7
      <3> HIDE DEF t, f, m
      <3>4. t # queued - 2
        BY <3>1, <3>3, SourceAssumption DEF OneFault
      <3>5. f <= queued /\ queued <= t + 1
        BY <3>1, <3>2, <3>4
      <3> QED BY <3>5 DEF t, f
    <2>4. Stream(s)'
      BY <1>1, <1>3, <1>5, <1>7, <2>1, <2>2, <2>3, LineFills
    <2>5. HandOK'
      BY <1>0, <1>1, <1>7, <1>a DEF HandOK, K!InHand, SinkListens
    <2>6. ASSUME NEW r \in Sources PROVE SourceOK(r)'
      <3>0. SourceOK(r)
        BY DEF IInv
      <3>1. Stream(r)'
        <4>1. CASE r = s
          BY <2>4, <4>1
        <4>2. CASE r # s
          <5>1. ~LentTo(r)'
            BY <1>0, <1>7, <4>2 DEF LentTo
          <5> QED BY <1>1, <2>2, <3>0, <5>1, LineKept DEF SourceOK, Waits
        <4> QED BY <4>1, <4>2
      <3>2. Timely(r)'
        BY ContinuesFacts, TimelyKept
      <3> QED BY <1>1, <3>0, <3>1, <3>2 DEF SourceOK, Waits
    <2> QED BY <1>4, <2>5, <2>6
  <1>8. \/ /\ K!NextMsg /\ pc' = "iterate"
           /\ LentTo(s)' => LentTo(s) /\ state' = "LENT" /\ K!FrameDiff(m) > MaxSkip
        \/ /\ pc' = "enqueue" /\ state = "LENT" /\ state' = state /\ rx' = rx
           /\ borrower_endpoint = s /\ K!FrameDiff(m) <= MaxSkip
    <2> HIDE DEF m
    <2> QED BY <1>0, <1>a DEF K!sink_handle_enqueue, K!sink_drop_borrow, K!FromBorrower,
               LentTo, m
  <1> QED BY <1>6, <1>7, <1>8
\* A source sends nothing else.
LEMMA NoOthers ==
  ASSUME NEW s \in Sources, Stream(s), NEW S, Line(s) \in Seq(S), Line(s) # << >>
  PROVE  Line(s)[1].type \in {"BORROW", "ENQUEUE"}
  <1>1. PICK b \in Nat : Kinds(s, b)
    BY DEF Stream
  <1>2. Len(Line(s)) \in Nat \ {0}
    BY EmptySeq
  <1>3. 1 \in 1 .. b \/ 1 \in b + 1 .. Len(Line(s))
    BY <1>2
  <1> QED BY <1>1, <1>3 DEF Kinds

\* The frame in hand while the ring is filled.
LEMMA Filling ==
  ASSUME IInv, OneFault, pc = "enqueue", NEW s \in Sources, rx.from = s
  PROVE  /\ LentTo(s) /\ rx.msgs # << >> /\ Stream(s)
         /\ Line(s) \in Seq(FromSource(s)) /\ Line(s) # << >>
         /\ Line(s)[1] = Head(rx.msgs) /\ Line(s)[1].type = "ENQUEUE"
         /\ \E t \in Nat :
              /\ Head(rx.msgs).frame = [by |-> s, tag |-> t]
              /\ queued <= t + 1
              /\ K!FrameDiff(Head(rx.msgs)) = t - queued + 1
         /\ \A o \in Orders, c \in Nat :
              Placed(s, 0, o, c) /\ Line(s)[1] = FrameMsg(s, Delivered(o, c)) =>
                /\ Head(rx.msgs).frame.tag = Delivered(o, c)
                /\ Filled(o, c) <= queued
                /\ Filled(o, c) \in Nat
                /\ Filled(o, c + 1) = IF Delivered(o, c) < Filled(o, c)
                                      THEN Filled(o, c) ELSE Delivered(o, c) + 1
  <1> DEFINE m == Head(rx.msgs)
  <1>1. /\ WireOK /\ HandOK /\ RingOK /\ Stream(s)
        /\ LentTo(s) /\ rx.msgs # << >> /\ m.type = "ENQUEUE"
    BY DEF IInv, SystemInv, SourceOK, HandOK, LentTo
  <1>2. Line(s) \in Seq(FromSource(s)) /\ Line(s) # << >> /\ Line(s)[1] = m
    BY <1>1, LineInHand
  <1> HIDE DEF m
  <1>3. ASSUME NEW o \in Orders, NEW c \in Nat, Placed(s, 0, o, c),
               Line(s)[1] = FrameMsg(s, Delivered(o, c))
        PROVE  /\ Delivered(o, c) \in Nat
               /\ m.frame = [by |-> s, tag |-> Delivered(o, c)]
               /\ queued <= Delivered(o, c) + 1
               /\ K!FrameDiff(m) = Delivered(o, c) - queued + 1
               /\ Filled(o, c) <= queued
               /\ Filled(o, c) \in Nat
               /\ Filled(o, c + 1) = IF Delivered(o, c) < Filled(o, c)
                                     THEN Filled(o, c) ELSE Delivered(o, c) + 1
    <2> DEFINE t == Delivered(o, c)
               f == Filled(o, c)
               g == Filled(o, c + 1)
    <2>1. m = FrameMsg(s, Delivered(o, c))
      BY <1>2, <1>3
    <2>2. /\ queued \in Nat /\ t \in Nat /\ f \in Nat
          /\ m.frame = [by |-> s, tag |-> t]
          /\ f <= queued /\ queued <= t + 1
          /\ K!FrameDiff(m) = IF t = queued - 2 THEN IdxMod - 1 ELSE t - queued + 1
          /\ g = IF t < f THEN f ELSE t + 1
      BY <1>1, <1>3, <2>1, FrameInHand
    <2> HIDE DEF t, f, g
    <2>3. t # queued - 2
      BY <2>2
    <2> QED BY <2>2, <2>3 DEF t, f, g
  <1>4. PICK o \in Orders, c \in Nat :
          Placed(s, 0, o, c) /\ Line(s)[1] = FrameMsg(s, Delivered(o, c))
    BY <1>1, <1>2, LineHead
  <1>5. \E t \in Nat : /\ m.frame = [by |-> s, tag |-> t]
                       /\ queued <= t + 1
                       /\ K!FrameDiff(m) = t - queued + 1
    BY <1>3, <1>4
  <1>6. ASSUME NEW p \in Orders, NEW d \in Nat, Placed(s, 0, p, d),
               Line(s)[1] = FrameMsg(s, Delivered(p, d))
        PROVE  m.frame.tag = Delivered(p, d)
    <2>1. m.frame = [by |-> s, tag |-> Delivered(p, d)]
      BY <1>3, <1>6
    <2> QED BY <2>1
  <1> QED BY <1>1, <1>2, <1>3, <1>5, <1>6 DEF m

\* The loop that fills the ring makes a turn.
LEMMA SinkEnqueueOK ==
  ASSUME IInv, Counts, OneFault, SinkContinues, K!sink_enqueue
  PROVE  HandOK' /\ RingOK' /\ \A r \in Sources : SourceOK(r)'
  <1> DEFINE m == Head(rx.msgs)
             q == pending_frames
  <1>0. /\ pc = "enqueue" /\ pc' = pc /\ rx' = rx /\ K!FrameDiff(m) > 0
        /\ UNCHANGED <<state, borrower_endpoint, current_frame>>
        /\ \/ /\ pending_frames' = Append(q, m.frame)
              /\ last_enqueued_frame_idx' = (last_enqueued_frame_idx + 1) % IdxMod
           \/ UNCHANGED <<pending_frames, last_enqueued_frame_idx>>
    BY DEF K!sink_enqueue
  <1>1. /\ WireOK /\ HandOK /\ RingOK /\ state = "LENT"
        /\ UNCHANGED <<src, now, to_sink, faults>>
        /\ queued \in Nat /\ q \in Seq(K!Frames) /\ last_enqueued_frame_idx = LastIdx(queued)
    BY <1>0, ContinuesFacts DEF IInv, SystemInv, HandOK, RingOK
  <1>a. PICK s \in Sources : rx.from = s
    BY <1>0, <1>1, HandFacts DEF HandOK
  <1>2. /\ LentTo(s) /\ Stream(s) /\ borrower_endpoint = s
        /\ Line(s) \in Seq(FromSource(s)) /\ Line(s) # << >>
        /\ Line(s)[1] = m /\ Line(s)[1].type = "ENQUEUE"
    BY <1>0, <1>a, Filling DEF LentTo
  <1>3. PICK t \in Nat : /\ m.frame = [by |-> s, tag |-> t]
                         /\ queued <= t + 1
                         /\ K!FrameDiff(m) = t - queued + 1
    BY <1>0, <1>a, Filling
  <1>4. queued <= t
    <2> HIDE DEF m
    <2> QED BY <1>0, <1>1, <1>3
  <1>5. Len(q) \in Nat
    BY <1>1, LenProperties
  <1>6. m.frame \in K!Frames
    BY <1>3 DEF K!Frames
  <1>7. RingOK' /\ queued' \in {queued, queued + 1}
    <2>1. CASE UNCHANGED <<pending_frames, last_enqueued_frame_idx>>
      <3>1. queued' = queued
        BY <1>1, <1>5, <1>0, <2>1 DEF Counts
      <3> QED BY <1>0, <1>1, <2>1, <3>1 DEF RingOK, Newest
    <2>2. CASE /\ pending_frames' = Append(q, m.frame)
               /\ last_enqueued_frame_idx' = (last_enqueued_frame_idx + 1) % IdxMod
      <3> DEFINE f == m.frame
                 z == pending_frames'
      <3> HIDE DEF f, q, m
      <3>1. /\ z \in Seq(K!Frames) /\ Len(z) = Len(q) + 1 /\ z[Len(q) + 1] = f
        BY <1>1, <1>6, <2>2, AppendProperties DEF f
      <3>2. queued' = queued + 1
        BY <1>0, <1>1, <1>5, <3>1 DEF Counts, q
      <3>3. last_enqueued_frame_idx' = LastIdx(queued')
        BY <1>1, <2>2, <3>2, LastIdxNext
      <3>4. Newest' = f
        <4>1. z # << >>
          BY <1>5, <3>1
        <4>2. z[Len(z)] = f
          BY <3>1
        <4> QED BY <4>1, <4>2 DEF Newest, Last
      <3>5. m.frame.tag = t /\ Head(rx'.msgs) = m
        BY <1>0, <1>3 DEF m
      <3>6. t < queued' => f = [by |-> borrower_endpoint', tag |-> queued' - 1]
        <4>1. t < queued' => t = queued' - 1
          BY <1>1, <1>4, <3>2
        <4> QED BY <1>0, <1>2, <1>3, <4>1 DEF f
      <3>7. queued' \in Nat
        BY <1>1, <3>2
      <3>8. RingOK'
        BY <1>0, <3>1, <3>3, <3>4, <3>5, <3>6, <3>7 DEF RingOK
      <3> QED BY <3>2, <3>8
    <2> QED BY <1>0, <2>1, <2>2
  <1>8. \A r \in Sources : Line(r)' = Line(r)
    BY <1>0, <1>1 DEF Line, Taken
  <1>9. ASSUME NEW o \in Orders, NEW c \in Nat, Placed(s, 0, o, c),
               Line(s)[1] = FrameMsg(s, Delivered(o, c))
        PROVE  Filled(o, c) <= queued' /\ queued' <= Delivered(o, c) + 1
    <2> DEFINE d == Delivered(o, c)
               f == Filled(o, c)
    <2>1. m.frame.tag = d /\ f <= queued /\ f \in Nat
      BY <1>0, <1>9, <1>a, Filling
    <2>2. d = t
      BY <1>3, <2>1
    <2> HIDE DEF d, f, m
    <2>3. f <= queued' /\ queued' <= d + 1
      BY <1>1, <1>4, <1>7, <2>1, <2>2
    <2> QED BY <2>3 DEF d, f
  <1>10. Stream(s)'
    BY <1>0, <1>1, <1>2, <1>8, <1>9, LineFills
  <1>11. HandOK'
    BY <1>0, <1>1 DEF HandOK, K!InHand, SinkListens
  <1>12. ASSUME NEW r \in Sources PROVE SourceOK(r)'
    <2>0. SourceOK(r)
      BY DEF IInv
    <2>1. Stream(r)'
      <3>1. CASE r = s
        BY <1>10, <3>1
      <3>2. CASE r # s
        <4>1. ~LentTo(r)'
          BY <1>0, <1>2, <3>2 DEF LentTo
        <4> QED BY <1>1, <1>8, <2>0, <4>1, LineKept DEF SourceOK, Waits
      <3> QED BY <3>1, <3>2
    <2>2. Timely(r)'
      BY ContinuesFacts, TimelyKept
    <2> QED BY <1>1, <2>0, <2>1, <2>2 DEF SourceOK, Waits
  <1> QED BY <1>7, <1>11, <1>12
\* The loop ends, or a message is handled that no source sends.
LEMMA SinkDoneOK ==
  ASSUME IInv, Counts, OneFault, SinkContinues,
         K!sink_enqueue_done \/ K!sink_handle_other
  PROVE  HandOK' /\ RingOK' /\ \A r \in Sources : SourceOK(r)'
  <1> DEFINE m == Head(rx.msgs)
  <1>0. /\ pc \in {"iterate", "enqueue"} /\ pc' = "iterate" /\ K!NextMsg
        /\ UNCHANGED <<state, borrower_endpoint, last_enqueued_frame_idx,
                       pending_frames, current_frame>>
        /\ rx.msgs # << >>
    BY DEF K!sink_enqueue_done, K!sink_handle_other, K!Handling, K!loan, K!playing, IInv, HandOK
  <1>1. /\ WireOK /\ HandOK /\ RingOK
        /\ UNCHANGED <<src, now, to_sink, faults>>
    BY ContinuesFacts DEF IInv, SystemInv
  <1>a. PICK s \in Sources : rx.from = s
    BY <1>0, <1>1, HandFacts
  <1>2. /\ Stream(s)
        /\ Line(s) \in Seq(FromSource(s)) /\ Line(s) # << >> /\ Line(s)[1] = m
    BY <1>0, <1>1, <1>a, LineInHand DEF IInv, SourceOK
  <1>3. pc = "enqueue" /\ K!FrameDiff(m) <= 0
    <2>1. m.type # "OTHER"
      BY <1>2, NoOthers
    <2> QED BY <2>1 DEF K!sink_handle_other, K!Handling, K!sink_enqueue_done
  <1>4. LentTo(s) /\ Line(s)[1].type = "ENQUEUE" /\ state = "LENT"
    BY <1>3, <1>a, Filling DEF LentTo
  <1>5. PICK t \in Nat : /\ m.frame = [by |-> s, tag |-> t]
                         /\ queued <= t + 1
                         /\ K!FrameDiff(m) = t - queued + 1
    BY <1>3, <1>a, Filling
  <1>6. queued = t + 1 /\ queued \in Nat
    <2>1. queued \in Nat
      BY <1>1 DEF RingOK
    <2> HIDE DEF m
    <2> QED BY <1>3, <1>5, <2>1
  <1>7. queued' = queued /\ Newest' = Newest
    <2>1. Len(pending_frames) \in Nat
      BY <1>1, LenProperties DEF RingOK
    <2> QED BY <1>0, <2>1 DEF Counts, Newest
  <1>8. RingOK'
    <2>1. m.frame.tag < queued
      BY <1>5, <1>6
    <2> QED BY <1>0, <1>1, <1>7, <2>1 DEF RingOK
  <1>9. Line(s)' = Tail(Line(s))
    BY <1>0, <1>1, <1>a, LineNext
  <1>10. ASSUME NEW o \in Orders, NEW c \in Nat, Placed(s, 0, o, c),
                Line(s)[1] = FrameMsg(s, Delivered(o, c))
         PROVE  queued = Filled(o, c + 1)
    <2> DEFINE d == Delivered(o, c)
               f == Filled(o, c)
               g == Filled(o, c + 1)
    <2>1. m.frame.tag = d /\ f <= queued /\ f \in Nat /\ g = IF d < f THEN f ELSE d + 1
      BY <1>3, <1>10, <1>a, Filling
    <2>2. d = t
      BY <1>5, <2>1
    <2> HIDE DEF d, f, g, m
    <2>3. queued = g
      BY <1>6, <2>1, <2>2
    <2> QED BY <2>3 DEF g
  <1>11. Stream(s)'
    <2>1. LentTo(s)' => LentTo(s)
      BY <1>4
    <2> QED BY <1>0, <1>1, <1>2, <1>4, <1>7, <1>9, <1>10, LineFrameTaken
  <1>12. \A r \in Sources \ {s} : LentTo(r)' => LentTo(r) /\ queued' = queued
    BY <1>0, <1>3, <1>7 DEF LentTo
  <1> QED BY <1>0, <1>4, <1>8, <1>11, <1>12, <1>a, HandledOK

\* Whatever the sink does within a call.
LEMMA SinkContinuesOK ==
  ASSUME IInv, Counts, OneFault, SinkContinues
  PROVE  HandOK' /\ RingOK' /\ \A r \in Sources : SourceOK(r)'
  BY SinkQuietOK, SinkBorrowOK, SinkFrameOK, SinkEnqueueOK, SinkDoneOK
     DEF SinkContinues, K!Continue
-----------------------------------------------------------------------------
(* The sink is stopped and started again. *)

LEMMA SinkStopsOK ==
  ASSUME IInv, Counts, SinkStops
  PROVE  HandOK' /\ RingOK' /\ \A r \in Sources : SourceOK(r)'
  <1>0. /\ HandOK /\ RingOK /\ faults \in Nat
        /\ src \in [Sources -> Records]
        /\ \A r \in Sources : SourceOK(r)
    BY DEF IInv, SystemInv, TypeOK
  <1>1. /\ pc' = "freed" /\ faults' = faults + 1
        /\ to_sink' = [s \in Sources |-> << >>]
        /\ UNCHANGED <<src, state, pending_frames>>
    BY DEF SinkStops, K!atolla_sink_free, K!playing
  <1>2. HandOK'
    BY <1>1 DEF HandOK
  <1>3. RingOK'
    <2>1. Len(pending_frames) \in Nat
      BY <1>0, LenProperties DEF RingOK
    <2>2. queued' = queued
      BY <1>1, <2>1 DEF Counts
    <2> QED BY <1>0, <1>1, <2>2 DEF RingOK
  <1>4. ASSUME NEW s \in Sources PROVE SourceOK(s)'
    <2>1. Msgs(<< >>) = << >> /\ << >> \o << >> = << >>
      BY EmptySeq, ConcatEmptySeq, MsgsFacts DEF Msgs
    <2>2. Line(s)' = << >>
      BY <1>1, <2>1 DEF Line, Taken
    <2>3. ~LentTo(s)'
      BY <1>1 DEF LentTo
    <2>4. Numbered(src[s])' /\ (src[s].pc = "unmade" => Waits(s))'
      BY <1>0, <1>1 DEF SourceOK, Waits
    <2>5. Waits(s)' => src'[s].frames = 0
      BY <2>4 DEF Waits, Numbered
    <2>6. Stream(s)'
      BY <2>2, <2>3, <2>5, LineCut
    <2>7. faults' # 0
      BY <1>0, <1>1
    <2>8. Timely(s)'
      BY <2>7 DEF Timely
    <2> QED BY <2>4, <2>6, <2>8 DEF SourceOK
  <1> QED BY <1>2, <1>3, <1>4

LEMMA SinkRestartsOK ==
  ASSUME IInv, Counts, SinkRestarts
  PROVE  HandOK' /\ RingOK' /\ \A r \in Sources : SourceOK(r)'
  <1>0. /\ HandOK /\ RingOK
        /\ \A r \in Sources : SourceOK(r)
    BY DEF IInv
  <1>1. /\ pc = "freed" /\ pc' = "idle" /\ state' \in {"OPEN", "ERROR"}
        /\ pending_frames' = << >> /\ out' = None
        /\ UNCHANGED <<src, now, to_sink, to_source, faults>>
    BY DEF SinkRestarts, K!atolla_sink_remake, network
  <1>2. \A s \in Sources : to_sink'[s] = << >>
    BY <1>0, <1>1 DEF HandOK, SinkListens
  <1>3. HandOK'
    BY <1>1, <1>2 DEF HandOK
  <1>4. RingOK'
    <2>1. Len(pending_frames) \in Nat /\ Len(pending_frames') = 0
      BY <1>0, <1>1, LenProperties, EmptySeq DEF RingOK
    <2>2. queued' = queued
      BY <1>1, <2>1 DEF Counts
    <2>3. pending_frames' \in Seq(K!Frames)
      BY <1>1, EmptySeq
    <2> QED BY <1>0, <1>1, <2>2, <2>3 DEF RingOK
  <1>5. ASSUME NEW s \in Sources PROVE SourceOK(s)'
    <2>1. Line(s)' = Line(s)
      BY <1>1 DEF Line, Taken
    <2>2. ~LentTo(s)'
      BY <1>1 DEF LentTo
    <2>3. Stream(s)'
      BY <1>0, <1>1, <2>1, <2>2, LineKept DEF SourceOK, Waits
    <2>4. Timely(s)'
      BY <1>1, TimelyKept
    <2> QED BY <1>0, <1>1, <2>3, <2>4 DEF SourceOK, Waits
  <1> QED BY <1>3, <1>4, <1>5
-----------------------------------------------------------------------------
(* The network errs. *)

\* It errs once all have run: no message is in hand, and none has arrived.
LEMMA AtRest ==
  ASSUME IInv, AllDone, UNCHANGED sink, NEW s \in Sources, to_sink[s] # << >>,
         to_sink'[s] \in Seq([msg : FromSource(s), due : Nat])
  PROVE  /\ SinkListens /\ ~Arrived(to_sink[s])
         /\ pc = "idle" /\ pc' = "idle"
         /\ Line(s) = Msgs(to_sink[s])
         /\ Line(s)' = Msgs(to_sink'[s])
  <1>1. HandOK /\ WireOK
    BY DEF IInv, SystemInv
  <1>2. SinkListens /\ ~Arrived(to_sink[s]) /\ pc = "idle" /\ pc' = "idle"
    BY <1>1 DEF HandOK, AllDone, sink
  <1>3. Line(s) = << >> \o Msgs(to_sink[s]) /\ Line(s)' = << >> \o Msgs(to_sink'[s])
    BY <1>2 DEF Line, Taken
  <1>4. Msgs(to_sink[s]) \in Seq(FromSource(s)) /\ Msgs(to_sink'[s]) \in Seq(FromSource(s))
    BY <1>1, LineTyped, MsgsFacts
  <1>5. \A z \in Seq(FromSource(s)) : << >> \o z = z
    BY ConcatEmptySeq
  <1> QED BY <1>2, <1>3, <1>4, <1>5

\* A BORROW that has not arrived was sent in this ms, in which its source
\* sent no frame.
LEMMA NeighboursAlike ==
  ASSUME IInv, faults = 0, NEW s \in Sources, ~Arrived(to_sink[s]),
         Line(s) = Msgs(to_sink[s]), NEW k \in 1 .. Len(Line(s)) - 1
  PROVE  Line(s)[k].type = Line(s)[k + 1].type
  <1> DEFINE q == to_sink[s]
             n == Len(Line(s))
  <1>0. WireOK /\ HandOK /\ now \in Nat /\ Stream(s) /\ Timely(s)
    BY DEF IInv, SystemInv, TypeOK, SourceOK
  <1>1. q \in Seq([msg : FromSource(s), due : Nat])
    BY <1>0, LineTyped
  <1>2. /\ n = Len(q) /\ n \in Nat
        /\ \A i \in 1 .. n : Line(s)[i] = q[i].msg
    BY <1>1, MsgsFacts, LenProperties
  <1>3. PICK b \in Nat :
          /\ Kinds(s, b)
          /\ Fresh(s, b) \/ LentTo(s) => \E o \in Orders, c \in Nat : Placed(s, b, o, c)
    BY <1>0 DEF Stream
  <1>4. \A i \in 1 .. n : /\ i <= b => Line(s)[i].type = "BORROW"
                          /\ i > b => Line(s)[i].type = "ENQUEUE"
    <2>1. \A i \in 1 .. n : (i <= b => i \in 1 .. b) /\ (i > b => i \in b + 1 .. n)
      BY <1>2
    <2> QED BY <1>3, <2>1 DEF Kinds
  <1>5. k \in 1 .. n /\ k + 1 \in 1 .. n /\ 1 \in 1 .. n
    BY <1>2
  <1> HIDE DEF q, n
  <1>6. ASSUME k <= b, k + 1 > b PROVE FALSE
    <2>1. b > 0 /\ b < n
      BY <1>2, <1>5, <1>6
    <2>2. PICK o \in Orders, c \in Nat : Placed(s, b, o, c)
      BY <1>3, <2>1 DEF Fresh
    <2>3. o.kind = "kept" /\ c = 0 /\ src[s].frames = Delivered(o, c + n - b)
      BY <2>1, <2>2 DEF Placed, Fresh, n
    <2>4. src[s].frames = n - b
      BY <1>2, <2>1, <2>3 DEF Delivered
    <2>5. q[1].msg.type = "BORROW"
      BY <1>2, <1>4, <1>5, <2>1
    <2>6. q # << >> /\ Head(q) = q[1] /\ q[1].due \in Nat
      <3>1. q[1] \in [msg : FromSource(s), due : Nat]
        BY <1>1, <1>2, <1>5, ElementOfSeq
      <3>2. q # << >>
        BY <1>1, <1>2, <1>5, EmptySeq
      <3> QED BY <1>1, <3>1, <3>2, HeadTailProperties
    <2>7. q[1].due > now
      BY <1>0, <2>6 DEF Arrived, q
    <2>8. /\ q[1].due <= now + 1
          /\ q[1].due = now + 1 => Young(src[s])
      BY <1>0, <1>2, <1>5, <2>5 DEF Timely, q
    <2>9. Young(src[s])
      BY <1>0, <2>6, <2>7, <2>8
    <2> QED BY <1>2, <2>1, <2>4, <2>9 DEF Young
  <1>7. (k <= b /\ k + 1 <= b) \/ (k > b /\ k + 1 > b)
    BY <1>2, <1>5, <1>6
  <1> QED BY <1>4, <1>5, <1>7
\* One queue to the sink is disturbed, or one from it.
LEMMA NetworkErrsOK ==
  ASSUME IInv, WireOK', OneFault, Counts, Delay \/ Lose \/ Duplicate \/ Reorder
  PROVE  HandOK' /\ RingOK' /\ \A r \in Sources : SourceOK(r)'
  <1>0. /\ WireOK /\ HandOK /\ RingOK /\ now \in Nat
        /\ \A r \in Sources : SourceOK(r)
    BY DEF IInv, SystemInv, TypeOK
  <1>1. /\ AllDone /\ faults = 0 /\ faults' = 1
        /\ UNCHANGED <<src, now, sink>>
    <2>1. AllDone /\ faults < MaxFaults /\ faults' = faults + 1
      BY DEF Delay, Lose, Duplicate, Reorder
    <2>2. UNCHANGED <<src, now, sink>>
      BY DEF Delay, Lose, Duplicate, Reorder, vars
    <2> QED BY <2>1, <2>2 DEF OneFault, IInv
  <1> DEFINE Disturbed(s) ==
        /\ to_sink[s] # << >>
        /\ \A r \in Sources \ {s} : to_sink'[r] = to_sink[r]
        /\ \/ to_sink'[s] = Late(to_sink[s])
           \/ \E k \in DOMAIN to_sink[s] :
                \/ to_sink'[s] = RemoveAt(to_sink[s], k)
                \/ to_sink'[s] = InsertAt(to_sink[s], k, to_sink[s][k])
           \/ \E k \in 1 .. Len(to_sink[s]) - 1 :
                to_sink'[s] = Swapped(to_sink[s], k)
  <1>2. PICK s \in Sources : UNCHANGED to_sink \/ Disturbed(s)
    <2>1. \A s \in Sources : \A z :
            to_sink' = [to_sink EXCEPT ![s] = z] =>
              to_sink'[s] = z /\ \A r \in Sources \ {s} : to_sink'[r] = to_sink[r]
      BY <1>0 DEF WireOK
    <2>2. \A s \in Sources : to_sink[s] = << >> =>
            /\ Late(to_sink[s]) = to_sink[s]
            /\ DOMAIN to_sink[s] = {} /\ 1 .. Len(to_sink[s]) - 1 = {}
      <3> SUFFICES ASSUME NEW q, q = << >>
                   PROVE  Late(q) = q /\ DOMAIN q = {} /\ 1 .. Len(q) - 1 = {}
        OBVIOUS
      <3>1. DOMAIN q = {} /\ Len(q) = 0
        OBVIOUS
      <3>2. Late(q) = << >>
        BY <3>1 DEF Late
      <3> QED BY <3>1, <3>2
    <2>3. CASE Delay
      BY <2>1, <2>2, <2>3 DEF Delay
    <2>4. CASE Lose
      <3>1. PICK s \in Sources :
              \/ UNCHANGED to_sink
              \/ \E i \in DOMAIN to_sink[s] :
                   to_sink' = [to_sink EXCEPT ![s] = RemoveAt(@, i)]
        BY <2>4 DEF Lose
      <3>2. ASSUME NEW i \in DOMAIN to_sink[s],
                   to_sink' = [to_sink EXCEPT ![s] = RemoveAt(@, i)]
            PROVE  Disturbed(s)
        BY <2>1, <2>2, <3>2
      <3> QED BY <3>1, <3>2
    <2>5. CASE Duplicate
      <3>1. PICK s \in Sources :
              \/ UNCHANGED to_sink
              \/ \E i \in DOMAIN to_sink[s] :
                   to_sink' = [to_sink EXCEPT ![s] = InsertAt(@, i, @[i])]
        BY <2>5 DEF Duplicate
      <3>2. ASSUME NEW i \in DOMAIN to_sink[s],
                   to_sink' = [to_sink EXCEPT ![s] = InsertAt(@, i, @[i])]
            PROVE  Disturbed(s)
        BY <2>1, <2>2, <3>2
      <3> QED BY <3>1, <3>2
    <2>6. CASE Reorder
      <3>1. PICK s \in Sources :
              \/ UNCHANGED to_sink
              \/ \E i \in 1 .. Len(to_sink[s]) - 1 :
                   to_sink' = [to_sink EXCEPT ![s] = Swapped(@, i)]
        BY <2>6 DEF Reorder
      <3>2. ASSUME NEW i \in 1 .. Len(to_sink[s]) - 1,
                   to_sink' = [to_sink EXCEPT ![s] = Swapped(@, i)]
            PROVE  Disturbed(s)
        BY <2>1, <2>2, <3>2
      <3> QED BY <3>1, <3>2
    <2> QED BY <2>3, <2>4, <2>5, <2>6
  <1>3. queued' = queued
    <2>1. Len(pending_frames) \in Nat
      BY <1>0, LenProperties DEF RingOK
    <2> QED BY <1>1, <2>1 DEF Counts, sink
  <1>4. ~SinkListens => to_sink' = to_sink
    BY <1>0, <1>1, <1>2 DEF HandOK
  <1>5. /\ HandOK' /\ RingOK'
        /\ \A r \in Sources : LentTo(r)' <=> LentTo(r)
    BY <1>0, <1>1, <1>3, <1>4, SinkIdle
  <1>6. ASSUME NEW r \in Sources, Line(r)' = Line(r) PROVE Stream(r)'
    <2>1. pc' = pc
      BY <1>1 DEF sink
    <2> QED BY <1>0, <1>1, <1>3, <1>5, <1>6, <2>1, LineKept DEF SourceOK, Waits
  <1>7. ASSUME NEW r \in Sources, to_sink'[r] = to_sink[r] PROVE Stream(r)'
    <2>1. Line(r)' = Line(r)
      BY <1>1, <1>7 DEF Line, Taken, sink
    <2> QED BY <1>6, <2>1
  <1>8. ASSUME Disturbed(s) PROVE Stream(s)'
    <2> DEFINE q == to_sink[s]
    <2>1. /\ q \in Seq([msg : FromSource(s), due : Nat])
          /\ to_sink'[s] \in Seq([msg : FromSource(s), due : Nat])
      BY <1>0 DEF WireOK, Queues
    <2>2. /\ ~Arrived(to_sink[s]) /\ pc = "idle" /\ pc' = "idle"
          /\ Line(s) = Msgs(q) /\ Line(s)' = Msgs(to_sink'[s])
      BY <1>1, <1>8, <2>1, AtRest
    <2>3. Line(s) \in Seq(FromSource(s)) /\ Stream(s)
      BY <1>0, LineTyped DEF SourceOK
    <2>4. Len(Line(s)) = Len(q) /\ DOMAIN q = 1 .. Len(q)
      BY <2>1, <2>2, MsgsFacts, LenProperties
    <2>5. faults' # 0 /\ src' = src /\ queued' = queued /\ (LentTo(s)' => LentTo(s))
          /\ pc # "enqueue" /\ pc' # "enqueue"
      BY <1>1, <1>3, <1>5, <2>2
    <2>6. /\ Msgs(Late(q)) = Msgs(q)
          /\ \A k \in DOMAIN q : /\ Msgs(RemoveAt(q, k)) = RemoveAt(Msgs(q), k)
                                 /\ Msgs(InsertAt(q, k, q[k])) = InsertAt(Msgs(q), k, Msgs(q)[k])
          /\ \A k \in 1 .. Len(q) - 1 : Msgs(Swapped(q, k)) = Exchange(Msgs(q), k)
      BY <1>0, <2>1, MsgsOps
    <2>7. CASE to_sink'[s] = Late(q)
      <3>1. Line(s)' = Line(s)
        BY <2>2, <2>6, <2>7
      <3> QED BY <1>6, <3>1
    <2>8. ASSUME NEW k \in DOMAIN q, to_sink'[s] = RemoveAt(q, k) PROVE Stream(s)'
      <3>1. Line(s)' = RemoveAt(Line(s), k) /\ k \in 1 .. Len(Line(s))
        BY <2>2, <2>4, <2>6, <2>8
      <3> QED BY <1>1, <2>3, <2>5, <3>1, LineLoses
    <2>9. ASSUME NEW k \in DOMAIN q, to_sink'[s] = InsertAt(q, k, q[k]) PROVE Stream(s)'
      <3>1. Line(s)' = InsertAt(Line(s), k, Line(s)[k]) /\ k \in 1 .. Len(Line(s))
        BY <2>2, <2>4, <2>6, <2>9
      <3> QED BY <1>1, <2>3, <2>5, <3>1, LineRepeats
    <2>10. ASSUME NEW k \in 1 .. Len(q) - 1, to_sink'[s] = Swapped(q, k) PROVE Stream(s)'
      <3>1. Line(s)' = Exchange(Line(s), k) /\ k \in 1 .. Len(Line(s)) - 1
        BY <2>2, <2>4, <2>6, <2>10
      <3>2. Line(s)[k].type = Line(s)[k + 1].type
        BY <1>1, <2>2, <3>1, NeighboursAlike
      <3> QED BY <1>1, <2>3, <2>5, <3>1, <3>2, LineSwaps
    <2> QED BY <1>8, <2>7, <2>8, <2>9, <2>10
  <1>9. ASSUME NEW r \in Sources PROVE SourceOK(r)'
    <2>1. Stream(r)'
      <3>1. CASE UNCHANGED to_sink
        BY <1>7, <3>1
      <3>2. CASE ~UNCHANGED to_sink /\ r # s
        BY <1>2, <1>7, <3>2
      <3>3. CASE ~UNCHANGED to_sink /\ r = s
        BY <1>2, <1>8, <3>3
      <3> QED BY <3>1, <3>2, <3>3
    <2>2. Timely(r)'
      BY <1>1 DEF Timely
    <2> QED BY <1>0, <1>1, <2>1, <2>2 DEF SourceOK, Waits
  <1> QED BY <1>5, <1>9
-----------------------------------------------------------------------------
(* The invariant holds. *)

\* Time may pass where nothing else happens.
LEMMA StillOK ==
  ASSUME IInv, Counts, now' \in {now, now + 1}, UNCHANGED <<src, network>>,
         UNCHANGED <<state, borrower_endpoint, pending_frames, current_frame,
                     last_enqueued_frame_idx, pc, rx>>
  PROVE  HandOK' /\ RingOK' /\ \A r \in Sources : SourceOK(r)'
  <1>0. /\ WireOK /\ HandOK /\ RingOK /\ now \in Nat
        /\ \A r \in Sources : SourceOK(r)
        /\ UNCHANGED <<to_sink, to_source, faults>>
    BY DEF IInv, SystemInv, TypeOK, network
  <1>1. queued' = queued
    <2>1. Len(pending_frames) \in Nat
      BY <1>0, LenProperties DEF RingOK
    <2> QED BY <2>1 DEF Counts
  <1>2. HandOK'
    BY <1>0 DEF HandOK, K!InHand, SinkListens
  <1>3. RingOK'
    BY <1>0, <1>1 DEF RingOK, Newest
  <1>4. ASSUME NEW s \in Sources PROVE SourceOK(s)'
    <2>1. Line(s)' = Line(s)
      BY <1>0 DEF Line, Taken
    <2>2. LentTo(s)' => LentTo(s)
      BY DEF LentTo
    <2>3. Stream(s)'
      BY <1>0, <1>1, <2>1, <2>2, LineKept DEF SourceOK, Waits
    <2>4. Timely(s)'
      <3>1. CASE now' = now
        BY <1>0, <3>1 DEF SourceOK, Timely, Arrived
      <3>2. CASE now' = now + 1
        <4>1. \A i \in 1 .. Len(to_sink[s]) : to_sink[s][i].due \in Nat
          <5>1. to_sink[s] \in Seq([msg : FromSource(s), due : Nat])
            BY <1>0, LineTyped
          <5>2. \A i \in 1 .. Len(to_sink[s]) :
                  to_sink[s][i] \in [msg : FromSource(s), due : Nat]
            BY <5>1, ElementOfSeq
          <5> QED BY <5>2
        <4>2. \A d \in Nat : d <= now + 1 => d <= now' + 1 /\ d # now' + 1
          BY <1>0, <3>2
        <4> QED BY <1>0, <4>1, <4>2 DEF SourceOK, Timely
      <3> QED BY <3>1, <3>2
    <2> QED BY <1>0, <2>3, <2>4 DEF SourceOK, Waits
  <1> QED BY <1>2, <1>3, <1>4

LEMMA IInvInit == ObservedInit => IInv
  <1> SUFFICES ASSUME ObservedInit PROVE IInv
    OBVIOUS
  <1>1. SystemInit /\ queued = 0
    BY DEF ObservedInit
  <1>2. /\ SystemInv /\ faults = 0 /\ Init /\ K!Init
        /\ to_sink = [s \in Sources |-> << >>]
        /\ to_source = [s \in Sources |-> << >>]
    BY <1>1, SystemInvInit DEF SystemInit
  <1>3. /\ pc = "idle" /\ state \in {"OPEN", "ERROR"} /\ pending_frames = << >>
    BY <1>2 DEF K!Init, K!atolla_sink_make
  <1>4. HandOK
    BY <1>2, <1>3 DEF HandOK
  <1>5. RingOK
    BY <1>1, <1>3, EmptySeq DEF RingOK
  <1>6. ASSUME NEW s \in Sources PROVE SourceOK(s)
    <2>1. /\ src[s].pc = "unmade" /\ src[s].state = "WAITING"
          /\ src[s].frames = 0 /\ src[s].next_frame_idx = 0
      BY <1>2 DEF Init, source_private_make
    <2>2. Msgs(<< >>) = << >> /\ << >> \o << >> = << >>
      BY EmptySeq, ConcatEmptySeq, MsgsFacts DEF Msgs
    <2>3. Line(s) = << >>
      BY <1>2, <1>3, <2>2 DEF Line, Taken
    <2>4. Kinds(s, 0)
      BY <2>3 DEF Kinds
    <2>5. Placed(s, 0, Kept, 0) /\ Kept \in Orders
      BY <1>3, <2>1, <2>3 DEF Placed, Kept, Orders, Delivered, Settled, LentTo
    <2>6. Stream(s)
      BY <2>4, <2>5 DEF Stream
    <2>7. Timely(s)
      BY <1>2 DEF Timely
    <2>8. 0 % IdxMod = 0
      BY SourceAssumption
    <2>9. Numbered(src[s])
      BY <2>1, <2>8 DEF Numbered
    <2> QED BY <2>1, <2>6, <2>7, <2>9 DEF SourceOK, Waits
  <1> QED BY <1>2, <1>4, <1>5, <1>6 DEF IInv

LEMMA IInvNext ==
  ASSUME OneFault, IInv, [ObservedNext]_observedVars
  PROVE  IInv'
  <1>0. SystemInv /\ faults \in Nat
    BY DEF IInv
  <1>1. [SystemNext]_systemVars
    BY DEF ObservedNext, observedVars
  <1>2. SystemInv' /\ WireOK'
    BY <1>0, <1>1, SystemInvNext DEF SystemInv
  <1>3. Counts
    <2>1. CASE ObservedNext
      BY <2>1 DEF ObservedNext, Counts
    <2>2. CASE UNCHANGED observedVars
      <3>1. state' = state /\ pending_frames' = pending_frames /\ queued' = queued
        BY <2>2 DEF observedVars, systemVars, sink, history
      <3>2. Len(pending_frames) \in Nat
        BY LenProperties DEF IInv, RingOK
      <3> QED BY <3>1, <3>2 DEF Counts
    <2> QED BY <2>1, <2>2
  <1> DEFINE Good == faults' \in Nat /\ HandOK' /\ RingOK' /\ \A r \in Sources : SourceOK(r)'
  <1>4. CASE UNCHANGED systemVars
    <2>1. /\ UNCHANGED <<src, now, network, faults>>
          /\ UNCHANGED <<state, borrower_endpoint, pending_frames, current_frame,
                         last_enqueued_frame_idx, pc, rx>>
      BY <1>4 DEF systemVars, vars, sink, network
    <2> QED BY <1>0, <1>2, <1>3, <2>1, StillOK DEF IInv
  <1>5. ASSUME NEW s \in Sources,
               SourceReceives(s) \/ SourceReceivesNothing(s) \/ SourceActs(s)
        PROVE  Good
    <2>1. /\ \E x : Moves(s, x)
          /\ now' = now /\ SourceSends /\ UNCHANGED <<sink, faults>>
      BY <1>5, SourceMoves
    <2>2. queued' = queued
      <3>1. Len(pending_frames) \in Nat
        BY LenProperties DEF IInv, RingOK
      <3> QED BY <1>3, <2>1, <3>1 DEF Counts, sink
    <2> QED BY <1>0, <2>1, <2>2, SourceStepOK
  <1>6. ASSUME NEW s \in Sources, SourceRests(s) PROVE Good
    <2>1. /\ UNCHANGED <<src, now, network, faults>>
          /\ UNCHANGED <<state, borrower_endpoint, pending_frames, current_frame,
                         last_enqueued_frame_idx, pc, rx>>
      BY <1>6 DEF SourceRests, vars, sink, network
    <2> QED BY <1>0, <1>3, <2>1, StillOK
  <1>7. ASSUME (\E s \in Sources : SinkReceives(s)) \/ SinkReceivesNothing \/ SinkShows
        PROVE  Good
    <2>1. faults' = faults
      BY <1>7 DEF SinkReceives, SinkReceivesNothing, SinkShows, network
    <2> QED BY <1>0, <1>3, <1>7, <2>1, SinkQuietOK
  <1>8. ASSUME SinkContinues PROVE Good
    BY <1>0, <1>3, <1>8, SinkContinuesOK, ContinuesFacts
  <1>9. ASSUME SinkStops PROVE Good
    BY <1>0, <1>3, <1>9, SinkStopsOK DEF SinkStops
  <1>10. ASSUME SinkRestarts PROVE Good
    BY <1>0, <1>3, <1>10, SinkRestartsOK DEF SinkRestarts, network
  <1>11. ASSUME Delay \/ Lose \/ Duplicate \/ Reorder PROVE Good
    <2>1. faults' = faults + 1
      BY <1>11 DEF Delay, Lose, Duplicate, Reorder
    <2> QED BY <1>0, <1>2, <1>3, <1>11, <2>1, NetworkErrsOK
  <1>12. ASSUME SystemTick PROVE Good
    <2>1. /\ now' = now + 1 /\ UNCHANGED <<src, network, faults>>
          /\ UNCHANGED <<state, borrower_endpoint, pending_frames, current_frame,
                         last_enqueued_frame_idx, pc, rx>>
      BY <1>12 DEF SystemTick, Tick, K!Tick, K!loan, K!playing, network
    <2> QED BY <1>0, <1>3, <2>1, StillOK
  <1>13. Good
    BY <1>1, <1>4, <1>5, <1>6, <1>7, <1>8, <1>9, <1>10, <1>11, <1>12 DEF SystemNext, IInv
  <1> QED BY <1>2, <1>13 DEF IInv

\* The frames of a loan keep their places (sink_handle_enqueue, and the order
\* of BORROW and ENQUEUE): after one fault of the network at most, the frame
\* a source put as its n-th, or a later one that stands in for it, is the
\* n-th to enter the ring.  Indices are compared modulo 256, and a gap of one
\* frame is far below the 128 that the sink still fills.
THEOREM FramesKeepPlaces == ASSUME OneFault PROVE ObservedSpec => []InStep
  <1>1. IInv => InStep
    BY DEF IInv, RingOK, InStep
  <1>2. IInv /\ [ObservedNext]_observedVars => IInv'
    BY IInvNext
  <1> QED BY IInvInit, <1>1, <1>2, PTL DEF ObservedSpec
=============================================================================
