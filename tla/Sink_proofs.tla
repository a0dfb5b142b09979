---------------------------- MODULE Sink_proofs ----------------------------
(***************************************************************************)
(* For every set of endpoints, every ring length and every timing constant *)
(* the sink of sink.cpp keeps its types and implements Lease.              *)
(***************************************************************************)
EXTENDS MC_SinkTrace, TLAPS

LEMMA ModRange ==
  ASSUME NEW a \in Int, NEW n \in Nat \ {0}
  PROVE  a % n \in 0 .. n - 1
  OBVIOUS

\* What the fields of an ENQUEUE message are.
LEMMA EnqueueFields ==
  ASSUME NEW e \in Endpoints, NEW m \in Messages(e), m.type = "ENQUEUE"
  PROVE  m.frame \in Frames /\ m.frame.by = e /\ m.frame_idx \in FrameIdxs
  BY DEF Messages, Borrow, Enqueue, Other, Frames

LEMMA BorrowFields ==
  ASSUME NEW e \in Endpoints, NEW m \in Messages(e), m.type = "BORROW"
  PROVE  m.frame_length \in Nat /\ m.buffer_length \in Nat
  BY SinkAssumption DEF Messages, Borrow, Enqueue, Other

LEMMA SeqFacts ==
  ASSUME NEW S, NEW s \in Seq(S), s # << >>
  PROVE  Head(s) \in S /\ Tail(s) \in Seq(S) /\ Len(Tail(s)) = Len(s) - 1
  OBVIOUS

LEMMA DatagramInHand ==
  ASSUME NEW e \in Endpoints, NEW d \in Datagrams(e)
  PROVE  InHand([from |-> e, msgs |-> d])
  <1> d \in Seq(Messages(e))
    BY SinkAssumption DEF Datagrams
  <1> QED BY DEF InHand

LEMMA InHandFields ==
  ASSUME NEW r, InHand(r)
  PROVE  r.from \in Endpoints /\ r.msgs \in Seq(Messages(r.from))
  BY DEF InHand

\* Going on to the next message leaves a datagram of the same sender.
LEMMA InHandTail ==
  ASSUME NEW r, InHand(r), r.msgs # << >>, NEW t, t = [r EXCEPT !.msgs = Tail(@)]
  PROVE  InHand(t) /\ t.from = r.from
  <1> PICK e \in Endpoints : r \in [from : {e}, msgs : Seq(Messages(e))]
    BY DEF InHand
  <1>1. Tail(r.msgs) \in Seq(Messages(e))
    BY SeqFacts
  <1>2. t \in [from : {e}, msgs : Seq(Messages(e))] /\ t.from = r.from
    BY <1>1
  <1> QED BY <1>2 DEF InHand

\* A loan has a borrower, the loop that fills the ring runs only for the
\* borrower of a loan that still stands, frames are shown only during a
\* loan, and a sink that could not bind its port never enters a call.
CallInv ==
  /\ state = "LENT" => borrower_endpoint \in Endpoints
  /\ pc = "enqueue" =>
       /\ state = "LENT"
       /\ rx.from = borrower_endpoint
       /\ rx.msgs # << >>
       /\ Head(rx.msgs).type = "ENQUEUE"
  /\ pc = "get" => state = "LENT"
  /\ state = "ERROR" => pc \in {"idle", "freed"}

\* The inductive invariant: the types, and what holds inside a call.
Inv == TypeOK /\ CallInv

LEMMA InvInit == Init => Inv
  BY SinkAssumption DEF Init, atolla_sink_make, Inv, TypeOK, CallInv

LEMMA InvNext == Inv /\ [Next]_vars => Inv'
  <1> SUFFICES ASSUME Inv, [Next]_vars PROVE Inv'
    OBVIOUS
  <1> USE SinkAssumption
  <1>t. time_now \in 0 .. TimeMod - 1 /\ NULL_TIME \in 0 .. TimeMod - 1
    <2>1. now \in Int /\ TimeMod \in Nat \ {0}
      BY DEF Inv, TypeOK
    <2>2. now % TimeMod \in 0 .. TimeMod - 1
      BY <2>1, ModRange
    <2> QED BY <2>1, <2>2 DEF time_now, NULL_TIME
  <1>m. ASSUME Handling("BORROW") \/ Handling("ENQUEUE") \/ Handling("OTHER"), NextMsg
        PROVE  InHand(rx')
    BY <1>m, InHandTail DEF Handling, NextMsg, Inv, TypeOK
  <1>1. ASSUME NEW from \in Endpoints, NEW msgs \in Datagrams(from),
               sink_receive(from, msgs)
        PROVE  Inv'
    BY <1>1, DatagramInHand DEF sink_receive, Inv, TypeOK, CallInv, loan, timers, playing
  <1>2. CASE sink_receive_nothing
    BY <1>2 DEF sink_receive_nothing, sink_drop_borrow, Inv, TypeOK, CallInv,
                loan, timers, playing
  <1>3. CASE sink_receive_done
    BY <1>3, <1>t DEF sink_receive_done, Inv, TypeOK, CallInv, loan, timers, playing
  <1>4. CASE sink_send
    BY <1>4, <1>t DEF sink_send, sink_send_lent, Inv, TypeOK, CallInv,
                      loan, timers, playing
  <1>5. CASE sink_handle_borrow
    <2> DEFINE m == Head(rx.msgs)
    <2>1. m.frame_length \in Nat
      BY <1>5, SeqFacts, InHandFields, BorrowFields
         DEF FromBorrower, sink_handle_borrow, Handling, Inv, TypeOK
    <2> HIDE DEF m
    <2>r. /\ pc' = pc /\ pc = "iterate" /\ UNCHANGED <<playing, now>>
          /\ InHand(rx')
      BY <1>5, <1>m DEF FromBorrower, sink_handle_borrow, Handling
    <2>s. rx.from \in Endpoints
      BY <2>r, InHandFields DEF Inv, TypeOK
    <2>a. ASSUME state' \in {state, "OPEN"}, UNCHANGED <<loan, timers>>
          PROVE  TypeOK'
      BY <2>a, <2>r DEF Inv, TypeOK, loan, timers, playing
    <2>b. ASSUME borrower_endpoint' = rx.from,
                 frame_duration_ms' = m.frame_length,
                 time_origin' = NULL_TIME,
                 last_enqueued_frame_idx' = -1,
                 last_recv_time' = NULL_TIME,
                 state' = "LENT",
                 sink_send_lent(rx.from)
          PROVE  TypeOK'
      <3>2. last_send_lent_time' \in 0 .. TimeMod - 1
        BY <1>t, <2>b DEF sink_send_lent
      <3>3. -1 \in -1 .. IdxMod - 1
        OBVIOUS
      <3> QED BY <2>b, <2>r, <1>t, <2>1, <2>s, <3>2, <3>3 DEF Inv, TypeOK, playing
    <2>2. TypeOK'
      BY <1>5, <2>a, <2>b DEF FromBorrower, sink_handle_borrow, RefuseBorrow, sink_drop_borrow, m
    <2>3. CallInv'
      BY <1>5, <2>s DEF FromBorrower, sink_handle_borrow, Handling, MayBorrow, RefuseBorrow,
                  sink_drop_borrow, sink_send_lent, Inv, TypeOK, CallInv,
                  loan, timers, playing
    <2> QED BY <2>2, <2>3 DEF Inv
  <1>6. CASE sink_handle_enqueue
    <2>1. TypeOK'
      BY <1>6, <1>m
         DEF FromBorrower, sink_handle_enqueue, Handling, sink_drop_borrow, Inv, TypeOK,
             loan, timers, playing
    <2>2. CallInv'
      BY <1>6 DEF FromBorrower, sink_handle_enqueue, Handling, sink_drop_borrow, Inv, TypeOK,
                  CallInv, loan, timers, playing
    <2> QED BY <2>1, <2>2 DEF Inv
  <1>7. CASE sink_handle_other
    BY <1>7, <1>m DEF sink_handle_other, Handling, Inv, TypeOK, CallInv,
                      loan, timers, playing
  <1>8. CASE sink_enqueue
    <2> DEFINE m == Head(rx.msgs)
    <2>1. m.frame \in Frames
      BY <1>8, SeqFacts, InHandFields, EnqueueFields DEF sink_enqueue, Inv, TypeOK, CallInv
    <2>a. last_enqueued_frame_idx + 1 \in Int /\ IdxMod \in Nat \ {0}
      BY DEF Inv, TypeOK
    <2> DEFINE next == (last_enqueued_frame_idx + 1) % IdxMod
    <2>2. next \in 0 .. IdxMod - 1
      BY <2>a, ModRange
    <2> HIDE DEF m
    <2>b. \/ /\ Len(pending_frames) < Slots
             /\ pending_frames' = Append(pending_frames, m.frame)
             /\ last_enqueued_frame_idx' = next
          \/ UNCHANGED <<pending_frames, last_enqueued_frame_idx>>
      BY <1>8 DEF sink_enqueue, m
    <2> HIDE DEF next
    <2>c. pending_frames \in Seq(Frames) /\ Len(pending_frames) <= Slots
      BY DEF Inv, TypeOK
    <2>3. pending_frames' \in Seq(Frames) /\ Len(pending_frames') <= Slots
      BY <2>1, <2>b, <2>c
    <2>4. last_enqueued_frame_idx' \in -1 .. IdxMod - 1
      BY <2>2, <2>b DEF Inv, TypeOK
    <2> QED BY <1>8, <2>3, <2>4 DEF sink_enqueue, Inv, TypeOK, CallInv, timers
  <1>9. CASE sink_enqueue_done
    <2>1. InHand(rx')
      BY <1>9, InHandTail DEF sink_enqueue_done, NextMsg, Inv, TypeOK, CallInv
    <2> QED BY <1>9, <2>1 DEF sink_enqueue_done, Inv, TypeOK, CallInv,
                              loan, timers, playing
  <1>d. ASSUME mem_ring_dequeue
        PROVE  /\ current_frame' \in Frames
               /\ pending_frames' \in Seq(Frames)
               /\ Len(pending_frames') <= Slots
    BY <1>d, SeqFacts DEF mem_ring_dequeue, Inv, TypeOK
  <1>10. CASE sink_get_nothing
    BY <1>10 DEF sink_get_nothing, Inv, TypeOK, CallInv, loan, timers
  <1>11. CASE sink_get_first
    BY <1>11, <1>d, <1>t DEF sink_get_first, Inv, TypeOK, CallInv, timers
  <1>12. CASE sink_get_begin
    BY <1>12, <1>t DEF sink_get_begin, Inv, TypeOK, CallInv, loan, timers
  <1>13. CASE sink_get_next
    <2>a. time_origin + frame_duration_ms \in Int /\ TimeMod \in Nat \ {0}
      BY DEF Inv, TypeOK
    <2>1. (time_origin + frame_duration_ms) % TimeMod \in 0 .. TimeMod - 1
      BY <2>a, ModRange
    <2> QED BY <1>13, <1>d, <2>1 DEF sink_get_next, Inv, TypeOK, CallInv, timers
  <1>14. CASE sink_get_done
    BY <1>14 DEF sink_get_done, Inv, TypeOK, CallInv, loan, timers
  <1>15. CASE atolla_sink_free
    BY <1>15 DEF atolla_sink_free, Inv, TypeOK, CallInv, loan, timers, playing
  <1>16. CASE atolla_sink_remake
    <2>1. TypeOK'
      BY <1>16, SinkAssumption DEF atolla_sink_remake, Inv, TypeOK
    <2>2. CallInv'
      BY <1>16 DEF atolla_sink_remake, CallInv
    <2> QED BY <2>1, <2>2 DEF Inv
  <1>17. CASE Tick
    BY <1>17 DEF Tick, Inv, TypeOK, CallInv, loan, timers, playing
  <1>18. CASE UNCHANGED vars
    BY <1>18 DEF vars, sinkVars, Inv, TypeOK, CallInv, loan, timers, playing
  <1> QED BY <1>1, <1>2, <1>3, <1>4, <1>5, <1>6, <1>7, <1>8, <1>9, <1>10,
             <1>11, <1>12, <1>13, <1>14, <1>15, <1>16, <1>17, <1>18
          DEF Next, SinkStep, Continue

\* Every field of the sink and the datagram in hand keep their types.
THEOREM TypeCorrect == Spec => []TypeOK
  BY InvInit, InvNext, PTL DEF Spec, Inv

-----------------------------------------------------------------------------
(* The sink implements Lease. *)

\* Of every behaviour of the sink, whatever its peers send and however long
\* anything takes: loans do not overlap, only the borrower's frames enter the
\* ring, and they leave it in order, during this loan or a later one.
THEOREM SinkImplementsLease == Spec => ImplementsLease
  <1>1. Init => L!Init
    BY DEF Init, atolla_sink_make, L!Init, Holder
  <1>2. Inv /\ [Next]_vars => [L!Next]_(L!leaseVars)
    <2> SUFFICES ASSUME Inv, [Next]_vars PROVE [L!Next]_(L!leaseVars)
      OBVIOUS
    <2> USE SinkAssumption DEF Inv
    <2>u. ASSUME Holder' = Holder, UNCHANGED <<pending_frames, current_frame>>
          PROVE  [L!Next]_(L!leaseVars)
      BY <2>u DEF L!leaseVars
    <2>e. ASSUME Holder' = None, UNCHANGED <<pending_frames, current_frame>>
          PROVE  L!End
      BY <2>e DEF L!End
    <2>s. ASSUME state = "LENT", pc \in {"idle", "get"}, mem_ring_dequeue,
                 UNCHANGED <<state, borrower_endpoint, pc>>
          PROVE  L!Show
      <3>1. Holder = borrower_endpoint /\ Holder' = Holder
        BY <2>s DEF Holder
      <3> QED BY <2>s, <3>1 DEF mem_ring_dequeue, L!Show, CallInv
    <2>1. ASSUME NEW from \in Endpoints, NEW msgs \in Datagrams(from),
                 sink_receive(from, msgs)
          PROVE  [L!Next]_(L!leaseVars)
      BY <2>1, <2>u DEF sink_receive, Holder, loan, playing
    <2>2. ASSUME sink_receive_nothing PROVE L!End \/ [L!Next]_(L!leaseVars)
      <3>1. CASE sink_drop_borrow
        BY <2>2, <3>1, <2>e DEF sink_receive_nothing, sink_drop_borrow, Holder, playing
      <3>2. CASE UNCHANGED state
        BY <2>2, <3>2, <2>u DEF sink_receive_nothing, Holder, loan, playing
      <3> QED BY <2>2, <3>1, <3>2 DEF sink_receive_nothing
    <2>3. CASE sink_receive_done
      BY <2>3, <2>u DEF sink_receive_done, Holder, loan, playing
    <2>4. CASE sink_send
      BY <2>4, <2>u DEF sink_send, Holder, loan, playing
    <2>5. ASSUME sink_handle_borrow
          PROVE  L!End \/ L!Grant(rx.from) \/ [L!Next]_(L!leaseVars)
      <3>0. /\ pc = "iterate" /\ UNCHANGED <<pc, pending_frames, current_frame>>
            /\ rx.from \in Endpoints
        BY <2>5, InHandFields DEF FromBorrower, sink_handle_borrow, Handling, TypeOK, playing
      <3>1. ASSUME NEW code, RefuseBorrow(code) PROVE L!End
        BY <3>0, <3>1, <2>e DEF RefuseBorrow, sink_drop_borrow, Holder
      <3>2. ASSUME MayBorrow, borrower_endpoint' = rx.from, state' = "LENT"
            PROVE  L!Grant(rx.from)
        BY <3>0, <3>2 DEF FromBorrower, MayBorrow, Holder, L!Grant
      <3>3. ASSUME UNCHANGED <<state, loan>> PROVE [L!Next]_(L!leaseVars)
        BY <3>0, <3>3, <2>u DEF Holder, loan
      <3> QED BY <2>5, <3>1, <3>2, <3>3 DEF FromBorrower, sink_handle_borrow
    <2>6. ASSUME sink_handle_enqueue PROVE L!End \/ [L!Next]_(L!leaseVars)
      <3>0. /\ pc = "iterate" /\ pc' \in {"iterate", "enqueue"}
            /\ UNCHANGED <<borrower_endpoint, pending_frames, current_frame>>
        BY <2>6 DEF FromBorrower, sink_handle_enqueue, Handling, loan, playing
      <3>1. CASE sink_drop_borrow
        BY <3>0, <3>1, <2>e DEF sink_drop_borrow, Holder
      <3>2. CASE UNCHANGED state
        BY <3>0, <3>2, <2>u DEF Holder
      <3> QED BY <2>6, <3>1, <3>2 DEF FromBorrower, sink_handle_enqueue
    <2>7. CASE sink_handle_other
      BY <2>7, <2>u DEF sink_handle_other, Holder, loan, playing
    <2>8. ASSUME sink_enqueue
          PROVE  \/ L!Put(Head(rx.msgs).frame) /\ Head(rx.msgs).frame \in L!Frames
                 \/ [L!Next]_(L!leaseVars)
      <3> DEFINE m == Head(rx.msgs)
      <3>0. m.frame \in Frames /\ m.frame.by = borrower_endpoint
        BY <2>8, SeqFacts, InHandFields, EnqueueFields
           DEF sink_enqueue, TypeOK, CallInv
      <3> HIDE DEF m
      <3>1. Holder = borrower_endpoint /\ Holder' = Holder /\ UNCHANGED current_frame
        BY <2>8 DEF sink_enqueue, Holder, CallInv
      <3>2. CASE Len(pending_frames) < Slots
                 /\ pending_frames' = Append(pending_frames, m.frame)
        BY <3>0, <3>1, <3>2 DEF L!Put, L!Frames, Frames, m
      <3>3. CASE UNCHANGED pending_frames
        BY <3>1, <3>3, <2>u
      <3> QED BY <2>8, <3>2, <3>3 DEF sink_enqueue, m
    <2>9. CASE sink_enqueue_done
      BY <2>9, <2>u DEF sink_enqueue_done, Holder, loan, playing
    <2>10. CASE sink_get_nothing
      BY <2>10, <2>u DEF sink_get_nothing, Holder, loan
    <2>11. ASSUME sink_get_first PROVE L!Show
      BY <2>11, <2>s DEF sink_get_first
    <2>12. CASE sink_get_begin
      BY <2>12, <2>u DEF sink_get_begin, Holder, loan
    <2>13. ASSUME sink_get_next PROVE L!Show
      BY <2>13, <2>s DEF sink_get_next, CallInv
    <2>14. CASE sink_get_done
      BY <2>14, <2>u DEF sink_get_done, Holder, loan
    <2>15. ASSUME atolla_sink_free PROVE L!End
      BY <2>15, <2>e DEF atolla_sink_free, Holder, playing
    <2>16. ASSUME atolla_sink_remake PROVE L!Restart
      BY <2>16 DEF atolla_sink_remake, Holder, L!Restart
    <2>17. CASE Tick
      BY <2>17, <2>u DEF Tick, Holder, loan, playing
    <2>18. CASE UNCHANGED vars
      BY <2>18, <2>u DEF vars, sinkVars, Holder, loan, playing
    <2>f. sink_handle_borrow => rx.from \in Endpoints
      BY InHandFields DEF FromBorrower, sink_handle_borrow, Handling, TypeOK
    <2> QED BY <2>1, <2>2, <2>3, <2>4, <2>5, <2>6, <2>7, <2>8, <2>9, <2>10,
               <2>11, <2>12, <2>13, <2>14, <2>15, <2>16, <2>17, <2>18, <2>f
            DEF Next, SinkStep, Continue, L!Next
  <1> QED BY <1>1, <1>2, InvInit, InvNext, PTL DEF Spec, ImplementsLease, L!Spec

-----------------------------------------------------------------------------
(* Silence and the end of a loan: the properties over the history variables *)
(* of MC_SinkTrace.                                                         *)

\* The sink with its history is the sink.
LEMMA TracedIsSink == TracedSpec => Spec
  <1>1. TracedInit => Init
    BY DEF TracedInit
  <1>2. [TracedNext]_tracedVars => [Next]_vars
    BY DEF TracedNext, tracedVars
  <1> QED BY <1>1, <1>2, PTL DEF TracedSpec, Spec

LEMMA TracedInv == TracedSpec => []Inv
  BY TracedIsSink, InvInit, InvNext, PTL DEF Spec

LEMMA DivFacts ==
  ASSUME NEW n \in Nat \ {0}, NEW a \in Nat
  PROVE  (a \div n) \in Int /\ (a % n) \in 0 .. n - 1 /\ a = n * (a \div n) + (a % n)
  <1>1. a \div n \in Int
    OBVIOUS
  <1>2. (a % n) \in 0 .. n - 1
    OBVIOUS
  <1>3. a = n * (a \div n) + (a % n)
    OBVIOUS
  <1> QED BY <1>1, <1>2, <1>3

\* A time difference of d whole turns of the clock and a rest r - t.
LEMMA WrappedRest ==
  ASSUME NEW n \in Nat \ {0}, NEW r \in 0 .. n - 1, NEW t \in 0 .. n - 1,
         NEW d \in Int, n * d + (r - t) >= 0
  PROVE  (r - t) % n <= n * d + (r - t)
  <1>1. d >= 0
    <2> SUFFICES ASSUME d <= -1 PROVE FALSE
      OBVIOUS
    <2>1. n * d <= n * (-1)
      OBVIOUS
    <2> QED BY <2>1
  <1>2. CASE r >= t
    <2>1. (r - t) % n = r - t
      BY <1>2
    <2>2. n * d >= 0
      BY <1>1
    <2> QED BY <2>1, <2>2
  <1>3. CASE r < t
    <2>1. (r - t) % n = r - t + n
      BY <1>3
    <2>2. CASE d = 0
      <3>1. n * d = 0
        BY <2>2
      <3> QED BY <1>3, <3>1
    <2>3. CASE d >= 1
      <3>1. n * d >= n
        BY <2>3
      <3> QED BY <2>1, <3>1
    <2> QED BY <1>1, <2>2, <2>3
  <1> QED BY <1>2, <1>3

\* The difference of two times, taken as the unsigned int that time_now()
\* gives, never exceeds the time that really passed.
LEMMA WrappedElapsed ==
  ASSUME NEW n \in Nat \ {0}, NEW a \in Nat, NEW b \in Nat, b <= a
  PROVE  ((a % n) - (b % n)) % n <= a - b
  <1> DEFINE p == a \div n
             q == b \div n
             r == a % n
             t == b % n
  <1>1. p \in Int /\ r \in 0 .. n - 1 /\ a = n * p + r
    BY DivFacts
  <1>2. q \in Int /\ t \in 0 .. n - 1 /\ b = n * q + t
    BY DivFacts
  <1> HIDE DEF p, q, r, t
  <1>3. a - b = n * (p - q) + (r - t) /\ p - q \in Int
    <2>1. n * (p - q) = n * p - n * q /\ n * p \in Int /\ n * q \in Int
      BY <1>1, <1>2
    <2> QED BY <1>1, <1>2, <2>1
  <1>4. (r - t) % n <= n * (p - q) + (r - t)
    BY <1>1, <1>2, <1>3, WrappedRest
  <1> QED BY <1>3, <1>4 DEF r, t

\* How a step treats the time of the last datagram: inside a datagram it is
\* not looked at, sink_receive_done records it, every other step keeps it,
\* and none of those begins a loan.
LEMMA RecvStep ==
  ASSUME Inv, [Next]_vars
  PROVE  /\ now' \in {now, now + 1}
         /\ \/ pc' \in {"iterate", "enqueue"}
            \/ sink_receive_done
            \/ state' # "LENT"
            \/ /\ pc \notin {"iterate", "enqueue"}
               /\ state = "LENT"
               /\ UNCHANGED last_recv_time
  <1> USE DEF loan, timers, playing
  <1>1. CASE \E from \in Endpoints : \E msgs \in Datagrams(from) : sink_receive(from, msgs)
    BY <1>1 DEF sink_receive
  <1>2. CASE SinkStep
    <2>1. CASE Continue
      BY <2>1 DEF Continue, sink_send, sink_handle_borrow, sink_handle_enqueue,
                  sink_handle_other, Handling, sink_enqueue, sink_enqueue_done,
                  sink_get_next, sink_get_done, sink_receive_done
    <2> QED BY <1>2, <2>1 DEF SinkStep, sink_receive_nothing, sink_drop_borrow,
                  sink_get_nothing, sink_get_first, sink_get_begin,
                  atolla_sink_free, atolla_sink_remake
  <1>3. CASE Tick
    BY <1>3 DEF Tick
  <1>4. CASE UNCHANGED vars
    BY <1>4 DEF vars, sinkVars
  <1> QED BY <1>1, <1>2, <1>3, <1>4 DEF Next

\* While no datagram is in hand, the recorded time is that of a moment since
\* the borrower was last heard.
SilenceInv ==
  /\ heard \in Nat
  /\ heard <= now
  /\ state = "LENT" /\ pc \notin {"iterate", "enqueue"} =>
       \E r \in heard .. now : last_recv_time = r % TimeMod

LEMMA SilenceInit == TracedInit => SilenceInv
  BY SinkAssumption DEF TracedInit, Init, atolla_sink_make, SilenceInv

LEMMA SilenceNext == Inv /\ Inv' /\ SilenceInv /\ [TracedNext]_tracedVars => SilenceInv'
  <1> SUFFICES ASSUME Inv, SilenceInv, [TracedNext]_tracedVars PROVE SilenceInv'
    OBVIOUS
  <1>0. now \in Nat /\ [Next]_vars
    BY DEF Inv, TypeOK, TracedNext, tracedVars
  <1>1. now' \in Nat /\ now' >= now
    BY <1>0, RecvStep
  <1>2. /\ heard' \in {heard, now}
        /\ pc # "iterate" => heard' = heard
    BY DEF TracedNext, tracedVars, history, Granting, Finishing
  <1>3. heard' \in Nat /\ heard' <= now'
    BY <1>0, <1>1, <1>2 DEF SilenceInv
  <1>4. ASSUME state' = "LENT", pc' \notin {"iterate", "enqueue"}
        PROVE  \E r \in heard' .. now' : last_recv_time' = r % TimeMod
    <2>1. CASE sink_receive_done
      <3>1. last_recv_time' = now % TimeMod /\ now \in heard' .. now'
        BY <1>0, <1>1, <1>2, <2>1 DEF sink_receive_done, time_now, SilenceInv
      <3> QED BY <3>1
    <2>2. CASE /\ pc \notin {"iterate", "enqueue"}
               /\ state = "LENT"
               /\ UNCHANGED last_recv_time
      <3>1. PICK r \in heard .. now : last_recv_time = r % TimeMod
        BY <2>2 DEF SilenceInv
      <3>2. r \in heard' .. now'
        BY <1>0, <1>1, <1>2, <2>2 DEF SilenceInv
      <3> QED BY <2>2, <3>1, <3>2
    <2> QED BY <1>0, <1>4, <2>1, <2>2, RecvStep
  <1> QED BY <1>3, <1>4 DEF SilenceInv

\* Only a poll that finds the socket empty answers from the idle state.
LEMMA IdleAnswer ==
  ASSUME Next, pc = "idle", out' # None
  PROVE  state = "LENT" /\ Elapsed(last_recv_time) > DropTimeout
  <1>1. CASE Continue
    BY <1>1 DEF Continue, sink_receive_done, sink_send, sink_handle_borrow,
                sink_handle_enqueue, sink_handle_other, Handling, sink_enqueue,
                sink_enqueue_done, sink_get_next, sink_get_done
  <1> QED BY <1>1 DEF Next, SinkStep, sink_receive, sink_receive_nothing,
                sink_get_nothing, sink_get_first, sink_get_begin,
                atolla_sink_free, atolla_sink_remake, Tick

\* sink_receive ends a loan with the error TIMEOUT only after the borrower
\* was silent for longer than drop_timeout: although every datagram, even a
\* stranger's, counts as a sign of life, and although time_now() wraps around.
THEOREM LoanOutlivesSilence == TracedSpec => SilentBeforeTimeout
  <1> DEFINE Late == pc = "idle" /\ out' # None => now - heard > DropTimeout
  <1>1. Inv /\ SilenceInv /\ [TracedNext]_tracedVars => [Late]_tracedVars
    <2> SUFFICES ASSUME Inv, SilenceInv, TracedNext, pc = "idle", out' # None
                 PROVE  now - heard > DropTimeout
      OBVIOUS
    <2>1. state = "LENT" /\ Elapsed(last_recv_time) > DropTimeout
      BY IdleAnswer DEF TracedNext
    <2>2. PICK r \in heard .. now : last_recv_time = r % TimeMod
      BY <2>1 DEF SilenceInv
    <2>3. r \in Nat /\ r <= now /\ now \in Nat /\ heard \in Nat /\ heard <= r
      BY <2>2 DEF SilenceInv, Inv, TypeOK
    <2>4. Elapsed(last_recv_time) <= now - r
      BY <2>2, <2>3, WrappedElapsed, SinkAssumption DEF Elapsed, time_now
    <2>5. Elapsed(last_recv_time) \in Int
      <3>1. last_recv_time \in Int /\ time_now \in Int
        BY <2>3, ModRange, SinkAssumption DEF time_now, Inv, TypeOK
      <3> QED BY <3>1, ModRange, SinkAssumption DEF Elapsed
    <2> HIDE DEF Elapsed
    <2> QED BY <2>1, <2>3, <2>4, <2>5, SinkAssumption
  <1> QED BY <1>1, TracedInv, SilenceInit, SilenceNext, PTL
          DEF TracedSpec, SilentBeforeTimeout

\* The clock of the model stays below NULL_TIME, as time_now() does for the
\* first 49 days.
NoWrap == StartClock <= MaxClock /\ MaxClock < NULL_TIME

LEMMA ClockNext ==
  ASSUME NoWrap, now <= MaxClock, Inv, [Next]_vars
  PROVE  now' <= MaxClock
  <1>1. CASE Tick
    BY <1>1, SinkAssumption DEF Tick, Inv, TypeOK
  <1>2. CASE UNCHANGED now
    BY <1>2
  <1>3. Continue => UNCHANGED now
    BY DEF Continue, sink_receive_done, sink_send, sink_handle_borrow,
           sink_handle_enqueue, sink_handle_other, sink_enqueue,
           sink_enqueue_done, sink_get_next, sink_get_done
  <1> QED BY <1>1, <1>2, <1>3
          DEF Next, SinkStep, sink_receive, sink_receive_nothing,
              sink_get_nothing, sink_get_first, sink_get_begin,
              atolla_sink_free, atolla_sink_remake, vars

LEMMA TimeIsNow ==
  ASSUME NoWrap, now \in Nat, now <= MaxClock
  PROVE  time_now = now /\ time_now < NULL_TIME
  BY SinkAssumption DEF NoWrap, NULL_TIME, time_now

\* With nobody else around, the recorded time is the borrower's last one.
SoleInv ==
  /\ now <= MaxClock
  /\ state = "LENT" /\ pc \notin {"iterate", "enqueue"} => last_recv_time = heard

\* A sink known to one endpoint only: a poll that leaves it lent has heard of
\* the borrower within drop_timeout, in that poll or before.  (With a second
\* endpoint this fails, as MC_SinkTrace_others.cfg shows.)
THEOREM SoleBorrowerDropped ==
  ASSUME NoWrap, \A e, f \in Endpoints : e = f
  PROVE  TracedSpec => SilentBorrowerDropped
  <1> DEFINE Timely == pc # "send" /\ pc' = "send" /\ state' = "LENT" =>
                         now - heard' <= DropTimeout
  <1>1. TracedInit => SoleInv
    BY SinkAssumption DEF TracedInit, Init, atolla_sink_make, SoleInv, NoWrap
  <1>2. Inv /\ Inv' /\ SilenceInv /\ SoleInv /\ [TracedNext]_tracedVars => SoleInv'
    <2> SUFFICES ASSUME Inv, Inv', SoleInv, [TracedNext]_tracedVars PROVE SoleInv'
      OBVIOUS
    <2>0. [Next]_vars /\ now \in Nat
      BY DEF TracedNext, tracedVars, Inv, TypeOK
    <2>1. now' <= MaxClock
      BY <2>0, ClockNext DEF SoleInv
    <2>2. pc # "iterate" => heard' = heard
      BY DEF TracedNext, tracedVars, history, Granting, Finishing
    <2>3. ASSUME state' = "LENT", pc' \notin {"iterate", "enqueue"}
          PROVE  last_recv_time' = heard'
      <3>1. CASE sink_receive_done
        <4>1. last_recv_time' = now
          BY <2>0, <3>1, TimeIsNow DEF sink_receive_done, SoleInv
        <4>2. state = "LENT" /\ rx.from = borrower_endpoint
          BY <2>3, <3>1, InHandFields DEF sink_receive_done, Inv, TypeOK, CallInv
        <4>3. heard' = now
          BY <3>1, <4>2 DEF sink_receive_done, Finishing, TracedNext, tracedVars, vars, sinkVars
        <4> QED BY <4>1, <4>3
      <3>2. CASE /\ pc \notin {"iterate", "enqueue"}
                 /\ state = "LENT"
                 /\ UNCHANGED last_recv_time
        BY <2>2, <3>2 DEF SoleInv
      <3> QED BY <2>0, <2>3, <3>1, <3>2, RecvStep
    <2> QED BY <2>1, <2>3 DEF SoleInv
  <1>3. Inv /\ SilenceInv /\ SoleInv /\ [TracedNext]_tracedVars => [Timely]_tracedVars
    <2> SUFFICES ASSUME Inv, SilenceInv, SoleInv, TracedNext,
                        pc # "send", pc' = "send", state' = "LENT"
                 PROVE  now - heard' <= DropTimeout
      OBVIOUS
    <2>0. now \in Nat /\ heard \in Nat /\ heard <= now /\ Next
      BY DEF Inv, TypeOK, SilenceInv, TracedNext
    <2>1. CASE sink_receive_done
      <3>1. state = "LENT" /\ rx.from = borrower_endpoint
        BY <2>1, InHandFields DEF sink_receive_done, Inv, TypeOK, CallInv
      <3>2. heard' = now
        BY <2>1, <3>1 DEF sink_receive_done, Finishing, TracedNext
      <3> QED BY <2>0, <3>2, SinkAssumption
    <2>2. CASE sink_receive_nothing
      <3>1. state = "LENT" /\ ~(Elapsed(last_recv_time) > DropTimeout)
        BY <2>2 DEF sink_receive_nothing, sink_drop_borrow
      <3>2. heard' = heard /\ last_recv_time = heard
        BY <2>2, <3>1 DEF sink_receive_nothing, TracedNext, Granting, Finishing, SoleInv
      <3>3. Elapsed(last_recv_time) = now - heard
        BY <2>0, <3>2, TimeIsNow, SinkAssumption DEF Elapsed, SoleInv, NoWrap, NULL_TIME
      <3> QED BY <2>0, <3>1, <3>2, <3>3, SinkAssumption
    <2>3. sink_receive_done \/ sink_receive_nothing
      <3>1. Continue => sink_receive_done
        BY DEF Continue, sink_send, sink_handle_borrow, sink_handle_enqueue,
               sink_handle_other, Handling, sink_enqueue, sink_enqueue_done,
               sink_get_next, sink_get_done
      <3> QED BY <2>0, <3>1 DEF Next, SinkStep, sink_receive,
               sink_get_nothing, sink_get_first, sink_get_begin,
               atolla_sink_free, atolla_sink_remake, Tick
    <2> QED BY <2>1, <2>2, <2>3
  <1> QED BY <1>1, <1>2, <1>3, TracedInv, SilenceInit, SilenceNext, PTL
          DEF TracedSpec, SilentBorrowerDropped

-----------------------------------------------------------------------------
(* The pace at which frames are shown. *)

\* The moment from which the n-th frame of a loan is due.
DueAt(first, n, duration) == first + (n - 1) * duration

LEMMA DueNext ==
  ASSUME NEW first \in Nat, NEW n \in Nat, NEW duration \in Nat
  PROVE  DueAt(first, n + 1, duration) = DueAt(first, n, duration) + duration
  <1> DEFINE x == (n - 1) * duration
  <1>1. (n + 1 - 1) * duration = x + duration /\ x \in Int
    OBVIOUS
  <1> HIDE DEF x
  <1>2. first + (x + duration) = (first + x) + duration
    BY <1>1
  <1> QED BY <1>1, <1>2 DEF DueAt, x

\* time_origin is the moment the frame last taken was due, which is never in
\* the future; it is NULL_TIME only until the first frame of a loan.
PaceInv ==
  /\ now <= MaxClock
  /\ count \in Nat
  /\ first_at \in Nat
  /\ state = "LENT" =>
       /\ count = 0 <=> time_origin = NULL_TIME
       /\ count > 0 => /\ time_origin = DueAt(first_at, count, frame_duration_ms)
                       /\ time_origin <= now
  /\ pc = "get" => time_origin <= get_now /\ get_now <= now /\ count > 0

\* A step of sink_get takes a frame or looks at the time, sink_handle_borrow
\* starts the frame clock anew, and every other step leaves it alone.
LEMMA PaceStep ==
  ASSUME Inv, Next
  PROVE  \/ sink_get_first \/ sink_get_begin \/ sink_get_next
         \/ /\ ~Taking
            /\ pc' = "get" => pc = "get" /\ UNCHANGED get_now
            /\ \/ Granting /\ time_origin' = NULL_TIME /\ pc' # "get"
               \/ /\ ~Granting
                  /\ state' = "LENT" =>
                       state = "LENT" /\ UNCHANGED <<frame_duration_ms, time_origin>>
  <1> DEFINE Still == UNCHANGED <<frame_duration_ms, time_origin>>
             Calm == /\ ~Taking /\ ~Granting
                     /\ pc' = "get" => pc = "get" /\ UNCHANGED get_now
                     /\ state' = "LENT" => state = "LENT" /\ Still
  <1> USE DEF Still, loan, timers, playing
  <1>0. pending_frames \in Seq(Frames) /\ Len(pending_frames) \in Nat
    BY DEF Inv, TypeOK
  <1>f. \A to, code : Packet(to, Fail(code)).msg # Lent
    <2> SUFFICES ASSUME NEW to, NEW code PROVE Packet(to, Fail(code)).msg # Lent
      OBVIOUS
    <2>1. Packet(to, Fail(code)).msg.type = "FAIL" /\ Lent.type = "LENT"
      BY DEF Packet, Fail, Lent
    <2> QED BY <2>1
  <1>1. CASE \E from \in Endpoints : \E msgs \in Datagrams(from) : sink_receive(from, msgs)
    BY <1>1 DEF sink_receive, Taking, Granting
  <1>2. CASE sink_receive_nothing \/ sink_get_nothing
    BY <1>2 DEF sink_receive_nothing, sink_drop_borrow, sink_get_nothing, Taking, Granting
  <1>3. CASE sink_receive_done \/ sink_send
    BY <1>3 DEF sink_receive_done, sink_send, sink_send_lent, Taking, Granting
  <1>4. CASE sink_handle_borrow
    <2>1. pc = "iterate" /\ pc' = "iterate" /\ ~Taking
      BY <1>4 DEF sink_handle_borrow, Handling, Taking
    <2>2. ASSUME NEW code, RefuseBorrow(code) PROVE Calm
      BY <1>f, <2>1, <2>2 DEF RefuseBorrow, sink_drop_borrow, Granting
    <2>3. ASSUME sink_send_lent(rx.from), time_origin' = NULL_TIME
          PROVE  Granting /\ time_origin' = NULL_TIME
      <3>1. out' = Packet(rx.from, Lent)
        BY <2>3 DEF sink_send_lent
      <3>2. out'.msg = Lent
        BY <3>1 DEF Packet
      <3>3. out' # None
        BY <2>1, <3>1, InHandFields, NoneIsNoPacket DEF Inv, TypeOK
      <3> QED BY <2>1, <2>3, <3>2, <3>3 DEF Granting
    <2>4. ASSUME out' = Packet(rx.from, Fail("LENT_TO_OTHER_SOURCE")),
                 UNCHANGED <<state, loan, timers>>
          PROVE  Calm
      BY <1>f, <2>1, <2>4 DEF Granting
    <2> QED BY <1>4, <2>1, <2>2, <2>3, <2>4 DEF sink_handle_borrow
  <1>5. CASE sink_handle_enqueue \/ sink_handle_other
    <2>1. pc = "iterate" /\ pc' \in {"iterate", "enqueue"} /\ ~Taking
      BY <1>5 DEF sink_handle_enqueue, sink_handle_other, Handling, Taking
    <2>2. ~Granting
      BY <1>5, <1>f DEF sink_handle_enqueue, sink_handle_other, Granting
    <2> QED BY <1>5, <2>1, <2>2
            DEF sink_handle_enqueue, sink_handle_other, sink_drop_borrow
  <1>6. CASE sink_enqueue \/ sink_enqueue_done
    BY <1>6 DEF sink_enqueue, sink_enqueue_done, Taking, Granting
  <1>7. CASE sink_get_done
    BY <1>0, <1>7 DEF sink_get_done, Taking, Granting
  <1>8. CASE atolla_sink_free \/ atolla_sink_remake
    BY <1>0, <1>8 DEF atolla_sink_free, atolla_sink_remake, Taking, Granting
  <1>9. CASE Tick
    BY <1>0, <1>9 DEF Tick, Taking, Granting
  <1> QED BY <1>1, <1>2, <1>3, <1>4, <1>5, <1>6, <1>7, <1>8, <1>9
          DEF Next, SinkStep, Continue

LEMMA PaceInit ==
  ASSUME NoWrap
  PROVE  TracedInit => PaceInv
  BY SinkAssumption DEF TracedInit, Init, atolla_sink_make, PaceInv, NoWrap

LEMMA PaceNext ==
  ASSUME NoWrap
  PROVE  Inv /\ Inv' /\ PaceInv /\ [TracedNext]_tracedVars => PaceInv'
  <1> SUFFICES ASSUME Inv, Inv', PaceInv, [TracedNext]_tracedVars PROVE PaceInv'
    OBVIOUS
  <1>1. CASE UNCHANGED tracedVars
    BY <1>1 DEF tracedVars, vars, sinkVars, loan, playing, history, PaceInv, DueAt
  <1>2. CASE TracedNext
    <2> USE <1>2
    <2>0. /\ Next /\ now \in Nat /\ now' \in {now, now + 1}
          /\ time_origin \in Nat /\ get_now \in Nat /\ frame_duration_ms \in Nat
      <3>1. now' \in {now, now + 1}
        BY RecvStep DEF TracedNext
      <3> QED BY <3>1 DEF TracedNext, Inv, TypeOK
    <2>1. now' <= MaxClock
      BY <2>0, ClockNext DEF PaceInv
    <2>t. time_now = now /\ time_now < NULL_TIME
      BY <2>0, TimeIsNow DEF PaceInv
    <2>h. /\ count' = IF Granting THEN 0 ELSE IF Taking THEN count + 1 ELSE count
          /\ first_at' = IF Taking /\ count = 0 THEN now ELSE first_at
      BY DEF TracedNext
    <2>n. count' \in Nat /\ first_at' \in Nat
      BY <2>0, <2>h DEF PaceInv
    <2>d. pending_frames \in Seq(Frames) /\ Len(pending_frames) \in Nat
      BY DEF Inv, TypeOK
    <2>q. mem_ring_dequeue => Len(pending_frames') < Len(pending_frames)
      BY <2>d, SeqFacts DEF mem_ring_dequeue
    <2>2. CASE sink_get_first
      <3>1. Taking /\ ~Granting /\ state = "LENT" /\ count = 0
        BY <2>2, <2>q DEF sink_get_first, Taking, Granting, PaceInv
      <3>2. count' = 1 /\ first_at' = now
        BY <2>h, <3>1
      <3>3. /\ time_origin' = now /\ now' = now /\ pc' # "get"
            /\ frame_duration_ms' = frame_duration_ms
        BY <2>2, <2>t DEF sink_get_first
      <3>4. DueAt(first_at, count, frame_duration_ms)' = now
        BY <2>0, <3>2, <3>3 DEF DueAt
      <3> QED BY <2>0, <2>1, <2>n, <2>t, <3>2, <3>3, <3>4 DEF PaceInv
    <2>3. CASE sink_get_begin
      <3>1. ~Taking /\ ~Granting /\ UNCHANGED <<loan, state, now>>
        BY <2>3, <2>d DEF sink_get_begin, Taking, Granting
      <3>2. count' = count /\ first_at' = first_at
        BY <2>h, <3>1
      <3>3. get_now' = now /\ state = "LENT" /\ time_origin # NULL_TIME
        BY <2>3, <2>t DEF sink_get_begin
      <3> QED BY <2>0, <3>1, <3>2, <3>3 DEF PaceInv, DueAt, loan
    <2>4. CASE sink_get_next
      <3>1. Taking /\ ~Granting /\ state = "LENT"
        BY <2>4, <2>q DEF sink_get_next, Taking, Granting, Inv, CallInv
      <3>2. /\ UNCHANGED <<state, now, pc, get_now, frame_duration_ms>>
            /\ time_origin <= get_now /\ get_now <= now /\ count > 0
            /\ time_origin = DueAt(first_at, count, frame_duration_ms) /\ pc = "get"
        BY <2>4, <3>1 DEF sink_get_next, PaceInv
      <3>3. count' = count + 1 /\ first_at' = first_at
        BY <2>h, <3>1, <3>2
      <3>4. (get_now - time_origin) % TimeMod = get_now - time_origin
        BY <2>0, <2>1, <3>2, SinkAssumption DEF NoWrap, NULL_TIME
      <3>5. time_origin + frame_duration_ms < get_now
        BY <2>0, <2>4, <3>4 DEF sink_get_next, FrameIsOver
      <3>6. (time_origin + frame_duration_ms) % TimeMod = time_origin + frame_duration_ms
        BY <2>0, <2>1, <3>2, <3>5, SinkAssumption DEF NoWrap, NULL_TIME
      <3>7. time_origin' = time_origin + frame_duration_ms
        BY <2>4, <3>6 DEF sink_get_next
      <3>8. DueAt(first_at, count, frame_duration_ms)'
              = DueAt(first_at, count, frame_duration_ms) + frame_duration_ms
        BY <2>0, <3>2, <3>3, DueNext DEF PaceInv
      <3>9. time_origin' < get_now' /\ get_now' <= now' /\ time_origin' \in Nat
        BY <2>0, <3>2, <3>5, <3>7
      <3>10. time_origin' # NULL_TIME /\ time_origin' <= now'
        BY <2>0, <2>1, <2>t, <3>2, <3>9
      <3> QED BY <2>0, <2>1, <2>n, <3>2, <3>3, <3>7, <3>8, <3>9, <3>10 DEF PaceInv
    <2>5. CASE /\ ~Taking
               /\ pc' = "get" => pc = "get" /\ UNCHANGED get_now
               /\ \/ Granting /\ time_origin' = NULL_TIME /\ pc' # "get"
                  \/ /\ ~Granting
                     /\ state' = "LENT" =>
                          state = "LENT" /\ UNCHANGED <<frame_duration_ms, time_origin>>
      <3>1. first_at' = first_at
        BY <2>5, <2>h
      <3>2. CASE Granting /\ time_origin' = NULL_TIME /\ pc' # "get"
        BY <2>1, <2>h, <2>n, <3>2 DEF PaceInv
      <3>3. CASE /\ ~Granting
                 /\ state' = "LENT" =>
                      state = "LENT" /\ UNCHANGED <<frame_duration_ms, time_origin>>
        <4>1. count' = count
          BY <2>5, <2>h, <3>3
        <4>2. ASSUME pc' = "get" PROVE time_origin' <= get_now' /\ get_now' <= now' /\ count' > 0
          <5>1. state' = "LENT"
            BY <4>2 DEF Inv, CallInv
          <5> QED BY <2>0, <2>5, <3>3, <4>1, <4>2, <5>1 DEF PaceInv, Inv, TypeOK
        <4>3. ASSUME state' = "LENT"
              PROVE  /\ count' = 0 <=> time_origin' = NULL_TIME
                     /\ count' > 0 =>
                          /\ time_origin' = DueAt(first_at, count, frame_duration_ms)'
                          /\ time_origin' <= now'
          BY <2>0, <3>1, <3>3, <4>1, <4>3 DEF PaceInv, DueAt
        <4> QED BY <2>1, <2>n, <4>2, <4>3 DEF PaceInv
      <3> QED BY <2>5, <3>2, <3>3
    <2> QED BY <2>0, <2>2, <2>3, <2>4, <2>5, PaceStep
  <1> QED BY <1>1, <1>2

\* atolla_sink_get never runs ahead of the frame clock, however late and in
\* whatever bursts frames arrive and the application asks, until time_now()
\* comes near NULL_TIME.
THEOREM SinkNeverRushes ==
  ASSUME NoWrap
  PROVE  TracedSpec => []NeverRushes
  <1>1. Inv /\ PaceInv => NeverRushes
    BY DEF PaceInv, NeverRushes, DueAt
  <1> QED BY <1>1, PaceInit, PaceNext, TracedInv, PTL DEF TracedSpec

=============================================================================
