------------------------------- MODULE Sink -------------------------------
(***************************************************************************)
(* The light sink of src/atolla/sink.cpp: the loan (who may stream, until  *)
(* when), the ring of pending frames, and the clock by which frames are    *)
(* shown.  The application calls atolla_sink_state, which receives at most *)
(* one datagram and resends LENT, and atolla_sink_get, which shows the     *)
(* frame of the moment.                                                    *)
(*                                                                         *)
(* A call is a sequence of steps (pc), because time passes within it and   *)
(* because one of its loops need not end.  A datagram is a sequence of     *)
(* messages; a frame is known by the endpoint that made it and a tag.      *)
(* pending_frames is the byte ring of MemRing, whose chunks are frames of  *)
(* one length, seen as the queue it implements.                            *)
(***************************************************************************)
EXTENDS Integers, Sequences

CONSTANTS
  Endpoints,        \* peers that send datagrams to the sink
  Tags,             \* tell frames of one endpoint apart
  None,             \* no endpoint, no frame, no datagram
  Slots,            \* pending_frames_capacity (128)
  IdxMod,           \* number of frame indices (256)
  MaxSkip,          \* largest forward jump of the index (128)
  DropTimeout,      \* drop_timeout (1500 ms)
  LentInterval,     \* lent_send_interval (500 ms)
  FrameMin,         \* frame_length_ms_min (10 ms)
  TimeMod,          \* values of an unsigned int (2^32)
  FrameLengths,     \* frame_length field of BORROW messages
  BufferLengths,    \* buffer_length field of BORROW messages
  FrameIdxs,        \* frame_idx field of ENQUEUE messages
  MaxMsgs,          \* messages in one datagram, at most
  StartClock,       \* time_now() when the sink is made
  MaxClock          \* bound: how long the model runs

ASSUME SinkAssumption ==
  /\ None \notin Endpoints
  /\ Slots \in Nat \ {0}
  /\ IdxMod \in Nat \ {0}
  /\ MaxSkip \in 0 .. IdxMod - 1
  /\ DropTimeout \in Nat
  /\ LentInterval \in Nat
  /\ FrameMin \in Nat
  /\ TimeMod \in Nat \ {0}
  /\ FrameLengths \subseteq Nat
  /\ BufferLengths \subseteq Nat
  /\ FrameIdxs \subseteq 0 .. IdxMod - 1
  /\ MaxMsgs \in Nat
  /\ StartClock \in Nat
  /\ MaxClock \in Nat

VARIABLES
  state,                    \* "ERROR", "OPEN" or "LENT"
  borrower_endpoint,
  frame_duration_ms,
  pending_frames,
  current_frame,
  time_origin,
  last_enqueued_frame_idx,  \* -1 until the first frame of a loan
  last_recv_time,
  last_send_lent_time,
  pc,                       \* where the call in progress stands
  rx,                       \* [from, msgs]: the rest of the datagram
  get_now,                  \* the local "now" of atolla_sink_get, else 0
  got,                      \* the frame the last atolla_sink_get returned
  out,                      \* the datagram the last step sent, or None
  now                       \* time, in ms, without the wrap of time_now()

loan == <<borrower_endpoint, frame_duration_ms, time_origin,
          last_enqueued_frame_idx>>
timers == <<last_recv_time, last_send_lent_time>>
playing == <<pending_frames, current_frame, got, get_now>>
sinkVars == <<state, loan, timers, playing, pc, rx, out>>
vars == <<sinkVars, now>>

\* NULL_TIME is ~0, the largest unsigned int (and -1 as an int).
NULL_TIME == TimeMod - 1

Frames == [by : Endpoints, tag : Tags]

\* A message from an endpoint.  Of a frame's data only its origin and
\* whether it has the 3 bytes of one light at least are kept.
Borrow(fl, bl) == [type |-> "BORROW", frame_length |-> fl, buffer_length |-> bl]
Enqueue(i, f, short) ==
  [type |-> "ENQUEUE", frame_idx |-> i, frame |-> f, short |-> short]
Other == [type |-> "OTHER"]

Messages(from) ==
  {Borrow(fl, bl) : fl \in FrameLengths, bl \in BufferLengths}
  \cup {Enqueue(i, [by |-> from, tag |-> t], short) :
          i \in FrameIdxs, t \in Tags, short \in BOOLEAN}
  \cup {Other}

Datagrams(from) == UNION {[1..n -> Messages(from)] : n \in 0 .. MaxMsgs}

Lent == [type |-> "LENT"]
Fail(code) == [type |-> "FAIL", code |-> code]
Packet(to, msg) == [to |-> to, msg |-> msg]

ASSUME NoneIsNoPacket == \A to \in Endpoints : Packet(to, Lent) # None

\* time_now() is an unsigned int, and so is the difference of two times.
time_now == now % TimeMod
Elapsed(t) == (time_now - t) % TimeMod

-----------------------------------------------------------------------------
\* sink_private_make zeroes every field; only binding the port can fail.
atolla_sink_make ==
  /\ state \in {"OPEN", "ERROR"}
  /\ borrower_endpoint = None
  /\ frame_duration_ms = 0
  /\ pending_frames = << >>
  /\ current_frame = None
  /\ time_origin = 0
  /\ last_enqueued_frame_idx = 0
  /\ last_recv_time = 0
  /\ last_send_lent_time = 0
  /\ pc = "idle"
  /\ rx = None
  /\ get_now = 0
  /\ got = None
  /\ out = None

Init == atolla_sink_make /\ now = StartClock

\* atolla_sink_free; the handle may be made anew.
atolla_sink_free ==
  /\ pc = "idle"
  /\ pc' = "freed"
  /\ out' = None
  /\ UNCHANGED <<state, loan, timers, playing, rx, now>>

atolla_sink_remake ==
  /\ pc = "freed"
  /\ state' \in {"OPEN", "ERROR"}
  /\ borrower_endpoint' = None
  /\ frame_duration_ms' = 0
  /\ pending_frames' = << >>
  /\ current_frame' = None
  /\ time_origin' = 0
  /\ last_enqueued_frame_idx' = 0
  /\ last_recv_time' = 0
  /\ last_send_lent_time' = 0
  /\ pc' = "idle"
  /\ rx' = None
  /\ get_now' = 0
  /\ got' = None
  /\ out' = None
  /\ UNCHANGED now

-----------------------------------------------------------------------------
(* atolla_sink_state: sink_receive, then sink_send. *)

\* A datagram waits in the socket.
sink_receive(from, msgs) ==
  /\ pc = "idle"
  /\ state # "ERROR"
  /\ rx' = [from |-> from, msgs |-> msgs]
  /\ pc' = "iterate"
  /\ out' = None
  /\ UNCHANGED <<state, loan, timers, playing, now>>

sink_drop_borrow == state' = "OPEN"

\* Mutant: silence is never noticed.
sink_receive_nothing_NoTimeout ==
  /\ pc = "idle"
  /\ state # "ERROR"
  /\ pc' = "send"
  /\ out' = None
  /\ UNCHANGED <<state, loan, timers, playing, rx, now>>

\* No datagram waits: the only place where silence ends the loan.
sink_receive_nothing ==
  /\ pc = "idle"
  /\ state # "ERROR"
  /\ pc' = "send"
  /\ \/ /\ state = "LENT"
        /\ Elapsed(last_recv_time) > DropTimeout
        /\ out' = Packet(borrower_endpoint, Fail("TIMEOUT"))
        /\ sink_drop_borrow
     \/ /\ ~(state = "LENT" /\ Elapsed(last_recv_time) > DropTimeout)
        /\ out' = None
        /\ UNCHANGED state
  /\ UNCHANGED <<loan, timers, playing, rx, now>>

\* Mutant: the time of the datagram is not recorded.
sink_receive_done_NoTime ==
  /\ pc = "iterate"
  /\ rx.msgs = << >>
  /\ rx' = None
  /\ pc' = "send"
  /\ out' = None
  /\ UNCHANGED <<state, loan, timers, playing, now>>

\* The last message of the datagram was handled.
sink_receive_done ==
  /\ pc = "iterate"
  /\ rx.msgs = << >>
  /\ last_recv_time' = time_now
  /\ rx' = None
  /\ pc' = "send"
  /\ out' = None
  /\ UNCHANGED <<state, loan, last_send_lent_time, playing, now>>

sink_send_lent(to) ==
  /\ out' = Packet(to, Lent)
  /\ last_send_lent_time' = time_now

\* Mutant: LENT only answers a BORROW.
sink_send_Never ==
  /\ pc = "send"
  /\ pc' = "idle"
  /\ out' = None
  /\ UNCHANGED <<state, loan, timers, playing, rx, now>>

sink_send ==
  /\ pc = "send"
  /\ pc' = "idle"
  /\ \/ /\ state = "LENT"
        /\ Elapsed(last_send_lent_time) > LentInterval
        /\ sink_send_lent(borrower_endpoint)
     \/ /\ ~(state = "LENT" /\ Elapsed(last_send_lent_time) > LentInterval)
        /\ out' = None
        /\ UNCHANGED last_send_lent_time
  /\ UNCHANGED <<state, loan, last_recv_time, playing, rx, now>>

-----------------------------------------------------------------------------
(* sink_iterate_recv_buf: one step per message.  In the ERROR state nothing *)
(* is received, so the handlers' tests for it do not appear.                *)

Handling(type) ==
  /\ pc = "iterate"
  /\ rx.msgs # << >>
  /\ Head(rx.msgs).type = type

NextMsg == rx' = [rx EXCEPT !.msgs = Tail(@)]

\* The test on the sender, udp_endpoint_equal.
FromBorrower == rx.from = borrower_endpoint

\* Mutant: anyone may take over a loan.
MayBorrow_Anyone == state \in {"OPEN", "LENT"}

\* The sink may be borrowed by the sender: it is free, or already the sender's.
MayBorrow ==
  \/ state = "OPEN"
  \/ state = "LENT" /\ rx.from = borrower_endpoint

\* A refused BORROW of the borrower costs it the loan.
RefuseBorrow(code) ==
  /\ out' = Packet(rx.from, Fail(code))
  /\ sink_drop_borrow
  /\ UNCHANGED <<loan, timers>>

sink_handle_borrow ==
  LET m == Head(rx.msgs) IN
  /\ Handling("BORROW")
  /\ \/ /\ MayBorrow
        /\ m.buffer_length > Slots
        /\ RefuseBorrow("REQUESTED_BUFFER_TOO_LARGE")
     \/ /\ MayBorrow
        /\ m.buffer_length <= Slots
        /\ m.frame_length < FrameMin
        /\ RefuseBorrow("REQUESTED_FRAME_DURATION_TOO_SHORT")
     \/ /\ MayBorrow
        /\ m.buffer_length <= Slots
        /\ m.frame_length >= FrameMin
        /\ borrower_endpoint' = rx.from
        /\ frame_duration_ms' = m.frame_length
        /\ time_origin' = NULL_TIME
        /\ last_enqueued_frame_idx' = -1
        /\ last_recv_time' = NULL_TIME
        /\ state' = "LENT"
        /\ sink_send_lent(rx.from)
     \/ /\ ~MayBorrow
        /\ out' = Packet(rx.from, Fail("LENT_TO_OTHER_SOURCE"))
        /\ UNCHANGED <<state, loan, timers>>
  /\ NextMsg
  /\ UNCHANGED <<playing, pc, now>>

bounded_diff(from, to, cap) == IF to < from THEN cap - from + to ELSE to - from

FrameDiff(m) == bounded_diff(last_enqueued_frame_idx, m.frame_idx, IdxMod)

\* A short frame is refused before the sender is looked at.
sink_handle_enqueue ==
  LET m == Head(rx.msgs) IN
  /\ Handling("ENQUEUE")
  /\ \/ /\ state = "OPEN"
        /\ out' = Packet(rx.from, Fail("NOT_BORROWED"))
        /\ NextMsg
        /\ UNCHANGED <<state, pc>>
     \/ /\ state = "LENT"
        /\ m.short
        /\ out' = Packet(rx.from, Fail("BAD_MSG"))
        /\ sink_drop_borrow
        /\ NextMsg
        /\ UNCHANGED pc
     \/ /\ state = "LENT"
        /\ ~m.short
        /\ FromBorrower
        /\ FrameDiff(m) > MaxSkip
        /\ out' = None
        /\ NextMsg
        /\ UNCHANGED <<state, pc>>
     \/ /\ state = "LENT"
        /\ ~m.short
        /\ FromBorrower
        /\ FrameDiff(m) <= MaxSkip
        /\ out' = None
        /\ pc' = "enqueue"
        /\ UNCHANGED <<state, rx>>
     \/ /\ state = "LENT"
        /\ ~m.short
        /\ ~FromBorrower
        /\ out' = Packet(rx.from, Fail("LENT_TO_OTHER_SOURCE"))
        /\ NextMsg
        /\ UNCHANGED <<state, pc>>
  /\ UNCHANGED <<loan, timers, playing, now>>

\* Mutant: the ring's refusal is overlooked.
sink_enqueue_NoCheck ==
  /\ pc = "enqueue"
  /\ FrameDiff(Head(rx.msgs)) > 0
  /\ pending_frames' = Append(pending_frames, Head(rx.msgs).frame)
  /\ last_enqueued_frame_idx' = (last_enqueued_frame_idx + 1) % IdxMod
  /\ out' = None
  /\ UNCHANGED <<state, borrower_endpoint, frame_duration_ms, time_origin,
                 timers, current_frame, got, get_now, pc, rx, now>>

\* One turn of the loop that fills the gap up to the frame with copies of
\* it.  A full ring leaves everything as it is, and the loop goes on.
sink_enqueue ==
  LET m == Head(rx.msgs) IN
  /\ pc = "enqueue"
  /\ FrameDiff(m) > 0
  /\ \/ /\ Len(pending_frames) < Slots
        /\ pending_frames' = Append(pending_frames, m.frame)
        /\ last_enqueued_frame_idx' = (last_enqueued_frame_idx + 1) % IdxMod
     \/ /\ Len(pending_frames) >= Slots
        /\ UNCHANGED <<pending_frames, last_enqueued_frame_idx>>
  /\ out' = None
  /\ UNCHANGED <<state, borrower_endpoint, frame_duration_ms, time_origin,
                 timers, current_frame, got, get_now, pc, rx, now>>

\* Mutant: the loop does not stop at the frame's own index.
sink_enqueue_done_Strict ==
  /\ pc = "enqueue"
  /\ FrameDiff(Head(rx.msgs)) < 0
  /\ NextMsg
  /\ pc' = "iterate"
  /\ out' = None
  /\ UNCHANGED <<state, loan, timers, playing, now>>

sink_enqueue_done ==
  /\ pc = "enqueue"
  /\ FrameDiff(Head(rx.msgs)) <= 0
  /\ NextMsg
  /\ pc' = "iterate"
  /\ out' = None
  /\ UNCHANGED <<state, loan, timers, playing, now>>

sink_handle_other ==
  /\ Handling("OTHER")
  /\ out' = Packet(rx.from, Fail("BAD_MSG"))
  /\ NextMsg
  /\ UNCHANGED <<state, loan, timers, playing, pc, now>>

-----------------------------------------------------------------------------
(* atolla_sink_get *)

mem_ring_dequeue ==
  /\ pending_frames # << >>
  /\ current_frame' = Head(pending_frames)
  /\ pending_frames' = Tail(pending_frames)

sink_get_nothing ==
  /\ pc = "idle"
  /\ \/ state # "LENT"
     \/ time_origin = NULL_TIME /\ pending_frames = << >>
  /\ got' = None
  /\ out' = None
  /\ UNCHANGED <<state, loan, timers, pending_frames, current_frame, get_now,
                 pc, rx, now>>

\* The first frame sets the origin of the frame clock.
sink_get_first ==
  /\ pc = "idle"
  /\ state = "LENT"
  /\ time_origin = NULL_TIME
  /\ mem_ring_dequeue
  /\ time_origin' = time_now
  /\ got' = current_frame'
  /\ out' = None
  /\ UNCHANGED <<state, borrower_endpoint, frame_duration_ms,
                 last_enqueued_frame_idx, timers, get_now, pc, rx, now>>

sink_get_begin ==
  /\ pc = "idle"
  /\ state = "LENT"
  /\ time_origin # NULL_TIME
  /\ get_now' = time_now
  /\ pc' = "get"
  /\ out' = None
  /\ UNCHANGED <<state, loan, timers, pending_frames, current_frame, got, rx, now>>

FrameIsOver == (get_now - time_origin) % TimeMod > frame_duration_ms

\* Mutant: the origin stays, so that every frame counts as over.
sink_get_next_KeepOrigin ==
  /\ pc = "get"
  /\ FrameIsOver
  /\ mem_ring_dequeue
  /\ out' = None
  /\ UNCHANGED <<state, loan, timers, got, get_now, pc, rx, now>>

\* One turn of the loop that catches up with the clock.
sink_get_next ==
  /\ pc = "get"
  /\ FrameIsOver
  /\ mem_ring_dequeue
  /\ time_origin' = (time_origin + frame_duration_ms) % TimeMod
  /\ out' = None
  /\ UNCHANGED <<state, borrower_endpoint, frame_duration_ms,
                 last_enqueued_frame_idx, timers, got, get_now, pc, rx, now>>

sink_get_done ==
  /\ pc = "get"
  /\ ~FrameIsOver \/ pending_frames = << >>
  /\ got' = current_frame
  /\ pc' = "idle"
  /\ get_now' = 0
  /\ out' = None
  /\ UNCHANGED <<state, loan, timers, pending_frames, current_frame, rx, now>>

-----------------------------------------------------------------------------
\* The steps that continue a call once it has begun.
Continue ==
  \/ sink_receive_done \/ sink_send
  \/ sink_handle_borrow \/ sink_handle_enqueue \/ sink_handle_other
  \/ sink_enqueue \/ sink_enqueue_done
  \/ sink_get_next \/ sink_get_done

\* The steps of the sink other than taking a datagram from the socket.
SinkStep ==
  \/ sink_receive_nothing
  \/ sink_get_nothing \/ sink_get_first \/ sink_get_begin
  \/ Continue
  \/ atolla_sink_free \/ atolla_sink_remake

\* Time passes between any two steps.
Tick ==
  /\ now < MaxClock
  /\ now' = now + 1
  /\ out' = None
  /\ UNCHANGED <<state, loan, timers, playing, pc, rx>>

Next ==
  \/ \E from \in Endpoints : \E msgs \in Datagrams(from) : sink_receive(from, msgs)
  \/ SinkStep
  \/ Tick

Spec == Init /\ [][Next]_vars

\* A thread inside a call keeps running.
FairSpec == Spec /\ WF_vars(Continue)

-----------------------------------------------------------------------------
(* Properties. *)

\* A datagram, or what is left of it, with its sender.
InHand(r) == \E e \in Endpoints : r \in [from : {e}, msgs : Seq(Messages(e))]

\* The fields of the sink and the datagram in hand keep their types.
TypeOK ==
  /\ state \in {"ERROR", "OPEN", "LENT"}
  /\ borrower_endpoint \in Endpoints \cup {None}
  /\ frame_duration_ms \in Nat
  /\ pending_frames \in Seq(Frames)
  /\ Len(pending_frames) <= Slots
  /\ current_frame \in Frames \cup {None}
  /\ time_origin \in 0 .. TimeMod - 1
  /\ last_enqueued_frame_idx \in -1 .. IdxMod - 1
  /\ last_recv_time \in 0 .. TimeMod - 1
  /\ last_send_lent_time \in 0 .. TimeMod - 1
  /\ pc \in {"idle", "iterate", "enqueue", "send", "get", "freed"}
  /\ pc \in {"iterate", "enqueue"} => InHand(rx)
  /\ get_now \in 0 .. TimeMod - 1
  /\ got \in Frames \cup {None}
  /\ now \in Nat

\* A freed sink is lent to nobody.
Holder == IF state = "LENT" /\ pc # "freed" THEN borrower_endpoint ELSE None

L == INSTANCE Lease WITH
       holder <- Holder, playlist <- pending_frames, shown <- current_frame

\* The sink keeps the promise of Lease: no message of any endpoint, in any
\* state and order, passes the loan on directly, puts a frame of anyone but
\* the borrower into the ring, or overtakes a frame that waits.  What an
\* earlier borrower left in the ring is shown in the next loan.
ImplementsLease == L!Spec

\* A loan ends because the borrower sent something or nothing, never through
\* a message of somebody else (sink_handle_borrow, sink_handle_enqueue).
LoanEndsByBorrower ==
  [][state = "LENT" /\ state' = "OPEN" /\ pc = "iterate" =>
       rx.from = borrower_endpoint]_vars

\* The ring has room for every copy that the gap before the frame calls for.
Room ==
  pc = "enqueue" => FrameDiff(Head(rx.msgs)) <= Slots - Len(pending_frames)

\* Every call of atolla_sink_state and atolla_sink_get returns.
CallReturns == pc # "idle" ~> pc \in {"idle", "freed"}

\* Calls return as long as the borrower never sends more than fits.
CallReturnsIfRoom == []Room => CallReturns
=============================================================================
