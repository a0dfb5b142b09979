------------------------------ MODULE Source ------------------------------
(***************************************************************************)
(* The light sources of src/atolla/source.cpp.  A source borrows the sink, *)
(* retries a lost BORROW, watches for the LENT messages that renew the     *)
(* loan and paces the frames its application puts, so that at most         *)
(* max_buffered_frames of them wait in the sink.                           *)
(*                                                                         *)
(* Every call of the interface begins with source_update, which takes at   *)
(* most one datagram from the socket.  A datagram of the sink holds one    *)
(* message.  put makes three updates and may sleep; what happens between   *)
(* them is why it takes four steps here.  An error message is left out:    *)
(* only that the source failed matters to anyone.                          *)
(***************************************************************************)
EXTENDS Integers

CONSTANTS
  Sources,             \* endpoints of the sources
  None,                \* no message, no value yet
  IdxMod,              \* number of frame indices (256)
  ByteMod,             \* number of values of a uint8 field (256)
  TimeMod,             \* values of an unsigned int (2^32)
  frame_duration_ms,   \* of the AtollaSourceSpec, as the next three
  max_buffered_frames,
  retry_timeout_ms,
  disconnect_timeout_ms,
  max_buffered_frames_default,     \* 16
  retry_timeout_ms_default,        \* 100 ms
  disconnect_timeout_ms_default,   \* 750 ms
  blocking_make_refresh_interval,  \* 5 ms
  StartClock,          \* time_now() when the program starts
  MaxFrames,           \* bound: frames the application of a source puts
  MaxClock             \* bound: how long the model runs

ASSUME SourceAssumption ==
  /\ None \notin Sources
  /\ IdxMod \in Nat \ {0}
  /\ ByteMod \in Nat \ {0}
  /\ TimeMod \in Nat \ {0}
  /\ frame_duration_ms \in Nat \ {0}
  /\ max_buffered_frames \in Nat
  /\ retry_timeout_ms \in Nat
  /\ disconnect_timeout_ms \in Nat
  /\ max_buffered_frames_default \in Nat \ {0}
  /\ retry_timeout_ms_default \in Nat \ {0}
  /\ disconnect_timeout_ms_default \in Nat \ {0}
  /\ blocking_make_refresh_interval \in Nat
  /\ StartClock \in Nat
  /\ MaxFrames \in Nat
  /\ MaxClock \in Nat

VARIABLES
  src,   \* the record of each source: AtollaSourcePrivate and its call
  tx,    \* the datagram the last step sent, or None
  now    \* time, in ms, without the wrap of time_now()

vars == <<src, tx, now>>

\* A zero in the spec asks for the default.
OrDefault(value, default) == IF value = 0 THEN default ELSE value
Buffered == OrDefault(max_buffered_frames, max_buffered_frames_default)
Retry == OrDefault(retry_timeout_ms, retry_timeout_ms_default)
Disconnect == OrDefault(disconnect_timeout_ms, disconnect_timeout_ms_default)

\* NULL_TIME is ~0: no frame was put yet.
NULL_TIME == TimeMod - 1
time_now == now % TimeMod
Elapsed(t) == (time_now - t) % TimeMod

\* What the sink sends: LENT, or FAIL with one of its codes, all of which
\* end the connection; Garbage is any other type of message.
Lent == [type |-> "LENT"]
Fail(code) == [type |-> "FAIL", code |-> code]
Garbage == [type |-> "OTHER"]

\* msg_builder_borrow takes both numbers as uint8_t.
BorrowMsg ==
  [type |-> "BORROW",
   frame_length |-> frame_duration_ms % ByteMod,
   buffer_length |-> Buffered % ByteMod]

EnqueueMsg(s, r) ==
  [type |-> "ENQUEUE", frame_idx |-> r.next_frame_idx,
   frame |-> [by |-> s, tag |-> r.frames], short |-> FALSE]

From(s, msg) == [from |-> s, msg |-> msg]

-----------------------------------------------------------------------------
\* source_private_make; last_recv_lent_time is left uninitialized.  "pc" and
\* "wake" belong to the call in progress; "frames" counts the frames sent
\* and "began" tells when the first was, for the properties only.
source_private_make ==
  [state |-> "WAITING", next_frame_idx |-> 0,
   first_borrow_time |-> 0, last_borrow_time |-> 0, last_frame_time |-> 0,
   last_recv_lent_time |-> None,
   pc |-> "idle", wake |-> 0, frames |-> 0, began |-> 0]

Init ==
  /\ src = [s \in Sources |-> [source_private_make EXCEPT !.pc = "unmade"]]
  /\ tx = None
  /\ now = StartClock

source_fail(r) == [r EXCEPT !.state = "ERROR"]

\* Opening the socket or resolving the host name may fail; a blocking make
\* goes on in source_await_make_completion.
atolla_source_make(s, ok, async_make) ==
  /\ src[s].pc = "unmade"
  /\ \/ /\ ok
        /\ src' = [src EXCEPT ![s] =
                     [source_private_make EXCEPT
                        !.first_borrow_time = time_now,
                        !.last_borrow_time = time_now,
                        !.pc = IF async_make THEN "idle" ELSE "await",
                        !.wake = now + blocking_make_refresh_interval]]
        /\ tx' = From(s, BorrowMsg)
     \/ /\ ~ok
        /\ src' = [src EXCEPT ![s] = source_fail(source_private_make)]
        /\ tx' = None
  /\ UNCHANGED now

atolla_source_free(s) ==
  /\ src[s].pc = "idle"
  /\ src' = [src EXCEPT ![s].pc = "freed"]
  /\ tx' = None
  /\ UNCHANGED now

-----------------------------------------------------------------------------
(* source_update: receive, manage_borrow_packet_loss, ensure_lent_resent. *)

\* Mutant: a renewal starts the frame clock again.
source_lent_Restarts(r) ==
  IF r.state = "ERROR" THEN r
  ELSE [r EXCEPT !.state = "OPEN", !.last_frame_time = time_now,
                 !.last_recv_lent_time = time_now]

\* Mutant: a late LENT opens a source that has given up.
source_lent_Revives(r) ==
  IF r.state = "OPEN" THEN [r EXCEPT !.last_recv_lent_time = time_now]
  ELSE [r EXCEPT !.state = "OPEN", !.last_frame_time = NULL_TIME,
                 !.last_recv_lent_time = time_now]

source_lent(r) ==
  CASE r.state = "WAITING" -> [r EXCEPT !.state = "OPEN",
                                        !.last_frame_time = NULL_TIME,
                                        !.last_recv_lent_time = time_now]
    [] r.state = "OPEN"    -> [r EXCEPT !.last_recv_lent_time = time_now]
    [] r.state = "ERROR"   -> r

\* source_iterate_recv_buf on a datagram of one message, or on none.
source_receive(r, msg) ==
  IF msg = None THEN r
  ELSE IF msg.type = "LENT" THEN source_lent(r) ELSE source_fail(r)

\* Mutant: borrowing is retried forever.
GivesUp_Never(r) == FALSE

GivesUp(r) ==
  r.state = "WAITING" /\ Elapsed(r.first_borrow_time) > Disconnect

\* Mutant: an open source borrows again, too.
Retries_Open(r) ==
  r.state # "ERROR" /\ ~GivesUp(r) /\ Elapsed(r.last_borrow_time) > Retry

Retries(r) ==
  /\ r.state = "WAITING"
  /\ ~GivesUp(r)
  /\ Elapsed(r.last_borrow_time) > Retry

source_manage_borrow_packet_loss(r) ==
  IF GivesUp(r) THEN source_fail(r)
  ELSE IF Retries(r) THEN [r EXCEPT !.last_borrow_time = time_now] ELSE r

\* Mutant: the sink's silence is not noticed.
source_ensure_lent_resent_Never(r) == r

source_ensure_lent_resent(r) ==
  IF r.state = "OPEN" /\ Elapsed(r.last_recv_lent_time) >= Disconnect
  THEN source_fail(r) ELSE r

source_update(r, msg) ==
  source_ensure_lent_resent(
    source_manage_borrow_packet_loss(source_receive(r, msg)))

\* The BORROW that an update sends again, if it does.
Resent(s, r, msg) ==
  IF Retries(source_receive(r, msg)) THEN From(s, BorrowMsg) ELSE None

\* Every call updates first.  r is what the call makes of the result.
Update(s, msg, r) ==
  /\ src' = [src EXCEPT ![s] = r]
  /\ tx' = Resent(s, src[s], msg)
  /\ UNCHANGED now

-----------------------------------------------------------------------------
(* The interface. *)

\* How many frames may be put now, and how long to wait for the next.
ReadyCount(r) ==
  CASE r.state # "OPEN"                -> 0
    [] r.state = "OPEN" /\ r.last_frame_time = NULL_TIME -> Buffered
    [] r.state = "OPEN" /\ r.last_frame_time # NULL_TIME ->
         Elapsed(r.last_frame_time) \div frame_duration_ms

ReadyTimeout(r) ==
  CASE r.state # "OPEN"                -> -1
    [] r.state = "OPEN" /\ ReadyCount(r) > 0 -> 0
    [] r.state = "OPEN" /\ ReadyCount(r) <= 0 ->
         (r.last_frame_time + frame_duration_ms - time_now) % TimeMod

\* atolla_source_state, _put_ready_count and _put_ready_timeout change the
\* source alike.
atolla_source_state(s, msg) ==
  /\ src[s].pc = "idle"
  /\ Update(s, msg, source_update(src[s], msg))

\* One turn of the loop of a blocking make, after its sleep.
source_await_make_completion(s, msg) ==
  LET r == source_update(src[s], msg) IN
  /\ src[s].pc = "await"
  /\ now >= src[s].wake
  /\ Update(s, msg,
       IF r.state = "WAITING"
       THEN [r EXCEPT !.wake = now + blocking_make_refresh_interval]
       ELSE [r EXCEPT !.pc = "idle", !.wake = 0])

\* atolla_source_put: an update of its own, ...
put_update(s, msg) ==
  /\ src[s].pc = "idle"
  /\ src[s].frames < MaxFrames
  /\ Update(s, msg, [source_update(src[s], msg) EXCEPT !.pc = "put_state"])

\* ... the one of atolla_source_state, whose answer must be OPEN, ...
put_state(s, msg) ==
  LET r == source_update(src[s], msg) IN
  /\ src[s].pc = "put_state"
  /\ Update(s, msg,
       IF r.state = "OPEN" THEN [r EXCEPT !.pc = "put_timeout"]
       ELSE [r EXCEPT !.pc = "idle"])

\* Mutant: put does not wait for its turn.
Sleep_Never(r) == 0

\* How long put sleeps: only a positive timeout makes it wait.
Sleep(r) == IF ReadyTimeout(r) > 0 THEN ReadyTimeout(r) ELSE 0

\* ... the one of atolla_source_put_ready_timeout, which says how long to
\* sleep and whose -1 is taken for no wait, ...
put_timeout(s, msg) ==
  LET r == source_update(src[s], msg) IN
  /\ src[s].pc = "put_timeout"
  /\ Update(s, msg, [r EXCEPT !.pc = "put_send", !.wake = now + Sleep(r)])

\* Mutant: the frame index grows beyond its byte.
FrameSent_NoWrap(r) ==
  [r EXCEPT !.next_frame_idx = @ + 1,
            !.last_frame_time =
               IF @ = NULL_TIME
               THEN (time_now - (Buffered - 1) * frame_duration_ms) % TimeMod
               ELSE (@ + frame_duration_ms) % TimeMod,
            !.began = IF r.frames = 0 THEN now ELSE @,
            !.frames = @ + 1,
            !.pc = "idle", !.wake = 0]

\* The frame clock of the source after a frame: the first leaves room for
\* the rest of the buffer, every other uses up one frame duration.
FrameSent(r) ==
  [r EXCEPT !.next_frame_idx = (@ + 1) % IdxMod,
            !.last_frame_time =
               IF @ = NULL_TIME
               THEN (time_now - (Buffered - 1) * frame_duration_ms) % TimeMod
               ELSE (@ + frame_duration_ms) % TimeMod,
            !.began = IF r.frames = 0 THEN now ELSE @,
            !.frames = @ + 1,
            !.pc = "idle", !.wake = 0]

\* ... and the frame, whatever became of the connection meanwhile.
put_send(s) ==
  /\ src[s].pc = "put_send"
  /\ now >= src[s].wake
  /\ src' = [src EXCEPT ![s] = FrameSent(@)]
  /\ tx' = From(s, EnqueueMsg(s, src[s]))
  /\ UNCHANGED now

\* The socket does not take the frame.
put_send_fails(s) ==
  /\ src[s].pc = "put_send"
  /\ now >= src[s].wake
  /\ src' = [src EXCEPT ![s].pc = "idle", ![s].wake = 0]
  /\ tx' = None
  /\ UNCHANGED now

-----------------------------------------------------------------------------
\* What may wait in the socket.
FailCodes ==
  {"NOT_BORROWED", "REQUESTED_BUFFER_TOO_LARGE", "REQUESTED_FRAME_DURATION_TOO_SHORT",
   "LENT_TO_OTHER_SOURCE", "BAD_MSG", "TIMEOUT"}
Incoming == {None, Lent, Garbage} \cup {Fail(code) : code \in FailCodes}

\* Nothing is not taken for a message of the sink, nor for a frame.
ASSUME NoneIsNoMessage ==
  /\ None \notin {Lent, Garbage} \cup {Fail(code) : code \in FailCodes}
  /\ None \notin [from : Sources,
                 msg : [type : {"ENQUEUE"}, frame_idx : Nat,
                        frame : [by : Sources, tag : Nat], short : BOOLEAN]]

\* A step of s that looks into the socket and finds msg, or None.
Receiving(s, msg) ==
  \/ atolla_source_state(s, msg)
  \/ source_await_make_completion(s, msg)
  \/ put_update(s, msg) \/ put_state(s, msg) \/ put_timeout(s, msg)

\* A step of s that does not.
Other(s) ==
  \/ \E ok, async_make \in BOOLEAN : atolla_source_make(s, ok, async_make)
  \/ put_send(s) \/ put_send_fails(s)
  \/ atolla_source_free(s)

Tick ==
  /\ now < MaxClock
  /\ now' = now + 1
  /\ tx' = None
  /\ UNCHANGED src

Next ==
  \/ \E s \in Sources :
       \/ \E msg \in Incoming : Receiving(s, msg)
       \/ Other(s)
  \/ Tick

Spec == Init /\ [][Next]_vars

\* Time passes, and the loop of a blocking make goes on.
FairSpec ==
  /\ Spec
  /\ WF_vars(Tick)
  /\ \A s \in Sources :
       WF_vars(\E msg \in Incoming : source_await_make_completion(s, msg))

-----------------------------------------------------------------------------
(* Properties. *)

Calls == {"unmade", "idle", "await", "put_state", "put_timeout", "put_send", "freed"}

Records ==
  [state : {"WAITING", "OPEN", "ERROR"}, next_frame_idx : 0 .. IdxMod - 1,
   first_borrow_time : 0 .. TimeMod - 1, last_borrow_time : 0 .. TimeMod - 1,
   last_frame_time : 0 .. TimeMod - 1,
   last_recv_lent_time : (0 .. TimeMod - 1) \cup {None},
   pc : Calls, wake : Nat, frames : Nat, began : Nat]

\* The fields keep their types, and last_recv_lent_time, which
\* source_private_make leaves uninitialized, has a value once it is read.
TypeOK ==
  /\ src \in [Sources -> Records]
  /\ \A s \in Sources :
       src[s].state = "OPEN" => src[s].last_recv_lent_time \in 0 .. TimeMod - 1
  /\ now \in Nat

\* The frames that a source may have sent by now: the buffer at once, and
\* one more for every frame duration since the first.  A source that fails
\* while atolla_source_put is at work sends that one frame without waiting.
Allowed(r) == IF r.state = "ERROR" THEN Buffered + 1 ELSE Buffered

\* A source never runs further ahead of the sink than max_buffered_frames
\* (atolla_source_put: "if max_buffered_frames are already enqueued in the
\* connected sink, will block"), however its application's calls, the LENT
\* messages and the clock interleave.
Paced ==
  \A s \in Sources :
    (src[s].frames - Allowed(src[s])) * frame_duration_ms <= now - src[s].began

\* What atolla_source_put_ready_count promised holds until it is used: in an
\* open source nothing but a frame sent takes from the count, and a frame
\* takes one ("if atolla_source_put_ready_count returns a non-zero value,
\* atolla_source_put is guaranteed not to wait").
CreditKept ==
  [][\A s \in Sources :
       src[s].state = "OPEN" /\ src'[s].state = "OPEN" =>
         ReadyCount(src[s])' >= ReadyCount(src[s]) - (src'[s].frames - src[s].frames)]_vars

\* ERROR is final: no late LENT, retry or timeout brings a source back
\* ("a state of error that it cannot recover from").
ErrorIsFinal ==
  [][\A s \in Sources :
       src[s].state = "ERROR" => src'[s].state = "ERROR"]_vars

\* A blocking atolla_source_make returns, open or failed, even if the sink
\* never answers, once there is time for the disconnect timeout to run out.
MakeReturns ==
  \A s \in Sources :
    (/\ src[s].pc = "await"
     /\ MaxClock > src[s].first_borrow_time + Disconnect + blocking_make_refresh_interval)
      ~> src[s].pc = "idle" /\ src[s].state # "WAITING"
=============================================================================
