---------------------------- MODULE Room_proofs ----------------------------
(***************************************************************************)
(* The ring of the sink has room for every frame (RingHasRoom): as long as *)
(* the network loses, delays and repeats nothing, a source that paces its  *)
(* frames never fills the ring of a sink that shows them in time, so that  *)
(* the loop of sink_handle_enqueue ends.                                   *)
(*                                                                         *)
(* The argument sets the clock of the source against that of the sink.     *)
(* The source's begins with its first frame, the sink's in the ms after,   *)
(* when that frame arrives and is shown; from then on each of them counts  *)
(* one frame in frame_duration_ms.  What lies in the ring is the distance  *)
(* between the two, which is less than the buffer the source asked for.    *)
(***************************************************************************)
EXTENDS InStep_proofs

\* A frame lasts longer than the ms in which the clocks may differ
\* (frame_length_ms_min is 10), the numbers of a BORROW survive their byte,
\* and whoever is dropped for silence has no frame left in the ring.
Unhurried ==
  /\ Slots \in Nat /\ DropTimeout \in Nat
  /\ frame_duration_ms \in 2 .. ByteMod - 1
  /\ Buffered < ByteMod
  /\ (Buffered - 1) * frame_duration_ms < DropTimeout

-----------------------------------------------------------------------------
(* The invariant of a network without faults. *)

\* The sink has yet to see a BORROW of s.
Asks(s) == \E i \in 1 .. Len(Line(s)) : Line(s)[i].type = "BORROW"

\* A datagram arrives in the ms after the one it was sent in, and the sources
\* come first in every ms.
OnTime(s) ==
  /\ \A i \in 1 .. Len(to_sink[s]) :
       /\ to_sink[s][i].due \in {now, now + 1}
       /\ to_sink[s][i].msg.type = "BORROW" =>
            to_sink[s][i].due <= src[s].last_borrow_time + 1
  /\ \A i, j \in 1 .. Len(to_sink[s]) : i <= j => to_sink[s][i].due <= to_sink[s][j].due
  /\ \A i \in 1 .. Len(to_source[s]) :
       /\ to_source[s][i].due <= now + 1
       /\ turns # << >> => to_source[s][i].due <= now
  /\ src[s].last_borrow_time <= now

\* No time passes between the updates of atolla_source_put.
InCall(s) ==
  /\ src[s].pc \in {"put_state", "put_timeout"} => turns # << >> /\ Head(turns) = s
  /\ src[s].pc = "put_timeout" => Elapsed(src[s].last_recv_lent_time) < Disconnect
  /\ src[s].pc = "freed" => src[s].state = "ERROR"

\* A source asks once and waits for the answer; the sink that was lent to it
\* has sent it nothing but LENT, so that it does not fail within a put.
Granted(s) ==
  /\ Asks(s) => /\ Len(Line(s)) = 1
                /\ Young(src[s]) /\ src[s].pc # "unmade"
                /\ to_source[s] = << >>
  /\ LentTo(s) => /\ ~Asks(s)
                  /\ Waits(s) => to_source[s] # << >>
                  /\ \A i \in 1 .. Len(to_source[s]) : to_source[s][i].msg = Lent
                  /\ src[s].pc = "put_send" => src[s].state # "ERROR"

\* What pacing says of a source that had sent n frames at time t, ...
PacedAt(s, n, t) == (n - Buffered) * frame_duration_ms <= t - src[s].began

\* ... and of the frame with tag n that it sent then.
Sent(s, n, t) ==
  /\ n < src[s].frames
  /\ PacedAt(s, n + 1, t)
  /\ n = 0 => t = src[s].began

LinePaced(s) ==
  /\ \A i \in 1 .. Len(to_sink[s]) : to_sink[s][i].msg.type = "ENQUEUE" =>
       Sent(s, to_sink[s][i].msg.frame.tag, to_sink[s][i].due - 1)
  /\ \A i \in 1 .. Len(Taken(s)) : Taken(s)[i].type = "ENQUEUE" =>
       Sent(s, Taken(s)[i].frame.tag, now - 1)

\* The frames that may be in the ring although their turn has come: the one
\* that was received since the application last asked for a frame.
Held ==
  IF \/ pc = "idle" /\ served # {"state"}
     \/ pc = "iterate" /\ rx.msgs # << >>
     \/ pc = "enqueue" /\ Head(rx.msgs).frame.tag >= queued
  THEN 0 ELSE 1

\* When the application last asked for a frame, and when last_recv_time will
\* say that a datagram came.
Shown == IF pc = "idle" /\ served = {"state", "get"} THEN now ELSE now - 1
Heard == IF pc \in {"iterate", "enqueue"} THEN now ELSE last_recv_time

\* The sink's clock counts the frames of s from the arrival of the first.
Playing(s) ==
  /\ loan_frame_ms = frame_duration_ms /\ Buffered <= Slots
  /\ queued > 0 => queued <= src[s].frames /\ PacedAt(s, queued, Heard - 1)
  /\ time_origin = NULL_TIME =>
       /\ queued = Len(pending_frames)
       /\ queued <= Held
       /\ queued > 0 => now = src[s].began + 1
  /\ time_origin # NULL_TIME =>
       /\ time_origin <= now
       /\ queued > Len(pending_frames)
       /\ time_origin + Len(pending_frames) * frame_duration_ms
            = src[s].began + 1 + (queued - 1) * frame_duration_ms
       /\ Len(pending_frames) <= Held \/ Shown <= time_origin + frame_duration_ms

\* Where the sink stands in the ms, and an empty ring without a loan.
SinkTime ==
  /\ pc \in {"idle", "iterate", "enqueue", "send", "get"}
  /\ turns # << >> => pc = "idle" /\ served = {}
  /\ served \in {{}, {"state"}, {"state", "get"}}
  /\ pc \in {"iterate", "enqueue", "send"} => served = {"state"}
  /\ pc = "get" => /\ served = {"state", "get"} /\ state = "LENT"
                   /\ get_now = now /\ time_origin # NULL_TIME
  /\ time_origin \in Nat /\ last_recv_time \in Nat
  /\ pc \notin {"iterate", "enqueue"} => last_recv_time <= now
  /\ Len(pending_frames) <= Slots
  /\ state # "LENT" => pending_frames = << >>
  /\ state = "LENT" => borrower_endpoint \in Sources

\* No frame is shorter than one light.
Whole(s) ==
  \A i \in 1 .. Len(Line(s)) : Line(s)[i].type = "ENQUEUE" => ~Line(s)[i].short

CalmSource(s) ==
  /\ OnTime(s)
  /\ InCall(s)
  /\ Granted(s)
  /\ Whole(s)
  /\ LentTo(s) => LinePaced(s)

Calm ==
  /\ SinkTime
  /\ \A s \in Sources : CalmSource(s)
  /\ \A s \in Sources : LentTo(s) => Playing(s)

CalmInv == faults = 0 => Calm

-----------------------------------------------------------------------------
LEMMA Durations ==
  ASSUME Unhurried
  PROVE  /\ frame_duration_ms \in Nat /\ frame_duration_ms >= 2
         /\ frame_duration_ms % ByteMod = frame_duration_ms
         /\ Buffered \in Nat /\ Buffered >= 1
         /\ Buffered % ByteMod = Buffered
  <1>1. /\ frame_duration_ms \in Nat /\ frame_duration_ms >= 2
        /\ frame_duration_ms \in 0 .. ByteMod - 1
        /\ Buffered \in Nat /\ Buffered >= 1 /\ Buffered \in 0 .. ByteMod - 1
    BY SourceAssumption, Constants DEF Unhurried
  <1> QED BY <1>1, ModSmall, SourceAssumption

LEMMA Times ==
  ASSUME NEW m \in Int, NEW d \in Nat
  PROVE  /\ m * d \in Int
         /\ (m + 1) * d = m * d + d
         /\ (m - 1) * d = m * d - d
  OBVIOUS

\* The frame in hand while the ring is filled: the next one, or the one that
\* was just put.
LEMMA CalmHand ==
  ASSUME IInv, OneFault, faults = 0, pc = "enqueue", NEW s \in Sources, rx.from = s
  PROVE  /\ LentTo(s) /\ rx.msgs # << >>
         /\ queued \in Nat
         /\ \E t \in Nat : /\ Head(rx.msgs).frame = [by |-> s, tag |-> t]
                           /\ t = queued \/ t = queued - 1
                           /\ K!FrameDiff(Head(rx.msgs)) = t - queued + 1
  <1>1. /\ LentTo(s) /\ rx.msgs # << >> /\ Stream(s)
        /\ Line(s) \in Seq(FromSource(s)) /\ Line(s) # << >>
        /\ Line(s)[1] = Head(rx.msgs) /\ Line(s)[1].type = "ENQUEUE"
        /\ queued \in Nat
    BY Filling DEF IInv, RingOK
  <1>2. PICK t \in Nat : /\ Head(rx.msgs).frame = [by |-> s, tag |-> t]
                         /\ queued <= t + 1
                         /\ K!FrameDiff(Head(rx.msgs)) = t - queued + 1
    BY Filling
  <1>3. PICK o \in Orders, c \in Nat :
          Placed(s, 0, o, c) /\ Line(s)[1] = FrameMsg(s, Delivered(o, c))
    BY <1>1, LineHead
  <1>4. Head(rx.msgs).frame.tag = Delivered(o, c) /\ Filled(o, c) <= queued
    BY <1>3, Filling
  <1>5. o.kind = "kept"
    BY <1>3 DEF Placed
  <1>6. t <= queued
    BY <1>2, <1>4, <1>5 DEF Delivered, Filled
  <1> QED BY <1>1, <1>2, <1>6

\* The ring is never full when a frame is to enter it.
LEMMA HasPlace ==
  ASSUME Unhurried, NEW d, d = frame_duration_ms, NEW B, B = Buffered,
         NEW q \in Nat, NEW p \in Nat, NEW o \in Nat, NEW began \in Nat,
         NEW t \in Nat, p >= 1,
         o + p * d = began + 1 + (q - 1) * d,
         t - 1 <= o + d,
         ((q + 1) - B) * d <= t - 1 - began
  PROVE  p < B
  <1>1. d \in Nat /\ d >= 2 /\ B \in Nat
    BY Durations
  <1> DEFINE k == p + 1 - B
  <1>2. k \in Int /\ q - 1 \in Int /\ (q + 1) - B \in Int
    BY <1>1
  <1>3. ((q + 1) - B) * d = (q - 1) * d + 2 * d - B * d
    BY <1>1
  <1>4. k * d = p * d + d - B * d
    BY <1>1
  <1>5. p * d \in Int /\ (q - 1) * d \in Int /\ B * d \in Int /\ k * d \in Int
    BY <1>1, <1>2
  <1>6. k * d <= 1
    <2>1. (q - 1) * d + 2 * d - B * d <= o + d - began
      BY <1>1, <1>3, <1>5
    <2>2. (q - 1) * d = o + p * d - began - 1
      BY <1>5
    <2> HIDE DEF k
    <2> QED BY <1>1, <1>4, <1>5, <2>1, <2>2
  <1> HIDE DEF k
  <1>7. k >= 1 => k * d >= d
    BY <1>1, <1>2
  <1>8. k <= 0
    BY <1>1, <1>2, <1>5, <1>6, <1>7
  <1> QED BY <1>1, <1>8 DEF k

-----------------------------------------------------------------------------
(* What a step leaves as it was. *)

\* What the rest of the argument needs to know of the types.
LEMMA CalmTypes ==
  ASSUME IInv, PaceInv, NoWrap
  PROVE  /\ now \in Nat /\ now <= MaxClock /\ now < NULL_TIME
         /\ time_now = now /\ K!time_now = now
         /\ TypeOK /\ WireOK /\ HandOK /\ RingOK /\ SystemInv
         /\ DOMAIN to_sink = Sources /\ DOMAIN src = Sources
         /\ queued \in Nat /\ pending_frames \in Seq(K!Frames)
         /\ Len(pending_frames) \in Nat
         /\ \A s \in Sources :
              /\ src[s] \in Records /\ Sound(src[s]) /\ PaceOf(src[s], now)
              /\ SourceOK(s)
              /\ to_sink[s] \in Seq([msg : FromSource(s), due : Nat])
              /\ to_source[s] \in Seq([msg : FromSink, due : Nat])
              /\ Line(s) \in Seq(FromSource(s))
              /\ Taken(s) \in Seq(FromSource(s))
  <1>1. /\ TypeOK /\ WireOK /\ HandOK /\ RingOK /\ SystemInv
        /\ \A s \in Sources : SourceOK(s)
    BY DEF IInv, SystemInv
  <1>2. now \in Nat /\ now <= MaxClock
    BY <1>1 DEF TypeOK, PaceInv
  <1>3. time_now = now /\ now < NULL_TIME /\ K!time_now = time_now
    BY <1>2, ClockSmall, Constants, SourceAssumption DEF K!time_now, time_now
  <1>4. /\ queued \in Nat /\ pending_frames \in Seq(K!Frames)
        /\ Len(pending_frames) \in Nat
    BY <1>1, LenProperties DEF RingOK
  <1>5. ASSUME NEW s \in Sources
        PROVE  /\ src[s] \in Records /\ Sound(src[s]) /\ PaceOf(src[s], now)
               /\ to_source[s] \in Seq([msg : FromSink, due : Nat])
    BY <1>1 DEF TypeOK, Sound, PaceInv, WireOK, Queues
  <1> QED BY <1>1, <1>2, <1>3, <1>4, <1>5, LineTyped DEF TypeOK, WireOK

\* A source that nothing happened to.
LEMMA CalmSame ==
  ASSUME NEW s \in Sources, CalmSource(s), now' = now,
         to_sink'[s] = to_sink[s], to_source'[s] = to_source[s], src'[s] = src[s],
         Line(s)' = Line(s), Taken(s)' = Taken(s), LentTo(s)' => LentTo(s),
         turns' # << >> => turns # << >>,
         src[s].pc \in {"put_state", "put_timeout"} => turns' = turns
  PROVE  CalmSource(s)'
  <1>1. OnTime(s)'
    BY DEF CalmSource, OnTime
  <1>2. InCall(s)'
    BY DEF CalmSource, InCall, Elapsed, time_now
  <1>3. Granted(s)'
    BY DEF CalmSource, Granted, Asks, Waits
  <1>4. Whole(s)'
    BY DEF CalmSource, Whole
  <1>5. LentTo(s)' => LinePaced(s)'
    BY DEF CalmSource, LinePaced, Sent, PacedAt
  <1> QED BY <1>1, <1>2, <1>3, <1>4, <1>5 DEF CalmSource

\* A queue that loses its first element.
LEMMA TailFacts ==
  ASSUME NEW S, NEW q \in Seq(S), q # << >>
  PROVE  /\ Len(q) \in Nat /\ 1 \in 1 .. Len(q) /\ Head(q) = q[1]
         /\ Len(Tail(q)) = Len(q) - 1
         /\ \A i \in 1 .. Len(Tail(q)) : i + 1 \in 1 .. Len(q) /\ Tail(q)[i] = q[i + 1]
  <1>1. Len(q) \in Nat \ {0}
    BY EmptySeq
  <1>2. /\ Head(q) = q[1] /\ Len(Tail(q)) = Len(q) - 1
        /\ \A i \in 1 .. Len(Tail(q)) : Tail(q)[i] = q[i + 1]
    BY HeadTailProperties
  <1> QED BY <1>1, <1>2

\* A queue that gains one.
LEMMA SentFacts ==
  ASSUME NEW P, NEW q \in Seq(P), NEW m, InFlight(m) \in P,
         NEW a, a = Append(q, InFlight(m))
  PROVE  /\ Len(q) \in Nat
         /\ Len(a) = Len(q) + 1
         /\ a # << >>
         /\ \A i \in 1 .. Len(a) :
              \/ i \in 1 .. Len(q) /\ a[i] = q[i]
              \/ i = Len(q) + 1 /\ a[i].msg = m /\ a[i].due = now + 1
  <1>1. InFlight(m).msg = m /\ InFlight(m).due = now + 1
    BY DEF InFlight
  <1>2. Len(q) \in Nat
    BY LenProperties
  <1>3. /\ a \in Seq(P) /\ Len(a) = Len(q) + 1
        /\ a[Len(q) + 1] = InFlight(m) /\ \A i \in 1 .. Len(q) : a[i] = q[i]
    BY <1>1, AppendProperties
  <1>4. a # << >>
    BY <1>2, <1>3, EmptySeq
  <1>5. \A i \in 1 .. Len(q) + 1 : i \in 1 .. Len(q) \/ i = Len(q) + 1
    BY <1>2
  <1> QED BY <1>1, <1>2, <1>3, <1>4, <1>5

\* A step of the sink, or of the clock, in which at most a datagram leaves the
\* queue or the hand and another is sent, keeps the queues of s in order, ...
LEMMA OnTimeKept ==
  ASSUME now \in Nat, NEW s \in Sources, OnTime(s), UNCHANGED <<now, src>>,
         turns' = << >>,
         NEW S, to_sink[s] \in Seq([msg : S, due : Nat]),
         to_sink'[s] = to_sink[s]
           \/ (to_sink[s] # << >> /\ to_sink'[s] = Tail(to_sink[s])),
         NEW T, to_source[s] \in Seq([msg : T, due : Nat]),
         to_source'[s] = to_source[s]
           \/ \E m \in T : to_source'[s] = Append(to_source[s], InFlight(m))
  PROVE  OnTime(s)'
  <1> DEFINE q == to_sink[s]
             w == to_source[s]
  <1>1. /\ \A i \in 1 .. Len(to_sink'[s]) :
             /\ to_sink'[s][i].due \in {now, now + 1}
             /\ to_sink'[s][i].msg.type = "BORROW" =>
                  to_sink'[s][i].due <= src[s].last_borrow_time + 1
        /\ \A i, j \in 1 .. Len(to_sink'[s]) :
             i <= j => to_sink'[s][i].due <= to_sink'[s][j].due
    <2>1. CASE to_sink'[s] = q
      BY <2>1 DEF OnTime
    <2>2. CASE q # << >> /\ to_sink'[s] = Tail(q)
      <3> HIDE DEF q
      <3>1. \A i \in 1 .. Len(Tail(q)) : i + 1 \in 1 .. Len(q) /\ Tail(q)[i] = q[i + 1]
        BY <2>2, TailFacts DEF q
      <3>2. \A i, j \in 1 .. Len(Tail(q)) : i <= j => i + 1 <= j + 1
        OBVIOUS
      <3> QED BY <2>2, <3>1, <3>2 DEF OnTime, q
    <2> QED BY <2>1, <2>2
  <1>2. \A i \in 1 .. Len(to_source'[s]) : to_source'[s][i].due <= now + 1
    <2>1. CASE to_source'[s] = w
      BY <2>1 DEF OnTime
    <2>2. ASSUME NEW m \in T, to_source'[s] = Append(w, InFlight(m))
          PROVE  \A i \in 1 .. Len(to_source'[s]) : to_source'[s][i].due <= now + 1
      <3>1. \A i \in 1 .. Len(w) : w[i].due <= now + 1
        BY DEF OnTime
      <3> DEFINE v == to_source'[s]
      <3>2. \A i \in 1 .. Len(v) : (i \in 1 .. Len(w) /\ v[i] = w[i]) \/ v[i].due = now + 1
        <4> DEFINE P == [msg : T, due : Nat]
        <4>1. v = Append(w, InFlight(m)) /\ w \in Seq(P) /\ InFlight(m) \in P
          BY <2>2 DEF InFlight
        <4> HIDE DEF v, w, P
        <4>2. /\ v # << >>
              /\ \A i \in 1 .. Len(v) :
                   \/ i \in 1 .. Len(w) /\ v[i] = w[i]
                   \/ i = Len(w) + 1 /\ v[i].msg = m /\ v[i].due = now + 1
          BY <4>1, SentFacts
        <4> QED BY <4>2
      <3> HIDE DEF v, w
      <3>3. \A i \in 1 .. Len(v) : v[i].due <= now + 1
        BY <3>1, <3>2
      <3> QED BY <3>3 DEF v
    <2> QED BY <2>1, <2>2
  <1> QED BY <1>1, <1>2 DEF OnTime

\* Nobody asks anew, ...
LEMMA AsksLess ==
  ASSUME NEW s \in Sources, Granted(s), NEW S, Line(s) \in Seq(S),
         Line(s)' = Line(s) \/ (Line(s) # << >> /\ Line(s)' = Tail(Line(s)))
  PROVE  Asks(s)' => Asks(s) /\ Line(s)' = Line(s)
  <1>1. CASE Line(s)' = Line(s)
    BY <1>1 DEF Asks
  <1>2. CASE Line(s) # << >> /\ Line(s)' = Tail(Line(s))
    <2> DEFINE q == Line(s)
    <2>1. /\ Len(q) \in Nat /\ Len(Tail(q)) = Len(q) - 1
          /\ \A i \in 1 .. Len(Tail(q)) : i + 1 \in 1 .. Len(q) /\ Tail(q)[i] = q[i + 1]
      BY <1>2, TailFacts
    <2>2. Asks(s)' => Asks(s) /\ \E i \in 1 .. Len(Tail(q)) : TRUE
      <3>1. Asks(s)' <=> \E i \in 1 .. Len(Tail(q)) : Tail(q)[i].type = "BORROW"
        BY <1>2 DEF Asks
      <3>2. Asks(s) <=> \E i \in 1 .. Len(q) : q[i].type = "BORROW"
        BY DEF Asks
      <3> HIDE DEF q
      <3> QED BY <2>1, <3>1, <3>2
    <2>3. Asks(s) => Len(q) = 1
      BY DEF Granted
    <2>4. Len(q) = 1 => Len(Tail(q)) = 0
      BY <2>1
    <2>5. Asks(s)' => Asks(s) /\ Len(Tail(q)) = 0
      BY <2>2, <2>3, <2>4
    <2>6. \A i \in 1 .. 0 : FALSE
      OBVIOUS
    <2>7. ~Asks(s)'
      BY <2>2, <2>5, <2>6
    <2> QED BY <2>7
  <1> QED BY <1>1, <1>2

\* ... and what it was granted, ...
LEMMA GrantedKept ==
  ASSUME now \in Nat, NEW s \in Sources, Granted(s), UNCHANGED src,
         NEW S, Line(s) \in Seq(S),
         Line(s)' = Line(s) \/ (Line(s) # << >> /\ Line(s)' = Tail(Line(s))),
         NEW T, to_source[s] \in Seq([msg : T, due : Nat]),
         \/ to_source'[s] = to_source[s]
         \/ \E m \in T : /\ to_source'[s] = Append(to_source[s], InFlight(m))
                         /\ LentTo(s)' => m = Lent
                         /\ ~Asks(s)',
         LentTo(s)' => LentTo(s)
  PROVE  Granted(s)'
  <1> DEFINE w == to_source[s]
  <1>1. Asks(s)' => Asks(s) /\ Line(s)' = Line(s)
    BY AsksLess
  <1>2. Asks(s)' => /\ Len(Line(s)') = 1
                    /\ Young(src[s]) /\ src[s].pc # "unmade"
                    /\ to_source'[s] = << >>
    BY <1>1 DEF Granted
  <1>3. LentTo(s)' => /\ Waits(s) => to_source'[s] # << >>
                      /\ \A i \in 1 .. Len(to_source'[s]) : to_source'[s][i].msg = Lent
    <2>1. CASE to_source'[s] = w
      BY <2>1 DEF Granted
    <2>2. ASSUME NEW m \in T, to_source'[s] = Append(w, InFlight(m)),
                 LentTo(s)', m = Lent
          PROVE  /\ to_source'[s] # << >>
                 /\ \A i \in 1 .. Len(to_source'[s]) : to_source'[s][i].msg = Lent
      <3>1. \A i \in 1 .. Len(w) : w[i].msg = Lent
        BY <2>2 DEF Granted
      <3> DEFINE v == to_source'[s]
      <3>2. /\ v # << >>
            /\ \A i \in 1 .. Len(v) : (i \in 1 .. Len(w) /\ v[i] = w[i]) \/ v[i].msg = m
        <4> DEFINE P == [msg : T, due : Nat]
        <4>1. v = Append(w, InFlight(m)) /\ w \in Seq(P) /\ InFlight(m) \in P
          BY <2>2 DEF InFlight
        <4> HIDE DEF v, w, P
        <4>2. /\ v # << >>
              /\ \A i \in 1 .. Len(v) :
                   \/ i \in 1 .. Len(w) /\ v[i] = w[i]
                   \/ i = Len(w) + 1 /\ v[i].msg = m /\ v[i].due = now + 1
          BY <4>1, SentFacts
        <4> QED BY <4>2
      <3> HIDE DEF v, w
      <3>3. \A i \in 1 .. Len(v) : v[i].msg = Lent
        BY <2>2, <3>1, <3>2
      <3> QED BY <3>2, <3>3 DEF v
    <2> QED BY <2>1, <2>2
  <1>4. Waits(s)' <=> Waits(s)
    BY DEF Waits
  <1>5. LentTo(s)' => ~Asks(s)' /\ (src'[s].pc = "put_send" => src'[s].state # "ERROR")
    BY <1>1 DEF Granted
  <1> QED BY <1>2, <1>3, <1>4, <1>5 DEF Granted

\* ... and its frames whole ...
LEMMA WholeKept ==
  ASSUME NEW s \in Sources, Whole(s), NEW S, Line(s) \in Seq(S),
         Line(s)' = Line(s) \/ (Line(s) # << >> /\ Line(s)' = Tail(Line(s)))
  PROVE  Whole(s)'
  <1>1. CASE Line(s)' = Line(s)
    BY <1>1 DEF Whole
  <1>2. CASE Line(s) # << >> /\ Line(s)' = Tail(Line(s))
    <2> DEFINE q == Line(s)
    <2>1. \A i \in 1 .. Len(Tail(q)) : i + 1 \in 1 .. Len(q) /\ Tail(q)[i] = q[i + 1]
      BY <1>2, TailFacts
    <2>2. \A i \in 1 .. Len(q) : q[i].type = "ENQUEUE" => ~q[i].short
      BY DEF Whole
    <2> HIDE DEF q
    <2>3. \A i \in 1 .. Len(Tail(q)) : Tail(q)[i].type = "ENQUEUE" => ~Tail(q)[i].short
      BY <2>1, <2>2
    <2> QED BY <1>2, <2>3 DEF Whole, q
  <1> QED BY <1>1, <1>2

\* ... and paced.
LEMMA PacedKept ==
  ASSUME NEW s \in Sources, LinePaced(s), UNCHANGED <<now, src>>,
         NEW S, to_sink[s] \in Seq([msg : S, due : Nat]),
         to_sink'[s] = to_sink[s]
           \/ (to_sink[s] # << >> /\ to_sink'[s] = Tail(to_sink[s])),
         \A i \in 1 .. Len(Taken(s)') : Taken(s)'[i].type = "ENQUEUE" =>
           Sent(s, Taken(s)'[i].frame.tag, now - 1)
  PROVE  LinePaced(s)'
  <1> DEFINE q == to_sink[s]
             Fine(p) == p.msg.type = "ENQUEUE" => Sent(s, p.msg.frame.tag, p.due - 1)
  <1>1. \A i \in 1 .. Len(q) : Fine(q[i])
    BY DEF LinePaced
  <1>2. \A i \in 1 .. Len(to_sink'[s]) : Fine(to_sink'[s][i])
    <2>1. CASE to_sink'[s] = q
      BY <1>1, <2>1
    <2>2. CASE q # << >> /\ to_sink'[s] = Tail(q)
      <3> HIDE DEF q, Fine
      <3>1. \A i \in 1 .. Len(Tail(q)) : i + 1 \in 1 .. Len(q) /\ Tail(q)[i] = q[i + 1]
        BY <2>2, TailFacts DEF q
      <3> QED BY <1>1, <2>2, <3>1
    <2> QED BY <2>1, <2>2
  <1> QED BY <1>2 DEF LinePaced, Sent, PacedAt

\* A step of the sink that gives no loan, as a source sees it.
LEMMA CalmAside ==
  ASSUME IInv, PaceInv, NoWrap, NEW s \in Sources, CalmSource(s),
         UNCHANGED <<now, src>>, turns = << >>, turns' = << >>,
         to_sink'[s] = to_sink[s]
           \/ (to_sink[s] # << >> /\ to_sink'[s] = Tail(to_sink[s])),
         Line(s)' = Line(s) \/ (Line(s) # << >> /\ Line(s)' = Tail(Line(s))),
         \/ to_source'[s] = to_source[s]
         \/ \E m \in FromSink : /\ to_source'[s] = Append(to_source[s], InFlight(m))
                                /\ LentTo(s)' => m = Lent
                                /\ ~Asks(s)',
         LentTo(s)' => LentTo(s),
         LentTo(s)' => \A i \in 1 .. Len(Taken(s)') : Taken(s)'[i].type = "ENQUEUE" =>
                         Sent(s, Taken(s)'[i].frame.tag, now - 1)
  PROVE  CalmSource(s)'
  <1>1. /\ now \in Nat /\ Line(s) \in Seq(FromSource(s))
        /\ to_sink[s] \in Seq([msg : FromSource(s), due : Nat])
        /\ to_source[s] \in Seq([msg : FromSink, due : Nat])
    BY CalmTypes
  <1>2. /\ OnTime(s) /\ InCall(s) /\ Granted(s) /\ Whole(s)
        /\ LentTo(s) => LinePaced(s)
    BY DEF CalmSource
  <1>3. OnTime(s)'
    <2>1. \/ to_source'[s] = to_source[s]
          \/ \E m \in FromSink : to_source'[s] = Append(to_source[s], InFlight(m))
      OBVIOUS
    <2> QED BY <1>1, <1>2, <2>1, OnTimeKept
  <1>4. InCall(s)'
    BY <1>2 DEF InCall
  <1>5. Granted(s)'
    BY <1>1, <1>2, GrantedKept
  <1>6. Whole(s)'
    BY <1>1, <1>2, WholeKept
  <1>7. LentTo(s)' => LinePaced(s)'
    BY <1>1, <1>2, PacedKept
  <1> QED BY <1>3, <1>4, <1>5, <1>6, <1>7 DEF CalmSource

\* A step that adds nothing to the ring and shows nothing.
LEMMA PlayingOn ==
  ASSUME Unhurried, now \in Nat, last_recv_time \in Nat, last_recv_time' \in Nat,
         queued \in Nat, time_origin \in Nat, Len(pending_frames) \in Nat,
         NEW s \in Sources, Playing(s), src[s].frames \in Nat, src[s].began \in Nat,
         UNCHANGED <<now, loan_frame_ms, queued, time_origin, pending_frames>>,
         src'[s].frames \in Nat, src'[s].frames >= src[s].frames,
         src[s].frames > 0 => src'[s].began = src[s].began,
         Held <= Held', Shown' <= Shown, Heard <= Heard'
  PROVE  Playing(s)'
  <1> DEFINE f == src[s].frames
             b == src[s].began
             p == Len(pending_frames)
             X == (queued - Buffered) * frame_duration_ms
  <1>1. X \in Int /\ frame_duration_ms \in Nat
    BY Durations
  <1>2. /\ Held \in {0, 1} /\ Held' \in {0, 1}
        /\ Shown \in Int /\ Shown' \in Int /\ Heard \in Int /\ Heard' \in Int
    BY DEF Held, Shown, Heard
  <1>3. /\ loan_frame_ms = frame_duration_ms /\ Buffered <= Slots
        /\ queued > 0 => queued <= f /\ X <= Heard - 1 - b
        /\ time_origin = NULL_TIME =>
             /\ queued = p /\ queued <= Held
             /\ queued > 0 => now = b + 1
        /\ time_origin # NULL_TIME =>
             /\ time_origin <= now /\ queued > p
             /\ time_origin + p * frame_duration_ms
                  = b + 1 + (queued - 1) * frame_duration_ms
             /\ p <= Held \/ Shown <= time_origin + frame_duration_ms
    BY DEF Playing, PacedAt
  <1>4. queued > 0 => src'[s].began = b /\ queued <= src'[s].frames
    BY <1>3
  <1>5. queued > 0 => X <= Heard' - 1 - src'[s].began
    <2> HIDE DEF X
    <2> QED BY <1>1, <1>2, <1>3, <1>4
  <1>6. time_origin = NULL_TIME => queued <= Held'
    BY <1>2, <1>3
  <1>7. time_origin # NULL_TIME => p <= Held' \/ Shown' <= time_origin + frame_duration_ms
    <2> HIDE DEF p, f, b, X
    <2> DEFINE e == time_origin + frame_duration_ms
    <2>1. e \in Nat /\ p \in Nat
      BY <1>1 DEF p
    <2>2. time_origin # NULL_TIME => p <= Held \/ Shown <= e
      BY <1>3
    <2> HIDE DEF e
    <2>3. /\ p <= Held => p <= Held'
          /\ Shown <= e => Shown' <= e
      BY <1>2, <2>1
    <2> QED BY <2>2, <2>3 DEF e
  <1>8. time_origin # NULL_TIME => queued > 0
    BY <1>3
  <1> QED BY <1>3, <1>4, <1>5, <1>6, <1>7, <1>8 DEF Playing, PacedAt

-----------------------------------------------------------------------------
\* What the source had sent when it sent the frame in hand.
LEMMA HandSent ==
  ASSUME NoWrap, OneFault, IInv, PaceInv, Calm, pc \in {"iterate", "enqueue"},
         rx.msgs # << >>, Head(rx.msgs).type = "ENQUEUE",
         NEW s \in Sources, rx.from = s, LentTo(s)
  PROVE  Sent(s, Head(rx.msgs).frame.tag, now - 1)
  <1>1. WireOK /\ HandOK
    BY CalmTypes
  <1>2. rx.msgs = <<Head(rx.msgs)>> /\ Taken(s) = rx.msgs
    BY <1>1, LineInHand DEF Taken
  <1>3. Len(Taken(s)) = 1 /\ Taken(s)[1] = Head(rx.msgs)
    <2> DEFINE m == Head(rx.msgs)
    <2>1. Taken(s) = <<m>>
      BY <1>2
    <2> HIDE DEF m
    <2>2. Len(<<m>>) = 1 /\ <<m>>[1] = m
      OBVIOUS
    <2> QED BY <2>1, <2>2 DEF m
  <1>4. LinePaced(s)
    BY DEF Calm, CalmSource
  <1>5. 1 \in 1 .. Len(Taken(s))
    BY <1>3
  <1> QED BY <1>3, <1>4, <1>5 DEF LinePaced

\* Where the invariant holds the ring has room.
LEMMA RoomMeans ==
  ASSUME NoWrap, Unhurried, OneFault, IInv, PaceInv, CalmInv
  PROVE  RingHasRoom
  <1> SUFFICES ASSUME faults = 0, pc = "enqueue"
               PROVE  K!FrameDiff(Head(rx.msgs)) <= Slots - Len(pending_frames)
    BY DEF RingHasRoom, K!Room
  <1> DEFINE m == Head(rx.msgs)
             p == Len(pending_frames)
             d == frame_duration_ms
  <1>0. Calm /\ HandOK /\ queued \in Nat /\ p \in Nat /\ now \in Nat
    BY CalmTypes DEF CalmInv
  <1>1. PICK s \in Sources : rx.from = s
    BY <1>0, HandFacts DEF HandOK
  <1>2. /\ LentTo(s) /\ rx.msgs # << >> /\ m.type = "ENQUEUE"
        /\ src[s].began \in Nat
    BY <1>0, <1>1, CalmHand, CalmTypes DEF HandOK, Records
  <1>3. PICK t \in Nat : /\ m.frame.tag = t
                         /\ t = queued \/ t = queued - 1
                         /\ K!FrameDiff(m) = t - queued + 1
    <2>1. \A t \in Nat : [by |-> s, tag |-> t].tag = t
      OBVIOUS
    <2> QED BY <1>1, <2>1, CalmHand
  <1>4. /\ Playing(s) /\ p <= Slots /\ time_origin \in Nat
        /\ Sent(s, t, now - 1)
    BY <1>0, <1>1, <1>2, <1>3, HandSent DEF Calm, SinkTime
  <1> HIDE DEF m
  <1>5. CASE t = queued - 1
    BY <1>0, <1>3, <1>4, <1>5 DEF m, Unhurried
  <1>6. CASE t = queued
    <2>1. Held = 0 /\ Shown = now - 1
      BY <1>0, <1>3, <1>6 DEF Held, Shown, m
    <2>2. Buffered \in Nat /\ Buffered >= 1 /\ Buffered <= Slots /\ d \in Nat
      BY <1>4, Durations DEF Playing
    <2>3. p < Slots
      <3>1. CASE p <= 0
        BY <1>0, <1>4, <2>2, <3>1 DEF Unhurried
      <3>2. CASE p > 0
        <4>1. /\ time_origin # NULL_TIME
              /\ time_origin + p * d = src[s].began + 1 + (queued - 1) * d
              /\ now - 1 <= time_origin + d
          BY <1>0, <1>4, <2>1, <3>2 DEF Playing
        <4>2. ((queued + 1) - Buffered) * d <= now - 1 - src[s].began
          <5>1. PacedAt(s, queued + 1, now - 1)
            BY <1>4, <1>6 DEF Sent
          <5> QED BY <5>1 DEF PacedAt
        <4>3. p < Buffered
          <5> HIDE DEF p, d
          <5>1. p \in Nat /\ p >= 1 /\ time_origin \in Nat
            BY <1>0, <1>4, <3>2
          <5> QED BY <1>0, <1>2, <4>1, <4>2, <5>1, HasPlace DEF d
        <4> QED BY <1>0, <2>2, <4>3 DEF Unhurried
      <3> QED BY <1>0, <3>1, <3>2
    <2> QED BY <1>0, <1>3, <1>6, <2>3 DEF m, Unhurried
  <1> QED BY <1>3, <1>5, <1>6 DEF m

-----------------------------------------------------------------------------
(* The steps of the sink. *)

\* A datagram of the sink goes to whom it is sent to.
LEMMA SinkSpoken ==
  ASSUME WireOK, SinkSends, NEW s \in Sources
  PROVE  \/ to_source'[s] = to_source[s]
         \/ /\ out' # None /\ out'.to = s
            /\ to_source'[s] = Append(to_source[s], InFlight(out'.msg))
  <1>1. s \in DOMAIN to_source
    BY DEF WireOK
  <1>2. CASE to_source' = to_source
    BY <1>2
  <1>3. CASE /\ out' # None
             /\ to_source' = [to_source EXCEPT ![out'.to] = Append(@, InFlight(out'.msg))]
    BY <1>1, <1>3
  <1> QED BY <1>2, <1>3 DEF SinkSends

LEMMA CalmReceives ==
  ASSUME NoWrap, Unhurried, IInv, PaceInv, Calm, queued' = queued,
         NEW r \in Sources, SinkReceives(r)
  PROVE  Calm'
  <1>1. /\ turns = << >> /\ turns' = << >> /\ served # {"state"} /\ served' = {"state"}
        /\ to_sink[r] # << >> /\ Head(to_sink[r]).due <= now
        /\ pc = "idle" /\ pc' = "iterate" /\ rx' = [from |-> r, msgs |-> <<Head(to_sink[r]).msg>>]
        /\ to_sink' = [to_sink EXCEPT ![r] = Tail(@)]
        /\ UNCHANGED <<src, now, to_source, state, borrower_endpoint, loan_frame_ms,
                       time_origin, last_recv_time, pending_frames>>
    BY DEF SinkReceives, SinkRuns, Arrived, K!sink_receive, K!loan, K!timers, K!playing
  <1>2. /\ now \in Nat /\ WireOK /\ HandOK /\ queued \in Nat /\ Len(pending_frames) \in Nat
        /\ to_sink[r] \in Seq([msg : FromSource(r), due : Nat])
    BY CalmTypes
  <1>3. SinkTime
    BY DEF Calm
  <1>4. SinkTime'
    BY <1>1, <1>3 DEF SinkTime
  <1>5. \A s \in Sources :
          /\ Line(s)' = Line(s)
          /\ to_sink'[s] = to_sink[s]
               \/ (to_sink[s] # << >> /\ to_sink'[s] = Tail(to_sink[s]))
    BY <1>1, <1>2, LineReceived
  <1>6. ASSUME NEW s \in Sources PROVE CalmSource(s)'
    <2>1. CalmSource(s) /\ (LentTo(s)' => LentTo(s))
      BY <1>1 DEF Calm, LentTo
    <2>2. ASSUME s # r PROVE Taken(s)' = << >>
      BY <1>1, <2>2 DEF Taken
    <2>3. ASSUME s = r, LentTo(s), NEW i \in 1 .. Len(Taken(s)'),
                 Taken(s)'[i].type = "ENQUEUE"
          PROVE  Sent(s, Taken(s)'[i].frame.tag, now - 1)
      <3> DEFINE q == to_sink[r]
                 m == Head(q).msg
      <3>1. /\ q # << >> /\ q \in Seq([msg : FromSource(r), due : Nat])
            /\ Head(q).due <= now /\ Taken(s)' = <<m>>
        BY <1>1, <1>2, <2>3 DEF Taken
      <3> HIDE DEF q
      <3>2. 1 \in 1 .. Len(q) /\ Head(q) = q[1]
        BY <3>1, TailFacts
      <3>3. q[1].due = now
        <4>1. q[1].due \in {now, now + 1}
          BY <2>1, <2>3, <3>2 DEF CalmSource, OnTime, q
        <4> QED BY <1>2, <3>1, <3>2, <4>1
      <3> HIDE DEF m
      <3>4. i = 1 /\ Taken(s)'[i] = m
        <4>1. Len(<<m>>) = 1 /\ <<m>>[1] = m
          OBVIOUS
        <4>2. i \in 1 .. Len(<<m>>)
          BY <2>3, <3>1
        <4>3. i = 1
          BY <4>1, <4>2
        <4> QED BY <3>1, <4>1, <4>3
      <3>5. q[1].msg.type = "ENQUEUE" /\ q[1].msg = Taken(s)'[i]
        BY <2>3, <3>2, <3>4 DEF m
      <3>6. Sent(s, q[1].msg.frame.tag, q[1].due - 1)
        BY <2>1, <2>3, <3>2, <3>5 DEF CalmSource, LinePaced, q
      <3> QED BY <3>3, <3>5, <3>6
    <2>4. LentTo(s)' => \A i \in 1 .. Len(Taken(s)') : Taken(s)'[i].type = "ENQUEUE" =>
                          Sent(s, Taken(s)'[i].frame.tag, now - 1)
      <3>1. CASE s = r
        BY <2>1, <2>3, <3>1
      <3>2. CASE s # r
        <4>1. \A i \in 1 .. Len(<< >>) : FALSE
          OBVIOUS
        <4> QED BY <2>2, <3>2, <4>1
      <3> QED BY <3>1, <3>2
    <2> QED BY <1>1, <1>5, <2>1, <2>4, CalmAside
  <1>7. ASSUME NEW s \in Sources, LentTo(s)' PROVE Playing(s)'
    <2>1. LentTo(s) /\ Playing(s) /\ src[s].frames \in Nat /\ src[s].began \in Nat
      BY <1>1, <1>7, CalmTypes DEF Calm, LentTo, Records
    <2>2. Held = 0 /\ Held' = 0
      <3>1. rx'.msgs # << >>
        <4> DEFINE m == Head(to_sink[r]).msg
        <4>1. rx'.msgs = <<m>>
          BY <1>1
        <4> QED BY <4>1
      <3> QED BY <1>1, <3>1 DEF Held
    <2>3. Shown' <= Shown /\ Heard <= Heard'
      BY <1>1, <1>2, <1>3 DEF Shown, Heard, SinkTime
    <2>4. time_origin \in Nat /\ last_recv_time \in Nat /\ last_recv_time' \in Nat
      BY <1>1, <1>3 DEF SinkTime
    <2>5. src'[s] = src[s] /\ src'[s].frames >= src[s].frames
      BY <1>1, <2>1
    <2>6. Held <= Held'
      BY <2>2
    <2> QED BY <1>1, <1>2, <2>1, <2>3, <2>4, <2>5, <2>6, PlayingOn
  <1> QED BY <1>4, <1>6, <1>7 DEF Calm

\* A step of the sink that takes nothing from the network and gives no loan.
LEMMA CalmQuiet ==
  ASSUME IInv, PaceInv, NoWrap, NEW s \in Sources, CalmSource(s),
         UNCHANGED <<now, src, to_sink>>, turns = << >>, turns' = << >>,
         Line(s)' = Line(s) \/ (Line(s) # << >> /\ Line(s)' = Tail(Line(s))),
         Taken(s)' = Taken(s) \/ Taken(s)' = << >>,
         to_source' = to_source \/ SinkSends,
         out' = None \/ out'.msg \in FromSink,
         out' # None /\ out'.to = s => ~Asks(s)' /\ (LentTo(s)' => out'.msg = Lent),
         LentTo(s)' => LentTo(s)
  PROVE  CalmSource(s)'
  <1>1. \/ to_source'[s] = to_source[s]
        \/ \E m \in FromSink : /\ to_source'[s] = Append(to_source[s], InFlight(m))
                               /\ LentTo(s)' => m = Lent
                               /\ ~Asks(s)'
    <2>1. CASE to_source' = to_source
      BY <2>1
    <2>2. CASE SinkSends
      <3>1. WireOK
        BY CalmTypes
      <3> QED BY <2>2, <3>1, SinkSpoken
    <2> QED BY <2>1, <2>2
  <1>2. LentTo(s)' => \A i \in 1 .. Len(Taken(s)') : Taken(s)'[i].type = "ENQUEUE" =>
                        Sent(s, Taken(s)'[i].frame.tag, now - 1)
    <2>1. CASE Taken(s)' = Taken(s)
      BY <2>1 DEF CalmSource, LinePaced
    <2>2. CASE Taken(s)' = << >>
      <3>1. \A i \in 1 .. Len(<< >>) : FALSE
        OBVIOUS
      <3> QED BY <2>2, <3>1
    <2> QED BY <2>1, <2>2
  <1>3. to_sink'[s] = to_sink[s]
    OBVIOUS
  <1> QED BY <1>1, <1>2, <1>3, CalmAside

\* Whoever is dropped for silence has no frame left in the ring.
LEMMA DropsEmpty ==
  ASSUME Unhurried, NEW d, d = frame_duration_ms, NEW B, B = Buffered,
         NEW q \in Nat, NEW p \in Nat, NEW o \in Nat, NEW began \in Nat,
         NEW t \in Nat, NEW h \in Nat, p >= 1,
         o + p * d = began + 1 + (q - 1) * d,
         t - 1 <= o + d,
         (q - B) * d <= h - 1 - began
  PROVE  t - h <= DropTimeout
  <1>1. d \in Nat /\ d >= 2 /\ B \in Nat /\ B >= 1 /\ DropTimeout \in Nat
    BY Durations DEF Unhurried
  <1>2. (B - 1) * d < DropTimeout
    BY DEF Unhurried
  <1>3. /\ (q - 1) * d = q * d - d
        /\ (q - B) * d = q * d - B * d
        /\ (B - 1) * d = B * d - d
    BY <1>1
  <1>4. p * d >= d
    BY <1>1
  <1> DEFINE a == q * d
             b == B * d
             c == p * d
  <1>5. a \in Int /\ b \in Int /\ c \in Int
    BY <1>1
  <1>6. /\ b - d < DropTimeout /\ c >= d
        /\ o + c = began + 1 + (a - d)
        /\ a - b <= h - 1 - began
    BY <1>2, <1>3, <1>4
  <1> HIDE DEF a, b, c
  <1> QED BY <1>1, <1>5, <1>6

\* The ring is empty once the sink has waited for so long.
LEMMA SilentEmpty ==
  ASSUME NoWrap, Unhurried, IInv, PaceInv, Calm, pc = "idle", served # {"state"},
         NEW s \in Sources, LentTo(s), K!Elapsed(last_recv_time) > DropTimeout
  PROVE  pending_frames = << >>
  <1> DEFINE p == Len(pending_frames)
             d == frame_duration_ms
  <1>1. /\ now \in Nat /\ queued \in Nat /\ p \in Nat /\ pending_frames \in Seq(K!Frames)
        /\ now <= MaxClock /\ K!time_now = now /\ src[s].began \in Nat
    BY CalmTypes DEF Records
  <1>2. /\ SinkTime /\ Playing(s) /\ time_origin \in Nat
        /\ last_recv_time \in Nat /\ last_recv_time <= now
    BY DEF Calm, SinkTime
  <1>3. K!Elapsed(last_recv_time) = now - last_recv_time
    <2>1. Elapsed(last_recv_time) = now - last_recv_time /\ time_now = now
      BY <1>1, <1>2, ElapsedSmall, ClockSmall
    <2> QED BY <1>1, <2>1 DEF K!Elapsed, Elapsed
  <1>4. Held = 0 /\ Shown \in {now, now - 1} /\ Heard = last_recv_time
    BY DEF Held, Shown, Heard
  <1>5. ASSUME p >= 1 PROVE FALSE
    <2>1. /\ time_origin # NULL_TIME /\ queued > p
          /\ time_origin + p * d = src[s].began + 1 + (queued - 1) * d
          /\ Shown <= time_origin + d
      BY <1>1, <1>2, <1>4, <1>5 DEF Playing
    <2>2. (queued - Buffered) * d <= last_recv_time - 1 - src[s].began
      BY <1>1, <1>2, <1>4, <2>1 DEF Playing, PacedAt
    <2> HIDE DEF p, d
    <2>3. now - 1 <= time_origin + d
      <3>1. d \in Nat
        BY Durations DEF d
      <3> DEFINE e == time_origin + d
      <3>2. e \in Int /\ Shown <= e
        BY <1>2, <2>1, <3>1
      <3> HIDE DEF e
      <3>3. now - 1 <= e
        BY <1>1, <1>4, <3>2
      <3> QED BY <3>3 DEF e
    <2>4. now - last_recv_time <= DropTimeout
      BY <1>1, <1>2, <1>5, <2>1, <2>2, <2>3, DropsEmpty DEF d
    <2>5. now - last_recv_time > DropTimeout /\ DropTimeout \in Nat
      BY <1>3 DEF Unhurried
    <2> QED BY <1>1, <1>2, <2>4, <2>5
  <1>6. p = 0
    BY <1>1, <1>5
  <1> QED BY <1>1, <1>6, EmptySeq

LEMMA CalmReceivesNothing ==
  ASSUME NoWrap, Unhurried, IInv, PaceInv, Calm, queued' = queued,
         SinkReceivesNothing
  PROVE  Calm'
  <1>1. /\ turns = << >> /\ turns' = << >> /\ served # {"state"} /\ served' = {"state"}
        /\ pc = "idle" /\ pc' = "send" /\ state # "ERROR"
        /\ UNCHANGED <<src, now, to_sink, borrower_endpoint, loan_frame_ms,
                       time_origin, last_recv_time, pending_frames>>
        /\ SinkSends
    BY DEF SinkReceivesNothing, SinkRuns, K!sink_receive_nothing, K!loan, K!timers, K!playing
  <1>2. \/ /\ state = "LENT" /\ K!Elapsed(last_recv_time) > DropTimeout
           /\ out' = K!Packet(borrower_endpoint, K!Fail("TIMEOUT"))
           /\ state' = "OPEN"
        \/ out' = None /\ state' = state
    BY DEF SinkReceivesNothing, K!sink_receive_nothing, K!sink_drop_borrow
  <1>3. /\ now \in Nat /\ queued \in Nat /\ Len(pending_frames) \in Nat
        /\ out' = None \/ out'.msg \in FromSink
    BY CalmTypes, SinkSpeaks DEF SinkReceivesNothing, K!SinkStep
  <1>4. SinkTime
    BY DEF Calm
  <1>5. state' # "LENT" => pending_frames = << >>
    <2>1. ASSUME state = "LENT", K!Elapsed(last_recv_time) > DropTimeout
          PROVE  pending_frames = << >>
      <3>1. borrower_endpoint \in Sources
        BY <1>4, <2>1 DEF SinkTime
      <3>2. LentTo(borrower_endpoint)
        BY <1>1, <2>1 DEF LentTo
      <3> QED BY <1>1, <2>1, <3>1, <3>2, SilentEmpty
    <2> QED BY <1>2, <1>4, <2>1 DEF SinkTime
  <1>6. SinkTime'
    BY <1>1, <1>2, <1>4, <1>5 DEF SinkTime
  <1>7. ASSUME NEW s \in Sources PROVE CalmSource(s)'
    <2>1. CalmSource(s) /\ (LentTo(s)' => LentTo(s))
      BY <1>1, <1>2 DEF Calm, LentTo
    <2>2. Taken(s)' = Taken(s) /\ Line(s)' = Line(s)
      BY <1>1 DEF Taken, Line
    <2>3. out' # None /\ out'.to = s => ~Asks(s)' /\ ~LentTo(s)'
      <3>1. out' # None /\ out'.to = s => LentTo(s) /\ state' = "OPEN"
        BY <1>1, <1>2 DEF K!Packet, LentTo
      <3> QED BY <2>1, <2>2, <3>1 DEF CalmSource, Granted, LentTo, Asks
    <2> QED BY <1>1, <1>3, <2>1, <2>2, <2>3, CalmQuiet
  <1>8. ASSUME NEW s \in Sources, LentTo(s)' PROVE Playing(s)'
    <2>1. LentTo(s) /\ Playing(s) /\ src[s].frames \in Nat /\ src[s].began \in Nat
      BY <1>1, <1>2, <1>8, CalmTypes DEF Calm, LentTo, Records
    <2>2. Held <= Held'
      BY <1>1 DEF Held
    <2>3. Shown' <= Shown /\ Heard <= Heard'
      BY <1>1, <1>3, <1>4 DEF Shown, Heard, SinkTime
    <2>4. time_origin \in Nat /\ last_recv_time \in Nat /\ last_recv_time' \in Nat
      BY <1>1, <1>4 DEF SinkTime
    <2>5. src'[s] = src[s] /\ src'[s].frames >= src[s].frames
      BY <1>1, <2>1
    <2> QED BY <1>1, <1>3, <2>1, <2>2, <2>3, <2>4, <2>5, PlayingOn
  <1> QED BY <1>6, <1>7, <1>8 DEF Calm

\* The first frame is shown in the ms after it was put.
LEMMA PlayingFirst ==
  ASSUME Unhurried, now \in Nat, now < NULL_TIME, queued \in Nat,
         pending_frames \in Seq(K!Frames), pending_frames # << >>,
         NEW s \in Sources, Playing(s), src[s].began \in Nat,
         pc = "idle", served = {"state"}, pc' = pc, served' = {"state", "get"},
         UNCHANGED <<now, src, loan_frame_ms, queued, last_recv_time>>,
         time_origin = NULL_TIME, time_origin' = now,
         pending_frames' = Tail(pending_frames)
  PROVE  Playing(s)'
  <1> DEFINE b == src[s].began
  <1>1. Len(pending_frames) \in Nat \ {0} /\ Len(pending_frames') = Len(pending_frames) - 1
    BY EmptySeq, HeadTailProperties
  <1>2. Held = 1 /\ Held' = 0 /\ Heard' = Heard
    <2>1. served' # {"state"}
      <3>1. "get" \in served' /\ "get" \notin {"state"}
        OBVIOUS
      <3> QED BY <3>1
    <2>2. Held = 1
      BY DEF Held
    <2>3. Held' = 0
      BY <2>1 DEF Held
    <2> QED BY <2>2, <2>3 DEF Heard
  <1>3. queued = 1 /\ Len(pending_frames) = 1 /\ now = b + 1
    BY <1>1, <1>2 DEF Playing
  <1>4. /\ loan_frame_ms = frame_duration_ms /\ Buffered <= Slots
        /\ queued <= src[s].frames /\ PacedAt(s, queued, Heard - 1)
    BY <1>3 DEF Playing
  <1>5. PacedAt(s, queued, Heard - 1)'
    BY <1>2, <1>4 DEF PacedAt
  <1>6. /\ time_origin' # NULL_TIME /\ queued' = 1 /\ Len(pending_frames') = 0
        /\ Held' = 0
    BY <1>1, <1>2, <1>3
  <1>7. time_origin' + 0 * frame_duration_ms = b + 1 + (1 - 1) * frame_duration_ms
    BY <1>3, Durations
  <1> QED BY <1>4, <1>5, <1>6, <1>7 DEF Playing

LEMMA CalmShows ==
  ASSUME NoWrap, Unhurried, IInv, PaceInv, Calm, queued' = queued,
         SinkShows
  PROVE  Calm'
  <1>1. /\ turns = << >> /\ turns' = << >> /\ served = {"state"} /\ served' = {"state", "get"}
        /\ pc = "idle" /\ out' = None
        /\ UNCHANGED <<src, now, to_sink, to_source, state, borrower_endpoint, loan_frame_ms,
                       last_recv_time>>
    BY DEF SinkShows, SinkRuns, K!sink_get_nothing, K!sink_get_first, K!sink_get_begin,
           K!loan, K!timers, network
  <1>2. \/ /\ state # "LENT" \/ (time_origin = NULL_TIME /\ pending_frames = << >>)
           /\ UNCHANGED <<pc, time_origin, pending_frames, get_now>>
        \/ /\ state = "LENT" /\ time_origin = NULL_TIME
           /\ pending_frames # << >> /\ pending_frames' = Tail(pending_frames)
           /\ time_origin' = K!time_now
           /\ UNCHANGED <<pc, get_now>>
        \/ /\ state = "LENT" /\ time_origin # NULL_TIME
           /\ get_now' = K!time_now /\ pc' = "get"
           /\ UNCHANGED <<time_origin, pending_frames>>
    BY DEF SinkShows, K!sink_get_nothing, K!sink_get_first, K!sink_get_begin,
           K!mem_ring_dequeue, K!loan, K!NULL_TIME, NULL_TIME
  <1>3. /\ now \in Nat /\ queued \in Nat /\ Len(pending_frames) \in Nat
        /\ pending_frames \in Seq(K!Frames) /\ K!time_now = now /\ now < NULL_TIME
    BY CalmTypes
  <1>4. SinkTime
    BY DEF Calm
  <1>5. SinkTime'
    <2>1. Len(pending_frames') <= Slots
      <3>1. pending_frames # << >> => Len(Tail(pending_frames)) = Len(pending_frames) - 1
        BY <1>3, HeadTailProperties
      <3> QED BY <1>2, <1>3, <1>4, <3>1 DEF SinkTime, Unhurried
    <2> QED BY <1>1, <1>2, <1>3, <1>4, <2>1 DEF SinkTime
  <1>6. ASSUME NEW s \in Sources PROVE CalmSource(s)'
    <2>1. CalmSource(s) /\ (LentTo(s)' => LentTo(s))
      BY <1>1, <1>2 DEF Calm, LentTo
    <2>2. Taken(s)' = Taken(s) /\ Line(s)' = Line(s)
      BY <1>1, <1>2 DEF Taken, Line
    <2> QED BY <1>1, <1>3, <2>1, <2>2, CalmQuiet
  <1>7. ASSUME NEW s \in Sources, LentTo(s)' PROVE Playing(s)'
    <2>1. /\ LentTo(s) /\ Playing(s) /\ src[s].frames \in Nat /\ src[s].began \in Nat
          /\ state = "LENT"
      BY <1>1, <1>2, <1>7, CalmTypes DEF Calm, LentTo, Records
    <2>2. CASE /\ time_origin = NULL_TIME /\ pending_frames = << >>
               /\ UNCHANGED <<pc, time_origin, pending_frames>>
      <3>1. Len(pending_frames) = 0
        BY <2>2
      <3>2. queued = 0 /\ Held' = 0 /\ Heard' = Heard
        BY <1>1, <2>1, <2>2, <3>1 DEF Playing, Held, Heard
      <3>3. loan_frame_ms = frame_duration_ms /\ Buffered <= Slots
        BY <2>1 DEF Playing
      <3>4. /\ time_origin' = NULL_TIME /\ queued' = 0 /\ Len(pending_frames') = 0
            /\ loan_frame_ms' = frame_duration_ms
        BY <1>1, <2>2, <3>1, <3>2, <3>3
      <3> QED BY <3>2, <3>3, <3>4 DEF Playing
    <2>3. CASE /\ time_origin = NULL_TIME
               /\ pending_frames # << >> /\ pending_frames' = Tail(pending_frames)
               /\ time_origin' = K!time_now /\ pc' = pc
      BY <1>1, <1>3, <2>1, <2>3, PlayingFirst
    <2>4. CASE /\ time_origin # NULL_TIME /\ pc' = "get"
               /\ UNCHANGED <<time_origin, pending_frames>>
      <3>1. Held <= Held' /\ Shown' <= Shown /\ Heard <= Heard'
        BY <1>1, <1>3, <1>4, <2>4 DEF Held, Shown, Heard, SinkTime
      <3>2. time_origin \in Nat /\ last_recv_time \in Nat /\ last_recv_time' \in Nat
        BY <1>1, <1>4 DEF SinkTime
      <3>3. src'[s] = src[s] /\ src'[s].frames >= src[s].frames
        BY <1>1, <2>1
      <3> QED BY <1>1, <1>3, <2>1, <2>4, <3>1, <3>2, <3>3, PlayingOn
    <2> QED BY <1>2, <2>1, <2>2, <2>3, <2>4
  <1> QED BY <1>5, <1>6, <1>7 DEF Calm

\* The end of a poll: the datagram has been handled, and LENT is sent again.
LEMMA CalmPolled ==
  ASSUME NoWrap, Unhurried, IInv, PaceInv, Calm, queued' = queued,
         SinkContinues, K!sink_receive_done \/ K!sink_send
  PROVE  Calm'
  <1>0. /\ now \in Nat /\ queued \in Nat /\ Len(pending_frames) \in Nat
        /\ K!time_now = now /\ SinkTime
    BY CalmTypes DEF Calm
  <1>1. /\ UNCHANGED <<src, now, to_sink, state, borrower_endpoint, loan_frame_ms,
                       time_origin, pending_frames, turns, served>>
        /\ SinkSends /\ (out' = None \/ out'.msg \in FromSink)
        /\ pc \in {"iterate", "send"}
    BY ContinuesFacts
       DEF SinkContinues, K!sink_receive_done, K!sink_send, K!loan, K!playing, schedule
  <1>2. \/ /\ pc = "iterate" /\ rx.msgs = << >> /\ last_recv_time' = now
           /\ pc' = "send" /\ out' = None
        \/ /\ pc = "send" /\ pc' = "idle" /\ last_recv_time' = last_recv_time
           /\ \/ out' = None
              \/ state = "LENT" /\ out' = K!Packet(borrower_endpoint, K!Lent)
    BY <1>0 DEF K!sink_receive_done, K!sink_send, K!sink_send_lent
  <1>3. turns = << >> /\ turns' = << >> /\ served = {"state"}
    BY <1>0, <1>1 DEF SinkTime
  <1>4. SinkTime'
    BY <1>0, <1>1, <1>2, <1>3 DEF SinkTime
  <1>5. ASSUME NEW s \in Sources PROVE CalmSource(s)'
    <2>1. CalmSource(s) /\ (LentTo(s)' => LentTo(s))
      BY <1>1, <1>2 DEF Calm, LentTo
    <2>2. Taken(s) = << >> /\ Taken(s)' = << >>
      BY <1>2 DEF Taken
    <2>3. Line(s)' = Line(s)
      BY <1>1, <2>2 DEF Line
    <2>4. out' # None /\ out'.to = s => ~Asks(s)' /\ out'.msg = Lent
      <3>1. out' # None => /\ state = "LENT" /\ out'.to = borrower_endpoint /\ pc # "freed"
                           /\ out'.msg = Lent
        BY <1>2 DEF K!Packet, K!Lent, Lent
      <3> QED BY <2>1, <2>3, <3>1 DEF CalmSource, Granted, LentTo, Asks
    <2> QED BY <1>1, <1>3, <2>1, <2>2, <2>3, <2>4, CalmQuiet
  <1>6. ASSUME NEW s \in Sources, LentTo(s)' PROVE Playing(s)'
    <2>1. LentTo(s) /\ Playing(s) /\ src[s].frames \in Nat /\ src[s].began \in Nat
      BY <1>1, <1>2, <1>6, CalmTypes DEF Calm, LentTo, Records
    <2>2. Held <= Held' /\ Shown' <= Shown /\ Heard <= Heard'
      <3>1. CASE pc = "iterate"
        BY <1>0, <1>1, <1>2, <3>1 DEF Held, Shown, Heard, SinkTime
      <3>2. CASE pc = "send"
        BY <1>0, <1>1, <1>2, <1>3, <3>2 DEF Held, Shown, Heard, SinkTime
      <3> QED BY <1>1, <3>1, <3>2
    <2>3. time_origin \in Nat /\ last_recv_time \in Nat /\ last_recv_time' \in Nat
      BY <1>0, <1>2 DEF SinkTime
    <2>4. src'[s] = src[s] /\ src'[s].frames >= src[s].frames
      BY <1>1, <2>1
    <2> QED BY <1>0, <1>1, <2>1, <2>2, <2>3, <2>4, PlayingOn
  <1> QED BY <1>4, <1>5, <1>6 DEF Calm

\* The frame clock goes on by a frame, and stops at the one that is shown now.
LEMMA CalmShown ==
  ASSUME NoWrap, Unhurried, IInv, PaceInv, Calm, queued' = queued,
         SinkContinues, K!sink_get_next \/ K!sink_get_done
  PROVE  Calm'
  <1> DEFINE p == Len(pending_frames)
             d == frame_duration_ms
             o == time_origin
  <1>0. /\ now \in Nat /\ queued \in Nat /\ p \in Nat /\ d \in Nat
        /\ pending_frames \in Seq(K!Frames) /\ SinkTime
        /\ now < NULL_TIME /\ NULL_TIME \in 0 .. TimeMod - 1 /\ TimeMod \in Nat \ {0}
    BY CalmTypes, Constants, SourceAssumption DEF Calm
  <1>1. /\ UNCHANGED <<src, now, to_sink, state, borrower_endpoint, loan_frame_ms,
                       last_recv_time, turns, served>>
        /\ out' = None /\ SinkSends /\ pc = "get"
    BY ContinuesFacts
       DEF SinkContinues, K!sink_get_next, K!sink_get_done, K!loan, K!timers, schedule
  <1>2. \/ /\ K!FrameIsOver /\ pc' = "get" /\ get_now' = get_now
           /\ pending_frames # << >> /\ pending_frames' = Tail(pending_frames)
           /\ o' = (o + loan_frame_ms) % TimeMod
        \/ /\ ~K!FrameIsOver \/ pending_frames = << >>
           /\ pc' = "idle"
           /\ UNCHANGED <<time_origin, pending_frames>>
    BY DEF K!sink_get_next, K!sink_get_done, K!mem_ring_dequeue, K!loan
  <1>3. /\ turns = << >> /\ turns' = << >> /\ served = {"state", "get"}
        /\ state = "LENT" /\ borrower_endpoint \in Sources
        /\ o \in Nat /\ o # NULL_TIME /\ get_now = now
    BY <1>0, <1>1 DEF SinkTime
  <1>4. LentTo(borrower_endpoint) /\ Playing(borrower_endpoint)
    BY <1>1, <1>3 DEF LentTo, Calm
  <1>5. o <= now /\ loan_frame_ms = d
    BY <1>3, <1>4 DEF Playing
  <1>6. (get_now - o) % TimeMod = now - o
    <2>1. now - o \in 0 .. TimeMod - 1
      BY <1>0, <1>3, <1>5
    <2> QED BY <1>0, <1>3, <2>1, ModSmall
  <1>7. K!FrameIsOver <=> o + d < now
    BY <1>0, <1>3, <1>5, <1>6 DEF K!FrameIsOver
  <1>8. K!FrameIsOver => (o + loan_frame_ms) % TimeMod = o + d
    <2>1. o + d < now => o + d \in 0 .. TimeMod - 1
      BY <1>0, <1>3
    <2> QED BY <1>0, <1>5, <1>7, <2>1, ModSmall
  <1>9. pending_frames # << >> =>
          /\ p >= 1 /\ Len(Tail(pending_frames)) = p - 1
    BY <1>0, EmptySeq, HeadTailProperties
  <1>10. SinkTime'
    <2>1. Len(pending_frames') <= Slots
      BY <1>0, <1>2, <1>9 DEF SinkTime, Unhurried
    <2>2. o' \in Nat /\ (pc' = "get" => o' # NULL_TIME)
      BY <1>0, <1>2, <1>3, <1>7, <1>8
    <2> QED BY <1>0, <1>1, <1>2, <1>3, <2>1, <2>2 DEF SinkTime
  <1>11. ASSUME NEW s \in Sources PROVE CalmSource(s)'
    <2>1. CalmSource(s) /\ (LentTo(s)' => LentTo(s))
      BY <1>1, <1>2 DEF Calm, LentTo
    <2>2. Taken(s)' = Taken(s) /\ Line(s)' = Line(s)
      BY <1>1, <1>2 DEF Taken, Line
    <2> QED BY <1>1, <1>3, <2>1, <2>2, CalmQuiet
  <1>12. ASSUME NEW s \in Sources, LentTo(s)' PROVE Playing(s)'
    <2>0. LentTo(s)
      BY <1>1, <1>2, <1>12 DEF LentTo
    <2>1. Playing(s) /\ src[s].frames \in Nat /\ src[s].began \in Nat
      BY <2>0, CalmTypes DEF Calm, Records
    <2>2. Held = 1 /\ Shown = now - 1 /\ Heard = last_recv_time
      BY <1>1 DEF Held, Shown, Heard
    <2>3. /\ queued > p /\ queued <= src[s].frames /\ PacedAt(s, queued, Heard - 1)
          /\ Buffered <= Slots
          /\ o + p * d = src[s].began + 1 + (queued - 1) * d
          /\ p <= 1 \/ now - 1 <= o + d
      BY <1>0, <1>3, <2>1, <2>2 DEF Playing
    <2>4. PacedAt(s, queued, Heard - 1)' /\ queued' <= src'[s].frames
      <3>1. Heard' = Heard
        BY <1>1, <1>2, <2>2 DEF Heard
      <3> QED BY <1>1, <2>3, <3>1 DEF PacedAt
    <2>5. CASE /\ K!FrameIsOver /\ pc' = "get"
               /\ pending_frames # << >> /\ pending_frames' = Tail(pending_frames)
               /\ o' = (o + loan_frame_ms) % TimeMod
      <3>1. Held' = 1 /\ Shown' = now - 1
        BY <1>1, <2>5 DEF Held, Shown
      <3> DEFINE r == Len(pending_frames')
      <3>2. o' = o + d /\ o + d < now /\ r = p - 1 /\ p >= 1
        BY <1>7, <1>8, <1>9, <2>5
      <3>3. (p - 1) * d = p * d - d /\ p * d \in Int
        BY <1>0
      <3> HIDE DEF p, d, o, r
      <3>4. o' # NULL_TIME /\ o' <= now /\ queued > r
        <4>1. queued > p
          BY <2>3
        <4> QED BY <1>0, <1>3, <3>2, <4>1
      <3>5. o' + r * d = src[s].began + 1 + (queued - 1) * d
        <4> DEFINE c == p * d
                   e == (queued - 1) * d
        <4>1. c \in Int /\ r * d = c - d /\ o + c = src[s].began + 1 + e
          BY <2>3, <3>2, <3>3
        <4> HIDE DEF c
        <4>2. o' + r * d = o + c
          BY <1>0, <1>3, <3>2, <4>1
        <4> QED BY <4>1, <4>2
      <3>6. r <= Held' \/ Shown' <= o' + d
        <4>1. p <= 1 => r <= 1
          BY <1>0, <3>2
        <4>2. now - 1 <= o + d => now - 1 <= o' + d
          BY <1>0, <1>3, <3>2
        <4> QED BY <2>3, <3>1, <4>1, <4>2
      <3> QED BY <1>1, <1>5, <2>3, <2>4, <3>4, <3>5, <3>6 DEF Playing, r, o, d
    <2>6. CASE /\ ~K!FrameIsOver \/ pending_frames = << >>
               /\ pc' = "idle"
               /\ UNCHANGED <<time_origin, pending_frames>>
      <3>1. Held' = 0 /\ Shown' = now
        <4>1. served' # {"state"}
          <5>1. "get" \in served' /\ "get" \notin {"state"}
            BY <1>1, <1>3
          <5> QED BY <5>1
        <4> QED BY <1>1, <1>3, <2>6, <4>1 DEF Held, Shown
      <3>2. p <= 0 \/ now <= o + d
        <4>1. pending_frames = << >> => p <= 0
          OBVIOUS
        <4>2. ~(o + d < now) => now <= o + d
          BY <1>0, <1>3
        <4> QED BY <1>7, <2>6, <4>1, <4>2
      <3> QED BY <1>1, <1>3, <1>5, <2>3, <2>4, <2>6, <3>1, <3>2 DEF Playing
    <2> QED BY <1>2, <2>5, <2>6
  <1> QED BY <1>10, <1>11, <1>12 DEF Calm

\* The sink is done with a message, or begins to fill the ring with it; it
\* answers nobody but who asked, and not the borrower.
LEMMA CalmHandled ==
  ASSUME NoWrap, Unhurried, IInv, PaceInv, Calm, queued' = queued, SinkContinues,
         pc \in {"iterate", "enqueue"}, rx.msgs # << >>,
         \/ K!NextMsg /\ pc' = "iterate"
         \/ pc = "iterate" /\ pc' = "enqueue" /\ rx' = rx,
         UNCHANGED <<state, borrower_endpoint, loan_frame_ms, time_origin,
                     last_recv_time, pending_frames>>,
         NEW r \in Sources, rx.from = r,
         out' # None => out'.to = r /\ ~Asks(r)' /\ ~LentTo(r)
  PROVE  Calm'
  <1>0. /\ now \in Nat /\ queued \in Nat /\ Len(pending_frames) \in Nat
        /\ SinkTime /\ WireOK /\ HandOK
    BY CalmTypes DEF Calm
  <1>1. /\ UNCHANGED <<src, now, to_sink, turns, served>>
        /\ SinkSends /\ (out' = None \/ out'.msg \in FromSink)
    BY ContinuesFacts DEF SinkContinues, schedule
  <1>2. turns = << >> /\ turns' = << >> /\ served = {"state"}
    BY <1>0, <1>1 DEF SinkTime
  <1>3. SinkTime'
    BY <1>0, <1>1, <1>2 DEF SinkTime
  <1>4. /\ rx.msgs = <<Head(rx.msgs)>> /\ Tail(rx.msgs) = << >> /\ Line(r) # << >>
    BY <1>0, LineInHand
  <1>5. ASSUME K!NextMsg, pc' = "iterate"
        PROVE  /\ Line(r)' = Tail(Line(r)) /\ \A s \in Sources \ {r} : Line(s)' = Line(s)
               /\ rx'.msgs = << >>
    <2>1. rx \in [from : {r}, msgs : Seq(K!Messages(r))]
      BY <1>0 DEF HandOK, K!InHand
    <2>2. rx'.msgs = << >>
      BY <1>4, <1>5, <2>1 DEF K!NextMsg
    <2>3. to_sink' = to_sink
      BY <1>1
    <2> QED BY <1>0, <1>5, <2>2, <2>3, LineNext
  <1>6. ASSUME pc = "iterate", pc' = "enqueue", rx' = rx
        PROVE  \A s \in Sources : Line(s)' = Line(s) /\ Taken(s)' = Taken(s)
    BY <1>1, <1>6 DEF Line, Taken
  <1>7. ASSUME NEW s \in Sources PROVE CalmSource(s)'
    <2>1. CalmSource(s) /\ (LentTo(s)' => LentTo(s))
      BY DEF Calm, LentTo
    <2>2. Taken(s)' = Taken(s) \/ Taken(s)' = << >>
      <3>1. K!NextMsg /\ pc' = "iterate" => Taken(s)' = << >>
        BY <1>5 DEF Taken
      <3> QED BY <1>6, <3>1
    <2>3. Line(s)' = Line(s) \/ (Line(s) # << >> /\ Line(s)' = Tail(Line(s)))
      <3>1. CASE K!NextMsg /\ pc' = "iterate" /\ s = r
        BY <1>4, <1>5, <3>1
      <3>2. CASE K!NextMsg /\ pc' = "iterate" /\ s # r
        BY <1>5, <3>2
      <3> QED BY <1>6, <3>1, <3>2
    <2>4. out' # None /\ out'.to = s => ~Asks(s)' /\ ~LentTo(s)'
      <3>1. LentTo(r)' => LentTo(r)
        BY DEF LentTo
      <3> QED BY <3>1
    <2> QED BY <1>1, <1>2, <2>1, <2>2, <2>3, <2>4, CalmQuiet
  <1>8. ASSUME NEW s \in Sources, LentTo(s)' PROVE Playing(s)'
    <2>1. LentTo(s) /\ Playing(s) /\ src[s].frames \in Nat /\ src[s].began \in Nat
      BY <1>8, CalmTypes DEF Calm, LentTo, Records
    <2>2. Held <= Held'
      <3>1. CASE pc = "iterate"
        BY <3>1 DEF Held
      <3>2. CASE pc = "enqueue"
        <4>1. pc' = "iterate" /\ rx'.msgs = << >>
          BY <1>5, <3>2
        <4> QED BY <4>1 DEF Held
      <3> QED BY <3>1, <3>2
    <2>3. Shown' <= Shown /\ Heard <= Heard'
      BY <1>0, <1>1 DEF Shown, Heard
    <2>4. time_origin \in Nat /\ last_recv_time \in Nat /\ last_recv_time' \in Nat
      BY <1>0 DEF SinkTime
    <2>5. src'[s] = src[s] /\ src'[s].frames >= src[s].frames
      BY <1>1, <2>1
    <2> QED BY <1>0, <1>1, <2>1, <2>2, <2>3, <2>4, <2>5, PlayingOn
  <1> QED BY <1>3, <1>7, <1>8 DEF Calm

\* The head of the line is the only message that asks.
LEMMA AskedOnce ==
  ASSUME NEW s \in Sources, Granted(s), NEW S, Line(s) \in Seq(S), Line(s) # << >>
  PROVE  /\ Line(s)[1].type = "BORROW" => Asks(s)
         /\ Line(s)' = Tail(Line(s)) => ~Asks(s)'
  <1>1. 1 \in 1 .. Len(Line(s)) /\ Tail(Line(s)) # Line(s)
    <2>1. \A q \in Seq(S) : q # << >> => 1 \in 1 .. Len(q) /\ Len(Tail(q)) # Len(q)
      <3> TAKE q \in Seq(S)
      <3> HAVE q # << >>
      <3> QED BY TailFacts
    <2>2. \A q \in Seq(S) : q # << >> => 1 \in 1 .. Len(q) /\ Tail(q) # q
      BY <2>1, Zenon
    <2> QED BY <2>2
  <1>2. Line(s)[1].type = "BORROW" => Asks(s)
    BY <1>1 DEF Asks
  <1>3. ASSUME Line(s)' = Tail(Line(s)), Asks(s)' PROVE FALSE
    <2>1. Line(s)' = Line(s)
      BY <1>3, AsksLess
    <2>2. Line(s) = Tail(Line(s))
      BY <1>3, <2>1
    <2> QED BY <1>1, <2>2
  <1> QED BY <1>2, <1>3

\* A frame is handled: it is refused, too old, or the ring begins to fill.
LEMMA CalmFrame ==
  ASSUME NoWrap, Unhurried, IInv, PaceInv, Calm, queued' = queued, SinkContinues,
         K!sink_handle_enqueue
  PROVE  Calm'
  <1> DEFINE m == Head(rx.msgs)
  <1>0. WireOK /\ HandOK /\ state # "ERROR"
    BY CalmTypes DEF K!sink_handle_enqueue
  <1>1. /\ pc = "iterate" /\ rx.msgs # << >> /\ m.type = "ENQUEUE"
        /\ UNCHANGED <<borrower_endpoint, loan_frame_ms, time_origin,
                       last_recv_time, pending_frames>>
    BY DEF K!sink_handle_enqueue, K!Handling, K!playing, K!loan, K!timers
  <1>2. PICK r \in Sources : rx.from = r
    BY <1>0, <1>1, HandFacts
  <1>3. /\ Line(r) \in Seq(FromSource(r)) /\ Line(r) # << >> /\ Line(r)[1] = m
        /\ Granted(r) /\ Whole(r)
    BY <1>0, <1>1, <1>2, LineInHand DEF Calm, CalmSource
  <1>4. ~m.short
    <2>1. 1 \in 1 .. Len(Line(r))
      BY <1>3, TailFacts
    <2> QED BY <1>1, <1>3, <2>1 DEF Whole
  <1>5. /\ state' = state
        /\ (K!NextMsg /\ pc' = "iterate") \/ (pc' = "enqueue" /\ rx' = rx)
        /\ out' # None => out'.to = r /\ K!NextMsg /\ pc' = "iterate" /\ ~LentTo(r)
    BY <1>1, <1>2, <1>4
       DEF K!sink_handle_enqueue, K!Packet, K!FromBorrower, LentTo
  <1>6. out' # None => ~Asks(r)'
    <2>1. K!NextMsg /\ pc' = "iterate" => Line(r)' = Tail(Line(r))
      BY <1>0, <1>1, <1>2, LineNext, ContinuesFacts
    <2> QED BY <1>3, <1>5, <2>1, AskedOnce
  <1> QED BY <1>1, <1>2, <1>5, <1>6, CalmHandled

\* The frame has its place in the ring.
LEMMA CalmFilled ==
  ASSUME NoWrap, Unhurried, OneFault, IInv, PaceInv, Calm, faults = 0,
         queued' = queued, SinkContinues, K!sink_enqueue_done
  PROVE  Calm'
  <1>0. /\ pc = "enqueue" /\ K!NextMsg /\ pc' = "iterate" /\ out' = None
        /\ K!FrameDiff(Head(rx.msgs)) <= 0
        /\ UNCHANGED <<state, borrower_endpoint, loan_frame_ms, time_origin,
                       last_recv_time, pending_frames>>
    BY DEF K!sink_enqueue_done, K!playing, K!loan, K!timers
  <1>1. HandOK
    BY CalmTypes
  <1>2. PICK r \in Sources : rx.from = r
    BY <1>0, <1>1, HandFacts DEF HandOK
  <1>3. rx.msgs # << >>
    BY <1>0, <1>1 DEF HandOK
  <1> QED BY <1>0, <1>2, <1>3, CalmHandled

\* A BORROW in hand is all that its source has sent, and tells its numbers.
LEMMA BorrowInHand ==
  ASSUME NoWrap, Unhurried, IInv, PaceInv, Calm, pc = "iterate", rx.msgs # << >>,
         Head(rx.msgs).type = "BORROW", NEW r \in Sources, rx.from = r,
         SinkContinues, K!NextMsg, pc' = "iterate"
  PROVE  /\ Head(rx.msgs).frame_length = frame_duration_ms
         /\ Head(rx.msgs).buffer_length = Buffered
         /\ to_sink[r] = << >> /\ to_source[r] = << >>
         /\ Young(src[r]) /\ src[r].pc # "unmade" /\ ~LentTo(r) /\ ~Asks(r)'
         /\ rx'.msgs = << >> /\ rx'.from = r
         /\ Line(r) # << >> /\ Line(r)' = Tail(Line(r))
         /\ \A s \in Sources \ {r} : Line(s)' = Line(s)
  <1> DEFINE m == Head(rx.msgs)
             q == to_sink[r]
  <1>0. /\ WireOK /\ HandOK /\ q \in Seq([msg : FromSource(r), due : Nat])
        /\ Granted(r) /\ to_sink' = to_sink
    BY CalmTypes, ContinuesFacts DEF Calm, CalmSource
  <1>1. /\ rx.msgs = <<m>> /\ Tail(rx.msgs) = << >> /\ m \in FromSource(r)
        /\ Msgs(q) \in Seq(FromSource(r))
        /\ Line(r) = <<m>> \o Msgs(q)
        /\ Line(r) \in Seq(FromSource(r)) /\ Line(r) # << >> /\ Line(r)[1] = m
    BY <1>0, LineInHand
  <1>2. Asks(r)
    BY <1>0, <1>1, AskedOnce
  <1>3. /\ Len(Line(r)) = 1 /\ Young(src[r]) /\ src[r].pc # "unmade"
        /\ to_source[r] = << >> /\ ~LentTo(r)
    BY <1>0, <1>2 DEF Granted
  <1>4. m \in {K!Borrow(frame_duration_ms % ByteMod, Buffered % ByteMod)}
    <2>1. K!Messages(r) = {K!Borrow(frame_duration_ms % ByteMod, Buffered % ByteMod)}
            \cup {K!Enqueue(i, [by |-> r, tag |-> t], short) :
                    i \in 0 .. IdxMod - 1, t \in Nat, short \in BOOLEAN}
            \cup {K!Other}
      BY DEF K!Messages
    <2> QED BY <1>1, <2>1 DEF FromSource, K!Enqueue, K!Other
  <1>5. m.frame_length = frame_duration_ms /\ m.buffer_length = Buffered
    BY <1>4, Durations DEF K!Borrow
  <1>6. q = << >>
    <2>1. Len(Line(r)) = 1 + Len(Msgs(q)) /\ Len(Msgs(q)) = Len(q)
      <3>1. Len(<<m>> \o Msgs(q)) = 1 + Len(Msgs(q))
        BY <1>1
      <3> QED BY <1>0, <1>1, <3>1, MsgsFacts
    <2>2. Len(q) \in Nat
      BY <1>0, LenProperties
    <2>3. 1 + Len(q) = 1
      BY <1>3, <2>1
    <2>4. \A n \in Nat : 1 + n = 1 => n = 0
      OBVIOUS
    <2>5. Len(q) = 0
      BY <2>2, <2>3, <2>4
    <2> QED BY <1>0, <2>5, EmptySeq
  <1>7. /\ Line(r)' = Tail(Line(r)) /\ \A s \in Sources \ {r} : Line(s)' = Line(s)
    BY <1>0, LineNext
  <1>8. ~Asks(r)'
    BY <1>0, <1>1, <1>7, AskedOnce
  <1>9. rx'.msgs = << >> /\ rx'.from = r
    <2>1. rx \in [from : {r}, msgs : Seq(K!Messages(r))]
      BY <1>0 DEF HandOK, K!InHand
    <2> QED BY <1>1, <2>1 DEF K!NextMsg
  <1> QED BY <1>1, <1>3, <1>5, <1>6, <1>7, <1>8, <1>9

\* The loan begins with an empty ring, and LENT is all that is on its way.
LEMMA CalmLends ==
  ASSUME NoWrap, Unhurried, IInv, PaceInv, Calm, Counts, SinkContinues,
         pc = "iterate", rx.msgs # << >>, Head(rx.msgs).type = "BORROW",
         NEW r \in Sources, rx.from = r, K!NextMsg, pc' = "iterate",
         state = "OPEN", state' = "LENT", borrower_endpoint' = r,
         Head(rx.msgs).buffer_length <= Slots,
         loan_frame_ms' = Head(rx.msgs).frame_length,
         time_origin' = NULL_TIME, last_recv_time' = NULL_TIME,
         pending_frames' = pending_frames, out' = K!Packet(r, K!Lent)
  PROVE  Calm'
  <1>0. /\ now \in Nat /\ SinkTime /\ WireOK /\ NULL_TIME \in Nat
        /\ UNCHANGED <<src, now, to_sink, turns, served>>
        /\ SinkSends /\ (out' = None \/ out'.msg \in FromSink)
    BY CalmTypes, ContinuesFacts, Constants DEF Calm, SinkContinues, schedule
  <1>1. turns = << >> /\ turns' = << >> /\ served = {"state"} /\ pending_frames = << >>
    BY <1>0 DEF SinkTime
  <1>2. /\ Head(rx.msgs).frame_length = frame_duration_ms
        /\ Head(rx.msgs).buffer_length = Buffered
        /\ to_sink[r] = << >> /\ to_source[r] = << >>
        /\ Young(src[r]) /\ src[r].pc # "unmade" /\ ~LentTo(r) /\ ~Asks(r)'
        /\ rx'.msgs = << >> /\ rx'.from = r
        /\ Line(r) # << >> /\ Line(r)' = Tail(Line(r))
        /\ \A s \in Sources \ {r} : Line(s)' = Line(s)
    BY BorrowInHand
  <1>3. SinkTime'
    BY <1>0, <1>1 DEF SinkTime
  <1>4. ASSUME NEW s \in Sources, s # r PROVE CalmSource(s)'
    <2>1. CalmSource(s) /\ ~LentTo(s)'
      BY <1>4 DEF Calm, LentTo
    <2>2. Taken(s)' = Taken(s)
      BY <1>2, <1>4 DEF Taken
    <2>3. Line(s)' = Line(s)
      BY <1>2, <1>4
    <2>4. out'.to # s
      BY <1>4 DEF K!Packet
    <2> QED BY <1>0, <1>1, <2>1, <2>2, <2>3, <2>4, CalmQuiet
  <1>5. CalmSource(r)'
    <2>1. CalmSource(r) /\ \A S : \A i \in 1 .. Len(<< >>) : FALSE
      BY DEF Calm
    <2>2. out'.to = r /\ out'.msg = Lent /\ Lent \in FromSink
      BY DEF K!Packet, K!Lent, Lent, FromSink
    <2>3. to_source'[r] = to_source[r] \/ to_source'[r] = Append(to_source[r], InFlight(Lent))
      BY <1>0, <2>2, SinkSpoken
    <2>4. OnTime(r)'
      <3>1. /\ to_sink[r] \in Seq([msg : FromSource(r), due : Nat])
            /\ to_source[r] \in Seq([msg : FromSink, due : Nat])
        BY CalmTypes
      <3> QED BY <1>0, <1>1, <2>1, <2>2, <2>3, <3>1, OnTimeKept DEF CalmSource
    <2>5. InCall(r)'
      BY <1>0, <1>1, <2>1 DEF CalmSource, InCall, Elapsed, time_now
    <2>6. Whole(r)'
      <3>1. Line(r) \in Seq(FromSource(r))
        BY CalmTypes
      <3> QED BY <1>2, <2>1, <3>1, WholeKept DEF CalmSource
    <2>7. \A i \in 1 .. Len(to_source'[r]) : to_source'[r][i].msg = Lent
      <3>1. CASE to_source'[r] = << >>
        BY <2>1, <3>1
      <3>2. CASE to_source'[r] = <<InFlight(Lent)>>
        <4>1. \A p : Len(<<p>>) = 1 /\ <<p>>[1] = p
          OBVIOUS
        <4>2. \A i \in 1 .. 1 : i = 1
          OBVIOUS
        <4> QED BY <3>2, <4>1, <4>2 DEF InFlight
      <3> QED BY <1>2, <2>3, <3>1, <3>2
    <2>8. Waits(r)' => to_source'[r] # << >>
      <3>1. ASSUME Waits(r)' PROVE Listening(r)
        <4>1. src[r].state = "WAITING" /\ src'[r] = src[r]
          BY <1>0, <3>1 DEF Waits
        <4> QED BY <1>2, <2>1, <4>1 DEF CalmSource, InCall, Listening
      <3>2. Listening(r) => to_source'[r] = Append(to_source[r], InFlight(Lent))
        <4>1. out' # None /\ r \in DOMAIN to_source
          BY <1>0, NoneIsNoPacket DEF WireOK
        <4> QED BY <1>0, <2>2, <4>1 DEF SinkSends
      <3>3. << >> # Append(<< >>, InFlight(Lent))
        OBVIOUS
      <3> QED BY <1>2, <3>1, <3>2, <3>3
    <2>9. Granted(r)'
      BY <1>0, <1>2, <2>7, <2>8 DEF Granted, Young
    <2>10. LinePaced(r)'
      <3>1. Taken(r)' = << >> /\ to_sink'[r] = << >>
        BY <1>0, <1>2 DEF Taken
      <3> QED BY <2>1, <3>1 DEF LinePaced
    <2> QED BY <2>4, <2>5, <2>6, <2>9, <2>10 DEF CalmSource
  <1>6. Playing(r)'
    <2>1. queued' = 0
      BY DEF Counts
    <2>2. Len(pending_frames') = 0 /\ 0 <= Held'
      BY <1>1 DEF Held
    <2> QED BY <1>2, <2>1, <2>2 DEF Playing
  <1>7. \A s \in Sources : LentTo(s)' => s = r
    BY DEF LentTo
  <1> QED BY <1>3, <1>4, <1>5, <1>6, <1>7 DEF Calm

\* A BORROW is handled.
LEMMA CalmAsked ==
  ASSUME NoWrap, Unhurried, IInv, PaceInv, Calm, Counts, SinkContinues,
         K!sink_handle_borrow
  PROVE  Calm'
  <1> DEFINE m == Head(rx.msgs)
  <1>1. /\ pc = "iterate" /\ pc' = "iterate" /\ rx.msgs # << >> /\ m.type = "BORROW"
        /\ K!NextMsg /\ UNCHANGED pending_frames
    BY DEF K!sink_handle_borrow, K!Handling, K!playing
  <1>2. HandOK /\ Len(pending_frames) \in Nat /\ queued \in Nat
    BY CalmTypes
  <1>3. PICK r \in Sources : rx.from = r
    BY <1>1, <1>2, HandFacts
  <1>4. ~LentTo(r) /\ ~Asks(r)'
    BY <1>1, <1>3, BorrowInHand
  <1>5. CASE /\ state' = state /\ UNCHANGED <<K!loan, K!timers>>
             /\ out'.to = r
    <2>1. queued' = queued
      BY <1>1, <1>2, <1>5 DEF Counts
    <2>2. UNCHANGED <<borrower_endpoint, loan_frame_ms, time_origin, last_recv_time>>
      BY <1>5 DEF K!loan, K!timers
    <2> QED BY <1>1, <1>3, <1>4, <1>5, <2>1, <2>2, CalmHandled
  <1>6. CASE K!MayBorrow
    <2>1. state = "OPEN"
      BY <1>1, <1>3, <1>4, <1>6 DEF K!MayBorrow, LentTo
    <2>2. CASE \E code : K!RefuseBorrow(code)
      BY <1>3, <1>5, <2>1, <2>2 DEF K!RefuseBorrow, K!sink_drop_borrow, K!Packet
    <2>3. CASE ~\E code : K!RefuseBorrow(code)
      <3>1. /\ m.buffer_length <= Slots
            /\ borrower_endpoint' = rx.from
            /\ loan_frame_ms' = m.frame_length
            /\ time_origin' = NULL_TIME
            /\ last_recv_time' = NULL_TIME
            /\ state' = "LENT"
            /\ out' = K!Packet(rx.from, K!Lent)
        BY <1>6, <2>3 DEF K!sink_handle_borrow, K!sink_send_lent, K!NULL_TIME, NULL_TIME
      <3> QED BY <1>1, <1>3, <2>1, <3>1, CalmLends
    <2> QED BY <2>2, <2>3
  <1>7. CASE ~K!MayBorrow
    BY <1>3, <1>5, <1>7 DEF K!sink_handle_borrow, K!Packet
  <1> QED BY <1>6, <1>7

\* The next frame enters the ring.
LEMMA PlayingNext ==
  ASSUME Unhurried, now \in Nat, queued \in Nat, time_origin \in Nat,
         pending_frames \in Seq(K!Frames), NEW f \in K!Frames,
         NEW s \in Sources, Playing(s), src[s].began \in Nat, src[s].frames \in Nat,
         Sent(s, queued, now - 1), Held = 0, Held' = 1,
         pc = "enqueue", pc' = pc,
         UNCHANGED <<now, src, loan_frame_ms, time_origin>>,
         pending_frames' = Append(pending_frames, f), queued' = queued + 1
  PROVE  Playing(s)'
  <1> DEFINE b == src[s].began
             p == Len(pending_frames)
             d == frame_duration_ms
             o == time_origin
  <1>1. /\ p \in Nat /\ Len(pending_frames') = p + 1 /\ d \in Nat
        /\ Shown = now - 1 /\ Shown' = now - 1 /\ Heard' = now
    BY AppendProperties, LenProperties, Durations DEF Shown, Heard
  <1>2. /\ loan_frame_ms = d /\ Buffered <= Slots
        /\ o = NULL_TIME => queued = p /\ queued <= 0
        /\ o # NULL_TIME =>
             /\ o <= now /\ queued > p
             /\ o + p * d = b + 1 + (queued - 1) * d
             /\ p <= 0 \/ now - 1 <= o + d
    BY <1>1 DEF Playing
  <1>3. /\ queued + 1 <= src[s].frames
        /\ queued = 0 => now = b + 1
    BY DEF Sent
  <1>4. PacedAt(s, queued, Heard - 1)'
    <2>1. PacedAt(s, queued + 1, now - 1)
      BY DEF Sent
    <2> QED BY <1>1, <2>1 DEF PacedAt
  <1>5. o + p * d = b + 1 + (queued - 1) * d =>
          o + (p + 1) * d = b + 1 + ((queued + 1) - 1) * d
    <2>1. p * d \in Int /\ (queued - 1) * d \in Int
      BY <1>1
    <2>2. (p + 1) * d = p * d + d /\ ((queued + 1) - 1) * d = (queued - 1) * d + d
      BY <1>1
    <2>3. o \in Int /\ d \in Int /\ b \in Int
      BY <1>1
    <2>4. (p + 1) * d \in Int /\ ((queued + 1) - 1) * d \in Int
      BY <1>1
    <2> DEFINE E == p * d
               G == (queued - 1) * d
               X == (p + 1) * d
               Y == ((queued + 1) - 1) * d
    <2>5. E \in Int /\ G \in Int /\ X \in Int /\ Y \in Int /\ X = E + d /\ Y = G + d
      BY <2>1, <2>2, <2>4
    <2> HIDE DEF E, G, X, Y, o, d, b
    <2>6. o + E = b + 1 + G => o + X = b + 1 + Y
      BY <2>3, <2>5, SMTT(60)
    <2> QED BY <2>6, Zenon DEF E, G, X, Y
  <1> HIDE DEF b, p, d, o
  <1>6. /\ o = NULL_TIME => /\ queued + 1 = p + 1 /\ queued + 1 <= 1
                            /\ now = b + 1
        /\ o # NULL_TIME =>
             /\ o <= now /\ queued + 1 > p + 1
             /\ p + 1 <= 1 \/ now - 1 <= o + d
    <2>1. o # NULL_TIME => p <= 0 \/ now - 1 <= o + d
      BY <1>2
    <2>2. p <= 0 => p + 1 <= 1
      BY <1>1
    <2> QED BY <1>1, <1>2, <1>3, <2>1, <2>2
  <1> QED BY <1>1, <1>2, <1>3, <1>4, <1>5, <1>6 DEF Playing, b, p, d, o

LEMMA CalmEnqueues ==
  ASSUME NoWrap, Unhurried, OneFault, IInv, PaceInv, Calm, faults = 0, Counts,
         SinkContinues, K!sink_enqueue
  PROVE  Calm'
  <1> DEFINE m == Head(rx.msgs)
             p == Len(pending_frames)
  <1>0. /\ now \in Nat /\ queued \in Nat /\ p \in Nat /\ pending_frames \in Seq(K!Frames)
        /\ HandOK /\ SinkTime /\ time_origin \in Nat
        /\ UNCHANGED <<src, now, to_sink, turns, served>>
        /\ SinkSends
    BY CalmTypes, ContinuesFacts DEF SinkContinues, schedule, Calm, SinkTime
  <1>1. /\ pc = "enqueue" /\ pc' = "enqueue" /\ out' = None /\ K!FrameDiff(m) > 0
        /\ UNCHANGED <<state, borrower_endpoint, loan_frame_ms, time_origin,
                       last_recv_time, rx>>
    BY DEF K!sink_enqueue, K!timers
  <1>2. turns = << >> /\ turns' = << >> /\ state = "LENT"
    BY <1>0, <1>1 DEF SinkTime, HandOK
  <1>3. PICK r \in Sources : rx.from = r
    BY <1>0, <1>1, HandFacts DEF HandOK
  <1>4. PICK t \in Nat : /\ m.frame = [by |-> r, tag |-> t]
                         /\ t = queued \/ t = queued - 1
                         /\ K!FrameDiff(m) = t - queued + 1
    BY <1>1, <1>3, CalmHand
  <1>5. /\ LentTo(r) /\ rx.msgs # << >> /\ m.type = "ENQUEUE"
    BY <1>0, <1>1, <1>3, CalmHand DEF HandOK
  <1>6. t = queued /\ m.frame.tag = queued /\ m.frame \in K!Frames
    <2>1. [by |-> r, tag |-> t].tag = t /\ [by |-> r, tag |-> t] \in K!Frames
      BY DEF K!Frames
    <2> QED BY <1>0, <1>1, <1>4, <2>1
  <1> HIDE DEF m
  <1>7. p < Slots
    <2>1. K!FrameDiff(m) <= Slots - p
      BY <1>1, RoomMeans DEF CalmInv, RingHasRoom, K!Room, m
    <2> QED BY <1>0, <1>4, <1>6, <2>1 DEF Unhurried
  <1>8. pending_frames' = Append(pending_frames, m.frame)
    BY <1>0, <1>7 DEF K!sink_enqueue, m, Unhurried
  <1>9. Len(pending_frames') = p + 1 /\ queued' = queued + 1
    <2>1. Len(pending_frames') = p + 1
      BY <1>0, <1>6, <1>8, AppendProperties
    <2>2. Len(pending_frames') > p
      BY <1>0, <2>1
    <2> QED BY <1>2, <2>1, <2>2 DEF Counts
  <1>10. SinkTime'
    <2>1. Len(pending_frames') <= Slots
      BY <1>0, <1>7, <1>9 DEF Unhurried
    <2>2. state' = "LENT" /\ borrower_endpoint' = borrower_endpoint
      BY <1>1, <1>2
    <2> QED BY <1>0, <1>1, <1>2, <2>1, <2>2 DEF SinkTime
  <1>11. ASSUME NEW s \in Sources PROVE CalmSource(s)'
    <2>1. CalmSource(s) /\ (LentTo(s)' => LentTo(s))
      BY <1>1 DEF Calm, LentTo
    <2>2. Taken(s)' = Taken(s) /\ Line(s)' = Line(s)
      BY <1>0, <1>1 DEF Taken, Line
    <2> QED BY <1>0, <1>1, <1>2, <2>1, <2>2, CalmQuiet
  <1>12. ASSUME NEW s \in Sources, LentTo(s)' PROVE Playing(s)'
    <2>1. s = r
      BY <1>1, <1>5, <1>12 DEF LentTo
    <2>2. Playing(r) /\ src[r].frames \in Nat /\ src[r].began \in Nat
      BY <1>5, CalmTypes DEF Calm, Records
    <2>3. Sent(r, queued, now - 1)
      BY <1>1, <1>3, <1>5, <1>6, HandSent DEF m
    <2>4. Held = 0 /\ Held' = 1
      <3>1. Head(rx'.msgs).frame.tag = queued /\ Head(rx.msgs).frame.tag = queued
        BY <1>1, <1>6 DEF m
      <3>2. ~(queued >= queued + 1) /\ queued >= queued
        BY <1>0
      <3> QED BY <1>1, <1>5, <1>9, <3>1, <3>2 DEF Held
    <2>5. pc' = pc
      BY <1>1
    <2>6. Playing(r)'
      BY <1>0, <1>1, <1>6, <1>8, <1>9, <2>2, <2>3, <2>4, <2>5, PlayingNext
    <2> QED BY <2>1, <2>6
  <1> QED BY <1>10, <1>11, <1>12 DEF Calm

\* Whatever the sink does within a call.
LEMMA CalmContinues ==
  ASSUME NoWrap, Unhurried, OneFault, IInv, PaceInv, Calm, faults = 0, Counts,
         SinkContinues
  PROVE  Calm'
  <1>0. Len(pending_frames) \in Nat /\ pending_frames \in Seq(K!Frames)
        /\ (state = "LENT" => borrower_endpoint \in Sources)
    BY CalmTypes DEF Calm, SinkTime
  <1>1. CASE K!sink_receive_done \/ K!sink_send
    <2>1. state' = state /\ pending_frames' = pending_frames
      BY <1>1 DEF K!sink_receive_done, K!sink_send, K!playing
    <2>2. queued' = queued
      BY <1>0, <2>1 DEF Counts
    <2> QED BY <1>1, <2>2, CalmPolled
  <1>2. CASE K!sink_handle_borrow
    BY <1>2, CalmAsked
  <1>3. CASE K!sink_handle_enqueue
    <2>1. (state' = "LENT" => state' = state) /\ pending_frames' = pending_frames
      BY <1>3 DEF K!sink_handle_enqueue, K!sink_drop_borrow, K!playing
    <2>2. queued' = queued
      BY <1>0, <2>1 DEF Counts
    <2> QED BY <1>3, <2>2, CalmFrame
  <1>4. CASE K!sink_enqueue
    BY <1>4, CalmEnqueues
  <1>5. CASE K!sink_enqueue_done
    <2>1. state' = state /\ pending_frames' = pending_frames
      BY <1>5 DEF K!sink_enqueue_done, K!playing
    <2>2. queued' = queued
      BY <1>0, <2>1 DEF Counts
    <2> QED BY <1>5, <2>2, CalmFilled
  <1>6. CASE K!sink_handle_other
    <2>1. pc = "iterate" /\ rx.msgs # << >> /\ Head(rx.msgs).type = "OTHER"
      BY <1>6 DEF K!sink_handle_other, K!Handling
    <2>2. WireOK /\ HandOK
      BY CalmTypes
    <2>3. PICK r \in Sources : rx.from = r
      BY <2>1, <2>2, HandFacts
    <2>4. Line(r) \in Seq(FromSource(r)) /\ Line(r) # << >> /\ Line(r)[1] = Head(rx.msgs)
      BY <2>1, <2>2, <2>3, LineInHand
    <2>5. Stream(r)
      BY CalmTypes DEF SourceOK
    <2>6. Head(rx.msgs).type \in {"BORROW", "ENQUEUE"}
      BY <2>4, <2>5, NoOthers
    <2> QED BY <2>1, <2>6
  <1>7. CASE K!sink_get_next \/ K!sink_get_done
    <2>1. state' = state /\ ~(Len(pending_frames') > Len(pending_frames))
      <3>1. pending_frames # << >> => Len(Tail(pending_frames)) = Len(pending_frames) - 1
        BY <1>0, HeadTailProperties
      <3>2. ~(Len(pending_frames) - 1 > Len(pending_frames))
            /\ ~(Len(pending_frames) > Len(pending_frames))
        BY <1>0
      <3> QED BY <1>7, <3>1, <3>2
              DEF K!sink_get_next, K!sink_get_done, K!mem_ring_dequeue
    <2>2. queued' = queued
      BY <2>1 DEF Counts
    <2> QED BY <1>7, <2>2, CalmShown
  <1> QED BY <1>1, <1>2, <1>3, <1>4, <1>5, <1>6, <1>7 DEF SinkContinues, K!Continue

-----------------------------------------------------------------------------
(* The steps of a source. *)

\* What source_update does to what Calm speaks of.
LEMMA UpdateCalm ==
  ASSUME NoWrap, now \in Nat, now <= MaxClock, NEW r, Sound(r), NEW msg \in Incoming,
         NEW u, u = source_update(r, msg), r.last_borrow_time <= now
  PROVE  /\ u.last_borrow_time \in {r.last_borrow_time, now}
         /\ Retries(source_receive(r, msg)) =>
              u.last_borrow_time = now /\ now > r.last_borrow_time + 1
         /\ r.state = "WAITING" /\ msg = Lent => u.state # "WAITING"
         /\ r.state = "OPEN" /\ Elapsed(r.last_recv_lent_time) < Disconnect =>
              (msg \in {None, Lent} => u.state = "OPEN")
         /\ u.state = "OPEN" => Elapsed(u.last_recv_lent_time) < Disconnect
  <1> DEFINE a == source_receive(r, msg)
             b == source_manage_borrow_packet_loss(a)
  <1>0. /\ time_now = now /\ Retry >= 1 /\ Retry \in Nat /\ Disconnect \in Nat \ {0}
        /\ r.last_borrow_time \in Nat /\ r \in Records
        /\ time_now \in 0 .. TimeMod - 1
    BY ClockSmall, Constants, TimeRange DEF Sound, Records
  <1>1. /\ a \in Records /\ a.last_borrow_time = r.last_borrow_time
        /\ r.state = "WAITING" /\ msg = Lent => a.state = "OPEN"
        /\ r.state = "OPEN" /\ msg = Lent => a.state = "OPEN" /\ a.last_recv_lent_time = now
        /\ msg = None => a = r
    <2>1. msg = None => a = r
      BY DEF source_receive
    <2>2. CASE msg = Lent
      <3>1. msg # None /\ msg.type = "LENT"
        BY <2>2, NoneIsNoMessage DEF Lent
      <3>2. a = source_lent(r)
        BY <3>1 DEF source_receive
      <3> HIDE DEF a
      <3> QED BY <1>0, <3>1, <3>2, Constants DEF source_lent, Records
    <2>3. CASE msg # Lent /\ msg # None
      <3>1. msg.type \in {"FAIL", "OTHER"}
        BY <2>3 DEF Incoming, Garbage, Fail
      <3>2. a = source_fail(r)
        BY <2>3, <3>1 DEF source_receive
      <3> HIDE DEF a
      <3> QED BY <1>0, <2>3, <3>2 DEF source_fail, Records
    <2> HIDE DEF a
    <2> QED BY <1>0, <2>1, <2>2, <2>3
  <1> HIDE DEF a
  <1>2. /\ b \in Records
        /\ b.last_borrow_time \in {a.last_borrow_time, now}
        /\ Retries(a) => b.last_borrow_time = now
        /\ b.state = "WAITING" => a.state = "WAITING"
        /\ a.state = "OPEN" => b = a
    BY <1>0, <1>1
       DEF source_manage_borrow_packet_loss, source_fail, GivesUp, Retries, Records
  <1> HIDE DEF b
  <1>3. u = source_ensure_lent_resent(b)
    BY DEF a, b, source_update
  <1>4. /\ u.last_borrow_time = b.last_borrow_time
        /\ u.state = "WAITING" => b.state = "WAITING"
        /\ b.state = "OPEN" /\ ~(Elapsed(b.last_recv_lent_time) >= Disconnect)
             => u.state = "OPEN"
    BY <1>2, <1>3 DEF source_ensure_lent_resent, source_fail, Records
  <1>5. Retries(a) => now > r.last_borrow_time + 1
    <2>1. Elapsed(r.last_borrow_time) = now - r.last_borrow_time
      BY <1>0, ElapsedSmall
    <2>2. Retries(a) => Elapsed(a.last_borrow_time) > Retry
      BY DEF Retries
    <2> QED BY <1>0, <1>1, <2>1, <2>2
  <1>6. Elapsed(now) < Disconnect
    <2>1. Elapsed(now) = now - now
      BY <1>0, ElapsedSmall
    <2> QED BY <1>0, <2>1
  <1>7. \A t \in Nat : /\ Elapsed(t) < Disconnect => ~(Elapsed(t) >= Disconnect)
                       /\ ~(Elapsed(t) >= Disconnect) => Elapsed(t) < Disconnect
    <2> TAKE t \in Nat
    <2>1. Elapsed(t) \in Int
      BY <1>0, ModRange, SourceAssumption DEF Elapsed
    <2> HIDE DEF a
    <2> QED BY <1>0, <2>1
  <1>8. ASSUME r.state = "OPEN", msg \in {None, Lent},
               Elapsed(r.last_recv_lent_time) < Disconnect
        PROVE  u.state = "OPEN"
    <2>1. a.state = "OPEN" /\ a.last_recv_lent_time \in {r.last_recv_lent_time, now}
      BY <1>1, <1>8
    <2>2. r.last_recv_lent_time \in Nat
      BY <1>8, SourceAssumption DEF Sound
    <2> QED BY <1>0, <1>2, <1>4, <1>6, <1>7, <1>8, <2>1, <2>2
  <1>9. ASSUME u.state = "OPEN" PROVE Elapsed(u.last_recv_lent_time) < Disconnect
    <2>1. Updated(r, u)
      BY UpdateFacts
    <2>2. u.last_recv_lent_time \in Nat
      BY <1>9, <2>1, SourceAssumption DEF Updated, Sound
    <2> QED BY <1>7, <1>9, <2>1, <2>2 DEF Updated
  <1> QED BY <1>1, <1>2, <1>4, <1>5, <1>8, <1>9 DEF a

\* Where a call that looks into the socket goes on.
LEMMA ReceivingCalm ==
  ASSUME TypeOK, NEW s \in Sources, NEW msg \in Incoming, Receiving(s, msg),
         NEW u, u = source_update(src[s], msg), NEW x, x = src'[s]
  PROVE  /\ src' = [src EXCEPT ![s] = x]
         /\ tx' = Resent(s, src[s], msg)
         /\ x.state = u.state /\ x.frames = u.frames /\ x.began = u.began
         /\ x.last_borrow_time = u.last_borrow_time
         /\ x.last_recv_lent_time = u.last_recv_lent_time
         /\ x.pc \notin {"unmade", "freed"}
         /\ x.pc = "put_timeout" => u.state = "OPEN"
         /\ x.pc = "put_send" => src[s].pc = "put_timeout"
  <1> DEFINE Like(y) ==
               /\ y.state = u.state /\ y.frames = u.frames /\ y.began = u.began
               /\ y.last_borrow_time = u.last_borrow_time
               /\ y.last_recv_lent_time = u.last_recv_lent_time
               /\ y.pc \notin {"unmade", "freed"}
               /\ y.pc = "put_timeout" => u.state = "OPEN"
               /\ y.pc = "put_send" => src[s].pc = "put_timeout"
  <1>1. u \in Records /\ u.pc = src[s].pc /\ DOMAIN src = Sources
    BY UpdateFacts DEF Updated, TypeOK, Sound
  <1> SUFFICES \E y : Update(s, msg, y) /\ Like(y)
    <2>1. ASSUME NEW y, Update(s, msg, y) PROVE src' = [src EXCEPT ![s] = y] /\ x = y
      BY <1>1, <2>1 DEF Update
    <2>2. ASSUME NEW y, Update(s, msg, y) PROVE tx' = Resent(s, src[s], msg)
      BY <2>2 DEF Update
    <2> HIDE DEF Like
    <2>3. ASSUME NEW y, Update(s, msg, y), Like(y)
          PROVE  src' = [src EXCEPT ![s] = x] /\ tx' = Resent(s, src[s], msg) /\ Like(x)
      BY <2>1, <2>2, <2>3
    <2> QED BY <2>3 DEF Like
  <1>2. CASE atolla_source_state(s, msg)
    BY <1>1, <1>2 DEF atolla_source_state
  <1>3. CASE source_await_make_completion(s, msg)
    <2> DEFINE y == IF u.state = "WAITING"
                    THEN [u EXCEPT !.wake = now + blocking_make_refresh_interval]
                    ELSE [u EXCEPT !.pc = "idle", !.wake = 0]
    <2>1. Like(y)
      BY <1>1, <1>3 DEF source_await_make_completion, Records
    <2>2. Update(s, msg, y)
      BY <1>3 DEF source_await_make_completion
    <2> HIDE DEF y
    <2> QED BY <2>1, <2>2
  <1>4. CASE put_update(s, msg)
    <2> DEFINE y == [u EXCEPT !.pc = "put_state"]
    <2>1. Like(y)
      BY <1>1 DEF Records
    <2>2. Update(s, msg, y)
      BY <1>4 DEF put_update
    <2> HIDE DEF y
    <2> QED BY <2>1, <2>2
  <1>5. CASE put_state(s, msg)
    <2> DEFINE y == IF u.state = "OPEN" THEN [u EXCEPT !.pc = "put_timeout"]
                    ELSE [u EXCEPT !.pc = "idle"]
    <2>1. Like(y)
      BY <1>1 DEF Records
    <2>2. Update(s, msg, y)
      BY <1>5 DEF put_state
    <2> HIDE DEF y
    <2> QED BY <2>1, <2>2
  <1>6. CASE put_timeout(s, msg)
    <2> DEFINE y == [u EXCEPT !.pc = "put_send", !.wake = now + Sleep(u)]
    <2>1. Like(y)
      BY <1>1, <1>6 DEF put_timeout, Records
    <2>2. Update(s, msg, y)
      BY <1>6 DEF put_timeout
    <2> HIDE DEF y
    <2> QED BY <2>1, <2>2
  <1> QED BY <1>2, <1>3, <1>4, <1>5, <1>6 DEF Receiving

\* While the sources have their turns the sink has nothing in hand, and what
\* is on its way to a source has arrived.
LEMMA AtTurn ==
  ASSUME NoWrap, IInv, PaceInv, Calm, turns # << >>, NEW s \in Sources
  PROVE  /\ Taken(s) = << >>
         /\ to_source[s] # << >> => Arrived(to_source[s])
         /\ Asks(s) => now <= src[s].last_borrow_time + 1
         /\ Waits(s) /\ ~Asks(s) => Line(s) = << >>
  <1> DEFINE q == to_sink[s]
             w == to_source[s]
  <1>0. /\ now \in Nat /\ q \in Seq([msg : FromSource(s), due : Nat])
        /\ w \in Seq([msg : FromSink, due : Nat])
        /\ Line(s) \in Seq(FromSource(s)) /\ Stream(s)
        /\ src[s].last_borrow_time \in Nat
        /\ OnTime(s)
    <2>1. /\ src[s] \in Records /\ SourceOK(s) /\ CalmSource(s)
      BY CalmTypes DEF Calm
    <2>2. src[s].last_borrow_time \in Nat
      BY <2>1, SourceAssumption DEF Records
    <2> QED BY <2>1, <2>2, CalmTypes DEF SourceOK, CalmSource
  <1>1. Taken(s) = << >>
    BY DEF Calm, SinkTime, Taken
  <1>2. w # << >> => Arrived(w)
    <2>1. w # << >> => 1 \in 1 .. Len(w) /\ Head(w) = w[1]
      BY <1>0, TailFacts
    <2> QED BY <1>0, <2>1 DEF Arrived, OnTime
  <1>3. Line(s) = Msgs(q)
    <2>1. Msgs(q) \in Seq(FromSource(s))
      BY <1>0, MsgsFacts
    <2> QED BY <1>1, <2>1, ConcatEmptySeq DEF Line
  <1>4. ASSUME Asks(s) PROVE now <= src[s].last_borrow_time + 1
    <2>1. PICK i \in 1 .. Len(Line(s)) : Line(s)[i].type = "BORROW"
      BY <1>4 DEF Asks
    <2>2. i \in 1 .. Len(q) /\ q[i].msg.type = "BORROW"
      BY <1>0, <1>3, <2>1, MsgsFacts
    <2>3. q[i].due \in {now, now + 1} /\ q[i].due <= src[s].last_borrow_time + 1
      BY <1>0, <2>2 DEF OnTime
    <2>4. \A t \in {now, now + 1} : \A b \in Nat : t <= b => now <= b
      BY <1>0
    <2>5. src[s].last_borrow_time + 1 \in Nat
      BY <1>0
    <2> QED BY <2>3, <2>4, <2>5
  <1>5. ASSUME Waits(s), ~Asks(s) PROVE Line(s) = << >>
    <2>1. PICK b \in Nat : Kinds(s, b)
      BY <1>0 DEF Stream
    <2>2. \A i \in 1 .. Len(Line(s)) : Line(s)[i].type = "BORROW"
      BY <1>5, <2>1 DEF Kinds
    <2>3. ~(1 \in 1 .. Len(Line(s)))
      BY <1>5, <2>2 DEF Asks
    <2> QED BY <1>0, <2>3, TailFacts
  <1> QED BY <1>1, <1>2, <1>4, <1>5

\* All that the rest of the argument needs to know of the step of a source.
Behaves(s, x) ==
  /\ src' = [src EXCEPT ![s] = x]
  /\ x.last_borrow_time \in {src[s].last_borrow_time, now}
  /\ x.pc = "put_timeout" => Elapsed(x.last_recv_lent_time) < Disconnect
  /\ x.pc = "freed" => x.state = "ERROR"
  /\ Asks(s) => Young(x) /\ x.pc # "unmade" /\ to_source'[s] = << >>
  /\ LentTo(s) => x.state # "WAITING" /\ (x.pc = "put_send" => x.state # "ERROR")
  /\ \/ to_source'[s] \in {to_source[s], << >>}
     \/ to_source[s] # << >> /\ to_source'[s] = Tail(to_source[s])
  /\ \/ /\ tx' = None
        /\ x.frames = src[s].frames /\ x.began = src[s].began
     \/ /\ tx' = From(s, BorrowMsg)
        /\ x.frames = src[s].frames /\ x.began = src[s].began
        /\ Line(s) = << >> /\ ~LentTo(s) /\ to_source'[s] = << >>
        /\ Young(x) /\ x.pc # "unmade" /\ x.last_borrow_time = now
     \/ /\ tx' = From(s, EnqueueMsg(s, src[s]))
        /\ src[s].pc = "put_send" /\ x.state = src[s].state
        /\ x.frames = src[s].frames + 1
        /\ x.began = IF src[s].frames = 0 THEN now ELSE src[s].began

\* A source looks into its socket.
LEMMA ReceivingBehaves ==
  ASSUME NoWrap, IInv, PaceInv, Calm, faults = 0, NEW s \in Sources,
         SourceReceives(s) \/ SourceReceivesNothing(s)
  PROVE  Behaves(s, src'[s])
  <1> DEFINE r == src[s]
             x == src'[s]
             w == to_source[s]
  <1>0. /\ now \in Nat /\ now <= MaxClock /\ TypeOK /\ r \in Records /\ Sound(r)
        /\ Numbered(r) /\ PaceOf(r, now) /\ turns # << >>
        /\ w \in Seq([msg : FromSink, due : Nat]) /\ s \in DOMAIN to_source
        /\ InCall(s) /\ Granted(s) /\ r.last_borrow_time <= now
    <2>1. turns # << >>
      BY DEF SourceReceives, SourceReceivesNothing, Runs
    <2>2. SourceOK(s) /\ CalmSource(s) /\ WireOK
      BY CalmTypes DEF Calm
    <2> QED BY <2>1, <2>2, CalmTypes DEF SourceOK, CalmSource, OnTime, WireOK
  <1>1. PICK msg \in Incoming :
          /\ Receiving(s, msg)
          /\ \/ /\ msg = None /\ ~Arrived(w) /\ to_source' = to_source
             \/ /\ msg # None /\ Arrived(w) /\ to_source'[s] = Tail(w)
                /\ LentTo(s) => msg = Lent
    <2>1. CASE SourceReceives(s)
      <3> DEFINE msg == Head(w).msg
      <3>1. w # << >> /\ Arrived(w) /\ Receiving(s, msg) /\ to_source'[s] = Tail(w)
        BY <1>0, <2>1 DEF SourceReceives, Arrived
      <3>2. 1 \in 1 .. Len(w) /\ Head(w) = w[1]
        BY <1>0, <3>1, TailFacts
      <3>3. LentTo(s) => msg = Lent
        BY <1>0, <3>2 DEF Granted
      <3>4. msg \in FromSink
        <4>1. Head(w) \in [msg : FromSink, due : Nat]
          BY <1>0, <3>1, SeqOps
        <4> QED BY <4>1
      <3>5. msg \in Incoming /\ msg # None
        BY <3>4, FromSinkIsIncoming, NoneIsNoMessage DEF FromSink
      <3> HIDE DEF msg, w
      <3> QED BY <3>1, <3>3, <3>5
    <2>2. CASE SourceReceivesNothing(s)
      BY <2>2 DEF SourceReceivesNothing, Incoming
    <2> QED BY <2>1, <2>2
  <1> DEFINE u == source_update(r, msg)
  <1>2. /\ src' = [src EXCEPT ![s] = x]
        /\ tx' = Resent(s, r, msg)
        /\ x.state = u.state /\ x.frames = u.frames /\ x.began = u.began
        /\ x.last_borrow_time = u.last_borrow_time
        /\ x.last_recv_lent_time = u.last_recv_lent_time
        /\ x.pc \notin {"unmade", "freed"}
        /\ x.pc = "put_timeout" => u.state = "OPEN"
        /\ x.pc = "put_send" => r.pc = "put_timeout"
    BY <1>0, <1>1, ReceivingCalm
  <1>3. /\ u.last_borrow_time \in {r.last_borrow_time, now}
        /\ Retries(source_receive(r, msg)) =>
             u.last_borrow_time = now /\ now > r.last_borrow_time + 1
        /\ r.state = "WAITING" /\ msg = Lent => u.state # "WAITING"
        /\ r.state = "OPEN" /\ Elapsed(r.last_recv_lent_time) < Disconnect =>
             (msg \in {None, Lent} => u.state = "OPEN")
        /\ u.state = "OPEN" => Elapsed(u.last_recv_lent_time) < Disconnect
    BY <1>0, UpdateCalm
  <1>4. /\ u.frames = r.frames /\ u.began = r.began
        /\ u.state = "WAITING" => r.state = "WAITING"
        /\ Retries(source_receive(r, msg)) => r.state = "WAITING" /\ msg = None
    BY <1>0, UpdateFacts, UpdateKeeps DEF Updated
  <1> HIDE DEF u
  <1>5. Young(r) /\ ~Arrived(w) => Young(x)
    <2>1. PICK y : Moves(s, y)
      BY SourceMoves
    <2>2. y = x
      BY <1>0, <2>1 DEF Moves, TypeOK
    <2> QED BY <2>1, <2>2 DEF Moves
  <1>6. /\ w # << >> => Arrived(w)
        /\ Asks(s) => now <= r.last_borrow_time + 1
        /\ Waits(s) /\ ~Asks(s) => Line(s) = << >>
    BY <1>0, AtTurn
  <1>7. Asks(s) => Young(x) /\ to_source'[s] = << >>
    <2>1. Asks(s) => Young(r) /\ w = << >> /\ ~Arrived(w)
      BY <1>0 DEF Granted, Arrived
    <2> QED BY <1>1, <1>5, <2>1
  <1>8. ASSUME LentTo(s) PROVE x.state # "WAITING"
    <2>1. ASSUME x.state = "WAITING" PROVE FALSE
      <3>1. r.state = "WAITING" /\ w # << >>
        BY <1>0, <1>2, <1>4, <1>8, <2>1 DEF Granted, Waits
      <3>2. msg = Lent
        BY <1>1, <1>6, <1>8, <3>1
      <3> QED BY <1>2, <1>3, <2>1, <3>1, <3>2
    <2> QED BY <2>1
  <1>9. ASSUME LentTo(s), x.pc = "put_send" PROVE x.state # "ERROR"
    <2>1. r.pc = "put_timeout" /\ r.state = "OPEN" /\ Elapsed(r.last_recv_lent_time) < Disconnect
      BY <1>0, <1>2, <1>9 DEF InCall, PaceOf
    <2>2. msg \in {None, Lent}
      BY <1>1, <1>9
    <2> QED BY <1>2, <1>3, <2>1, <2>2
  <1>10. \/ tx' = None
         \/ /\ tx' = From(s, BorrowMsg)
            /\ Line(s) = << >> /\ ~LentTo(s) /\ to_source'[s] = << >>
            /\ Young(x) /\ x.last_borrow_time = now
    <2>1. ASSUME Retries(source_receive(r, msg))
          PROVE  /\ Line(s) = << >> /\ ~LentTo(s) /\ to_source'[s] = << >>
                 /\ Young(x) /\ x.last_borrow_time = now
      <3>1. /\ r.state = "WAITING" /\ msg = None /\ x.last_borrow_time = now
            /\ now > r.last_borrow_time + 1
        BY <1>2, <1>3, <1>4, <2>1
      <3>2. ~Asks(s)
        <4>1. \A b \in 0 .. TimeMod - 1 : ~(now > b + 1 /\ now <= b + 1)
          BY <1>0, SourceAssumption
        <4>2. r.last_borrow_time \in 0 .. TimeMod - 1
          BY <1>0 DEF Records
        <4> QED BY <1>6, <3>1, <4>1, <4>2
      <3>3. w = << >> /\ ~Arrived(w) /\ to_source'[s] = << >>
        BY <1>1, <1>6, <3>1, NoneIsNoMessage
      <3>4. Young(r)
        BY <1>0, <3>1 DEF Young, Numbered
      <3>5. ~LentTo(s)
        BY <1>0, <3>1, <3>3 DEF Granted, Waits
      <3> QED BY <1>5, <1>6, <3>1, <3>2, <3>3, <3>4, <3>5 DEF Waits
    <2> QED BY <1>2, <2>1 DEF Resent
  <1>11. \/ to_source'[s] \in {w, << >>}
         \/ w # << >> /\ to_source'[s] = Tail(w)
    BY <1>1 DEF Arrived
  <1>12. x.pc = "put_timeout" => Elapsed(x.last_recv_lent_time) < Disconnect
    BY <1>2, <1>3
  <1> HIDE DEF x, w
  <1> QED BY <1>2, <1>3, <1>4, <1>7, <1>8, <1>9, <1>10, <1>11, <1>12 DEF Behaves, x, w

\* A source is made, sends a frame, or is freed.
LEMMA ActsBehaves ==
  ASSUME NoWrap, IInv, PaceInv, Calm, faults = 0, NEW s \in Sources, SourceActs(s)
  PROVE  Behaves(s, src'[s])
  <1> DEFINE r == src[s]
             x == src'[s]
             w == to_source[s]
  <1>0. /\ now \in Nat /\ time_now = now /\ r \in Records /\ DOMAIN src = Sources
        /\ Numbered(r) /\ PaceOf(r, now) /\ turns # << >>
        /\ (r.pc = "unmade" => Waits(s) /\ w = << >>)
        /\ Granted(s)
    <2>1. turns # << >>
      BY DEF SourceActs, Runs
    <2>2. SourceOK(s) /\ CalmSource(s)
      BY CalmTypes DEF Calm
    <2> QED BY <2>1, <2>2, CalmTypes DEF SourceOK, CalmSource, Timely
  <1>1. to_source'[s] \in {w, << >>}
    <2>1. s \in DOMAIN to_source
      BY CalmTypes DEF WireOK
    <2> QED BY <2>1 DEF SourceActs
  <1>2. CASE atolla_source_make(s, TRUE, TRUE)
    <2> DEFINE y == [source_private_make EXCEPT
                       !.first_borrow_time = time_now,
                       !.last_borrow_time = time_now,
                       !.pc = "idle",
                       !.wake = now + blocking_make_refresh_interval]
    <2>1. src' = [src EXCEPT ![s] = y] /\ tx' = From(s, BorrowMsg) /\ r.pc = "unmade"
      BY <1>2 DEF atolla_source_make
    <2>2. /\ y.state = "WAITING" /\ y.frames = 0 /\ y.began = 0 /\ y.pc = "idle"
          /\ y.last_borrow_time = now
      BY <1>0 DEF source_private_make
    <2> HIDE DEF y
    <2>3. x = y
      BY <1>0, <2>1
    <2>4. r.frames = 0 /\ r.began = 0
      BY <1>0, <2>1 DEF Numbered, Waits, PaceOf, Base
    <2>5. ~Asks(s) /\ Line(s) = << >>
      BY <1>0, <2>1, AtTurn DEF Granted
    <2>6. ~LentTo(s) /\ to_source'[s] = << >>
      BY <1>0, <1>1, <2>1 DEF Granted
    <2> HIDE DEF x, w
    <2> QED BY <1>1, <2>1, <2>2, <2>3, <2>4, <2>5, <2>6 DEF Behaves, Young, x, w
  <1>3. CASE put_send(s)
    <2> DEFINE y == FrameSent(r)
    <2>1. /\ src' = [src EXCEPT ![s] = y] /\ tx' = From(s, EnqueueMsg(s, src[s]))
          /\ r.pc = "put_send"
      BY <1>3 DEF put_send
    <2>2. /\ y.state = r.state /\ y.frames = r.frames + 1 /\ y.pc = "idle"
          /\ y.began = IF r.frames = 0 THEN now ELSE r.began
          /\ y.last_borrow_time = r.last_borrow_time
      BY <1>0 DEF FrameSent, Records
    <2> HIDE DEF y
    <2>3. x = y
      BY <1>0, <2>1
    <2>4. ~Asks(s) /\ r.state # "WAITING"
      BY <1>0, <2>1 DEF Granted, Young, Numbered
    <2> HIDE DEF x, w
    <2> QED BY <1>1, <2>1, <2>2, <2>3, <2>4 DEF Behaves, x, w
  <1>4. CASE r.state = "ERROR" /\ atolla_source_free(s)
    <2> DEFINE y == [r EXCEPT !.pc = "freed"]
    <2>1. src' = [src EXCEPT ![s] = y] /\ tx' = None
      BY <1>4 DEF atolla_source_free
    <2>2. /\ y.state = "ERROR" /\ y.frames = r.frames /\ y.pc = "freed"
          /\ y.began = r.began /\ y.last_borrow_time = r.last_borrow_time
      BY <1>0, <1>4 DEF Records
    <2> HIDE DEF y
    <2>3. x = y
      BY <1>0, <2>1
    <2>4. Asks(s) => Young(y) /\ to_source'[s] = << >>
      BY <1>0, <1>1, <2>2 DEF Granted, Young
    <2> HIDE DEF x, w
    <2> QED BY <1>1, <2>1, <2>2, <2>3, <2>4 DEF Behaves, x, w
  <1> QED BY <1>2, <1>3, <1>4 DEF SourceActs

\* What a source sends joins its queue and its line, and nobody else's.
LEMMA BehavesSends ==
  ASSUME NoWrap, IInv, PaceInv, NEW s \in Sources, NEW x, Behaves(s, x),
         SourceSends, UNCHANGED sink
  PROVE  /\ \A r \in Sources \ {s} : to_sink'[r] = to_sink[r] /\ Line(r)' = Line(r)
         /\ \/ to_sink'[s] = to_sink[s] /\ Line(s)' = Line(s)
            \/ \E m \in FromSource(s) :
                 /\ tx' = From(s, m) /\ tx' # None
                 /\ m = BorrowMsg \/ m = EnqueueMsg(s, src[s])
                 /\ to_sink'[s] = Append(to_sink[s], InFlight(m))
                 /\ Line(s)' = Append(Line(s), m)
  <1>0. SystemInv /\ HandOK /\ src[s] \in Records
    BY CalmTypes
  <1>1. BorrowMsg \in FromSource(s)
    BY DEF BorrowMsg, FromSource, K!Messages, K!Borrow
  <1>2. EnqueueMsg(s, src[s]) \in FromSource(s)
    <2> DEFINE i == src[s].next_frame_idx
               t == src[s].frames
    <2>1. i \in 0 .. IdxMod - 1 /\ t \in Nat
      BY <1>0 DEF Records
    <2>2. EnqueueMsg(s, src[s]) = K!Enqueue(i, [by |-> s, tag |-> t], FALSE)
      BY DEF EnqueueMsg, K!Enqueue
    <2>3. \A j \in 0 .. IdxMod - 1, u \in Nat, b \in BOOLEAN :
            K!Enqueue(j, [by |-> s, tag |-> u], b) \in FromSource(s)
      <3>1. \A j \in 0 .. IdxMod - 1, u \in Nat, b \in BOOLEAN :
              K!Enqueue(j, [by |-> s, tag |-> u], b) \in
                {K!Enqueue(k, [by |-> s, tag |-> v], c) :
                   k \in 0 .. IdxMod - 1, v \in Nat, c \in BOOLEAN}
        OBVIOUS
      <3> QED BY <3>1 DEF FromSource, K!Messages
    <2> HIDE DEF i, t
    <2> QED BY <2>1, <2>2, <2>3
  <1>3. CASE tx' = None
    BY <1>3, NothingSent
  <1>4. ASSUME NEW m \in FromSource(s), tx' = From(s, m), tx' # None,
               m = BorrowMsg \/ m = EnqueueMsg(s, src[s])
        PROVE  /\ \A r \in Sources \ {s} : to_sink'[r] = to_sink[r] /\ Line(r)' = Line(r)
               /\ \/ to_sink'[s] = to_sink[s] /\ Line(s)' = Line(s)
                  \/ \E n \in FromSource(s) :
                       /\ tx' = From(s, n) /\ tx' # None
                       /\ n = BorrowMsg \/ n = EnqueueMsg(s, src[s])
                       /\ to_sink'[s] = Append(to_sink[s], InFlight(n))
                       /\ Line(s)' = Append(Line(s), n)
    BY <1>0, <1>4, LineSent
  <1>5. tx' = None \/ tx' = From(s, BorrowMsg) \/ tx' = From(s, EnqueueMsg(s, src[s]))
    BY DEF Behaves
  <1> QED BY <1>1, <1>2, <1>3, <1>4, <1>5

\* A frame and a request for a loan are told apart, also in their envelopes.
LEMMA Envelopes ==
  ASSUME NEW s \in Sources, NEW m, m = BorrowMsg \/ m = EnqueueMsg(s, src[s]),
         tx' = From(s, m)
  PROVE  /\ m = BorrowMsg => m.type = "BORROW" /\ tx' # From(s, EnqueueMsg(s, src[s]))
         /\ m = EnqueueMsg(s, src[s]) =>
              /\ m.type = "ENQUEUE" /\ ~m.short /\ m.frame.tag = src[s].frames
              /\ tx' # From(s, BorrowMsg)
  <1>1. \A n : From(s, n).msg = n
    BY DEF From
  <1>2. BorrowMsg.type = "BORROW"
    BY DEF BorrowMsg
  <1>3. /\ EnqueueMsg(s, src[s]).type = "ENQUEUE" /\ ~EnqueueMsg(s, src[s]).short
        /\ EnqueueMsg(s, src[s]).frame.tag = src[s].frames
    BY DEF EnqueueMsg
  <1>4. From(s, BorrowMsg) # From(s, EnqueueMsg(s, src[s]))
    BY <1>1, <1>2, <1>3
  <1> QED BY <1>2, <1>3, <1>4

\* What that leaves of the invariant, part by part: the order of the queues, ...
LEMMA BehavesOnTime ==
  ASSUME NoWrap, IInv, PaceInv, NEW s \in Sources, CalmSource(s),
         Behaves(s, src'[s]), now' = now, turns' = turns, SourceSends, UNCHANGED sink
  PROVE  OnTime(s)'
  <1> DEFINE q == to_sink[s]
             v == to_sink'[s]
             b == src[s].last_borrow_time
             w == to_source[s]
  <1>0. /\ now \in Nat /\ b \in Nat /\ b <= now
        /\ q \in Seq([msg : FromSource(s), due : Nat])
        /\ w \in Seq([msg : FromSink, due : Nat])
        /\ OnTime(s)
    <2>1. src[s] \in Records
      BY CalmTypes
    <2>2. b \in Nat
      BY <2>1, SourceAssumption DEF Records
    <2> QED BY <2>2, CalmTypes DEF CalmSource, OnTime
  <1>1. src'[s].last_borrow_time \in {b, now}
    BY DEF Behaves
  <1>2. /\ \A i \in 1 .. Len(q) :
             /\ q[i].due \in {now, now + 1}
             /\ q[i].msg.type = "BORROW" => q[i].due <= b + 1
        /\ \A i, j \in 1 .. Len(q) : i <= j => q[i].due <= q[j].due
    BY <1>0 DEF OnTime
  <1>3. \A i \in 1 .. Len(q) :
          q[i].msg.type = "BORROW" => q[i].due <= src'[s].last_borrow_time + 1
    <2>1. \A t \in {now, now + 1} : t <= b + 1 => t <= now + 1
      BY <1>0
    <2> HIDE DEF q, b
    <2> QED BY <1>1, <1>2, <2>1
  <1> HIDE DEF q, v
  <1>4. /\ \A i \in 1 .. Len(v) :
             /\ v[i].due \in {now, now + 1}
             /\ v[i].msg.type = "BORROW" => v[i].due <= src'[s].last_borrow_time + 1
        /\ \A i, j \in 1 .. Len(v) : i <= j => v[i].due <= v[j].due
    <2>1. CASE v = q
      BY <1>2, <1>3, <2>1
    <2>2. ASSUME NEW m \in FromSource(s), v = Append(q, InFlight(m)),
                 tx' = From(s, m), tx' # None,
                 m = BorrowMsg \/ m = EnqueueMsg(s, src[s])
          PROVE  /\ \A i \in 1 .. Len(v) :
                      /\ v[i].due \in {now, now + 1}
                      /\ v[i].msg.type = "BORROW" => v[i].due <= src'[s].last_borrow_time + 1
                 /\ \A i, j \in 1 .. Len(v) : i <= j => v[i].due <= v[j].due
      <3> DEFINE P == [msg : FromSource(s), due : Nat]
      <3>1. InFlight(m) \in P /\ q \in Seq(P)
        BY <1>0 DEF InFlight
      <3> HIDE DEF P
      <3>2. /\ Len(q) \in Nat /\ Len(v) = Len(q) + 1
            /\ \A i \in 1 .. Len(v) :
                 \/ i \in 1 .. Len(q) /\ v[i] = q[i]
                 \/ i = Len(q) + 1 /\ v[i].msg = m /\ v[i].due = now + 1
        BY <2>2, <3>1, SentFacts
      <3>3. m.type = "BORROW" => src'[s].last_borrow_time = now
        BY <2>2, Envelopes DEF Behaves
      <3>4. \A i \in 1 .. Len(v) :
              /\ v[i].due \in {now, now + 1}
              /\ v[i].msg.type = "BORROW" => v[i].due <= src'[s].last_borrow_time + 1
        BY <1>0, <1>2, <1>3, <3>2, <3>3
      <3>5. \A i, j \in 1 .. Len(v) : i <= j => v[i].due <= v[j].due
        <4> TAKE i, j \in 1 .. Len(v)
        <4>1. CASE i \in 1 .. Len(q) /\ j \in 1 .. Len(q)
          BY <1>2, <3>2, <4>1
        <4>2. CASE j = Len(q) + 1
          <5>1. v[j].due = now + 1
            BY <3>2, <4>2
          <5>2. v[i].due \in {now, now + 1}
            BY <3>4
          <5> QED BY <1>0, <5>1, <5>2
        <4>3. CASE i = Len(q) + 1 /\ j \in 1 .. Len(q)
          BY <3>2, <4>3
        <4> QED BY <3>2, <4>1, <4>2, <4>3
      <3> QED BY <3>4, <3>5
    <2>3. v = q \/ \E m \in FromSource(s) :
            /\ v = Append(q, InFlight(m))
            /\ tx' = From(s, m) /\ tx' # None
            /\ m = BorrowMsg \/ m = EnqueueMsg(s, src[s])
      BY BehavesSends DEF q, v
    <2> QED BY <2>1, <2>2, <2>3
  <1>5. \A i \in 1 .. Len(to_source'[s]) :
          /\ to_source'[s][i].due <= now + 1
          /\ turns # << >> => to_source'[s][i].due <= now
    <2>1. \A i \in 1 .. Len(w) : w[i].due <= now + 1 /\ (turns # << >> => w[i].due <= now)
      BY <1>0 DEF OnTime
    <2>2. CASE to_source'[s] = w
      BY <2>1, <2>2
    <2>3. CASE to_source'[s] = << >>
      <3>1. \A i \in 1 .. Len(<< >>) : FALSE
        OBVIOUS
      <3> QED BY <2>3, <3>1
    <2>4. CASE w # << >> /\ to_source'[s] = Tail(w)
      <3> HIDE DEF w
      <3>1. \A i \in 1 .. Len(Tail(w)) : i + 1 \in 1 .. Len(w) /\ Tail(w)[i] = w[i + 1]
        BY <1>0, <2>4, TailFacts
      <3> QED BY <2>1, <2>4, <3>1
    <2> QED BY <2>2, <2>3, <2>4 DEF Behaves
  <1>6. src'[s].last_borrow_time <= now
    BY <1>0, <1>1
  <1> QED BY <1>4, <1>5, <1>6 DEF OnTime, v

\* ... who asks and who was granted, ...
LEMMA BehavesGranted ==
  ASSUME NoWrap, IInv, PaceInv, NEW s \in Sources, CalmSource(s),
         Behaves(s, src'[s]), SourceSends, UNCHANGED sink
  PROVE  Granted(s)'
  <1> DEFINE l == Line(s)
             k == Line(s)'
             w == to_source[s]
             x == src'[s]
  <1>0. /\ l \in Seq(FromSource(s)) /\ w \in Seq([msg : FromSink, due : Nat])
        /\ Granted(s)
    BY CalmTypes DEF CalmSource
  <1>1. LentTo(s)' <=> LentTo(s)
    BY DEF LentTo, sink
  <1>2. Asks(s)' <=> \E i \in 1 .. Len(k) : k[i].type = "BORROW"
    BY DEF Asks
  <1> DEFINE Asked == Asks(s)' => /\ Len(k) = 1 /\ Young(x) /\ x.pc # "unmade"
                                  /\ to_source'[s] = << >>
                                  /\ ~LentTo(s)
  <1>3. ASSUME k = l PROVE Asked
    <2>1. Asks(s)' <=> Asks(s)
      BY <1>3 DEF Asks
    <2>2. Asks(s) => Len(l) = 1 /\ ~LentTo(s)
      BY <1>0 DEF Granted
    <2>3. Asks(s) => Young(x) /\ x.pc # "unmade" /\ to_source'[s] = << >>
      BY DEF Behaves
    <2> HIDE DEF k, l, x
    <2> QED BY <1>3, <2>1, <2>2, <2>3
  <1> HIDE DEF k, l
  <1>4. ASSUME NEW m \in FromSource(s), k = Append(l, m),
               tx' = From(s, m), tx' # None,
               m = BorrowMsg \/ m = EnqueueMsg(s, src[s])
        PROVE  Asked
    <2>1. /\ Len(l) \in Nat /\ Len(k) = Len(l) + 1 /\ k[Len(l) + 1] = m
          /\ \A i \in 1 .. Len(l) : k[i] = l[i]
      BY <1>0, <1>4, AppendProperties, LenProperties
    <2>2. CASE m = BorrowMsg
      <3>1. /\ l = << >> /\ ~LentTo(s) /\ to_source'[s] = << >>
            /\ Young(x) /\ x.pc # "unmade"
        BY <1>4, <2>2, Envelopes DEF Behaves, l
      <3>2. Len(k) = 1
        BY <2>1, <3>1
      <3> QED BY <3>1, <3>2
    <2>3. CASE m = EnqueueMsg(s, src[s])
      <3>1. src[s].pc = "put_send" /\ m.type = "ENQUEUE"
        BY <1>4, <2>3, Envelopes DEF Behaves
      <3>2. ~Asks(s)
        BY <1>0, <3>1 DEF Granted, Young
      <3>3. \A i \in 1 .. Len(l) : l[i].type # "BORROW"
        BY <3>2 DEF Asks, l
      <3>4. \A i \in 1 .. Len(k) : k[i].type # "BORROW"
        <4> TAKE i \in 1 .. Len(k)
        <4>1. i \in 1 .. Len(l) \/ i = Len(l) + 1
          BY <2>1
        <4> QED BY <2>1, <3>1, <3>3, <4>1
      <3> QED BY <1>2, <3>4
    <2> QED BY <1>4, <2>2, <2>3
  <1>5. Asked
    <2>1. k = l \/ \E m \in FromSource(s) :
            /\ k = Append(l, m)
            /\ tx' = From(s, m) /\ tx' # None
            /\ m = BorrowMsg \/ m = EnqueueMsg(s, src[s])
      BY BehavesSends DEF k, l
    <2> HIDE DEF x
    <2> QED BY <1>3, <1>4, <2>1
  <1>6. LentTo(s) => \A i \in 1 .. Len(to_source'[s]) : to_source'[s][i].msg = Lent
    <2>1. LentTo(s) => \A i \in 1 .. Len(w) : w[i].msg = Lent
      BY <1>0 DEF Granted
    <2>2. CASE to_source'[s] = w
      BY <2>1, <2>2
    <2>3. CASE to_source'[s] = << >>
      <3>1. \A i \in 1 .. Len(<< >>) : FALSE
        OBVIOUS
      <3> QED BY <2>3, <3>1
    <2>4. CASE w # << >> /\ to_source'[s] = Tail(w)
      <3> HIDE DEF w
      <3>1. \A i \in 1 .. Len(Tail(w)) : i + 1 \in 1 .. Len(w) /\ Tail(w)[i] = w[i + 1]
        BY <1>0, <2>4, TailFacts
      <3> QED BY <2>1, <2>4, <3>1
    <2> QED BY <2>2, <2>3, <2>4 DEF Behaves
  <1>7. LentTo(s) => x.state # "WAITING" /\ (x.pc = "put_send" => x.state # "ERROR")
    BY DEF Behaves
  <1> QED BY <1>1, <1>5, <1>6, <1>7 DEF Granted, Waits, k

\* ... and the frames.
LEMMA BehavesWhole ==
  ASSUME NoWrap, IInv, PaceInv, NEW s \in Sources, CalmSource(s),
         Behaves(s, src'[s]), SourceSends, UNCHANGED sink
  PROVE  Whole(s)'
  <1> DEFINE l == Line(s)
             k == Line(s)'
  <1>1. l \in Seq(FromSource(s)) /\ Whole(s)
    BY CalmTypes DEF CalmSource
  <1>2. \A i \in 1 .. Len(l) : l[i].type = "ENQUEUE" => ~l[i].short
    BY <1>1 DEF Whole
  <1>3. k = l \/ \E m \in FromSource(s) :
          /\ k = Append(l, m) /\ tx' = From(s, m)
          /\ m = BorrowMsg \/ m = EnqueueMsg(s, src[s])
    BY BehavesSends
  <1> HIDE DEF l, k
  <1>4. ASSUME NEW m \in FromSource(s), k = Append(l, m), tx' = From(s, m),
               m = BorrowMsg \/ m = EnqueueMsg(s, src[s])
        PROVE  \A i \in 1 .. Len(k) : k[i].type = "ENQUEUE" => ~k[i].short
    <2>1. /\ Len(l) \in Nat /\ Len(k) = Len(l) + 1 /\ k[Len(l) + 1] = m
          /\ \A i \in 1 .. Len(l) : k[i] = l[i]
      BY <1>1, <1>4, AppendProperties, LenProperties
    <2>2. m.type = "ENQUEUE" => ~m.short
      BY <1>4, Envelopes
    <2> TAKE i \in 1 .. Len(k)
    <2>3. i \in 1 .. Len(l) \/ i = Len(l) + 1
      BY <2>1
    <2> QED BY <1>2, <2>1, <2>2, <2>3
  <1>5. \A i \in 1 .. Len(k) : k[i].type = "ENQUEUE" => ~k[i].short
    BY <1>2, <1>3, <1>4
  <1> QED BY <1>5 DEF Whole, k

\* ... What it has sent is paced, ...
LEMMA BehavesPaced ==
  ASSUME NoWrap, IInv, PaceInv, Calm, turns # << >>, NEW s \in Sources, LentTo(s),
         Behaves(s, src'[s]), Paced', now' = now, SourceSends, UNCHANGED sink
  PROVE  LinePaced(s)'
  <1> DEFINE q == to_sink[s]
             v == to_sink'[s]
             f == src[s].frames
             b == src[s].began
             x == src'[s]
             d == frame_duration_ms
  <1>0. /\ now \in Nat /\ f \in Nat /\ b \in Nat
        /\ q \in Seq([msg : FromSource(s), due : Nat])
        /\ LinePaced(s) /\ Granted(s) /\ Taken(s) = << >> /\ Taken(s)' = << >>
    <2>1. src[s] \in Records /\ CalmSource(s) /\ DOMAIN src = Sources
      BY CalmTypes DEF Calm
    <2>2. f \in Nat /\ b \in Nat
      BY <2>1 DEF Records
    <2>3. Taken(s) = << >>
      BY AtTurn
    <2>4. Taken(s)' = Taken(s)
      BY DEF Taken, sink
    <2> QED BY <2>1, <2>2, <2>3, <2>4, CalmTypes DEF CalmSource, Behaves

  <1> DEFINE Since(n, t) == /\ n < x.frames
                            /\ ((n + 1) - Buffered) * d <= t - x.began
                            /\ n = 0 => t = x.began
             Fine(p) == p.msg.type = "ENQUEUE" => Since(p.msg.frame.tag, p.due - 1)
  <1>1. /\ x.frames \in Nat /\ x.frames >= f /\ (f > 0 => x.began = b)
        /\ x.frames = f \/ tx' = From(s, EnqueueMsg(s, src[s]))
    <2>1. x.frames = f \/ x.frames = f + 1
      BY DEF Behaves
    <2>2. x.frames \in Nat /\ x.frames >= f
      BY <1>0, <2>1
    <2>3. f > 0 => x.began = b
      BY <1>0 DEF Behaves
    <2> QED BY <2>2, <2>3 DEF Behaves
  <1>2. \A i \in 1 .. Len(q) : q[i].msg.type = "ENQUEUE" =>
          /\ q[i].msg.frame.tag \in Nat
          /\ Sent(s, q[i].msg.frame.tag, q[i].due - 1)
    <2>1. \A m \in FromSource(s) : m.type = "ENQUEUE" => m.frame.tag \in Nat
      BY DEF FromSource, K!Messages, K!Borrow, K!Enqueue, K!Other
    <2> DEFINE P == [msg : FromSource(s), due : Nat]
    <2>2. \A i \in 1 .. Len(q) : q[i] \in P
      BY <1>0, ElementOfSeq
    <2>3. \A p \in P : p.msg \in FromSource(s)
      OBVIOUS
    <2>4. \A i \in 1 .. Len(q) : q[i].msg.type = "ENQUEUE" =>
            Sent(s, q[i].msg.frame.tag, q[i].due - 1)
      BY <1>0 DEF LinePaced
    <2> HIDE DEF P, q
    <2> QED BY <2>1, <2>2, <2>3, <2>4
  <1>3. \A n \in Nat : \A t : Sent(s, n, t) => Since(n, t)
    <2>1. \A n \in Nat : n < f => n < x.frames /\ x.began = b
      BY <1>0, <1>1
    <2> HIDE DEF f, b
    <2> QED BY <2>1 DEF Sent, PacedAt, f, b
  <1> HIDE DEF q, v, Since
  <1>4. \A i \in 1 .. Len(q) : Fine(q[i])
    BY <1>2, <1>3
  <1>5. ASSUME NEW m \in FromSource(s), v = Append(q, InFlight(m)),
               tx' = From(s, m), tx' # None,
               m = BorrowMsg \/ m = EnqueueMsg(s, src[s])
        PROVE  \A i \in 1 .. Len(v) : Fine(v[i])
    <2> DEFINE P == [msg : FromSource(s), due : Nat]
    <2>1. InFlight(m) \in P /\ q \in Seq(P)
      BY <1>0 DEF InFlight, q
    <2> HIDE DEF P, Fine
    <2>2. \A i \in 1 .. Len(v) :
            \/ i \in 1 .. Len(q) /\ v[i] = q[i]
            \/ i = Len(q) + 1 /\ v[i].msg = m /\ v[i].due = now + 1
      BY <1>5, <2>1, SentFacts
    <2>3. ASSUME m.type = "ENQUEUE" PROVE Since(m.frame.tag, now)
      <3>1. /\ src[s].pc = "put_send" /\ x.state = src[s].state
            /\ x.frames = f + 1 /\ m.frame.tag = f
            /\ x.began = IF f = 0 THEN now ELSE b
        BY <1>5, <2>3, Envelopes DEF Behaves
      <3>2. x.state # "ERROR"
        BY <1>0, <3>1 DEF Granted
      <3>3. (x.frames - Buffered) * d <= now - x.began
        BY <3>2 DEF Paced, Allowed
      <3>4. f < x.frames /\ (f = 0 => now = x.began)
        BY <1>0, <3>1
      <3> HIDE DEF f, x, b
      <3> QED BY <3>1, <3>3, <3>4 DEF Since
    <2>4. (now + 1) - 1 = now
      BY <1>0
    <2>5. \A i \in 1 .. Len(v) : v[i].msg = m /\ v[i].due = now + 1 => Fine(v[i])
      BY <2>3, <2>4 DEF Fine
    <2> QED BY <1>4, <2>2, <2>5
  <1>6. v = q \/ \E m \in FromSource(s) :
          /\ v = Append(q, InFlight(m))
          /\ tx' = From(s, m) /\ tx' # None
          /\ m = BorrowMsg \/ m = EnqueueMsg(s, src[s])
    BY BehavesSends DEF q, v
  <1>7. \A i \in 1 .. Len(v) : Fine(v[i])
    BY <1>4, <1>5, <1>6
  <1>8. \A i \in 1 .. Len(Taken(s)') : FALSE
    <2>1. \A i \in 1 .. Len(<< >>) : FALSE
      OBVIOUS
    <2> QED BY <1>0, <2>1
  <1> QED BY <1>7, <1>8 DEF LinePaced, Sent, PacedAt, Since, v

\* ... and its step leaves the others alone.
LEMMA CalmBehaves ==
  ASSUME NoWrap, Unhurried, IInv, PaceInv, Calm, faults = 0, Paced', queued' = queued,
         NEW s \in Sources,
         SourceReceives(s) \/ SourceReceivesNothing(s) \/ SourceActs(s)
  PROVE  Calm'
  <1> DEFINE x == src'[s]
  <1>1. Behaves(s, x)
    BY ReceivingBehaves, ActsBehaves
  <1>2. /\ now' = now /\ SourceSends /\ UNCHANGED sink
        /\ \A r \in Sources \ {s} : to_source'[r] = to_source[r]
        /\ \A r \in Sources \ {s} : src'[r] = src[r]
    <2>1. \A r \in Sources \ {s} : src'[r] = src[r]
      <3>1. src' = [src EXCEPT ![s] = x]
        BY <1>1 DEF Behaves
      <3>2. DOMAIN src = Sources
        BY CalmTypes
      <3> HIDE DEF x
      <3> QED BY <3>1, <3>2
    <2> QED BY <2>1, SourceMoves DEF Moves
  <1>3. turns # << >> /\ Head(turns) = s /\ turns' = turns /\ served' = served
    BY DEF SourceReceives, SourceReceivesNothing, SourceActs, Runs, schedule
  <1>4. \A r \in Sources : LentTo(r)' <=> LentTo(r)
    BY <1>2 DEF LentTo, sink
  <1>5. SinkTime'
    <2>1. SinkTime
      BY DEF Calm
    <2> QED BY <1>2, <1>3, <2>1 DEF SinkTime, sink
  <1>6. \A r \in Sources \ {s} : to_sink'[r] = to_sink[r] /\ Line(r)' = Line(r)
    BY <1>1, <1>2, BehavesSends
  <1>7. ASSUME NEW r \in Sources, r # s PROVE CalmSource(r)'
    <2>1. CalmSource(r) /\ Taken(r)' = Taken(r)
      BY <1>2 DEF Calm, Taken, sink
    <2> QED BY <1>2, <1>3, <1>4, <1>6, <1>7, <2>1, CalmSame
  <1>8. CalmSource(s)'
    <2>1. CalmSource(s)
      BY DEF Calm
    <2>2. OnTime(s)'
      BY <1>1, <1>2, <1>3, <2>1, BehavesOnTime
    <2>3. InCall(s)'
      <3>1. x.pc = "put_timeout" =>
              ((now' % TimeMod) - x.last_recv_lent_time) % TimeMod < Disconnect
        BY <1>1, <1>2 DEF Behaves, Elapsed, time_now
      <3>2. x.pc = "freed" => x.state = "ERROR"
        BY <1>1 DEF Behaves
      <3> QED BY <1>3, <3>1, <3>2 DEF InCall, Elapsed, time_now
    <2>4. Granted(s)' /\ Whole(s)'
      BY <1>1, <1>2, <2>1, BehavesGranted, BehavesWhole
    <2>5. LentTo(s)' => LinePaced(s)'
      BY <1>1, <1>2, <1>3, <1>4, BehavesPaced
    <2> QED BY <2>2, <2>3, <2>4, <2>5 DEF CalmSource
  <1>9. ASSUME NEW r \in Sources, LentTo(r)' PROVE Playing(r)'
    <2>1. LentTo(r) /\ Playing(r) /\ SinkTime
      BY <1>4, <1>9 DEF Calm
    <2>2. src[r].frames \in Nat /\ src[r].began \in Nat
      BY CalmTypes DEF Records
    <2>3. /\ src'[r].frames \in Nat /\ src'[r].frames >= src[r].frames
          /\ src[r].frames > 0 => src'[r].began = src[r].began
      <3>1. CASE r # s
        BY <1>2, <2>2, <3>1
      <3>2. CASE r = s
        <4>1. /\ x.frames = src[s].frames \/ x.frames = src[s].frames + 1
              /\ src[s].frames > 0 => x.began = src[s].began
          BY <1>1, <2>2, <3>2 DEF Behaves
        <4> HIDE DEF x
        <4>2. x.frames \in Nat /\ x.frames >= src[s].frames
          BY <2>2, <3>2, <4>1
        <4> QED BY <3>2, <4>1, <4>2 DEF x
      <3> QED BY <3>1, <3>2
    <2>4. Held' = Held /\ Shown' = Shown /\ Heard' = Heard
      BY <1>2, <1>3 DEF Held, Shown, Heard, sink
    <2>5. /\ UNCHANGED <<now, loan_frame_ms, queued, time_origin, pending_frames, last_recv_time>>
          /\ time_origin \in Nat /\ last_recv_time \in Nat
      BY <1>2, <2>1 DEF sink, SinkTime
    <2>6. /\ now \in Nat /\ queued \in Nat /\ Len(pending_frames) \in Nat
          /\ Held <= Held /\ Shown <= Shown /\ Heard <= Heard
      <3>1. now \in Nat /\ queued \in Nat /\ Len(pending_frames) \in Nat
        BY CalmTypes
      <3>2. Held \in Int /\ Shown \in Int /\ Heard \in Int
        BY <2>5, <3>1 DEF Held, Shown, Heard
      <3>3. \A i \in Int : i <= i
        OBVIOUS
      <3> QED BY <3>1, <3>2, <3>3
    <2> QED BY <2>1, <2>2, <2>3, <2>4, <2>5, <2>6, PlayingOn
  <1> QED BY <1>5, <1>7, <1>8, <1>9 DEF Calm

\* A source has its turn and does nothing more.
LEMMA CalmRests ==
  ASSUME NoWrap, Unhurried, IInv, PaceInv, Calm, queued' = queued,
         NEW s \in Sources, SourceRests(s)
  PROVE  Calm'
  <1>1. /\ turns # << >> /\ s = Head(turns)
        /\ src[s].pc \notin {"put_state", "put_timeout"}
        /\ turns' = Tail(turns) /\ served' = served
        /\ UNCHANGED <<src, now, sink, to_sink, to_source>>
    BY DEF SourceRests, Runs, vars, network
  <1>2. SinkTime'
    <2>1. SinkTime
      BY DEF Calm
    <2> QED BY <1>1, <2>1 DEF SinkTime, sink
  <1>3. ASSUME NEW r \in Sources PROVE CalmSource(r)'
    <2>1. /\ Line(r)' = Line(r) /\ Taken(r)' = Taken(r) /\ LentTo(r)' = LentTo(r)
          /\ CalmSource(r)
      BY <1>1 DEF Calm, Line, Taken, LentTo, sink
    <2>2. src[r].pc \in {"put_state", "put_timeout"} => turns' = turns
      BY <1>1, <2>1 DEF CalmSource, InCall
    <2> QED BY <1>1, <2>1, <2>2, CalmSame
  <1>4. ASSUME NEW r \in Sources, LentTo(r)' PROVE Playing(r)'
    <2>1. LentTo(r) /\ Playing(r)
      BY <1>1, <1>4 DEF Calm, LentTo, sink
    <2> QED BY <1>1, <2>1 DEF Playing, PacedAt, Held, Shown, Heard, sink
  <1> QED BY <1>2, <1>3, <1>4 DEF Calm

-----------------------------------------------------------------------------
(* The invariant holds. *)

\* A ms ends: all that arrives in the next one was sent in this one, and the
\* application has asked for a frame since it last polled.
LEMMA CalmTicks ==
  ASSUME NoWrap, Unhurried, IInv, PaceInv, Calm, queued' = queued, SystemTick
  PROVE  Calm'
  <1>1. /\ turns = << >> /\ now' = now + 1 /\ served' = {}
        /\ SinkListens => /\ served = {"state", "get"}
                          /\ \A s \in Sources : ~Arrived(to_sink[s])
        /\ UNCHANGED <<src, to_sink, to_source, state, borrower_endpoint, loan_frame_ms,
                       time_origin, last_recv_time, pending_frames, pc, rx>>
    BY DEF SystemTick, AllDone, Tick, K!Tick, K!loan, K!timers, K!playing, network
  <1>2. SinkTime /\ HandOK /\ now \in Nat /\ queued \in Nat /\ Len(pending_frames) \in Nat
    BY CalmTypes DEF Calm
  <1>3. pc = "idle"
    BY <1>2 DEF SystemTick, AllDone, SinkListens, HandOK, SinkTime
  <1>4. SinkTime'
    <2>1. \A t \in Nat : t <= now => t <= now + 1
      BY <1>2
    <2>2. last_recv_time <= now + 1
      BY <1>2, <1>3, <2>1 DEF SinkTime
    <2> QED BY <1>1, <1>2, <1>3, <2>2 DEF SinkTime
  <1>5. ASSUME NEW s \in Sources PROVE CalmSource(s)'
    <2> DEFINE q == to_sink[s]
               w == to_source[s]
    <2>1. /\ CalmSource(s) /\ q \in Seq([msg : FromSource(s), due : Nat])
          /\ w \in Seq([msg : FromSink, due : Nat])
          /\ src[s].last_borrow_time <= now /\ src[s] \in Records
      BY CalmTypes DEF Calm, CalmSource, OnTime
    <2>2. /\ Line(s)' = Line(s) /\ Taken(s)' = << >> /\ LentTo(s)' = LentTo(s)
      BY <1>1, <1>3 DEF Line, Taken, LentTo
    <2>3. OnTime(s)'
      <3>1. \A i \in 1 .. Len(q) : q[i].due = now + 1
        <4>1. CASE q = << >>
          <5>1. \A i \in 1 .. Len(<< >>) : FALSE
            OBVIOUS
          <5> QED BY <4>1, <5>1
        <4>2. CASE q # << >>
          <5>1. SinkListens
            BY <1>2, <4>2 DEF HandOK
          <5> HIDE DEF q
          <5>2. 1 \in 1 .. Len(q) /\ Head(q) = q[1]
            BY <2>1, <4>2, TailFacts
          <5>3. ~(q[1].due <= now)
            BY <1>1, <4>2, <5>1, <5>2 DEF Arrived, q
          <5>4. /\ \A i \in 1 .. Len(q) : q[i].due \in {now, now + 1}
                /\ \A i \in 1 .. Len(q) : q[1].due <= q[i].due
            <6>1. \A i \in 1 .. Len(q) : 1 <= i
              OBVIOUS
            <6> QED BY <2>1, <5>2, <6>1 DEF CalmSource, OnTime, q
          <5>5. q[1].due = now + 1
            BY <1>2, <5>2, <5>3, <5>4
          <5>6. ~(now + 1 <= now)
            BY <1>2
          <5> QED BY <5>4, <5>5, <5>6
        <4> QED BY <4>1, <4>2
      <3>2. \A i \in 1 .. Len(w) : w[i].due <= now + 1
        BY <2>1 DEF CalmSource, OnTime
      <3>3. now + 1 <= (now + 1) + 1
        BY <1>2
      <3>4. \A i \in 1 .. Len(w) : w[i].due <= (now + 1) + 1
        <4>1. \A i \in 1 .. Len(w) : w[i].due \in Nat
          <5>1. \A i \in 1 .. Len(w) : w[i] \in [msg : FromSink, due : Nat]
            BY <2>1, ElementOfSeq
          <5> QED BY <5>1
        <4>2. \A t \in Nat : t <= now + 1 => t <= (now + 1) + 1
          BY <1>2
        <4> QED BY <3>2, <4>1, <4>2
      <3>5. src[s].last_borrow_time <= now + 1
        <4>1. src[s].last_borrow_time \in Nat
          BY <2>1, SourceAssumption DEF Records
        <4> QED BY <1>2, <2>1, <4>1
      <3>6. /\ \A i \in 1 .. Len(q) : q[i].msg.type = "BORROW" =>
                 q[i].due <= src[s].last_borrow_time + 1
            /\ \A i, j \in 1 .. Len(q) : i <= j => q[i].due <= q[j].due
        BY <2>1 DEF CalmSource, OnTime
      <3> QED BY <1>1, <3>1, <3>2, <3>4, <3>5, <3>6 DEF OnTime
    <2>4. InCall(s)'
      BY <1>1, <2>1 DEF CalmSource, InCall
    <2>5. Granted(s)'
      BY <1>1, <2>1, <2>2 DEF CalmSource, Granted, Asks, Waits
    <2>6. Whole(s)'
      BY <2>1, <2>2 DEF CalmSource, Whole
    <2>7. LentTo(s)' => LinePaced(s)'
      <3>1. \A i \in 1 .. Len(<< >>) : FALSE
        OBVIOUS
      <3> QED BY <1>1, <2>1, <2>2, <3>1 DEF CalmSource, LinePaced, Sent, PacedAt
    <2> QED BY <2>3, <2>4, <2>5, <2>6, <2>7 DEF CalmSource
  <1>6. ASSUME NEW s \in Sources, LentTo(s)' PROVE Playing(s)'
    <2>1. LentTo(s) /\ Playing(s) /\ state = "LENT"
      BY <1>1, <1>6 DEF Calm, LentTo
    <2>2. served = {"state", "get"}
      BY <1>1, <1>3, <2>1 DEF SinkListens
    <2>3. Held = 0 /\ Held' = 0
      <3>1. served # {"state"} /\ served' # {"state"}
        <4>1. "get" \in served /\ "get" \notin {"state"} /\ "state" \notin served'
          BY <1>1, <2>2
        <4> QED BY <4>1
      <3> QED BY <1>1, <1>3, <3>1 DEF Held
    <2>4. Shown = now /\ Shown' = now /\ Heard' = Heard
      <3>1. served' # {"state", "get"}
        BY <1>1
      <3>2. (now + 1) - 1 = now
        BY <1>2
      <3> QED BY <1>1, <1>3, <2>2, <3>1, <3>2 DEF Shown, Heard
    <2>5. time_origin = NULL_TIME => queued = 0 /\ ~(queued > 0)
      <3>1. time_origin = NULL_TIME => queued <= 0
        BY <2>1, <2>3 DEF Playing
      <3> QED BY <1>2, <3>1
    <2>6. time_origin <= now => time_origin <= now + 1
      BY <1>2 DEF SinkTime
    <2>7. /\ loan_frame_ms = frame_duration_ms /\ Buffered <= Slots
          /\ queued > 0 => queued <= src[s].frames /\ PacedAt(s, queued, Heard - 1)
          /\ time_origin = NULL_TIME => queued = Len(pending_frames) /\ queued <= Held
          /\ time_origin # NULL_TIME =>
               /\ time_origin <= now
               /\ queued > Len(pending_frames)
               /\ time_origin + Len(pending_frames) * frame_duration_ms
                    = src[s].began + 1 + (queued - 1) * frame_duration_ms
               /\ Len(pending_frames) <= Held \/ Shown <= time_origin + frame_duration_ms
      BY <2>1 DEF Playing
    <2>8. queued > 0 => PacedAt(s, queued, Heard - 1)'
      BY <1>1, <2>4, <2>7 DEF PacedAt
    <2> QED BY <1>1, <2>3, <2>4, <2>5, <2>6, <2>7, <2>8 DEF Playing
  <1> QED BY <1>4, <1>5, <1>6 DEF Calm

\* Nothing happens that any of this speaks of.
LEMMA CalmStays ==
  ASSUME Calm, UNCHANGED systemVars, queued' = queued
  PROVE  Calm'
  <1>1. UNCHANGED <<src, now, sink, to_sink, to_source, turns, served>>
    BY DEF systemVars, vars, network, schedule
  <1>2. SinkTime'
    BY <1>1 DEF Calm, SinkTime, sink
  <1>3. ASSUME NEW s \in Sources PROVE CalmSource(s)'
    <2>1. /\ Line(s)' = Line(s) /\ Taken(s)' = Taken(s) /\ LentTo(s)' = LentTo(s)
          /\ CalmSource(s)
      BY <1>1 DEF Calm, Line, Taken, LentTo, sink
    <2> QED BY <1>1, <2>1, CalmSame
  <1>4. ASSUME NEW s \in Sources, LentTo(s)' PROVE Playing(s)'
    <2>1. LentTo(s) /\ Playing(s)
      BY <1>1, <1>4 DEF Calm, LentTo, sink
    <2> QED BY <1>1, <2>1 DEF Playing, PacedAt, Held, Shown, Heard, sink
  <1> QED BY <1>2, <1>3, <1>4 DEF Calm

LEMMA CalmInit ==
  ASSUME Unhurried, ObservedInit
  PROVE  CalmInv
  <1>1. /\ IInv /\ Init /\ K!Init /\ served = {}
        /\ to_sink = [s \in Sources |-> << >>]
        /\ to_source = [s \in Sources |-> << >>]
    BY IInvInit DEF ObservedInit, SystemInit
  <1>2. /\ pc = "idle" /\ state # "LENT" /\ pending_frames = << >>
        /\ time_origin = 0 /\ last_recv_time = 0
    BY <1>1 DEF K!Init, K!atolla_sink_make
  <1>3. now \in Nat
    BY <1>1 DEF IInv, SystemInv, TypeOK
  <1>4. SinkTime
    <2>1. Len(<< >>) <= Slots
      BY DEF Unhurried
    <2> QED BY <1>1, <1>2, <1>3, <2>1 DEF SinkTime
  <1>5. ASSUME NEW s \in Sources PROVE CalmSource(s) /\ ~LentTo(s)
    <2>1. ~LentTo(s)
      BY <1>2 DEF LentTo
    <2>2. \A i \in 1 .. Len(<< >>) : FALSE
      OBVIOUS
    <2>3. to_sink[s] = << >> /\ to_source[s] = << >> /\ Line(s) = << >>
      <3>1. Msgs(<< >>) = << >> /\ << >> \o << >> = << >>
        BY EmptySeq, ConcatEmptySeq, MsgsFacts DEF Msgs
      <3> QED BY <1>1, <1>2, <3>1 DEF Line, Taken
    <2>4. src[s].pc = "unmade" /\ src[s].last_borrow_time = 0
      BY <1>1 DEF Init, source_private_make
    <2>5. ~Asks(s)
      BY <2>2, <2>3 DEF Asks
    <2>6. OnTime(s)
      BY <1>3, <2>2, <2>3, <2>4 DEF OnTime
    <2>7. InCall(s) /\ Granted(s)
      BY <2>1, <2>4, <2>5 DEF InCall, Granted
    <2>8. Whole(s)
      BY <2>2, <2>3 DEF Whole
    <2> QED BY <2>1, <2>6, <2>7, <2>8 DEF CalmSource
  <1> QED BY <1>4, <1>5 DEF CalmInv, Calm

LEMMA CalmNext ==
  ASSUME NoWrap, Unhurried, OneFault, IInv, PaceInv, Paced', CalmInv,
         [ObservedNext]_observedVars
  PROVE  CalmInv'
  <1> SUFFICES ASSUME faults' = 0 PROVE Calm'
    BY DEF CalmInv
  <1>1. [SystemNext]_systemVars /\ faults \in Nat
    BY DEF ObservedNext, observedVars, IInv
  <1>2. Len(pending_frames) \in Nat /\ pending_frames \in Seq(K!Frames) /\ queued \in Nat
    BY CalmTypes
  <1>3. Counts
    <2>1. CASE ObservedNext
      BY <2>1 DEF ObservedNext, Counts
    <2>2. CASE UNCHANGED observedVars
      BY <1>2, <2>2 DEF observedVars, systemVars, sink, history, Counts
    <2> QED BY <2>1, <2>2
  <1>4. ASSUME (state' = "LENT" => state = "LENT"),
               ~(Len(pending_frames') > Len(pending_frames))
        PROVE  queued' = queued
    BY <1>4, <1>3 DEF Counts
  <1>5. ASSUME state' = state, pending_frames' = pending_frames PROVE queued' = queued
    BY <1>2, <1>4, <1>5
  <1>6. ASSUME faults = 0 PROVE Calm
    BY <1>6 DEF CalmInv
  <1>7. CASE UNCHANGED systemVars
    <2>1. faults = 0 /\ state' = state /\ pending_frames' = pending_frames
      BY <1>7 DEF systemVars, network, sink
    <2> QED BY <1>5, <1>6, <1>7, <2>1, CalmStays
  <1>8. ASSUME NEW s \in Sources,
               SourceReceives(s) \/ SourceReceivesNothing(s) \/ SourceActs(s)
        PROVE  Calm'
    <2>1. faults = 0 /\ state' = state /\ pending_frames' = pending_frames
      BY <1>8, SourceMoves DEF sink
    <2> QED BY <1>5, <1>6, <1>8, <2>1, CalmBehaves
  <1>9. ASSUME NEW s \in Sources, SourceRests(s) PROVE Calm'
    <2>1. faults = 0 /\ state' = state /\ pending_frames' = pending_frames
      BY <1>9 DEF SourceRests, network, sink
    <2> QED BY <1>5, <1>6, <1>9, <2>1, CalmRests
  <1>10. ASSUME NEW s \in Sources, SinkReceives(s) PROVE Calm'
    <2>1. faults = 0 /\ state' = state /\ pending_frames' = pending_frames
      BY <1>10 DEF SinkReceives, K!sink_receive, K!playing
    <2> QED BY <1>5, <1>6, <1>10, <2>1, CalmReceives
  <1>11. ASSUME SinkReceivesNothing PROVE Calm'
    <2>1. faults = 0 /\ (state' = "LENT" => state = "LENT") /\ pending_frames' = pending_frames
      BY <1>11 DEF SinkReceivesNothing, K!sink_receive_nothing, K!sink_drop_borrow, K!playing
    <2>2. queued' = queued
      BY <1>2, <1>4, <2>1
    <2> QED BY <1>6, <1>11, <2>1, <2>2, CalmReceivesNothing
  <1>12. ASSUME SinkShows PROVE Calm'
    <2>1. faults = 0 /\ state' = state
      BY <1>12 DEF SinkShows, network, K!sink_get_nothing, K!sink_get_first, K!sink_get_begin
    <2>2. pending_frames' = pending_frames
            \/ (pending_frames # << >> /\ pending_frames' = Tail(pending_frames))
      BY <1>12 DEF SinkShows, K!sink_get_nothing, K!sink_get_first, K!sink_get_begin,
         K!mem_ring_dequeue, K!playing
    <2>3. pending_frames # << >> => Len(Tail(pending_frames)) = Len(pending_frames) - 1
      BY <1>2, HeadTailProperties
    <2>4. ~(Len(pending_frames') > Len(pending_frames))
      BY <1>2, <2>2, <2>3
    <2> QED BY <1>4, <1>6, <1>12, <2>1, <2>4, CalmShows
  <1>13. ASSUME SinkContinues PROVE Calm'
    <2>1. faults = 0
      BY <1>13 DEF SinkContinues
    <2> QED BY <1>3, <1>6, <1>13, <2>1, CalmContinues
  <1>14. ASSUME SinkStops \/ Delay \/ Lose \/ Duplicate \/ Reorder PROVE FALSE
    <2>1. faults' = faults + 1
      BY <1>14 DEF SinkStops, Delay, Lose, Duplicate, Reorder
    <2> QED BY <1>1, <2>1
  <1>15. ASSUME SinkRestarts PROVE FALSE
    <2>1. faults = 0 /\ pc = "freed"
      BY <1>15 DEF SinkRestarts, network, K!atolla_sink_remake
    <2> QED BY <1>6, <2>1 DEF Calm, SinkTime
  <1>16. ASSUME SystemTick PROVE Calm'
    <2>1. faults = 0 /\ state' = state /\ pending_frames' = pending_frames
      BY <1>16 DEF SystemTick, network, K!Tick, K!playing
    <2> QED BY <1>5, <1>6, <1>16, <2>1, CalmTicks
  <1> QED BY <1>1, <1>7, <1>8, <1>9, <1>10, <1>11, <1>12, <1>13, <1>14, <1>15, <1>16
          DEF SystemNext

\* The loop of sink_handle_enqueue has room for the frames it is to append:
\* as long as no fault has happened, a source paced by atolla_source_put and a
\* sink whose atolla_sink_get is called every ms never let the ring overflow,
\* although a source may borrow for the whole of it.
THEOREM RingNeverFull ==
  ASSUME OneFault, NoWrap, Unhurried
  PROVE  ObservedSpec => []RingHasRoom
  <1>1. ObservedSpec => []IInv
    BY IInvInit, IInvNext, PTL DEF ObservedSpec
  <1>2. ObservedSpec => SystemSpec
    <2>1. ObservedInit => SystemInit
      BY DEF ObservedInit
    <2>2. [ObservedNext]_observedVars => [SystemNext]_systemVars
      BY DEF ObservedNext, observedVars
    <2> QED BY <2>1, <2>2, PTL DEF ObservedSpec, SystemSpec
  <1>3. ObservedSpec => []PaceInv
    <2>1. SystemInit => PaceInv
      BY PaceInit DEF SystemInit
    <2>2. SystemInv /\ PaceInv /\ [SystemNext]_systemVars => PaceInv'
      BY SystemStep, PaceNext DEF SystemInv
    <2>3. SystemSpec => []PaceInv
      BY SystemInvHolds, <2>1, <2>2, PTL DEF SystemSpec
    <2> QED BY <1>2, <2>3, PTL
  <1>4. ObservedSpec => []Paced
    BY <1>2, SystemIsPaced, PTL
  <1>5. ObservedInit => CalmInv
    BY CalmInit
  <1>6. IInv /\ PaceInv /\ Paced' /\ CalmInv /\ [ObservedNext]_observedVars => CalmInv'
    BY CalmNext
  <1>7. IInv /\ PaceInv /\ CalmInv => RingHasRoom
    BY RoomMeans
  <1> QED BY <1>1, <1>3, <1>4, <1>5, <1>6, <1>7, PTL DEF ObservedSpec
=============================================================================
