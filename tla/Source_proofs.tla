--------------------------- MODULE Source_proofs ---------------------------
(***************************************************************************)
(* The source of source.cpp keeps its types, never leaves ERROR, and, as   *)
(* long as the 32-bit clock does not wrap, paces its frames, for every     *)
(* timing constant and every buffer length.                                *)
(***************************************************************************)
EXTENDS Source, TLAPS

LEMMA ModRange ==
  ASSUME NEW a \in Int, NEW n \in Nat \ {0}
  PROVE  a % n \in 0 .. n - 1
  OBVIOUS

LEMMA ModSmall ==
  ASSUME NEW n \in Nat \ {0}, NEW a \in 0 .. n - 1
  PROVE  a % n = a
  OBVIOUS

LEMMA DivPositive ==
  ASSUME NEW a \in Nat, NEW d \in Nat \ {0}
  PROVE  a \div d \in Nat /\ (a \div d > 0 <=> a >= d)
  OBVIOUS

LEMMA Constants ==
  /\ Buffered \in Nat \ {0}
  /\ Retry \in Nat \ {0}
  /\ Disconnect \in Nat \ {0}
  /\ NULL_TIME \in 0 .. TimeMod - 1
  BY SourceAssumption DEF Buffered, Retry, Disconnect, OrDefault, NULL_TIME

LEMMA TimeRange ==
  ASSUME now \in Nat
  PROVE  time_now \in 0 .. TimeMod - 1
  BY SourceAssumption, ModRange DEF time_now

\* A record whose uninitialized field is not read before it has a value.
Sound(r) ==
  /\ r \in Records
  /\ r.state = "OPEN" => r.last_recv_lent_time \in 0 .. TimeMod - 1

\* What source_update may do to a source: fail it, open it, or renew its
\* loan; it never touches the frame clock of a source that is open or failed.
Updated(r, u) ==
  /\ Sound(u)
  /\ u.pc = r.pc /\ u.wake = r.wake /\ u.frames = r.frames /\ u.began = r.began
  /\ r.state = "ERROR" => u.state = "ERROR"
  /\ r.state # "WAITING" => u.last_frame_time = r.last_frame_time
                            /\ u.state # "WAITING"
  /\ r.state = "WAITING" /\ u.state = "OPEN" => u.last_frame_time = NULL_TIME
  /\ u.state = "OPEN" => ~ (Elapsed(u.last_recv_lent_time) >= Disconnect)
  /\ u.state = "OPEN" => \/ u.last_recv_lent_time = time_now
                         \/ r.state = "OPEN" /\ u.last_recv_lent_time = r.last_recv_lent_time

\* Where a call stands is of no concern to the rest of the record.
LEMMA SetCall ==
  ASSUME NEW r, Sound(r), NEW p \in Calls, NEW w \in Nat
  PROVE  Sound([r EXCEPT !.pc = p, !.wake = w]) /\ Sound([r EXCEPT !.wake = w])
         /\ Sound([r EXCEPT !.pc = p])
  BY DEF Sound, Records

LEMMA UpdateFacts ==
  ASSUME now \in Nat, NEW r, Sound(r), NEW msg \in Incoming
  PROVE  Updated(r, source_update(r, msg))
  <1> USE SourceAssumption, Constants, TimeRange
  <1> DEFINE a == source_receive(r, msg)
             b == source_manage_borrow_packet_loss(a)
             c == source_ensure_lent_resent(b)
  <1>1. /\ Sound(a)
        /\ a.pc = r.pc /\ a.wake = r.wake /\ a.frames = r.frames /\ a.began = r.began
        /\ r.state = "ERROR" => a.state = "ERROR"
        /\ r.state # "WAITING" => a.last_frame_time = r.last_frame_time
                                  /\ a.state # "WAITING"
        /\ r.state = "WAITING" /\ a.state = "OPEN" => a.last_frame_time = NULL_TIME
        /\ a.state = "OPEN" => \/ a.last_recv_lent_time = time_now
                               \/ r.state = "OPEN" /\ a.last_recv_lent_time = r.last_recv_lent_time
    BY DEF Sound, source_receive, source_lent, source_fail, Records, Incoming
  <1> HIDE DEF a
  <1>2. /\ Sound(b)
        /\ b.pc = a.pc /\ b.wake = a.wake /\ b.frames = a.frames /\ b.began = a.began
        /\ b.last_frame_time = a.last_frame_time
        /\ b.last_recv_lent_time = a.last_recv_lent_time
        /\ b.state = a.state \/ (a.state = "WAITING" /\ b.state = "ERROR")
    BY <1>1 DEF Sound, source_manage_borrow_packet_loss, source_fail, GivesUp, Retries, Records
  <1> HIDE DEF b
  <1>3. /\ Sound(c)
        /\ c.pc = b.pc /\ c.wake = b.wake /\ c.frames = b.frames /\ c.began = b.began
        /\ c.last_frame_time = b.last_frame_time
        /\ c.last_recv_lent_time = b.last_recv_lent_time
        /\ c.state = b.state \/ (b.state = "OPEN" /\ c.state = "ERROR")
        /\ c.state = "OPEN" => ~ (Elapsed(c.last_recv_lent_time) >= Disconnect)
    BY <1>2 DEF Sound, source_ensure_lent_resent, source_fail, Records
  <1> HIDE DEF c
  <1>4. Updated(r, c)
    BY <1>1, <1>2, <1>3 DEF Updated
  <1> QED BY <1>4 DEF a, b, c, source_update

-----------------------------------------------------------------------------
(* Types. *)

LEMMA SleepNat ==
  ASSUME now \in Nat, NEW r, Sound(r)
  PROVE  Sleep(r) \in Nat
  <1> USE SourceAssumption, TimeRange
  <1> DEFINE wait == (r.last_frame_time + frame_duration_ms - time_now) % TimeMod
  <1>1. r.last_frame_time + frame_duration_ms - time_now \in Int
    BY DEF Sound, Records
  <1>2. wait \in 0 .. TimeMod - 1
    BY <1>1, ModRange
  <1> HIDE DEF wait
  <1>4. ReadyTimeout(r) \in {-1, 0, wait}
    <2>1. CASE r.state # "OPEN"
      BY <2>1 DEF ReadyTimeout
    <2>2. CASE r.state = "OPEN"
      <3>1. ReadyCount(r) > 0 \/ ReadyCount(r) <= 0
        <4>1. Elapsed(r.last_frame_time) \in Nat
          BY <2>2, ModRange DEF Elapsed, Sound, Records
        <4>2. Elapsed(r.last_frame_time) \div frame_duration_ms \in Nat
          BY <4>1, DivPositive
        <4>3. ReadyCount(r) \in Nat
          BY <2>2, <4>2, Constants DEF ReadyCount
        <4> QED BY <4>3
      <3> QED BY <2>2, <3>1 DEF ReadyTimeout, wait
    <2> QED BY <2>1, <2>2
  <1> QED BY <1>2, <1>4 DEF Sleep

LEMMA FrameSentSound ==
  ASSUME now \in Nat, NEW r, Sound(r)
  PROVE  Sound(FrameSent(r))
  <1> USE SourceAssumption, TimeRange, Constants
  <1> DEFINE t1 == (time_now - (Buffered - 1) * frame_duration_ms) % TimeMod
             t2 == (r.last_frame_time + frame_duration_ms) % TimeMod
             i == (r.next_frame_idx + 1) % IdxMod
  <1>1. t1 \in 0 .. TimeMod - 1
    <2>1. (Buffered - 1) * frame_duration_ms \in Int
      OBVIOUS
    <2> QED BY <2>1, ModRange, SMTT(60)
  <1>2. t2 \in 0 .. TimeMod - 1
    <2>1. r.last_frame_time + frame_duration_ms \in Int
      BY DEF Sound, Records
    <2> QED BY <2>1, ModRange
  <1>3. i \in 0 .. IdxMod - 1
    <2>1. r.next_frame_idx + 1 \in Int
      BY DEF Sound, Records
    <2> QED BY <2>1, ModRange
  <1> HIDE DEF t1, t2, i
  <1> DEFINE t == IF r.last_frame_time = NULL_TIME THEN t1 ELSE t2
             g == IF r.frames = 0 THEN now ELSE r.began
             n == r.frames + 1
  <1>5. t \in 0 .. TimeMod - 1 /\ g \in Nat /\ n \in Nat
    BY <1>1, <1>2 DEF Sound, Records
  <1>4. FrameSent(r) = [r EXCEPT !.next_frame_idx = i, !.last_frame_time = t,
                                 !.began = g, !.frames = n, !.pc = "idle", !.wake = 0]
    BY DEF FrameSent, t, g, n, t1, t2, i
  <1> HIDE DEF t, g, n
  <1> DEFINE y == [r EXCEPT !.next_frame_idx = i, !.last_frame_time = t,
                            !.began = g, !.frames = n]
  <1>6. Sound(y)
    BY <1>3, <1>5 DEF Sound, Records
  <1>7. FrameSent(r) = [y EXCEPT !.pc = "idle", !.wake = 0]
    BY <1>4 DEF Sound, Records
  <1> HIDE DEF y
  <1>8. 0 \in Nat /\ "idle" \in Calls
    BY DEF Calls
  <1>9. Sound([y EXCEPT !.pc = "idle", !.wake = 0])
    BY <1>6, <1>8, SetCall
  <1> QED BY <1>7, <1>9

LEMMA MakeSound == Sound(source_private_make)
  BY SourceAssumption DEF Sound, Records, Calls, source_private_make

\* The step of one source, whatever it is, leaves the others alone.
LEMMA OneSource ==
  ASSUME TypeOK, NEW s \in Sources, NEW x, Sound(x),
         src' = [src EXCEPT ![s] = x], UNCHANGED now
  PROVE  TypeOK'
  BY DEF TypeOK, Sound

LEMMA TypeInit == Init => TypeOK
  BY SourceAssumption, MakeSound DEF Init, TypeOK, Sound, Records, Calls, source_private_make

LEMMA TypeNext == TypeOK /\ [Next]_vars => TypeOK'
  <1> SUFFICES ASSUME TypeOK, [Next]_vars PROVE TypeOK'
    OBVIOUS
  <1> USE SourceAssumption
  <1>0. now \in Nat /\ \A s \in Sources : Sound(src[s])
    BY DEF TypeOK, Sound
  <1>1. ASSUME NEW s \in Sources, NEW msg \in Incoming, Receiving(s, msg)
        PROVE  TypeOK'
    <2> DEFINE u == source_update(src[s], msg)
    <2>1. Sound(u)
      BY <1>0, UpdateFacts DEF Updated
    <2>2. Sleep(u) \in Nat
      BY <1>0, <2>1, SleepNat
    <2> HIDE DEF u
    <2>3. CASE atolla_source_state(s, msg)
      BY <2>3, <2>1, OneSource DEF atolla_source_state, Update, u
    <2>4. CASE source_await_make_completion(s, msg)
      <3> DEFINE x == IF u.state = "WAITING"
                      THEN [u EXCEPT !.wake = now + blocking_make_refresh_interval]
                      ELSE [u EXCEPT !.pc = "idle", !.wake = 0]
      <3>1. Sound(x)
        <4>1. now + blocking_make_refresh_interval \in Nat /\ 0 \in Nat /\ "idle" \in Calls
          BY <1>0 DEF Calls
        <4> QED BY <2>1, <4>1, SetCall
      <3>2. src' = [src EXCEPT ![s] = x] /\ UNCHANGED now
        BY <2>4 DEF source_await_make_completion, Update, u
      <3> QED BY <3>1, <3>2, OneSource
    <2>5. CASE put_update(s, msg)
      <3> DEFINE x == [u EXCEPT !.pc = "put_state"]
      <3>1. Sound(x)
        BY <2>1 DEF Sound, Records, Calls
      <3> QED BY <2>5, <3>1, OneSource DEF put_update, Update, u
    <2>6. CASE put_state(s, msg)
      <3> DEFINE x == IF u.state = "OPEN" THEN [u EXCEPT !.pc = "put_timeout"]
                      ELSE [u EXCEPT !.pc = "idle"]
      <3>1. Sound(x)
        BY <2>1 DEF Sound, Records, Calls
      <3> QED BY <2>6, <3>1, OneSource DEF put_state, Update, u
    <2>7. CASE put_timeout(s, msg)
      <3> DEFINE x == [u EXCEPT !.pc = "put_send", !.wake = now + Sleep(u)]
      <3>1. Sound(x)
        <4>1. now + Sleep(u) \in Nat /\ "put_send" \in Calls
          BY <1>0, <2>2 DEF Calls
        <4> QED BY <2>1, <4>1, SetCall
      <3> QED BY <2>7, <3>1, OneSource DEF put_timeout, Update, u
    <2> QED BY <1>1, <2>3, <2>4, <2>5, <2>6, <2>7 DEF Receiving
  <1>2. ASSUME NEW s \in Sources, NEW ok \in BOOLEAN, NEW async_make \in BOOLEAN,
               atolla_source_make(s, ok, async_make)
        PROVE  TypeOK'
    <2> DEFINE x == [source_private_make EXCEPT
                       !.first_borrow_time = time_now,
                       !.last_borrow_time = time_now,
                       !.pc = IF async_make THEN "idle" ELSE "await",
                       !.wake = now + blocking_make_refresh_interval]
               y == source_fail(source_private_make)
    <2>1. Sound(x)
      <3> DEFINE p == IF async_make THEN "idle" ELSE "await"
                 w == now + blocking_make_refresh_interval
                 z == [source_private_make EXCEPT !.first_borrow_time = time_now,
                                                  !.last_borrow_time = time_now]
      <3>1. p \in Calls /\ w \in Nat
        BY <1>0 DEF Calls
      <3>2. time_now \in 0 .. TimeMod - 1
        BY <1>0, TimeRange
      <3> HIDE DEF p, w
      <3>3. Sound(z)
        BY <3>2, MakeSound DEF Sound, Records
      <3>4. x = [z EXCEPT !.pc = p, !.wake = w]
        BY DEF source_private_make, p, w
      <3> HIDE DEF z, x
      <3> QED BY <3>1, <3>3, <3>4, SetCall
    <2>2. Sound(y)
      BY MakeSound DEF Sound, Records, Calls, source_fail
    <2>3. \/ src' = [src EXCEPT ![s] = x]
          \/ src' = [src EXCEPT ![s] = y]
      BY <1>2 DEF atolla_source_make
    <2>4. UNCHANGED now
      BY <1>2 DEF atolla_source_make
    <2> HIDE DEF x, y
    <2> QED BY <2>1, <2>2, <2>3, <2>4, OneSource
  <1>3. ASSUME NEW s \in Sources, put_send(s) PROVE TypeOK'
    BY <1>0, <1>3, FrameSentSound, OneSource DEF put_send
  <1>4. ASSUME NEW s \in Sources, put_send_fails(s) PROVE TypeOK'
    <2> DEFINE x == [src[s] EXCEPT !.pc = "idle", !.wake = 0]
    <2>1. Sound(x)
      BY <1>0, SetCall DEF Calls
    <2>2. src' = [src EXCEPT ![s] = x] /\ UNCHANGED now
      BY <1>4 DEF put_send_fails, TypeOK
    <2> QED BY <2>1, <2>2, OneSource
  <1>5. ASSUME NEW s \in Sources, atolla_source_free(s) PROVE TypeOK'
    BY <1>5 DEF atolla_source_free, TypeOK, Records, Calls
  <1>6. CASE Tick
    BY <1>6 DEF Tick, TypeOK
  <1>7. CASE UNCHANGED vars
    BY <1>7 DEF vars, TypeOK
  <1> QED BY <1>1, <1>2, <1>3, <1>4, <1>5, <1>6, <1>7 DEF Next, Other

\* The fields of a source keep their types, and last_recv_lent_time is
\* never read before source_lent has set it.
THEOREM TypeCorrect == Spec => []TypeOK
  BY TypeInit, TypeNext, PTL DEF Spec

-----------------------------------------------------------------------------
\* Whatever call is at work, its look into the socket of s leaves the record
\* that source_update makes, but for where the call stands.
LEMMA ReceivingStep ==
  ASSUME TypeOK, NEW s \in Sources, NEW msg \in Incoming, Receiving(s, msg)
  PROVE  /\ now' = now
         /\ \E x : /\ src' = [src EXCEPT ![s] = x]
                   /\ x.pc # "unmade"
                   /\ x.state = source_update(src[s], msg).state
                   /\ x.frames = source_update(src[s], msg).frames
                   /\ x.began = source_update(src[s], msg).began
                   /\ x.last_frame_time = source_update(src[s], msg).last_frame_time
                   /\ x.last_recv_lent_time
                        = source_update(src[s], msg).last_recv_lent_time
  <1> DEFINE u == source_update(src[s], msg)
             Like(x) == /\ x.pc # "unmade" /\ x.state = u.state
                        /\ x.frames = u.frames /\ x.began = u.began
                        /\ x.last_frame_time = u.last_frame_time
                        /\ x.last_recv_lent_time = u.last_recv_lent_time
  <1>1. u \in Records /\ u.pc = src[s].pc
    BY UpdateFacts DEF Updated, TypeOK, Sound
  <1> HIDE DEF u
  <1>2. CASE atolla_source_state(s, msg)
    BY <1>1, <1>2 DEF atolla_source_state, Update, u
  <1>3. CASE source_await_make_completion(s, msg)
    <2> DEFINE y == IF u.state = "WAITING"
                    THEN [u EXCEPT !.wake = now + blocking_make_refresh_interval]
                    ELSE [u EXCEPT !.pc = "idle", !.wake = 0]
    <2>1. Like(y)
      BY <1>1, <1>3 DEF source_await_make_completion, Records
    <2>2. src' = [src EXCEPT ![s] = y] /\ now' = now
      BY <1>3 DEF source_await_make_completion, Update, u
    <2> HIDE DEF y
    <2> QED BY <2>1, <2>2 DEF u
  <1>4. CASE put_update(s, msg)
    <2> DEFINE y == [u EXCEPT !.pc = "put_state"]
    <2>1. Like(y)
      BY <1>1 DEF Records
    <2>2. src' = [src EXCEPT ![s] = y] /\ now' = now
      BY <1>4 DEF put_update, Update, u
    <2> HIDE DEF y
    <2> QED BY <2>1, <2>2 DEF u
  <1>5. CASE put_state(s, msg)
    <2> DEFINE y == IF u.state = "OPEN" THEN [u EXCEPT !.pc = "put_timeout"]
                    ELSE [u EXCEPT !.pc = "idle"]
    <2>1. Like(y)
      BY <1>1 DEF Records
    <2>2. src' = [src EXCEPT ![s] = y] /\ now' = now
      BY <1>5 DEF put_state, Update, u
    <2> HIDE DEF y
    <2> QED BY <2>1, <2>2 DEF u
  <1>6. CASE put_timeout(s, msg)
    <2> DEFINE y == [u EXCEPT !.pc = "put_send", !.wake = now + Sleep(u)]
    <2>1. Like(y)
      BY <1>1 DEF Records
    <2>2. src' = [src EXCEPT ![s] = y] /\ now' = now
      BY <1>6 DEF put_timeout, Update, u
    <2> HIDE DEF y
    <2> QED BY <2>1, <2>2 DEF u
  <1> QED BY <1>2, <1>3, <1>4, <1>5, <1>6 DEF Receiving

-----------------------------------------------------------------------------
(* ERROR is final. *)

Unborn == \A s \in Sources : src[s].pc = "unmade" => src[s].state = "WAITING"

LEMMA ErrorStays ==
  ASSUME TypeOK, Unborn, [Next]_vars
  PROVE  Unborn' /\ \A s \in Sources : src[s].state = "ERROR" => src'[s].state = "ERROR"
  <1> USE SourceAssumption
  <1>0. now \in Nat /\ src \in [Sources -> Records] /\ \A s \in Sources : Sound(src[s])
    BY DEF TypeOK, Sound
  <1> DEFINE Goal == Unborn' /\ \A s \in Sources : src[s].state = "ERROR" => src'[s].state = "ERROR"
  <1>a. ASSUME NEW s \in Sources, NEW x, x.pc # "unmade",
               src[s].state = "ERROR" => x.state = "ERROR",
               src' = [src EXCEPT ![s] = x]
        PROVE  Goal
    BY <1>0, <1>a DEF Unborn
  <1>1. ASSUME NEW s \in Sources, NEW msg \in Incoming, Receiving(s, msg)
        PROVE  Goal
    <2> DEFINE u == source_update(src[s], msg)
    <2>1. Sound(u) /\ u.pc = src[s].pc /\ (src[s].state = "ERROR" => u.state = "ERROR")
      BY <1>0, UpdateFacts DEF Updated
    <2> HIDE DEF u
    <2>2. PICK x : x.pc # "unmade" /\ x.state = u.state /\ src' = [src EXCEPT ![s] = x]
      BY <1>1, ReceivingStep DEF u
    <2> QED BY <2>1, <2>2, <1>a
  <1>2. ASSUME NEW s \in Sources, NEW ok \in BOOLEAN, NEW async_make \in BOOLEAN,
               atolla_source_make(s, ok, async_make)
        PROVE  Goal
    <2>1. src[s].state # "ERROR"
      BY <1>2 DEF atolla_source_make, Unborn
    <2>2. PICK x : x.pc # "unmade" /\ src' = [src EXCEPT ![s] = x]
      BY <1>2 DEF atolla_source_make, source_private_make, source_fail
    <2> QED BY <2>1, <2>2, <1>a
  <1>3. ASSUME NEW s \in Sources, put_send(s) PROVE Goal
    <2>1. FrameSent(src[s]).pc # "unmade" /\ FrameSent(src[s]).state = src[s].state
      BY <1>0 DEF FrameSent, Sound, Records
    <2> QED BY <1>3, <2>1, <1>a DEF put_send
  <1>4. ASSUME NEW s \in Sources, put_send_fails(s) PROVE Goal
    BY <1>0, <1>4 DEF put_send_fails, Unborn, Records
  <1>5. ASSUME NEW s \in Sources, atolla_source_free(s) PROVE Goal
    BY <1>0, <1>5 DEF atolla_source_free, Unborn, Records
  <1>6. CASE Tick
    BY <1>6 DEF Tick, Unborn
  <1>7. CASE UNCHANGED vars
    BY <1>7 DEF vars, Unborn
  <1> QED BY <1>1, <1>2, <1>3, <1>4, <1>5, <1>6, <1>7 DEF Next, Other

\* Once failed, a source stays failed, whatever it receives and whichever
\* call is at work.
THEOREM FailureIsFinal == Spec => ErrorIsFinal
  <1>1. Init => Unborn
    BY DEF Init, Unborn, source_private_make
  <1>2. TypeOK /\ Unborn /\ [Next]_vars => Unborn'
    BY ErrorStays
  <1>3. TypeOK /\ Unborn /\ [Next]_vars =>
          [\A s \in Sources : src[s].state = "ERROR" => src'[s].state = "ERROR"]_vars
    BY ErrorStays
  <1> QED BY <1>1, <1>2, <1>3, TypeInit, TypeNext, PTL DEF Spec, ErrorIsFinal

-----------------------------------------------------------------------------
(* Pacing, while the clock neither wraps nor meets NULL_TIME. *)

NoWrap ==
  /\ (Buffered - 1) * frame_duration_ms <= StartClock
  /\ StartClock <= MaxClock
  /\ MaxClock + frame_duration_ms < NULL_TIME

\* What last_frame_time holds after a frame: when the sink is to begin with
\* the frame that lies max_buffered_frames before the next.
Due(r) == r.began + (r.frames - Buffered) * frame_duration_ms

LEMMA DueSucc ==
  ASSUME NEW r \in Records, NEW x \in Records,
         x.frames = r.frames + 1, x.began = r.began
  PROVE  Due(x) = Due(r) + frame_duration_ms
  <1> DEFINE d == frame_duration_ms
             k == r.frames - Buffered
  <1>1. d \in Int /\ k \in Int /\ x.frames - Buffered = k + 1
    BY SourceAssumption, Constants DEF Records
  <1> HIDE DEF d, k
  <1>2. (k + 1) * d = k * d + d
    BY <1>1
  <1> QED BY <1>1, <1>2, SourceAssumption DEF Due, Records, d, k

LEMMA DueFirst ==
  ASSUME NEW x \in Records, x.frames = 1
  PROVE  Due(x) = x.began - (Buffered - 1) * frame_duration_ms
  <1> DEFINE d == frame_duration_ms
             k == Buffered - 1
  <1>1. d \in Int /\ k \in Int /\ x.frames - Buffered = -k
    BY SourceAssumption, Constants
  <1> HIDE DEF d, k
  <1>2. (-k) * d = -(k * d)
    BY <1>1
  <1> QED BY <1>1, <1>2, SourceAssumption DEF Due, Records, d, k

LEMMA DueLow ==
  ASSUME NoWrap, NEW r \in Records, r.frames > 0, r.began >= StartClock
  PROVE  Due(r) \in Nat
  <1> DEFINE d == frame_duration_ms
             k == r.frames - Buffered
             j == Buffered - 1
  <1>1. d \in Nat /\ k \in Int /\ j \in Int /\ k + j >= 0
    BY SourceAssumption, Constants DEF Records
  <1>2. j * d <= StartClock
    BY DEF NoWrap
  <1> HIDE DEF d, k, j
  <1>3. (k + j) * d >= 0 /\ (k + j) * d = k * d + j * d
    BY <1>1
  <1>4. k * d \in Int /\ j * d \in Int
    BY <1>1
  <1>5. r.began + k * d >= 0 /\ r.began + k * d \in Int
    BY <1>2, <1>3, <1>4, SourceAssumption DEF Records
  <1> QED BY <1>5 DEF Due, d, k

\* What holds of a source at time t, between any two steps.
Base(r, t) ==
  /\ r.state = "WAITING" => r.frames = 0
  /\ r.frames = 0 => r.began = 0
  /\ r.frames = 0 /\ r.state = "OPEN" => r.last_frame_time = NULL_TIME
  /\ r.frames > 0 => /\ r.began >= StartClock
                     /\ r.began <= t
                     /\ r.last_frame_time = Due(r)
  /\ r.frames > 0 /\ r.state = "OPEN" => Due(r) <= t
  /\ r.frames > 0 => Due(r) <= t + frame_duration_ms
  /\ r.state = "OPEN" => r.last_recv_lent_time <= t

\* The frame in hand may go out once "wake" has come.
Ready(r, t) ==
  /\ r.state # "WAITING"
  /\ r.frames = 0 => r.last_frame_time = NULL_TIME
  /\ r.frames > 0 => Due(r) <= t
  /\ r.frames > 0 /\ r.state = "OPEN" => r.wake >= Due(r) + frame_duration_ms
  /\ r.state = "OPEN" =>
       r.wake < r.last_recv_lent_time + Disconnect + frame_duration_ms

PaceOf(r, t) ==
  /\ Base(r, t)
  /\ r.pc = "unmade" => r.state = "WAITING"
  /\ r.pc = "put_timeout" => r.state = "OPEN"
  /\ r.pc = "put_send" => Ready(r, t)

PaceInv ==
  /\ StartClock <= now
  /\ now <= MaxClock
  /\ \A s \in Sources : PaceOf(src[s], now)

LEMMA ClockSmall ==
  ASSUME NoWrap, now \in Nat, now <= MaxClock
  PROVE  /\ time_now = now
         /\ now + frame_duration_ms < NULL_TIME
         /\ NULL_TIME < TimeMod
  <1> USE SourceAssumption, Constants
  <1>1. now + frame_duration_ms < NULL_TIME /\ NULL_TIME < TimeMod
    BY DEF NoWrap
  <1>2. now \in 0 .. TimeMod - 1
    BY <1>1
  <1> QED BY <1>1, <1>2, ModSmall DEF time_now

LEMMA ElapsedSmall ==
  ASSUME NoWrap, now \in Nat, now <= MaxClock, NEW t \in Nat, t <= now
  PROVE  Elapsed(t) = now - t
  <1> USE SourceAssumption, Constants
  <1>1. now - t \in 0 .. TimeMod - 1 /\ time_now = now
    BY ClockSmall
  <1> QED BY <1>1, ModSmall DEF Elapsed

\* An update keeps the frame clock and the loan in order.
LEMMA UpdateBase ==
  ASSUME NoWrap, now \in Nat, now <= MaxClock,
         NEW r, Sound(r), Base(r, now), NEW msg \in Incoming,
         NEW u, u = source_update(r, msg)
  PROVE  /\ Base(u, now)
         /\ u.state = "OPEN" => now < u.last_recv_lent_time + Disconnect
         /\ Due(u) = Due(r)
  <1> USE SourceAssumption, Constants
  <1>1. Updated(r, u)
    BY UpdateFacts
  <1>2. Due(u) = Due(r)
    BY <1>1 DEF Updated, Due
  <1>3. u.state = "OPEN" => u.last_recv_lent_time \in Nat /\ u.last_recv_lent_time <= now
    BY <1>1, ClockSmall DEF Updated, Base, Sound, Records
  <1>4. u.state = "OPEN" => now < u.last_recv_lent_time + Disconnect
    <2> SUFFICES ASSUME u.state = "OPEN" PROVE now < u.last_recv_lent_time + Disconnect
      OBVIOUS
    <2>1. Elapsed(u.last_recv_lent_time) = now - u.last_recv_lent_time
      BY <1>3, ElapsedSmall
    <2>2. ~ (Elapsed(u.last_recv_lent_time) >= Disconnect)
      BY <1>1 DEF Updated
    <2> QED BY <1>3, <2>1, <2>2
  <1>5. Base(u, now)
    BY <1>1, <1>2, <1>3 DEF Updated, Base, Sound, Records
  <1> QED BY <1>2, <1>4, <1>5

\* An open source sleeps until its next frame is due, and no longer.
LEMMA SleepEnough ==
  ASSUME NoWrap, now \in Nat, now <= MaxClock,
         NEW r, Sound(r), Base(r, now), r.state = "OPEN"
  PROVE  /\ Sleep(r) \in 0 .. frame_duration_ms
         /\ r.frames > 0 => now + Sleep(r) >= Due(r) + frame_duration_ms
  <1> USE SourceAssumption, Constants
  <1>0. time_now = now /\ now + frame_duration_ms < NULL_TIME /\ NULL_TIME < TimeMod
    BY ClockSmall
  <1>1. CASE r.frames = 0
    <2>1. ReadyCount(r) = Buffered
      BY <1>1 DEF ReadyCount, Base
    <2>2. ReadyTimeout(r) = 0
      BY <2>1 DEF ReadyTimeout
    <2> QED BY <1>1, <2>2 DEF Sleep
  <1>2. CASE r.frames > 0
    <2> DEFINE d == Due(r)
    <2>1. d \in Nat /\ d <= now /\ r.last_frame_time = d
      BY <1>2, DueLow DEF Base, Sound
    <2> HIDE DEF d
    <2>2. Elapsed(r.last_frame_time) = now - d /\ r.last_frame_time # NULL_TIME
      BY <1>0, <2>1, ElapsedSmall
    <2>3. ReadyCount(r) = (now - d) \div frame_duration_ms
      BY <2>2 DEF ReadyCount
    <2>4. ReadyCount(r) \in Nat /\ (ReadyCount(r) > 0 <=> now - d >= frame_duration_ms)
      BY <2>1, <2>3, DivPositive
    <2>5. CASE ReadyCount(r) > 0
      <3>1. ReadyTimeout(r) = 0
        <4>1. ~ (ReadyCount(r) <= 0)
          BY <2>4, <2>5
        <4> QED BY <2>5, <4>1 DEF ReadyTimeout
      <3> QED BY <2>1, <2>4, <2>5, <3>1 DEF Sleep, d
    <2>6. CASE ReadyCount(r) <= 0
      <3>1. ReadyTimeout(r) = (d + frame_duration_ms - now) % TimeMod
        <4>1. ReadyTimeout(r) = (r.last_frame_time + frame_duration_ms - time_now) % TimeMod
          <5>1. ~ (ReadyCount(r) > 0)
            BY <2>4, <2>6
          <5> QED BY <2>6, <5>1 DEF ReadyTimeout
        <4> QED BY <1>0, <2>1, <4>1
      <3>2. d + frame_duration_ms - now \in 1 .. frame_duration_ms
        BY <2>1, <2>4, <2>6
      <3>3. d + frame_duration_ms - now \in 0 .. TimeMod - 1
        BY <1>0, <3>2
      <3>4. ReadyTimeout(r) = d + frame_duration_ms - now
        BY <3>1, <3>3, ModSmall
      <3> QED BY <2>1, <3>2, <3>4 DEF Sleep, d
    <2> QED BY <2>4, <2>5, <2>6
  <1> QED BY <1>1, <1>2 DEF Sound, Records

\* Base does not look at the call in progress.
LEMMA BaseSame ==
  ASSUME NEW r \in Records, NEW x, NEW t, Base(r, t),
         x.state = r.state, x.frames = r.frames, x.began = r.began,
         x.last_frame_time = r.last_frame_time,
         x.last_recv_lent_time = r.last_recv_lent_time
  PROVE  Base(x, t)
  BY DEF Base, Due

LEMMA SentBase ==
  ASSUME NoWrap, now \in Nat, StartClock <= now, now <= MaxClock,
         NEW r, Sound(r), Base(r, now), Ready(r, now), now >= r.wake
  PROVE  Base(FrameSent(r), now)
  <1> USE SourceAssumption, Constants
  <1> DEFINE x == FrameSent(r)
  <1>0. time_now = now /\ now + frame_duration_ms < NULL_TIME /\ NULL_TIME < TimeMod
    BY ClockSmall
  <1>1. x \in Records /\ r \in Records
    BY FrameSentSound DEF Sound
  <1>2. /\ x.state = r.state /\ x.frames = r.frames + 1
        /\ x.last_recv_lent_time = r.last_recv_lent_time
        /\ x.began = IF r.frames = 0 THEN now ELSE r.began
        /\ x.last_frame_time = IF r.last_frame_time = NULL_TIME
                               THEN (time_now - (Buffered - 1) * frame_duration_ms) % TimeMod
                               ELSE (r.last_frame_time + frame_duration_ms) % TimeMod
    BY <1>1 DEF FrameSent, Records
  <1> HIDE DEF x
  <1>3. r.frames \in Nat /\ x.frames > 0 /\ x.frames # 0
    BY <1>1, <1>2 DEF Records
  <1>4. ASSUME r.frames = 0
        PROVE  Due(x) \in Nat /\ Due(x) <= now /\ x.last_frame_time = Due(x) /\ x.began = now
    <2> DEFINE k == (Buffered - 1) * frame_duration_ms
    <2>1. k \in Nat
      OBVIOUS
    <2> HIDE DEF k
    <2>2. x.began = now /\ x.frames = 1
      BY <1>2, <1>4
    <2>3. Due(x) = now - k /\ Due(x) \in Nat
      BY <1>1, <1>3, <2>2, DueFirst, DueLow DEF k
    <2>4. now - k \in 0 .. TimeMod - 1
      BY <1>0, <2>1, <2>3
    <2>5. x.last_frame_time = (now - k) % TimeMod
      BY <1>0, <1>2, <1>4 DEF Ready, k
    <2> QED BY <2>1, <2>2, <2>3, <2>4, <2>5, ModSmall
  <1>5. ASSUME r.frames > 0
        PROVE  /\ Due(x) = Due(r) + frame_duration_ms /\ x.last_frame_time = Due(x)
               /\ Due(r) \in Nat /\ Due(r) <= now /\ x.began = r.began
    <2>1. x.began = r.began /\ Due(r) \in Nat /\ Due(r) <= now /\ r.last_frame_time = Due(r)
      BY <1>1, <1>2, <1>3, <1>5, DueLow DEF Ready, Base
    <2>2. Due(x) = Due(r) + frame_duration_ms
      BY <1>1, <1>2, <2>1, DueSucc
    <2> DEFINE d == Due(r)
    <2>3. d \in Nat /\ d <= now /\ r.last_frame_time = d /\ Due(x) = d + frame_duration_ms
      BY <2>1, <2>2
    <2> HIDE DEF d
    <2>4. d # NULL_TIME /\ d + frame_duration_ms \in 0 .. TimeMod - 1
      BY <1>0, <2>3
    <2>5. x.last_frame_time = (d + frame_duration_ms) % TimeMod
      BY <1>2, <2>3, <2>4
    <2>6. x.last_frame_time = Due(x)
      BY <2>3, <2>4, <2>5, ModSmall
    <2> QED BY <2>1, <2>2, <2>6
  <1>6. CASE r.frames = 0
    BY <1>2, <1>3, <1>4, <1>6 DEF Base, Ready, x
  <1>7. CASE r.frames > 0
    <2>1. r.state = "OPEN" => Due(x) <= now
      BY <1>1, <1>5, <1>7 DEF Ready, Records
    <2>2. Due(x) <= now + frame_duration_ms
      BY <1>5, <1>7
    <2> QED BY <1>2, <1>3, <1>5, <1>7, <2>1, <2>2 DEF Base, Ready, x
  <1> QED BY <1>3, <1>6, <1>7

LEMMA PaceOne ==
  ASSUME TypeOK, PaceInv, NEW s \in Sources, NEW x, PaceOf(x, now),
         src' = [src EXCEPT ![s] = x], UNCHANGED now
  PROVE  PaceInv'
  <1>1. \A z \in Sources : src'[z] = x \/ src'[z] = src[z]
    BY DEF TypeOK
  <1>2. \A z \in Sources : PaceOf(src'[z], now)
    BY <1>1 DEF PaceInv
  <1>3. \A z \in Sources : PaceOf(src'[z], now')
    BY <1>2
  <1> QED BY <1>3 DEF PaceInv

LEMMA PaceInit == NoWrap /\ Init => PaceInv
  BY SourceAssumption DEF NoWrap, Init, PaceInv, PaceOf, Base, source_private_make

LEMMA PaceTick ==
  ASSUME TypeOK, PaceInv, Tick
  PROVE  PaceInv'
  <1> USE SourceAssumption, Constants
  <1>1. ASSUME NEW s \in Sources PROVE PaceOf(src[s], now + 1)
    <2> DEFINE r == src[s]
    <2>1. Sound(r) /\ PaceOf(r, now) /\ now \in Nat
      BY DEF TypeOK, Sound, PaceInv
    <2> HIDE DEF r
    <2>2. r.frames > 0 => Due(r) \in Int
      BY <2>1 DEF PaceOf, Base, Sound, Records
    <2>3. Base(r, now + 1)
      BY <2>1, <2>2 DEF PaceOf, Base, Sound, Records
    <2>4. r.pc = "put_send" => Ready(r, now + 1)
      BY <2>1, <2>2 DEF PaceOf, Ready
    <2> QED BY <2>1, <2>3, <2>4 DEF PaceOf, r
  <1>2. src' = src /\ now' = now + 1 /\ now < MaxClock /\ now \in Nat
    BY DEF Tick, TypeOK
  <1>3. \A s \in Sources : PaceOf(src'[s], now')
    BY <1>1, <1>2
  <1> QED BY <1>2, <1>3 DEF PaceInv

LEMMA PaceNext == NoWrap /\ TypeOK /\ PaceInv /\ [Next]_vars => PaceInv'
  <1> SUFFICES ASSUME NoWrap, TypeOK, PaceInv, [Next]_vars PROVE PaceInv'
    OBVIOUS
  <1> USE SourceAssumption, Constants
  <1>0. /\ now \in Nat /\ StartClock <= now /\ now <= MaxClock
        /\ \A s \in Sources : Sound(src[s]) /\ PaceOf(src[s], now)
    BY DEF TypeOK, Sound, PaceInv
  <1>1. ASSUME NEW s \in Sources, NEW msg \in Incoming, Receiving(s, msg)
        PROVE  PaceInv'
    <2> DEFINE r == src[s]
               u == source_update(r, msg)
    <2>0. Sound(r) /\ PaceOf(r, now) /\ Base(r, now)
      BY <1>0 DEF PaceOf
    <2>1. /\ Updated(r, u) /\ Base(u, now) /\ Due(u) = Due(r)
          /\ u.state = "OPEN" => now < u.last_recv_lent_time + Disconnect
      BY <1>0, <2>0, UpdateFacts, UpdateBase
    <2>2. Sound(u) /\ u \in Records /\ u.pc = r.pc
      BY <2>1 DEF Updated, Sound
    <2> HIDE DEF r, u
    <2>3. CASE atolla_source_state(s, msg)
      <3>1. src' = [src EXCEPT ![s] = u] /\ UNCHANGED now /\ u.pc = "idle"
        BY <2>2, <2>3 DEF atolla_source_state, Update, u, r
      <3>2. PaceOf(u, now)
        BY <2>1, <3>1 DEF PaceOf
      <3> QED BY <3>1, <3>2, PaceOne
    <2>4. CASE source_await_make_completion(s, msg)
      <3> DEFINE x == IF u.state = "WAITING"
                      THEN [u EXCEPT !.wake = now + blocking_make_refresh_interval]
                      ELSE [u EXCEPT !.pc = "idle", !.wake = 0]
      <3>1. src' = [src EXCEPT ![s] = x] /\ UNCHANGED now /\ u.pc = "await"
        BY <2>2, <2>4 DEF source_await_make_completion, Update, u, r
      <3>2. /\ x.state = u.state /\ x.frames = u.frames /\ x.began = u.began
            /\ x.last_frame_time = u.last_frame_time
            /\ x.last_recv_lent_time = u.last_recv_lent_time
            /\ x.pc \in {"await", "idle"}
        BY <2>2, <3>1 DEF Records
      <3> HIDE DEF x
      <3>3. PaceOf(x, now)
        BY <2>1, <2>2, <3>2, BaseSame DEF PaceOf
      <3> QED BY <3>1, <3>3, PaceOne
    <2>5. CASE put_update(s, msg)
      <3> DEFINE x == [u EXCEPT !.pc = "put_state"]
      <3>1. src' = [src EXCEPT ![s] = x] /\ UNCHANGED now
        BY <2>5 DEF put_update, Update, u, r
      <3>2. /\ x.state = u.state /\ x.frames = u.frames /\ x.began = u.began
            /\ x.last_frame_time = u.last_frame_time
            /\ x.last_recv_lent_time = u.last_recv_lent_time
            /\ x.pc = "put_state"
        BY <2>2 DEF Records
      <3> HIDE DEF x
      <3>3. PaceOf(x, now)
        BY <2>1, <2>2, <3>2, BaseSame DEF PaceOf
      <3> QED BY <3>1, <3>3, PaceOne
    <2>6. CASE put_state(s, msg)
      <3> DEFINE x == IF u.state = "OPEN" THEN [u EXCEPT !.pc = "put_timeout"]
                      ELSE [u EXCEPT !.pc = "idle"]
      <3>1. src' = [src EXCEPT ![s] = x] /\ UNCHANGED now
        BY <2>6 DEF put_state, Update, u, r
      <3>2. /\ x.state = u.state /\ x.frames = u.frames /\ x.began = u.began
            /\ x.last_frame_time = u.last_frame_time
            /\ x.last_recv_lent_time = u.last_recv_lent_time
            /\ (x.pc = "put_timeout" /\ x.state = "OPEN") \/ x.pc = "idle"
        BY <2>2 DEF Records
      <3> HIDE DEF x
      <3>3. PaceOf(x, now)
        BY <2>1, <2>2, <3>2, BaseSame DEF PaceOf
      <3> QED BY <3>1, <3>3, PaceOne
    <2>7. CASE put_timeout(s, msg)
      <3> DEFINE w == now + Sleep(u)
                 x == [u EXCEPT !.pc = "put_send", !.wake = w]
      <3>1. src' = [src EXCEPT ![s] = x] /\ UNCHANGED now /\ r.pc = "put_timeout"
        BY <2>7 DEF put_timeout, Update, u, r
      <3>2. r.state = "OPEN"
        BY <2>0, <3>1 DEF PaceOf
      <3>3. w \in Nat
        BY <1>0, <2>2, SleepNat
      <3>4. u.state = "OPEN" =>
              /\ u.frames > 0 => w >= Due(u) + frame_duration_ms
              /\ w < u.last_recv_lent_time + Disconnect + frame_duration_ms
        <4> SUFFICES ASSUME u.state = "OPEN"
                     PROVE  /\ u.frames > 0 => w >= Due(u) + frame_duration_ms
                            /\ w < u.last_recv_lent_time + Disconnect + frame_duration_ms
          OBVIOUS
        <4>1. u.last_recv_lent_time \in Nat
          BY <2>2 DEF Sound
        <4>2. /\ Sleep(u) \in 0 .. frame_duration_ms
              /\ u.frames > 0 => w >= Due(u) + frame_duration_ms
          BY <1>0, <2>1, <2>2, SleepEnough
        <4> QED BY <1>0, <2>1, <4>1, <4>2
      <3> HIDE DEF w
      <3>5. /\ x.state = u.state /\ x.frames = u.frames /\ x.began = u.began
            /\ x.last_frame_time = u.last_frame_time
            /\ x.last_recv_lent_time = u.last_recv_lent_time
            /\ x.pc = "put_send" /\ x.wake = w
        BY <2>2 DEF Records
      <3> HIDE DEF x
      <3>6. Due(x) = Due(u) /\ Base(x, now)
        BY <2>1, <2>2, <3>5, BaseSame DEF Due
      <3>7. /\ u.state # "WAITING"
            /\ u.frames = 0 => u.last_frame_time = NULL_TIME
            /\ u.frames > 0 => Due(u) <= now
        BY <2>0, <2>1, <3>2 DEF Updated, Base
      <3>8. Ready(x, now)
        BY <3>4, <3>5, <3>6, <3>7 DEF Ready
      <3>9. PaceOf(x, now)
        BY <3>5, <3>6, <3>8 DEF PaceOf
      <3> QED BY <3>1, <3>9, PaceOne
    <2> QED BY <1>1, <2>3, <2>4, <2>5, <2>6, <2>7 DEF Receiving
  <1>2. ASSUME NEW s \in Sources, NEW ok \in BOOLEAN, NEW async_make \in BOOLEAN,
               atolla_source_make(s, ok, async_make)
        PROVE  PaceInv'
    <2>1. PICK x : /\ src' = [src EXCEPT ![s] = x]
                   /\ x.frames = 0 /\ x.began = 0 /\ x.state # "OPEN"
                   /\ x.pc \in {"idle", "await"}
      <3> DEFINE y == [source_private_make EXCEPT
                         !.first_borrow_time = time_now,
                         !.last_borrow_time = time_now,
                         !.pc = IF async_make THEN "idle" ELSE "await",
                         !.wake = now + blocking_make_refresh_interval]
                 z == source_fail(source_private_make)
      <3>1. src' = [src EXCEPT ![s] = y] \/ src' = [src EXCEPT ![s] = z]
        BY <1>2 DEF atolla_source_make
      <3>2. /\ y.frames = 0 /\ y.began = 0 /\ y.state # "OPEN"
            /\ y.pc \in {"idle", "await"}
        BY DEF source_private_make
      <3>3. /\ z.frames = 0 /\ z.began = 0 /\ z.state # "OPEN"
            /\ z.pc \in {"idle", "await"}
        BY DEF source_private_make, source_fail
      <3> HIDE DEF y, z
      <3> QED BY <3>1, <3>2, <3>3
    <2>2. PaceOf(x, now)
      BY <2>1 DEF PaceOf, Base
    <2>3. UNCHANGED now
      BY <1>2 DEF atolla_source_make
    <2> QED BY <2>1, <2>2, <2>3, PaceOne
  <1>3. ASSUME NEW s \in Sources, put_send(s) PROVE PaceInv'
    <2>1. Ready(src[s], now) /\ now >= src[s].wake /\ Base(src[s], now) /\ Sound(src[s])
      BY <1>0, <1>3 DEF put_send, PaceOf
    <2>2. Base(FrameSent(src[s]), now)
      BY <1>0, <2>1, SentBase
    <2>3. FrameSent(src[s]).pc = "idle"
      BY <2>1 DEF FrameSent, Sound, Records
    <2>4. PaceOf(FrameSent(src[s]), now)
      BY <2>2, <2>3 DEF PaceOf
    <2> QED BY <1>3, <2>4, PaceOne DEF put_send
  <1>4. ASSUME NEW s \in Sources,
               put_send_fails(s) \/ atolla_source_free(s) PROVE PaceInv'
    <2>1. PICK x : /\ src' = [src EXCEPT ![s] = x]
                   /\ x.state = src[s].state /\ x.frames = src[s].frames
                   /\ x.began = src[s].began
                   /\ x.last_frame_time = src[s].last_frame_time
                   /\ x.last_recv_lent_time = src[s].last_recv_lent_time
                   /\ x.pc \in {"idle", "freed"}
      <3> DEFINE y == [src[s] EXCEPT !.pc = "idle", !.wake = 0]
                 z == [src[s] EXCEPT !.pc = "freed"]
      <3>1. src' = [src EXCEPT ![s] = y] \/ src' = [src EXCEPT ![s] = z]
        BY <1>4 DEF put_send_fails, atolla_source_free, TypeOK
      <3>2. /\ y.state = src[s].state /\ y.frames = src[s].frames
            /\ y.began = src[s].began
            /\ y.last_frame_time = src[s].last_frame_time
            /\ y.last_recv_lent_time = src[s].last_recv_lent_time
            /\ y.pc = "idle"
        BY <1>0 DEF Sound, Records
      <3>3. /\ z.state = src[s].state /\ z.frames = src[s].frames
            /\ z.began = src[s].began
            /\ z.last_frame_time = src[s].last_frame_time
            /\ z.last_recv_lent_time = src[s].last_recv_lent_time
            /\ z.pc = "freed"
        BY <1>0 DEF Sound, Records
      <3> HIDE DEF y, z
      <3> QED BY <3>1, <3>2, <3>3
    <2>2. PaceOf(x, now)
      BY <1>0, <2>1, BaseSame DEF PaceOf, Sound
    <2>3. UNCHANGED now
      BY <1>4 DEF put_send_fails, atolla_source_free
    <2> QED BY <2>1, <2>2, <2>3, PaceOne
  <1>5. CASE Tick
    BY <1>5, PaceTick
  <1>6. CASE UNCHANGED vars
    BY <1>6 DEF vars, PaceInv
  <1> QED BY <1>1, <1>2, <1>3, <1>4, <1>5, <1>6 DEF Next, Other

LEMMA PaceMeans == TypeOK /\ PaceInv => Paced
  <1> SUFFICES ASSUME TypeOK, PaceInv, NEW s \in Sources
               PROVE  (src[s].frames - Allowed(src[s])) * frame_duration_ms
                        <= now - src[s].began
    BY DEF Paced
  <1> USE SourceAssumption, Constants
  <1> DEFINE r == src[s]
             d == frame_duration_ms
             k == r.frames - Buffered
  <1>1. Sound(r) /\ PaceOf(r, now) /\ now \in Nat
    BY DEF TypeOK, Sound, PaceInv
  <1>2. /\ d \in Nat /\ r.frames \in Nat /\ r.began \in Nat /\ k \in Int
        /\ r.state \in {"WAITING", "OPEN", "ERROR"} /\ Due(r) = r.began + k * d
    BY <1>1 DEF Sound, Records, Due
  <1>3. /\ r.state = "ERROR" => r.frames - Allowed(r) = k - 1
        /\ r.state # "ERROR" => r.frames - Allowed(r) = k
    BY <1>2 DEF Allowed
  <1>4. r.frames = 0 => r.began = 0 /\ k <= 0
    BY <1>1 DEF PaceOf, Base
  <1>5. r.frames > 0 => Due(r) <= now + d /\ (r.state # "ERROR" => Due(r) <= now)
    BY <1>1, <1>2 DEF PaceOf, Base
  <1> HIDE DEF r, d, k
  <1>6. k * d \in Int /\ (k - 1) * d = k * d - d /\ (k <= 0 => k * d <= 0)
    BY <1>2
  <1>7. (r.frames - Allowed(r)) * d <= now - r.began
    <2>1. CASE r.state = "ERROR"
      BY <1>1, <1>2, <1>3, <1>4, <1>5, <1>6, <2>1
    <2>2. CASE r.state # "ERROR"
      BY <1>1, <1>2, <1>3, <1>4, <1>5, <1>6, <2>2
    <2> QED BY <2>1, <2>2
  <1> QED BY <1>7 DEF r, d

\* As long as time_now() does not wrap (NoWrap), a source never sends more
\* frames than max_buffered_frames and the time since the first allow, but
\* for the one frame that is in atolla_source_put when the source fails.
THEOREM SourceIsPaced == ASSUME NoWrap PROVE Spec => []Paced
  BY TypeInit, TypeNext, PaceInit, PaceNext, PaceMeans, PTL DEF Spec
-----------------------------------------------------------------------------
(* The promise of atolla_source_put_ready_count. *)

LEMMA DivFacts ==
  ASSUME NEW d \in Nat \ {0}, NEW a \in Nat
  PROVE  (a \div d) \in Nat /\ (a % d) \in 0 .. d - 1 /\ a = d * (a \div d) + (a % d)
  <1>1. a \div d \in Nat
    OBVIOUS
  <1>2. (a % d) \in 0 .. d - 1
    OBVIOUS
  <1>3. a = d * (a \div d) + (a % d)
    OBVIOUS
  <1> QED BY <1>1, <1>2, <1>3

LEMMA QuotientOrder ==
  ASSUME NEW d \in Nat \ {0}, NEW q \in Int, NEW p \in Int,
         NEW r \in 0 .. d - 1, NEW t \in 0 .. d - 1, d * q + r <= d * p + t
  PROVE  q <= p
  <1> SUFFICES ASSUME q >= p + 1 PROVE FALSE
    OBVIOUS
  <1>1. d * q >= d * (p + 1)
    OBVIOUS
  <1>2. d * (p + 1) = d * p + d
    OBVIOUS
  <1> QED BY <1>1, <1>2

\* Time that passes never takes from a quotient of it.
LEMMA DivMonotone ==
  ASSUME NEW d \in Nat \ {0}, NEW a \in Nat, NEW b \in Nat, a <= b
  PROVE  a \div d <= b \div d
  BY DivFacts, QuotientOrder

LEMMA DivLess ==
  ASSUME NEW d \in Nat \ {0}, NEW a \in Nat, a >= d
  PROVE  (a - d) \div d = (a \div d) - 1
  OBVIOUS

LEMMA DivMultiple ==
  ASSUME NEW d \in Nat \ {0}, NEW k \in Nat
  PROVE  (k * d) \div d = k
  OBVIOUS

\* What atolla_source_put_ready_count computes from the record at time t, ...
CountAt(r, t) ==
  IF r.state # "OPEN" THEN 0
  ELSE IF r.last_frame_time = NULL_TIME THEN Buffered
  ELSE (((t % TimeMod) - r.last_frame_time) % TimeMod) \div frame_duration_ms

\* ... and what that means: the buffer before the first frame, and later the
\* whole frame durations since the sink was to begin with the frame that
\* lies max_buffered_frames before the next.
Credit(r, t) ==
  IF r.frames = 0 THEN Buffered ELSE (t - Due(r)) \div frame_duration_ms

LEMMA ReadyIsCount ==
  /\ \A r : ReadyCount(r) = CountAt(r, now)
  /\ \A s : ReadyCount(src[s])' = CountAt(src'[s], now')
  <1>1. \A r : ReadyCount(r) = CountAt(r, now)
    BY DEF ReadyCount, CountAt, Elapsed, time_now
  <1>2. \A s : ReadyCount(src[s])' = CountAt(src'[s], now')
    BY DEF ReadyCount, CountAt, Elapsed, time_now
  <1> QED BY <1>1, <1>2

LEMMA CountIsCredit ==
  ASSUME NoWrap, NEW t \in Nat, t <= MaxClock, NEW r, Sound(r), Base(r, t),
         r.state = "OPEN"
  PROVE  /\ CountAt(r, t) = Credit(r, t)
         /\ Credit(r, t) \in Nat
         /\ r.frames > 0 => Due(r) \in Nat /\ Due(r) <= t
  <1> USE SourceAssumption, Constants
  <1>0. r.frames \in Nat /\ r \in Records
    BY DEF Sound, Records
  <1>1. CASE r.frames = 0
    BY <1>1 DEF CountAt, Credit, Base
  <1>2. CASE r.frames > 0
    <2> DEFINE d == Due(r)
    <2>1. d \in Nat /\ d <= t /\ r.last_frame_time = d
      BY <1>0, <1>2, DueLow DEF Base
    <2>2. t + frame_duration_ms < NULL_TIME /\ NULL_TIME < TimeMod
      BY DEF NoWrap
    <2> HIDE DEF d
    <2>3. d # NULL_TIME /\ t \in 0 .. TimeMod - 1 /\ t - d \in 0 .. TimeMod - 1
      BY <2>1, <2>2
    <2>4. t % TimeMod = t /\ (t - d) % TimeMod = t - d
      BY <2>3, ModSmall
    <2>5. CountAt(r, t) = (t - d) \div frame_duration_ms
      BY <2>1, <2>3, <2>4 DEF CountAt
    <2>6. t - d \in Nat
      BY <2>1
    <2>7. (t - d) \div frame_duration_ms \in Nat
      BY <2>6, DivFacts
    <2> QED BY <1>2, <2>1, <2>5, <2>7 DEF Credit, d
  <1> QED BY <1>0, <1>1, <1>2

\* What a step leaves of the frame clock of a source that is open.
LEMMA OpenStep ==
  ASSUME TypeOK, [Next]_vars, NEW s \in Sources, src[s].state = "OPEN",
         src[s].pc # "unmade"
  PROVE  /\ now' \in {now, now + 1}
         /\ \/ src'[s].frames = src[s].frames /\ src'[s].began = src[s].began
            \/ put_send(s)
  <1> USE SourceAssumption
  <1>0. now \in Nat /\ src \in [Sources -> Records] /\ \A z \in Sources : Sound(src[z])
    BY DEF TypeOK, Sound
  <1> DEFINE Same(x) == x.frames = src[s].frames /\ x.began = src[s].began
  <1>a. ASSUME NEW z \in Sources, NEW x, z = s => Same(x), src' = [src EXCEPT ![z] = x]
        PROVE  Same(src'[s])
    BY <1>0, <1>a
  <1>1. ASSUME NEW z \in Sources, NEW msg \in Incoming, Receiving(z, msg)
        PROVE  Same(src'[s]) /\ now' = now
    <2> DEFINE u == source_update(src[z], msg)
    <2>1. Sound(u) /\ u.frames = src[z].frames /\ u.began = src[z].began
      BY <1>0, UpdateFacts DEF Updated
    <2> HIDE DEF u
    <2>2. PICK x : /\ x.frames = u.frames /\ x.began = u.began
                   /\ src' = [src EXCEPT ![z] = x]
      BY <1>1, ReceivingStep DEF u
    <2>3. now' = now
      BY <1>1, ReceivingStep
    <2> QED BY <2>1, <2>2, <2>3, <1>a
  <1>2. ASSUME NEW z \in Sources, NEW ok \in BOOLEAN, NEW async_make \in BOOLEAN,
               atolla_source_make(z, ok, async_make)
        PROVE  Same(src'[s]) /\ now' = now
    <2>1. z # s
      BY <1>2 DEF atolla_source_make
    <2>2. PICK x : src' = [src EXCEPT ![z] = x]
      BY <1>2 DEF atolla_source_make
    <2> QED BY <1>2, <2>1, <2>2, <1>a DEF atolla_source_make
  <1>3. ASSUME NEW z \in Sources, put_send(z), z # s PROVE Same(src'[s]) /\ now' = now
    BY <1>0, <1>3 DEF put_send
  <1>4. ASSUME NEW z \in Sources, put_send_fails(z) \/ atolla_source_free(z)
        PROVE  Same(src'[s]) /\ now' = now
    BY <1>0, <1>4 DEF put_send_fails, atolla_source_free, Records
  <1>5. put_send(s) => now' = now
    BY DEF put_send
  <1>6. CASE Tick
    BY <1>6 DEF Tick
  <1>7. CASE UNCHANGED vars
    BY <1>7 DEF vars
  <1> QED BY <1>1, <1>2, <1>3, <1>4, <1>5, <1>6, <1>7 DEF Next, Other

\* A frame takes one.
LEMMA FrameCredit ==
  ASSUME NEW t \in Nat, NEW r \in Records, NEW x \in Records,
         r.frames > 0 => Due(r) \in Nat /\ Due(r) <= t,
         x.frames = r.frames + 1,
         x.began = IF r.frames = 0 THEN t ELSE r.began,
         x.frames > 0 => Due(x) <= t
  PROVE  Credit(x, t) = Credit(r, t) - 1
  <1> USE SourceAssumption, Constants
  <1>0. r.frames \in Nat /\ x.frames > 0
    BY DEF Records
  <1>1. Credit(x, t) = (t - Due(x)) \div frame_duration_ms
    BY <1>0 DEF Credit
  <1>2. CASE r.frames = 0
    <2> DEFINE k == Buffered - 1
    <2>1. k \in Nat /\ Buffered = k + 1
      OBVIOUS
    <2>2. Due(x) = t - k * frame_duration_ms
      BY <1>2, DueFirst DEF k
    <2> HIDE DEF k
    <2>3. k * frame_duration_ms \in Nat
      BY <2>1
    <2>4. t - Due(x) = k * frame_duration_ms
      BY <2>2, <2>3
    <2>5. Credit(x, t) = k
      BY <1>1, <2>1, <2>4, DivMultiple
    <2>6. Credit(r, t) = Buffered
      BY <1>2 DEF Credit
    <2> QED BY <2>1, <2>5, <2>6
  <1>3. CASE r.frames > 0
    <2>1. Due(x) = Due(r) + frame_duration_ms
      BY <1>3, DueSucc
    <2> DEFINE a == t - Due(r)
    <2>2. a \in Nat /\ a >= frame_duration_ms /\ t - Due(x) = a - frame_duration_ms
      BY <1>0, <1>3, <2>1
    <2>3. Credit(r, t) = a \div frame_duration_ms
      BY <1>3 DEF Credit
    <2> HIDE DEF a
    <2>4. Credit(x, t) = (a \div frame_duration_ms) - 1
      BY <1>1, <2>2, DivLess
    <2> QED BY <2>3, <2>4
  <1> QED BY <1>0, <1>2, <1>3

\* For one source: nothing but a frame sent takes from the count.
LEMMA CreditStep ==
  ASSUME NoWrap, TypeOK, TypeOK', PaceInv, PaceInv', [Next]_vars,
         NEW s \in Sources, src[s].state = "OPEN", src'[s].state = "OPEN"
  PROVE  CountAt(src'[s], now')
           >= CountAt(src[s], now) - (src'[s].frames - src[s].frames)
  <1> USE SourceAssumption, Constants
  <1> DEFINE r == src[s]
             x == src'[s]
  <1>1. /\ Sound(r) /\ PaceOf(r, now) /\ Base(r, now)
        /\ Sound(x) /\ PaceOf(x, now') /\ Base(x, now')
        /\ now \in Nat /\ now <= MaxClock /\ now' \in Nat /\ now' <= MaxClock
    BY DEF TypeOK, Sound, PaceInv, PaceOf
  <1>2. /\ CountAt(r, now) = Credit(r, now) /\ CountAt(x, now') = Credit(x, now')
        /\ Credit(r, now) \in Nat /\ Credit(x, now') \in Nat
        /\ r.frames > 0 => Due(r) \in Nat /\ Due(r) <= now
        /\ x.frames > 0 => Due(x) \in Nat /\ Due(x) <= now'
    BY <1>1, CountIsCredit
  <1>3. r.frames \in Nat /\ r \in Records /\ x \in Records
    BY <1>1 DEF Sound, Records
  <1>4. /\ now' \in {now, now + 1}
        /\ (x.frames = r.frames /\ x.began = r.began) \/ put_send(s)
    BY <1>1, OpenStep DEF PaceOf
  <1>5. CASE x.frames = r.frames /\ x.began = r.began
    <2>1. Due(x) = Due(r)
      BY <1>5 DEF Due
    <2>2. Credit(x, now') >= Credit(r, now)
      <3>1. CASE r.frames = 0
        BY <1>5, <3>1 DEF Credit
      <3>2. CASE r.frames > 0
        <4> DEFINE a == now - Due(r)
                   b == now' - Due(r)
        <4>1. a \in Nat /\ b \in Nat /\ a <= b
          BY <1>1, <1>2, <1>4, <3>2
        <4>2. /\ Credit(r, now) = a \div frame_duration_ms
              /\ Credit(x, now') = b \div frame_duration_ms
          BY <1>5, <2>1, <3>2 DEF Credit
        <4> HIDE DEF a, b
        <4>3. a \div frame_duration_ms <= b \div frame_duration_ms
          BY <4>1, DivMonotone
        <4> QED BY <1>2, <4>2, <4>3
      <3> QED BY <1>3, <3>1, <3>2
    <2> QED BY <1>2, <1>3, <1>5, <2>2
  <1>6. CASE put_send(s)
    <2>1. x = FrameSent(r) /\ now' = now
      BY <1>6 DEF put_send, TypeOK
    <2>2. /\ x.frames = r.frames + 1
          /\ x.began = IF r.frames = 0 THEN now ELSE r.began
      BY <1>3, <2>1 DEF FrameSent, Records
    <2>3. x.frames > 0 => Due(x) <= now
      BY <1>2, <2>1
    <2> HIDE DEF r, x
    <2>4. Credit(x, now) = Credit(r, now) - 1
      BY <1>1, <1>2, <1>3, <2>2, <2>3, FrameCredit
    <2>5. CountAt(x, now) >= CountAt(r, now) - (x.frames - r.frames)
      BY <1>2, <1>3, <2>1, <2>2, <2>4
    <2> QED BY <2>1, <2>5 DEF r, x
  <1> QED BY <1>4, <1>5, <1>6

\* What atolla_source_put_ready_count promised holds until it is used: as
\* long as time_now() does not wrap, an update, a LENT, time that passes or
\* a failed send takes nothing from the count of an open source, and a frame
\* takes one.
THEOREM ReadyCountIsKept == ASSUME NoWrap PROVE Spec => CreditKept
  <1> DEFINE Kept == \A s \in Sources :
               src[s].state = "OPEN" /\ src'[s].state = "OPEN" =>
                 ReadyCount(src[s])' >= ReadyCount(src[s]) - (src'[s].frames - src[s].frames)
  <1>1. TypeOK /\ TypeOK' /\ PaceInv /\ PaceInv' /\ [Next]_vars => [Kept]_vars
    <2> SUFFICES ASSUME TypeOK, TypeOK', PaceInv, PaceInv', [Next]_vars,
                        NEW s \in Sources, src[s].state = "OPEN", src'[s].state = "OPEN"
                 PROVE  ReadyCount(src[s])' >= ReadyCount(src[s]) - (src'[s].frames - src[s].frames)
      OBVIOUS
    <2>1. CountAt(src'[s], now') >= CountAt(src[s], now) - (src'[s].frames - src[s].frames)
      BY CreditStep
    <2> QED BY <2>1, ReadyIsCount
  <1> QED BY <1>1, TypeInit, TypeNext, PaceInit, PaceNext, PTL DEF Spec, CreditKept

=============================================================================
