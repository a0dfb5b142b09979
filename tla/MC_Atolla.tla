----------------------------- MODULE MC_Atolla -----------------------------
(***************************************************************************)
(* The composition of Atolla.tla for TLC, with history variables for the   *)
(* properties that relate what one end does to what happened at the other. *)
(***************************************************************************)
EXTENDS Atolla

VARIABLES
  lent_at,    \* when the sink last sent LENT to each source
  missed,     \* whether, since it last received LENT, another was lost or
              \* its loan did not stand
  queued      \* frames appended to the ring since the loan began

history == <<lent_at, missed, queued>>
observedVars == <<systemVars, history>>

ObservedInit ==
  /\ SystemInit
  /\ lent_at = [s \in Sources |-> -1]
  /\ missed = [s \in Sources |-> TRUE]
  /\ queued = 0

\* While the sink is at work, nobody else's steps come in between.
SendsLent == pc \in {"iterate", "send"} /\ out' # None /\ out'.msg = Lent

\* LENT messages on their way to s; one may disappear from the queue.
LentOnWay(s) == SelectSeq(to_source[s], LAMBDA p : p.msg = Lent)
Hears(s) == src'[s].last_recv_lent_time # src[s].last_recv_lent_time

ObservedNext ==
  /\ SystemNext
  /\ lent_at' = IF SendsLent
                THEN [lent_at EXCEPT ![out'.to] = now] ELSE lent_at
  /\ missed' = [s \in Sources |->
       \/ faults' > faults /\ Len(LentOnWay(s)') < Len(LentOnWay(s))
       \/ K!Holder' # s
       \/ missed[s] /\ ~Hears(s)]
  /\ queued' = IF state # "LENT" /\ state' = "LENT" THEN 0
               ELSE IF Len(pending_frames') > Len(pending_frames)
               THEN queued + 1 ELSE queued

\* What a step last sent or showed changes nothing that follows.
Seen == <<src, now, state, borrower_endpoint, loan_frame_ms, pending_frames,
          current_frame, time_origin, last_enqueued_frame_idx, last_recv_time,
          last_send_lent_time, pc, rx, get_now, network, schedule, history>>

ObservedSpec == ObservedInit /\ [][ObservedNext]_observedVars

-----------------------------------------------------------------------------
\* The frame that entered the ring last.
Newest == IF pending_frames = << >> THEN current_frame ELSE Last(pending_frames)

\* The frames of a loan keep their places: whatever the network lost,
\* repeated or swapped, the frame that a source put as its n-th is the n-th
\* to enter the ring, copies of a later one standing in for those lost or
\* overtaken (sink_handle_enqueue, and the order of BORROW and ENQUEUE).
InStep ==
  state = "LENT" /\ pc = "idle" /\ queued > 0 =>
    Newest = [by |-> borrower_endpoint, tag |-> queued - 1]

\* As long as the network loses and delays nothing, sources that pace their
\* frames never fill the ring of a sink that shows them in time, although a
\* source may ask for the whole of it: sink_handle_enqueue has room.
RingHasRoom == faults = 0 => K!Room

\* A source whose loan stands and that missed no LENT stays open: what
\* lent_send_interval leaves of disconnect_timeout_ms is enough for the
\* network, the sleeps of put and the order of updates.
HealthyStaysOpen ==
  [][\A s \in Sources :
       src[s].state = "OPEN" /\ K!Holder = s /\ ~missed[s] =>
         src'[s].state = "OPEN"]_observedVars

\* An open source streams on a loan that the sink itself renewed a bounded
\* time ago, so that after a lost loan, or a restart of the sink, two sources
\* believe in their loans for that long at most.  A LENT travels, waits while
\* the source sleeps in atolla_source_put, is good for disconnect_timeout_ms,
\* and the last put may sleep again.  That holds while the sink sends no more
\* than three LENT in a frame duration, which is what one put takes from the
\* socket; more would pile up there.
StreamsOnFreshLoan ==
  [][\A s \in Sources :
       src'[s].frames > src[s].frames /\ src[s].state = "OPEN" =>
         now - lent_at[s] < 1 + MaxFaults + Disconnect + 2 * frame_duration_ms]_observedVars
=============================================================================
