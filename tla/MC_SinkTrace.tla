--------------------------- MODULE MC_SinkTrace ---------------------------
(***************************************************************************)
(* The sink of Sink.tla under arbitrary datagrams of two endpoints, with   *)
(* history variables for the properties that relate a step to earlier      *)
(* ones.                                                                   *)
(***************************************************************************)
EXTENDS Sink

VARIABLES
  heard,      \* when the sink last finished a datagram of the borrower
  first_at,   \* when the first frame since the borrowing was shown
  count       \* frames taken from the ring since the borrowing

history == <<heard, first_at, count>>
tracedVars == <<vars, history>>

Granting == pc = "iterate" /\ out' # None /\ out'.msg = Lent
Finishing == pc = "iterate" /\ pc' = "send"
Taking == pc \in {"idle", "get"} /\ Len(pending_frames') < Len(pending_frames)

TracedInit == Init /\ heard = 0 /\ first_at = 0 /\ count = 0

TracedNext ==
  /\ Next
  /\ heard' = IF Granting \/ (Finishing /\ rx.from = borrower_endpoint)
              THEN now ELSE heard
  /\ count' = IF Granting THEN 0 ELSE IF Taking THEN count + 1 ELSE count
  /\ first_at' = IF Taking /\ count = 0 THEN now ELSE first_at

TracedSpec == TracedInit /\ [][TracedNext]_tracedVars

\* A loan is ended for silence only after the borrower was silent for more
\* than drop_timeout (sink_receive compares with last_recv_time, which a
\* borrowing sets to NULL_TIME for a moment).
SilentBeforeTimeout ==
  [][pc = "idle" /\ out' # None => now - heard > DropTimeout]_tracedVars

\* A poll that finds the borrower silent for longer than drop_timeout ends
\* the loan (doc/Atolla Protocol.md on ATOLLA_ERROR_CODE_TIMEOUT).
SilentBorrowerDropped ==
  [][pc # "send" /\ pc' = "send" /\ state' = "LENT" =>
       now - heard' <= DropTimeout]_tracedVars

\* atolla_sink_get never runs ahead of the frame clock: the n-th frame of a
\* loan is taken n - 1 frame durations after the first, or later, however
\* late and in whatever bursts frames arrive and the application asks.
NeverRushes ==
  state = "LENT" /\ count > 0 =>
    first_at + (count - 1) * frame_duration_ms <= now
=============================================================================
