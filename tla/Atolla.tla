------------------------------- MODULE Atolla -------------------------------
(***************************************************************************)
(* Light sources and a light sink on one network: the sources of Source.tla *)
(* and the sink of Sink.tla, each datagram one of them sends being, after  *)
(* a while, what the other receives.                                       *)
(*                                                                         *)
(* The network keeps the order of what a source and the sink send each     *)
(* other and takes 1 ms.  At most MaxFaults times it delays, loses or      *)
(* duplicates a datagram or swaps two, or the sink is stopped, to be       *)
(* started again.                                                          *)
(*                                                                         *)
(* The programs do not dawdle: their calls take no time but for the sleeps *)
(* in them, the sink is polled and asked for a frame in turns, once a ms   *)
(* at least and until its socket is empty, and what arrived for a source   *)
(* that does not sleep is taken from its socket.  (A datagram that waits   *)
(* for a slower program is one that was delayed.)  As no datagram arrives  *)
(* in the ms it was sent in, nobody can tell in what order the programs    *)
(* run within one; here the sources come first.                            *)
(***************************************************************************)
EXTENDS Source, SequencesExt

CONSTANTS
  Slots, MaxSkip, DropTimeout, LentInterval, FrameMin,   \* of Sink
  MaxFaults       \* bound: datagrams delayed, lost, duplicated or
                  \* swapped, and sinks stopped

VARIABLES
  state, borrower_endpoint, loan_frame_ms, pending_frames, current_frame,
  time_origin, last_enqueued_frame_idx, last_recv_time, last_send_lent_time,
  pc, rx, get_now, got, out,     \* of Sink
  to_sink,     \* what each source sent and the sink has not received
  to_source,   \* what the sink sent to each source
  turns,       \* the sources that have yet to run in this ms
  served,      \* the calls made to the sink in this ms
  faults       \* how many of them there were

sink == <<state, borrower_endpoint, loan_frame_ms, pending_frames,
          current_frame, time_origin, last_enqueued_frame_idx, last_recv_time,
          last_send_lent_time, pc, rx, get_now, got, out>>
network == <<to_sink, to_source, faults>>
schedule == <<turns, served>>
systemVars == <<vars, sink, network, schedule>>

K == INSTANCE Sink WITH
       Endpoints <- Sources,
       Tags <- Nat,
       frame_duration_ms <- loan_frame_ms,
       FrameLengths <- {frame_duration_ms % ByteMod},
       BufferLengths <- {Buffered % ByteMod},
       FrameIdxs <- 0 .. IdxMod - 1,
       MaxMsgs <- 1

ASSUME NoneIsNoPacket == \A s \in Sources : K!Packet(s, K!Lent) # None

SystemInit ==
  /\ Init
  /\ K!Init
  /\ to_sink = [s \in Sources |-> << >>]
  /\ to_source = [s \in Sources |-> << >>]
  /\ turns = SetToSeq(Sources)
  /\ served = {}
  /\ faults = 0

-----------------------------------------------------------------------------
(* The network. *)

InFlight(msg) == [msg |-> msg, due |-> now + 1]

Arrived(queue) == queue # << >> /\ Head(queue).due <= now

\* A socket exists from the making of a source to its freeing.
Listening(s) == src'[s].pc \notin {"unmade", "freed"}

\* The datagram that the sink's step sent, if it did, is on its way.
SinkSends ==
  to_source' =
    IF out' # None /\ Listening(out'.to)
    THEN [to_source EXCEPT ![out'.to] = Append(@, InFlight(out'.msg))]
    ELSE to_source

\* A sink has a socket until it is freed, unless it could not bind its port.
SinkListens == pc # "freed" /\ state # "ERROR"

\* The datagram that a source's step sent, if it did, is on its way.
SourceSends ==
  to_sink' =
    IF tx' # None /\ SinkListens
    THEN [to_sink EXCEPT ![tx'.from] = Append(@, InFlight(tx'.msg))]
    ELSE to_sink

\* The end of the ms: all have run.  What is to happen to a datagram on its
\* way happens to it now.
AllDone ==
  /\ turns = << >>
  /\ SinkListens => /\ pc = "idle"
                    /\ served = {"state", "get"}
                    /\ \A s \in Sources : ~Arrived(to_sink[s])

\* Those that would arrive next ms take one longer.
Late(queue) ==
  [i \in DOMAIN queue |->
     IF queue[i].due = now + 1 THEN [queue[i] EXCEPT !.due = @ + 1] ELSE queue[i]]

Delay ==
  /\ AllDone
  /\ faults < MaxFaults
  /\ faults' = faults + 1
  /\ \E s \in Sources :
       \/ /\ Late(to_sink[s]) # to_sink[s]
          /\ to_sink' = [to_sink EXCEPT ![s] = Late(@)]
          /\ UNCHANGED to_source
       \/ /\ Late(to_source[s]) # to_source[s]
          /\ to_source' = [to_source EXCEPT ![s] = Late(@)]
          /\ UNCHANGED to_sink
  /\ UNCHANGED <<vars, sink, schedule>>

Lose ==
  /\ AllDone
  /\ faults < MaxFaults
  /\ faults' = faults + 1
  /\ \E s \in Sources :
       \/ \E i \in DOMAIN to_sink[s] :
            /\ to_sink' = [to_sink EXCEPT ![s] = RemoveAt(@, i)]
            /\ UNCHANGED to_source
       \/ \E i \in DOMAIN to_source[s] :
            /\ to_source' = [to_source EXCEPT ![s] = RemoveAt(@, i)]
            /\ UNCHANGED to_sink
  /\ UNCHANGED <<vars, sink, schedule>>

Duplicate ==
  /\ AllDone
  /\ faults < MaxFaults
  /\ faults' = faults + 1
  /\ \E s \in Sources :
       \/ \E i \in DOMAIN to_sink[s] :
            /\ to_sink' = [to_sink EXCEPT ![s] = InsertAt(@, i, @[i])]
            /\ UNCHANGED to_source
       \/ \E i \in DOMAIN to_source[s] :
            /\ to_source' = [to_source EXCEPT ![s] = InsertAt(@, i, @[i])]
            /\ UNCHANGED to_sink
  /\ UNCHANGED <<vars, sink, schedule>>

\* A datagram overtakes the one before it.
Swapped(queue, i) ==
  [queue EXCEPT ![i] = [queue[i + 1] EXCEPT !.due = queue[i].due],
                ![i + 1] = [queue[i] EXCEPT !.due = queue[i + 1].due]]

Reorder ==
  /\ AllDone
  /\ faults < MaxFaults
  /\ faults' = faults + 1
  /\ \E s \in Sources :
       \/ \E i \in 1 .. Len(to_sink[s]) - 1 :
            /\ to_sink' = [to_sink EXCEPT ![s] = Swapped(@, i)]
            /\ UNCHANGED to_source
       \/ \E i \in 1 .. Len(to_source[s]) - 1 :
            /\ to_source' = [to_source EXCEPT ![s] = Swapped(@, i)]
            /\ UNCHANGED to_sink
  /\ UNCHANGED <<vars, sink, schedule>>

-----------------------------------------------------------------------------
(* The sources. *)

Runs(s) == turns # << >> /\ s = Head(turns)

\* A source finds a datagram of the sink in its socket.
SourceReceives(s) ==
  /\ Runs(s)
  /\ Arrived(to_source[s])
  /\ Receiving(s, Head(to_source[s]).msg)
  /\ to_source' = [to_source EXCEPT ![s] = Tail(@)]
  /\ SourceSends
  /\ UNCHANGED <<sink, schedule, faults>>

SourceReceivesNothing(s) ==
  /\ Runs(s)
  /\ ~Arrived(to_source[s])
  /\ Receiving(s, None)
  /\ SourceSends
  /\ UNCHANGED <<sink, schedule, to_source, faults>>

\* A source is made (a blocking make polls like the application does after
\* an asynchronous one), puts the frame it was asked to, or is freed, which
\* its application does when it has failed.
SourceActs(s) ==
  /\ Runs(s)
  /\ \/ atolla_source_make(s, TRUE, TRUE)
     \/ put_send(s)
     \/ src[s].state = "ERROR" /\ atolla_source_free(s)
  /\ to_source' = IF Listening(s) THEN to_source ELSE [to_source EXCEPT ![s] = << >>]
  /\ SourceSends
  /\ UNCHANGED <<sink, schedule, faults>>

\* It has nothing more to do in this ms.  The clock starts with the first
\* source, and an application frees a source that has failed.
SourceRests(s) ==
  /\ Runs(s)
  /\ \/ src[s].pc = "unmade" /\ \E r \in Sources : src[r].pc # "unmade"
     \/ src[s].pc = "freed"
     \/ src[s].pc = "idle" /\ src[s].state # "ERROR" /\ ~Arrived(to_source[s])
     \/ src[s].pc = "put_send" /\ now < src[s].wake
  /\ turns' = Tail(turns)
  /\ UNCHANGED <<vars, sink, network, served>>

-----------------------------------------------------------------------------
(* The sink.  Its application polls it and asks for a frame in turns. *)

SinkRuns == turns = << >>

\* The sink finds a datagram of s in its socket.
SinkReceives(s) ==
  /\ SinkRuns
  /\ served # {"state"}
  /\ Arrived(to_sink[s])
  /\ K!sink_receive(s, <<Head(to_sink[s]).msg>>)
  /\ to_sink' = [to_sink EXCEPT ![s] = Tail(@)]
  /\ served' = {"state"}
  /\ UNCHANGED <<src, tx, to_source, faults, turns>>

\* It finds nothing, so nothing can have arrived.
SinkReceivesNothing ==
  /\ SinkRuns
  /\ served # {"state"}
  /\ \A s \in Sources : ~Arrived(to_sink[s])
  /\ K!sink_receive_nothing
  /\ served' = {"state"}
  /\ UNCHANGED <<src, tx, to_sink, faults, turns>>
  /\ SinkSends

SinkShows ==
  /\ SinkRuns
  /\ served = {"state"}
  /\ K!sink_get_nothing \/ K!sink_get_first \/ K!sink_get_begin
  /\ served' = {"state", "get"}
  /\ UNCHANGED <<src, tx, network, turns>>

SinkContinues ==
  /\ K!Continue
  /\ UNCHANGED <<src, tx, to_sink, faults, schedule>>
  /\ SinkSends

\* The sink is stopped; what waits in its socket, or arrives later, is lost.
SinkStops ==
  /\ AllDone
  /\ faults < MaxFaults
  /\ faults' = faults + 1
  /\ K!atolla_sink_free
  /\ to_sink' = [s \in Sources |-> << >>]
  /\ UNCHANGED <<src, tx, to_source, schedule>>

SinkRestarts ==
  /\ AllDone
  /\ K!atolla_sink_remake
  /\ UNCHANGED <<src, tx, network, schedule>>

-----------------------------------------------------------------------------
\* Time passes once all have run.
SystemTick ==
  /\ AllDone
  /\ Tick
  /\ K!Tick
  /\ turns' = SetToSeq(Sources)
  /\ served' = {}
  /\ UNCHANGED network

SystemNext ==
  \/ \E s \in Sources :
       \/ SourceReceives(s) \/ SourceReceivesNothing(s)
       \/ SourceActs(s) \/ SourceRests(s)
       \/ SinkReceives(s)
  \/ SinkReceivesNothing \/ SinkShows \/ SinkContinues
  \/ SinkStops \/ SinkRestarts
  \/ Delay \/ Lose \/ Duplicate \/ Reorder
  \/ SystemTick

SystemSpec == SystemInit /\ [][SystemNext]_systemVars

\* A thread inside a call of the sink keeps running.
FairSystemSpec == SystemSpec /\ WF_systemVars(SinkContinues)

-----------------------------------------------------------------------------
\* A source that believes in its loan when it sends a frame heard the sink
\* confirm it less than disconnect_timeout_ms and one frame duration before:
\* atolla_source_put looks at the loan, sleeps for a frame at most, and sends
\* without looking again.  (The programs do not dawdle here; a sleep that
\* overshoots adds to the bound.)
SendsOnFreshLoan ==
  [][\A s \in Sources :
       src'[s].frames > src[s].frames /\ src[s].state = "OPEN" =>
         now - src[s].last_recv_lent_time < Disconnect + frame_duration_ms]_systemVars

\* Every call of the sink returns, whatever two sources that keep to the
\* protocol send to it ("Note that atolla_sink_state must be regularly
\* called").
SinkReturns == pc # "idle" ~> pc \in {"idle", "freed"}
=============================================================================
