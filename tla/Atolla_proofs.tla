--------------------------- MODULE Atolla_proofs ---------------------------
(***************************************************************************)
(* The two halves fit: whatever the network delays, loses, duplicates or   *)
(* swaps, the sources of the composition are those of Source.tla, their    *)
(* environment being the sink, and its sink is the sink of Sink.tla, its   *)
(* environment being the sources.  What is proved of either alone holds    *)
(* for the two together.  What neither has alone, how long a source sleeps *)
(* before it runs again, bounds the age of the loan a frame is sent on.    *)
(***************************************************************************)
EXTENDS Atolla, Source_proofs, SequenceTheorems, FiniteSetTheorems

\* What the sink sends, and what the source s sends.
FromSink == {Lent} \cup {Fail(code) : code \in FailCodes}
FromSource(s) == K!Messages(s)

Queues(Msgs) == Seq([msg : Msgs, due : Nat])

\* The inductive invariant: the network carries what the other side expects.
WireOK ==
  /\ to_sink = [s \in Sources |-> to_sink[s]]
  /\ \A s \in Sources : to_sink[s] \in Queues(FromSource(s))
  /\ to_source \in [Sources -> Queues(FromSink)]

SystemInv == TypeOK /\ WireOK

\* What the network may do to a queue leaves elements of the same kind.
LEMMA SeqOps ==
  ASSUME NEW S, NEW q \in Seq(S)
  PROVE  /\ q # << >> => Tail(q) \in Seq(S) /\ Head(q) \in S
         /\ \A i \in DOMAIN q : RemoveAt(q, i) \in Seq(S) /\ InsertAt(q, i, q[i]) \in Seq(S)
  <1>1. q # << >> => Tail(q) \in Seq(S) /\ Head(q) \in S
    BY HeadTailProperties
  <1>2. ASSUME NEW i \in DOMAIN q
        PROVE  RemoveAt(q, i) \in Seq(S) /\ InsertAt(q, i, q[i]) \in Seq(S)
    <2>1. \A m \in Int, n \in Int : m >= 1 /\ n <= Len(q) => SubSeq(q, m, n) \in Seq(S)
      BY SubSeqProperties, LenProperties
    <2>2. i \in Nat /\ i >= 1 /\ i <= Len(q) /\ q[i] \in S
      BY LenProperties
    <2>3. /\ SubSeq(q, 1, i - 1) \in Seq(S)
          /\ SubSeq(q, i + 1, Len(q)) \in Seq(S)
          /\ SubSeq(q, i, Len(q)) \in Seq(S)
          /\ <<q[i]>> \in Seq(S)
      BY <2>1, <2>2, LenProperties
    <2>4. SubSeq(q, 1, i - 1) \o <<q[i]>> \in Seq(S)
      BY <2>3, ConcatProperties
    <2> QED BY <2>3, <2>4, ConcatProperties DEF RemoveAt, InsertAt
  <1> QED BY <1>1, <1>2

LEMMA QueueOps ==
  ASSUME now \in Nat, NEW Msgs, NEW q \in Queues(Msgs)
  PROVE  /\ << >> \in Queues(Msgs)
         /\ \A m \in Msgs : Append(q, InFlight(m)) \in Queues(Msgs)
         /\ q # << >> => Tail(q) \in Queues(Msgs) /\ Head(q).msg \in Msgs
         /\ Late(q) \in Queues(Msgs)
         /\ \A i \in DOMAIN q : /\ RemoveAt(q, i) \in Queues(Msgs)
                                /\ InsertAt(q, i, q[i]) \in Queues(Msgs)
         /\ \A i \in 1 .. Len(q) - 1 : Swapped(q, i) \in Queues(Msgs)
  <1>1. \A m \in Msgs : Append(q, InFlight(m)) \in Queues(Msgs)
    BY DEF InFlight, Queues
  <1>2. q # << >> => Tail(q) \in Queues(Msgs) /\ Head(q).msg \in Msgs
    <2>1. q # << >> => Tail(q) \in Queues(Msgs) /\ Head(q) \in [msg : Msgs, due : Nat]
      BY SeqOps DEF Queues
    <2> QED BY <2>1
  <1>3. Late(q) \in Queues(Msgs)
    <2>1. \A i \in 1 .. Len(q) : q[i] \in [msg : Msgs, due : Nat]
      BY ElementOfSeq DEF Queues
    <2>2. DOMAIN q = 1 .. Len(q) /\ Len(q) \in Nat
      BY DEF Queues
    <2>3. \A i \in 1 .. Len(q) : [q[i] EXCEPT !.due = @ + 1] \in [msg : Msgs, due : Nat]
      BY <2>1
    <2> DEFINE later(i) == IF q[i].due = now + 1 THEN [q[i] EXCEPT !.due = @ + 1] ELSE q[i]
    <2>4. \A i \in 1 .. Len(q) : later(i) \in [msg : Msgs, due : Nat]
      BY <2>1, <2>3
    <2>5. Late(q) = [i \in 1 .. Len(q) |-> later(i)]
      BY <2>2 DEF Late
    <2> HIDE DEF later
    <2>6. Late(q) \in [1 .. Len(q) -> [msg : Msgs, due : Nat]]
      BY <2>4, <2>5
    <2> QED BY <2>2, <2>6 DEF Queues
  <1>4. \A i \in DOMAIN q : /\ RemoveAt(q, i) \in Queues(Msgs)
                            /\ InsertAt(q, i, q[i]) \in Queues(Msgs)
    BY SeqOps DEF Queues
  <1>5. << >> \in Queues(Msgs)
    BY DEF Queues
  <1>6. ASSUME NEW i \in 1 .. Len(q) - 1 PROVE Swapped(q, i) \in Queues(Msgs)
    <2>1. DOMAIN q = 1 .. Len(q) /\ Len(q) \in Nat /\ i \in DOMAIN q /\ i + 1 \in DOMAIN q
      BY DEF Queues
    <2>2. \A j \in 1 .. Len(q) : q[j] \in [msg : Msgs, due : Nat]
      BY ElementOfSeq DEF Queues
    <2> DEFINE First == [q[i + 1] EXCEPT !.due = q[i].due]
               Second == [q[i] EXCEPT !.due = q[i + 1].due]
    <2>3. First \in [msg : Msgs, due : Nat] /\ Second \in [msg : Msgs, due : Nat]
      BY <2>1, <2>2
    <2>4. Swapped(q, i) = [q EXCEPT ![i] = First, ![i + 1] = Second]
      BY DEF Swapped
    <2>5. Swapped(q, i) \in [1 .. Len(q) -> [msg : Msgs, due : Nat]]
      <3> HIDE DEF First, Second
      <3> QED BY <2>1, <2>2, <2>3, <2>4
    <2>6. Swapped(q, i) \in Seq([msg : Msgs, due : Nat])
      <3>1. \A S : \A n \in Nat : [1 .. n -> S] \subseteq Seq(S)
        OBVIOUS
      <3> QED BY <2>1, <2>5, <3>1
    <2> QED BY <2>6 DEF Queues
  <1> QED BY <1>1, <1>2, <1>3, <1>4, <1>5, <1>6

-----------------------------------------------------------------------------
(* What the sink sends is what a source may find in its socket. *)

LEMMA FromSinkIsIncoming == FromSink \subseteq Incoming
  BY DEF FromSink, Incoming

\* A step of the sink takes no time and sends LENT, FAIL or nothing.
LEMMA SinkSpeaks ==
  ASSUME K!SinkStep \/ \E s, d : K!sink_receive(s, d)
  PROVE  now' = now /\ (out' = None \/ out'.msg \in FromSink)
  <1>1. K!Lent = Lent /\ \A code : K!Fail(code) = Fail(code)
    BY DEF K!Lent, K!Fail, Lent, Fail
  <1>2. \A to, m : K!Packet(to, m).msg = m
    BY DEF K!Packet
  <1>3. Lent \in FromSink /\ \A code \in FailCodes : Fail(code) \in FromSink
    BY DEF FromSink
  <1> DEFINE Speaks == now' = now /\ (out' = None \/ out'.msg \in FromSink)
  <1>4. ASSUME NEW s, NEW d, K!sink_receive(s, d) PROVE Speaks
    BY <1>4 DEF K!sink_receive
  <1>5. K!sink_receive_nothing => Speaks
    BY <1>1, <1>2, <1>3 DEF K!sink_receive_nothing, FailCodes
  <1>6. K!sink_get_nothing \/ K!sink_get_first \/ K!sink_get_begin => Speaks
    BY DEF K!sink_get_nothing, K!sink_get_first, K!sink_get_begin
  <1>7. K!sink_receive_done \/ K!sink_enqueue \/ K!sink_enqueue_done
          \/ K!sink_get_next \/ K!sink_get_done => Speaks
    BY DEF K!sink_receive_done, K!sink_enqueue, K!sink_enqueue_done,
           K!sink_get_next, K!sink_get_done
  <1>8. K!sink_send => Speaks
    BY <1>1, <1>2, <1>3 DEF K!sink_send, K!sink_send_lent
  <1>9. K!sink_handle_borrow => Speaks
    BY <1>1, <1>2, <1>3
       DEF K!sink_handle_borrow, K!RefuseBorrow, K!sink_send_lent, FailCodes
  <1>10. K!sink_handle_enqueue \/ K!sink_handle_other => Speaks
    BY <1>1, <1>2, <1>3 DEF K!sink_handle_enqueue, K!sink_handle_other, FailCodes
  <1>11. K!atolla_sink_free \/ K!atolla_sink_remake => Speaks
    BY DEF K!atolla_sink_free, K!atolla_sink_remake
  <1> QED BY <1>4, <1>5, <1>6, <1>7, <1>8, <1>9, <1>10, <1>11
          DEF K!SinkStep, K!Continue

-----------------------------------------------------------------------------
(* What a source sends is what the sink may find in its socket. *)

\* A step of the source s takes no time, leaves the other sources alone and
\* sends BORROW, ENQUEUE or nothing.
LEMMA SourceSpeaks ==
  ASSUME TypeOK, NEW s \in Sources,
         Other(s) \/ \E msg : Receiving(s, msg)
  PROVE  /\ now' = now
         /\ tx' = None \/ (tx'.from = s /\ tx'.msg \in FromSource(s))
  <1>1. BorrowMsg \in FromSource(s)
    BY DEF BorrowMsg, FromSource, K!Messages, K!Borrow
  <1>2. src[s].next_frame_idx \in 0 .. IdxMod - 1 /\ src[s].frames \in Nat
    BY DEF TypeOK, Records
  <1>3. EnqueueMsg(s, src[s]) \in FromSource(s)
    <2>1. \A i \in 0 .. IdxMod - 1, t \in Nat, short \in BOOLEAN :
            K!Enqueue(i, [by |-> s, tag |-> t], short) \in
              {K!Enqueue(j, [by |-> s, tag |-> u], b) :
                 j \in 0 .. IdxMod - 1, u \in Nat, b \in BOOLEAN}
      OBVIOUS
    <2>2. \A i \in 0 .. IdxMod - 1, t \in Nat, short \in BOOLEAN :
            K!Enqueue(i, [by |-> s, tag |-> t], short) \in FromSource(s)
      BY <2>1 DEF FromSource, K!Messages
    <2>3. EnqueueMsg(s, src[s]) =
            K!Enqueue(src[s].next_frame_idx, [by |-> s, tag |-> src[s].frames], FALSE)
      BY DEF EnqueueMsg, K!Enqueue
    <2> QED BY <1>2, <2>2, <2>3
  <1>4. \A m : From(s, m).from = s /\ From(s, m).msg = m
    BY DEF From
  <1> DEFINE Speaks == /\ now' = now
                       /\ tx' = None \/ (tx'.from = s /\ tx'.msg \in FromSource(s))
  <1>5. ASSUME NEW msg, NEW r, Update(s, msg, r) PROVE Speaks
    BY <1>1, <1>4, <1>5 DEF Update, Resent
  <1>6. ASSUME NEW msg, Receiving(s, msg) PROVE Speaks
    BY <1>5, <1>6 DEF Receiving, atolla_source_state, source_await_make_completion,
       put_update, put_state, put_timeout
  <1>7. ASSUME NEW ok \in BOOLEAN, NEW async_make \in BOOLEAN,
               atolla_source_make(s, ok, async_make)
        PROVE  Speaks
    BY <1>1, <1>4, <1>7 DEF atolla_source_make
  <1>8. put_send(s) \/ put_send_fails(s) \/ atolla_source_free(s) => Speaks
    BY <1>3, <1>4 DEF put_send, put_send_fails, atolla_source_free
  <1> QED BY <1>6, <1>7, <1>8 DEF Other

-----------------------------------------------------------------------------
\* What a step of a source, and of the sink, puts on the network.
LEMMA SourceSendsOK ==
  ASSUME now \in Nat, WireOK, SourceSends, NEW s \in Sources,
         tx' = None \/ (tx'.from = s /\ tx'.msg \in FromSource(s))
  PROVE  /\ to_sink' = [r \in Sources |-> to_sink'[r]]
         /\ \A r \in Sources : to_sink'[r] \in Queues(FromSource(r))
  <1>1. CASE to_sink' = to_sink
    BY <1>1 DEF WireOK
  <1>2. CASE /\ tx' # None
             /\ to_sink' = [to_sink EXCEPT ![tx'.from] = Append(@, InFlight(tx'.msg))]
    <2>1. Append(to_sink[s], InFlight(tx'.msg)) \in Queues(FromSource(s))
      BY <1>2, QueueOps DEF WireOK
    <2> QED BY <1>2, <2>1 DEF WireOK
  <1> QED BY <1>1, <1>2 DEF SourceSends

LEMMA SinkSendsOK ==
  ASSUME now \in Nat, WireOK, SinkSends, out' = None \/ out'.msg \in FromSink
  PROVE  to_source' \in [Sources -> Queues(FromSink)]
  <1>1. CASE to_source' = to_source
    BY <1>1 DEF WireOK
  <1>2. CASE /\ out' # None
             /\ to_source' = [to_source EXCEPT ![out'.to] = Append(@, InFlight(out'.msg))]
    <2>1. \A r \in Sources :
            Append(to_source[r], InFlight(out'.msg)) \in Queues(FromSink)
      BY <1>2, QueueOps DEF WireOK
    <2> QED BY <1>2, <2>1 DEF WireOK
  <1> QED BY <1>1, <1>2 DEF SinkSends

\* A queue of either direction that the network touches stays typed.
LEMMA ToSinkTyped ==
  ASSUME WireOK, NEW s \in Sources, NEW q \in Queues(FromSource(s)),
         to_sink' = [to_sink EXCEPT ![s] = q], UNCHANGED to_source
  PROVE  WireOK'
  BY DEF WireOK

LEMMA ToSourceTyped ==
  ASSUME WireOK, NEW s \in Sources, NEW q \in Queues(FromSink),
         to_source' = [to_source EXCEPT ![s] = q], UNCHANGED to_sink
  PROVE  WireOK'
  BY DEF WireOK

\* A step of the composition is a step of a source or of the clock, or does
\* not touch the sources; the network keeps its types.
LEMMA SystemStep ==
  ASSUME SystemInv, [SystemNext]_systemVars
  PROVE  [Next]_vars /\ WireOK'
  <1> now \in Nat
    BY DEF SystemInv, TypeOK
  <1> USE DEF SystemInv
  <1>1. CASE UNCHANGED systemVars
    BY <1>1 DEF systemVars, vars, network, WireOK
  <1>2. ASSUME NEW s \in Sources, SourceReceives(s) PROVE [Next]_vars /\ WireOK'
    <2>1. /\ Head(to_source[s]).msg \in FromSink
          /\ Tail(to_source[s]) \in Queues(FromSink)
      BY <1>2, QueueOps DEF SourceReceives, Arrived, WireOK
    <2>2. Next
      BY <1>2, <2>1, FromSinkIsIncoming DEF SourceReceives, Next
    <2>3. /\ to_sink' = [r \in Sources |-> to_sink'[r]]
          /\ \A r \in Sources : to_sink'[r] \in Queues(FromSource(r))
      BY <1>2, SourceSpeaks, SourceSendsOK DEF SourceReceives
    <2>4. to_source' \in [Sources -> Queues(FromSink)]
      BY <1>2, <2>1 DEF SourceReceives, WireOK
    <2> QED BY <2>2, <2>3, <2>4 DEF WireOK
  <1>3. ASSUME NEW s \in Sources, SourceReceivesNothing(s) PROVE [Next]_vars /\ WireOK'
    <2>1. Next
      BY <1>3 DEF SourceReceivesNothing, Next, Incoming
    <2>2. /\ to_sink' = [r \in Sources |-> to_sink'[r]]
          /\ \A r \in Sources : to_sink'[r] \in Queues(FromSource(r))
      BY <1>3, SourceSpeaks, SourceSendsOK DEF SourceReceivesNothing
    <2> QED BY <1>3, <2>1, <2>2 DEF SourceReceivesNothing, WireOK
  <1>4. ASSUME NEW s \in Sources, SourceActs(s) PROVE [Next]_vars /\ WireOK'
    <2>1. Other(s)
      BY <1>4 DEF SourceActs, Other
    <2>2. /\ to_sink' = [r \in Sources |-> to_sink'[r]]
          /\ \A r \in Sources : to_sink'[r] \in Queues(FromSource(r))
      BY <1>4, <2>1, SourceSpeaks, SourceSendsOK DEF SourceActs
    <2>3. << >> \in Queues(FromSink)
      BY DEF Queues
    <2>4. to_source' \in [Sources -> Queues(FromSink)]
      BY <1>4, <2>3 DEF SourceActs, WireOK
    <2> QED BY <2>1, <2>2, <2>4 DEF WireOK, Next
  <1>5. ASSUME NEW s \in Sources, SourceRests(s) PROVE [Next]_vars /\ WireOK'
    BY <1>5 DEF SourceRests, network, WireOK
  <1>6. ASSUME NEW s \in Sources, SinkReceives(s) PROVE [Next]_vars /\ WireOK'
    <2>1. UNCHANGED vars
      BY <1>6, SinkSpeaks DEF SinkReceives, vars
    <2>2. Tail(to_sink[s]) \in Queues(FromSource(s))
      BY <1>6, QueueOps DEF SinkReceives, Arrived, WireOK
    <2>3. WireOK'
      BY <1>6, <2>2, ToSinkTyped DEF SinkReceives
    <2> QED BY <2>1, <2>3
  <1>7. ASSUME SinkReceivesNothing \/ SinkContinues PROVE [Next]_vars /\ WireOK'
    <2>1. K!SinkStep
      BY <1>7 DEF SinkReceivesNothing, SinkContinues, K!SinkStep
    <2>2. UNCHANGED vars
      BY <1>7, <2>1, SinkSpeaks DEF SinkReceivesNothing, SinkContinues, vars
    <2>3. to_source' \in [Sources -> Queues(FromSink)]
      BY <1>7, <2>1, SinkSpeaks, SinkSendsOK DEF SinkReceivesNothing, SinkContinues
    <2> QED BY <1>7, <2>2, <2>3 DEF SinkReceivesNothing, SinkContinues, WireOK
  <1>8. ASSUME SinkShows \/ SinkStops \/ SinkRestarts PROVE [Next]_vars /\ WireOK'
    <2>1. K!SinkStep
      BY <1>8 DEF SinkShows, SinkStops, SinkRestarts, K!SinkStep
    <2>2. UNCHANGED vars
      BY <1>8, <2>1, SinkSpeaks DEF SinkShows, SinkStops, SinkRestarts, vars
    <2>3. \A s \in Sources : << >> \in Queues(FromSource(s))
      BY DEF Queues
    <2> QED BY <1>8, <2>2, <2>3 DEF SinkShows, SinkStops, SinkRestarts, network, WireOK
  <1>9. ASSUME Delay \/ Lose \/ Duplicate \/ Reorder PROVE [Next]_vars /\ WireOK'
    <2>1. UNCHANGED vars
      BY <1>9 DEF Delay, Lose, Duplicate, Reorder
    <2>2. PICK s \in Sources :
            \/ /\ UNCHANGED to_source
               /\ \/ to_sink' = [to_sink EXCEPT ![s] = Late(@)]
                  \/ \E i \in DOMAIN to_sink[s] :
                       \/ to_sink' = [to_sink EXCEPT ![s] = RemoveAt(@, i)]
                       \/ to_sink' = [to_sink EXCEPT ![s] = InsertAt(@, i, @[i])]
                  \/ \E i \in 1 .. Len(to_sink[s]) - 1 :
                       to_sink' = [to_sink EXCEPT ![s] = Swapped(@, i)]
            \/ /\ UNCHANGED to_sink
               /\ \/ to_source' = [to_source EXCEPT ![s] = Late(@)]
                  \/ \E i \in DOMAIN to_source[s] :
                       \/ to_source' = [to_source EXCEPT ![s] = RemoveAt(@, i)]
                       \/ to_source' = [to_source EXCEPT ![s] = InsertAt(@, i, @[i])]
                  \/ \E i \in 1 .. Len(to_source[s]) - 1 :
                       to_source' = [to_source EXCEPT ![s] = Swapped(@, i)]
      BY <1>9 DEF Delay, Lose, Duplicate, Reorder
    <2>3. /\ to_sink[s] \in Queues(FromSource(s))
          /\ to_source[s] \in Queues(FromSink)
      BY DEF WireOK
    <2>4. ASSUME NEW Msgs, NEW q \in Queues(Msgs)
          PROVE  /\ Late(q) \in Queues(Msgs)
                 /\ \A i \in DOMAIN q : /\ RemoveAt(q, i) \in Queues(Msgs)
                                        /\ InsertAt(q, i, q[i]) \in Queues(Msgs)
                 /\ \A i \in 1 .. Len(q) - 1 : Swapped(q, i) \in Queues(Msgs)
      BY QueueOps
    <2>5. \/ /\ UNCHANGED to_source
             /\ \E q \in Queues(FromSource(s)) : to_sink' = [to_sink EXCEPT ![s] = q]
          \/ /\ UNCHANGED to_sink
             /\ \E q \in Queues(FromSink) : to_source' = [to_source EXCEPT ![s] = q]
      BY <2>2, <2>3, <2>4
    <2>6. WireOK'
      BY <2>5, ToSinkTyped, ToSourceTyped
    <2> QED BY <2>1, <2>6
  <1>10. ASSUME SystemTick PROVE [Next]_vars /\ WireOK'
    BY <1>10 DEF SystemTick, Next, network, WireOK
  <1> QED BY <1>1, <1>2, <1>3, <1>4, <1>5, <1>6, <1>7, <1>8, <1>9, <1>10 DEF SystemNext

LEMMA SystemInvInit == SystemInit => SystemInv
  <1>1. SystemInit => TypeOK
    BY TypeInit DEF SystemInit
  <1>2. SystemInit => WireOK
    BY DEF SystemInit, WireOK, Queues
  <1> QED BY <1>1, <1>2 DEF SystemInv

LEMMA SystemInvNext == SystemInv /\ [SystemNext]_systemVars => SystemInv'
  BY SystemStep, TypeNext DEF SystemInv

LEMMA SystemInvHolds == SystemSpec => []SystemInv
  BY SystemInvInit, SystemInvNext, PTL DEF SystemSpec

\* The sources of the composition are those of Source.tla: the sink sends
\* nothing that Source.tla does not expect in its socket (sink_send_lent,
\* sink_send_fail_to, source_iterate_recv_buf).
THEOREM SourcesAreSources == SystemSpec => Spec
  <1>1. SystemInit => Init
    BY DEF SystemInit
  <1>2. SystemInv /\ [SystemNext]_systemVars => [Next]_vars
    BY SystemStep
  <1> QED BY SystemInvHolds, <1>1, <1>2, PTL DEF SystemSpec, Spec

\* A step of the composition is a step of the sink or of the clock, or does
\* not touch the sink.
LEMMA SinkStepOrNone ==
  ASSUME SystemInv, [SystemNext]_systemVars
  PROVE  [K!Next]_(K!vars)
  <1> USE DEF SystemInv
  <1>1. ASSUME UNCHANGED sink, now' = now PROVE UNCHANGED K!vars
    BY <1>1 DEF sink, K!vars, K!sinkVars, K!loan, K!timers, K!playing
  <1>2. CASE UNCHANGED systemVars
    BY <1>1, <1>2 DEF systemVars, vars
  <1>3. ASSUME NEW s \in Sources,
               \/ SourceReceives(s) \/ SourceReceivesNothing(s)
               \/ SourceActs(s) \/ SourceRests(s)
        PROVE  UNCHANGED K!vars
    <2>1. UNCHANGED sink
      BY <1>3 DEF SourceReceives, SourceReceivesNothing, SourceActs, SourceRests
    <2>2. SourceRests(s) => now' = now
      BY DEF SourceRests, vars
    <2>3. ~SourceRests(s) => Other(s) \/ \E msg : Receiving(s, msg)
      BY <1>3 DEF SourceReceives, SourceReceivesNothing, SourceActs, Other
    <2> QED BY <1>1, <2>1, <2>2, <2>3, SourceSpeaks
  <1>4. ASSUME NEW s \in Sources, SinkReceives(s) PROVE K!Next
    <2>1. Head(to_sink[s]).msg \in FromSource(s)
      BY <1>4, QueueOps DEF SinkReceives, Arrived, WireOK, TypeOK
    <2>2. <<Head(to_sink[s]).msg>> \in K!Datagrams(s)
      <3>1. <<Head(to_sink[s]).msg>> \in [1 .. 1 -> K!Messages(s)]
        BY <2>1 DEF FromSource
      <3> QED BY <3>1 DEF K!Datagrams
    <2> QED BY <1>4, <2>2 DEF SinkReceives, K!Next
  <1>5. ASSUME SinkReceivesNothing \/ SinkShows \/ SinkContinues \/ SinkStops \/ SinkRestarts
        PROVE  K!Next
    BY <1>5 DEF SinkReceivesNothing, SinkShows, SinkContinues, SinkStops, SinkRestarts,
       K!SinkStep, K!Next
  <1>6. ASSUME Delay \/ Lose \/ Duplicate \/ Reorder PROVE UNCHANGED K!vars
    BY <1>1, <1>6 DEF Delay, Lose, Duplicate, Reorder, vars
  <1>7. ASSUME SystemTick PROVE K!Next
    BY <1>7 DEF SystemTick, K!Next
  <1> QED BY <1>2, <1>3, <1>4, <1>5, <1>6, <1>7 DEF SystemNext

\* The sink of the composition is that of Sink.tla: a source sends nothing,
\* and the network makes nothing of it, that Sink.tla does not expect in its
\* socket (source_send_borrow, atolla_source_put, sink_iterate_recv_buf).
THEOREM SinkIsSink == SystemSpec => K!Spec
  <1>1. SystemInit => K!Init
    BY DEF SystemInit
  <1>2. SystemInv /\ [SystemNext]_systemVars => [K!Next]_(K!vars)
    BY SinkStepOrNone
  <1> QED BY SystemInvHolds, <1>1, <1>2, PTL DEF SystemSpec, K!Spec

\* So what holds of a source alone holds of it on a real network: it paces
\* its frames whatever is delayed, lost or duplicated.
THEOREM SystemIsPaced == ASSUME NoWrap PROVE SystemSpec => []Paced
  BY SourcesAreSources, SourceIsPaced, PTL

\* And a source that has failed stays failed.
THEOREM SystemFailureIsFinal == SystemSpec => ErrorIsFinal
  BY SourcesAreSources, FailureIsFinal

-----------------------------------------------------------------------------
(* The programs do not dawdle: a frame is sent in the ms its source woke. *)

\* Every source has a turn in every ms.
LEMMA AllHaveTurns ==
  ASSUME IsFiniteSet(Sources)
  PROVE  /\ SetToSeq(Sources) \in Seq(Sources)
         /\ \A s \in Sources :
              \E i \in DOMAIN SetToSeq(Sources) : SetToSeq(Sources)[i] = s
  <1> DEFINE n == Cardinality(Sources)
             f == SetToSeq(Sources)
  <1>1. n \in Nat /\ ExistsBijection(1 .. n, Sources)
    BY FS_CardinalityType
  <1>2. \E g \in [1 .. n -> Sources] : IsInjective(g)
    <2>1. PICK g : g \in Bijection(1 .. n, Sources)
      BY <1>1 DEF ExistsBijection
    <2>2. g \in [1 .. n -> Sources] /\ IsInjective(g)
      BY <2>1 DEF Bijection, Injection
    <2> QED BY <2>2
  <1>3. f \in [1 .. n -> Sources] /\ IsInjective(f)
    BY <1>2 DEF SetToSeq
  <1> HIDE DEF f, n
  <1>4. f \in Injection(1 .. n, Sources)
    BY <1>3 DEF Injection
  <1>5. Cardinality(1 .. n) = n
    BY <1>1, FS_Interval
  <1>6. f \in Surjection(1 .. n, Sources)
    BY <1>4, <1>5, FS_Injection DEF n
  <1>7. f \in Seq(Sources) /\ DOMAIN f = 1 .. n
    BY <1>1, <1>3
  <1>8. \A s \in Sources : \E i \in DOMAIN f : f[i] = s
    BY <1>6, <1>7 DEF Surjection
  <1> QED BY <1>7, <1>8 DEF f

\* A source that is to send a frame sleeps, or its turn is yet to come.
Punctual ==
  /\ turns \in Seq(Sources)
  /\ \A s \in Sources :
       src[s].pc = "put_send" =>
         /\ now <= src[s].wake
         /\ now < src[s].wake \/ \E i \in DOMAIN turns : turns[i] = s

\* A source that looked into its socket and is to send next wakes now, or
\* later.
LEMMA WakesLater ==
  ASSUME TypeOK, NEW s \in Sources, NEW msg \in Incoming, Receiving(s, msg)
  PROVE  /\ now' = now
         /\ \A z \in Sources : z # s => src'[z] = src[z]
         /\ src'[s].pc = "put_send" => src'[s].wake \in Nat /\ src'[s].wake >= now
  <1> DEFINE u == source_update(src[s], msg)
  <1>1. now \in Nat /\ src \in [Sources -> Records] /\ Sound(src[s])
    BY DEF TypeOK, Sound
  <1>2. Sound(u) /\ u.pc = src[s].pc
    BY <1>1, UpdateFacts DEF Updated
  <1>3. Sleep(u) \in Nat
    BY <1>1, <1>2, SleepNat
  <1> HIDE DEF u
  <1>4. now' = now /\ \E x : src' = [src EXCEPT ![s] = x]
    BY ReceivingStep
  <1>5. CASE put_timeout(s, msg)
    <2>1. src' = [src EXCEPT ![s] = [u EXCEPT !.pc = "put_send", !.wake = now + Sleep(u)]]
      BY <1>5 DEF put_timeout, Update, u
    <2>2. src'[s].wake = now + Sleep(u)
      BY <1>1, <1>2, <2>1 DEF Sound, Records
    <2> QED BY <1>1, <1>3, <1>4, <2>2
  <1>6. CASE ~put_timeout(s, msg)
    <2>1. PICK x : /\ src' = [src EXCEPT ![s] = x]
                   /\ \/ x = u /\ src[s].pc = "idle"
                      \/ x = [u EXCEPT !.wake = now + blocking_make_refresh_interval]
                           /\ src[s].pc = "await"
                      \/ x = [u EXCEPT !.pc = "idle", !.wake = 0]
                      \/ x = [u EXCEPT !.pc = "put_state"]
                      \/ x = [u EXCEPT !.pc = "put_timeout"]
                      \/ x = [u EXCEPT !.pc = "idle"]
      BY <1>6 DEF Receiving, atolla_source_state, source_await_make_completion,
         put_update, put_state, Update, u
    <2>2. x.pc # "put_send"
      BY <1>2, <2>1 DEF Sound, Records
    <2>3. src'[s] = x
      BY <1>1, <2>1
    <2> QED BY <1>1, <1>4, <2>2, <2>3
  <1> QED BY <1>5, <1>6

LEMMA PunctualInit == IsFiniteSet(Sources) /\ SystemInit => Punctual
  BY AllHaveTurns DEF SystemInit, Init, Punctual, source_private_make

\* A step of a source whose turn it is, the turn going on.
LEMMA PunctualTurn ==
  ASSUME Punctual, now \in Nat, NEW s \in Sources, Runs(s), UNCHANGED turns, now' = now,
         \A z \in Sources : z # s => src'[z] = src[z],
         src'[s].pc = "put_send" => src'[s].wake \in Nat /\ src'[s].wake >= now
  PROVE  Punctual'
  <1>1. turns \in Seq(Sources) /\ turns # << >> /\ turns[1] = s /\ 1 \in DOMAIN turns
    BY DEF Punctual, Runs
  <1>2. ASSUME NEW z \in Sources, src'[z].pc = "put_send"
        PROVE  now' <= src'[z].wake /\ (now' < src'[z].wake \/ \E i \in DOMAIN turns' : turns'[i] = z)
    <2>1. CASE z = s
      BY <1>1, <1>2, <2>1
    <2>2. CASE z # s
      BY <1>2, <2>2 DEF Punctual
    <2> QED BY <2>1, <2>2
  <1> QED BY <1>1, <1>2 DEF Punctual

LEMMA PunctualNext ==
  ASSUME IsFiniteSet(Sources), SystemInv, Punctual, [SystemNext]_systemVars
  PROVE  Punctual'
  <1> now \in Nat /\ TypeOK /\ src \in [Sources -> Records]
    BY DEF SystemInv, TypeOK
  <1>0. turns \in Seq(Sources)
    BY DEF Punctual
  <1>a. ASSUME UNCHANGED <<src, turns>>, now' = now PROVE Punctual'
    BY <1>a DEF Punctual
  <1>1. CASE UNCHANGED systemVars
    BY <1>1, <1>a DEF systemVars, vars, schedule
  <1>2. ASSUME NEW s \in Sources, SourceReceives(s) \/ SourceReceivesNothing(s)
        PROVE  Punctual'
    <2>1. PICK msg \in Incoming : Receiving(s, msg)
      <3>1. SourceReceives(s) => Head(to_source[s]).msg \in Incoming
        BY QueueOps, FromSinkIsIncoming DEF SourceReceives, Arrived, SystemInv, WireOK
      <3> QED BY <1>2, <3>1 DEF SourceReceives, SourceReceivesNothing, Incoming
    <2>2. Runs(s) /\ UNCHANGED turns
      BY <1>2 DEF SourceReceives, SourceReceivesNothing, schedule
    <2> QED BY <2>1, <2>2, WakesLater, PunctualTurn
  <1>3. ASSUME NEW s \in Sources, SourceActs(s) PROVE Punctual'
    <2>1. Runs(s) /\ UNCHANGED turns
      BY <1>3 DEF SourceActs, schedule
    <2>2. /\ now' = now /\ src'[s].pc # "put_send"
          /\ \A z \in Sources : z # s => src'[z] = src[z]
      <3>1. CASE atolla_source_make(s, TRUE, TRUE)
        BY <3>1 DEF atolla_source_make, source_private_make
      <3>2. CASE put_send(s)
        BY <3>2 DEF put_send, FrameSent, Records
      <3>3. CASE atolla_source_free(s)
        BY <3>3 DEF atolla_source_free, Records
      <3> QED BY <1>3, <3>1, <3>2, <3>3 DEF SourceActs
    <2> QED BY <2>1, <2>2, PunctualTurn
  <1>4. ASSUME NEW s \in Sources, SourceRests(s) PROVE Punctual'
    <2>1. /\ turns # << >> /\ s = Head(turns) /\ turns' = Tail(turns)
          /\ src' = src /\ now' = now
      BY <1>4 DEF SourceRests, Runs, vars
    <2>2. /\ Tail(turns) \in Seq(Sources) /\ Len(Tail(turns)) = Len(turns) - 1
          /\ \A i \in 1 .. Len(Tail(turns)) : Tail(turns)[i] = turns[i + 1]
          /\ Head(turns) = turns[1] /\ Len(turns) \in Nat \ {0}
          /\ DOMAIN turns = 1 .. Len(turns) /\ DOMAIN Tail(turns) = 1 .. Len(Tail(turns))
      BY <1>0, <2>1, HeadTailProperties, LenProperties
    <2>3. ASSUME NEW z \in Sources, src[z].pc = "put_send", ~ (now < src[z].wake)
          PROVE  \E i \in DOMAIN turns' : turns'[i] = z
      <3>1. PICK i \in DOMAIN turns : turns[i] = z
        BY <2>3 DEF Punctual
      <3>2. z # s
        BY <1>4, <2>3 DEF SourceRests
      <3>3. i - 1 \in 1 .. Len(Tail(turns)) /\ (i - 1) + 1 = i
        BY <2>1, <2>2, <3>1, <3>2
      <3> QED BY <2>1, <2>2, <3>1, <3>3
    <2> QED BY <2>1, <2>2, <2>3 DEF Punctual
  <1>5. ASSUME NEW s \in Sources, SinkReceives(s) PROVE Punctual'
    BY <1>5, <1>a, SinkSpeaks DEF SinkReceives
  <1>6. CASE SinkReceivesNothing \/ SinkShows \/ SinkContinues \/ SinkStops \/ SinkRestarts
    <2>1. K!SinkStep
      BY <1>6 DEF SinkReceivesNothing, SinkShows, SinkContinues, SinkStops, SinkRestarts,
         K!SinkStep
    <2>2. UNCHANGED <<src, turns>>
      BY <1>6 DEF SinkReceivesNothing, SinkShows, SinkContinues, SinkStops, SinkRestarts,
         schedule
    <2> QED BY <1>a, <2>1, <2>2, SinkSpeaks
  <1>7. CASE Delay \/ Lose \/ Duplicate \/ Reorder
    BY <1>7, <1>a DEF Delay, Lose, Duplicate, Reorder, vars, schedule
  <1>8. CASE SystemTick
    <2>1. /\ turns = << >> /\ now' = now + 1 /\ src' = src
          /\ turns' = SetToSeq(Sources)
      BY <1>8 DEF SystemTick, AllDone, Tick
    <2>2. \A s \in Sources : src[s].pc = "put_send" => src[s].wake \in Nat /\ now < src[s].wake
      BY <2>1 DEF Punctual, Records
    <2> QED BY <2>1, <2>2, AllHaveTurns DEF Punctual
  <1> QED BY <1>1, <1>2, <1>3, <1>4, <1>5, <1>6, <1>7, <1>8 DEF SystemNext

\* A frame of a source that believes in its loan leaves in the ms the source
\* woke in, and the source went to sleep on a loan that was fresh.
LEMMA FreshStep ==
  ASSUME NoWrap, SystemInv, PaceInv, Punctual, [SystemNext]_systemVars,
         NEW s \in Sources, src'[s].frames > src[s].frames, src[s].state = "OPEN"
  PROVE  now - src[s].last_recv_lent_time < Disconnect + frame_duration_ms
  <1> USE SourceAssumption, Constants
  <1>1. TypeOK /\ [Next]_vars
    BY SystemStep DEF SystemInv
  <1>2. /\ now \in Nat /\ src[s] \in Records
        /\ src[s].last_recv_lent_time \in Nat /\ src[s].frames \in Nat
    BY <1>1 DEF TypeOK, Records
  <1>3. PaceOf(src[s], now)
    BY DEF PaceInv
  <1>4. put_send(s)
    BY <1>1, <1>2, <1>3, OpenStep DEF PaceOf
  <1>5. src[s].wake < src[s].last_recv_lent_time + Disconnect + frame_duration_ms
    BY <1>3, <1>4 DEF PaceOf, Ready, put_send
  <1>6. now <= src[s].wake /\ src[s].wake \in Nat
    BY <1>2, <1>4 DEF Punctual, put_send, Records
  <1> QED BY <1>2, <1>5, <1>6

\* As long as time_now() does not wrap, a source that believes in its loan
\* when atolla_source_put sends a frame heard the sink confirm it less than
\* disconnect_timeout_ms and one frame duration before, whatever the network
\* does and however many sources there are.
THEOREM SystemSendsFresh ==
  ASSUME NoWrap, IsFiniteSet(Sources)
  PROVE  SystemSpec => SendsOnFreshLoan
  <1> DEFINE Fresher == \A s \in Sources :
               src'[s].frames > src[s].frames /\ src[s].state = "OPEN" =>
                 now - src[s].last_recv_lent_time < Disconnect + frame_duration_ms
  <1>1. SystemInit => Punctual /\ PaceInv
    BY PunctualInit, PaceInit DEF SystemInit
  <1>2. SystemInv /\ Punctual /\ PaceInv /\ [SystemNext]_systemVars => Punctual' /\ PaceInv'
    BY PunctualNext, SystemStep, PaceNext DEF SystemInv
  <1>3. SystemInv /\ Punctual /\ PaceInv /\ [SystemNext]_systemVars => [Fresher]_systemVars
    BY FreshStep
  <1> QED BY SystemInvHolds, <1>1, <1>2, <1>3, PTL DEF SystemSpec, SendsOnFreshLoan
=============================================================================
