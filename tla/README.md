# Atolla in TLA+

Atolla streams light colours over UDP. A *sink* (a device with lights) is lent
to one *source* at a time; the source sends frames ahead of time and the sink
shows each at its moment. This directory holds TLA+ models of the library in
`src/src`, the TLC configurations that check them on small instances, and
proofs, checked by TLAPS, that hold for every value of the constants.

## The system and its parts

| Part | State | Operations | Meets others through |
|---|---|---|---|
| Sink (`atolla/sink.cpp`) | loan (state, borrower, frame duration), ring of pending frames, current frame, frame clock (`time_origin`), last frame index, two timers | make, free, `atolla_sink_state` (receive one datagram, resend LENT), `atolla_sink_get` (the frame of the moment) | BORROW, ENQUEUE in; LENT, FAIL out |
| Source (`atolla/source.cpp`) | connection state, next frame index, borrow, LENT and frame times | make (blocking or not), free, `atolla_source_state`, `put_ready_count`, `put_ready_timeout`, `put` | BORROW, ENQUEUE out; LENT, FAIL in |
| Ring (`mem/ring.c`, `mem/block.c`) | block of bytes, `front`, `len` | alloc, free, enqueue, dequeue, drop, peek, is_empty | called by the sink, chunks of one frame length |
| Codec (`msg/`) | message counter, reused buffer; read position | build and iterate messages | called by both ends |
| Socket (`udp_socket/`) | a handle, the descriptor of the process it refers to, a receiver; on the ESP8266 one receiver for all sockets | init in four system calls, set receiver or endpoint, send, receive, free | called by both ends |
| Time (`time/`) | a 32-bit millisecond clock | now, sleep | called by both ends |

Nothing in the library runs on a thread of its own: sink and source advance
only when the application calls them. Hard are therefore the orders in which
calls, datagrams and the passing of time meet: a loan that times out while a
datagram of its borrower waits, a BORROW repeated because LENT was late, a
source that fails while `put` sleeps, a frame index and a clock that wrap, a
ring at its limit. `PROJECT.json` lists these hazards with their lines and the
properties that watch over them.

What makes each part correct:

* sink: one borrower at a time; only its frames enter the ring, and what is in the
  ring is shown in order and never early (what an earlier borrower left comes first); a loan
  ends when and only when its borrower gives cause; calls return;
* source: never further ahead of the sink than the buffer it asked for; an
  error is final; a frame goes out on a loan that still stands; calls return;
* ring: a first-in-first-out queue that never touches bytes outside its block;
* codec: what is read is what was built; what the documents allow can be built;
* socket: a handle in use keeps its descriptor, no failure uses one up, a receiver
  that was set stays set;
* both together: frames keep their places on a network that loses, repeats and swaps
  them, paced frames fit into the ring, a healthy connection stays open, and a
  source does not stream for long on a loan that is gone.

## Modules

| Module | Models |
|---|---|
| `ByteQueue` | abstract: the bounded byte queue of `mem/ring.h` |
| `MemRing` | `mem/ring.c` over `mem_block_slice`; implements `ByteQueue` |
| `Lease` | abstract: what a sink promises: exclusive loans, a playlist |
| `Sink` | `atolla/sink.cpp`; implements `Lease` |
| `Source` | `atolla/source.cpp`, one record per source |
| `Codec` | `msg/builder.c` and `msg/iter.c` over a reused block of `mem/block.c` |
| `Pattern` | `fill_with_pattern` of `atolla/sink.cpp` |
| `SocketApi` | abstract: what `udp_socket.h` promises of its sockets |
| `UdpSocket` | `udp_socket_bsdlike.cpp` and `udp_socket_base.cpp` on POSIX; implements `SocketApi` |
| `WifiUdp` | `udp_socket_wifiudp.cpp`; implements `SocketApi` as long as one socket is open at a time |
| `Atolla` | sources and a sink on one clock and one network: composes `Source` and `Sink` |
| `MemRing_proofs`, `Sink_proofs`, `Source_proofs`, `Codec_proofs`, `UdpSocket_proofs`, `Atolla_proofs`, `InStep_proofs`, `Room_proofs` | theorems and proofs |
| `MC_MemRing`, `MC_Sink`, `MC_SinkTrace`, `MC_Source`, `MC_Codec`, `MC_Sockets`, `MC_Atolla` | instances for TLC; `MC_MemRing`, `MC_SinkTrace`, `MC_Sockets` and `MC_Atolla` add history variables, `MC_Sockets` puts both builds side by side, `MC_Codec` adds `Pattern` |

**MemRing.** `buf`, `front`, `len` and `size` are the fields of the ring and its
block; `ret` is what the last call returned. A failing assertion of
`mem_block_slice` sets `aborted`, after which nothing happens. The content of
the fresh block is arbitrary, as `malloc` leaves it.

**Sink.** The variables carry the names of `AtollaSinkPrivate`. The ring is the
sequence of frames it holds (`MemRing` justifies that: all chunks have the
length of a frame, which divides the capacity). A frame is known by its sender
and a tag. One call is several steps (`pc`), one per message and one per turn
of each loop, so that time may pass within it and a loop that does not end is
seen. `atolla_sink_state` takes a datagram (`sink_receive`, an arbitrary
sequence of messages of an arbitrary endpoint), handles its messages
(`sink_handle_borrow`, `sink_handle_enqueue` with the loop of `sink_enqueue`,
`sink_handle_other`), notes the time (`sink_receive_done`), or finds nothing
and looks at the timeout (`sink_receive_nothing`); then `sink_send` resends
LENT. `atolla_sink_get` is `sink_get_nothing`, `sink_get_first`, or
`sink_get_begin`, `sink_get_next` and `sink_get_done`. Times are unsigned and
wrap at `TimeMod`, and the clock begins at `StartClock`; NULL_TIME is `TimeMod - 1`, a
valid time, as in the code.
`out` is the datagram the last step sent.

**Source.** `src[s]` is the `AtollaSourcePrivate` of source `s`, with `pc` and
`wake` for the call in progress and two history fields (`frames`, `began`).
Every call begins with `source_update`, a function of the record and of the
message found in the socket. `put` takes four steps, because it updates three
times and sleeps: `put_update`, `put_state`, `put_timeout`, `put_send` (or
`put_send_fails`). `last_recv_lent_time` starts as `None`, for the code leaves
it uninitialised. A message of the sink is LENT, FAIL with one of the six codes or
something else. `tx` is the datagram the last step sent.
`put_ready_count` and `put_ready_timeout` change a source just as
`atolla_source_state` does; their results are `ReadyCount` and `ReadyTimeout`.

**Codec.** A byte has `Base` values, a uint16 `Base * Base`. `build` is one call
of `msg_builder_borrow`, `_lent`, `_enqueue` or `_fail` with the send that
follows it in every caller: the block is resized, overwritten from its start,
and its first `size` cells are copied to the datagram. Memory nobody wrote holds
`Junk`, which is no byte. `msg_iter_next` is one turn of a loop over the
iterator, with every accessor of its message; the reading host has either byte
order (`big_endian`). `sent` and `read` are history. `RoundTrip` entitles `Sink`
and `Source` to treat a datagram as a sequence of messages. Only datagrams the builder wrote are read.

**Pattern.** `fill_with_pattern` as a function of target and pattern; its loop is a
recursive function of the bytes left to fill. `Shown` is its two uses, into the
ring and out of it.

**UdpSocket.** `handle` is the field of each structure, `fds` the table of the
kernel: who opened a descriptor, its port and its peer. Initialising takes a step
per system call (`udp_socket_create_socket`, `setsockopt`, `bind`,
`udp_socket_set_socket_nonblocking`), so that several threads initialise sockets
at the same time, and each call may fail, `setsockopt` by ending the process (an
assertion); `at` says how far it came. A closed
number goes to the next `socket`, the lowest first, as POSIX has it, and
`udp_socket_free` closes whatever the handle refers to. It follows any failure, as it
does in the library: `atolla_sink_free` (`sink.cpp:133`) and `atolla_source_free`
(`source.cpp:133`) free the socket of a sink or source that failed. A receive finds
something, nothing or an error; datagrams have no content here.

**MC_Sockets.** One build or the other is chosen at the start. Two history variables
note what breaks the promise of `udp_socket.h` in each: `closed_twice`, that a socket was
freed after `set_nonblocking` had failed, when its descriptor had been closed already
(`udp_socket_bsdlike.cpp:56`), and `shared`, that two sockets were open at once on an ESP8266,
where they have one receiver (`udp_socket_wifiudp.cpp:29`). The run `sockets` checks that
nothing else breaks it; `socket_closed_twice` shows what the first does, the second is plain in the code.

**Atolla.** `Atolla` extends `Source` and instantiates `Sink` over the same clock;
every step of the whole is a step of one of them, or of the network. `to_sink`
and `to_source` hold the datagrams on their way, each with the ms it arrives in
(`due`, 1 ms after it was sent). What may go wrong is limited by `MaxFaults`:
`Delay` (what is on its way to or from a source takes 1 ms longer), `Lose`,
`Duplicate`, `Reorder` (two neighbours change places), and `SinkStops`, after which `SinkRestarts` makes a new sink. The
programs are those of `examples/`: a source is made, polls until it is open, puts
frames, and is freed when it has failed; the sink is polled and asked for a frame in
turns. Within a ms each source runs until it has nothing to do (`turns`), then the sink until
its socket is empty (`served`), then a fault may happen, then time passes. No
datagram arrives in the ms it was sent in, so nobody can tell in what order the
programs ran within one, and this order stands for all. A program that is late by a ms
sees what it would have seen had its datagrams been delayed.

## Runs

| Run | Result | What it shows |
|---|---|---|
| `ring` | holds | `MemRing` implements `ByteQueue`; the counters stay in the block; only a caller that mixed lengths can meet the assertion |
| `sink` | holds | `Sink` implements `Lease`; calls return while the ring has room |
| `sink_short_frame` | violated | a short ENQUEUE of anybody ends the loan |
| `sink_clock` | holds | the n-th frame of a loan is not shown before n - 1 frame durations; a timeout needs, and follows, the borrower's silence |
| `sink_other_sender` | violated | with a second endpoint the silent borrower is not dropped |
| `source` | holds | pacing, kept credit, final error; a blocking make returns |
| `source_null_time` | violated | pacing is lost when `last_frame_time` meets NULL_TIME |
| `codec` | holds | builder and iterator agree on messages, ids and lengths; only the building of an overlong frame aborts; every light gets a whole colour of the frame |
| `sockets` | holds | no descriptor is lost; until one is closed twice, or two sockets share the receiver of an ESP8266, a socket in use keeps its descriptor and both builds keep the promise of `udp_socket.h` |
| `socket_closed_twice` | violated | freeing a socket whose `set_nonblocking` failed closes the descriptor of another |
| `atolla` | holds | frames keep their places; without faults the ring has room; a source that misses no LENT stays open; a frame is sent on a loan confirmed recently; nobody streams long on a lost loan |
| `atolla_overrun` | violated | two conforming sources, one after the other, make `atolla_sink_state` spin for ever without any fault |

The five violations are disagreements between the code and its comments,
headers or `doc/Atolla Protocol.md`; `findings` in `PROJECT.json` quotes each
line. They are properties a reader of those texts would expect. Further
disagreements are plain in a line or two of code and have no run of their own:

* `mem_ring_is_empty` answers the opposite of `ring.h:28`;
* frame durations and buffer lengths above 255 reach the sink as another number
  (`source.cpp:263`);
* a frame shorter than the lights is repeated as a whole (`sink.cpp:413`), where
  the protocol (line 144) repeats its last colour;
* a frame of 65533 to 65535 bytes aborts (`builder.c:63` limits the payload, which is the frame
  and three bytes), where `builder.h:76-78` allows 65535 bytes and 21845 colours, and so
  does the protocol (lines 148-150). `OnlyLongFramesAbort` states the limit of the code;
  its run has a frame of the documented length, scaled;
* a failed `bind` leaves the descriptor open (`udp_socket_bsdlike.cpp:116`), and so does a `socket`
  that returns 0 (`:92`), where `udp_socket.h:157-161` says that everything is freed. The sink and
  the source free their sockets after a failure and so make up for it (`NoLeak`), at the price
  of the double close that `socket_closed_twice` shows;
* on an ESP8266 the initialisation of a second socket takes the receiver of the first away
  (`udp_socket_wifiudp.cpp:29`), where `udp_socket.h:215` says that it stays the one last set.

What `RingHasRoom` and `atolla_overrun` say together: the ring is safe when a source
finds it empty, asks for no more than its size and nothing is late. A single
late first frame is enough to overflow it when the source asked for all of it (the
run checks the property for no faults only), and so are the frames that an earlier source left.

### Bounds

* Ring: 6 bytes of two values, chunks of 1 and 2. Chunks of 2 wrap on an even
  offset, chunks of 1 move the front to an odd one; all fill levels occur.
* Sink: a ring of 2 frames, 4 frame indices, a largest jump of 2 stand for 128,
  256 and 128, keeping their order (jump not above the ring, half the
  indices). Datagrams of up to two messages of two endpoints, with field values
  on both sides of every check (frame length and buffer length accepted and
  refused, short and full frames). The clock runs to 2 with timeouts of 1 and 0,
  in `sink_clock` to 6 with a drop timeout of 2, so that several loans begin,
  time out and begin again.
* Source: one source, because sources share nothing but the clock; buffer of 2
  frames of 2 ms, five frames, so that the buffer fills and the pacing binds,
  3 frame indices, so that the index wraps; the clock from 3 to 14 with a
  disconnect timeout of 3. The two timeouts are given as 0 in the spec to take
  the defaults, the buffer is given. In `source_null_time` the clock starts at 0.
* Codec: bytes of four values, so that 16 messages wrap the id and a payload of
  4 bytes needs both bytes of its length; a first block of 7 bytes, which FAIL
  and ENQUEUE outgrow; frames from empty to one byte, and a colour, too long; two messages in a
  datagram. Frames of one, two and four colours meet 1 to 3 lights and
  applications that ask for 1 to 4.
* Sockets: in `sockets` three structures and three descriptors, one of them 0, one port that
  several ask for, in either build: a number can be closed, reused and closed again while a third
  socket is being initialised. The violation needs two structures.
* Atolla: two sources; a ring of 2 frames and a source that asks for both, frames of
  2 ms, 4 frame indices and a largest jump of 2 (as 256 and 128); retry after
  1 ms, disconnect after 3, drop after 4 and LENT every ms, in the order of
  the defaults; 5 frames per source, so that a frame with a wrapped index is sent and enters the ring,
  and 10 ms (the clock starts at 2, as
  `NoWrap`, below, asks), in which one source can be dropped and the other can borrow. One fault of any kind at any
  moment. In `atolla_overrun` a ring of 3 frames, 8 indices and no fault. In `atolla` the
  drop timeout outlasts the frames in the ring, so that the next borrower finds it
  empty; in `atolla_overrun` it does not, as 1500 ms do not outlast 128 frames of the 17 ms
  the examples use. What a
  step last sent or showed is left out of the states TLC tells apart (`VIEW Seen`):
  no guard reads it.
* `MaxClock`, `MaxFrames`, `MaxMsgs` and `MaxFaults` are the only bounds that the code does not have.

Deadlock is not checked in these runs: the model stops where its clock ends and
everything is freed, or, in the ring, where the process aborted.

### Fairness

`Sink!FairSpec` says only that a thread inside a call keeps running
(`WF_vars(Continue)`); nobody is obliged to call the sink or to send to it.
`Source!FairSpec` adds that time passes and that the loop of a blocking make,
which sleeps 5 ms at a time, goes on. Neither says anything about messages:
`MakeReturns` holds although every LENT may be lost. `Atolla!FairSystemSpec` again says
only that a call of the sink keeps running: the loop that spins in
`atolla_overrun` is given every turn it asks for.

## Proofs

All theorems hold for every value of the constants that satisfies the
assumption named in the module (`RingAssumption`, `SinkAssumption`,
`SourceAssumption`, `CodecAssumption`, `UdpSocketAssumption`: positive moduli and
lengths, at least four values of a byte, `None` is none of the other values;
`NoneIsNoPacket` in `Sink` and in `Atolla` and `NoneIsNoMessage` in `Source` say the last of datagrams
and messages).

* `MemRing_proofs`. `TypeCorrect` is inductive as it stands. `UniformNeverAborts`
  assumes one chunk length `u` that divides the capacity; the invariant adds that
  `front` and `len` are multiples of `u`, whence every chunk ends at or before the end of
  the block. `RingImplementsQueue` maps the queue to the bytes from `front` on,
  around the end; its lemmas say what that view is after a chunk was
  written behind it or skipped at its head.
* `Sink_proofs`. `CallInv` (the loop runs for the borrower of a standing loan, a
  loan has a borrower, frames are shown in a loan) strengthens the types to an
  inductive invariant, `Inv`. `TypeCorrect` follows, and it is what
  `SinkImplementsLease` needs: the step
  that puts a frame into the ring looks at the sender no more, and the check
  that did lies one or many steps back. Every step is a step of
  `Lease` or leaves the holder, the playlist and the frame shown alone. `Lease` says whose
  frames enter the playlist and in what order it is shown, not that it is empty when a loan
  begins: frames that an earlier borrower left are shown first (`atolla_overrun`).
  The other theorems are about `TracedSpec` of `MC_SinkTrace`, whose history says when the
  borrower was last heard and how many frames were taken. `LoanOutlivesSilence` holds
  even if the clock wraps: `last_recv_time` is the time of some datagram not before the
  borrower's last, or a wrapped one, and a shorter silence has a shorter remainder.
  `SoleBorrowerDropped` assumes one endpoint, because a stranger's datagram is
  taken for a sign of life (`sink_others`), and, as `SinkNeverRushes` does, a clock that stays below
  `NULL_TIME`: a `time_origin` that happened to be `NULL_TIME` would be taken for a loan without
  a first frame. The invariant of the latter, `PaceInv`, says that `time_origin` is where
  the frame clock stood after as many steps as frames were taken.
* `Source_proofs`. `UpdateFacts` says once what `source_update` can do;
  `TypeCorrect` and `FailureIsFinal` follow. `SourceIsPaced` and `ReadyCountIsKept`
  assume `NoWrap`: the clock stays below NULL_TIME and the program does not
  start within the first buffer's length after the clock's zero. (Run `source_null_time` shows that the
  assumption is needed.) The invariant, `PaceInv`, ties `last_frame_time` to the number
  of frames sent, `Due(r)`; says that an open source is not ahead of it; that a
  frame in hand will be due when its sleep ends, and that this sleep ends less than a frame
  after the loan it was begun on runs out; and that a failed source is
  ahead by one frame at most, because the frame in `put` still goes out.
  `ReadyCountIsKept` reads the count off `Due(r)` (`CountIsCredit`): the quotient of the time since
  never falls as time passes (`DivMonotone`), and falls by one when `Due(r)` moves by a frame.

* `Codec_proofs`. `RoundTrip` is not inductive: it says nothing of a datagram not
  yet read. `Layout` adds that the messages lie in it one behind the other and
  fill it, `Position` that the iterator stands at the first one not yet read.
  `Built` shows that what is sent of the block is the message and nothing else;
  `ReadBack` that the iterator at the start of a message finds it, by
  the arithmetic of two digits (`Digits`, `Halves`, `LoadBack`). `OnlyLengthAborts` says of every
  step what state invariants cannot, which message it was that aborted; it is where the
  limit of the code shows (the payload, not the frame).
  The second half of the module is about the lights (`Pattern`).
  The loop of `fill_with_pattern` is a recursive function, and what it
  computes is shown by induction, over a set instead of a predicate: the bytes left
  for which it computes something else are a set of natural numbers, which would have a
  least element (`LeastNumber`, from the well-foundedness of `<`), one turn of the loop
  before which it was right (`OneTurn`). Filling twice takes a remainder of a remainder, and remainders by
  multiples of three keep the channels of a colour together (`Triples`). `FramesReachLights`
  combines this with `CodecRoundTrip`.

* `UdpSocket_proofs`. The theorems are about `BuiltSpec` of `MC_Sockets` and assume nothing of
  callers: they may free after any failure, as the library does. `NobodyElseCloses` needs
  to know that two structures never hold one open number, which is so only as long as
  no number was closed twice; from then on nothing is claimed but `NothingLost`: every open
  descriptor is in the handle of the socket it was opened for, and a free of that one is still to come.
  That invariant does not depend on the history, because a number that is reused is given to a new
  opener. `EitherKeepsPromise` adds that a descriptor has no peer until its socket is ready,
  and, on an ESP8266, that there is one receiver for one open socket.
* `Atolla_proofs`. `SourcesAreSources` and `SinkIsSink`: each component's own
  specification holds in the composition, which is what makes its theorems hold there. The
  work is in what is received: everything on its way to the sink is a BORROW
  or an ENQUEUE that a source's parameters allow, everything on its way to a source a LENT or a
  FAIL, through all faults (`RemoveAt`, `InsertAt`, `Swapped`). `SystemIsPaced` and
  `SystemFailureIsFinal` follow from `SourceIsPaced` and `FailureIsFinal`.
  `SystemSendsFresh` is a property of the composition: the source alone bounds when the sleep in
  `put` is to end, and only where programs do not dawdle does a frame leave when it ends. The
  invariant `Punctual` says that a source with a frame in hand either still sleeps or has its turn
  to come in this ms; every source has one in every ms (`AllHaveTurns`), for which there must be finitely many.
* `InStep_proofs`. `FramesKeepPlaces` is `InStep` for any number of sources and frames, all
  timings and a ring of any length. It assumes `OneFault`: the network errs once at most (the
  bound of the run, `MaxFaults`), the sink fills a gap of one frame at least (`MaxSkip >= 2`; 128 in
  the code) and one index more than it fills exists (256). `InStep` speaks of the newest frame in the ring and
  of nothing else, so the inductive invariant, `IInv`, follows the frames from their source to the
  ring. The *line* of a source is what the sink has yet to handle of it: the message in hand
  and its queue on the network. `Stream` says that the line is some BORROW followed by
  ENQUEUE only, and that those carry the next frames of an *order*: everything in turn, or with one
  frame missing, repeated or overtaken at some place (`Delivered`). `Filled` is how many frames
  the ring then holds, whatever `sink_handle_enqueue` made of them, because it drops the old and fills the
  gaps (`OrderFacts`); `DiffFacts` says what `bounded_diff` makes of an index in such an order.
  While the line begins with BORROW, or the source waits for its loan, no frame of the loan
  can have been put (`Fresh`). A swap of a BORROW with a frame would break this; it cannot happen, because
  a source that repeats its BORROW has heard no LENT by the end of the ms, and by the time it has
  sent a frame that BORROW has arrived (`Timely`, `NeighboursAlike`). Each step then does one of a few
  things to a line (`LineGrows`, `LineFrameTaken`, `LineLoses`, ...). TLC checked `IInv` on the
  instance of `atolla` first.
* `Room_proofs`. `RingNeverFull` is `RingHasRoom` for any number of sources and frames, a ring of any
  length and a source that may borrow for all of it. It relates two clocks that nobody compares in the
  code. The source's starts with its first frame (`began`), and `Paced` says how far it may be ahead of it. The
  sink's (`time_origin`) starts in the ms after, when that frame arrives and is shown; from then on it stands
  where it began plus one frame duration for each frame taken from the ring (`Playing`). What the ring
  holds is the difference. The frame received since the application last asked for one is the
  exception that costs most of the care (`Held`): it lies in the ring although its turn may have come. `HasPlace` is the
  arithmetic that is left at the end. For this the network must be on time
  (`OnTime`), a frame on its way must have been sent when the pacing allowed it (`LinePaced`), a
  source must ask once and hear of its loan before it puts anything (`Granted`), and whoever lost the loan must have no
  frame left in the ring when the next one gets it. All this, `Calm`, holds as long as no fault has
  happened and is inductive together with `IInv` of `InStep_proofs` and `PaceInv` of `Source_proofs`.
  `Unhurried` names what it asks of the constants. A frame lasts 2 ms at least,
  because the clocks may be 1 ms apart (`frame_length_ms_min` is 10). The numbers of a BORROW
  survive being cut to a byte (what happens to larger ones is told above). `DropTimeout` outlasts the frames
  in the ring; `atolla_overrun` shows what happens if it does not, and with frames of 1 ms TLC finds a full
  ring, too. `NoWrap` and `OneFault` are those of the other theorems; `RingHasRoom` says nothing after
  a fault, so the budget of faults does not matter to it.

Only model-checked: the liveness properties (`CallReturnsIfRoom`,
`MakeReturns`, `SinkReturns`), which are beyond the prover, and of the
properties of `MC_Atolla` `HealthyStaysOpen` and `StreamsOnFreshLoan`, which depend on how
many LENT can pile up in the socket of a source that sleeps in `put`, which takes three of them at most,
and on how many a fault delays or repeats; and `InStep` with more faults than one, which no run has either.

## Not modelled

* the Windows build of the sockets, null pointers given to them, blocking calls on a
  descriptor that never became non-blocking;
* the iterator on bytes that no builder wrote;
* several faults in one run of `atolla` (a repeated BORROW that is delayed and then
  overtaken by a frame would take two), a sink polled so seldom that its backlog grows;
* the loss of half the frame indices in a row, after which the sink takes new
  frames for old ones (`sink.cpp:341`): the budget of faults is too small;
* a clock that goes back (`CLOCK_REALTIME` may) and a sleep that ends early;
* tests, build files, the window of the example sink, the copy of `clock_gettime`
  for macOS.

## Plan

All parts of the library are modelled. What a further step could take on: the
LENT that wait in the socket of a source (`HealthyStaysOpen`, `StreamsOnFreshLoan`) for every value of the
constants; faults in pairs on a smaller instance; a poll of
the sink that is late again and again.
