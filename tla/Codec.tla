------------------------------ MODULE Codec ------------------------------
(***************************************************************************)
(* The messages of Atolla as bytes: the builder of src/msg/builder.c,      *)
(* which assembles every message in one block of memory that it reuses,    *)
(* resizes (src/mem/block.c) and numbers, and the iterator of              *)
(* src/msg/iter.c, which finds the messages of a datagram again.  The      *)
(* models of sink and source speak of datagrams as sequences of messages;  *)
(* RoundTrip is what entitles them to.                                     *)
(*                                                                         *)
(* A byte has Base values and a uint16 two bytes.  The datagram holds the  *)
(* blocks of consecutive calls of the builder, as udp_socket_send copied   *)
(* them: one in this library, several if a peer of it chooses to.          *)
(***************************************************************************)
EXTENDS Naturals, Sequences

CONSTANTS
  Base,              \* 256
  InitialCapacity,   \* initial_block_capacity
  ByteValues,        \* the values callers pass for the one-byte fields
  CausingIds,        \* the message ids callers pass to msg_builder_fail
  Frames,            \* the frames callers pass to msg_builder_enqueue
  MaxMsgs            \* bound: messages in one datagram

Byte == 0 .. Base - 1
Uint16 == 0 .. Base * Base - 1

ASSUME CodecAssumption ==
  /\ Base \in Nat /\ Base > 3
  /\ InitialCapacity \in Nat
  /\ ByteValues \subseteq Byte
  /\ CausingIds \subseteq Uint16
  /\ Frames \subseteq Seq(Byte)
  /\ MaxMsgs \in Nat \ {0}

VARIABLES
  pc,            \* "build", "read" or "freed"
  msg_buf,       \* [data, size]; the capacity is the length of data
  next_msg_id,
  wire,          \* the bytes of the datagram
  sent,          \* history: the messages in it, [id, msg, at]
  start,         \* iter.msg_buf_start, as an offset into the datagram
  read,          \* history: the messages the iterator found, [id, msg]
  aborted,       \* "no", or the kind of assertion that failed
  big_endian     \* of the host that reads

vars == <<pc, msg_buf, next_msg_id, wire, sent, start, read, aborted, big_endian>>

\* A value no byte has: what memory holds that nobody wrote.
Junk == Base
Cell == Byte \cup {Junk}

Messages ==
  [type : {"BORROW"}, frame_length : ByteValues, buffer_length : ByteValues]
    \cup [type : {"LENT"}]
    \cup [type : {"ENQUEUE"}, frame_idx : ByteValues, frame : Frames]
    \cup [type : {"FAIL"}, causing_message_id : CausingIds, error_code : ByteValues]

-----------------------------------------------------------------------------
\* Memory blocks and byte order.

mem_block_alloc(capacity) ==
  [data |-> [i \in 1..capacity |-> Junk], size |-> 0]

\* Mutant: the size is set only when the block grows.
mem_block_resize_Growing(b, new_size) ==
  IF Len(b.data) < new_size THEN [mem_block_alloc(new_size) EXCEPT !.size = new_size] ELSE b

mem_block_resize(b, new_size) ==
  [(IF Len(b.data) < new_size THEN mem_block_alloc(new_size) ELSE b)
     EXCEPT !.size = new_size]

\* Mutant: only the low byte is written.
mem_uint16_bytes_Low(n) == <<n % Base, 0>>

\* mem_uint16_byte_low and mem_uint16_byte_high.
mem_uint16_bytes(n) == <<n % Base, (n \div Base) % Base>>

\* Two bytes copied into a uint16 of the host, and the macro that mends it.
Load(b0, b1) == IF big_endian THEN b0 * Base + b1 ELSE b1 * Base + b0
mem_uint16le_from(n) ==
  IF big_endian THEN (n % Base) * Base + n \div Base ELSE n

-----------------------------------------------------------------------------
\* The builder.

header_len == 5
max_payload_len == Base * Base - 1

TypeByte(type) ==
  CASE type = "BORROW" -> 0
    [] type = "LENT" -> 1
    [] type = "ENQUEUE" -> 2
    [] type = "FAIL" -> Base - 1

\* The payloads of msg_builder_borrow, _lent, _enqueue and _fail.
Payload(m) ==
  CASE m.type = "BORROW" -> <<m.frame_length, m.buffer_length>>
    [] m.type = "LENT" -> << >>
    [] m.type = "ENQUEUE" -> <<m.frame_idx>> \o mem_uint16_bytes(Len(m.frame)) \o m.frame
    [] m.type = "FAIL" -> Append(mem_uint16_bytes(m.causing_message_id), m.error_code)

\* What set_uint8, set_uint16 and set_data write, one behind the other.
Encoded(id, m) ==
  <<TypeByte(m.type)>> \o mem_uint16_bytes(id)
    \o mem_uint16_bytes(Len(Payload(m))) \o Payload(m)

\* The block keeps what lies behind the message.
Overwritten(data, bytes) ==
  [i \in 1..Len(data) |-> IF i <= Len(bytes) THEN bytes[i] ELSE data[i]]

\* The assertion of set_data, which implies those of set_uint8 and set_uint16.
set_ok(b, payload_len) == b.size >= header_len + payload_len

\* Mutant: the message id is not cut to 16 bits.
NextId_NoWrap == next_msg_id + 1

NextId == (next_msg_id + 1) % (Base * Base)

msg_builder_init ==
  /\ pc = "build"
  /\ msg_buf = mem_block_alloc(InitialCapacity)
  /\ next_msg_id = 0
  /\ wire = << >> /\ sent = << >> /\ read = << >> /\ start = 0
  /\ aborted = "no"
  /\ big_endian \in BOOLEAN

Abort(kind) ==
  /\ aborted' = kind
  /\ UNCHANGED <<pc, msg_buf, next_msg_id, wire, sent, start, read, big_endian>>

\* A message is built, and sent before the next one is built.
build(m) ==
  LET len == Len(Payload(m))
      block == mem_block_resize(msg_buf, header_len + len)
      data == Overwritten(block.data, Encoded(next_msg_id, m))
  IN  /\ pc = "build" /\ aborted = "no"
      /\ Len(sent) < MaxMsgs
      /\ \/ /\ len > max_payload_len \/ ~set_ok(block, len)
            /\ Abort(IF len > max_payload_len THEN "payload" ELSE "block")
         \/ /\ len <= max_payload_len /\ set_ok(block, len)
            /\ msg_buf' = [block EXCEPT !.data = data]
            /\ next_msg_id' = NextId
            /\ wire' = wire \o SubSeq(data, 1, block.size)
            /\ sent' = Append(sent, [id |-> next_msg_id, msg |-> m, at |-> Len(wire)])
            /\ UNCHANGED <<pc, start, read, aborted, big_endian>>

\* Between two datagrams; an aborted process frees nothing.
msg_builder_free ==
  /\ pc = "build" /\ wire = << >> /\ aborted = "no"
  /\ pc' = "freed"
  /\ msg_buf' = IF Len(msg_buf.data) > 0 THEN [data |-> << >>, size |-> 0] ELSE msg_buf
  /\ UNCHANGED <<next_msg_id, wire, sent, start, read, aborted, big_endian>>

-----------------------------------------------------------------------------
\* The iterator.

\* The byte at an offset from the current message.
At(offset) ==
  IF start + offset < Len(wire) THEN wire[start + offset + 1] ELSE Junk

Uint16At(offset) == mem_uint16le_from(Load(At(offset), At(offset + 1)))

msg_iter_make ==
  /\ pc = "build" /\ wire # << >> /\ aborted = "no"
  /\ pc' = "read"
  /\ start' = 0
  /\ read' = << >>
  /\ UNCHANGED <<msg_buf, next_msg_id, wire, sent, aborted, big_endian>>

msg_iter_has_msg == start < Len(wire)
msg_iter_msg_id == Uint16At(1)
msg_iter_payload_length == Uint16At(3)

\* The fields of the current message; there is no test that the payload is
\* long enough for them, and the frame's own length is not looked at.
msg_iter_borrow ==
  [type |-> "BORROW", frame_length |-> At(5), buffer_length |-> At(6)]
msg_iter_enqueue ==
  [type |-> "ENQUEUE", frame_idx |-> At(5),
   frame |-> [i \in 1 .. msg_iter_payload_length - 3 |-> At(7 + i)]]
msg_iter_fail ==
  [type |-> "FAIL", causing_message_id |-> Uint16At(5), error_code |-> At(7)]

\* msg_iter_type asserts that the byte is one of the four.
msg_iter_msg ==
  CASE At(0) = 0 -> msg_iter_borrow
    [] At(0) = 1 -> [type |-> "LENT"]
    [] At(0) = 2 -> msg_iter_enqueue
    [] At(0) = Base - 1 -> msg_iter_fail
    [] OTHER -> [type |-> "unknown"]

\* The body of a loop over the iterator, and its increment.
msg_iter_next ==
  /\ pc = "read" /\ aborted = "no" /\ msg_iter_has_msg
  /\ read' = Append(read, [id |-> msg_iter_msg_id, msg |-> msg_iter_msg])
  /\ aborted' = IF msg_iter_msg.type = "unknown" THEN "iter" ELSE "no"
  /\ start' = start + header_len + msg_iter_payload_length
  /\ UNCHANGED <<pc, msg_buf, next_msg_id, wire, sent, big_endian>>

\* The loop ends; the next datagram begins empty.
msg_iter_end ==
  /\ pc = "read" /\ aborted = "no" /\ ~msg_iter_has_msg
  /\ pc' = "build"
  /\ wire' = << >> /\ sent' = << >> /\ start' = 0 /\ read' = << >>
  /\ UNCHANGED <<msg_buf, next_msg_id, aborted, big_endian>>

-----------------------------------------------------------------------------
Init == msg_builder_init

Next ==
  \/ \E m \in Messages : build(m)
  \/ msg_builder_free
  \/ msg_iter_make
  \/ msg_iter_next
  \/ msg_iter_end

Spec == Init /\ [][Next]_vars

-----------------------------------------------------------------------------
\* What a message may look like once it has been read back.
ReadMessages ==
  [type : {"BORROW"}, frame_length : Byte, buffer_length : Byte]
    \cup [type : {"LENT"}]
    \cup [type : {"ENQUEUE"}, frame_idx : Byte, frame : Seq(Byte)]
    \cup [type : {"FAIL"}, causing_message_id : Uint16, error_code : Byte]

SentMessages == [id : Uint16, msg : Messages, at : 0 .. Len(wire)]

\* Types.  In particular the message id is 16 bits wide, everything on the
\* wire and in a message read from it is a byte that somebody wrote, and the
\* block of the builder holds no more than its capacity.
TypeOK ==
  /\ pc \in {"build", "read", "freed"}
  /\ msg_buf \in [data : Seq(Cell), size : Nat]
  /\ msg_buf.size <= Len(msg_buf.data)
  /\ next_msg_id \in Uint16
  /\ wire \in Seq(Byte)
  /\ sent \in Seq(SentMessages)
  /\ start \in Nat
  /\ read \in Seq([id : Uint16, msg : ReadMessages])
  /\ aborted \in {"no", "payload", "block", "iter"}
  /\ big_endian \in BOOLEAN

Read(i) == [id |-> sent[i].id, msg |-> sent[i].msg]

\* The iterator (msg_iter_next and the accessors) finds the messages the
\* builder put into the datagram, each with its id and its fields, in order,
\* none more and none less, whatever the builder's block was used for before
\* and whatever the byte order of the reading host: msg_iter_has_msg is true
\* exactly as long as a message is left.
RoundTrip ==
  pc = "read" =>
    /\ Len(read) <= Len(sent)
    /\ \A i \in 1..Len(read) : read[i] = Read(i)
    /\ msg_iter_has_msg <=> Len(read) < Len(sent)

\* An assertion fails only while a frame is built that leaves no room for the
\* three other bytes of its payload (builder.c:63), that is from 65533 bytes
\* on, although builder.h:77 allows 65535: the block that mem_block_resize
\* made is large enough for set_uint8, set_uint16 and set_data, every other
\* message fits, and msg_iter_type meets no byte that is not a type.
OnlyLongFramesAbort ==
  [][aborted' # "no" =>
       \E m \in Messages :
         build(m) /\ m.type = "ENQUEUE" /\ Len(m.frame) > max_payload_len - 3]_vars
=============================================================================
