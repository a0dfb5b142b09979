--------------------------- MODULE Codec_proofs ---------------------------
(***************************************************************************)
(* Proofs that the messages of builder.c survive the way through memory    *)
(* and wire to iter.c, for every width of a byte, all messages and hosts   *)
(* of both byte orders; and that the lights of a sink show whole colours   *)
(* of the frames that came this way, for every length of the frame, of the *)
(* strip of lights and of the buffer of the application.                   *)
(***************************************************************************)
EXTENDS MC_Codec, Integers, SequenceTheorems, WellFoundedInduction, TLAPS

\* Division leaves the digits of a number of two digits.
LEMMA Digits ==
  ASSUME NEW a \in Byte, NEW b \in Byte
  PROVE  /\ a * Base + b \in Nat
         /\ (a * Base + b) % Base = b
         /\ (a * Base + b) \div Base = a
  BY CodecAssumption DEF Byte

\* The two bytes of a uint16.
LEMMA Halves ==
  ASSUME NEW n \in Uint16
  PROVE  /\ n % Base \in Byte
         /\ n \div Base \in Byte
         /\ (n \div Base) % Base = n \div Base
         /\ (n \div Base) * Base + (n % Base) = n
  <1> DEFINE q == n \div Base
             r == n % Base
  <1>1. /\ Base \in Nat /\ Base > 3 /\ n \in Nat /\ n < Base * Base
    <2>1. Base \in Nat /\ Base > 3
      BY CodecAssumption
    <2>2. Base * Base \in Nat
      BY <2>1
    <2> QED BY <2>1, <2>2 DEF Uint16
  <1>2. q \in Int /\ r \in 0 .. Base - 1 /\ n = q * Base + r
    BY <1>1
  <1> HIDE DEF q, r
  <1>3. q >= 0
    <2>1. SUFFICES ASSUME q <= -1 PROVE FALSE
      BY <1>2
    <2>2. q * Base <= (-1) * Base
      BY <1>1, <1>2, <2>1
    <2> QED BY <1>1, <1>2, <2>2
  <1>4. q < Base
    <2>1. SUFFICES ASSUME q >= Base PROVE FALSE
      BY <1>1, <1>2
    <2>2. q * Base >= Base * Base
      BY <1>1, <1>2, <2>1
    <2> QED BY <1>1, <1>2, <2>2
  <1>5. q % Base = q
    BY <1>1, <1>2, <1>3, <1>4
  <1> QED BY <1>1, <1>2, <1>3, <1>4, <1>5 DEF Byte, q, r

\* A uint16 comes back from its two bytes, on hosts of both byte orders.
LEMMA LoadBack ==
  ASSUME NEW n \in Uint16, big_endian \in BOOLEAN
  PROVE  LET b == mem_uint16_bytes(n)
         IN  /\ b \in Seq(Byte) /\ Len(b) = 2
             /\ mem_uint16le_from(Load(b[1], b[2])) = n
  <1> DEFINE q == n \div Base
             r == n % Base
  <1>1. q \in Byte /\ r \in Byte /\ q % Base = q /\ q * Base + r = n
    BY Halves
  <1>2. mem_uint16_bytes(n) = <<r, q>>
    BY <1>1 DEF mem_uint16_bytes
  <1> HIDE DEF q, r
  <1>3. (r * Base + q) % Base = q /\ (r * Base + q) \div Base = r
    BY <1>1, Digits
  <1>4. mem_uint16le_from(Load(r, q)) = n
    BY <1>1, <1>3 DEF mem_uint16le_from, Load
  <1>5. <<r, q>> \in Seq(Byte)
    BY <1>1
  <1> QED BY <1>2, <1>4, <1>5

-----------------------------------------------------------------------------
\* Two sequences of bytes one behind the other.
LEMMA Joined ==
  ASSUME NEW s \in Seq(Byte), NEW t \in Seq(Byte)
  PROVE  /\ s \o t \in Seq(Byte)
         /\ Len(s) \in Nat /\ Len(t) \in Nat
         /\ Len(s \o t) = Len(s) + Len(t)
         /\ \A i \in 1 .. Len(s) + Len(t) :
              (s \o t)[i] = IF i <= Len(s) THEN s[i] ELSE t[i - Len(s)]
  BY ConcatProperties, LenProperties

\* The length and the elements of a sequence.
LEMMA Elements ==
  ASSUME NEW S, NEW s \in Seq(S)
  PROVE  Len(s) \in Nat /\ \A i \in 1..Len(s) : s[i] \in S
  OBVIOUS

\* A function on 1..k is a sequence of length k.
LEMMA IsSequence ==
  ASSUME NEW S, NEW k \in Nat, NEW s \in [1..k -> S]
  PROVE  s \in Seq(S) /\ Len(s) = k
  OBVIOUS

\* A payload consists of bytes.
LEMMA PayloadType ==
  ASSUME NEW m \in Messages
  PROVE  Payload(m) \in Seq(Byte)
  <1>1. CASE m \in [type : {"ENQUEUE"}, frame_idx : ByteValues, frame : Frames]
    <2>1. /\ m.type = "ENQUEUE" /\ <<m.frame_idx>> \in Seq(Byte)
          /\ m.frame \in Seq(Byte) /\ Len(m.frame) \in Nat
      BY <1>1, CodecAssumption
    <2>2. \A n \in Nat : mem_uint16_bytes(n) \in Seq(Byte)
      BY CodecAssumption DEF mem_uint16_bytes, Byte
    <2>3. Payload(m) = <<m.frame_idx>> \o mem_uint16_bytes(Len(m.frame)) \o m.frame
      BY <2>1 DEF Payload
    <2> QED BY <2>1, <2>2, <2>3
  <1>2. CASE m \in [type : {"FAIL"}, causing_message_id : CausingIds, error_code : ByteValues]
    <2>1. /\ m.type = "FAIL" /\ m.causing_message_id \in Uint16 /\ m.error_code \in Byte
      BY <1>2, CodecAssumption
    <2>2. mem_uint16_bytes(m.causing_message_id) \in Seq(Byte)
      BY <2>1, Halves DEF mem_uint16_bytes
    <2> QED BY <2>1, <2>2 DEF Payload
  <1>3. CASE m \in [type : {"LENT"}]
    BY <1>3 DEF Payload
  <1>4. CASE m \in [type : {"BORROW"}, frame_length : ByteValues, buffer_length : ByteValues]
    <2>1. m.type = "BORROW" /\ m.frame_length \in Byte /\ m.buffer_length \in Byte
      BY <1>4, CodecAssumption
    <2> QED BY <2>1 DEF Payload
  <1> QED BY <1>1, <1>2, <1>3, <1>4 DEF Messages

\* Where the fields of a message lie in memory.
LEMMA EncodedFields ==
  ASSUME NEW m \in Messages, NEW id \in Uint16,
         Len(Payload(m)) <= max_payload_len
  PROVE  LET e == Encoded(id, m)
             p == Payload(m)
         IN  /\ e \in Seq(Byte) /\ Len(e) = 5 + Len(p)
             /\ e[1] = TypeByte(m.type)
             /\ e[2] = mem_uint16_bytes(id)[1] /\ e[3] = mem_uint16_bytes(id)[2]
             /\ e[4] = mem_uint16_bytes(Len(p))[1] /\ e[5] = mem_uint16_bytes(Len(p))[2]
             /\ \A j \in 1..Len(p) : e[5 + j] = p[j]
             /\ Len(p) \in Uint16
  <1> DEFINE p == Payload(m)
             t == <<TypeByte(m.type)>>
             a == mem_uint16_bytes(id)
             b == mem_uint16_bytes(Len(p))
  <1>1. p \in Seq(Byte) /\ Len(p) \in Nat
    BY PayloadType
  <1>2. Len(p) \in Uint16
    BY <1>1, CodecAssumption DEF Uint16, max_payload_len
  <1>3. t \in Seq(Byte) /\ Len(t) = 1
    BY CodecAssumption DEF TypeByte, Byte, Messages
  <1>4. a \in Seq(Byte) /\ Len(a) = 2 /\ b \in Seq(Byte) /\ Len(b) = 2
    BY <1>2, Halves DEF mem_uint16_bytes
  <1>5. Encoded(id, m) = t \o a \o b \o p
    BY DEF Encoded
  <1> HIDE DEF p, a, b
  <1>6. t[1] = TypeByte(m.type)
    OBVIOUS
  <1> HIDE DEF t
  <1> DEFINE u == t \o a
             v == u \o b
  <1>7. u \in Seq(Byte) /\ Len(u) = 3 /\ u[1] = t[1] /\ u[2] = a[1] /\ u[3] = a[2]
    <2>1. t \in Seq(Byte) /\ a \in Seq(Byte)
      BY <1>3, <1>4
    <2>2. /\ u \in Seq(Byte)
          /\ Len(u) = Len(t) + Len(a)
          /\ \A i \in 1 .. Len(t) + Len(a) :
               (u)[i] = IF i <= Len(t) THEN t[i] ELSE a[i - Len(t)]
      BY <2>1, Joined
    <2>3. Len(t) = 1 /\ Len(a) = 2
      BY <1>3, <1>4
    <2> QED BY <2>2, <2>3
  <1> HIDE DEF u
  <1>8. /\ v \in Seq(Byte) /\ Len(v) = 5 /\ v[1] = u[1] /\ v[2] = u[2] /\ v[3] = u[3]
        /\ v[4] = b[1] /\ v[5] = b[2]
    <2>1. u \in Seq(Byte) /\ b \in Seq(Byte)
      BY <1>4, <1>7
    <2>2. /\ v \in Seq(Byte)
          /\ Len(v) = Len(u) + Len(b)
          /\ \A i \in 1 .. Len(u) + Len(b) :
               (v)[i] = IF i <= Len(u) THEN u[i] ELSE b[i - Len(u)]
      BY <2>1, Joined
    <2>3. Len(u) = 3 /\ Len(b) = 2
      BY <1>4, <1>7
    <2> QED BY <2>2, <2>3
  <1> HIDE DEF v
  <1>9. /\ v \o p \in Seq(Byte) /\ Len(v \o p) = 5 + Len(p)
        /\ \A j \in 1..5 : (v \o p)[j] = v[j]
        /\ \A j \in 1..Len(p) : (v \o p)[5 + j] = p[j]
    <2>1. v \in Seq(Byte) /\ p \in Seq(Byte)
      BY <1>1, <1>8
    <2>2. /\ v \o p \in Seq(Byte)
          /\ Len(v \o p) = Len(v) + Len(p)
          /\ \A i \in 1 .. Len(v) + Len(p) :
               (v \o p)[i] = IF i <= Len(v) THEN v[i] ELSE p[i - Len(v)]
      BY <2>1, Joined
    <2>3. Len(v) = 5 /\ Len(p) \in Nat
      BY <1>1, <1>8
    <2> QED BY <2>2, <2>3
  <1>10. Encoded(id, m) = v \o p
    BY <1>5 DEF u, v
  <1> QED BY <1>2, <1>6, <1>7, <1>8, <1>9, <1>10 DEF a, b, p

\* The payload of ENQUEUE: index, length of the frame, frame.
LEMMA EnqueuePayload ==
  ASSUME NEW x \in Byte, NEW f \in Seq(Byte)
  PROVE  LET p == <<x>> \o mem_uint16_bytes(Len(f)) \o f
         IN  /\ Len(p) = 3 + Len(f)
             /\ p[1] = x
             /\ \A i \in 1..Len(f) : p[3 + i] = f[i]
  <1> DEFINE t == <<x>>
             a == mem_uint16_bytes(Len(f))
             u == t \o a
  <1>1. t \in Seq(Byte) /\ Len(t) = 1 /\ t[1] = x
    OBVIOUS
  <1>2. a \in Seq(Byte) /\ Len(a) = 2
    <2>1. Len(f) \in Nat
      OBVIOUS
    <2> QED BY <2>1, CodecAssumption DEF mem_uint16_bytes, Byte
  <1> HIDE DEF t, a
  <1>3. /\ u \in Seq(Byte)
        /\ Len(u) = Len(t) + Len(a)
        /\ \A i \in 1 .. Len(t) + Len(a) : u[i] = IF i <= Len(t) THEN t[i] ELSE a[i - Len(t)]
    BY <1>1, <1>2, Joined
  <1>4. Len(u) = 3 /\ u[1] = x
    BY <1>1, <1>2, <1>3
  <1>5. u \in Seq(Byte)
    BY <1>3
  <1> HIDE DEF u
  <1>6. /\ Len(u) \in Nat /\ Len(f) \in Nat
        /\ Len(u \o f) = Len(u) + Len(f)
        /\ \A i \in 1 .. Len(u) + Len(f) : (u \o f)[i] = IF i <= Len(u) THEN u[i] ELSE f[i - Len(u)]
    BY <1>5, Joined
  <1>7. /\ Len(u \o f) = 3 + Len(f) /\ (u \o f)[1] = x
        /\ \A i \in 1..Len(f) : (u \o f)[3 + i] = f[i]
    BY <1>4, <1>6
  <1> QED BY <1>7 DEF t, a, u

\* The iterator at the beginning of a message of the builder finds it.
LEMMA ReadBack ==
  ASSUME NEW m \in Messages, NEW id \in Uint16,
         Len(Payload(m)) <= max_payload_len,
         wire \in Seq(Byte), start \in Nat, big_endian \in BOOLEAN,
         start + Len(Encoded(id, m)) <= Len(wire),
         \A j \in 1 .. Len(Encoded(id, m)) : wire[start + j] = Encoded(id, m)[j]
  PROVE  /\ msg_iter_msg_id = id
         /\ msg_iter_payload_length = Len(Payload(m))
         /\ msg_iter_msg = m
  <1> DEFINE e == Encoded(id, m)
             p == Payload(m)
  <1>1. /\ Len(e) = 5 + Len(p)
        /\ e[1] = TypeByte(m.type)
        /\ e[2] = mem_uint16_bytes(id)[1] /\ e[3] = mem_uint16_bytes(id)[2]
        /\ e[4] = mem_uint16_bytes(Len(p))[1] /\ e[5] = mem_uint16_bytes(Len(p))[2]
        /\ \A j \in 1..Len(p) : e[5 + j] = p[j]
        /\ Len(p) \in Uint16
    BY EncodedFields
  <1>2. Len(p) \in Nat /\ Len(wire) \in Nat
    BY PayloadType
  <1> HIDE DEF e, p
  <1>3. \A o \in 0 .. 4 + Len(p) : At(o) = e[o + 1]
    <2> SUFFICES ASSUME NEW o \in 0 .. 4 + Len(p) PROVE At(o) = e[o + 1]
      OBVIOUS
    <2>1. o + 1 \in 1..Len(e) /\ start + o < Len(wire)
      BY <1>1, <1>2 DEF e
    <2>2. wire[start + (o + 1)] = e[o + 1]
      BY <2>1 DEF e
    <2>3. start + (o + 1) = start + o + 1
      BY <1>2
    <2> QED BY <2>1, <2>2, <2>3 DEF At
  <1>4. /\ At(0) = TypeByte(m.type) /\ At(1) = e[2] /\ At(2) = e[3]
        /\ At(3) = e[4] /\ At(4) = e[5]
    BY <1>1, <1>2, <1>3
  <1>5. \A j \in 1..Len(p) : At(4 + j) = p[j]
    <2> SUFFICES ASSUME NEW j \in 1..Len(p) PROVE At(4 + j) = p[j]
      OBVIOUS
    <2>1. At(4 + j) = e[(4 + j) + 1]
      BY <1>2, <1>3
    <2>2. (4 + j) + 1 = 5 + j
      BY <1>2
    <2> QED BY <1>1, <2>1, <2>2
  <1>6. msg_iter_msg_id = id
    BY <1>1, <1>4, LoadBack DEF msg_iter_msg_id, Uint16At
  <1>7. msg_iter_payload_length = Len(p)
    BY <1>1, <1>4, LoadBack DEF msg_iter_payload_length, Uint16At
  <1>8. msg_iter_msg = m
    <2>1. CASE m \in [type : {"BORROW"}, frame_length : ByteValues, buffer_length : ByteValues]
      <3>1. m.type = "BORROW" /\ p = <<m.frame_length, m.buffer_length>>
        BY <2>1 DEF Payload, p
      <3>2. At(0) = 0
        BY <1>4, <3>1 DEF TypeByte
      <3>3. At(5) = m.frame_length /\ At(6) = m.buffer_length
        BY <1>5, <3>1
      <3>4. m = [type |-> "BORROW", frame_length |-> m.frame_length, buffer_length |-> m.buffer_length]
        BY <2>1
      <3>5. msg_iter_msg = msg_iter_borrow
        BY <3>2, CodecAssumption DEF msg_iter_msg
      <3> QED BY <3>3, <3>4, <3>5 DEF msg_iter_borrow
    <2>2. CASE m \in [type : {"LENT"}]
      <3>1. m = [type |-> "LENT"]
        BY <2>2
      <3>2. At(0) = 1
        BY <1>4, <3>1 DEF TypeByte
      <3> QED BY <3>1, <3>2, CodecAssumption DEF msg_iter_msg
    <2>3. CASE m \in [type : {"ENQUEUE"}, frame_idx : ByteValues, frame : Frames]
      <3> DEFINE f == m.frame
      <3>1. m.type = "ENQUEUE" /\ m.frame_idx \in Byte /\ f \in Seq(Byte)
        BY <2>3, CodecAssumption
      <3>2. p = <<m.frame_idx>> \o mem_uint16_bytes(Len(f)) \o f
        BY <3>1 DEF Payload, p
      <3>3. At(0) = 2
        BY <1>4, <3>1 DEF TypeByte
      <3>4. /\ Len(p) = 3 + Len(f) /\ p[1] = m.frame_idx
            /\ \A i \in 1..Len(f) : p[3 + i] = f[i]
        BY <3>1, <3>2, EnqueuePayload
      <3>5. Len(f) \in Nat /\ f = [i \in 1..Len(f) |-> f[i]]
        BY <3>1
      <3>6. At(5) = m.frame_idx
        BY <1>5, <3>4, <3>5
      <3>7. \A i \in 1..Len(f) : At(7 + i) = f[i]
        <4> SUFFICES ASSUME NEW i \in 1..Len(f) PROVE At(7 + i) = f[i]
          OBVIOUS
        <4>1. 3 + i \in 1..Len(p) /\ 4 + (3 + i) = 7 + i
          BY <3>4, <3>5
        <4>2. At(4 + (3 + i)) = p[3 + i]
          BY <1>5, <4>1
        <4> QED BY <3>4, <4>1, <4>2
      <3>8. Len(p) - 3 = Len(f)
        BY <3>4, <3>5
      <3>9. m = [type |-> "ENQUEUE", frame_idx |-> m.frame_idx, frame |-> m.frame]
        BY <2>3
      <3>10. [i \in 1 .. msg_iter_payload_length - 3 |-> At(7 + i)] = f
        <4>1. [i \in 1..Len(f) |-> At(7 + i)] = [i \in 1..Len(f) |-> f[i]]
          BY <3>7
        <4> QED BY <1>7, <3>5, <3>8, <4>1
      <3>11. msg_iter_msg = msg_iter_enqueue
        BY <3>3, CodecAssumption DEF msg_iter_msg
      <3> QED BY <3>6, <3>9, <3>10, <3>11 DEF msg_iter_enqueue
    <2>4. CASE m \in [type : {"FAIL"}, causing_message_id : CausingIds, error_code : ByteValues]
      <3> DEFINE c == m.causing_message_id
      <3>1. m.type = "FAIL" /\ c \in Uint16
        BY <2>4, CodecAssumption
      <3>2. p = Append(mem_uint16_bytes(c), m.error_code)
        BY <3>1 DEF Payload, p
      <3>3. /\ Len(p) = 3 /\ p[1] = mem_uint16_bytes(c)[1]
            /\ p[2] = mem_uint16_bytes(c)[2] /\ p[3] = m.error_code
        BY <3>2 DEF mem_uint16_bytes
      <3>4. At(0) = Base - 1 /\ At(0) \notin {0, 1, 2}
        BY <1>4, <3>1, CodecAssumption DEF TypeByte
      <3>5. At(5) = mem_uint16_bytes(c)[1] /\ At(6) = mem_uint16_bytes(c)[2] /\ At(7) = m.error_code
        BY <1>5, <3>3
      <3>6. Uint16At(5) = c
        BY <3>1, <3>5, LoadBack DEF Uint16At
      <3>7. m = [type |-> "FAIL", causing_message_id |-> c, error_code |-> m.error_code]
        BY <2>4
      <3> QED BY <3>4, <3>5, <3>6, <3>7 DEF msg_iter_msg, msg_iter_fail
    <2> QED BY <2>1, <2>2, <2>3, <2>4 DEF Messages
  <1> QED BY <1>6, <1>7, <1>8 DEF p

-----------------------------------------------------------------------------
\* The builder's block always has room for the message, and what is sent of it
\* is the message and nothing else.
LEMMA Built ==
  ASSUME TypeOK, NEW m \in Messages, Len(Payload(m)) <= max_payload_len
  PROVE  LET len == Len(Payload(m))
             block == mem_block_resize(msg_buf, header_len + len)
             data == Overwritten(block.data, Encoded(next_msg_id, m))
         IN  /\ set_ok(block, len)
             /\ data \in Seq(Cell)
             /\ [block EXCEPT !.data = data] = [data |-> data, size |-> header_len + len]
             /\ header_len + len \in 0 .. Len(data)
             /\ SubSeq(data, 1, block.size) = Encoded(next_msg_id, m)
  <1> DEFINE len == Len(Payload(m))
             n == header_len + len
             block == mem_block_resize(msg_buf, n)
             e == Encoded(next_msg_id, m)
             data == Overwritten(block.data, e)
  <1>1. len \in Nat /\ n \in Nat /\ n = 5 + len
    BY PayloadType DEF header_len
  <1>2. e \in Seq(Byte) /\ Len(e) = n
    BY <1>1, EncodedFields DEF TypeOK
  <1> HIDE DEF n, e
  <1>3. /\ block = [data |-> block.data, size |-> n]
        /\ block.data \in Seq(Cell) /\ Len(block.data) >= n
    <2>1. CASE Len(msg_buf.data) < n
      <3> DEFINE fresh == [i \in 1..n |-> Junk]
      <3>1. block = [[data |-> fresh, size |-> 0] EXCEPT !.size = n]
        BY <2>1 DEF mem_block_resize, mem_block_alloc
      <3>2. fresh \in Seq(Cell) /\ Len(fresh) = n
        BY <1>1 DEF Cell
      <3> HIDE DEF fresh, block
      <3>3. block = [data |-> fresh, size |-> n]
        BY <3>1
      <3> QED BY <1>1, <3>2, <3>3
    <2>2. CASE Len(msg_buf.data) >= n
      <3>1. block = [msg_buf EXCEPT !.size = n]
        BY <1>1, <2>2 DEF mem_block_resize, TypeOK
      <3>2. block = [data |-> msg_buf.data, size |-> n]
        BY <3>1 DEF TypeOK
      <3> QED BY <2>2, <3>2 DEF TypeOK
    <2> QED BY <1>1, <2>1, <2>2 DEF TypeOK
  <1> HIDE DEF block
  <1>4. /\ data \in Seq(Cell) /\ Len(data) = Len(block.data)
        /\ \A i \in 1..n : data[i] = e[i]
    <2> DEFINE old == block.data
               k == Len(old)
    <2>1. old \in Seq(Cell) /\ k >= n
      BY <1>3
    <2>2. data = [i \in 1..k |-> IF i <= n THEN e[i] ELSE old[i]]
      BY <1>2 DEF Overwritten
    <2> HIDE DEF old, data
    <2>3. k \in Nat /\ \A i \in 1..k : old[i] \in Cell
      BY <2>1
    <2>4. \A i \in 1..n : e[i] \in Cell
      <3>1. \A i \in 1..n : e[i] \in Byte
        BY <1>2
      <3> QED BY <3>1 DEF Cell
    <2> HIDE DEF k
    <2>5. \A i \in 1..k : (IF i <= n THEN e[i] ELSE old[i]) \in Cell
      BY <1>1, <2>3, <2>4
    <2>6. data \in [1..k -> Cell]
      BY <2>2, <2>5
    <2>7. data \in Seq(Cell) /\ Len(data) = k
      BY <2>3, <2>6
    <2>8. \A i \in 1..n : data[i] = e[i]
      BY <1>1, <2>1, <2>2, <2>3
    <2> QED BY <2>7, <2>8 DEF k, old
  <1> HIDE DEF data
  <1>5. SubSeq(data, 1, n) = e
    <2>1. SubSeq(data, 1, n) = [i \in 1..n |-> data[i]]
      BY <1>1, <1>3, <1>4
    <2>2. e = [i \in 1..n |-> e[i]]
      BY <1>1, <1>2
    <2> QED BY <1>4, <2>1, <2>2
  <1>6. block.size = n /\ [block EXCEPT !.data = data] = [data |-> data, size |-> n]
    BY <1>3
  <1>7. n \in 0 .. Len(data)
    BY <1>1, <1>3, <1>4
  <1>8. set_ok(block, len)
    BY <1>1, <1>6 DEF set_ok, n
  <1> QED BY <1>4, <1>5, <1>6, <1>7, <1>8 DEF data, block, e, n

-----------------------------------------------------------------------------
\* Message i lies in the datagram where it should, up to the next one.
Placed(i) ==
  LET e == Encoded(sent[i].id, sent[i].msg)
  IN  /\ Len(Payload(sent[i].msg)) <= max_payload_len
      /\ sent[i].at + Len(e) = IF i = Len(sent) THEN Len(wire) ELSE sent[i + 1].at
      /\ \A j \in 1..Len(e) : wire[sent[i].at + j] = e[j]

\* The messages lie in the datagram one behind the other and fill it.
Layout ==
  /\ sent = << >> => wire = << >>
  /\ Len(sent) > 0 => sent[1].at = 0
  /\ \A i \in 1..Len(sent) : Placed(i)

\* The iterator stands at the first message that it has not read.
Position ==
  IF pc = "read"
  THEN /\ Len(read) <= Len(sent)
       /\ \A i \in 1..Len(read) : read[i] = Read(i)
       /\ start = IF Len(read) < Len(sent) THEN sent[Len(read) + 1].at ELSE Len(wire)
  ELSE read = << >>

\* The one assertion that may have failed.
NoOtherAbort == aborted \in {"no", "payload"}

IInv == TypeOK /\ NoOtherAbort /\ Layout /\ Position

\* The invariant implies what the runs check.
LEMMA ReadsAll ==
  ASSUME IInv
  PROVE  RoundTrip
  <1> SUFFICES ASSUME pc = "read"
               PROVE  msg_iter_has_msg <=> Len(read) < Len(sent)
    BY DEF IInv, RoundTrip, Position
  <1>1. /\ Len(read) <= Len(sent) /\ Len(read) \in Nat /\ Len(sent) \in Nat
        /\ start = IF Len(read) < Len(sent) THEN sent[Len(read) + 1].at ELSE Len(wire)
        /\ Len(wire) \in Nat
    BY DEF IInv, Position, TypeOK
  <1>2. CASE Len(read) < Len(sent)
    <2> DEFINE i == Len(read) + 1
               e == Encoded(sent[i].id, sent[i].msg)
    <2>1. i \in 1..Len(sent) /\ start = sent[i].at
      BY <1>1, <1>2
    <2>2. /\ sent[i].id \in Uint16 /\ sent[i].msg \in Messages /\ sent[i].at \in 0 .. Len(wire)
          /\ i < Len(sent) => sent[i + 1].at \in 0 .. Len(wire)
      <3>1. \A k \in 1..Len(sent) : sent[k] \in SentMessages
        BY Elements DEF IInv, TypeOK
      <3>2. i < Len(sent) => i + 1 \in 1..Len(sent)
        BY <1>1, <2>1
      <3> QED BY <2>1, <3>1, <3>2 DEF SentMessages
    <2>3. /\ Len(Payload(sent[i].msg)) <= max_payload_len
          /\ sent[i].at + Len(e) = IF i = Len(sent) THEN Len(wire) ELSE sent[i + 1].at
      BY <2>1 DEF IInv, Layout, Placed
    <2>4. Len(e) \in Nat /\ Len(e) >= 5
      BY <2>2, <2>3, EncodedFields, PayloadType
    <2> QED BY <1>1, <1>2, <2>1, <2>2, <2>3, <2>4 DEF msg_iter_has_msg
  <1>3. CASE Len(read) = Len(sent)
    BY <1>1, <1>3 DEF msg_iter_has_msg
  <1> QED BY <1>1, <1>2, <1>3

\* A fresh builder satisfies the invariant.
LEMMA Starts == Init => IInv
  <1> SUFFICES ASSUME Init PROVE IInv
    OBVIOUS
  <1> USE DEF Init, msg_builder_init
  <1>1. mem_block_alloc(InitialCapacity) \in [data : Seq(Cell), size : Nat]
    BY CodecAssumption DEF mem_block_alloc, Cell
  <1>2. msg_buf.size <= Len(msg_buf.data)
    <2>1. msg_buf.size = 0
      BY DEF mem_block_alloc
    <2>2. Len(msg_buf.data) \in Nat
      BY <1>1
    <2> QED BY <2>1, <2>2
  <1>3. next_msg_id \in Uint16
    <2>1. Base * Base \in Nat /\ Base * Base > 0
      BY CodecAssumption
    <2> QED BY <2>1 DEF Uint16
  <1>4. TypeOK
    BY <1>1, <1>2, <1>3 DEF TypeOK
  <1> QED BY <1>4 DEF IInv, NoOtherAbort, Layout, Position

\* What the iterator reads back is again a message.
LEMMA MessagesReadBack == Messages \subseteq ReadMessages
  BY CodecAssumption DEF Messages, ReadMessages

\* A message more on the wire.
LEMMA BuildKeeps ==
  ASSUME IInv, NEW m \in Messages, build(m)
  PROVE  IInv'
  <1> DEFINE len == Len(Payload(m))
             block == mem_block_resize(msg_buf, header_len + len)
             e == Encoded(next_msg_id, m)
             data == Overwritten(block.data, e)
             new == [id |-> next_msg_id, msg |-> m, at |-> Len(wire)]
  <1>0. TypeOK /\ NoOtherAbort /\ Layout /\ Position
    BY DEF IInv
  <1>1. len \in Nat
    BY PayloadType
  <1>2. CASE len > max_payload_len
    <2>1. /\ aborted' = "payload"
          /\ UNCHANGED <<pc, msg_buf, next_msg_id, wire, sent, start, read, big_endian>>
      BY <1>1, <1>2, CodecAssumption DEF build, Abort, max_payload_len
    <2> QED BY <1>0, <2>1 DEF IInv, TypeOK, NoOtherAbort, Layout, Placed, Position, Read, SentMessages
  <1>3. CASE len <= max_payload_len
    <2>1. /\ set_ok(block, len)
          /\ data \in Seq(Cell)
          /\ [block EXCEPT !.data = data] = [data |-> data, size |-> header_len + len]
          /\ header_len + len \in 0 .. Len(data)
          /\ SubSeq(data, 1, block.size) = e
      BY <1>0, <1>3, Built
    <2>2. ~(len > max_payload_len)
      BY <1>1, <1>3, CodecAssumption DEF max_payload_len
    <2>3. /\ msg_buf' = [block EXCEPT !.data = data]
          /\ next_msg_id' = NextId
          /\ wire' = wire \o SubSeq(data, 1, block.size)
          /\ sent' = Append(sent, new)
          /\ pc = "build"
          /\ UNCHANGED <<pc, start, read, aborted, big_endian>>
      BY <2>1, <2>2 DEF build
    <2>4. e \in Seq(Byte) /\ Len(e) \in Nat /\ Len(e) = 5 + len
      BY <1>0, <1>1, <1>3, EncodedFields DEF TypeOK
    <2>5. msg_buf' = [data |-> data, size |-> header_len + len] /\ wire' = wire \o e
      BY <2>1, <2>3
    <2> HIDE DEF e, data, block, len
    <2>6. wire \in Seq(Byte) /\ sent \in Seq(SentMessages) /\ next_msg_id \in Uint16
      BY <1>0 DEF TypeOK
    <2>7. /\ wire' \in Seq(Byte)
          /\ Len(wire) \in Nat
          /\ Len(wire') = Len(wire) + Len(e)
          /\ \A i \in 1 .. Len(wire) + Len(e) :
               wire'[i] = IF i <= Len(wire) THEN wire[i] ELSE e[i - Len(wire)]
      BY <2>4, <2>5, <2>6, Joined
    <2>8. /\ Len(sent) \in Nat /\ Len(sent') = Len(sent) + 1
          /\ \A i \in 1..Len(sent) : sent'[i] = sent[i] /\ sent[i] \in SentMessages
          /\ sent'[Len(sent) + 1] = new
      <3>1. Len(sent) \in Nat /\ \A i \in 1..Len(sent) : sent[i] \in SentMessages
        BY <2>6, Elements
      <3>2. /\ Len(sent') = Len(sent) + 1 /\ sent'[Len(sent) + 1] = new
            /\ \A i \in 1..Len(sent) : sent'[i] = sent[i]
        BY <2>3, <2>6
      <3> QED BY <3>1, <3>2
    <2>9. SentMessages \subseteq SentMessages' /\ new \in SentMessages'
      <3>1. new \in [id : Uint16, msg : Messages, at : 0 .. Len(wire')]
        BY <2>4, <2>6, <2>7
      <3>2. 0 .. Len(wire) \subseteq 0 .. Len(wire')
        BY <2>4, <2>7
      <3> QED BY <3>1, <3>2 DEF SentMessages
    <2>10. TypeOK'
      <3>1. sent' \in Seq(SentMessages')
        <4>1. sent \in Seq(SentMessages')
          BY <2>6, <2>9
        <4> HIDE DEF new
        <4> QED BY <2>3, <2>9, <4>1
      <3>2. next_msg_id' \in Uint16
        <4>1. Base * Base \in Nat /\ Base * Base > 0
          BY CodecAssumption
        <4> QED BY <2>3, <2>6, <4>1 DEF NextId, Uint16
      <3>3. msg_buf' \in [data : Seq(Cell), size : Nat] /\ msg_buf'.size <= Len(msg_buf'.data)
        BY <2>1, <2>5
      <3> QED BY <1>0, <2>3, <2>7, <3>1, <3>2, <3>3 DEF TypeOK
    <2>11. Layout'
      <3>1. Len(sent) > 0 => sent'[1].at = 0
        BY <1>0, <2>8 DEF Layout
      <3>2. Len(sent) = 0 => sent'[1].at = 0
        <4>1. Len(sent) = 0 => wire = << >>
          BY <1>0, <2>6 DEF Layout
        <4> QED BY <2>8, <4>1
      <3>3. ASSUME NEW i \in 1..Len(sent')
            PROVE  Placed(i)'
        <4> SUFFICES LET d == Encoded(sent'[i].id, sent'[i].msg)
                     IN  /\ Len(Payload(sent'[i].msg)) <= max_payload_len
                         /\ sent'[i].at + Len(d) = IF i = Len(sent') THEN Len(wire') ELSE sent'[i + 1].at
                         /\ \A j \in 1..Len(d) : wire'[sent'[i].at + j] = d[j]
          BY DEF Placed
        <4>1. CASE i \in 1..Len(sent)
          <5> DEFINE d == Encoded(sent[i].id, sent[i].msg)
          <5>1. /\ Len(Payload(sent[i].msg)) <= max_payload_len
                /\ sent[i].at + Len(d) = IF i = Len(sent) THEN Len(wire) ELSE sent[i + 1].at
                /\ \A j \in 1..Len(d) : wire[sent[i].at + j] = d[j]
            BY <1>0, <4>1 DEF Layout, Placed
          <5>2. sent'[i] = sent[i] /\ sent[i] \in SentMessages
            BY <2>8, <4>1
          <5>3. sent[i].id \in Uint16 /\ sent[i].msg \in Messages /\ sent[i].at \in 0 .. Len(wire)
            BY <5>2 DEF SentMessages
          <5>4. d \in Seq(Byte) /\ Len(d) \in Nat
            BY <5>1, <5>3, EncodedFields
          <5> HIDE DEF d
          <5>5. sent'[i].at + Len(d) = IF i = Len(sent') THEN Len(wire') ELSE sent'[i + 1].at
            <6>1. CASE i = Len(sent)
              BY <2>8, <5>1, <5>2, <6>1
            <6>2. CASE i < Len(sent)
              <7>1. i + 1 \in 1..Len(sent) /\ i # Len(sent') /\ i # Len(sent)
                BY <2>8, <4>1, <6>2
              <7> QED BY <2>8, <5>1, <5>2, <7>1
            <6> QED BY <2>8, <4>1, <6>1, <6>2
          <5>6. sent[i].at + Len(d) <= Len(wire)
            <6>1. i < Len(sent) => sent[i + 1].at \in 0 .. Len(wire)
              <7>1. i < Len(sent) => i + 1 \in 1..Len(sent)
                BY <2>8, <4>1
              <7> QED BY <2>8, <7>1 DEF SentMessages
            <6> QED BY <2>7, <2>8, <4>1, <5>1, <6>1
          <5>7. \A j \in 1..Len(d) : wire'[sent[i].at + j] = d[j]
            <6> SUFFICES ASSUME NEW j \in 1..Len(d) PROVE wire'[sent[i].at + j] = d[j]
              OBVIOUS
            <6> DEFINE k == sent[i].at + j
            <6>1. k \in 1 .. Len(wire) + Len(e) /\ k <= Len(wire)
              BY <2>4, <2>7, <5>3, <5>4, <5>6, SMTT(60)
            <6>2. wire[k] = d[j]
              BY <5>1
            <6> HIDE DEF k
            <6>3. wire'[k] = wire[k]
              BY <2>7, <6>1
            <6> QED BY <6>2, <6>3 DEF k
          <5> QED BY <5>1, <5>2, <5>5, <5>7 DEF d
        <4>2. CASE i = Len(sent')
          <5>1. sent'[i] = new
            BY <2>8, <4>2
          <5>2. Encoded(sent'[i].id, sent'[i].msg) = e /\ sent'[i].msg = m /\ sent'[i].at = Len(wire)
            BY <5>1 DEF e
          <5>3. \A j \in 1..Len(e) : wire'[Len(wire) + j] = e[j]
            BY <2>4, <2>7
          <5>4. Len(Payload(m)) <= max_payload_len
            BY <1>3 DEF len
          <5> QED BY <2>7, <4>2, <5>2, <5>3, <5>4
        <4> QED BY <2>8, <4>1, <4>2
      <3>4. sent' # << >>
        BY <2>8
      <3>5. sent'[1].at = 0
        BY <2>8, <3>1, <3>2
      <3>6. \A i \in 1..Len(sent') : Placed(i)'
        BY <3>3
      <3> QED BY <3>4, <3>5, <3>6 DEF Layout
    <2>12. Position' /\ NoOtherAbort'
      BY <1>0, <2>3 DEF Position, NoOtherAbort
    <2> QED BY <2>10, <2>11, <2>12 DEF IInv
  <1> QED BY <1>1, <1>2, <1>3, CodecAssumption DEF max_payload_len

\* A message more read.
LEMMA ReadKeeps ==
  ASSUME IInv, msg_iter_next
  PROVE  IInv'
  <1> DEFINE i == Len(read) + 1
             e == Encoded(sent[i].id, sent[i].msg)
             found == [id |-> msg_iter_msg_id, msg |-> msg_iter_msg]
  <1>0. TypeOK /\ NoOtherAbort /\ Layout /\ Position
    BY DEF IInv
  <1>1. /\ pc = "read" /\ aborted = "no" /\ msg_iter_has_msg
        /\ read' = Append(read, found)
        /\ aborted' = IF msg_iter_msg.type = "unknown" THEN "iter" ELSE "no"
        /\ start' = start + header_len + msg_iter_payload_length
        /\ UNCHANGED <<pc, msg_buf, next_msg_id, wire, sent, big_endian>>
    BY DEF msg_iter_next
  <1>2. Len(read) < Len(sent)
    BY <1>1, ReadsAll DEF RoundTrip
  <1>3. /\ Len(sent) \in Nat /\ Len(read) \in Nat /\ Len(wire) \in Nat
        /\ \A k \in 1..Len(sent) : sent[k] \in SentMessages
    BY <1>0, Elements DEF TypeOK
  <1>4. i \in 1..Len(sent) /\ start = sent[i].at
    BY <1>0, <1>1, <1>2, <1>3 DEF Position
  <1>5. sent[i].id \in Uint16 /\ sent[i].msg \in Messages /\ sent[i].at \in 0 .. Len(wire)
    BY <1>3, <1>4 DEF SentMessages
  <1>6. /\ Len(Payload(sent[i].msg)) <= max_payload_len
        /\ sent[i].at + Len(e) = IF i = Len(sent) THEN Len(wire) ELSE sent[i + 1].at
        /\ \A j \in 1..Len(e) : wire[sent[i].at + j] = e[j]
    BY <1>0, <1>4 DEF Layout, Placed
  <1>7. Len(Payload(sent[i].msg)) \in Nat /\ Len(e) = 5 + Len(Payload(sent[i].msg))
    BY <1>5, <1>6, EncodedFields, PayloadType
  <1>8. sent[i].at + Len(e) <= Len(wire)
    <2>1. i < Len(sent) => sent[i + 1].at \in 0 .. Len(wire)
      <3>1. i < Len(sent) => i + 1 \in 1..Len(sent)
        BY <1>3, <1>4
      <3> QED BY <1>3, <3>1 DEF SentMessages
    <2> QED BY <1>3, <1>4, <1>6, <2>1
  <1>9. /\ msg_iter_msg_id = sent[i].id
        /\ msg_iter_payload_length = Len(Payload(sent[i].msg))
        /\ msg_iter_msg = sent[i].msg
    <2>1. wire \in Seq(Byte) /\ start \in Nat /\ big_endian \in BOOLEAN
      BY <1>0 DEF TypeOK
    <2> QED BY <1>4, <1>5, <1>6, <1>8, <2>1, ReadBack
  <1>10. found = Read(i)
    BY <1>9 DEF Read
  <1>11. start' = sent[i].at + Len(e)
    <2> DEFINE n == Len(Payload(sent[i].msg))
    <2>1. n \in Nat /\ Len(e) = 5 + n
      BY <1>7
    <2>2. start' = start + 5 + n
      BY <1>1, <1>9 DEF header_len
    <2>3. start = sent[i].at /\ sent[i].at \in Nat
      BY <1>3, <1>4, <1>5
    <2> HIDE DEF e, n
    <2> QED BY <2>1, <2>2, <2>3
  <1>12. aborted' = "no"
    <2>1. sent[i].msg.type # "unknown"
      BY <1>5 DEF Messages
    <2> QED BY <1>1, <1>9, <2>1
  <1>13. found \in [id : Uint16, msg : ReadMessages]
    BY <1>5, <1>9, MessagesReadBack
  <1> HIDE DEF found, e
  <1>14. /\ read' \in Seq([id : Uint16, msg : ReadMessages])
         /\ Len(read') = Len(read) + 1
         /\ read'[i] = found
         /\ \A k \in 1..Len(read) : read'[k] = read[k]
    <2> DEFINE S == [id : Uint16, msg : ReadMessages]
    <2>1. read \in Seq(S) /\ found \in S
      BY <1>0, <1>13 DEF TypeOK
    <2> HIDE DEF S
    <2>2. /\ read' \in Seq(S) /\ Len(read') = Len(read) + 1
          /\ read'[Len(read) + 1] = found
          /\ \A k \in 1..Len(read) : read'[k] = read[k]
      BY <1>1, <2>1, AppendProperties
    <2> QED BY <2>2 DEF S
  <1>15. TypeOK'
    <2>1. start' \in Nat
      BY <1>3, <1>5, <1>7, <1>11
    <2> QED BY <1>0, <1>1, <1>12, <1>14, <2>1 DEF TypeOK, SentMessages
  <1>16. Layout' /\ NoOtherAbort'
    BY <1>0, <1>1, <1>12 DEF Layout, Placed, NoOtherAbort
  <1>17. Position'
    <2>1. Len(read') <= Len(sent')
      BY <1>1, <1>2, <1>3, <1>14
    <2>2. \A k \in 1..Len(read') : read'[k] = Read(k)'
      <3> SUFFICES ASSUME NEW k \in 1..Len(read') PROVE read'[k] = Read(k)'
        OBVIOUS
      <3>1. Read(k)' = Read(k)
        BY <1>1 DEF Read
      <3>2. CASE k \in 1..Len(read)
        BY <1>0, <1>1, <1>14, <3>1, <3>2 DEF Position
      <3>3. CASE k = Len(read) + 1
        BY <1>10, <1>14, <3>1, <3>3
      <3> QED BY <1>3, <1>14, <3>2, <3>3
    <2>3. start' = IF Len(read') < Len(sent') THEN sent'[Len(read') + 1].at ELSE Len(wire')
      BY <1>1, <1>3, <1>4, <1>6, <1>11, <1>14
    <2> QED BY <1>1, <2>1, <2>2, <2>3 DEF Position
  <1> QED BY <1>15, <1>16, <1>17 DEF IInv

\* Every step keeps the invariant.
LEMMA StepKeeps == IInv /\ [Next]_vars => IInv'
  <1> SUFFICES ASSUME IInv, [Next]_vars PROVE IInv'
    OBVIOUS
  <1>0. TypeOK /\ NoOtherAbort /\ Layout /\ Position
    BY DEF IInv
  <1>1. CASE \E m \in Messages : build(m)
    BY <1>1, BuildKeeps
  <1>2. CASE msg_builder_free
    <2>1. [data |-> << >>, size |-> 0] \in [data : Seq(Cell), size : Nat]
      OBVIOUS
    <2>2. msg_buf' \in [data : Seq(Cell), size : Nat] /\ msg_buf'.size <= Len(msg_buf'.data)
      BY <1>0, <1>2, <2>1 DEF msg_builder_free, TypeOK
    <2>3. TypeOK'
      BY <1>0, <1>2, <2>2 DEF msg_builder_free, TypeOK, SentMessages
    <2> QED BY <1>0, <1>2, <2>3 DEF msg_builder_free, IInv, NoOtherAbort, Layout, Placed, Position
  <1>3. CASE msg_iter_make
    <2>1. TypeOK'
      BY <1>0, <1>3 DEF msg_iter_make, TypeOK, SentMessages
    <2>2. Layout' /\ NoOtherAbort'
      BY <1>0, <1>3 DEF msg_iter_make, Layout, Placed, NoOtherAbort
    <2>3. Len(sent) > 0 /\ sent[1].at = 0
      BY <1>0, <1>3 DEF msg_iter_make, Layout, TypeOK
    <2>4. Position'
      BY <1>0, <1>3, <2>3 DEF msg_iter_make, Position, TypeOK
    <2> QED BY <2>1, <2>2, <2>4 DEF IInv
  <1>4. CASE msg_iter_next
    BY <1>4, ReadKeeps
  <1>5. CASE msg_iter_end
    <2>1. TypeOK'
      BY <1>0, <1>5 DEF msg_iter_end, TypeOK, SentMessages
    <2> QED BY <1>0, <1>5, <2>1 DEF msg_iter_end, IInv, NoOtherAbort, Layout, Position
  <1>6. CASE UNCHANGED vars
    BY <1>0, <1>6 DEF vars, IInv, TypeOK, SentMessages, NoOtherAbort, Layout, Placed, Position, Read
  <1> QED BY <1>1, <1>2, <1>3, <1>4, <1>5, <1>6 DEF Next

-----------------------------------------------------------------------------
\* For every width of a byte, every initial capacity, all frames and both byte
\* orders: the types of the codec are kept.
THEOREM TypeCorrect == Spec => []TypeOK
  <1>1. IInv => TypeOK
    BY DEF IInv
  <1> QED BY <1>1, Starts, StepKeeps, PTL DEF Spec

\* The iterator of iter.c finds exactly the messages builder.c assembled.
THEOREM CodecRoundTrip == Spec => []RoundTrip
  <1>1. IInv => RoundTrip
    BY ReadsAll
  <1> QED BY <1>1, Starts, StepKeeps, PTL DEF Spec

\* Of the messages only ENQUEUE may be too long.
LEMMA LongPayloads ==
  ASSUME NEW m \in Messages, Len(Payload(m)) > max_payload_len
  PROVE  m.type = "ENQUEUE" /\ Len(m.frame) > max_payload_len - 3
  <1>1. max_payload_len \in Int /\ max_payload_len >= 3
    <2>1. Base * Base >= 4 * Base
      BY CodecAssumption
    <2> QED BY <2>1, CodecAssumption DEF max_payload_len
  <1>2. CASE m \in [type : {"ENQUEUE"}, frame_idx : ByteValues, frame : Frames]
    <2>1. /\ m.type = "ENQUEUE" /\ m.frame_idx \in Byte
          /\ m.frame \in Seq(Byte) /\ Len(m.frame) \in Nat
      BY <1>2, CodecAssumption
    <2>2. Len(Payload(m)) = 3 + Len(m.frame)
      BY <2>1, EnqueuePayload DEF Payload
    <2> QED BY <1>1, <2>1, <2>2
  <1>3. CASE m \in [type : {"FAIL"}, causing_message_id : CausingIds, error_code : ByteValues]
    BY <1>1, <1>3 DEF Payload, mem_uint16_bytes
  <1>4. CASE m \in [type : {"LENT"}]
    BY <1>1, <1>4 DEF Payload
  <1>5. CASE m \in [type : {"BORROW"}, frame_length : ByteValues, buffer_length : ByteValues]
    BY <1>1, <1>5 DEF Payload
  <1> QED BY <1>2, <1>3, <1>4, <1>5 DEF Messages

\* No assertion but the one on the length of a payload (builder.c:63) ever
\* fails, and that one only for a frame of more than 65532 bytes.
THEOREM OnlyLengthAborts == Spec => OnlyLongFramesAbort
  <1> DEFINE Long(m) ==
        build(m) /\ m.type = "ENQUEUE" /\ Len(m.frame) > max_payload_len - 3
  <1>1. ASSUME IInv, Next, aborted' # "no" PROVE \E m \in Messages : Long(m)
    <2>1. ASSUME NEW m \in Messages, build(m) PROVE Long(m)
      <3> DEFINE len == Len(Payload(m))
      <3>1. len \in Nat /\ max_payload_len \in Int
        BY PayloadType, CodecAssumption DEF max_payload_len
      <3>2. CASE len <= max_payload_len
        <4>1. set_ok(mem_block_resize(msg_buf, header_len + len), len)
          BY <1>1, <3>2, Built DEF IInv
        <4>2. ~(len > max_payload_len)
          BY <3>1, <3>2
        <4>3. aborted = "no" /\ UNCHANGED aborted
          BY <2>1, <4>1, <4>2 DEF build
        <4> QED BY <1>1, <4>3
      <3>3. CASE len > max_payload_len
        BY <2>1, <3>3, LongPayloads
      <3> QED BY <3>1, <3>2, <3>3
    <2>2. ASSUME msg_iter_next PROVE FALSE
      <3>1. aborted' \in {"no", "iter"}
        BY <2>2 DEF msg_iter_next
      <3>2. aborted' \in {"no", "payload"}
        BY <1>1, <2>2, ReadKeeps DEF IInv, NoOtherAbort
      <3> QED BY <1>1, <3>1, <3>2
    <2>3. ASSUME msg_builder_free \/ msg_iter_make \/ msg_iter_end PROVE FALSE
      BY <1>1, <2>3 DEF msg_builder_free, msg_iter_make, msg_iter_end
    <2> QED BY <1>1, <2>1, <2>2, <2>3 DEF Next
  <1>2. IInv /\ [Next]_vars => [aborted' # "no" => \E m \in Messages : Long(m)]_vars
    BY <1>1
  <1> QED BY <1>2, Starts, StepKeeps, PTL DEF Spec, OnlyLongFramesAbort

-----------------------------------------------------------------------------
(***************************************************************************)
(* From the frame read to the lights.  fill_with_pattern is a loop, here a *)
(* recursive function.  What it computes is shown by induction on the      *)
(* bytes left to fill, which rests on the order of the natural numbers     *)
(* being well-founded: a set of them has a least element.                  *)
(***************************************************************************)

LEMMA LeastNumber ==
  ASSUME NEW T, T \subseteq Nat, T # {}
  PROVE  \E x \in T : \A y \in T : x <= y
  <1>1. IsWellFoundedOn(OpToRel(<, Nat), Nat)
    BY NatLessThanWellFounded
  <1>2. \E x \in T : \A y \in T : ~ (<<y, x>> \in OpToRel(<, Nat))
    BY <1>1, WFMin
  <1>3. \A p : p \in OpToRel(<, Nat) <=> p \in Nat \X Nat /\ p[1] < p[2]
    BY Zenon DEF OpToRel
  <1>4. \E R : /\ \A p : p \in R <=> p \in Nat \X Nat /\ p[1] < p[2]
               /\ \E x \in T : \A y \in T : ~ (<<y, x>> \in R)
    BY <1>2, <1>3, Zenon
  <1>5. PICK R : /\ \A p : p \in R <=> p \in Nat \X Nat /\ p[1] < p[2]
                 /\ \E x \in T : \A y \in T : ~ (<<y, x>> \in R)
    BY <1>4, Zenon
  <1>6. \A x, y \in Nat : <<y, x>> \in R <=> y < x
    BY <1>5
  <1>7. \A x, y \in Nat : ~ (y < x) => x <= y
    OBVIOUS
  <1> QED BY <1>5, <1>6, <1>7

-----------------------------------------------------------------------------
(* Remainders. *)

LEMMA Remainder ==
  ASSUME NEW d \in Nat \ {0}, NEW q \in Nat, NEW r \in 0 .. d - 1
  PROVE  (d * q + r) % d = r
  OBVIOUS

LEMMA Parts ==
  ASSUME NEW d \in Nat \ {0}, NEW a \in Nat
  PROVE  /\ (a \div d) \in Nat
         /\ (a % d) \in 0 .. d - 1
         /\ a = d * (a \div d) + (a % d)
  <1>1. a \div d \in Nat
    OBVIOUS
  <1>2. (a % d) \in 0 .. d - 1
    OBVIOUS
  <1>3. a = d * (a \div d) + (a % d)
    OBVIOUS
  <1> QED BY <1>1, <1>2, <1>3

\* A whole period makes no difference.
LEMMA Periodic ==
  ASSUME NEW d \in Nat \ {0}, NEW a \in Nat, a >= d
  PROVE  (a - d) % d = a % d
  <1> DEFINE q == a \div d
             r == a % d
  <1>1. q \in Nat /\ r \in 0 .. d - 1 /\ a = d * q + r
    BY Parts
  <1> HIDE DEF q, r
  <1>2. q # 0
    BY <1>1
  <1>3. q - 1 \in Nat /\ d * (q - 1) = d * q - d
    BY <1>1, <1>2
  <1>4. a - d = d * (q - 1) + r
    BY <1>1, <1>3
  <1> QED BY <1>1, <1>3, <1>4, Remainder DEF r

\* Whole colours stay whole: channel c of the a-th colour of a pattern of b.
LEMMA Triples ==
  ASSUME NEW a \in Nat, NEW b \in Nat \ {0}, NEW c \in 0 .. 2
  PROVE  (3 * a + c) % (3 * b) = 3 * (a % b) + c
  <1> DEFINE q == a \div b
             r == a % b
             n == 3 * b
             s == 3 * r + c
  <1>1. q \in Nat /\ r \in 0 .. b - 1 /\ a = b * q + r
    BY Parts
  <1>2. n \in Nat \ {0}
    OBVIOUS
  <1> HIDE DEF q, r
  <1>3. s \in 0 .. n - 1
    BY <1>1
  <1>4. 3 * (b * q) = n * q
    BY <1>1
  <1>5. b * q \in Nat /\ n * q \in Nat
    BY <1>1, <1>2
  <1>6. 3 * (b * q + r) = 3 * (b * q) + 3 * r
    BY <1>1, <1>5
  <1>7. 3 * a + c = n * q + s
    BY <1>1, <1>4, <1>5, <1>6
  <1> HIDE DEF n, s
  <1>8. (3 * a + c) % n = s
    BY <1>1, <1>2, <1>3, <1>7, Remainder
  <1> QED BY <1>8 DEF n, s, r

-----------------------------------------------------------------------------
(* The loop of fill_with_pattern. *)

\* The first n bytes of a pattern without end.
Repeated(pattern, n) == [i \in 1 .. n |-> pattern[((i - 1) % Len(pattern)) + 1]]

\* One turn of the loop, with n bytes left, makes what the loop should.
LEMMA OneTurn ==
  ASSUME NEW S, NEW pattern \in Seq(S), Len(pattern) > 0, NEW n \in Nat
  PROVE  Repeated(pattern, n) =
           IF Len(pattern) >= n THEN SubSeq(pattern, 1, n)
           ELSE pattern \o Repeated(pattern, n - Len(pattern))
  <1> DEFINE P == Len(pattern)
  <1>0. P \in Nat \ {0} /\ DOMAIN pattern = 1 .. P
    OBVIOUS
  <1>1. CASE P >= n
    <2>1. ASSUME NEW i \in 1 .. n PROVE (i - 1) % P = i - 1
      BY <1>0, <1>1
    <2>2. Repeated(pattern, n) = [i \in 1 .. n |-> pattern[i]]
      BY <2>1 DEF Repeated
    <2>3. SubSeq(pattern, 1, n) = [i \in 1 .. n |-> pattern[i]]
      BY <1>0, <1>1
    <2> QED BY <1>1, <2>2, <2>3
  <1>2. CASE ~ (P >= n)
    <2> DEFINE m == n - P
               tail == Repeated(pattern, m)
    <2>1. m \in Nat /\ n = P + m
      BY <1>0, <1>2
    <2> HIDE DEF P, m
    <2>2. ASSUME NEW i \in 1 .. m PROVE pattern[((i - 1) % P) + 1] \in S
      <3>1. i - 1 \in Nat
        BY <2>1
      <3>2. (i - 1) % P \in 0 .. P - 1
        BY <1>0, <3>1, Parts
      <3> QED BY <1>0, <3>2 DEF P
    <2>3. tail \in Seq(S) /\ Len(tail) = m /\ \A i \in 1 .. m : tail[i] = pattern[((i - 1) % P) + 1]
      <3>1. tail = [i \in 1 .. m |-> pattern[((i - 1) % P) + 1]]
        BY DEF Repeated, P
      <3>2. tail \in [1 .. m -> S]
        BY <2>2, <3>1
      <3>3. \A k \in Nat : [1 .. k -> S] \subseteq Seq(S)
        OBVIOUS
      <3> QED BY <2>1, <3>1, <3>2, <3>3
    <2> HIDE DEF tail
    <2>4. /\ pattern \o tail \in Seq(S) /\ Len(pattern \o tail) = n
          /\ \A i \in 1 .. n : (pattern \o tail)[i] = IF i <= P THEN pattern[i] ELSE tail[i - P]
      BY <1>0, <2>1, <2>3, ConcatProperties DEF P
    <2>5. ASSUME NEW i \in 1 .. n
          PROVE  (pattern \o tail)[i] = pattern[((i - 1) % P) + 1]
      <3>1. CASE i <= P
        <4>1. (i - 1) % P = i - 1
          BY <1>0, <3>1
        <4> QED BY <2>4, <3>1, <4>1
      <3>2. CASE i > P
        <4>1. i - P \in 1 .. m /\ i - 1 \in Nat /\ i - 1 >= P
          BY <1>0, <2>1, <3>2
        <4>2. ((i - 1) - P) % P = (i - 1) % P
          BY <1>0, <4>1, Periodic
        <4>3. (i - P) - 1 = (i - 1) - P
          BY <1>0
        <4>4. tail[i - P] = pattern[(((i - P) - 1) % P) + 1]
          BY <2>3, <4>1, Zenon
        <4>5. ~ (i <= P)
          BY <1>0, <3>2
        <4>6. (pattern \o tail)[i] = tail[i - P]
          BY <2>4, <4>5, Zenon
        <4> QED BY <4>2, <4>3, <4>4, <4>6, Zenon
      <3>3. i <= P \/ i > P
        BY <1>0
      <3> QED BY <3>1, <3>2, <3>3
    <2>6. \A w \in Seq(S) : w = [i \in 1 .. Len(w) |-> w[i]]
      OBVIOUS
    <2>7. pattern \o tail = [i \in 1 .. n |-> (pattern \o tail)[i]]
      BY <2>4, <2>6
    <2>8. Repeated(pattern, n) = pattern \o tail
      BY <2>5, <2>7 DEF Repeated, P
    <2> QED BY <1>2, <2>8 DEF tail, m, P
  <1> QED BY <1>1, <1>2

\* The loop, however many turns it takes.
LEMMA FillRepeats ==
  ASSUME NEW S, NEW pattern \in Seq(S), Len(pattern) > 0, NEW target, Len(target) \in Nat
  PROVE  fill_with_pattern(target, pattern) = Repeated(pattern, Len(target))
  <1> DEFINE L == Len(target)
             P == Len(pattern)
             Turn(f, n) == IF P >= n THEN SubSeq(pattern, 1, n) ELSE pattern \o f[n - P]
             good == [n \in 0 .. L |-> Repeated(pattern, n)]
             fill == CHOOSE f : f = [n \in 0 .. L |-> Turn(f, n)]
  <1>0. P \in Nat \ {0} /\ L \in Nat /\ pattern # << >>
    OBVIOUS
  <1>1. good = [n \in 0 .. L |-> Turn(good, n)]
    <2>1. ASSUME NEW n \in 0 .. L PROVE Repeated(pattern, n) = Turn(good, n)
      <3>1. ~ (P >= n) => n - P \in 0 .. L
        BY <1>0
      <3>2. ~ (P >= n) => good[n - P] = Repeated(pattern, n - P)
        BY <3>1
      <3>3. n \in Nat
        BY <1>0
      <3>4. Repeated(pattern, n) = IF P >= n THEN SubSeq(pattern, 1, n)
                                   ELSE pattern \o Repeated(pattern, n - P)
        BY <1>0, <3>3, OneTurn
      <3> HIDE DEF good, P
      <3> QED BY <3>2, <3>4
    <2> HIDE DEF Turn
    <2> QED BY <2>1
  <1>2. fill = [n \in 0 .. L |-> Turn(fill, n)]
    <2>1. \E f : f = [n \in 0 .. L |-> Turn(f, n)]
      BY <1>1
    <2> QED BY <2>1
  <1>3. fill_with_pattern(target, pattern) = fill[L]
    BY <1>0 DEF fill_with_pattern
  <1> HIDE DEF fill
  <1>4. fill[L] = good[L]
    <2> DEFINE Wrong == {n \in 0 .. L : fill[n] # good[n]}
    <2>1. CASE Wrong = {}
      <3>1. L \in 0 .. L
        BY <1>0
      <3> HIDE DEF good, L
      <3> QED BY <2>1, <3>1
    <2>2. CASE Wrong # {}
      <3>1. PICK n \in Wrong : \A m \in Wrong : n <= m
        <4>1. Wrong \subseteq Nat
          BY <1>0
        <4> HIDE DEF Wrong
        <4> QED BY <2>2, <4>1, LeastNumber
      <3>2. fill[n] = Turn(fill, n) /\ good[n] = Turn(good, n) /\ n \in 0 .. L /\ fill[n] # good[n]
        <4> HIDE DEF Turn, good
        <4> QED BY <1>1, <1>2
      <3>3. ~ (P >= n)
        BY <3>2
      <3>4. n - P \in 0 .. L /\ n - P < n
        BY <1>0, <3>2, <3>3
      <3>5. fill[n - P] = good[n - P]
        BY <3>1, <3>4, <1>0
      <3> QED BY <3>2, <3>5
    <2> QED BY <2>1, <2>2
  <1> QED BY <1>0, <1>3, <1>4

-----------------------------------------------------------------------------
(* The colours of the lights. *)

\* Byte i of what the application shows.
LEMMA ShownBytes ==
  ASSUME NEW S, NEW frame \in Seq(S), Len(frame) > 0,
         NEW lights_count \in Nat \ {0}, NEW buffer, Len(buffer) \in Nat
  PROVE  Shown(frame, lights_count, buffer) =
           [i \in 1 .. Len(buffer) |->
              frame[(((i - 1) % (3 * lights_count)) % Len(frame)) + 1]]
  <1> DEFINE P == Len(frame)
             n == 3 * lights_count
             received_frame == [i \in 1 .. lights_count * color_channel_count |-> buffer[1]]
             received == Repeated(frame, n)
  <1>1. P \in Nat \ {0} /\ n \in Nat \ {0} /\ lights_count * color_channel_count = n
    BY DEF color_channel_count
  <1> HIDE DEF n
  <1>2. Len(received_frame) = n
    BY <1>1
  <1> HIDE DEF received_frame
  <1>3. fill_with_pattern(received_frame, frame) = received
    BY <1>1, <1>2, FillRepeats
  <1>4. \A a \in Nat : (a % P) + 1 \in 1 .. P
    <2> SUFFICES ASSUME NEW a \in Nat PROVE (a % P) + 1 \in 1 .. P
      OBVIOUS
    <2>1. (a % P) \in 0 .. P - 1
      BY <1>1, Parts
    <2> QED BY <1>1, <2>1
  <1>5. received \in Seq(S) /\ Len(received) = n
    <2> HIDE DEF P
    <2>1. ASSUME NEW i \in 1 .. n PROVE frame[((i - 1) % P) + 1] \in S
      <3>1. i - 1 \in Nat
        BY <1>1
      <3> QED BY <1>4, <3>1 DEF P
    <2>2. received = [i \in 1 .. n |-> frame[((i - 1) % P) + 1]]
      BY DEF Repeated, P
    <2>3. received \in [1 .. n -> S]
      BY <2>1, <2>2
    <2>4. \A k \in Nat : [1 .. k -> S] \subseteq Seq(S)
      OBVIOUS
    <2> QED BY <1>1, <2>2, <2>3, <2>4
  <1>6. fill_with_pattern(buffer, received) = Repeated(received, Len(buffer))
    <2> HIDE DEF received
    <2> QED BY <1>1, <1>5, FillRepeats
  <1>7. Shown(frame, lights_count, buffer) = Repeated(received, Len(buffer))
    BY <1>3, <1>6 DEF Shown, received_frame
  <1>8. ASSUME NEW i \in 1 .. Len(buffer)
        PROVE  received[((i - 1) % n) + 1] = frame[(((i - 1) % n) % P) + 1]
    <2> DEFINE j == (i - 1) % n
    <2>1. i - 1 \in Nat
      OBVIOUS
    <2>2. j \in 0 .. n - 1
      BY <1>1, <2>1, Parts
    <2> HIDE DEF j, P
    <2>3. received = [k \in 1 .. n |-> frame[((k - 1) % P) + 1]]
      BY DEF Repeated, P
    <2>4. j + 1 \in 1 .. n /\ (j + 1) - 1 = j
      BY <1>1, <2>2
    <2>5. received[j + 1] = frame[(j % P) + 1]
      BY <2>3, <2>4
    <2> QED BY <2>5 DEF j
  <1>9. Repeated(received, Len(buffer)) = [i \in 1 .. Len(buffer) |-> received[((i - 1) % n) + 1]]
    <2> HIDE DEF received
    <2> QED BY <1>5 DEF Repeated
  <1> HIDE DEF received
  <1> QED BY <1>7, <1>8, <1>9 DEF n

\* A colour is three bytes.
LEMMA ColourBytes ==
  ASSUME NEW S, NEW bytes \in Seq(S), NEW k \in Nat \ {0}, 3 * k <= Len(bytes)
  PROVE  Colour(bytes, k) = [c \in 1 .. 3 |-> bytes[3 * (k - 1) + c]]
  <1>1. /\ (k - 1) * color_channel_count + 1 = 3 * (k - 1) + 1
        /\ k * color_channel_count = 3 * (k - 1) + 3
    BY DEF color_channel_count
  <1> DEFINE b == 3 * (k - 1)
  <1>2. b \in Nat /\ b + 3 <= Len(bytes)
    OBVIOUS
  <1>3. Colour(bytes, k) = SubSeq(bytes, b + 1, b + 3)
    BY <1>1 DEF Colour
  <1> HIDE DEF b
  <1>4. SubSeq(bytes, b + 1, b + 3) = [c \in 1 .. 3 |-> bytes[b + c]]
    BY <1>2
  <1> QED BY <1>3, <1>4 DEF b

\* n whole colours and nothing else.
Whole(bytes, n) == Len(bytes) = 3 * n

\* Light k shows a whole colour of the frame: its own, as long as frame and
\* sink are long enough, or else that of the light a whole pattern before.
LEMMA ShownColours ==
  ASSUME NEW S, NEW f \in Nat \ {0}, NEW frame \in Seq(S), Whole(frame, f),
         NEW lights_count \in Nat \ {0},
         NEW w \in Nat, NEW buffer, Whole(buffer, w), NEW k \in 1 .. w
  PROVE  Colour(Shown(frame, lights_count, buffer), k)
           = Colour(frame, (((k - 1) % lights_count) % f) + 1)
  <1> DEFINE shown == Shown(frame, lights_count, buffer)
             a == (k - 1) % lights_count
             j == a % f
  <1>0. Len(frame) = 3 * f /\ Len(buffer) = 3 * w
    BY DEF Whole
  <1>1. k - 1 \in Nat
    OBVIOUS
  <1>2. a \in Nat
    BY <1>1, Parts
  <1> HIDE DEF a
  <1>3. j \in 0 .. f - 1
    BY <1>2, Parts
  <1> HIDE DEF j
  <1>4. Len(buffer) \in Nat /\ Len(frame) > 0
    BY <1>0
  <1>5. shown = [i \in 1 .. 3 * w |->
                   frame[(((i - 1) % (3 * lights_count)) % (3 * f)) + 1]]
    <2>1. shown = [i \in 1 .. Len(buffer) |->
                     frame[(((i - 1) % (3 * lights_count)) % Len(frame)) + 1]]
      BY <1>4, ShownBytes, SMTT(60)
    <2> HIDE DEF shown
    <2> QED BY <1>0, <2>1
  <1> HIDE DEF shown
  <1>6. ASSUME NEW c \in 1 .. 3
        PROVE  shown[3 * (k - 1) + c] = frame[3 * j + c]
    <2>1. c - 1 \in 0 .. 2
      OBVIOUS
    <2>2. (3 * (k - 1) + (c - 1)) % (3 * lights_count) = 3 * a + (c - 1)
      BY <1>1, <2>1, Triples DEF a
    <2>3. (3 * a + (c - 1)) % (3 * f) = 3 * j + (c - 1)
      BY <1>2, <2>1, Triples DEF j
    <2>4. 3 * (k - 1) + c \in 1 .. 3 * w
      OBVIOUS
    <2>5. (3 * (k - 1) + c) - 1 = 3 * (k - 1) + (c - 1)
      OBVIOUS
    <2>6. (3 * j + (c - 1)) + 1 = 3 * j + c
      BY <1>3
    <2>7. shown[3 * (k - 1) + c] =
            frame[((((3 * (k - 1) + c) - 1) % (3 * lights_count)) % (3 * f)) + 1]
      BY <1>5, <2>4
    <2> QED BY <2>2, <2>3, <2>5, <2>6, <2>7
  <1>7. Colour(frame, j + 1) = [c \in 1 .. 3 |-> frame[3 * j + c]]
    <2>1. j + 1 \in Nat \ {0} /\ 3 * (j + 1) <= Len(frame) /\ (j + 1) - 1 = j
      BY <1>0, <1>3
    <2>2. Colour(frame, j + 1) = [c \in 1 .. 3 |-> frame[3 * ((j + 1) - 1) + c]]
      BY <2>1, ColourBytes
    <2> QED BY <2>1, <2>2
  <1>8. Colour(shown, k) = [c \in 1 .. 3 |-> shown[3 * (k - 1) + c]]
    <2> DEFINE T == {shown[i] : i \in 1 .. 3 * w}
    <2>1. shown \in Seq(T) /\ Len(shown) = 3 * w
      <3>1. shown \in [1 .. 3 * w -> T] /\ Len(shown) = 3 * w
        BY <1>5
      <3> HIDE DEF T
      <3>2. 3 * w \in Nat /\ \A n \in Nat : [1 .. n -> T] \subseteq Seq(T)
        OBVIOUS
      <3> QED BY <3>1, <3>2
    <2>2. k \in Nat \ {0} /\ 3 * k <= Len(shown)
      BY <2>1
    <2> HIDE DEF T
    <2> QED BY <2>1, <2>2, ColourBytes
  <1> QED BY <1>6, <1>7, <1>8 DEF shown, a, j

\* What LightsShowColours says of one frame, one sink and one application.
ShowsColours(frame, source, lights_count, buffer) ==
  LET shown == Shown(frame, lights_count, buffer) IN
  /\ Len(shown) = Len(buffer)
  /\ \A k \in Colours(shown) :
       /\ \E j \in Colours(source) : Colour(shown, k) = Colour(source, j)
       /\ k \in Colours(source) /\ k <= lights_count =>
            Colour(shown, k) = Colour(source, k)

\* For every frame of whole colours, every sink and every application.
THEOREM LightsShow ==
  ASSUME NEW S, NEW frame \in Seq(S), frame # << >>, Len(frame) % 3 = 0,
         NEW lights_count \in Nat \ {0},
         NEW w \in Nat, NEW buffer, Len(buffer) = 3 * w
  PROVE  ShowsColours(frame, frame, lights_count, buffer)
  <1> DEFINE shown == Shown(frame, lights_count, buffer)
             f == Len(frame) \div 3
  <1>1. f \in Nat \ {0} /\ Len(frame) = 3 * f
    <2> DEFINE L == Len(frame)
    <2>1. L \in Nat /\ L > 0 /\ L % 3 = 0
      OBVIOUS
    <2> HIDE DEF L
    <2>2. L \div 3 \in Nat /\ L = 3 * (L \div 3) + (L % 3)
      BY <2>1, Parts
    <2>3. L \div 3 \in Nat \ {0} /\ L = 3 * (L \div 3)
      BY <2>1, <2>2
    <2> QED BY <2>3 DEF L
  <1>2. Colours(frame) = 1 .. f
    BY DEF Colours, color_channel_count
  <1> HIDE DEF f
  <1>3. Len(shown) = 3 * w
    <2>1. Len(buffer) \in Nat /\ Len(frame) > 0
      OBVIOUS
    <2>2. shown = [i \in 1 .. Len(buffer) |->
                     frame[(((i - 1) % (3 * lights_count)) % Len(frame)) + 1]]
      BY <2>1, ShownBytes
    <2> HIDE DEF shown
    <2> QED BY <2>1, <2>2
  <1>4. Colours(shown) = 1 .. w
    <2>1. (3 * w) \div 3 = w
      OBVIOUS
    <2> QED BY <1>3, <2>1 DEF Colours, color_channel_count
  <1>5. ASSUME NEW k \in 1 .. w
        PROVE  /\ \E j \in 1 .. f : Colour(shown, k) = Colour(frame, j)
               /\ k \in 1 .. f /\ k <= lights_count => Colour(shown, k) = Colour(frame, k)
    <2> DEFINE a == (k - 1) % lights_count
               j == a % f
    <2>1. Colour(Shown(frame, lights_count, buffer), k)
            = Colour(frame, (((k - 1) % lights_count) % f) + 1)
      <3>1. Whole(frame, f) /\ Whole(buffer, w)
        BY <1>1 DEF Whole
      <3> HIDE DEF shown, a
      <3> QED BY <1>1, <3>1, ShownColours
    <2>a. Colour(shown, k) = Colour(frame, j + 1)
      BY <2>1
    <2> HIDE DEF shown
    <2>2. a \in Nat
      BY Parts
    <2>3. j + 1 \in 1 .. f
      <3> HIDE DEF a
      <3>1. j \in 0 .. f - 1
        BY <1>1, <2>2, Parts
      <3> HIDE DEF j
      <3> QED BY <1>1, <3>1
    <2>4. k \in 1 .. f /\ k <= lights_count => j + 1 = k
      <3> SUFFICES ASSUME k \in 1 .. f, k <= lights_count PROVE j + 1 = k
        OBVIOUS
      <3>1. a = k - 1
        OBVIOUS
      <3>2. (k - 1) % f = k - 1
        BY <1>1
      <3> QED BY <3>1, <3>2
    <2> HIDE DEF j
    <2> QED BY <2>a, <2>3, <2>4
  <1> HIDE DEF shown
  <1>6. /\ Len(shown) = Len(buffer)
        /\ \A k \in Colours(shown) :
             /\ \E j \in Colours(frame) : Colour(shown, k) = Colour(frame, j)
             /\ k \in Colours(frame) /\ k <= lights_count =>
                  Colour(shown, k) = Colour(frame, k)
    BY <1>2, <1>3, <1>4, <1>5
  <1> QED BY <1>6 DEF shown, ShowsColours

\* Every light shows a whole colour of the frame as the source put it, the
\* first ones in their places: whatever frames a datagram holds, for every
\* width of a byte and both byte orders.
THEOREM FramesReachLights == Spec => []LightsShowColours
  <1>1. TypeOK /\ RoundTrip => LightsShowColours
    <2> SUFFICES ASSUME TypeOK, RoundTrip, pc = "read", NEW i \in DOMAIN read,
                        read[i].msg.type = "ENQUEUE", read[i].msg.frame # << >>,
                        Len(read[i].msg.frame) % color_channel_count = 0,
                        NEW lights_count \in 1 .. 3, NEW wanted \in 1 .. 4
                 PROVE  ShowsColours(read[i].msg.frame, sent[i].msg.frame, lights_count,
                          [j \in 1 .. wanted * color_channel_count |-> Junk])
      BY DEF LightsShowColours, ShowsColours
    <2> DEFINE frame == read[i].msg.frame
               buffer == [j \in 1 .. wanted * color_channel_count |-> Junk]
    <2>1. read \in Seq([id : Uint16, msg : ReadMessages])
      BY DEF TypeOK
    <2>2. i \in 1 .. Len(read) /\ read[i] \in [id : Uint16, msg : ReadMessages]
      <3>1. \A T : \A q \in Seq(T) : DOMAIN q = 1 .. Len(q)
        OBVIOUS
      <3>2. i \in 1 .. Len(read)
        BY <2>1, <3>1
      <3> QED BY <2>1, <3>2, ElementOfSeq
    <2>3. frame \in Seq(Byte)
      BY <2>2 DEF ReadMessages
    <2>4. sent[i].msg.frame = frame
      <3>1. read[i] = Read(i)
        BY <2>2 DEF RoundTrip
      <3> QED BY <3>1 DEF Read
    <2>5. Len(buffer) = 3 * wanted
      <3>1. wanted * color_channel_count = 3 * wanted /\ 3 * wanted \in Nat
        BY DEF color_channel_count
      <3> QED BY <3>1
    <2>6. frame # << >> /\ Len(frame) % 3 = 0
      BY DEF color_channel_count
    <2> HIDE DEF frame, buffer
    <2>7. ShowsColours(frame, frame, lights_count, buffer)
      BY <2>3, <2>5, <2>6, LightsShow
    <2> QED BY <2>4, <2>7 DEF frame, buffer
  <1> QED BY <1>1, TypeCorrect, CodecRoundTrip, PTL
=============================================================================
