------------------------------ MODULE Pattern ------------------------------
(***************************************************************************)
(* How a frame of any length reaches any number of lights: fill_with_pattern *)
(* of src/atolla/sink.cpp, which the sink uses twice, to make the frame of *)
(* a message as long as its own frames before it enters the ring, and to   *)
(* hand the current frame to an application that may ask for another       *)
(* length.                                                                 *)
(***************************************************************************)
EXTENDS Naturals, Sequences

color_channel_count == 3

\* Mutant: the loop ends when less than a whole pattern is left to fill.
fill_with_pattern_Whole(target, pattern) ==
  LET fill[n \in 0 .. Len(target)] ==
        IF Len(pattern) > n THEN SubSeq(target, Len(target) - n + 1, Len(target))
        ELSE pattern \o fill[n - Len(pattern)]
  IN  IF pattern = << >> THEN target ELSE fill[Len(target)]

\* fill[n] is what the last n bytes of the target become.
fill_with_pattern(target, pattern) ==
  LET fill[n \in 0 .. Len(target)] ==
        IF Len(pattern) >= n THEN SubSeq(pattern, 1, n)
        ELSE pattern \o fill[n - Len(pattern)]
  IN  IF pattern = << >> THEN target ELSE fill[Len(target)]

\* What an application finds in its buffer when a sink of this many lights
\* has received the frame and shows it, both memories being junk before:
\* sink_enqueue and atolla_sink_get.
Shown(frame, lights_count, buffer) ==
  LET received_frame == [i \in 1 .. lights_count * color_channel_count |-> buffer[1]]
  IN  fill_with_pattern(buffer, fill_with_pattern(received_frame, frame))

\* Colour k of a sequence of bytes.
Colour(bytes, k) ==
  SubSeq(bytes, (k - 1) * color_channel_count + 1, k * color_channel_count)
Colours(bytes) == 1 .. Len(bytes) \div color_channel_count
=============================================================================
