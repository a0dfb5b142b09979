----------------------------- MODULE MC_Codec -----------------------------
(***************************************************************************)
(* Codec for TLC: bytes of four values, so that FAIL is 3, a payload of 4  *)
(* bytes needs the high byte of its length and 16 messages wrap the id. A  *)
(* frame of 12 bytes just fits into a payload; those of 13 and of 15, the  *)
(* longest that the documents allow, do not.  The frames read are shown by *)
(* sinks of 1 to 3 lights to applications that ask for 1 to 4.             *)
(***************************************************************************)
EXTENDS Codec, Pattern

MC_Frames ==
  {<< >>, <<3>>, <<1, 0, 3>>, <<1, 0, 3, 2, 2, 0>>,
   [i \in 1..12 |-> i % 4], [i \in 1..13 |-> 2], [i \in 1..15 |-> 2]}

\* Whatever the numbers of colours in a message, of lights of the sink and of
\* lights the application asks for, each light gets a colour of the frame as
\* the source put it, the first ones in their places: msg_iter_enqueue_frame,
\* and fill_with_pattern on the way into the ring and out of it, never mix
\* the channels of two colours and leave no light without one.
LightsShowColours ==
  pc = "read" =>
    \A i \in DOMAIN read :
      LET frame == read[i].msg.frame IN
      read[i].msg.type = "ENQUEUE" /\ frame # << >> /\ Len(frame) % color_channel_count = 0 =>
        \A lights_count \in 1..3, wanted \in 1..4 :
          LET buffer == [j \in 1 .. wanted * color_channel_count |-> Junk]
              shown == Shown(frame, lights_count, buffer)
          IN  /\ Len(shown) = Len(buffer)
              /\ \A k \in Colours(shown) :
                   /\ \E j \in Colours(sent[i].msg.frame) :
                        Colour(shown, k) = Colour(sent[i].msg.frame, j)
                   /\ k \in Colours(sent[i].msg.frame) /\ k <= lights_count =>
                        Colour(shown, k) = Colour(sent[i].msg.frame, k)
=============================================================================
