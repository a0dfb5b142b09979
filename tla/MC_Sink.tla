------------------------------ MODULE MC_Sink ------------------------------
(***************************************************************************)
(* The sink of Sink.tla for TLC, under arbitrary datagrams of one or two   *)
(* endpoints: a ring of 2 frames, 4 frame indices and a forward jump of 2  *)
(* or 3 stand for 128, 256 and 128.                                        *)
(***************************************************************************)
EXTENDS Sink
=============================================================================
