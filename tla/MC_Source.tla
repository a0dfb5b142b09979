----------------------------- MODULE MC_Source -----------------------------
(***************************************************************************)
(* The sources of Source.tla, fed with whatever messages a sink might send *)
(* at any time.                                                            *)
(***************************************************************************)
EXTENDS Source
=============================================================================
