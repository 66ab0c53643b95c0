------------------------------- MODULE MCZlib -------------------------------
(* An instance of ZlibStreams for TLC. *)
EXTENDS ZlibStreams, ZlibSizes
=============================================================================
