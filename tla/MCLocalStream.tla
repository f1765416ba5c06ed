---------------------------- MODULE MCLocalStream ---------------------------
(* TLC instances of LocalStream.                                           *)
EXTENDS LocalStream
=============================================================================
