--------------------------- MODULE MCRemoteStream ---------------------------
(* TLC instances of RemoteStream.                                          *)
EXTENDS RemoteStream
=============================================================================
