---------------------------- MODULE MCRemoteHTTP ----------------------------
(* TLC instances of RemoteHTTP.                                            *)
EXTENDS RemoteHTTP
=============================================================================
