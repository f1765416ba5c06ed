--------------------------- MODULE MCStatusChannel --------------------------
(* TLC instances of StatusChannel.                                         *)
EXTENDS StatusChannel
=============================================================================
