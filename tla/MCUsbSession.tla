---------------------------- MODULE MCUsbSession ----------------------------
(* TLC instances of UsbSession.                                            *)
EXTENDS UsbSession
CONSTANTS stream, send, reboot
\* A stream, a command that wants an answer, and a reboot.
EachKind == [x \in Caller |-> CASE x = stream -> "stream" [] x = send -> "send" [] OTHER -> "reboot"]
=============================================================================
