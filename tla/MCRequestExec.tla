---------------------------- MODULE MCRequestExec ---------------------------
(* TLC instances of RequestExec: any caller may execute any of a GET, a    *)
(* POST and an upload read from a stream.                                  *)
EXTENDS RequestExec, TLC
CONSTANTS get, post, upload

\* No action tells one caller or one flight from another.
Identities == Permutations(Caller) \cup Permutations(Flight)
=============================================================================
