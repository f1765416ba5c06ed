-------------------------- MODULE MCPahoTransport ---------------------------
(* TLC instances of PahoTransport.                                         *)
EXTENDS PahoTransport
CONSTANTS a, b, c, t, u

\* a and b subscribe to one topic, c to another, in twos.
TwoTopics == [i \in Item |-> IF i = c THEN u ELSE t]
Twos == {{a, b}, {a, c}}
All == {Item}
Ones == [i \in Item |-> 1]
=============================================================================
