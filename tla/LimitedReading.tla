--------------------------- MODULE LimitedReading ---------------------------
(***************************************************************************)
(* Reading a whole input into memory under a limit: at most one unit more  *)
(* than the limit is read, so that an input over the limit is told from    *)
(* one that fits without reading it all.                                   *)
(***************************************************************************)
EXTENDS Naturals

\* The inputs of at most max units; one that fails does so after its units.
Inputs(max) == [units : 0..max, fails : BOOLEAN]

\* io.ReadAll over io.LimitReader(input, limit + 1): a failure counts only when
\* it comes before the limit ends the reading.
ReadAll(input, limit) ==
  CASE input.units > limit -> "too large"
    [] input.units <= limit /\ input.fails -> "error"
    [] OTHER -> "data"
=============================================================================
