---------------------------- MODULE ImageFitting ----------------------------
(***************************************************************************)
(* convert.Image: decode, shrink until the image covers the display, crop  *)
(* to its centre.  Sizes are exact; the scale is a quotient, and a product *)
(* that lies halfway between two integers may round to either, because the *)
(* floating-point scale is a little off.                                   *)
(***************************************************************************)
EXTENDS Integers, Sequences, FiniteSets, SequencesExt, LimitedReading

CONSTANTS
  Sides,             \* widths and heights of source images
  MaxSourcePixels,
  MaxInputBytes,     \* in units of an input
  MaxBlocks          \* bound on the blocks of a GIF
ASSUME ImageAssumption ==
  Sides \subseteq Nat /\ MaxSourcePixels \in Nat /\ MaxInputBytes \in Nat /\ MaxBlocks \in Nat

VARIABLES
  image,    \* the call's source and target
  scaled,   \* width and height after scaling
  result,   \* width, height and the corner of the crop in the scaled image
  fitting   \* "start", "decoded", "ok", or why it failed

imageVars == <<image, scaled, result, fitting>>

None == [w |-> 0, h |-> 0]
targetDimensions == [front |-> [w |-> 72, h |-> 16], back |-> [w |-> 160, h |-> 80]]
Blocks == {"image", "extension", "trailer", "junk"}
Images(inputs, formats, sides, gifs, targets) ==
  [input : inputs, format : formats, w : sides, h : sides, gif : gifs, target : targets]
Plain == [units |-> 1, fails |-> FALSE]

ImageIdle ==
  /\ image \in Images({Plain}, {"none"}, {1}, {<<>>}, {"front"})
  /\ scaled = None /\ result = None /\ fitting = "none"
ImageInit ==
  /\ image \in Images({Plain}, {"png"}, Sides, {<<>>}, {"front", "back"})
        \cup Images(Inputs(MaxInputBytes + 2), {"png", "jpeg", "unknown"}, {0, 16}, {<<>>}, {"front", "none"})
        \cup Images({Plain}, {"gif"}, {16}, BoundedSeq(Blocks, MaxBlocks), {"back"})
  /\ scaled = None /\ result = None /\ fitting = "start"

-----------------------------------------------------------------------------
\* gifFrameCount: blocks up to the trailer; it stops at a second image, and
\* blocks behind the trailer do not count.
gifFrames(blocks) ==
  LET stop == SelectInSeq(blocks, LAMBDA b : b \in {"trailer", "junk"})
      before == IF stop = 0 THEN blocks ELSE SubSeq(blocks, 1, stop - 1)
      count == Cardinality({i \in DOMAIN before : before[i] = "image"})
  IN IF count > 1 THEN "animated"
     ELSE IF stop = 0 \/ blocks[stop] = "junk" THEN "invalid"
     ELSE IF count = 1 THEN "one" ELSE "none"

decodable ==
  /\ image.w > 0 /\ image.h > 0 /\ image.w <= MaxSourcePixels \div image.h
  /\ \/ image.format \in {"png", "jpeg"}
     \/ image.format = "gif" /\ gifFrames(image.gif) = "one"

\* Image up to the decoded source.
Decode ==
  /\ fitting = "start"
  /\ fitting' = CASE image.target \notin DOMAIN targetDimensions -> "invalid target"
                  [] OTHER -> IF ReadAll(image.input, MaxInputBytes) # "data"
                              THEN ReadAll(image.input, MaxInputBytes)
                              ELSE IF decodable THEN "decoded" ELSE "invalid"
  /\ UNCHANGED <<image, scaled, result>>

\* math.Round of a * b / c.
Rounded(a, b, c) ==
  {(2 * a * b + c) \div (2 * c)} \cup
  IF (2 * a * b + c) % (2 * c) = 0 /\ (2 * a * b) % (2 * c) # 0
  THEN {(2 * a * b - c) \div (2 * c)} ELSE {}

\* The larger of the two quotients, as a pair: numerator and denominator.
larger(max) ==
  IF max.w * image.h >= max.h * image.w THEN [n |-> max.w, d |-> image.w]
  ELSE [n |-> max.h, d |-> image.h]

\* Fault: small images are enlarged.
ScaleEitherWay(max) == larger(max)

Scale(max) == IF larger(max).n > larger(max).d THEN [n |-> 1, d |-> 1] ELSE larger(max)

\* resizeAndCrop.
Fit ==
  /\ fitting = "decoded" /\ fitting' = "ok"
  /\ LET max == targetDimensions[image.target]
         scale == Scale(max)
         Least(a, b) == IF a < b THEN a ELSE b
         AtLeastOne(n) == IF n < 1 THEN 1 ELSE n
     IN \E w \in Rounded(image.w, scale.n, scale.d), h \in Rounded(image.h, scale.n, scale.d) :
          /\ scaled' = [w |-> AtLeastOne(w), h |-> AtLeastOne(h)]
          /\ result' = [w |-> Least(scaled'.w, max.w), h |-> Least(scaled'.h, max.h),
                        x |-> (scaled'.w - Least(scaled'.w, max.w)) \div 2,
                        y |-> (scaled'.h - Least(scaled'.h, max.h)) \div 2]
  /\ UNCHANGED image

ImageNext == Decode \/ Fit

\* bilinearScale: where pixel i of n samples a side of the source, in units of
\* 1 / 2n; it mixes the pixels on both sides of that point.
sample(i, n, side) == (2 * i + 1) * side - n

-----------------------------------------------------------------------------
\* The result fills the display as far as the image reaches and never exceeds
\* it; it is cut from the middle; and every pixel taken from the source is
\* interpolated between pixels the source has, never beyond its edge, where
\* clamping would mix in the wrong weight (resizeAndCrop, bilinearScale).  An
\* image over a limit, or a GIF with two images, has no result.
FillsDisplay ==
  fitting = "ok" =>
    /\ LET max == targetDimensions[image.target]
           Axis(side, limit, of, size, start) ==
             /\ size = (IF side < limit THEN side ELSE limit)
             /\ start >= 0 /\ start + size <= of /\ (of - size) - 2 * start \in {0, 1}
             /\ \A i \in {start, start + size - 1} : sample(i, of, side) \in 0..(side - 1) * 2 * of
       IN /\ Axis(image.w, max.w, scaled.w, result.w, result.x)
          /\ Axis(image.h, max.h, scaled.h, result.h, result.y)
    /\ image.w * image.h <= MaxSourcePixels /\ image.input.units <= MaxInputBytes
    /\ \A i, j \in DOMAIN image.gif :
         i < j /\ image.gif[i] = "image" /\ image.gif[j] = "image" =>
           \E k \in 1..j : image.gif[k] = "trailer"
=============================================================================
