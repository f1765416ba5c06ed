---------------------------- MODULE FrameDecoding ---------------------------
(***************************************************************************)
(* frame.Frame: the pixels of a screen frame, from GET /api/screen or from *)
(* the status stream, where the firmware may have run-length encoded them. *)
(* The loop of decodeRLE is an action per run.  Displays, the opcode's     *)
(* count and the payload limit are scaled down; which formats fit is kept. *)
(***************************************************************************)
EXTENDS Naturals, Sequences, SequencesExt, FiniteSets

CONSTANTS
  MaxPayloadSize,  \* bytes
  MaxCount,        \* the largest block count an opcode has room for
  MaxRuns,         \* bound on the runs of a payload
  MaxCut           \* bound on the bytes missing at its end
ASSUME FrameAssumption ==
  MaxPayloadSize \in Nat /\ MaxCount \in Nat /\ MaxRuns \in Nat /\ MaxCut \in Nat

VARIABLES
  meta,      \* screen, width, height, encoding and pixel format of the frame, and its origin
  runs,      \* what the firmware encoded, or <<>>
  raw,       \* the payload
  cursor,    \* sourceIndex of decodeRLE, one-based
  pixels,    \* what is decoded so far
  decoding   \* "start", "decoding", "ok" or "rejected"

frameVars == <<meta, runs, raw, cursor, pixels, decoding>>

Screens == {"front", "back"}
Width  == [front |-> 3, back |-> 4]
Height == [front |-> 2, back |-> 2]
BlockSize == [front |-> 3, back |-> 2]
Formats == {"RGB888", "L8", "L4"}

\* The bytes of an opcode and of pixels; the pixels' are numbered to tell them
\* apart.
Opcodes == [literal : BOOLEAN, count : 0..MaxCount]
Byte(op) == op.count + IF op.literal THEN MaxCount + 1 ELSE 0
BytesFrom(n, from) == [i \in 1..n |-> from + i]
DataOf(op, block) == IF op.literal THEN op.count * block ELSE block
Serialize(ops, block) ==
  FlattenSeq([i \in DOMAIN ops |-> <<Byte(ops[i])>> \o BytesFrom(DataOf(ops[i], block), 10 * i)])
Expand(ops, block) ==
  FlattenSeq([i \in DOMAIN ops |->
    FlattenSeq([k \in 1..ops[i].count |->
      BytesFrom(block, 10 * i + IF ops[i].literal THEN (k - 1) * block ELSE 0)])])
Cut(seq, n) == SubSeq(seq, 1, Len(seq) - n)

FrameIdle ==
  /\ meta = [origin |-> "none"] /\ runs = <<>> /\ raw = <<>> /\ cursor = 1 /\ pixels = <<>>
  /\ decoding = "rejected"

\* GET /api/screen asks for one display and gets plain bytes, perhaps of
\* another length; a stream frame may say anything of itself.
FrameInit ==
  /\ \/ /\ \E s \in Screens \cup {"unknown"} :
             meta = [origin |-> "http", screen |-> s, width |-> 0, height |-> 0,
                     encoding |-> "PLAIN", format |-> IF s = "front" THEN "RGB888" ELSE "L4"]
        /\ runs = <<>> /\ \E n \in {0, 3, 4, 5, 17, 18, 19} : raw = BytesFrom(n, 0)
     \/ /\ \E s \in Screens \cup {"unknown"}, f \in Formats \cup {"unknown"},
              e \in {"PLAIN", "RUN_LENGTH", "unknown"}, w \in {3, 4} :
             meta = [origin |-> "stream", screen |-> s, width |-> w, height |-> 2,
                     encoding |-> e, format |-> f]
        /\ IF meta.encoding = "RUN_LENGTH" /\ meta.screen \in Screens
           THEN /\ runs \in BoundedSeq(Opcodes, MaxRuns)
                /\ LET whole == Serialize(runs, BlockSize[meta.screen])
                   IN \E cut \in 0..MaxCut : cut <= Len(whole) /\ raw = Cut(whole, cut)
           ELSE runs = <<>> /\ \E n \in {0, 3, 4, 6, 8, 18, 24} : raw = BytesFrom(n, 0)
  /\ cursor = 1 /\ pixels = <<>> /\ decoding = "start"

-----------------------------------------------------------------------------
\* FromHTTP fills in what the display is; FromProto keeps what the frame says.
Filled ==
  IF meta.origin = "http" /\ meta.screen \in Screens
  THEN [meta EXCEPT !.width = Width[meta.screen], !.height = Height[meta.screen]] ELSE meta

validMetadata(f) ==
  /\ Len(raw) <= MaxPayloadSize
  /\ f.screen \in Screens /\ f.width = Width[f.screen] /\ f.height = Height[f.screen]

pixelCount(f) == f.width * f.height
pixelDataSize(f) ==
  CASE f.format = "RGB888" -> pixelCount(f) * 3
    [] f.format = "L8" -> pixelCount(f)
    [] f.format = "L4" -> (pixelCount(f) + 1) \div 2
supported(f) ==
  f.format \in Formats /\ f.encoding \in {"PLAIN", "RUN_LENGTH"} /\ pixelDataSize(f) <= MaxPayloadSize

\* FromHTTP or FromProto, then Pixels up to the loop.
Open ==
  /\ decoding = "start" /\ meta' = Filled
  /\ IF ~(validMetadata(meta') /\ supported(meta'))
     THEN decoding' = "rejected" /\ UNCHANGED pixels
     ELSE IF meta'.encoding = "RUN_LENGTH" THEN decoding' = "decoding" /\ UNCHANGED pixels
     ELSE IF Len(raw) = pixelDataSize(meta')
     THEN decoding' = "ok" /\ pixels' = raw ELSE decoding' = "rejected" /\ UNCHANGED pixels
  /\ UNCHANGED <<runs, raw, cursor>>

-----------------------------------------------------------------------------
\* Fault: a repeated block is taken for a whole literal.
DataUnlike(op, block) == op.count * block

Block == BlockSize[meta.screen]
Remaining == pixelDataSize(meta) - Len(pixels)
\* The opcode's top bit and the rest of it.
Opcode(byte) ==
  [literal |-> (byte \div (MaxCount + 1)) % 2 = 1, count |-> byte % (MaxCount + 1)]
\* The data behind the opcode.
Data(op, block) == IF op.literal THEN op.count * block ELSE block

DecodeRun ==
  /\ decoding = "decoding" /\ cursor <= Len(raw)
  /\ LET op == Opcode(raw[cursor])
         data == Data(op, Block)
         bytes == SubSeq(raw, cursor + 1, cursor + data)
     IN IF op.count = 0 \/ op.count * Block > Remaining \/ data > Len(raw) - cursor
        THEN decoding' = "rejected" /\ UNCHANGED <<cursor, pixels>>
        ELSE /\ pixels' = pixels \o IF op.literal THEN bytes
                                    ELSE FlattenSeq([k \in 1..op.count |-> bytes])
             /\ cursor' = cursor + 1 + data /\ UNCHANGED decoding
  /\ UNCHANGED <<meta, runs, raw>>

DecodeEnd ==
  /\ decoding = "decoding" /\ cursor > Len(raw)
  /\ decoding' = IF Remaining = 0 THEN "ok" ELSE "rejected"
  /\ UNCHANGED <<meta, runs, raw, cursor, pixels>>

FrameNext == Open \/ DecodeRun \/ DecodeEnd

\* RGBA: the bytes pixel i (from 0) is made of, one-based.
Channels(f, i) ==
  CASE f.format = "RGB888" -> {3 * i + 1, 3 * i + 2, 3 * i + 3}
    [] f.format = "L8" -> {i + 1}
    [] f.format = "L4" -> {(i \div 2) + 1}

-----------------------------------------------------------------------------
\* Decoding undoes the firmware's encoding: what it returns is the expansion of
\* the runs the payload holds, as many bytes as the screen has, so that RGBA
\* finds every pixel and uses every byte; a payload that was cut, has a run of
\* no blocks or the wrong size is refused; one that is whole is not; and the
\* cursor never leaves the payload (decodeRLE, pixelDataSize, RGBA).
Whole(n) ==
  LET ops == SubSeq(runs, 1, n)
  IN /\ Serialize(ops, Block) = raw /\ \A i \in 1..n : ops[i].count # 0
     /\ Len(Expand(ops, Block)) = pixelDataSize(meta)
DecodesExactly ==
  /\ cursor <= Len(raw) + 1
  /\ decoding = "ok" =>
       /\ UNION {Channels(meta, i) : i \in 0..pixelCount(meta) - 1} = DOMAIN pixels
       /\ meta.encoding = "RUN_LENGTH" =>
            \E n \in 0..Len(runs) : Whole(n) /\ pixels = Expand(SubSeq(runs, 1, n), Block)
  /\ decoding = "rejected" /\ meta.origin = "stream" /\ meta.screen \in Screens
     /\ validMetadata(meta) /\ supported(meta) /\ meta.encoding = "RUN_LENGTH" => ~Whole(Len(runs))
=============================================================================
