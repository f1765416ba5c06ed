------------------------------ MODULE Animation -----------------------------
(***************************************************************************)
(* convert/animation: EncodeRGB888, EncodeImages and ConvertZIP.  The      *)
(* frames are loaded twice, once to size the output and once to write it;  *)
(* an image may draw itself differently the second time.  Neighbours with  *)
(* equal pixels share a record as long as its duration fits in a byte.     *)
(***************************************************************************)
EXTENDS Naturals, Sequences, SequencesExt, FiniteSets

CONSTANTS
  Pixels,         \* contents of an image
  NoPixels,       \* not the contents of an image
  MaxByteValue,   \* the longest duration of a record
  MaxRecords,     \* the records maximum output size has room for
  MaxEntries,     \* the entries maximum input size has room for
  MaxFrames,      \* bound on the frames of a direct call
  MaxArchive,     \* bound on the entries of an archive
  MaxChanges      \* bound on the changes of an image between two readings
ASSUME AnimationAssumption ==
  /\ NoPixels \notin Pixels /\ MaxByteValue \in Nat \ {0} /\ MaxRecords \in Nat
  /\ MaxEntries \in Nat /\ MaxFrames \in Nat /\ MaxArchive \in Nat /\ MaxChanges \in Nat

VARIABLES
  source,    \* the call: "zip", "images", "raw", or "none" when there is none
  archive,   \* the entries of the ZIP file, in its order
  frames,    \* what the loader finds
  pass,      \* "check", "analyze", "write" or "done"
  position,  \* the frame that is next
  previous,  \* the pixels loaded before it in this pass
  last,      \* the duration of the last record, as analyzed
  counted,   \* encoded and display frames, as analyzed
  records,   \* the records written
  played,    \* the frames loaded while writing
  changes,   \* bounded by MaxChanges
  encoding   \* "running", "ok", "rejected", "too large" or "changed"

animationVars == <<source, archive, frames, pass, position, previous, last, counted, records,
                   played, changes, encoding>>
inputs == <<source, archive>>

\* A frame of the caller, or one of another size.
Frames == [px : Pixels, dur : 0..MaxByteValue, fits : {TRUE}] \cup [px : Pixels, dur : {1}, fits : {FALSE}]
\* An entry of the archive: metadata that parses or not, a numbered frame (with
\* NoPixels when it does not decode), or something else; two spellings of one
\* number are one index.  All relevant entries expand to one unit.
Entries ==
  [name : {"meta"}, fits : BOOLEAN] \cup [name : {"other"}]
  \cup [name : {"frame"}, index : 0..MaxArchive - 2, px : Pixels, fits : {TRUE}]
  \cup [name : {"frame"}, index : {1}, px : {NoPixels, CHOOSE p \in Pixels : TRUE}, fits : {FALSE}]

AnimationIdle ==
  /\ source = "none" /\ archive = <<>> /\ frames = <<>> /\ pass = "done" /\ position = 1
  /\ previous = NoPixels /\ last = 0 /\ counted = [encoded |-> 0, display |-> 0]
  /\ records = <<>> /\ played = <<>> /\ changes = 0 /\ encoding = "rejected"
AnimationInit ==
  /\ source \in {"zip", "images", "raw"}
  /\ archive \in IF source = "zip" THEN BoundedSeq(Entries, MaxArchive) ELSE {<<>>}
  /\ frames \in IF source = "zip" THEN {<<>>} ELSE BoundedSeq(Frames, MaxFrames)
  /\ pass = IF source = "raw" THEN "analyze" ELSE "check"
  /\ position = 1 /\ previous = NoPixels /\ last = 0 /\ counted = [encoded |-> 0, display |-> 0]
  /\ records = <<>> /\ played = <<>> /\ changes = 0 /\ encoding = "running"

-----------------------------------------------------------------------------
Ends(how) == encoding' = how /\ pass' = "done"
Goes == UNCHANGED <<encoding, pass>>

\* EncodeImages looks at all bounds before it loads a frame.
ValidateImages ==
  /\ source = "images" /\ pass = "check"
  /\ IF frames # <<>> /\ \A i \in DOMAIN frames : frames[i].fits
     THEN pass' = "analyze" /\ UNCHANGED encoding
     ELSE Ends("rejected")
  /\ UNCHANGED <<inputs, frames, position, previous, last, counted, records, played, changes>>

\* ConvertZIP: one metadata entry, frames numbered from 0 without gap and each
\* number once, each decodable and all of the size of the first, in the order of
\* their numbers.
ReadArchive ==
  /\ source = "zip" /\ pass = "check"
  /\ LET Named(name) == {i \in DOMAIN archive : archive[i].name = name}
         indexes == {archive[i].index : i \in Named("frame")}
         framesByIndex == [n \in indexes |->
           archive[CHOOSE i \in Named("frame") : archive[i].index = n]]
     IN IF /\ Cardinality(Named("meta")) = 1
           /\ Cardinality(Named("meta")) + Cardinality(Named("frame")) <= MaxEntries
           /\ \A i, j \in Named("frame") : i # j => archive[i].index # archive[j].index
           /\ indexes # {} /\ indexes = 0..Cardinality(indexes) - 1
           /\ \A i \in Named("meta") \cup Named("frame") : archive[i].fits
        THEN /\ frames' = [k \in 1..Cardinality(indexes) |->
                            [px |-> framesByIndex[k - 1].px, dur |-> 0, fits |-> TRUE]]
             /\ pass' = "analyze" /\ UNCHANGED encoding
        ELSE Ends("rejected") /\ UNCHANGED frames
  /\ UNCHANGED <<inputs, position, previous, last, counted, records, played, changes>>

-----------------------------------------------------------------------------
\* Fault: a full record takes one more.
FillOver(current, duration) == IF duration + current <= MaxByteValue + 1 THEN duration ELSE 0

effectiveDuration(dur) == IF dur = 0 THEN 1 ELSE dur
\* What the current record can take of an equal frame.
Fill(current, duration) ==
  IF current + duration <= MaxByteValue THEN duration ELSE MaxByteValue - current
\* The durations of the new records for the rest.
Split(rest) ==
  [i \in 1..((rest + MaxByteValue - 1) \div MaxByteValue) |->
     IF i * MaxByteValue <= rest THEN MaxByteValue ELSE rest % MaxByteValue]

\* One frame of the loop both passes have: what it adds to a record of duration
\* current, and the records after that.
Added(frame, current) ==
  IF previous = frame.px THEN Fill(current, effectiveDuration(frame.dur)) ELSE 0
New(frame, current) == Split(effectiveDuration(frame.dur) - Added(frame, current))

AnalyzeFrame ==
  /\ pass = "analyze" /\ position <= Len(frames)
  /\ LET frame == frames[position]
         new == New(frame, last)
         encoded == counted.encoded + Len(new)
     IN /\ last' = IF new = <<>> THEN last + Added(frame, last) ELSE new[Len(new)]
        /\ counted' = [encoded |-> encoded,
                       display |-> counted.display + effectiveDuration(frame.dur)]
        /\ previous' = frame.px
        /\ CASE ~frame.fits -> Ends("rejected")
             [] frame.fits /\ encoded > MaxRecords -> Ends("too large")
             [] OTHER -> Goes
  /\ position' = position + 1
  /\ UNCHANGED <<inputs, frames, records, played, changes>>

\* The output is allocated and its header written from what was counted.
StartWriting ==
  /\ pass = "analyze" /\ position > Len(frames)
  /\ IF frames = <<>> THEN Ends("rejected") ELSE pass' = "write" /\ UNCHANGED encoding
  /\ position' = 1 /\ previous' = NoPixels
  /\ UNCHANGED <<inputs, frames, last, counted, records, played, changes>>

\* The last record is extended in place; a record beyond the allocated output
\* ends the call.
WriteFrame ==
  /\ pass = "write" /\ position <= Len(frames)
  /\ LET frame == frames[position]
         current == IF records = <<>> THEN 0 ELSE records[Len(records)].dur
         new == New(frame, current)
         grown == IF records = <<>> THEN <<>>
                  ELSE [records EXCEPT ![Len(records)].dur = current + Added(frame, current)]
     IN /\ records' = grown \o [i \in DOMAIN new |-> [px |-> frame.px, dur |-> new[i]]]
        /\ IF Len(records) + Len(new) <= counted.encoded THEN Goes ELSE Ends("changed")
        /\ previous' = frame.px /\ played' = Append(played, frame)
  /\ position' = position + 1
  /\ UNCHANGED <<inputs, frames, last, counted, changes>>

EndWriting ==
  /\ pass = "write" /\ position > Len(frames)
  /\ Ends(IF Len(records) = counted.encoded THEN "ok" ELSE "changed")
  /\ UNCHANGED <<inputs, frames, position, previous, last, counted, records, played, changes>>

\* An image draws itself differently from now on.
ImageChanges ==
  /\ source = "images" /\ pass \in {"analyze", "write"} /\ changes < MaxChanges
  /\ \E i \in DOMAIN frames, p \in Pixels : p # frames[i].px /\ frames' = [frames EXCEPT ![i].px = p]
  /\ changes' = changes + 1
  /\ UNCHANGED <<inputs, pass, position, previous, last, counted, records, played, encoding>>

AnimationNext ==
  \/ ValidateImages \/ ReadArchive \/ AnalyzeFrame \/ StartWriting \/ WriteFrame \/ EndWriting
  \/ ImageChanges

-----------------------------------------------------------------------------
Playback(seq) == FlattenSeq([i \in DOMAIN seq |->
  [k \in 1..effectiveDuration(seq[i].dur) |-> seq[i].px]])

\* An encoded animation plays exactly the frames written, for as long as the
\* header says, in records no longer than a byte allows and as few as possible;
\* a ZIP file's frames are all there, each under its own number; and only a frame
\* that really changed can make the two readings disagree (encodeFrames,
\* analyzeFrames, writeFrames, ConvertZIP).
PlaysBack ==
  /\ encoding = "ok" =>
       /\ Playback(records) = Playback(played)
       /\ Len(records) = counted.encoded /\ Len(Playback(records)) = counted.display
       /\ \A i \in DOMAIN records : records[i].dur \in 1..MaxByteValue
       /\ \A i \in 1..Len(records) - 1 :
            records[i].px = records[i + 1].px => records[i].dur = MaxByteValue
       /\ source = "zip" =>
            \A e \in ToSet(archive) : e.name = "frame" => Playback(records)[e.index + 1] = e.px
  /\ encoding = "changed" => changes > 0
=============================================================================
