--------------------------- MODULE AudioConversion --------------------------
(***************************************************************************)
(* convert/audio: Convert passes ready PCM through or pipes the source     *)
(* through ffmpeg.  command.Run has three parties besides the tool: the    *)
(* goroutine that copies the source to its standard input, the one that    *)
(* copies its standard output to limitedOutputBuffer, and the context.     *)
(***************************************************************************)
EXTENDS Naturals, LimitedReading

CONSTANTS
  MaxOutputBytes,
  MaxProduced,  \* bound on the bytes ffmpeg writes
  PipeSize      \* bytes the pipe holds
ASSUME AudioAssumption == MaxOutputBytes \in Nat /\ MaxProduced \in Nat /\ PipeSize \in Nat

VARIABLES
  sound,     \* the call: extension and source
  stdin,     \* "idle", "copying", "done" or "failed"
  tool,      \* "idle", "running", "succeeded" or "failed"
  produced,  \* bytes the tool has written
  pipe,      \* those not copied yet
  stdout,    \* "idle", "copying" or "done"
  kept,      \* bytes in the output buffer
  exceeded,  \* of limitedOutputBuffer
  expired,   \* has the context ended
  audio      \* "start", "running", "ok", or why it failed

audioVars == <<sound, stdin, tool, produced, pipe, stdout, kept, exceeded, expired, audio>>

Extensions == {"ready", "input", "unknown"}
Sounds(ext) == [ext : ext, source : Inputs(MaxOutputBytes + 2)]

AudioQuiet ==
  /\ stdin = "idle" /\ tool = "idle" /\ produced = 0 /\ pipe = 0 /\ stdout = "idle" /\ kept = 0
  /\ exceeded = FALSE /\ expired = FALSE
AudioIdle ==
  /\ AudioQuiet /\ audio = "none"
  /\ sound = [ext |-> "unknown", source |-> [units |-> 0, fails |-> FALSE]]
AudioInit == AudioQuiet /\ sound \in Sounds(Extensions) /\ audio = "start"

-----------------------------------------------------------------------------
Even(n) == n > 0 /\ n % 2 = 0

\* Convert: dispatch by extension; readReadyPCM.
Convert ==
  /\ audio = "start"
  /\ CASE sound.ext = "unknown" -> audio' = "unsupported" /\ UNCHANGED <<stdin, tool, stdout, kept>>
       [] sound.ext = "ready" ->
            /\ audio' = IF ReadAll(sound.source, MaxOutputBytes) # "data"
                        THEN ReadAll(sound.source, MaxOutputBytes)
                        ELSE IF Even(sound.source.units) THEN "ok" ELSE "invalid"
            /\ kept' = IF audio' = "ok" THEN sound.source.units ELSE 0
            /\ UNCHANGED <<stdin, tool, stdout>>
       [] sound.ext = "input" ->  \* the context may have ended already
            /\ audio' = "running" /\ stdin' = "copying" /\ stdout' = "copying"
            /\ tool' = (IF expired THEN "failed" ELSE "running") /\ UNCHANGED kept
  /\ UNCHANGED <<sound, produced, pipe, exceeded, expired>>

\* The source ends, fails, or is cut short because the tool does not read on,
\* which command.Run does not report.
SourceEnds ==
  /\ stdin = "copying" /\ stdin' = IF sound.source.fails THEN "failed" ELSE "done"
  /\ UNCHANGED <<sound, tool, produced, pipe, stdout, kept, exceeded, expired, audio>>
InputRefused ==
  /\ stdin = "copying" /\ tool # "running" /\ stdin' = "done"
  /\ UNCHANGED <<sound, tool, produced, pipe, stdout, kept, exceeded, expired, audio>>

\* ffmpeg: it writes, dies of a broken pipe, or ends either way.
Produce ==
  /\ tool = "running" /\ stdout = "copying" /\ pipe < PipeSize /\ produced < MaxProduced
  /\ produced' = produced + 1 /\ pipe' = pipe + 1
  /\ UNCHANGED <<sound, stdin, tool, stdout, kept, exceeded, expired, audio>>
PipeBreaks ==
  /\ tool = "running" /\ stdout = "done" /\ tool' = "failed"
  /\ UNCHANGED <<sound, stdin, produced, pipe, stdout, kept, exceeded, expired, audio>>
ToolEnds ==
  /\ tool = "running" /\ tool' \in {"succeeded", "failed"}
  /\ UNCHANGED <<sound, stdin, produced, pipe, stdout, kept, exceeded, expired, audio>>

-----------------------------------------------------------------------------
\* Fault: what does not fit is dropped, as limitedBuffer does for stderr.
WriteDrops(n) ==
  /\ kept' = IF kept + n <= MaxOutputBytes THEN kept + n ELSE MaxOutputBytes
  /\ UNCHANGED <<exceeded, stdout>>

\* limitedOutputBuffer.Write; its error ends the copying and closes the pipe.
Write(n) ==
  IF kept + n <= MaxOutputBytes THEN kept' = kept + n /\ UNCHANGED <<exceeded, stdout>>
  ELSE kept' = MaxOutputBytes /\ exceeded' = TRUE /\ stdout' = "done"

CopyOutput ==
  /\ stdout = "copying" /\ \E n \in 1..pipe : Write(n) /\ pipe' = pipe - n
  /\ UNCHANGED <<sound, stdin, tool, produced, expired, audio>>
OutputEnds ==
  /\ stdout = "copying" /\ tool # "running" /\ pipe = 0 /\ stdout' = "done"
  /\ UNCHANGED <<sound, stdin, tool, produced, pipe, kept, exceeded, expired, audio>>

\* The context ends; exec kills the tool, and Run reports that, or not when the
\* tool had ended before.
Expire ==
  /\ ~expired /\ expired' = TRUE /\ audio \in {"start", "running"}
  /\ tool' \in IF tool = "succeeded" THEN {"succeeded", "failed"}
               ELSE IF tool = "running" THEN {"failed"} ELSE {tool}
  /\ UNCHANGED <<sound, stdin, produced, pipe, stdout, kept, exceeded, audio>>

\* Run has waited for the tool and both goroutines: runFFmpeg's verdict.
Verdict ==
  /\ audio = "running" /\ tool # "running" /\ stdin # "copying" /\ stdout = "done"
  /\ audio' = CASE exceeded -> "too large"
                [] ~exceeded /\ (tool = "failed" \/ stdin = "failed") -> "tool failed"
                [] OTHER -> IF Even(kept) THEN "ok" ELSE "invalid"
  /\ UNCHANGED <<sound, stdin, tool, produced, pipe, stdout, kept, exceeded, expired>>

AudioNext ==
  \/ Convert \/ SourceEnds \/ InputRefused \/ Produce \/ PipeBreaks \/ ToolEnds
  \/ CopyOutput \/ OutputEnds \/ Expire \/ Verdict

-----------------------------------------------------------------------------
\* A result is complete and whole samples: every byte ffmpeg wrote before it
\* succeeded, or the whole source of ready PCM, and within the limit; "too large"
\* is said only of an output that is, even though ffmpeg has died of it, and so
\* is "invalid" of an output that is empty or cuts a sample (runFFmpeg,
\* readReadyPCM, limitedOutputBuffer).
ResultIsComplete ==
  LET all == IF sound.ext = "ready" THEN sound.source.units ELSE produced
  IN /\ audio = "ok" => /\ kept = all /\ Even(kept) /\ kept <= MaxOutputBytes
                        /\ tool \in {"succeeded", "idle"} /\ stdin # "failed"
                        /\ sound.ext = "ready" => ~sound.source.fails
     /\ audio = "too large" => all > MaxOutputBytes
     /\ audio = "invalid" => ~Even(all)
=============================================================================
