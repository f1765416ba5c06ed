----------------------------- MODULE UsbSession -----------------------------
(***************************************************************************)
(* usb/session.go: one command line session over a TCP connection.  Callers*)
(* run one command at a time (opMu); a command is over when the bytes read *)
(* end in the prompt.  A stream is interrupted by an ETX byte and the      *)
(* session is kept if the prompt comes back.  The deadline of the          *)
(* connection is the only way to get a blocked call out, so the context of *)
(* a command moves it from a goroutine (context.AfterFunc).                *)
(*                                                                         *)
(* Bytes are tokens that remember whose command they belong to: an output  *)
(* "out", and the prompt in two pieces, "p1" and "p2", since a read may    *)
(* end inside it.  A read returns any number of tokens.                    *)
(***************************************************************************)
EXTENDS Integers, Sequences, FiniteSets

CONSTANTS
  Caller, Opener,   \* callers of a session, and the Open that made it
  Kind,             \* what each asks for: "send", "stream" or "reboot"
  None,
  MaxOut            \* bound: outputs of one command
Op == Caller \cup {Opener}
ASSUME OpAssumption == None \notin Op /\ Opener \notin Caller /\ "etx" \notin Op
ASSUME KindAssumption == Kind \in [Caller -> {"send", "stream", "reboot"}] /\ MaxOut \in Nat

VARIABLES
  pc,        \* control state of each call
  mu,        \* who is inside opMu (Open: nobody else has the session yet)
  over,      \* calls whose context is done
  hook,      \* the AfterFunc of each call: "off", "on", "running" or "ran"
  deadline,  \* of the connection: "none", "ahead" or "past"
  closed,    \* s.closed, and the connection with it
  broken,    \* the peer or the network ended the connection
  last,      \* last token read in this phase of the command, or None
  got,       \* whose tokens the command has read (history)
  toDev,     \* bytes on their way to the device: command lines and ETX
  fromDev,   \* bytes on their way from it
  dev,       \* whose command it runs, or None at its prompt
  outs       \* outputs of that command so far
callVars == <<pc, mu, over, got, last>>
timeVars == <<hook, deadline>>
devVars  == <<toDev, fromDev, dev, outs>>
vars == <<callVars, timeVars, closed, broken, devVars>>

Prompt(c) == << <<c, "p1">>, <<c, "p2">> >>
IsPrompt(s) == Len(s) >= 2 /\ s[Len(s)][2] = "p2" /\ s[Len(s) - 1][2] = "p1"

\* Open has dialled and set the deadline of its wait for the first prompt.
Init ==
  /\ pc = [c \in Op |-> IF c = Opener THEN "read" ELSE "idle"] /\ mu = Opener
  /\ over = {} /\ hook = [c \in Op |-> IF c = Opener THEN "on" ELSE "off"]
  /\ deadline = "ahead" /\ closed = FALSE /\ broken = FALSE
  /\ last = None /\ got = {}
  /\ toDev = <<>> /\ fromDev = <<>> /\ dev = Opener /\ outs = 0

Step(c, from, to) == pc[c] = from /\ pc' = [pc EXCEPT ![c] = to]
Usable == ~closed /\ ~broken /\ deadline # "past"
UnusableUnlessClosed == broken \/ deadline = "past"
Unusable == closed \/ broken \/ deadline = "past"

-----------------------------------------------------------------------------
(* sendLine, streamLine, reboot.                                           *)

\* opMu, ensureOpen, setDeadline: a stream has a deadline only if its context has.
Begin(c) ==
  /\ mu = None /\ c \in Caller
  /\ \/ closed /\ Step(c, "idle", "failed") /\ UNCHANGED <<mu, timeVars>>
     \/ /\ ~closed /\ Step(c, "idle", "write") /\ mu' = c
        /\ hook' = [hook EXCEPT ![c] = "on"]
        /\ deadline' \in IF Kind[c] = "stream" THEN {"none", "ahead"} ELSE {"ahead"}
  /\ last' = None /\ got' = {}
  /\ UNCHANGED <<over, closed, broken, devVars>>

Write(c) ==
  /\ \/ Step(c, "write", "read") /\ Kind[c] = "send"
     \/ Step(c, "write", "check") /\ Kind[c] = "stream"
     \/ Step(c, "write", "stopFailed") /\ Kind[c] = "reboot"
  /\ Usable /\ toDev' = Append(toDev, c)
  /\ closed' = (Kind[c] = "reboot")
  /\ UNCHANGED <<mu, over, got, last, timeVars, broken, fromDev, dev, outs>>
WriteFails(c) ==
  /\ Unusable /\ Step(c, "write", "stopFailed") /\ closed' = TRUE
  /\ UNCHANGED <<mu, over, got, last, timeVars, broken, devVars>>

\* What conn.Read returns, and what is read in all when it is added.
Chunk(n) == SubSeq(fromDev, 1, n)
Read(c, n) ==
  /\ ~closed /\ deadline # "past" /\ n \in 1..Len(fromDev)
  /\ fromDev' = SubSeq(fromDev, n + 1, Len(fromDev))
  /\ last' = fromDev[n] /\ got' = got \cup {Chunk(n)[i][1] : i \in 1..n}
  /\ UNCHANGED <<over, broken, toDev, dev, outs>>
Complete(n) == IsPrompt(IF last = None THEN Chunk(n) ELSE <<last>> \o Chunk(n))

\* readUntilPrompt, of a command and of Open; too much output is an error.
ReadMore(c, n) ==
  /\ Read(c, n)
  /\ \/ Complete(n) /\ Step(c, "read", "stopOk") /\ UNCHANGED closed
     \/ ~Complete(n) /\ pc[c] = "read" /\ UNCHANGED <<pc, closed>>
     \/ Step(c, "read", "stopFailed") /\ closed' = TRUE
  /\ UNCHANGED <<mu, timeVars>>
ReadFails(c) ==
  /\ Unusable /\ Step(c, "read", "stopFailed") /\ closed' = TRUE
  /\ UNCHANGED <<mu, over, got, last, timeVars, broken, devVars>>

\* streamLine looks at the context before each read.
CheckNothing(c) ==
  /\ \/ c \in over /\ Step(c, "check", "stopOk")
     \/ c \notin over /\ Step(c, "check", "stream")
  /\ UNCHANGED <<mu, over, got, last, timeVars, closed, broken, devVars>>
Check(c) ==
  /\ \/ c \in over /\ Step(c, "check", "stopInterrupt")
     \/ c \notin over /\ Step(c, "check", "stream")
  /\ UNCHANGED <<mu, over, got, last, timeVars, closed, broken, devVars>>
\* The chunk is written to dst first; the prompt may be in it all the same.
StreamMore(c, n) ==
  /\ Read(c, n)
  /\ \/ Complete(n) /\ Step(c, "stream", "stopOk")
     \/ ~Complete(n) /\ Step(c, "stream", "check")
     \/ Step(c, "stream", "stopInterrupt")
  /\ UNCHANGED <<mu, timeVars, closed>>
StreamFails(c) ==
  /\ Unusable
  /\ \/ c \in over /\ Step(c, "stream", "stopInterrupt") /\ UNCHANGED closed
     \/ c \notin over /\ Step(c, "stream", "stopFailed") /\ closed' = TRUE
  /\ UNCHANGED <<mu, over, got, last, timeVars, broken, devVars>>

\* The function setDeadline returned: an AfterFunc that has begun is waited for.
\* The call then returns, unless it has a stream to interrupt.
StopUnwaited(c) ==
  /\ \/ Step(c, "stopOk", "ok") /\ mu' = None
     \/ Step(c, "stopFailed", "failed") /\ mu' = None
     \/ Step(c, "stopInterrupt", "interrupt") /\ UNCHANGED mu
  /\ hook' = [hook EXCEPT ![c] = IF hook[c] = "running" THEN "running" ELSE "off"]
  /\ deadline' = "none"
  /\ UNCHANGED <<over, got, last, closed, broken, devVars>>
Stop(c) ==
  /\ \/ Step(c, "stopOk", "ok") /\ mu' = None
     \/ Step(c, "stopFailed", "failed") /\ mu' = None
     \/ Step(c, "stopInterrupt", "interrupt") /\ UNCHANGED mu
  /\ hook[c] # "running" /\ hook' = [hook EXCEPT ![c] = "off"] /\ deadline' = "none"
  /\ UNCHANGED <<over, got, last, closed, broken, devVars>>

\* interruptAndRecover: ETX under a deadline of its own, then a read that starts
\* afresh.
Interrupt(c) ==
  /\ \/ /\ Step(c, "interrupt", "recover") /\ ~closed /\ ~broken
        /\ deadline' = "ahead" /\ last' = None
        /\ toDev' = Append(toDev, "etx") /\ UNCHANGED <<mu, closed>>
     \/ /\ Step(c, "interrupt", "failed") /\ (closed \/ broken)
        /\ closed' = TRUE /\ mu' = None /\ UNCHANGED <<deadline, last, toDev>>
  /\ UNCHANGED <<over, got, hook, broken, fromDev, dev, outs>>
RecoverMore(c, n) ==
  /\ Read(c, n)
  /\ \/ /\ Complete(n) /\ Step(c, "recover", "interrupted") /\ mu' = None
        /\ deadline' = "none" /\ UNCHANGED closed
     \/ ~Complete(n) /\ pc[c] = "recover" /\ UNCHANGED <<pc, mu, deadline, closed>>
     \/ Step(c, "recover", "failed") /\ closed' = TRUE /\ mu' = None /\ UNCHANGED deadline
  /\ UNCHANGED hook
RecoverForgiven(c) ==
  /\ Unusable /\ Step(c, "recover", "failed") /\ mu' = None /\ deadline' = "none"
  /\ UNCHANGED <<over, got, last, hook, closed, broken, devVars>>
RecoverFails(c) ==
  /\ Unusable /\ Step(c, "recover", "failed") /\ closed' = TRUE /\ mu' = None
  /\ UNCHANGED <<over, got, last, timeVars, broken, devVars>>

Reading(c) == \E n \in 1..Len(fromDev) : ReadMore(c, n) \/ StreamMore(c, n) \/ RecoverMore(c, n)
Running(c) ==
  \/ Write(c) \/ WriteFails(c) \/ ReadFails(c) \/ Check(c) \/ StreamFails(c)
  \/ Stop(c) \/ Interrupt(c) \/ RecoverFails(c)

-----------------------------------------------------------------------------
(* The context's goroutine, time, Close.                                   *)

ContextEnds(c) ==
  /\ pc[c] \notin {"ok", "failed", "interrupted"} /\ c \notin over /\ over' = over \cup {c}
  /\ UNCHANGED <<pc, mu, got, last, timeVars, closed, broken, devVars>>
HookStarts(c) ==
  /\ c \in over /\ hook[c] = "on" /\ hook' = [hook EXCEPT ![c] = "running"]
  /\ UNCHANGED <<callVars, deadline, closed, broken, devVars>>
HookRuns(c) ==
  /\ hook[c] = "running" /\ hook' = [hook EXCEPT ![c] = "ran"] /\ deadline' = "past"
  /\ UNCHANGED <<callVars, closed, broken, devVars>>
Hook(c) == HookStarts(c) \/ HookRuns(c)
\* A timeout, or a context's deadline, which the connection may notice first.
Expire ==
  /\ deadline = "ahead" /\ deadline' = "past"
  /\ UNCHANGED <<callVars, hook, closed, broken, devVars>>
Close ==
  /\ mu # Opener /\ pc[Opener] = "ok" /\ ~closed /\ closed' = TRUE
  /\ UNCHANGED <<callVars, timeVars, broken, devVars>>
PeerBreaks ==
  /\ ~broken /\ ~closed /\ broken' = TRUE
  /\ UNCHANGED <<callVars, timeVars, closed, devVars>>

-----------------------------------------------------------------------------
(* The device.  It runs one command line at a time; ETX ends a running      *)
(* command and is ignored at the prompt.  A command may end by itself.      *)

DevElse == UNCHANGED <<callVars, timeVars, closed, broken>>

DevTakes ==
  /\ dev = None /\ toDev # <<>> /\ Head(toDev) # "etx"
  /\ dev' = Head(toDev) /\ toDev' = Tail(toDev) /\ outs' = 0
  /\ UNCHANGED fromDev /\ DevElse
DevOut ==
  /\ dev # None /\ outs < MaxOut /\ outs' = outs + 1
  /\ fromDev' = Append(fromDev, <<dev, "out">>)
  /\ UNCHANGED <<toDev, dev>> /\ DevElse
DevEnds ==
  /\ dev # None /\ dev' = None /\ fromDev' = fromDev \o Prompt(dev)
  /\ UNCHANGED <<toDev, outs>> /\ DevElse
DevEtx ==
  /\ toDev # <<>> /\ Head(toDev) = "etx" /\ toDev' = Tail(toDev)
  /\ \/ dev = None /\ UNCHANGED <<fromDev, dev>>
     \/ dev # None /\ dev' = None /\ fromDev' = fromDev \o Prompt(dev)
  /\ UNCHANGED outs /\ DevElse

Ended == (\A c \in Op : pc[c] \in {"ok", "failed", "interrupted"}) /\ UNCHANGED vars

Next ==
  \/ \E c \in Op : Begin(c) \/ Running(c) \/ Reading(c) \/ ContextEnds(c) \/ Hook(c)
  \/ Expire \/ Close \/ PeerBreaks
  \/ DevTakes \/ DevOut \/ DevEnds \/ DevEtx
  \/ Ended

Spec == Init /\ [][Next]_vars

\* Goroutines keep running and time passes; the device need never answer.
FairSpec ==
  /\ Spec /\ WF_vars(Expire)
  /\ \A c \in Op : WF_vars(Running(c)) /\ WF_vars(Reading(c)) /\ WF_vars(Hook(c))

-----------------------------------------------------------------------------
(* Properties.                                                             *)

\* Between commands a session that is still open is at the prompt: no command is
\* running or waiting and nothing is left to read, so the next prompt ends the
\* next command (interruptAndRecover, fail).
OpenIsAtPrompt ==
  mu = None /\ ~closed => dev = None /\ fromDev = <<>> /\ \A i \in 1..Len(toDev) : toDev[i] = "etx"

\* A command that succeeds has read its own bytes only, and its own prompt.
ResponseIsOwn == \A c \in Op : pc[c] = "stopOk" => got = {c}

\* The connection is idle or in the hands of the running command: its deadline is
\* not moved by a command that has returned, nor left behind by one.
DeadlineIsOwn ==
  /\ \A c \in Op : hook[c] \in {"on", "running"} => mu = c
  /\ mu = None /\ ~closed => deadline = "none"

\* Close unblocks the running command, and a command whose context is over comes
\* back whatever the device does.
CallsReturn ==
  /\ closed ~> mu = None
  /\ \A c \in Op : (c \in over /\ mu = c) ~> mu # c
=============================================================================
