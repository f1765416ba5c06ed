-------------------------- MODULE UsbSession_proofs -------------------------
(***************************************************************************)
(* That an open session is at its prompt between commands, that answers    *)
(* and deadlines belong to the command that has the session, for any set   *)
(* of callers, whatever they ask for and however much a command prints.    *)
(***************************************************************************)
EXTENDS UsbSession, SequenceTheorems, TLAPS

Tokens == Op \X {"out", "p1", "p2"}

\* A call between Begin and its return, and one whose context has a hook.
Hooked == {"write", "read", "check", "stream", "stopOk", "stopFailed", "stopInterrupt"}
Inside == Hooked \cup {"interrupt", "recover"}

-----------------------------------------------------------------------------
TypeOK ==
  /\ pc \in [Op -> Inside \cup {"idle", "ok", "failed", "interrupted"}]
  /\ mu \in Op \cup {None}
  /\ hook \in [Op -> {"off", "on", "running", "ran"}]
  /\ deadline \in {"none", "ahead", "past"}
  /\ closed \in BOOLEAN
  /\ last \in Tokens \cup {None} /\ got \subseteq Op
  /\ toDev \in Seq(Op \cup {"etx"}) /\ fromDev \in Seq(Tokens)
  /\ dev \in Op \cup {None}

\* Who is inside opMu; a call that failed has closed the session; and a context's
\* goroutine acts for the call that is inside.
MutexInv ==
  /\ \A c \in Op : pc[c] \in Inside <=> mu = c
  /\ \A c \in Op : pc[c] = "stopFailed" => closed
  /\ \A c \in Op : hook[c] \in {"on", "running"} => pc[c] \in Hooked
  /\ mu = None /\ ~closed => deadline = "none"

\* What a call has read is its own.
GotInv ==
  /\ \A c \in Op : mu = c => got \subseteq {c}
  /\ ResponseIsOwn

\* As long as the session is open, everything under way belongs to the call inside:
\* one line at most, then one command, then its prompt, which is the end of it.
OnlyEtx == \A i \in 1..Len(toDev) : toDev[i] = "etx"
Quiet   == dev = None /\ OnlyEtx
AtPrompt == Quiet /\ fromDev = <<>>
LineInv ==
  \A i \in 1..Len(toDev) : toDev[i] # "etx" =>
    /\ toDev[i] = mu /\ dev = None /\ fromDev = <<>>
    /\ \A j \in 1..Len(toDev) : toDev[j] # "etx" => j = i
OutputInv ==
  /\ dev # None => dev = mu /\ OnlyEtx
  /\ \A i \in 1..Len(fromDev) :
       fromDev[i][1] = mu /\ (fromDev[i][2] = "p2" => i = Len(fromDev) /\ Quiet)
RestInv ==
  /\ mu = None => AtPrompt
  /\ \A c \in Op : pc[c] \in {"write", "stopOk"} => AtPrompt
DeviceInv == ~closed => LineInv /\ OutputInv /\ RestInv

IInv == TypeOK /\ MutexInv /\ GotInv /\ DeviceInv

-----------------------------------------------------------------------------
\* The initial state satisfies the invariant (Open).
LEMMA InitInv == Init => IInv
<1> SUFFICES ASSUME Init PROVE IInv
  OBVIOUS
<1> USE OpAssumption DEF Init, Op
<1>1. TypeOK
  <2>1. pc \in [Op -> Inside \cup {"idle", "ok", "failed", "interrupted"}]
    BY DEF Inside, Hooked
  <2>2. hook \in [Op -> {"off", "on", "running", "ran"}]
    OBVIOUS
  <2>3. toDev \in Seq(Op \cup {"etx"}) /\ fromDev \in Seq(Tokens)
    OBVIOUS
  <2>4. QED
    BY <2>1, <2>2, <2>3 DEF TypeOK
<1>2. MutexInv
  BY DEF MutexInv, Inside, Hooked
<1>3. GotInv
  BY DEF GotInv, ResponseIsOwn
<1>4. DeviceInv
  BY DEF DeviceInv, LineInv, OutputInv, RestInv, AtPrompt, Quiet, OnlyEtx
<1>5. QED
  BY <1>1, <1>2, <1>3, <1>4 DEF IInv

\* What a read returns: a part of what was under way, the rest stays; and it ends a
\* prompt only if the last token is the second half of one (readUntilPrompt).
LEMMA ReadTokens ==
  ASSUME IInv, NEW n \in 1..Len(fromDev)
  PROVE  /\ SubSeq(fromDev, n + 1, Len(fromDev)) \in Seq(Tokens)
         /\ Len(SubSeq(fromDev, n + 1, Len(fromDev))) = Len(fromDev) - n
         /\ \A i \in 1..(Len(fromDev) - n) :
              SubSeq(fromDev, n + 1, Len(fromDev))[i] = fromDev[n + i]
         /\ Chunk(n) \in Seq(Tokens) /\ Len(Chunk(n)) = n
         /\ \A i \in 1..n : Chunk(n)[i] = fromDev[i]
         /\ Complete(n) => fromDev[n][2] = "p2"
<1> USE DEF IInv, TypeOK
<1>1. /\ SubSeq(fromDev, n + 1, Len(fromDev)) \in Seq(Tokens)
      /\ Len(SubSeq(fromDev, n + 1, Len(fromDev))) = Len(fromDev) - n
      /\ \A i \in 1..(Len(fromDev) - n) :
           SubSeq(fromDev, n + 1, Len(fromDev))[i] = fromDev[n + i]
  BY SubSeqProperties
<1>2. /\ Chunk(n) \in Seq(Tokens) /\ Len(Chunk(n)) = n
      /\ \A i \in 1..n : Chunk(n)[i] = fromDev[i]
  BY SubSeqProperties DEF Chunk
<1>3. ASSUME Complete(n) PROVE fromDev[n][2] = "p2"
  <2>1. CASE last = None
    BY <1>2, <1>3, <2>1 DEF Complete, IsPrompt
  <2>2. CASE last # None
    <3>1. <<last>> \in Seq(Tokens) /\ Len(<<last>>) = 1
      BY <2>2
    <3>2. /\ Len(<<last>> \o Chunk(n)) = n + 1
          /\ (<<last>> \o Chunk(n))[n + 1] = Chunk(n)[n]
      BY <3>1, <1>2, ConcatProperties
    <3>3. QED
      BY <1>2, <1>3, <2>2, <3>2 DEF Complete, IsPrompt
  <2>3. QED
    BY <2>1, <2>2
<1>4. QED
  BY <1>1, <1>2, <1>3

\* Every step keeps the types (session.go).
LEMMA TypeStep ==
  ASSUME IInv, [Next]_vars
  PROVE  TypeOK'
<1> USE OpAssumption
        DEF IInv, TypeOK, Inside, Hooked, callVars, timeVars, devVars, Step, DevElse
<1>1. ASSUME NEW c \in Op, Begin(c) PROVE TypeOK'
  BY <1>1 DEF Begin, Op
<1>2. ASSUME NEW c \in Op, Write(c) PROVE TypeOK'
  <2>1. toDev' \in Seq(Op \cup {"etx"})
    BY <1>2, AppendProperties DEF Write
  <2>2. closed' \in BOOLEAN
    BY <1>2 DEF Write
  <2>3. QED
    BY <1>2, <2>1, <2>2 DEF Write
<1>3. ASSUME NEW c \in Op, WriteFails(c) \/ ReadFails(c) \/ RecoverFails(c) PROVE TypeOK'
  BY <1>3 DEF WriteFails, ReadFails, RecoverFails
<1>4. ASSUME NEW c \in Op, Check(c) \/ StreamFails(c) PROVE TypeOK'
  BY <1>4 DEF Check, StreamFails
<1>5. ASSUME NEW c \in Op, Stop(c) PROVE TypeOK'
  BY <1>5 DEF Stop
<1>6. ASSUME NEW c \in Op, Interrupt(c) PROVE TypeOK'
  <2>a. Append(toDev, "etx") \in Seq(Op \cup {"etx"})
    BY AppendProperties
  <2>1. toDev' \in Seq(Op \cup {"etx"})
    BY <1>6, <2>a DEF Interrupt
  <2>2. QED
    BY <1>6, <2>1 DEF Interrupt
<1>7. ASSUME NEW c \in Op, Reading(c) PROVE TypeOK'
  <2>1. PICK n \in 1..Len(fromDev) : ReadMore(c, n) \/ StreamMore(c, n) \/ RecoverMore(c, n)
    BY <1>7 DEF Reading
  <2>2. Read(c, n)
    BY <2>1 DEF ReadMore, StreamMore, RecoverMore
  <2>3. fromDev' \in Seq(Tokens)
    BY <2>2, ReadTokens DEF Read
  <2>4. last' \in Tokens /\ got' \subseteq Op
    <3>1. \A i \in 1..n : Chunk(n)[i] \in Tokens
      BY ReadTokens
    <3>2. fromDev[n] \in Tokens
      OBVIOUS
    <3>3. QED
      BY <2>2, <3>1, <3>2 DEF Read, Tokens
  <2>5. UNCHANGED <<hook, toDev, dev>>
    BY <2>1 DEF ReadMore, StreamMore, RecoverMore, Read
  <2>6. QED
    BY <2>1, <2>3, <2>4, <2>5 DEF ReadMore, StreamMore, RecoverMore
<1>8. ASSUME NEW c \in Op, ContextEnds(c) \/ Hook(c) PROVE TypeOK'
  BY <1>8 DEF ContextEnds, Hook, HookStarts, HookRuns
<1>9. CASE Expire \/ Close \/ PeerBreaks
  BY <1>9 DEF Expire, Close, PeerBreaks
<1>10. CASE DevTakes
  <2>1. Head(toDev) \in Op \cup {"etx"} /\ Tail(toDev) \in Seq(Op \cup {"etx"})
    BY <1>10, HeadTailProperties DEF DevTakes
  <2>2. QED
    BY <1>10, <2>1 DEF DevTakes
<1>11. CASE DevOut
  <2>1. fromDev' \in Seq(Tokens)
    BY <1>11, AppendProperties DEF DevOut, Tokens
  <2>2. QED
    BY <1>11, <2>1 DEF DevOut
<1>a. dev # None => fromDev \o Prompt(dev) \in Seq(Tokens)
  BY ConcatProperties DEF Prompt, Tokens
<1>12. CASE DevEnds
  BY <1>12, <1>a DEF DevEnds
<1>13. CASE DevEtx
  <2>1. Tail(toDev) \in Seq(Op \cup {"etx"})
    BY <1>13, HeadTailProperties DEF DevEtx
  <2>2. QED
    BY <1>13, <1>a, <2>1 DEF DevEtx
<1>14. CASE UNCHANGED vars
  BY <1>14 DEF vars
<1>15. QED
  BY <1>1, <1>2, <1>3, <1>4, <1>5, <1>6, <1>7, <1>8, <1>9, <1>10, <1>11, <1>12, <1>13, <1>14
     DEF Next, Running, Ended

\* Every step keeps opMu with one call and the deadline with it: Begin takes them,
\* Stop or the end of a recovery gives them up (setDeadline, interruptAndRecover).
LEMMA MutexStep ==
  ASSUME IInv, [Next]_vars
  PROVE  MutexInv'
<1> USE OpAssumption
        DEF IInv, TypeOK, MutexInv, Inside, Hooked, callVars, timeVars, devVars, Step, DevElse
<1>1. ASSUME NEW c \in Op, Begin(c) PROVE MutexInv'
  BY <1>1 DEF Begin
<1>2. ASSUME NEW c \in Op, Write(c) PROVE MutexInv'
  <2>1. CASE Kind[c] = "reboot"
    BY <1>2, <2>1 DEF Write
  <2>2. CASE Kind[c] # "reboot"
    <3>1. mu = c /\ \E to \in {"read", "check"} : pc' = [pc EXCEPT ![c] = to]
      BY <1>2, <2>2 DEF Write
    <3>2. UNCHANGED <<mu, hook>> /\ ~closed
      BY <1>2 DEF Write, Usable
    <3>3. QED
      BY <3>1, <3>2
  <2>3. QED
    BY <2>1, <2>2
<1>3. ASSUME NEW c \in Op, WriteFails(c) \/ ReadFails(c) \/ RecoverFails(c) PROVE MutexInv'
  BY <1>3 DEF WriteFails, ReadFails, RecoverFails
<1>4. ASSUME NEW c \in Op, Check(c) \/ StreamFails(c) PROVE MutexInv'
  BY <1>4 DEF Check, StreamFails
<1>5. ASSUME NEW c \in Op, Stop(c) PROVE MutexInv'
  BY <1>5 DEF Stop
<1>6. ASSUME NEW c \in Op, Interrupt(c) PROVE MutexInv'
  BY <1>6 DEF Interrupt
<1>7. ASSUME NEW c \in Op, NEW n \in 1..Len(fromDev), ReadMore(c, n) PROVE MutexInv'
  BY <1>7 DEF ReadMore, Read
<1>8. ASSUME NEW c \in Op, NEW n \in 1..Len(fromDev), StreamMore(c, n) PROVE MutexInv'
  BY <1>8 DEF StreamMore, Read
<1>9. ASSUME NEW c \in Op, NEW n \in 1..Len(fromDev), RecoverMore(c, n) PROVE MutexInv'
  BY <1>9 DEF RecoverMore, Read
<1>10. ASSUME NEW c \in Op, ContextEnds(c) \/ Hook(c) PROVE MutexInv'
  BY <1>10 DEF ContextEnds, Hook, HookStarts, HookRuns
<1>11. CASE Expire \/ Close \/ PeerBreaks
  BY <1>11 DEF Expire, Close, PeerBreaks
<1>12. CASE DevTakes \/ DevOut \/ DevEnds \/ DevEtx
  BY <1>12 DEF DevTakes, DevOut, DevEnds, DevEtx
<1>13. CASE UNCHANGED vars
  BY <1>13 DEF vars
<1>14. QED
  BY <1>1, <1>2, <1>3, <1>4, <1>5, <1>6, <1>7, <1>8, <1>9, <1>10, <1>11, <1>12, <1>13
     DEF Next, Running, Reading, Ended

\* What a call has read stays its own: what is under way is (readUntilPrompt).
LEMMA GotStep ==
  ASSUME IInv, [Next]_vars
  PROVE  GotInv'
<1> USE OpAssumption
        DEF IInv, TypeOK, MutexInv, GotInv, ResponseIsOwn, Inside, Hooked,
            callVars, timeVars, devVars, Step, DevElse
<1>1. ASSUME NEW c \in Op, Begin(c) PROVE GotInv'
  BY <1>1 DEF Begin
<1>2. ASSUME NEW c \in Op, Write(c) PROVE GotInv'
  BY <1>2 DEF Write
<1>3. ASSUME NEW c \in Op, WriteFails(c) \/ ReadFails(c) \/ RecoverFails(c) PROVE GotInv'
  BY <1>3 DEF WriteFails, ReadFails, RecoverFails
<1>4. ASSUME NEW c \in Op, Check(c) \/ StreamFails(c) PROVE GotInv'
  BY <1>4 DEF Check, StreamFails
<1>5. ASSUME NEW c \in Op, Stop(c) PROVE GotInv'
  BY <1>5 DEF Stop
<1>6. ASSUME NEW c \in Op, Interrupt(c) PROVE GotInv'
  BY <1>6 DEF Interrupt
<1>7. ASSUME NEW c \in Op, Reading(c) PROVE GotInv'
  <2>1. PICK n \in 1..Len(fromDev) : ReadMore(c, n) \/ StreamMore(c, n) \/ RecoverMore(c, n)
    BY <1>7 DEF Reading
  <2>2. Read(c, n) /\ mu = c
    BY <2>1 DEF ReadMore, StreamMore, RecoverMore
  <2>3. \A i \in 1..n : Chunk(n)[i][1] = c
    <3>1. OutputInv
      BY <2>2 DEF Read, DeviceInv
    <3>2. \A i \in 1..n : Chunk(n)[i] = fromDev[i]
      BY ReadTokens
    <3>3. QED
      BY <2>2, <3>1, <3>2 DEF OutputInv
  <2>4. got' = {c}
    <3>1. 1 \in 1..n
      OBVIOUS
    <3>2. {Chunk(n)[i][1] : i \in 1..n} = {c}
      BY <2>3, <3>1
    <3>3. QED
      BY <2>2, <3>2 DEF Read
  <2>5. \A d \in Op : (mu' = d => d = c) /\ (pc'[d] = "stopOk" => d = c)
    BY <2>1, <2>2 DEF ReadMore, StreamMore, RecoverMore
  <2>6. QED
    BY <2>4, <2>5
<1>8. ASSUME NEW c \in Op, ContextEnds(c) \/ Hook(c) PROVE GotInv'
  BY <1>8 DEF ContextEnds, Hook, HookStarts, HookRuns
<1>9. CASE Expire \/ Close \/ PeerBreaks
  BY <1>9 DEF Expire, Close, PeerBreaks
<1>10. CASE DevTakes \/ DevOut \/ DevEnds \/ DevEtx
  BY <1>10 DEF DevTakes, DevOut, DevEnds, DevEtx
<1>11. CASE UNCHANGED vars
  BY <1>11 DEF vars
<1>12. QED
  BY <1>1, <1>2, <1>3, <1>4, <1>5, <1>6, <1>7, <1>8, <1>9, <1>10, <1>11
     DEF Next, Running, Ended

-----------------------------------------------------------------------------
\* At its prompt nothing is under way, whoever is inside.
LEMMA PromptIsQuiet ==
  ASSUME AtPrompt
  PROVE  LineInv /\ OutputInv
BY DEF AtPrompt, Quiet, OnlyEtx, LineInv, OutputInv

\* A read takes tokens from the front and leaves the others as they are; when it
\* ends a prompt nothing is left, and the device is at its prompt (readUntilPrompt).
LEMMA ReadDevice ==
  ASSUME IInv, NEW c \in Op, NEW n \in 1..Len(fromDev), Read(c, n)
  PROVE  /\ mu' = mu => LineInv' /\ OutputInv'
         /\ Complete(n) => AtPrompt'
<1> USE DEF IInv, TypeOK
<1>1. LineInv /\ OutputInv /\ UNCHANGED <<toDev, dev>>
  BY DEF Read, DeviceInv
<1>2. OnlyEtx /\ OnlyEtx'
  <2>1. fromDev # <<>>
    OBVIOUS
  <2>2. QED
    BY <1>1, <2>1 DEF LineInv, OnlyEtx
<1>3. /\ Len(fromDev') = Len(fromDev) - n
      /\ \A i \in 1..Len(fromDev') : fromDev'[i] = fromDev[n + i]
      /\ fromDev' \in Seq(Tokens)
  BY ReadTokens DEF Read
<1>4. ASSUME mu' = mu PROVE LineInv' /\ OutputInv'
  <2>1. LineInv'
    BY <1>2 DEF LineInv, OnlyEtx
  <2>2. ASSUME NEW i \in 1..Len(fromDev')
        PROVE  fromDev'[i][1] = mu' /\ (fromDev'[i][2] = "p2" => i = Len(fromDev') /\ Quiet')
    <3>1. n + i \in 1..Len(fromDev) /\ fromDev'[i] = fromDev[n + i]
      BY <1>3, <2>2
    <3>2. fromDev[n + i][1] = mu
          /\ (fromDev[n + i][2] = "p2" => n + i = Len(fromDev) /\ Quiet)
      BY <1>1, <3>1 DEF OutputInv
    <3>3. Quiet => Quiet'
      BY <1>1, <1>2 DEF Quiet
    <3>4. n + i = Len(fromDev) => i = Len(fromDev')
      <4>1. Len(fromDev) \in Nat /\ n \in Nat /\ i \in Nat
        OBVIOUS
      <4>2. Len(fromDev') = Len(fromDev) - n
        BY <1>3
      <4>3. QED
        BY <4>1, <4>2
    <3>5. QED
      BY <1>4, <3>1, <3>2, <3>3, <3>4
  <2>3. dev' # None => dev' = mu' /\ OnlyEtx'
    BY <1>1, <1>2, <1>4 DEF OutputInv
  <2>4. QED
    BY <2>1, <2>2, <2>3 DEF OutputInv
<1>5. ASSUME Complete(n) PROVE AtPrompt'
  <2>1. fromDev[n][2] = "p2"
    BY <1>5, ReadTokens
  <2>2. n = Len(fromDev) /\ Quiet
    BY <1>1, <2>1 DEF OutputInv
  <2>3. fromDev' = <<>>
    BY <1>3, <2>2
  <2>4. QED
    BY <1>1, <1>2, <2>2, <2>3 DEF AtPrompt, Quiet
<1>6. QED
  BY <1>4, <1>5

\* A step of a call, or of what moves its deadline, keeps the device's part of the
\* invariant (session.go).
LEMMA CallDevice ==
  ASSUME IInv, MutexInv',
         \/ \E c \in Op : Begin(c) \/ Running(c) \/ Reading(c) \/ ContextEnds(c) \/ Hook(c)
         \/ Expire \/ Close \/ PeerBreaks
  PROVE  DeviceInv'
<1> SUFFICES ASSUME ~closed' PROVE LineInv' /\ OutputInv' /\ RestInv'
  BY DEF DeviceInv
<1> USE OpAssumption
        DEF IInv, TypeOK, MutexInv, Inside, Hooked, callVars, timeVars, devVars, Step
<1>a. ~closed => LineInv /\ OutputInv /\ RestInv
  BY DEF DeviceInv
<1>b. UNCHANGED <<toDev, fromDev, dev>> => (AtPrompt => AtPrompt')
  BY DEF AtPrompt, Quiet, OnlyEtx
<1>c. UNCHANGED <<mu, toDev, fromDev, dev>> => (LineInv => LineInv') /\ (OutputInv => OutputInv')
  BY DEF LineInv, OutputInv, Quiet, OnlyEtx
<1>d. AtPrompt' => LineInv' /\ OutputInv' /\ RestInv'
  BY PromptIsQuiet DEF AtPrompt, Quiet, OnlyEtx, LineInv, OutputInv, RestInv
<1>1. ASSUME NEW c \in Op, Begin(c) PROVE LineInv' /\ OutputInv' /\ RestInv'
  BY <1>1, <1>a, <1>b, <1>d DEF Begin, RestInv
<1>2. ASSUME NEW c \in Op, Write(c) PROVE LineInv' /\ OutputInv' /\ RestInv'
  <2>1. AtPrompt /\ mu = c /\ mu' = c /\ UNCHANGED <<fromDev, dev>>
    BY <1>2, <1>a DEF Write, Usable, RestInv
  <2>2. pc'[c] \in {"read", "check"}
    BY <1>2 DEF Write
  <2>3. RestInv'
    BY <2>1, <2>2 DEF RestInv
  <2>4. /\ Len(toDev') = Len(toDev) + 1 /\ toDev'[Len(toDev')] = c
        /\ \A i \in 1..Len(toDev) : toDev'[i] = toDev[i]
    BY <1>2, AppendProperties DEF Write
  <2>5. \A i \in 1..Len(toDev') : toDev'[i] # "etx" => i = Len(toDev')
    BY <2>1, <2>4 DEF AtPrompt, Quiet, OnlyEtx
  <2>6. LineInv'
    BY <2>1, <2>4, <2>5 DEF LineInv, AtPrompt, Quiet
  <2>7. OutputInv'
    BY <2>1 DEF OutputInv, AtPrompt, Quiet
  <2>8. QED
    BY <2>3, <2>6, <2>7
<1>3. ASSUME NEW c \in Op, WriteFails(c) \/ ReadFails(c) \/ RecoverFails(c)
      PROVE  LineInv' /\ OutputInv' /\ RestInv'
  BY <1>3 DEF WriteFails, ReadFails, RecoverFails
<1>4. ASSUME NEW c \in Op, Check(c) \/ StreamFails(c) PROVE LineInv' /\ OutputInv' /\ RestInv'
  <2>1. UNCHANGED <<mu, toDev, fromDev, dev>> /\ ~closed
    BY <1>4 DEF Check, StreamFails
  <2>2. \E to \in {"stopInterrupt", "stream", "stopFailed"} : pc' = [pc EXCEPT ![c] = to]
    BY <1>4 DEF Check, StreamFails
  <2>3. RestInv'
    BY <2>1, <2>2, <1>a, <1>b DEF RestInv
  <2>4. QED
    BY <2>1, <2>3, <1>a, <1>c
<1>5. ASSUME NEW c \in Op, Stop(c) PROVE LineInv' /\ OutputInv' /\ RestInv'
  <2>1. UNCHANGED <<toDev, fromDev, dev>> /\ ~closed
    BY <1>5 DEF Stop
  <2>2. CASE pc[c] = "stopOk"
    BY <2>1, <2>2, <1>a, <1>b, <1>d DEF RestInv
  <2>3. CASE Step(c, "stopInterrupt", "interrupt") /\ mu' = mu
    <3>1. RestInv'
      BY <2>1, <2>3, <1>a, <1>b DEF RestInv
    <3>2. QED
      BY <2>1, <2>3, <3>1, <1>a, <1>c
  <2>4. QED
    BY <1>5, <2>1, <2>2, <2>3 DEF Stop
<1>6. ASSUME NEW c \in Op, Interrupt(c) PROVE LineInv' /\ OutputInv' /\ RestInv'
  <2>1. /\ UNCHANGED <<mu, fromDev, dev>> /\ ~closed /\ mu = c
        /\ toDev' = Append(toDev, "etx") /\ pc'[c] = "recover"
    BY <1>6 DEF Interrupt
  <2>2. RestInv'
    BY <2>1 DEF RestInv
  <2>3. /\ Len(toDev') = Len(toDev) + 1 /\ toDev'[Len(toDev')] = "etx"
        /\ \A i \in 1..Len(toDev) : toDev'[i] = toDev[i]
    BY <2>1, AppendProperties
  <2>4. OnlyEtx => OnlyEtx'
    BY <2>3 DEF OnlyEtx
  <2>5. LineInv'
    <3>1. \A i \in 1..Len(toDev') : toDev'[i] # "etx" => i \in 1..Len(toDev)
      BY <2>3
    <3>2. QED
      BY <2>1, <2>3, <3>1, <1>a DEF LineInv
  <2>6. OutputInv'
    BY <2>1, <2>4, <1>a DEF OutputInv, Quiet
  <2>7. QED
    BY <2>2, <2>5, <2>6
<1>7. ASSUME NEW c \in Op, NEW n \in 1..Len(fromDev),
             ReadMore(c, n) \/ StreamMore(c, n) \/ RecoverMore(c, n)
      PROVE  LineInv' /\ OutputInv' /\ RestInv'
  <2>1. Read(c, n) /\ mu = c
    BY <1>7 DEF ReadMore, StreamMore, RecoverMore
  <2>2. CASE Complete(n)
    BY <2>1, <2>2, <1>d, ReadDevice
  <2>3. CASE ~Complete(n)
    <3>1. mu' = mu /\ \E to \in {"read", "check", "stopInterrupt", "recover"} : pc'[c] = to
      BY <1>7, <2>3 DEF ReadMore, StreamMore, RecoverMore
    <3>2. RestInv'
      BY <2>1, <3>1 DEF RestInv
    <3>3. QED
      BY <2>1, <3>1, <3>2, ReadDevice
  <2>4. QED
    BY <2>2, <2>3
<1>8. ASSUME NEW c \in Op, ContextEnds(c) \/ Hook(c) PROVE LineInv' /\ OutputInv' /\ RestInv'
  BY <1>8, <1>a, <1>b, <1>c DEF ContextEnds, Hook, HookStarts, HookRuns, RestInv
<1>9. CASE Expire \/ Close \/ PeerBreaks
  BY <1>9, <1>a, <1>b, <1>c DEF Expire, Close, PeerBreaks, RestInv
<1>10. QED
  BY <1>1, <1>2, <1>3, <1>4, <1>5, <1>6, <1>7, <1>8, <1>9 DEF Running, Reading

\* So does a step of the device.
LEMMA DeviceStep ==
  ASSUME IInv, DevTakes \/ DevOut \/ DevEnds \/ DevEtx
  PROVE  DeviceInv'
<1> SUFFICES ASSUME ~closed' PROVE LineInv' /\ OutputInv' /\ RestInv'
  BY DEF DeviceInv
<1> USE OpAssumption DEF IInv, TypeOK, callVars, timeVars, DevElse
<1>a. LineInv /\ OutputInv /\ RestInv /\ UNCHANGED <<pc, mu>>
  BY DEF DeviceInv, DevTakes, DevOut, DevEnds, DevEtx
<1>b. ASSUME toDev # <<>>
      PROVE  /\ Len(toDev) >= 1 /\ Len(Tail(toDev)) = Len(toDev) - 1
             /\ \A i \in 1..Len(Tail(toDev)) : i + 1 \in 1..Len(toDev) /\ Tail(toDev)[i] = toDev[i + 1]
             /\ Head(toDev) = toDev[1] /\ 1 \in 1..Len(toDev)
  BY <1>b, HeadTailProperties
\* The last line, and with it all outputs.
<1>c. ASSUME dev # None
      PROVE  /\ Len(fromDev \o Prompt(dev)) = Len(fromDev) + 2
             /\ \A i \in 1..Len(fromDev) :
                  (fromDev \o Prompt(dev))[i] = fromDev[i] /\ fromDev[i][1] = dev /\ fromDev[i][2] # "p2"
             /\ (fromDev \o Prompt(dev))[Len(fromDev) + 1] = <<dev, "p1">>
             /\ (fromDev \o Prompt(dev))[Len(fromDev) + 2] = <<dev, "p2">>
  <2>1. Prompt(dev) \in Seq(Tokens) /\ Len(Prompt(dev)) = 2
        /\ Prompt(dev)[1] = <<dev, "p1">> /\ Prompt(dev)[2] = <<dev, "p2">>
    BY <1>c DEF Prompt, Tokens
  <2>2. \A i \in 1..Len(fromDev) : fromDev[i][1] = dev /\ fromDev[i][2] # "p2"
    BY <1>a, <1>c DEF OutputInv, Quiet
  <2>3. /\ Len(fromDev \o Prompt(dev)) = Len(fromDev) + Len(Prompt(dev))
        /\ \A i \in 1..Len(fromDev) + Len(Prompt(dev)) :
             (fromDev \o Prompt(dev))[i] =
               IF i <= Len(fromDev) THEN fromDev[i] ELSE Prompt(dev)[i - Len(fromDev)]
    <3>1. fromDev \in Seq(Tokens) /\ Prompt(dev) \in Seq(Tokens)
      BY <2>1
    <3>2. QED
      BY ONLY <3>1, ConcatProperties, Zenon
  <2>4. Len(fromDev) \in Nat
    OBVIOUS
  <2>5. /\ (fromDev \o Prompt(dev))[Len(fromDev) + 1] = Prompt(dev)[1]
        /\ (fromDev \o Prompt(dev))[Len(fromDev) + 2] = Prompt(dev)[2]
        /\ \A i \in 1..Len(fromDev) : (fromDev \o Prompt(dev))[i] = fromDev[i]
    BY <2>1, <2>3, <2>4
  <2>6. QED
    BY <2>1, <2>2, <2>3, <2>5
<1>1. CASE DevTakes
  <2>1. /\ Head(toDev) = mu /\ dev' = mu /\ fromDev = <<>> /\ fromDev' = <<>>
        /\ \A j \in 1..Len(toDev) : toDev[j] # "etx" => j = 1
    BY <1>1, <1>a, <1>b DEF DevTakes, LineInv
  <2>2. OnlyEtx'
    BY <1>1, <1>b, <2>1 DEF DevTakes, OnlyEtx
  <2>3. ~AtPrompt
    BY <1>1, <1>b DEF DevTakes, AtPrompt, Quiet, OnlyEtx
  <2>4. QED
    BY <1>a, <2>1, <2>2, <2>3 DEF LineInv, OnlyEtx, OutputInv, RestInv
<1>2. CASE DevOut
  <2>1. ~AtPrompt /\ OnlyEtx /\ OnlyEtx' /\ dev = mu /\ UNCHANGED dev
    BY <1>2, <1>a DEF DevOut, AtPrompt, Quiet, OutputInv, OnlyEtx
  <2>2. /\ Len(fromDev') = Len(fromDev) + 1 /\ fromDev'[Len(fromDev')] = <<dev, "out">>
        /\ \A i \in 1..Len(fromDev) : fromDev'[i] = fromDev[i]
    <3>1. <<dev, "out">> \in Tokens
      BY <1>2 DEF DevOut, Tokens
    <3>2. QED
      BY <1>2, <3>1, AppendProperties DEF DevOut
  <2>3. \A i \in 1..Len(fromDev) : fromDev[i][1] = mu /\ fromDev[i][2] # "p2"
    BY <1>2, <1>a DEF DevOut, OutputInv, Quiet
  <2>4. \A i \in 1..Len(fromDev') : fromDev'[i][1] = mu /\ fromDev'[i][2] # "p2"
    BY <2>1, <2>2, <2>3
  <2>5. QED
    BY <1>a, <2>1, <2>4 DEF LineInv, OnlyEtx, OutputInv, RestInv
<1>3. ASSUME dev # None, dev' = None, fromDev' = fromDev \o Prompt(dev), OnlyEtx'
      PROVE  LineInv' /\ OutputInv' /\ RestInv'
  <2>1. ~AtPrompt /\ dev = mu
    BY <1>3, <1>a DEF AtPrompt, Quiet, OutputInv
  <2>2. \A i \in 1..Len(fromDev') : fromDev'[i][1] = mu /\ (fromDev'[i][2] = "p2" => i = Len(fromDev'))
    BY <1>3, <1>c, <2>1
  <2>3. QED
    BY <1>a, <1>3, <2>1, <2>2 DEF LineInv, OnlyEtx, OutputInv, RestInv, Quiet
<1>4. CASE DevEnds
  <2>1. OnlyEtx'
    BY <1>4, <1>a DEF DevEnds, OutputInv, OnlyEtx
  <2>2. QED
    BY <1>3, <1>4, <2>1 DEF DevEnds
<1>5. CASE DevEtx
  <2>1. OnlyEtx => OnlyEtx'
    BY <1>5, <1>b DEF DevEtx, OnlyEtx
  <2>2. CASE dev = None
    <3>1. UNCHANGED <<fromDev, dev>> /\ toDev' = Tail(toDev) /\ toDev # <<>>
      BY <1>5, <2>2 DEF DevEtx
    <3>2. LineInv'
      <4>1. ASSUME NEW i \in 1..Len(toDev'), toDev'[i] # "etx"
            PROVE  /\ toDev'[i] = mu /\ fromDev = <<>>
                   /\ \A j \in 1..Len(toDev') : toDev'[j] # "etx" => j = i
        <5>1. i + 1 \in 1..Len(toDev) /\ toDev[i + 1] = toDev'[i]
          BY <1>b, <3>1, <4>1
        <5>2. /\ toDev[i + 1] = mu /\ fromDev = <<>>
              /\ \A j \in 1..Len(toDev) : toDev[j] # "etx" => j = i + 1
          BY <1>a, <4>1, <5>1 DEF LineInv
        <5>3. ASSUME NEW j \in 1..Len(toDev'), toDev'[j] # "etx" PROVE j = i
          <6>1. j + 1 \in 1..Len(toDev) /\ toDev[j + 1] = toDev'[j]
            BY <1>b, <3>1, <5>3
          <6>2. j + 1 = i + 1
            BY <5>2, <5>3, <6>1
          <6>3. QED
            BY <6>2
        <5>4. QED
          BY <5>1, <5>2, <5>3
      <4>2. QED
        BY <1>a, <2>2, <3>1, <4>1 DEF LineInv
    <3>3. OutputInv'
      BY <1>a, <2>1, <3>1 DEF OutputInv, Quiet
    <3>4. RestInv'
      BY <1>a, <2>1, <3>1 DEF RestInv, AtPrompt, Quiet
    <3>5. QED
      BY <3>2, <3>3, <3>4
  <2>3. CASE dev # None
    BY <1>3, <1>5, <1>a, <2>1, <2>3 DEF DevEtx, OutputInv
  <2>4. QED
    BY <2>2, <2>3
<1>6. QED
  BY <1>1, <1>2, <1>4, <1>5

-----------------------------------------------------------------------------
\* The inductive invariant holds in every reachable state (session.go).
THEOREM Invariance == Spec => []IInv
<1>1. IInv /\ [Next]_vars => IInv'
  <2> SUFFICES ASSUME IInv, [Next]_vars PROVE IInv'
    OBVIOUS
  <2>1. TypeOK' /\ MutexInv' /\ GotInv'
    BY TypeStep, MutexStep, GotStep
  <2>2. CASE UNCHANGED vars
    BY <2>1, <2>2 DEF IInv, vars, devVars, callVars, DeviceInv, LineInv, OutputInv, RestInv,
                      AtPrompt, Quiet, OnlyEtx
  <2>3. QED
    BY <2>1, <2>2, CallDevice, DeviceStep DEF IInv, Next, Ended
<1>2. QED
  BY InitInv, <1>1, PTL DEF Spec

\* Between commands an open session is at its prompt, so that the next prompt ends
\* the next command, whatever was interrupted before (interruptAndRecover, fail).
THEOREM OpenSessionAtPrompt == Spec => []OpenIsAtPrompt
<1>1. IInv => OpenIsAtPrompt
  BY DEF IInv, DeviceInv, RestInv, AtPrompt, Quiet, OnlyEtx, OpenIsAtPrompt
<1>2. QED
  BY <1>1, Invariance, PTL

\* A command that succeeds has read bytes of its own and of no other command
\* (readUntilPrompt).
THEOREM ResponsesAreOwn == Spec => []ResponseIsOwn
<1>1. IInv => ResponseIsOwn
  BY DEF IInv, GotInv
<1>2. QED
  BY <1>1, Invariance, PTL

\* No command moves the connection's deadline after it has returned, and none
\* leaves one behind (setDeadline).
THEOREM DeadlinesAreOwn == Spec => []DeadlineIsOwn
<1>1. IInv => DeadlineIsOwn
  BY DEF IInv, TypeOK, MutexInv, Inside, DeadlineIsOwn
<1>2. QED
  BY <1>1, Invariance, PTL
=============================================================================
