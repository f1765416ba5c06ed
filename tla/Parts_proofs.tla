----------------------------- MODULE Parts_proofs ----------------------------
(*****************************************************************************)
(* What is proved of the smaller parts, for every value of their constants:  *)
(* each part's inductive invariant, that its own steps keep it and that it   *)
(* implies the property the Parts run checks; and at the end the theorems, of *)
(* behaviours in which any one of the parts is at work.                      *)
(*****************************************************************************)
EXTENDS Parts, TLAPS, SequenceTheorems, FiniteSetTheorems, WellFoundedInduction

-----------------------------------------------------------------------------
\* RequestPreparation: which paths are blocked, and what is sent.

\* One more segment at the end of a path.
LEMMA OneMore ==
  ASSUME NEW S, NEW path \in Seq(S), NEW e \in S, Len(path) >= 2
  PROVE  /\ Last(Append(path, e)) = e /\ Front(Append(path, e)) = path
         /\ \A a, b : Append(path, e) # <<a, b>>
<1> DEFINE long == Append(path, e)
<1>1. long \in Seq(S) /\ Len(long) = Len(path) + 1 /\ Len(path) \in Nat /\ long[Len(path) + 1] = e
  OBVIOUS
<1>2. Last(long) = e
  BY <1>1 DEF Last
<1>3. Front(long) = path
  <2>1. Len(long) - 1 = Len(path)
    BY <1>1
  <2>2. SubSeq(long, 1, Len(path)) = path
    BY <1>1
  <2>3. QED
    BY <2>1, <2>2 DEF Front
<1>4. ASSUME NEW a, NEW b, long = <<a, b>> PROVE FALSE
  <2>1. Len(long) >= 3
    BY <1>1
  <2>2. Len(<<a, b>>) = 2
    OBVIOUS
  <2> HIDE DEF long
  <2>3. QED
    BY <1>4, <2>1, <2>2
<1>5. QED
  BY <1>2, <1>3, <1>4

\* A path over S of two segments or more that does not end with e, and the short ones.
EndsPlain(S, e, path) == path \in Seq(S) /\ Len(path) >= 2 /\ Last(path) # e
LEMMA ShortPaths ==
  ASSUME NEW S, NEW e, NEW a \in S, NEW b \in S, NEW c \in S
  PROVE  /\ b # e => EndsPlain(S, e, <<a, b>>)
         /\ c # e => EndsPlain(S, e, <<a, b, c>>)
BY DEF EndsPlain, Last

\* The segments of the blocked paths; none of these paths ends with a slash.
Words == {"", "api", "update", "account", "backend", "link", "wifi", "connect", "disconnect", "networks"}
LEMMA BlockedShape ==
  ASSUME NEW op \in remoteBlockedOperations
  PROVE  op = <<op[1], op[2]>> /\ EndsPlain(Words, "", op[2])
<1>1. op = <<op[1], op[2]>>
  BY DEF remoteBlockedOperations
<1>2. \/ \E b \in {"update", "account"} : op[2] = <<"api", b>>
      \/ \E b \in {"account", "wifi"}, c \in {"backend", "link", "connect", "disconnect", "networks"} :
           op[2] = <<"api", b, c>>
  BY DEF remoteBlockedOperations
<1>3. CASE \E b \in {"update", "account"} : op[2] = <<"api", b>>
  <2>1. PICK b \in {"update", "account"} : op[2] = <<"api", b>>
    BY <1>3
  <2>2. b \in Words /\ "api" \in Words /\ b # ""
    BY DEF Words
  <2>3. EndsPlain(Words, "", <<"api", b>>)
    BY ONLY <2>2, ShortPaths, Zenon
  <2>4. QED
    BY <1>1, <2>1, <2>3, Zenon
<1>4. CASE \E b \in {"account", "wifi"}, c \in {"backend", "link", "connect", "disconnect", "networks"} :
             op[2] = <<"api", b, c>>
  <2>1. PICK b \in {"account", "wifi"}, c \in {"backend", "link", "connect", "disconnect", "networks"} :
          op[2] = <<"api", b, c>>
    BY <1>4
  <2>2. b \in Words /\ "api" \in Words /\ c \in Words /\ c # ""
    BY DEF Words
  <2>3. EndsPlain(Words, "", <<"api", b, c>>)
    BY ONLY <2>2, ShortPaths, Zenon
  <2>4. QED
    BY <1>1, <2>1, <2>3, Zenon
<1>5. QED
  BY <1>2, <1>3, <1>4, Zenon

\* A path spelled like a blocked one, with or without a slash at its end, is blocked.
LEMMA SpellingBlocked ==
  ASSUME NEW sent, NEW op \in remoteBlockedOperations, SameOperation(sent, op)
  PROVE  IsRemoteBlockedOperation(sent.method, sent.path)
<1>1. op = <<op[1], op[2]>> /\ op[2] \in Seq(Words) /\ Len(op[2]) >= 2 /\ Last(op[2]) # ""
  BY BlockedShape, Zenon DEF EndsPlain
<1>2. sent.method = op[1] /\ sent.path \in {op[2], Append(op[2], "")}
  BY DEF SameOperation
<1>3. CASE sent.path = op[2]
  BY <1>1, <1>2, <1>3, Zenon DEF IsRemoteBlockedOperation
<1>4. CASE sent.path = Append(op[2], "")
  <2>1. "" \in Words
    BY DEF Words
  <2>2. /\ Last(Append(op[2], "")) = "" /\ Front(Append(op[2], "")) = op[2]
        /\ Append(op[2], "") # <<"api", "">>
    <3>1. PICK p : p = op[2]
      OBVIOUS
    <3>2. p \in Seq(Words) /\ Len(p) >= 2
      BY <1>1, <3>1, Zenon
    <3>3. /\ Last(Append(p, "")) = "" /\ Front(Append(p, "")) = p
          /\ \A a, b : Append(p, "") # <<a, b>>
      BY ONLY <2>1, <3>2, OneMore
    <3>4. QED
      BY <3>1, <3>3, Zenon
  <2>3. Last(sent.path) = "" /\ Front(sent.path) = op[2] /\ sent.path # <<"api", "">>
    BY <1>4, <2>2, Zenon
  <2>4. QED
    BY <1>1, <1>2, <2>3, Zenon DEF IsRemoteBlockedOperation
<1>5. QED
  BY <1>2, <1>3, <1>4

\* What every attempt hands to the transport.
Sent == [method |-> ready.method, path |-> ready.path, token |-> ready.token]
\* A request that may be sent.
Blameless ==
  /\ request.header = "none"
  /\ request.remote => ~ready.token /\ \A op \in remoteBlockedOperations : ~SameOperation(Sent, op)

\* The transport is given what Prepare made of the request and nothing before it.
SentInv ==
  /\ onWire \in Seq({Sent})
  /\ answer = "start" => onWire = <<>>
  /\ answer = "prepared" \/ onWire # <<>> => Blameless

\* From the answer on, the body sent is the one measured.
BodyInv ==
  /\ opened \in Nat /\ (request.body = "reader" => opened <= 1)
  /\ request.response \in Inputs(MaxResponseBytes + 2)
  /\ answer \in {"answered", "data", "streamed"} =>
       /\ request.body # "none" => transfer = size /\ ready.length \in {Unknown, size}
       /\ request.reports => progress = transfer
  /\ answer \in {"data", "streamed"} => ~request.response.fails
  /\ answer = "data" => request.response.units <= MaxResponseBytes

RequestInv == SentInv /\ BodyInv

\* Nothing is sent before Prepare.
LEMMA RequestInits == RequestInit \/ RequestIdle => RequestInv
<1> SUFFICES ASSUME RequestQuiet,
                    request.response \in Inputs(MaxResponseBytes + 2),
                    answer \in {"start", "none"}
             PROVE  RequestInv
  <2>1. Small \in Inputs(MaxResponseBytes + 2)
    BY BodyAssumption DEF Small, Inputs
  <2>2. CASE RequestInit
    BY <2>1, <2>2 DEF RequestInit, Requests
  <2>3. CASE RequestIdle
    <3> DEFINE idle == Requests({"GET"}, {<<"">>}, {FALSE}, {"none"}, {"none"}, {Small})
    <3>1. [method |-> "GET", path |-> <<"">>, remote |-> FALSE, header |-> "none",
           body |-> "none", reports |-> TRUE, response |-> Small] \in idle
      BY DEF Requests
    <3>2. request \in idle
      BY <2>3, <3>1 DEF RequestIdle
    <3>3. request.response = Small
      BY <3>2 DEF Requests
    <3>4. QED
      BY <2>1, <2>3, <3>3 DEF RequestIdle
  <2>4. QED
    BY <2>2, <2>3
<1>1. SentInv
  BY DEF RequestQuiet, SentInv
<1>2. BodyInv
  BY DEF RequestQuiet, BodyInv
<1>3. QED
  BY <1>1, <1>2 DEF RequestInv

\* Every step keeps the invariant: Prepare lets nothing blocked through, and no
\* later step changes what it made.
LEMMA RequestStep ==
  ASSUME RequestInv, RequestNext \/ UNCHANGED requestVars
  PROVE  RequestInv'
<1> USE BodyAssumption DEF RequestInv
<1>1. CASE Prepare
  <2> DEFINE method == Upper[request.method]
             path == canonicalAPIPath(request.path)
  <2>1. /\ answer = "start" /\ UNCHANGED <<request, size, opened, onWire, transfer, progress>>
        /\ onWire = <<>> /\ onWire' \in Seq({Sent'})
    BY <1>1 DEF Prepare, SentInv
  <2>2. CASE answer' = "prepared"
    <3>1. /\ request.header = "none"
          /\ request.remote => ~IsRemoteBlockedOperation(method, path)
          /\ ready' = [method |-> method, path |-> path, length |-> contentLength,
                       token |-> ~request.remote]
      BY <1>1, <2>2 DEF Prepare
    <3>2. Sent'.method = method /\ Sent'.path = path
      BY <3>1 DEF Sent
    <3>3. request.remote => \A op \in remoteBlockedOperations : ~SameOperation(Sent', op)
      BY <3>1, <3>2, SpellingBlocked
    <3>4. Blameless'
      BY <2>1, <3>1, <3>3 DEF Blameless
    <3>5. SentInv'
      BY <2>1, <2>2, <3>4 DEF SentInv
    <3>6. BodyInv'
      BY <2>1, <2>2 DEF BodyInv
    <3>7. QED
      BY <3>5, <3>6
  <2>3. CASE answer' = "rejected"
    <3>1. SentInv'
      BY <2>1, <2>3 DEF SentInv
    <3>2. BodyInv'
      BY <2>1, <2>3 DEF BodyInv
    <3>3. QED
      BY <3>1, <3>2
  <2>4. QED
    BY <1>1, <2>2, <2>3 DEF Prepare
<1>2. CASE FileChanges
  <2>1. SentInv'
    BY <1>2 DEF FileChanges, SentInv, Sent, Blameless
  <2>2. BodyInv'
    BY <1>2 DEF FileChanges, BodyInv
  <2>3. QED
    BY <2>1, <2>2
<1>3. CASE SendOnce
  <2>1. answer = "prepared" /\ UNCHANGED <<request, ready, size>> /\ Blameless
    BY <1>3 DEF SendOnce, SentInv
  <2>2. Sent' = Sent /\ Blameless'
    BY <2>1 DEF Sent, Blameless
  <2>3. SentInv'
    <3>1. answer' # "start"
      BY <1>3 DEF SendOnce
    <3>2. onWire' \in Seq({Sent})
      BY <1>3 DEF SendOnce, SentInv, Sent
    <3>3. QED
      BY <2>1, <2>2, <3>1, <3>2 DEF SentInv
  <2>4. BodyInv'
    <3>1. CASE consumed
      BY <1>3, <2>1, <3>1 DEF SendOnce, BodyInv
    <3>2. CASE ~consumed
      BY <1>3, <2>1, <3>2 DEF SendOnce, BodyInv, consumed, reported
    <3>3. QED
      BY <3>1, <3>2
  <2>5. QED
    BY <2>3, <2>4
<1>4. CASE CompatibilityRetry
  <2>1. SentInv'
    <3>1. UNCHANGED <<request, ready, onWire>> /\ answer' = "prepared" /\ answer = "answered" /\ Len(onWire) = 1
      BY <1>4 DEF CompatibilityRetry
    <3>2. Sent' = Sent /\ (Blameless' <=> Blameless)
      BY <3>1 DEF Sent, Blameless
    <3>3. onWire # <<>>
      BY <3>1
    <3>4. QED
      BY <3>1, <3>2, <3>3 DEF SentInv
  <2>2. BodyInv'
    BY <1>4 DEF CompatibilityRetry, BodyInv
  <2>3. QED
    BY <2>1, <2>2
<1>5. CASE Respond
  <2>1. answer' \notin {"start", "prepared", "answered"} /\ answer = "answered"
    BY <1>5 DEF Respond, ReadAll
  <2>2. SentInv'
    BY <1>5, <2>1 DEF Respond, SentInv, Sent, Blameless
  <2>3. /\ answer' \in {"data", "streamed"} => ~request.response.fails
        /\ answer' = "data" => request.response.units <= MaxResponseBytes
    <3>1. request.response.units \in Nat /\ MaxResponseBytes \in Nat
      BY DEF BodyInv, Inputs
    <3>2. CASE answer' = ReadAll(request.response, MaxResponseBytes)
      <4>1. CASE request.response.units > MaxResponseBytes
        BY <3>1, <3>2, <4>1 DEF ReadAll
      <4>2. CASE request.response.units <= MaxResponseBytes
        BY <3>1, <3>2, <4>2 DEF ReadAll
      <4>3. QED
        BY <3>1, <4>1, <4>2
    <3>3. CASE answer' = IF request.response.fails THEN "error" ELSE "streamed"
      BY <3>3
    <3>4. QED
      BY <1>5, <3>2, <3>3 DEF Respond
  <2>4. BodyInv'
    BY <1>5, <2>1, <2>3 DEF Respond, BodyInv
  <2>5. QED
    BY <2>2, <2>4
<1>6. CASE UNCHANGED requestVars
  <2>1. SentInv'
    BY <1>6 DEF requestVars, SentInv, Sent, Blameless
  <2>2. BodyInv'
    BY <1>6 DEF requestVars, BodyInv
  <2>3. QED
    BY <2>1, <2>2
<1>7. QED
  BY <1>1, <1>2, <1>3, <1>4, <1>5, <1>6 DEF RequestNext

\* What the transport was given is what Prepare made.
LEMMA RequestGoal == RequestInv => SentAsPrepared
<1> SUFFICES ASSUME RequestInv PROVE SentAsPrepared
  OBVIOUS
<1>1. ASSUME NEW i \in DOMAIN onWire
      PROVE  /\ request.remote =>
                  ~onWire[i].token /\ \A op \in remoteBlockedOperations : ~SameOperation(onWire[i], op)
             /\ request.header = "none"
  <2>1. onWire[i] = Sent /\ onWire # <<>>
    BY DEF RequestInv, SentInv
  <2>2. QED
    BY <2>1 DEF RequestInv, SentInv, Blameless, Sent
<1>2. QED
  BY <1>1 DEF RequestInv, BodyInv, SentAsPrepared

-----------------------------------------------------------------------------
\* BusyTimer: the timer, and the copy the application holds.

\* The values a timer may have, whatever its settings.
AnySettings == [type : {"INTERVAL"}, work : Nat, rest : Nat, cycles : Int]
Intervals == [type : {"INTERVAL"}, paused : BOOLEAN, interval : Nat, total : Nat, left : Nat,
              settings : AnySettings]
Simples == [type : {"SIMPLE"}, paused : BOOLEAN, left : Nat]
Infinites == [type : {"INFINITE"}, paused : BOOLEAN]
Timers == {NotStarted} \cup Infinites \cup Simples \cup Intervals

\* The timer is one the device was allowed to start, and the copy as well until
\* the application changes a setting in it.
BusyInv ==
  /\ timer \in Timers /\ copy \in Timers /\ edited \in BOOLEAN
  /\ validSnapshot(timer)
  /\ ~edited => validSnapshot(copy)
  /\ written = "rejected" => edited

\* No timer runs and none was read.
LEMMA BusyInits == BusyInit \/ BusyIdle => BusyInv
<1> SUFFICES ASSUME timer = NotStarted, copy = NotStarted, edited = FALSE, written = "none"
             PROVE  BusyInv
  BY DEF BusyInit, BusyIdle
<1>1. NotStarted \in Timers /\ validSnapshot(NotStarted)
  BY DEF NotStarted, Timers, validSnapshot
<1>2. QED
  BY <1>1 DEF BusyInv

\* What SetProfile accepts starts a timer that is valid.
LEMMA StartedValid ==
  ASSUME NEW s \in Settings, validSettings(s)
  PROVE  Started(s) \in Timers /\ validSnapshot(Started(s))
<1> USE LimitsAssumption
<1>1. CASE s.type = "INFINITE"
  BY <1>1 DEF Started, Timers, Infinites, validSnapshot
<1>2. CASE s.type = "SIMPLE"
  <2>1. s.total \in 0..SimpleMax
    BY <1>2 DEF validSettings
  <2>2. QED
    BY <1>2, <2>1 DEF Started, Timers, Simples, validSnapshot
<1>3. CASE s.type = "INTERVAL"
  <2>1. s \in AnySettings /\ validateBusyInterval(s)
    BY <1>3 DEF validSettings, Settings, AnySettings
  <2>2. QED
    BY <1>3, <2>1 DEF Started, Timers, Intervals, AnySettings, validSnapshot, validateBusyInterval, Bound
<1>4. QED
  BY <1>1, <1>2, <1>3 DEF Settings

\* A timer that goes on stays valid.
LEMMA TickValid ==
  ASSUME timer \in Timers, validSnapshot(timer), Tick
  PROVE  timer' \in Timers /\ validSnapshot(timer')
<1> USE LimitsAssumption
<1>1. CASE timer.type = "SIMPLE"
  <2>1. timer \in Simples
    BY <1>1 DEF Timers, NotStarted, Infinites, Intervals
  <2>2. CASE timer.left > 0
    BY <1>1, <2>1, <2>2 DEF Tick, Timers, Simples, validSnapshot
  <2>3. CASE ~(timer.left > 0)
    BY <1>1, <2>1, <2>3 DEF Tick, Timers, NotStarted, validSnapshot
  <2>4. QED
    BY <2>2, <2>3
<1>2. CASE timer.type = "INTERVAL"
  <2>1. timer \in Intervals /\ timer.settings \in AnySettings
    BY <1>2 DEF Timers, NotStarted, Infinites, Simples, Intervals
  <2>2. /\ validateBusyInterval(timer.settings) /\ timer.interval \in 0..2 * CyclesMax - 2
        /\ timer.left \in 0..timer.total /\ timer.left <= Bound(timer)
    BY <1>2 DEF validSnapshot
  <2>3. CASE timer.left > 0
    <3>1. timer' = [timer EXCEPT !.left = @ - 1]
      BY <2>3 DEF Tick
    <3>2. timer' \in Intervals /\ Bound(timer') = Bound(timer)
      BY <2>1, <2>3, <3>1 DEF Intervals, Bound
    <3>3. validSnapshot(timer')
      BY <2>1, <2>2, <2>3, <3>1, <3>2 DEF Intervals, AnySettings, validSnapshot, validateBusyInterval, Bound
    <3>4. QED
      BY <3>2, <3>3 DEF Timers
  <2>4. CASE ~(timer.left > 0) /\ timer.interval >= 2 * timer.settings.cycles - 2
    BY <1>2, <2>4 DEF Tick, Timers, NotStarted, validSnapshot
  <2>5. CASE ~(timer.left > 0) /\ ~(timer.interval >= 2 * timer.settings.cycles - 2)
    <3> DEFINE length == IF (timer.interval + 1) % 2 = 1 THEN timer.settings.rest ELSE timer.settings.work
    <3>1. timer' = [timer EXCEPT !.interval = timer.interval + 1, !.total = length, !.left = length]
      BY <1>2, <2>1, <2>5 DEF Tick, Intervals
    <3>2. length \in Nat
      BY <2>1 DEF AnySettings
    <3>3. /\ timer' \in Intervals /\ timer'.interval = timer.interval + 1
          /\ timer'.left = length /\ timer'.total = length /\ timer'.settings = timer.settings
      <4> HIDE DEF length
      <4> DEFINE later == [timer EXCEPT !.interval = timer.interval + 1]
                 longer == [later EXCEPT !.total = length]
      <4>1. later \in Intervals /\ later.interval = timer.interval + 1
            /\ later.settings = timer.settings
        BY <2>1 DEF Intervals
      <4>2. longer \in Intervals /\ longer.interval = later.interval /\ longer.total = length
            /\ longer.settings = later.settings
        <5> HIDE DEF later
        <5>1. QED
          BY <3>2, <4>1 DEF Intervals
      <4>3. timer' = [longer EXCEPT !.left = length]
        BY <3>1
      <4>4. QED
        <5> HIDE DEF later, longer
        <5>1. QED
          BY <3>2, <4>1, <4>2, <4>3 DEF Intervals
    <3>4. timer'.interval \in 0..2 * CyclesMax - 2
      BY <2>1, <2>2, <2>5, <3>3 DEF Intervals, AnySettings, validateBusyInterval
    <3>5. Bound(timer') = length
      BY <3>3 DEF Bound
    <3>6. validSnapshot(timer')
      BY <2>1, <2>2, <3>2, <3>3, <3>4, <3>5 DEF Intervals, AnySettings, validSnapshot
    <3>7. QED
      BY <3>3, <3>6 DEF Timers
  <2>6. QED
    BY <2>3, <2>4, <2>5
<1>3. QED
  BY <1>1, <1>2 DEF Tick

\* The application's changes keep the shape of its copy; pausing keeps it valid.
LEMMA CopyChanges ==
  ASSUME copy \in Timers
  PROVE  /\ Pause => copy' \in Timers /\ (validSnapshot(copy) => validSnapshot(copy'))
         /\ Edit => copy' \in Timers
<1>1. ASSUME Pause PROVE copy' \in Timers /\ (validSnapshot(copy) => validSnapshot(copy'))
  <2>1. copy' = [copy EXCEPT !.paused = ~@] /\ copy \in Infinites \cup Simples \cup Intervals
    BY <1>1 DEF Pause, Timers, NotStarted
  <2>2. CASE copy \in Infinites
    BY <2>1, <2>2 DEF Infinites, Timers, validSnapshot
  <2>3. CASE copy \in Simples
    BY <2>1, <2>3 DEF Simples, Timers, validSnapshot
  <2>4. CASE copy \in Intervals
    BY <2>1, <2>4 DEF Intervals, Timers, validSnapshot, Bound
  <2>5. QED
    BY <2>1, <2>2, <2>3, <2>4
<1>2. ASSUME Edit PROVE copy' \in Timers
  <2>1. copy \in Intervals /\ copy.settings \in AnySettings
    BY <1>2 DEF Edit, Timers, NotStarted, Infinites, Simples, Intervals
  <2>2. PICK d \in 0..IntervalMax + 1 :
          copy' \in {[copy EXCEPT !.settings.work = d], [copy EXCEPT !.settings.rest = d],
                     [copy EXCEPT !.settings.cycles = d + CyclesMin - 1]}
    BY <1>2 DEF Edit
  <2>3. copy' \in Intervals
    BY LimitsAssumption, <2>1, <2>2 DEF Intervals, AnySettings
  <2>4. QED
    BY <2>3 DEF Timers
<1>3. QED
  BY <1>1, <1>2

\* Every step keeps the invariant.
LEMMA BusyStep ==
  ASSUME BusyInv, BusyNext \/ UNCHANGED busyVars
  PROVE  BusyInv'
<1>1. CASE SetProfile
  BY <1>1, StartedValid DEF BusyInv, SetProfile
<1>2. CASE Snapshot
  BY <1>2 DEF BusyInv, Snapshot
<1>3. CASE Pause
  BY <1>3, CopyChanges DEF BusyInv, Pause
<1>4. CASE Edit
  BY <1>4, CopyChanges DEF BusyInv, Edit
<1>5. CASE SetSnapshot
  BY <1>5 DEF BusyInv, SetSnapshot
<1>6. CASE Tick
  BY <1>6, TickValid DEF BusyInv, Tick
<1>7. CASE UNCHANGED busyVars
  BY <1>7 DEF BusyInv, busyVars
<1>8. QED
  BY <1>1, <1>2, <1>3, <1>4, <1>5, <1>6, <1>7 DEF BusyNext

\* A valid timer reads back as itself.
LEMMA BusyGoal == BusyInv => SnapshotReturns
<1> SUFFICES ASSUME BusyInv PROVE SnapshotReturns
  OBVIOUS
<1>1. CASE timer.type = "INTERVAL"
  <2>1. timer \in Intervals
    BY <1>1 DEF BusyInv, Timers, NotStarted, Infinites, Simples
  <2>2. timer.interval % 2 = 0 \/ timer.interval % 2 = 1
    BY <2>1 DEF Intervals
  <2>3. QED
    BY <1>1, <2>1, <2>2 DEF BusyInv, SnapshotReturns, validSnapshot, validateBusyInterval, Bound, Intervals, AnySettings
<1>2. CASE timer.type # "INTERVAL"
  BY <1>2 DEF BusyInv, SnapshotReturns, validSnapshot
<1>3. QED
  BY <1>1, <1>2

-----------------------------------------------------------------------------
\* AudioConversion: the parties of command.Run.

\* The values of the variables.
AudioTypeOK ==
  /\ sound \in Sounds(Extensions)
  /\ stdin \in {"idle", "copying", "done", "failed"}
  /\ tool \in {"idle", "running", "succeeded", "failed"}
  /\ stdout \in {"idle", "copying", "done"}
  /\ produced \in Nat /\ pipe \in Nat /\ kept \in Nat
  /\ exceeded \in BOOLEAN /\ expired \in BOOLEAN

\* What the tool wrote is in the pipe or the buffer, until the buffer is exceeded.
PipeInv ==
  /\ ~exceeded => kept <= MaxOutputBytes /\ (sound.ext = "input" => kept + pipe = produced)
  /\ exceeded => stdout = "done" /\ produced > MaxOutputBytes
  /\ stdout = "done" /\ ~exceeded => pipe = 0 /\ tool # "running"

\* Nothing runs before Convert and after the verdict, nor without ffmpeg.
PhaseInv ==
  /\ audio = "start" \/ sound.ext # "input" =>
       /\ stdin = "idle" /\ tool = "idle" /\ stdout = "idle" /\ produced = 0 /\ pipe = 0
       /\ ~exceeded
  /\ audio = "start" => kept = 0
  /\ audio = "running" => tool # "idle" /\ stdin # "idle" /\ stdout # "idle" /\ sound.ext = "input"
  /\ audio \notin {"start", "running"} =>
       tool # "running" /\ stdin # "copying" /\ stdout # "copying"

AudioInv == AudioTypeOK /\ PipeInv /\ PhaseInv /\ ResultIsComplete

\* Nothing runs before Convert.
LEMMA AudioInits == AudioInit \/ AudioIdle => AudioInv
<1> SUFFICES ASSUME AudioQuiet, sound \in Sounds(Extensions), audio \in {"start", "none"},
                    audio = "none" => sound.ext = "unknown"
             PROVE  AudioInv
  <2>1. CASE AudioInit
    BY <2>1 DEF AudioInit
  <2>2. CASE AudioIdle
    <3>1. [units |-> 0, fails |-> FALSE] \in Inputs(MaxOutputBytes + 2)
      BY AudioAssumption DEF Inputs
    <3>2. sound \in Sounds(Extensions) /\ sound.ext = "unknown"
      BY <2>2, <3>1 DEF AudioIdle, Sounds, Extensions
    <3>3. QED
      BY <2>2, <3>2 DEF AudioIdle
  <2>3. QED
    BY <2>1, <2>2
<1>1. AudioTypeOK
  BY DEF AudioQuiet, AudioTypeOK
<1>2. PipeInv
  BY AudioAssumption DEF AudioQuiet, PipeInv
<1>3. PhaseInv /\ ResultIsComplete
  BY DEF AudioQuiet, PhaseInv, ResultIsComplete
<1>4. QED
  BY <1>1, <1>2, <1>3 DEF AudioInv

\* Every step of the tool, of the goroutines at its pipes and of Run keeps it.
LEMMA AudioStep ==
  ASSUME AudioInv, AudioNext \/ UNCHANGED audioVars
  PROVE  AudioInv'
<1> USE AudioAssumption DEF AudioInv, AudioTypeOK, PipeInv, PhaseInv
<1>typed. produced \in Nat /\ pipe \in Nat /\ kept \in Nat
  OBVIOUS
<1>1. CASE Convert
  <2>1. /\ audio = "start" /\ UNCHANGED <<sound, produced, pipe, exceeded, expired>>
        /\ sound.ext \in Extensions /\ sound.source.units \in Nat
    BY <1>1 DEF Convert, Sounds, Inputs
  <2>2. CASE sound.ext = "unknown"
    <3>1. audio' = "unsupported" /\ UNCHANGED <<stdin, tool, stdout, kept>>
      BY <1>1, <2>2 DEF Convert
    <3>2. QED
      BY <2>1, <2>2, <3>1 DEF ResultIsComplete
  <2>3. CASE sound.ext = "ready"
    <3>1. /\ audio' = IF ReadAll(sound.source, MaxOutputBytes) # "data"
                      THEN ReadAll(sound.source, MaxOutputBytes)
                      ELSE IF Even(sound.source.units) THEN "ok" ELSE "invalid"
          /\ kept' = IF audio' = "ok" THEN sound.source.units ELSE 0
          /\ UNCHANGED <<stdin, tool, stdout>>
      BY <1>1, <2>3 DEF Convert
    <3>2. /\ ReadAll(sound.source, MaxOutputBytes) \in {"too large", "error", "data"}
          /\ ReadAll(sound.source, MaxOutputBytes) = "too large" <=> sound.source.units > MaxOutputBytes
          /\ ReadAll(sound.source, MaxOutputBytes) = "data" => ~sound.source.fails
      BY <2>1 DEF ReadAll
    <3>3. CASE audio' = "ok"
      <4>1. /\ kept' = sound.source.units /\ Even(kept') /\ kept' <= MaxOutputBytes
            /\ ~sound.source.fails
        <5>1. ReadAll(sound.source, MaxOutputBytes) = "data" /\ Even(sound.source.units)
          BY <3>1, <3>2, <3>3
        <5>2. ~(sound.source.units > MaxOutputBytes) /\ ~sound.source.fails
          BY <3>2, <5>1
        <5>3. QED
          BY <2>1, <3>1, <3>3, <5>1, <5>2
      <4>2. QED
        BY <2>1, <2>3, <3>1, <3>3, <4>1 DEF ResultIsComplete
    <3>4. CASE audio' # "ok"
      <4>1. /\ kept' = 0 /\ audio' \in {"too large", "error", "invalid"}
            /\ audio' = "too large" => sound.source.units > MaxOutputBytes
            /\ audio' = "invalid" => ~Even(sound.source.units)
        BY <3>1, <3>2, <3>4
      <4>2. QED
        BY <2>1, <2>3, <3>1, <3>4, <4>1 DEF ResultIsComplete
    <3>5. QED
      BY <3>3, <3>4
  <2>4. CASE sound.ext = "input"
    <3>1. /\ audio' = "running" /\ stdin' = "copying" /\ stdout' = "copying"
          /\ tool' \in {"failed", "running"} /\ UNCHANGED kept
      BY <1>1, <2>4 DEF Convert
    <3>2. QED
      BY <2>1, <2>4, <3>1 DEF ResultIsComplete
  <2>5. QED
    BY <2>1, <2>2, <2>3, <2>4 DEF Extensions
<1>2. CASE SourceEnds
  <2>1. AudioTypeOK'
    BY <1>2 DEF SourceEnds
  <2>2. PipeInv' /\ PhaseInv'
    BY <1>2 DEF SourceEnds
  <2>3. ResultIsComplete'
    BY <1>2 DEF SourceEnds, ResultIsComplete
  <2>4. QED
    BY <2>1, <2>2, <2>3
<1>3. CASE InputRefused
  <2>1. AudioTypeOK'
    BY <1>3 DEF InputRefused
  <2>2. PipeInv' /\ PhaseInv'
    BY <1>3 DEF InputRefused
  <2>3. ResultIsComplete'
    BY <1>3 DEF InputRefused, ResultIsComplete
  <2>4. QED
    BY <2>1, <2>2, <2>3
<1>4. CASE Produce
  <2>1. /\ tool = "running" /\ stdout = "copying" /\ produced' = produced + 1 /\ pipe' = pipe + 1
        /\ UNCHANGED <<sound, stdin, tool, stdout, kept, exceeded, expired, audio>>
    BY <1>4 DEF Produce
  <2>2. produced' \in Nat /\ pipe' \in Nat
    BY <2>1, <1>typed
  <2>3. AudioTypeOK' /\ PhaseInv' /\ ResultIsComplete'
    BY <2>1, <2>2 DEF ResultIsComplete
  <2>4. PipeInv'
    BY <2>1, <2>2
  <2>5. QED
    BY <2>3, <2>4
<1>5. CASE PipeBreaks
  <2>1. AudioTypeOK'
    BY <1>5 DEF PipeBreaks
  <2>2. PipeInv' /\ PhaseInv'
    BY <1>5 DEF PipeBreaks
  <2>3. ResultIsComplete'
    BY <1>5 DEF PipeBreaks, ResultIsComplete
  <2>4. QED
    BY <2>1, <2>2, <2>3
<1>6. CASE ToolEnds
  <2>1. AudioTypeOK'
    BY <1>6 DEF ToolEnds
  <2>2. PipeInv' /\ PhaseInv'
    BY <1>6 DEF ToolEnds
  <2>3. ResultIsComplete'
    BY <1>6 DEF ToolEnds, ResultIsComplete
  <2>4. QED
    BY <2>1, <2>2, <2>3
<1>7. CASE CopyOutput
  <2>1. PICK n \in 1..pipe : Write(n) /\ pipe' = pipe - n
    BY <1>7 DEF CopyOutput
  <2>2. /\ stdout = "copying" /\ n \in Nat /\ n > 0 /\ pipe' \in Nat
        /\ UNCHANGED <<sound, stdin, tool, produced, expired, audio>>
    BY <1>7, <2>1, <1>typed DEF CopyOutput
  <2>3. sound.ext = "input" /\ audio = "running" /\ ~exceeded /\ kept + pipe = produced
    BY <2>2
  <2>4. CASE kept + n <= MaxOutputBytes
    <3>1. kept' = kept + n /\ UNCHANGED <<exceeded, stdout>>
      BY <2>1, <2>4 DEF Write
    <3>2. QED
      BY <2>1, <2>2, <2>3, <2>4, <3>1 DEF ResultIsComplete
  <2>5. CASE ~(kept + n <= MaxOutputBytes)
    <3>1. kept' = MaxOutputBytes /\ exceeded' = TRUE /\ stdout' = "done"
      BY <2>1, <2>5 DEF Write
    <3>2. produced > MaxOutputBytes
      BY <2>1, <2>2, <2>3, <2>5
    <3>3. QED
      BY <2>2, <2>3, <3>1, <3>2 DEF ResultIsComplete
  <2>6. QED
    BY <2>4, <2>5
<1>8. CASE OutputEnds
  <2>1. AudioTypeOK'
    BY <1>8 DEF OutputEnds
  <2>2. PipeInv' /\ PhaseInv'
    BY <1>8 DEF OutputEnds
  <2>3. ResultIsComplete'
    BY <1>8 DEF OutputEnds, ResultIsComplete
  <2>4. QED
    BY <2>1, <2>2, <2>3
<1>9. CASE Expire
  <2>1. AudioTypeOK'
    BY <1>9 DEF Expire
  <2>2. PipeInv' /\ PhaseInv'
    BY <1>9 DEF Expire
  <2>3. ResultIsComplete'
    BY <1>9 DEF Expire, ResultIsComplete
  <2>4. QED
    BY <2>1, <2>2, <2>3
<1>10. CASE Verdict
  <2>1. /\ audio = "running" /\ tool # "running" /\ stdin # "copying" /\ stdout = "done"
        /\ UNCHANGED <<sound, stdin, tool, produced, pipe, stdout, kept, exceeded, expired>>
        /\ audio' = CASE exceeded -> "too large"
                      [] ~exceeded /\ (tool = "failed" \/ stdin = "failed") -> "tool failed"
                      [] OTHER -> IF Even(kept) THEN "ok" ELSE "invalid"
    BY <1>10 DEF Verdict
  <2>2. AudioTypeOK' /\ PipeInv' /\ PhaseInv'
    BY <2>1
  <2>3. sound.ext = "input" /\ (~exceeded => kept = produced /\ kept <= MaxOutputBytes)
    <3>1. sound.ext = "input"
      BY <2>1
    <3>2. ASSUME ~exceeded PROVE kept = produced /\ kept <= MaxOutputBytes
      <4>1. kept + pipe = produced /\ pipe = 0 /\ kept <= MaxOutputBytes
        BY <2>1, <3>1, <3>2
      <4>2. QED
        BY <1>typed, <4>1
    <3>3. QED
      BY <3>1, <3>2
  <2>4. ResultIsComplete'
    BY <2>1, <2>3 DEF ResultIsComplete
  <2>5. QED
    BY <2>2, <2>4
<1>11. CASE UNCHANGED audioVars
  BY <1>11 DEF audioVars, ResultIsComplete
<1>12. QED
  BY <1>1, <1>2, <1>3, <1>4, <1>5, <1>6, <1>7, <1>8, <1>9, <1>10, <1>11 DEF AudioNext

-----------------------------------------------------------------------------
\* RemoteClient: the active slot, and how far Close is.

\* Phases in which a stream is the client's active one.
Owned == {"created", "running", "finishing"}

ClientTypeOK ==
  /\ closed \in BOOLEAN
  /\ active \in Stream \cup {NoStream} /\ stopping \in Stream \cup {NoStream}
  /\ phase \in [Stream -> Owned \cup {"new", "released", "ended"}]
  /\ held \in [Stream -> BOOLEAN]
  /\ closers \in [Closer -> {"idle", "waiting", "returned"}]
  /\ closing \in {"idle", "stopping", "http", "done"}
  /\ gate \in {"open", "closing", "closed"}
  /\ call \in [Req -> {"idle", "running", "finished"}]

\* The active slot is taken by a stream from its creation to its release, and only
\* a running stream holds anything.
SlotInv ==
  /\ \A s \in Stream : phase[s] \in Owned => active = s
  /\ \A s \in Stream : held[s] => phase[s] = "running"

\* Once closed, the one stream that may still be alive is the one close() has read
\* and waits for; after that there is none.
CloseInv ==
  /\ closing # "idle" => closed /\ \A s \in Stream : phase[s] \in Owned => s = stopping
  /\ closing \in {"http", "done"} => \A s \in Stream : phase[s] \notin Owned
  /\ \A c \in Closer : closers[c] = "returned" => closing = "done"

\* How far close() is in closing the round tripper.
GateInv ==
  /\ closing = "done" => gate = "closed"
  /\ gate = "closed" => \A r \in Req : call[r] # "running"

ClientInv == ClientTypeOK /\ SlotInv /\ CloseInv /\ GateInv

\* The invariant holds initially (NewClient), and where a closed client rests.
LEMMA ClientInits == ClientInit \/ ClientIdle => ClientInv
<1> USE DEF ClientInv, ClientTypeOK, SlotInv, CloseInv, GateInv, Owned
<1>1. CASE ClientInit
  BY <1>1 DEF ClientInit, HTTP!Init
<1>2. CASE ClientIdle
  BY <1>2 DEF ClientIdle
<1>3. QED
  BY <1>1, <1>2

\* A step of a stream keeps it: creation, life, release and end (NewStatusStream,
\* remote/stream.go's finish).
LEMMA StreamSteps ==
  ASSUME ClientInv, NEW s \in Stream,
         \/ NewStatusStream(s) \/ StartStream(s) \/ Hold(s) \/ StopBeforeStart(s)
         \/ Finish(s) \/ Release(s) \/ End(s)
  PROVE  ClientInv'
<1> USE DEF ClientInv, ClientTypeOK, SlotInv, CloseInv, GateInv, Owned, Becomes, closeVars, httpVars
<1>1. CASE NewStatusStream(s)
  BY <1>1, NoStreamAssumption DEF NewStatusStream
<1>2. CASE StartStream(s)
  BY <1>2 DEF StartStream
<1>3. CASE Hold(s)
  BY <1>3 DEF Hold
<1>4. CASE StopBeforeStart(s)
  BY <1>4 DEF StopBeforeStart
<1>5. CASE Finish(s)
  BY <1>5 DEF Finish
<1>6. CASE Release(s)
  BY <1>6 DEF Release
<1>7. CASE End(s)
  BY <1>7 DEF End
<1>8. QED
  BY <1>1, <1>2, <1>3, <1>4, <1>5, <1>6, <1>7

\* So does a step of Close (client.go:104-132).
LEMMA CloseSteps ==
  ASSUME ClientInv, (\E c \in Closer : Close(c) \/ CloseReturns(c)) \/ StopActive \/ CloseHTTP
  PROVE  ClientInv'
<1> USE DEF ClientInv, ClientTypeOK, SlotInv, CloseInv, GateInv, Owned, streamVars, httpVars
<1>1. CASE \E c \in Closer : Close(c)
  <2>1. PICK c \in Closer : Close(c)
    BY <1>1
  <2>2. /\ UNCHANGED <<active, phase, held, gate, call>>
        /\ closers' = [closers EXCEPT ![c] = "waiting"]
    BY <2>1 DEF Close
  <2>3. CASE closing = "idle"
    <3>1. closed' = TRUE /\ stopping' = active /\ closing' = "stopping"
      BY <2>1, <2>3 DEF Close
    <3>2. \A d \in Closer : closers'[d] # "returned"
      BY <2>2, <2>3
    <3>3. QED
      BY <2>2, <3>1, <3>2
  <2>4. CASE closing # "idle"
    BY <2>1, <2>2, <2>4 DEF Close
  <2>5. QED
    BY <2>3, <2>4
<1>2. CASE \E c \in Closer : CloseReturns(c)
  BY <1>2 DEF CloseReturns
<1>3. CASE StopActive
  BY <1>3, NoStreamAssumption DEF StopActive, Becomes, HTTP!CloseStart
<1>4. CASE CloseHTTP
  BY <1>4 DEF CloseHTTP, HTTP!CloseEnd
<1>5. QED
  BY <1>1, <1>2, <1>3, <1>4

\* And a step of a request (RoundTrips).
LEMMA RequestSteps ==
  ASSUME ClientInv, NEW r \in Req, Request(r)
  PROVE  ClientInv'
<1> USE DEF ClientInv, ClientTypeOK, SlotInv, CloseInv, GateInv, Owned, streamVars, closeVars
<1>1. CASE HTTP!Start(r)
  BY <1>1 DEF Request, HTTP!Start, HTTP!Move
<1>2. CASE HTTP!Refuse(r)
  BY <1>2 DEF Request, HTTP!Refuse, HTTP!Move
<1>3. CASE HTTP!Return(r)
  BY <1>3 DEF Request, HTTP!Return, HTTP!Move
<1>4. QED
  BY <1>1, <1>2, <1>3 DEF Request

\* Every step of the client's applications keeps the invariant.
LEMMA ClientStep ==
  ASSUME ClientInv, ClientNext \/ UNCHANGED clientVars
  PROVE  ClientInv'
<1>1. CASE UNCHANGED clientVars
  BY <1>1 DEF clientVars, streamVars, closeVars, httpVars, ClientInv, ClientTypeOK, SlotInv,
              CloseInv, GateInv, Owned
<1>2. CASE ClientNext
  BY <1>2, StreamSteps, CloseSteps, RequestSteps DEF ClientNext
<1>3. QED
  BY <1>1, <1>2

\* Once closed, the client owns nothing.
LEMMA ClientGoal == ClientInv => ClosedOwnsNothing
BY DEF ClientInv, ClientTypeOK, SlotInv, CloseInv, GateInv, Owned, ClosedOwnsNothing

-----------------------------------------------------------------------------
\* PahoDelivery: where the packets of a subscription are.

DeliveryTypeOK ==
  /\ listed \subseteq used /\ used \subseteq Item /\ targets \subseteq used
  /\ leaving \subseteq used /\ doomed \subseteq used /\ condemned \subseteq used
  /\ why \in [Item -> {"none", "closed", "refused", "too large", "slow"}]
  /\ packets \in Nat
  /\ owed \in [Item -> Seq(Nat)] /\ buffer \in [Item -> Seq(Nat)] /\ got \in [Item -> Seq(Nat)]

\* What takes a subscription out of the map before failing it, keeps it out; and
\* what fails it while it is there, removes it.
ListedInv ==
  /\ checked \subseteq targets
  /\ listed \cap (doomed \cup condemned) = {}
  /\ \A i \in Item : why[i] # "none" => i \in used /\ (i \in leaving \/ i \notin listed)

Held(i) == got[i] \o buffer[i]
Routed(i) == IF i \in targets THEN <<packets>> ELSE <<>>

\* A packet is with the consumer, in the buffer or on its way, of a subscription
\* that has not failed or had not when deliver looked; of any other, what it got
\* is a beginning of what it was owed.
SequenceInv ==
  \A i \in Item :
    /\ why[i] = "none" \/ i \in checked => owed[i] = Held(i) \o Routed(i)
    /\ \E rest \in Seq(Nat) : owed[i] = Held(i) \o rest

DeliveryInv == DeliveryTypeOK /\ ListedInv /\ SequenceInv

\* The empty sequence and concatenation.
LEMMA Concats ==
  /\ <<>> \in Seq(Nat)
  /\ \A s \in Seq(Nat) : s \o <<>> = s
  /\ \A s, t \in Seq(Nat) : s \o t \in Seq(Nat)
OBVIOUS

\* Concatenation is associative.
LEMMA ConcatAssociates ==
  ASSUME NEW s \in Seq(Nat), NEW t \in Seq(Nat), NEW u \in Seq(Nat)
  PROVE  (s \o t) \o u = s \o (t \o u) /\ t \o u \in Seq(Nat)
OBVIOUS

\* Append is concatenation with one packet.
LEMMA Appends ==
  ASSUME NEW s \in Seq(Nat), NEW n \in Nat
  PROVE  Append(s, n) = s \o <<n>> /\ <<n>> \in Seq(Nat) /\ Append(s, n) \in Seq(Nat)
OBVIOUS

\* A receive moves the head of the buffer to the end of what was got.
LEMMA HeadMoves ==
  ASSUME NEW g \in Seq(Nat), NEW b \in Seq(Nat), b # <<>>
  PROVE  /\ Append(g, Head(b)) \o Tail(b) = g \o b
         /\ Append(g, Head(b)) \in Seq(Nat) /\ Tail(b) \in Seq(Nat)
OBVIOUS

\* A sequence begins with what it was put together from.
LEMMA PrefixOfConcat ==
  ASSUME NEW s \in Seq(Nat), NEW t \in Seq(Nat)
  PROVE  IsPrefix(s, s \o t)
BY DEF IsPrefix

\* What a subscription holds, and what is on its way, are sequences of packets.
LEMMA HeldTyped ==
  ASSUME DeliveryTypeOK, NEW i \in Item
  PROVE  Held(i) \in Seq(Nat) /\ Routed(i) \in Seq(Nat)
<1>1. got[i] \in Seq(Nat) /\ buffer[i] \in Seq(Nat) /\ packets \in Nat
  BY DEF DeliveryTypeOK
<1>2. <<packets>> \in Seq(Nat) /\ <<>> \in Seq(Nat)
  BY <1>1
<1>3. QED
  BY <1>1, <1>2, Concats DEF Held, Routed

\* NewTransport starts with no subscription.
LEMMA DeliveryInits == DeliveryInit \/ DeliveryIdle => DeliveryInv
<1> SUFFICES ASSUME DeliveryInit \/ DeliveryIdle PROVE DeliveryInv
  OBVIOUS
<1> DEFINE none == [i \in Item |-> <<>>]
<1>empty. <<>> \in Seq(Nat) /\ none \in [Item -> Seq(Nat)]
  OBVIOUS
<1>nothing. <<>> \o <<>> = <<>>
  BY <1>empty, Concats
<1>1. DeliveryTypeOK
  <2>1. owed = none /\ buffer = none /\ got = none
    BY DEF DeliveryInit, DeliveryIdle
  <2>2. packets \in Nat /\ why \in [Item -> {"none", "closed", "refused", "too large", "slow"}]
    <3>1. CASE DeliveryInit
      BY <3>1 DEF DeliveryInit
    <3>2. CASE DeliveryIdle
      BY <3>2, DeliveryAssumption DEF DeliveryIdle
    <3>3. QED
      BY <3>1, <3>2
  <2>3. QED
    BY <1>empty, <2>1, <2>2 DEF DeliveryInit, DeliveryIdle, DeliveryTypeOK
<1>2. ListedInv
  BY DEF DeliveryInit, DeliveryIdle, ListedInv
<1>3. ASSUME NEW i \in Item
      PROVE  targets = {} /\ owed[i] = <<>> /\ got[i] = <<>> /\ buffer[i] = <<>>
  BY DEF DeliveryInit, DeliveryIdle
<1>4. \A i \in Item : Held(i) = <<>> /\ Routed(i) = <<>> /\ owed[i] = Held(i) \o <<>>
  BY <1>3, <1>nothing DEF Held, Routed
<1>5. SequenceInv
  BY <1>3, <1>4, <1>empty, <1>nothing, Zenon DEF SequenceInv
<1>6. QED
  BY <1>1, <1>2, <1>5 DEF DeliveryInv

\* A step that leaves the packets alone, and takes a failed subscription at most
\* from the targets.
LEMMA DeliveryQuiet ==
  ASSUME DeliveryInv, UNCHANGED <<packets, owed, buffer, got>>,
         \A i \in Item : why'[i] = "none" \/ i \in checked' =>
           (why[i] = "none" \/ i \in checked) /\ (i \in targets' <=> i \in targets)
  PROVE  SequenceInv'
<1> USE DEF DeliveryInv, SequenceInv, Held, Routed
<1>1. ASSUME NEW i \in Item PROVE Held(i)' = Held(i)
  OBVIOUS
<1>2. ASSUME NEW i \in Item, why'[i] = "none" \/ i \in checked'
      PROVE  Routed(i)' = Routed(i)
  BY <1>2
<1>3. QED
  BY <1>1, <1>2

\* Every step keeps the invariant: deliver's route and its walk over the targets,
\* fail, Close, Cancel and disconnect, and the consumer's receive.
LEMMA DeliveryStep ==
  ASSUME DeliveryInv, DeliveryNext \/ UNCHANGED deliveryVars
  PROVE  DeliveryInv'
<1> USE DEF DeliveryInv, DeliveryTypeOK, ListedInv, lifeVars, itemVars, routeVars, FailItem
<1>1. ASSUME Dialled PROVE DeliveryInv'
  <2>1. DeliveryTypeOK' /\ ListedInv'
    BY <1>1 DEF Dialled
  <2>2. SequenceInv'
    BY <1>1, DeliveryQuiet DEF Dialled
  <2>3. QED
    BY <2>1, <2>2
<1>2. ASSUME CloseBegins PROVE DeliveryInv'
  <2>1. DeliveryTypeOK' /\ ListedInv'
    BY <1>2 DEF CloseBegins
  <2>2. SequenceInv'
    BY <1>2, DeliveryQuiet DEF CloseBegins
  <2>3. QED
    BY <2>1, <2>2
<1>3. ASSUME Cancel \/ Disconnect PROVE DeliveryInv'
  <2>1. DeliveryTypeOK' /\ ListedInv'
    BY <1>3 DEF Cancel, Disconnect
  <2>2. SequenceInv'
    BY <1>3, DeliveryQuiet DEF Cancel, Disconnect
  <2>3. QED
    BY <2>1, <2>2
<1>4. ASSUME NEW i \in Item, FailCondemned(i) PROVE DeliveryInv'
  <2>1. DeliveryTypeOK' /\ ListedInv'
    BY <1>4 DEF FailCondemned
  <2>2. SequenceInv'
    BY <1>4, DeliveryQuiet DEF FailCondemned
  <2>3. QED
    BY <2>1, <2>2
<1>5. ASSUME NEW i \in Item, Register(i) PROVE DeliveryInv'
  <2>1. DeliveryTypeOK' /\ ListedInv'
    BY <1>5 DEF Register
  <2>2. SequenceInv'
    BY <1>5, DeliveryQuiet DEF Register
  <2>3. QED
    BY <2>1, <2>2
<1>6. ASSUME NEW i \in Item, LoseTopic(i) PROVE DeliveryInv'
  <2>1. DeliveryTypeOK' /\ ListedInv'
    BY <1>6 DEF LoseTopic
  <2>2. SequenceInv'
    BY <1>6, DeliveryQuiet DEF LoseTopic
  <2>3. QED
    BY <2>1, <2>2
<1>7. ASSUME NEW i \in Item, FailDoomed(i) PROVE DeliveryInv'
  <2>1. DeliveryTypeOK' /\ ListedInv'
    BY <1>7 DEF FailDoomed
  <2>2. SequenceInv'
    BY <1>7, DeliveryQuiet DEF FailDoomed
  <2>3. QED
    BY <2>1, <2>2
<1>8. ASSUME NEW i \in Item, CloseItem(i) PROVE DeliveryInv'
  <2>1. DeliveryTypeOK' /\ ListedInv'
    BY <1>8 DEF CloseItem
  <2>2. SequenceInv'
    BY <1>8, DeliveryQuiet DEF CloseItem
  <2>3. QED
    BY <2>1, <2>2
<1>9. ASSUME NEW i \in Item, RemoveItem(i) PROVE DeliveryInv'
  <2>1. DeliveryTypeOK' /\ ListedInv'
    BY <1>9 DEF RemoveItem
  <2>2. SequenceInv'
    BY <1>9, DeliveryQuiet DEF RemoveItem
  <2>3. QED
    BY <2>1, <2>2
<1>10. ASSUME NEW i \in Item, Examine(i) PROVE DeliveryInv'
  <2>1. /\ UNCHANGED <<listed, used, doomed, condemned, packets, owed, buffer, got>>
        /\ i \in targets \ checked
    BY <1>10 DEF Examine
  <2>2. CASE why[i] = "none" /\ checked' = checked \cup {i} /\ UNCHANGED <<why, targets, leaving>>
    <3>1. DeliveryTypeOK' /\ ListedInv'
      BY <2>1, <2>2
    <3>2. SequenceInv'
      BY <2>1, <2>2, DeliveryQuiet
    <3>3. QED
      BY <3>1, <3>2
  <2>3. CASE why[i] # "none" /\ targets' = targets \ {i} /\ UNCHANGED <<why, checked, leaving>>
    <3>1. DeliveryTypeOK' /\ ListedInv'
      BY <2>1, <2>3
    <3>2. SequenceInv'
      BY <2>1, <2>3, DeliveryQuiet
    <3>3. QED
      BY <3>1, <3>2
  <2>4. CASE /\ FailItem(i, "too large") /\ leaving' = leaving \cup {i}
             /\ targets' = targets \ {i} /\ UNCHANGED checked
    <3>1. DeliveryTypeOK' /\ ListedInv'
      BY <2>1, <2>4
    <3>2. SequenceInv'
      BY <2>1, <2>4, DeliveryQuiet
    <3>3. QED
      BY <3>1, <3>2
  <2>5. QED
    BY <1>10, <2>2, <2>3, <2>4 DEF Examine
<1>11. ASSUME NEW i \in Item, Receive(i) PROVE DeliveryInv'
  <2>1. DeliveryTypeOK' /\ ListedInv'
    BY <1>11 DEF Receive
  <2>2. SequenceInv'
    BY <1>11, DeliveryQuiet DEF Receive
  <2>3. QED
    BY <2>1, <2>2
<1>12. ASSUME Route PROVE DeliveryInv'
  <2>1. DeliveryTypeOK'
    <3>1. packets' \in Nat
      <4>1. packets' = packets + 1
        BY <1>12 DEF Route
      <4>2. packets \in Nat
        OBVIOUS
      <4>3. QED
        BY ONLY <4>1, <4>2
    <3>extended. \A i \in Item : Append(owed[i], packets') \in Seq(Nat)
      BY <3>1, Appends
    <3>2. owed' \in [Item -> Seq(Nat)]
      BY <1>12, <3>extended DEF Route
    <3>3. QED
      BY <1>12, <3>1, <3>2 DEF Route
  <2>2. ListedInv'
    BY <1>12 DEF Route
  <2>3. ASSUME NEW i \in Item
        PROVE  /\ why'[i] = "none" \/ i \in checked' => owed'[i] = Held(i)' \o Routed(i)'
               /\ \E rest \in Seq(Nat) : owed'[i] = Held(i)' \o rest
    <3>1. Held(i)' = Held(i) /\ Held(i) \in Seq(Nat) /\ packets' \in Nat
      BY <1>12, <2>1, HeldTyped DEF Route, Held
    <3>2. why[i] = "none" => owed[i] = Held(i)
      BY <1>12, <3>1, Concats DEF Route, SequenceInv, Routed
    <3>3. PICK rest \in Seq(Nat) : owed[i] = Held(i) \o rest
      BY DEF SequenceInv
    <3>4. CASE i \in listed
      <4>1. owed'[i] = owed[i] \o <<packets'>> /\ Routed(i)' = <<packets'>> /\ <<packets'>> \in Seq(Nat)
        BY <1>12, <3>1, <3>4, Appends DEF Route, Routed
      <4>2. /\ (Held(i) \o rest) \o <<packets'>> = Held(i) \o (rest \o <<packets'>>)
            /\ rest \o <<packets'>> \in Seq(Nat)
        BY ONLY <3>1, <4>1, rest \in Seq(Nat), ConcatAssociates
      <4>3. QED
        BY <1>12, <3>1, <3>2, <3>3, <4>1, <4>2 DEF Route
    <3>5. CASE i \notin listed
      <4>1. owed'[i] = owed[i] /\ Routed(i)' = <<>>
        BY <1>12, <3>5 DEF Route, Routed
      <4>2. QED
        BY <1>12, <3>1, <3>2, <3>3, <4>1, Concats DEF Route
    <3>6. QED
      BY <3>4, <3>5
  <2>4. QED
    BY <2>1, <2>2, <2>3 DEF SequenceInv
<1>13. ASSUME NEW i \in Item, Deliver(i) PROVE DeliveryInv'
  <2>1. CASE buffer' = [buffer EXCEPT ![i] = Append(@, packets)]
    <3>1. Append(buffer[i], packets) = buffer[i] \o <<packets>> /\ Append(buffer[i], packets) \in Seq(Nat)
      BY Appends
    <3>2. DeliveryTypeOK' /\ ListedInv'
      BY <1>13, <2>1, <3>1 DEF Deliver
    <3>3. Held(i)' = Held(i) \o <<packets>> /\ Held(i)' \in Seq(Nat)
      <4>1. Held(i)' = got[i] \o (buffer[i] \o <<packets>>)
        BY <1>13, <2>1, <3>1 DEF Deliver, Held
      <4>2. <<packets>> \in Seq(Nat)
        BY Appends
      <4>3. /\ (got[i] \o buffer[i]) \o <<packets>> = got[i] \o (buffer[i] \o <<packets>>)
            /\ got[i] \o buffer[i] \in Seq(Nat)
        <5>1. got[i] \in Seq(Nat) /\ buffer[i] \in Seq(Nat)
          OBVIOUS
        <5>2. got[i] \o buffer[i] \in Seq(Nat)
          BY ONLY <5>1, Concats
        <5>3. (got[i] \o buffer[i]) \o <<packets>> = got[i] \o (buffer[i] \o <<packets>>)
          BY ONLY <4>2, <5>1, ConcatAssociates
        <5>4. QED
          BY <5>2, <5>3
      <4>4. (got[i] \o buffer[i]) \o <<packets>> \in Seq(Nat)
        BY <4>2, <4>3, Concats
      <4>5. QED
        BY <4>1, <4>3, <4>4 DEF Held
    <3>4. owed'[i] = Held(i)' /\ Routed(i)' = <<>>
      BY <1>13, <3>3 DEF Deliver, SequenceInv, Routed
    <3>5. owed'[i] = Held(i)' \o <<>>
      BY <3>3, <3>4, Concats
    <3>empty. <<>> \in Seq(Nat)
      BY ONLY Concats
    <3>6. \A j \in Item \ {i} : /\ Held(j)' = Held(j) /\ Routed(j)' = Routed(j)
                                /\ (j \in checked' <=> j \in checked) /\ why'[j] = why[j]
                                /\ owed'[j] = owed[j]
      BY <1>13, <2>1 DEF Deliver, Held, Routed
    <3>7. SequenceInv'
      BY <3>4, <3>5, <3>empty, <3>6 DEF SequenceInv
    <3>8. QED
      BY <3>2, <3>7
  <2>2. CASE UNCHANGED buffer /\ why'[i] # "none"
    <3>1. DeliveryTypeOK' /\ ListedInv'
      BY <1>13, <2>2 DEF Deliver
    <3>2. SequenceInv'
      BY <1>13, <2>2, DeliveryQuiet DEF Deliver
    <3>3. QED
      BY <3>1, <3>2
  <2>3. QED
    BY <1>13, <2>1, <2>2 DEF Deliver
<1>14. ASSUME NEW i \in Item, Received(i) PROVE DeliveryInv'
  <2>1. CASE UNCHANGED <<got, buffer>>
    <3>1. DeliveryTypeOK' /\ ListedInv'
      BY <1>14, <2>1 DEF Received
    <3>2. SequenceInv'
      BY <1>14, <2>1, DeliveryQuiet DEF Received
    <3>3. QED
      BY <3>1, <3>2
  <2>2. CASE /\ buffer[i] # <<>> /\ got' = [got EXCEPT ![i] = Append(@, Head(buffer[i]))]
             /\ buffer' = [buffer EXCEPT ![i] = Tail(@)]
    <3>1. /\ Append(got[i], Head(buffer[i])) \o Tail(buffer[i]) = Held(i)
          /\ Append(got[i], Head(buffer[i])) \in Seq(Nat) /\ Tail(buffer[i]) \in Seq(Nat)
      BY <2>2, HeadMoves DEF Held
    <3>2. DeliveryTypeOK' /\ ListedInv'
      BY <1>14, <2>2, <3>1 DEF Received
    <3>3. \A j \in Item : Held(j)' = Held(j) /\ Routed(j)' = Routed(j)
      BY <1>14, <2>2, <3>1 DEF Received, Held, Routed
    <3>4. SequenceInv'
      BY <1>14, <3>3 DEF Received, SequenceInv
    <3>5. QED
      BY <3>2, <3>4
  <2>3. QED
    BY <1>14, <2>1, <2>2 DEF Received
<1>15. ASSUME (\E p \in Publisher : Publish(p) \/ PublishReturns(p)) \/ UNCHANGED deliveryVars
       PROVE  DeliveryInv'
  <2>1. DeliveryTypeOK' /\ ListedInv'
    BY <1>15 DEF Publish, PublishReturns, deliveryVars
  <2>2. SequenceInv'
    BY <1>15, DeliveryQuiet DEF Publish, PublishReturns, deliveryVars
  <2>3. QED
    BY <2>1, <2>2
<1>16. QED
  BY <1>1, <1>2, <1>3, <1>4, <1>5, <1>6, <1>7, <1>8, <1>9, <1>10, <1>11, <1>12, <1>13, <1>14, <1>15
     DEF DeliveryNext

\* What is held and owed as the invariant says leaves no gap.
LEMMA DeliveryGoal == DeliveryInv => NoGap
<1> SUFFICES ASSUME DeliveryInv, NEW i \in Item
             PROVE  /\ IsPrefix(Held(i), owed[i])
                    /\ why[i] = "none" => owed[i] = Held(i) \o Routed(i)
                    /\ why[i] # "none" => i \in leaving \/ i \notin listed
  BY DEF NoGap, Held, Routed
<1> USE DEF DeliveryInv
<1>1. PICK rest \in Seq(Nat) : owed[i] = Held(i) \o rest
  BY DEF SequenceInv
<1>2. Held(i) \in Seq(Nat)
  BY HeldTyped
<1>3. IsPrefix(Held(i), owed[i])
  BY <1>1, <1>2, PrefixOfConcat
<1>4. QED
  BY <1>3 DEF SequenceInv, ListedInv

-----------------------------------------------------------------------------
\* ContractCheck: what a verdict rests on.

\* A list has as many places as its length says.
IsList(s) == \E S : s \in Seq(S)

\* Two lists joined are a list, as long as both.
LEMMA Joined ==
  ASSUME NEW s, NEW t, IsList(s), IsList(t)
  PROVE  IsList(s \o t) /\ Len(s \o t) = Len(s) + Len(t) /\ Len(s) \in Nat /\ Len(t) \in Nat
<1>1. PICK S, T : s \in Seq(S) /\ t \in Seq(T)
  BY DEF IsList
<1>2. s \in Seq(S \cup T) /\ t \in Seq(S \cup T)
  BY <1>1
<1>3. s \o t \in Seq(S \cup T) /\ Len(s \o t) = Len(s) + Len(t) /\ Len(s) \in Nat /\ Len(t) \in Nat
  BY <1>2
<1>4. QED
  BY <1>3 DEF IsList

\* One look is a list of one.
LEMMA OneLook ==
  ASSUME NEW file, NEW names, NEW by
  PROVE  IsList(Look(file, names, by)) /\ Len(Look(file, names, by)) = 1
<1>1. PICK l : l = [file |-> file, facts |-> {<<n, file>> : n \in names}, by |-> by]
  OBVIOUS
<1>2. Look(file, names, by) = <<l>>
  BY <1>1 DEF Look
<1>3. <<l>> \in Seq({l}) /\ Len(<<l>>) = 1
  OBVIOUS
<1>4. QED
  BY <1>2, <1>3 DEF IsList

\* Looks in each of several files are a list.
LEMMA OneEach ==
  ASSUME NEW files, NEW names, IsList(files)
  PROVE  IsList(InEach(files, names)) /\ IsList(Reads(files))
<1>1. PICK S : files \in Seq(S)
  BY DEF IsList
<1>2. PICK n \in Nat : DOMAIN files = 1..n
  BY <1>1
<1>3. InEach(files, names) \in Seq({Receipt(files[i], names)[1] : i \in 1..n})
  BY <1>2 DEF InEach
<1>4. Reads(files) \in Seq({Literal(files[i], {"file"})[1] : i \in 1..n})
  BY <1>2 DEF Reads
<1>5. QED
  BY <1>3, <1>4 DEF IsList

\* The lists of files the receipt and the stages name.
LEMMA FileLists ==
  /\ IsList(OperationFiles) /\ IsList(SnapshotFiles) /\ IsList(CommandFiles)
  /\ IsList(<<"api_status_streaming.c", "api_root.c", "state_publisher.c", "subscriptions.c">>)
  /\ IsList(<<"api_streaming.c", "screen_streamer.c", "subscriptions.c", "color.c",
               "front_display.h", "back_display.h", "canvas.c">>)
  /\ IsList(<<"api_streaming.c", "web_server_i.h">>)
  /\ IsList(<<"subscriptions.c">>)
  /\ IsList(<<"cli_socket.c", "usb_network.c", "cli_shell_line.c", "power_cli.c", "lv_conf.h",
               "api_display.c", "audio.c", "audio.h">>)
  /\ IsList(<<"mqtt_connection.c", "mqtt_i.h", "mqtt_subscription.c", "mqtt_message.c",
               "mqtt_http_proxy.c", "mqtt_streaming.c", "state_publisher.c">>)
<1> DEFINE Names(s) == {s[i] : i \in DOMAIN s}
<1>1. OperationFiles \in Seq(Names(OperationFiles))
  BY DEF OperationFiles
<1>2. SnapshotFiles \in Seq(Names(SnapshotFiles))
  BY DEF SnapshotFiles
<1>3. CommandFiles \in Seq(Names(CommandFiles))
  BY DEF CommandFiles
<1>4. IsList(<<"api_status_streaming.c", "api_root.c", "state_publisher.c", "subscriptions.c">>)
  <2> DEFINE files == <<"api_status_streaming.c", "api_root.c", "state_publisher.c", "subscriptions.c">>
  <2>1. files \in Seq(Names(files))
    OBVIOUS
  <2>2. QED
    BY <2>1 DEF IsList
<1>5. IsList(<<"api_streaming.c", "screen_streamer.c", "subscriptions.c", "color.c",
              "front_display.h", "back_display.h", "canvas.c">>)
  <2> DEFINE files == <<"api_streaming.c", "screen_streamer.c", "subscriptions.c", "color.c",
                    "front_display.h", "back_display.h", "canvas.c">>
  <2>1. files \in Seq(Names(files))
    OBVIOUS
  <2>2. QED
    BY <2>1 DEF IsList
<1>6. IsList(<<"api_streaming.c", "web_server_i.h">>)
  <2> DEFINE files == <<"api_streaming.c", "web_server_i.h">>
  <2>1. files \in Seq(Names(files))
    OBVIOUS
  <2>2. QED
    BY <2>1 DEF IsList
<1>7. IsList(<<"subscriptions.c">>)
  <2> DEFINE files == <<"subscriptions.c">>
  <2>1. files \in Seq(Names(files))
    OBVIOUS
  <2>2. QED
    BY <2>1 DEF IsList
<1>8. IsList(<<"cli_socket.c", "usb_network.c", "cli_shell_line.c", "power_cli.c", "lv_conf.h",
              "api_display.c", "audio.c", "audio.h">>)
  <2> DEFINE files == <<"cli_socket.c", "usb_network.c", "cli_shell_line.c", "power_cli.c", "lv_conf.h",
                    "api_display.c", "audio.c", "audio.h">>
  <2>1. files \in Seq(Names(files))
    OBVIOUS
  <2>2. QED
    BY <2>1 DEF IsList
<1>9. IsList(<<"mqtt_connection.c", "mqtt_i.h", "mqtt_subscription.c", "mqtt_message.c",
              "mqtt_http_proxy.c", "mqtt_streaming.c", "state_publisher.c">>)
  <2> DEFINE files == <<"mqtt_connection.c", "mqtt_i.h", "mqtt_subscription.c", "mqtt_message.c",
                    "mqtt_http_proxy.c", "mqtt_streaming.c", "state_publisher.c">>
  <2>1. files \in Seq(Names(files))
    OBVIOUS
  <2>2. QED
    BY <2>1 DEF IsList
<1>10. QED
  BY <1>1, <1>2, <1>3, <1>4, <1>5, <1>6, <1>7, <1>8, <1>9 DEF IsList

\* A list with something in it.
Begun(s) == IsList(s) /\ Len(s) > 0

\* The looks of all the stages are one list, and there is a first look.
LEMMA LooksAreListed ==
  DOMAIN Looks = 1..Len(Looks) /\ Len(Looks) \in Nat \ {0}
<1>1. \A s, t : IsList(s) /\ IsList(t) => IsList(s \o t)
  BY Joined
<1>2. \A file, names : IsList(Receipt(file, names)) /\ IsList(Literal(file, names))
  BY OneLook DEF Receipt, Literal
<1>3. \A files : IsList(files) => IsList(References(files)) /\ IsList(Reads(files))
  BY OneEach DEF References
<1>4. \A files, names : IsList(files) => IsList(InEach(files, names))
  BY OneEach
<1>5. IsList(Operations)
  BY <1>4, FileLists DEF Operations
<1>6. IsList(checkStatusStream)
  BY <1>1, <1>2, <1>3, FileLists, Zenon DEF checkStatusStream
<1>7. IsList(checkFrames)
  BY <1>1, <1>2, <1>3, FileLists, Zenon DEF checkFrames
<1>8. IsList(checkHTTPScreenTransport)
  BY <1>1, <1>2, <1>3, FileLists, Zenon DEF checkHTTPScreenTransport
<1>9. IsList(checkSnapshots)
  BY <1>1, <1>2, <1>3, <1>4, FileLists, Zenon DEF checkSnapshots
<1>10. IsList(checkOptionalTools)
  BY <1>1, <1>2, <1>3, <1>4, FileLists, Zenon DEF checkOptionalTools
<1>11. IsList(checkRequiredCapabilities) /\ IsList(checkLogDump)
  BY <1>1, <1>2, Zenon DEF checkRequiredCapabilities, checkLogDump
<1>12. IsList(checkRemoteMQTT)
  <2> DEFINE refs == References(<<"mqtt_connection.c", "mqtt_i.h", "mqtt_subscription.c",
               "mqtt_message.c", "mqtt_http_proxy.c", "mqtt_streaming.c", "state_publisher.c">>)
  <2>1. IsList(refs)
    BY <1>3, FileLists
  <2> HIDE DEF refs
  <2>2. \A s, file, names : IsList(s) =>
          IsList(s \o Receipt(file, names)) /\ IsList(s \o Literal(file, names))
    BY <1>1, <1>2
  <2> DEFINE first ==
        refs \o Receipt("mqtt_connection.c", {"mqttVersion"})
        \o Receipt("mqtt_i.h", {"remote.apiVersion", "upDirection", "downDirection"})
        \o Literal("mqtt_i.h", {"root topic"})
        \o Literal("mqtt_subscription.c", {"topic layout"})
        \o Literal("mqtt_message.c", {"response topic"})
        \o Receipt("mqtt_http_proxy.c", {"localHost", "pathPrefix", "http.requestTopic"})
        \o Literal("mqtt_http_proxy.c", {"http qos", "methods", "correlation", "no websocket"})
  <2>3. IsList(first)
    BY <2>1, <2>2, Zenon
  <2> HIDE DEF first
  <2>4. checkRemoteMQTT =
        first \o Receipt("mqtt_http_proxy.c", {"invalidStatus", "timeoutMs", "blockedOperations"})
        \o Receipt("mqtt_streaming.c", {"stream.requestTopic"})
        \o Literal("mqtt_streaming.c", {"stream qos", "expiry", "start and stop", "message_limits"})
        \o Receipt("mqtt_streaming.c", {"messageLimitKeys", "queueSize", "stream.frameIntervalMs",
                                        "defaultExpirySeconds", "snapshotOnStart"})
        \o Literal("state_publisher.c", {"no snapshot on start"})
    BY Zenon DEF checkRemoteMQTT, first, refs
  <2>5. QED
    BY <2>2, <2>3, <2>4, Zenon
<1>13. Begun(checkVersion)
  <2>1. \A file, names : IsList(Receipt(file, names)) /\ Len(Receipt(file, names)) = 1
    BY OneLook DEF Receipt
  <2>2. QED
    BY <2>1, Joined DEF checkVersion, Begun
<1>14. \A s, t : Begun(s) /\ IsList(t) => Begun(s \o t)
  BY Joined DEF Begun
<1>15. Begun(Looks)
  BY <1>5, <1>6, <1>7, <1>8, <1>9, <1>10, <1>11, <1>12, <1>13, <1>14, Zenon DEF Looks
<1>16. QED
  BY <1>15 DEF Begun, IsList

\* What has been read is what has been compared, in contents the tag named.
ReadInv ==
  /\ tag \in Revision \cup {"none"} /\ named \subseteq Revision
  /\ DOMAIN readAt = File
  /\ compared = {<<f, readAt[f]>> : f \in {g \in File : readAt[g] # "unread"}}
  /\ \A f \in File : readAt[f] # "unread" => readAt[f] \in named

\* The looks so far have found what they look for.
LookedInv ==
  /\ outcome = "start" => compared = {} /\ pos = 1
  /\ outcome \in {"looking", "match"} => Validate /\ tag \in named /\ ~failed
  /\ outcome = "looking" => pos \in DOMAIN Looks
  /\ outcome = "match" => \A i \in DOMAIN Looks : i < pos
  /\ outcome \in {"looking", "match"} =>
       \A i \in DOMAIN Looks : i < pos =>
         readAt[Looks[i].file] # "unread" /\ Agrees(Looks[i], readAt[Looks[i].file])
  /\ outcome = "drift" =>
       \/ failed
       \/ \E i \in DOMAIN Looks, rev \in named :
            <<Looks[i].file, rev>> \in compared /\ ~Agrees(Looks[i], rev)

CheckInv == ReadInv /\ LookedInv

\* A check starts with nothing read.
LEMMA ContractStarts == ContractInit => CheckInv
<1> SUFFICES ASSUME ContractInit PROVE CheckInv
  OBVIOUS
<1>1. compared = {} /\ \A f \in File : readAt[f] = "unread"
  BY DEF ContractInit
<1>2. ReadInv
  BY <1>1 DEF ContractInit, ReadInv
<1>3. LookedInv
  BY <1>1 DEF ContractInit, LookedInv
<1>4. QED
  BY <1>2, <1>3 DEF CheckInv

\* Loading the receipt resolves the tag before the first look.
LEMMA LoadKeeps == ASSUME CheckInv, Load PROVE CheckInv'
<1> USE DEF CheckInv, Load
<1>1. /\ outcome' \in {"rejected", "drift", "looking"} /\ failed' = (outcome' = "drift")
      /\ outcome' = "looking" => Validate /\ tag # "none"
      /\ named' = IF outcome' = "looking" THEN {tag} ELSE {}
      /\ UNCHANGED <<differs, tag, pos, readAt, compared>> /\ compared = {} /\ pos = 1
  BY DEF LookedInv
<1>2. ASSUME NEW f \in File, readAt[f] # "unread" PROVE FALSE
  <2>1. <<f, readAt[f]>> \in compared
    BY <1>2 DEF ReadInv
  <2>2. QED
    BY <1>1, <2>1
<1>3. ReadInv'
  BY <1>1, <1>2 DEF ReadInv
<1>4. pos' \in DOMAIN Looks /\ \A i \in DOMAIN Looks : ~(i < pos')
  BY <1>1, LooksAreListed
<1>5. Validate' <=> Validate
  BY <1>1 DEF Validate
<1>6. LookedInv'
  BY <1>1, <1>4, <1>5 DEF LookedInv
<1>7. QED
  BY <1>3, <1>6

\* A look reads its file once, from a revision the tag named, and judges it.
LEMMA CompareKeeps == ASSUME CheckInv, Compare PROVE CheckInv'
<1> USE DEF CheckInv
<1> DEFINE look == Looks[pos]
           rev == readFile(look.file)
<1>1. /\ outcome = "looking" /\ pos' = pos + 1
      /\ readAt' = [readAt EXCEPT ![look.file] = rev]
      /\ compared' = compared \cup {<<look.file, rev>>}
      /\ outcome' = IF ~Agrees(look, rev) THEN "drift"
                    ELSE IF pos = Len(Looks) THEN "match" ELSE "looking"
      /\ UNCHANGED <<differs, tag, named, failed>>
  BY DEF Compare
<1>2. pos \in DOMAIN Looks /\ look.file \in File /\ tag \in named /\ Validate /\ ~failed
  BY <1>1 DEF LookedInv, File
<1>3. rev \in named /\ rev # "unread" /\ (readAt[look.file] # "unread" => rev = readAt[look.file])
  BY <1>2 DEF ReadInv, readFile, revision, Revision
<1> HIDE DEF rev
<1>4. DOMAIN readAt' = File /\ \A f \in File : readAt'[f] = IF f = look.file THEN rev ELSE readAt[f]
  BY <1>1, <1>2 DEF ReadInv
<1>5. ReadInv'
  <2>1. \A f \in File : readAt'[f] # "unread" => readAt'[f] \in named'
    BY <1>1, <1>3, <1>4 DEF ReadInv
  <2>2. \A f \in File : readAt'[f] # "unread" <=> f = look.file \/ readAt[f] # "unread"
    BY <1>3, <1>4
  <2>3. \A f \in File : readAt[f] # "unread" => readAt'[f] = readAt[f]
    BY <1>3, <1>4
  <2>4. compared' = {<<f, readAt'[f]>> : f \in {g \in File : readAt'[g] # "unread"}}
    <3>1. compared = {<<f, readAt'[f]>> : f \in {g \in File : readAt[g] # "unread"}}
      BY <2>3 DEF ReadInv
    <3>2. {g \in File : readAt'[g] # "unread"} = {g \in File : readAt[g] # "unread"} \cup {look.file}
      BY <1>2, <2>2
    <3>3. readAt'[look.file] = rev
      BY <1>2, <1>4
    <3>4. QED
      BY <1>1, <3>1, <3>2, <3>3
  <2>5. QED
    BY <1>1, <1>4, <2>1, <2>4 DEF ReadInv
<1>6. ASSUME NEW l, NEW r PROVE Agrees(l, r)' <=> Agrees(l, r)
  BY <1>1 DEF Agrees, Firmware, Recording
<1>7. outcome' = "drift" => \E i \in DOMAIN Looks, r \in named' :
                              <<Looks[i].file, r>> \in compared' /\ ~Agrees(Looks[i], r)'
  BY <1>1, <1>2, <1>3, <1>6
<1>8. ASSUME outcome' \in {"looking", "match"}
      PROVE  /\ \A i \in DOMAIN Looks : i < pos' =>
                  readAt'[Looks[i].file] # "unread" /\ Agrees(Looks[i], readAt[Looks[i].file])'
             /\ outcome' = "looking" => pos' \in DOMAIN Looks
             /\ outcome' = "match" => \A i \in DOMAIN Looks : i < pos'
  <2>1. Agrees(look, rev) /\ (outcome' = "match" <=> pos = Len(Looks))
    BY <1>1, <1>8
  <2>2. ASSUME NEW i \in DOMAIN Looks, i < pos'
        PROVE  readAt'[Looks[i].file] # "unread" /\ Agrees(Looks[i], readAt'[Looks[i].file])
    <3>1. CASE i = pos
      BY <1>2, <1>3, <1>4, <2>1, <3>1
    <3>2. CASE i # pos
      <4>1. i < pos
        BY <1>1, <1>2, <2>2, <3>2, LooksAreListed
      <4>2. readAt[Looks[i].file] # "unread" /\ Agrees(Looks[i], readAt[Looks[i].file])
        BY <1>1, <4>1 DEF LookedInv
      <4>3. Looks[i].file \in File
        BY DEF File
      <4>4. readAt'[Looks[i].file] = readAt[Looks[i].file]
        BY <1>3, <1>4, <4>2, <4>3
      <4>5. QED
        BY <4>2, <4>4
    <3>3. QED
      BY <3>1, <3>2
  <2>3. /\ outcome' = "looking" => pos' \in DOMAIN Looks
        /\ outcome' = "match" => \A i \in DOMAIN Looks : i < pos'
    BY <1>1, <1>2, <1>8, <2>1, LooksAreListed
  <2>4. QED
    BY <1>6, <2>2, <2>3
<1>9. LookedInv'
  <2>1. Validate' /\ tag' \in named' /\ ~failed' /\ outcome' \in {"drift", "match", "looking"}
    BY <1>1, <1>2 DEF Validate
  <2>2. QED
    BY <1>7, <1>8, <2>1 DEF LookedInv
<1>10. QED
  BY <1>5, <1>9

\* A failing call ends the check.
LEMMA GitFailsKeeps == ASSUME CheckInv, GitFails PROVE CheckInv'
<1> USE DEF CheckInv
<1>1. /\ failed' = TRUE /\ outcome' = "drift"
      /\ UNCHANGED <<differs, tag, named, pos, readAt, compared>>
  BY DEF GitFails
<1>2. ReadInv'
  BY <1>1 DEF ReadInv
<1>3. LookedInv'
  BY <1>1 DEF LookedInv
<1>4. QED
  BY <1>2, <1>3

\* Moving the tag changes nothing that has been read.
LEMMA MoveTagKeeps == ASSUME CheckInv, MoveTag PROVE CheckInv'
<1> USE DEF CheckInv
<1>1. /\ outcome \in {"start", "looking"} /\ tag' \in Revision
      /\ named' = IF outcome = "looking" THEN named \cup {tag'} ELSE named
      /\ UNCHANGED <<differs, pos, readAt, compared, failed, outcome>>
  BY DEF MoveTag
<1>2. ReadInv'
  BY <1>1 DEF ReadInv
<1>3. ASSUME NEW l, NEW r PROVE Agrees(l, r)' <=> Agrees(l, r)
  BY <1>1 DEF Agrees, Firmware, Recording
<1>4. LookedInv'
  BY <1>1, <1>3 DEF LookedInv, Validate
<1>5. QED
  BY <1>2, <1>4

\* The invariant of the check, begun or not.
ContractInv == outcome = "none" \/ CheckInv

\* A check starts in the invariant.
LEMMA ContractInits == ContractInit \/ ContractIdle => ContractInv
BY ContractStarts DEF ContractIdle, ContractInv

\* Every step of the check keeps the invariant.
LEMMA ContractStep ==
  ASSUME ContractInv, ContractNext \/ UNCHANGED contractVars
  PROVE  ContractInv'
<1>1. CASE ContractNext
  <2>1. outcome # "none"
    BY <1>1 DEF ContractNext, Load, Compare, GitFails, MoveTag
  <2>2. CheckInv'
    BY <1>1, <2>1, LoadKeeps, CompareKeeps, GitFailsKeeps, MoveTagKeeps DEF ContractNext, ContractInv
  <2>3. QED
    BY <2>2 DEF ContractInv
<1>2. CASE UNCHANGED contractVars
  <2>1. UNCHANGED <<differs, tag, named, pos, readAt, compared, failed, outcome>>
    BY <1>2 DEF contractVars
  <2>2. ASSUME NEW l, NEW r PROVE Agrees(l, r)' <=> Agrees(l, r)
    BY <2>1 DEF Agrees, Firmware, Recording
  <2>3. CheckInv => ReadInv' /\ LookedInv'
    BY <2>1, <2>2 DEF CheckInv, ReadInv, LookedInv, Validate
  <2>4. QED
    BY <2>1, <2>3 DEF ContractInv, CheckInv
<1>3. QED
  BY <1>1, <1>2

\* The looks that passed are what a match means, and the one that failed what a drift does.
LEMMA VerdictFollows == CheckInv => VerdictIsTrue
<1> SUFFICES ASSUME CheckInv PROVE VerdictIsTrue
  OBVIOUS
<1> USE DEF CheckInv
<1>2. ASSUME outcome = "match", NEW i \in DOMAIN Looks
      PROVE  LET f == Looks[i].file
             IN f \in File /\ readAt[f] \in named /\ <<f, readAt[f]>> \in compared /\ Holds(Looks[i], readAt[f])
  <2> DEFINE f == Looks[i].file
  <2>1. f \in File
    BY DEF File
  <2>2. readAt[f] # "unread" /\ Agrees(Looks[i], readAt[f]) /\ Validate
    BY <1>2 DEF LookedInv
  <2>3. readAt[f] \in named /\ <<f, readAt[f]>> \in compared
    BY <2>1, <2>2 DEF ReadInv
  <2>4. Holds(Looks[i], readAt[f])
    BY <2>2 DEF Holds, Agrees, Recording, Validate
  <2>5. QED
    BY <2>1, <2>3, <2>4
<1>3. ASSUME outcome = "match", NEW f \in File PROVE Cardinality({u \in compared : u[1] = f}) = 1
  <2>1. PICK i \in DOMAIN Looks : f = Looks[i].file
    BY DEF File
  <2>2. <<f, readAt[f]>> \in compared
    BY <1>2, <1>3, <2>1
  <2>3. \A u \in compared : u[1] = f => u = <<f, readAt[f]>>
    BY DEF ReadInv
  <2>4. {u \in compared : u[1] = f} = {<<f, readAt[f]>>}
    BY <2>2, <2>3
  <2>5. QED
    BY <2>4, FS_Singleton
<1>4. ASSUME outcome = "match", Cardinality(named) = 1, NEW i \in DOMAIN Looks PROVE Holds(Looks[i], tag)
  <2>1. tag \in named
    BY <1>4 DEF LookedInv
  <2>2. IsFiniteSet(named)
    <3>1. IsFiniteSet(Revision)
      <4>1. IsFiniteSet({"one"}) /\ IsFiniteSet({"two"})
        BY FS_Singleton
      <4>2. Revision = {"one"} \cup {"two"}
        BY DEF Revision
      <4>3. QED
        BY <4>1, <4>2, FS_Union
    <3>2. QED
      BY <3>1, FS_Subset DEF ReadInv
  <2>3. PICK r : named = {r}
    BY <1>4, <2>2, FS_Singleton
  <2>4. QED
    BY <1>2, <1>4, <2>1, <2>3
<1>5. QED
  BY <1>2, <1>3, <1>4 DEF VerdictIsTrue, LookedInv

\* The invariant implies the property.
LEMMA ContractGoal == ContractInv => VerdictIsTrue
BY VerdictFollows DEF ContractInv, VerdictIsTrue

-----------------------------------------------------------------------------
\* ImageFitting: what scaling and cropping leave of a side, and what a GIF may hold.

LEMMA LeastNumber ==
  ASSUME NEW T, T \subseteq Nat, T # {}
  PROVE  \E n \in T : \A m \in T : n <= m
<1> DEFINE R == {ss \in Nat \X Nat : ss[1] < ss[2]}
<1>1. IsWellFoundedOn(R, Nat)
  BY NatLessThanWellFounded DEF OpToRel
<1>2. \A x, y \in Nat : <<y, x>> \in R <=> y < x
  OBVIOUS
<1> HIDE DEF R
<1>3. \E x \in T : \A y \in T : ~ (<<y, x>> \in R)
  BY <1>1, WFMin
<1>4. PICK n \in T : \A m \in T : ~ (<<m, n>> \in R)
  BY <1>3
<1>5. ASSUME NEW m \in T PROVE n <= m
  <2>1. n \in Nat /\ m \in Nat
    OBVIOUS
  <2>2. ~(m < n)
    BY <1>2, <1>4, <2>1
  <2>3. QED
    BY <2>1, <2>2
<1>6. QED
  BY <1>5

\* A factor that is positive can be taken off both sides.
LEMMA Factor ==
  ASSUME NEW a \in Int, NEW b \in Int, NEW c \in Nat \ {0}
  PROVE  a * c <= b * c <=> a <= b
OBVIOUS

LEMMA Grows ==
  ASSUME NEW a \in Int, NEW b \in Int, NEW c \in Nat, a <= b
  PROVE  a * c <= b * c
OBVIOUS

\* Rounding a * b / c is off by half at most.
LEMMA RoundedIsNear ==
  ASSUME NEW a \in Nat, NEW b \in Nat, NEW c \in Nat \ {0}, NEW r \in Rounded(a, b, c)
  PROVE  r \in Int /\ 2 * (a * b) - c <= 2 * (c * r) /\ 2 * (c * r) <= 2 * (a * b) + c
<1> DEFINE p == a * b
           k == 2 * c
           q == (2 * p + c) \div k
<1>1. p \in Nat /\ k \in Nat \ {0} /\ 2 * a * b = 2 * p
  OBVIOUS
<1> HIDE DEF p
<1>2. q \in Int /\ q * k <= 2 * p + c /\ 2 * p + c < q * k + k
  BY <1>1
<1>3. CASE r = q
  BY <1>1, <1>2, <1>3
<1>4. CASE r # q
  <2>1. (2 * p + c) % k = 0 /\ r = (2 * p - c) \div k
    BY <1>1, <1>4 DEF Rounded
  <2>2. 2 * p + c = q * k
    BY <1>1, <2>1
  <2>3. 2 * p - c = (q - 1) * k
    BY <1>1, <1>2, <2>2
  <2>4. r = q - 1
    BY <1>1, <1>2, <2>1, <2>3
  <2>5. QED
    BY <1>1, <1>2, <2>3, <2>4
<1>5. QED
  BY <1>3, <1>4 DEF p

\* One axis of FillsDisplay.
Fills(side, limit, of, length, start) ==
  /\ length = (IF side < limit THEN side ELSE limit)
  /\ start >= 0 /\ start + length <= of /\ (of - length) - 2 * start \in {0, 1}
  /\ \A i \in {start, start + length - 1} : sample(i, of, side) \in 0..(side - 1) * 2 * of

\* What is scaled by n / d <= 1 is no larger than it was, and covers the limit if n / d
\* was chosen so.
LEMMA ScaledSide ==
  ASSUME NEW side \in Nat \ {0}, NEW limit \in Nat \ {0}, NEW n \in Nat \ {0}, NEW d \in Nat \ {0},
         NEW r \in Rounded(side, n, d), n <= d, n = d \/ limit * d <= n * side
  PROVE  /\ r \in Int /\ r <= side /\ (n = d => r = side)
         /\ n # d => limit <= r /\ limit <= side
<1> DEFINE p == side * n
<1>1. r \in Int /\ 2 * p - d <= 2 * (d * r) /\ 2 * (d * r) <= 2 * p + d
  BY RoundedIsNear
<1>2. p \in Nat /\ p <= side * d /\ (n = d => p = side * d) /\ (n # d => limit * d <= p)
  BY Grows
<1> HIDE DEF p
<1>3. d * r <= d * side
  <2>1. 2 * (d * r) <= 2 * (side * d) + d
    BY <1>1, <1>2
  <2>2. ASSUME r >= side + 1 PROVE FALSE
    <3>1. (side + 1) * d <= r * d
      BY <1>1, <2>2, Grows
    <3>2. (side + 1) * d = side * d + d /\ r * d = d * r /\ d * r \in Int /\ side * d \in Int
      BY <1>1
    <3>3. QED
      BY <2>1, <3>1, <3>2
  <2>3. r <= side
    BY <1>1, <2>2
  <2>4. QED
    BY <1>1, <2>3, Grows
<1>4. r <= side
  BY <1>1, <1>3, Factor
<1>5. ASSUME NEW low \in Int, low * d <= p PROVE low <= r
  <2>1. 2 * (low * d) <= 2 * (d * r) + d
    BY <1>1, <1>2, <1>5
  <2>2. ASSUME r <= low - 1 PROVE FALSE
    <3>1. r * d <= (low - 1) * d
      BY <1>1, <2>2, Grows
    <3>2. (low - 1) * d = low * d - d /\ r * d = d * r /\ d * r \in Int /\ low * d \in Int
      BY <1>1
    <3>3. QED
      BY <2>1, <3>1, <3>2
  <2>3. QED
    BY <1>1, <2>2
<1>6. n = d => side <= r
  BY <1>2, <1>5
<1>7. n # d => limit <= r
  BY <1>2, <1>5
<1>8. QED
  BY <1>1, <1>4, <1>6, <1>7

\* Pixels taken from inside the scaled image come from inside the source.
LEMMA SampledInside ==
  ASSUME NEW side \in Nat \ {0}, NEW of \in Nat \ {0}, of <= side, NEW i \in 0..of - 1
  PROVE  sample(i, of, side) \in 0..(side - 1) * 2 * of
<1> DEFINE m == 2 * i + 1
<1>1. m \in Nat /\ 1 <= m /\ m <= 2 * of - 1
  OBVIOUS
<1>2. 1 * side <= m * side /\ m * side <= (2 * of - 1) * side
  BY <1>1, Grows
<1>3. /\ 1 * side = side /\ (2 * of - 1) * side = 2 * (of * side) - side /\ m * side \in Int
      /\ (side - 1) * 2 * of = 2 * (of * side) - 2 * of /\ of * side \in Int
  BY <1>1
<1>4. sample(i, of, side) = m * side - of
  BY DEF sample
<1> HIDE DEF m
<1>5. QED
  BY <1>2, <1>3, <1>4

\* A side that covers the limit, or all there is, fills it and is cut from the middle.
LEMMA CutFromTheMiddle ==
  ASSUME NEW side \in Nat \ {0}, NEW limit \in Nat \ {0}, NEW of \in Nat \ {0},
         of <= side, of = side \/ limit <= of,
         NEW length, length = (IF of < limit THEN of ELSE limit)
  PROVE  Fills(side, limit, of, length, (of - length) \div 2)
<1> DEFINE start == (of - length) \div 2
<1>1. length \in Nat \ {0} /\ length <= of /\ length = (IF side < limit THEN side ELSE limit)
  OBVIOUS
<1>2. start \in Int /\ start >= 0 /\ start + length <= of /\ (of - length) - 2 * start \in {0, 1}
  BY <1>1
<1> HIDE DEF start
<1>3. start \in 0..of - 1 /\ start + length - 1 \in 0..of - 1
  BY <1>1, <1>2
<1>4. \A i \in {start, start + length - 1} : sample(i, of, side) \in 0..(side - 1) * 2 * of
  BY <1>3, SampledInside
<1>5. QED
  BY <1>1, <1>2, <1>4 DEF Fills, start

LEMMA TwoElements ==
  ASSUME NEW x, NEW y, x # y
  PROVE  Cardinality({x} \cup {y}) = 2
<1> DEFINE one == {x}
<1>1. IsFiniteSet(one) /\ Cardinality(one) = 1 /\ y \notin one
  BY FS_Singleton
<1> HIDE DEF one
<1>2. Cardinality(one \cup {y}) = Cardinality(one) + 1
  BY <1>1, FS_AddElement
<1>3. QED
  BY <1>1, <1>2 DEF one

\* Only the first image before the trailer counts, and one is all there may be.
LEMMA OneImage ==
  ASSUME NEW m \in Nat, NEW blocks \in [1..m -> Blocks], gifFrames(blocks) = "one",
         NEW i \in 1..m, NEW j \in 1..m, i < j, blocks[i] = "image", blocks[j] = "image"
  PROVE  \E k \in 1..j : blocks[k] = "trailer"
<1> DEFINE ends == {k \in 1..Len(blocks) : blocks[k] \in {"trailer", "junk"}}
           stop == IF ends # {} THEN Min(ends) ELSE 0
           before == IF stop = 0 THEN blocks ELSE SubSeq(blocks, 1, stop - 1)
           images == {k \in DOMAIN before : before[k] = "image"}
<1>1. blocks \in Seq(Blocks) /\ Len(blocks) = m /\ DOMAIN blocks = 1..m
  OBVIOUS
<1>2. SelectInSeq(blocks, LAMBDA b : b \in {"trailer", "junk"}) = stop
  BY DEF SelectInSeq
<1>3. /\ ~(Cardinality(images) > 1) /\ stop # 0 /\ blocks[stop] # "junk"
  BY <1>2 DEF gifFrames
<1>4. stop \in ends
  <2>1. ends # {} /\ ends \subseteq Nat
    BY <1>1, <1>3
  <2>2. \E x \in ends : \A y \in ends : x <= y
    BY <2>1, LeastNumber
  <2>3. Min(ends) \in ends
    BY <2>2 DEF Min
  <2>4. QED
    BY <2>1, <2>3
<1> HIDE DEF stop
<1>5. stop \in 1..m /\ blocks[stop] = "trailer"
  BY <1>1, <1>3, <1>4
<1>6. ASSUME j < stop PROVE FALSE
  <2>1. DOMAIN before = 1..stop - 1 /\ \A k \in 1..stop - 1 : before[k] = blocks[k]
    BY <1>1, <1>3, <1>5
  <2>2. {i, j} \subseteq images
    BY <1>5, <1>6, <2>1
  <2>3. IsFiniteSet(images)
    <3>1. IsFiniteSet(1..stop - 1)
      BY <1>5, FS_Interval
    <3>2. QED
      BY <2>1, <3>1, FS_Subset
  <2> HIDE DEF images
  <2>4. i # j
    OBVIOUS
  <2>5. Cardinality({i} \cup {j}) = 2
    BY <2>4, Zenon, TwoElements
  <2>6. Cardinality({i} \cup {j}) <= Cardinality(images) /\ Cardinality(images) \in Nat
    BY <2>2, <2>3, FS_Subset, FS_CardinalityType
  <2>7. QED
    BY <1>3, <2>5, <2>6
<1>7. QED
  BY <1>5, <1>6

\* What is decoded has passed the checks, and an image that is no GIF has no blocks.
Passed ==
  /\ image.target \in DOMAIN targetDimensions
  /\ ReadAll(image.input, MaxInputBytes) = "data" /\ decodable
ImageTyped ==
  /\ image.w \in Nat /\ image.h \in Nat /\ image.input \in [units : Nat, fails : BOOLEAN]
  /\ \E m \in Nat : image.gif \in [1..m -> Blocks]
  /\ image.format = "gif" \/ image.gif = <<>>
ImageInv ==
  /\ ImageTyped
  /\ fitting \in {"decoded", "ok"} => Passed
  /\ FillsDisplay

\* The sequences of blocks, of every length.
Gifs == UNION {[1..m -> Blocks] : m \in Nat}

\* What an image's type needs of the sets it is taken from.
LEMMA Pictured ==
  ASSUME NEW readers, NEW formats, NEW sides, NEW gifs, NEW displays,
         readers \subseteq [units : Nat, fails : BOOLEAN], sides \subseteq Nat, gifs \subseteq Gifs,
         formats = {"gif"} \/ gifs = {<<>>},
         image \in Images(readers, formats, sides, gifs, displays)
  PROVE  ImageTyped
<1>1. /\ image.input \in readers /\ image.format \in formats /\ image.w \in sides
      /\ image.h \in sides /\ image.gif \in gifs
  BY DEF Images
<1>2. QED
  BY <1>1 DEF ImageTyped, Gifs

LEMMA ImageInits == ImageInit \/ ImageIdle => ImageInv
<1>1. {<<>>} \subseteq Gifs
  <2>1. <<>> \in [1..0 -> Blocks] /\ 0 \in Nat
    OBVIOUS
  <2>2. QED
    BY <2>1 DEF Gifs
<1>2. BoundedSeq(Blocks, MaxBlocks) \subseteq Gifs
  BY ImageAssumption DEF BoundedSeq, SeqOf, Gifs
<1>3. {Plain} \subseteq [units : Nat, fails : BOOLEAN]
  BY DEF Plain
<1>4. Inputs(MaxInputBytes + 2) \subseteq [units : Nat, fails : BOOLEAN]
  BY ImageAssumption DEF Inputs
<1>5. ASSUME ImageInit \/ ImageIdle PROVE ImageTyped
  <2>1. CASE image \in Images({Plain}, {"none"}, {1}, {<<>>}, {"front"})
    BY <1>1, <1>3, <2>1, Pictured
  <2>2. CASE image \in Images({Plain}, {"png"}, Sides, {<<>>}, {"front", "back"})
    <3>1. Sides \subseteq Nat
      BY ImageAssumption
    <3>2. image.input = Plain /\ image.w \in Sides /\ image.h \in Sides /\ image.gif = <<>>
      BY <2>2 DEF Images
    <3>3. <<>> \in Gifs
      BY <1>1
    <3>4. QED
      BY <1>3, <3>1, <3>2, <3>3 DEF ImageTyped, Gifs
  <2>3. CASE image \in Images(Inputs(MaxInputBytes + 2), {"png", "jpeg", "unknown"}, {0, 16},
                              {<<>>}, {"front", "none"})
    BY <1>1, <1>4, <2>3, Pictured
  <2>4. CASE image \in Images({Plain}, {"gif"}, {16}, BoundedSeq(Blocks, MaxBlocks), {"back"})
    BY <1>2, <1>3, <2>4, Pictured
  <2>5. QED
    BY <1>5, <2>1, <2>2, <2>3, <2>4 DEF ImageInit, ImageIdle
<1>6. ASSUME ImageInit \/ ImageIdle PROVE fitting \notin {"decoded", "ok"}
  BY <1>6 DEF ImageInit, ImageIdle
<1>7. QED
  BY <1>5, <1>6 DEF ImageInv, FillsDisplay

\* The scale is one, or covers both sides of the display and shrinks both of the image.
LEMMA ScaleCovers ==
  ASSUME image.w \in Nat \ {0}, image.h \in Nat \ {0},
         NEW max, max.w \in Nat \ {0}, max.h \in Nat \ {0}
  PROVE  LET n == Scale(max).n  d == Scale(max).d
         IN /\ n \in Nat \ {0} /\ d \in Nat \ {0} /\ n <= d
            /\ n = d \/ max.w * d <= n * image.w
            /\ n = d \/ max.h * d <= n * image.h
<1>1. CASE larger(max).n > larger(max).d
  BY <1>1 DEF Scale
<1>2. CASE ~(larger(max).n > larger(max).d)
  <2>1. CASE max.w * image.h >= max.h * image.w
    BY <1>2, <2>1 DEF Scale, larger
  <2>2. CASE ~(max.w * image.h >= max.h * image.w)
    <3>1. /\ max.h * image.w \in Int /\ max.w * image.h \in Int
          /\ max.w * image.h <= max.h * image.w
      BY <2>2
    <3>2. QED
      BY <1>2, <2>2, <3>1 DEF Scale, larger
  <2>3. QED
    BY <2>1, <2>2
<1>3. QED
  BY <1>1, <1>2

\* What fits under the limit by a quotient fits by the product.
LEMMA Within ==
  ASSUME NEW a \in Nat, NEW b \in Nat \ {0}, NEW most \in Nat, a <= most \div b
  PROVE  a * b <= most
<1> DEFINE q == most \div b
<1>1. q \in Nat /\ q * b <= most
  OBVIOUS
<1> HIDE DEF q
<1>2. a * b <= q * b /\ a * b \in Int /\ q * b \in Int
  BY <1>1, Grows DEF q
<1>3. QED
  BY <1>1, <1>2

LEMMA FitFills ==
  ASSUME ImageInv, Fit
  PROVE  FillsDisplay'
<1> DEFINE max == targetDimensions[image.target]
           n == Scale(max).n
           d == Scale(max).d
<1>1. ImageTyped /\ Passed /\ UNCHANGED image
  BY DEF ImageInv, Fit
<1>2. max.w \in Nat \ {0} /\ max.h \in Nat \ {0}
  BY <1>1 DEF Passed, targetDimensions
<1>3. /\ image.w \in Nat \ {0} /\ image.h \in Nat \ {0} /\ image.w <= MaxSourcePixels \div image.h
      /\ image.format = "gif" => gifFrames(image.gif) = "one"
  BY <1>1 DEF Passed, ImageTyped, decodable
<1> DEFINE Least(a, b) == IF a < b THEN a ELSE b
           AtLeastOne(a) == IF a < 1 THEN 1 ELSE a
<1>4. PICK w \in Rounded(image.w, n, d), h \in Rounded(image.h, n, d) :
        /\ scaled' = [w |-> AtLeastOne(w), h |-> AtLeastOne(h)]
        /\ result' = [w |-> Least(scaled'.w, max.w), h |-> Least(scaled'.h, max.h),
                      x |-> (scaled'.w - Least(scaled'.w, max.w)) \div 2,
                      y |-> (scaled'.h - Least(scaled'.h, max.h)) \div 2]
  BY DEF Fit
<1> HIDE DEF max
<1>5. /\ n \in Nat \ {0} /\ d \in Nat \ {0} /\ n <= d
      /\ n = d \/ max.w * d <= n * image.w
      /\ n = d \/ max.h * d <= n * image.h
  BY <1>2, <1>3, ScaleCovers
<1> HIDE DEF n, d
<1>6. /\ w \in Int /\ w <= image.w /\ (n = d => w = image.w)
      /\ n # d => max.w <= w /\ max.w <= image.w
  BY <1>2, <1>3, <1>5, ScaledSide
<1>7. /\ h \in Int /\ h <= image.h /\ (n = d => h = image.h)
      /\ n # d => max.h <= h /\ max.h <= image.h
  BY <1>2, <1>3, <1>5, ScaledSide
<1>8. scaled'.w = w /\ scaled'.h = h /\ w \in Nat \ {0} /\ h \in Nat \ {0}
  BY <1>2, <1>3, <1>4, <1>6, <1>7
<1>9. /\ result'.w = Least(w, max.w) /\ result'.x = (w - result'.w) \div 2
      /\ result'.h = Least(h, max.h) /\ result'.y = (h - result'.h) \div 2
  BY <1>4, <1>8
<1>10. Fills(image.w, max.w, scaled'.w, result'.w, result'.x)
  BY <1>2, <1>3, <1>6, <1>8, <1>9, CutFromTheMiddle
<1>11. Fills(image.h, max.h, scaled'.h, result'.h, result'.y)
  BY <1>2, <1>3, <1>7, <1>8, <1>9, CutFromTheMiddle
<1>12. image.w * image.h <= MaxSourcePixels
  BY <1>3, ImageAssumption, Within
<1>13. image.input.units <= MaxInputBytes
  BY <1>1, ImageAssumption DEF Passed, ImageTyped, ReadAll
<1>14. ASSUME NEW i \in DOMAIN image.gif, NEW j \in DOMAIN image.gif, i < j,
              image.gif[i] = "image", image.gif[j] = "image"
       PROVE  \E k \in 1..j : image.gif[k] = "trailer"
  <2>1. image.format = "gif"
    BY <1>1 DEF ImageTyped
  <2>2. PICK m \in Nat : image.gif \in [1..m -> Blocks]
    BY <1>1 DEF ImageTyped
  <2>3. QED
    BY <1>3, <1>14, <2>1, <2>2, OneImage
<1>15. QED
  BY <1>1, <1>10, <1>11, <1>12, <1>13, <1>14 DEF FillsDisplay, Fills, max, sample

LEMMA ImageStep ==
  ASSUME ImageInv, ImageNext \/ UNCHANGED imageVars
  PROVE  ImageInv'
<1>1. CASE Decode
  <2>1. fitting' # "ok" /\ UNCHANGED image /\ (fitting' = "decoded" => Passed)
    BY <1>1 DEF Decode, Passed, ReadAll
  <2>2. QED
    BY <2>1 DEF ImageInv, ImageTyped, Passed, decodable, FillsDisplay
<1>2. CASE Fit
  <2>1. FillsDisplay'
    BY <1>2, FitFills
  <2>2. Passed /\ UNCHANGED image
    BY <1>2 DEF Fit, ImageInv
  <2>3. QED
    BY <2>1, <2>2 DEF ImageInv, ImageTyped, Passed, decodable
<1>3. CASE UNCHANGED imageVars
  BY <1>3 DEF imageVars, ImageInv, ImageTyped, Passed, decodable, FillsDisplay
<1>4. QED
  BY <1>1, <1>2, <1>3 DEF ImageNext

LEMMA ImageGoal == ImageInv => FillsDisplay
BY DEF ImageInv

-----------------------------------------------------------------------------
\* Induction over the numbers, and what FlattenSeq gives for lists of every length.

\* A set that holds zero, and with every number the next, holds them all.
LEMMA Induction ==
  ASSUME NEW S, 0 \in S, \A n \in Nat : n \in S => n + 1 \in S
  PROVE  Nat \subseteq S
<1> SUFFICES ASSUME Nat \ S # {} PROVE FALSE
  OBVIOUS
<1>1. PICK n \in Nat \ S : \A m \in Nat \ S : n <= m
  BY LeastNumber
<1>2. n - 1 \in Nat /\ n - 1 \in S /\ n = (n - 1) + 1
  BY <1>1
<1>3. QED
  BY <1>1, <1>2

-----------------------------------------------------------------------------
\* FlattenSeq: what its loop has put together up to a place.
FlatTo(seqs, n, flat) ==
  flat = [i \in 1..n |-> IF i = 1 THEN seqs[i] ELSE flat[i - 1] \o seqs[i]]

\* There is a function that does what the loop says.
LEMMA FlatExists ==
  ASSUME NEW seqs, NEW n \in Nat
  PROVE  \E flat : FlatTo(seqs, n, flat)
<1> DEFINE Good == {k \in Nat : \E flat : FlatTo(seqs, k, flat)}
<1>1. 0 \in Good
  <2>1. FlatTo(seqs, 0, [i \in 1..0 |-> <<>>])
    BY DEF FlatTo
  <2>2. QED
    BY <2>1
<1>2. ASSUME NEW k \in Nat, k \in Good PROVE k + 1 \in Good
  <2>1. PICK flat : FlatTo(seqs, k, flat)
    BY <1>2
  <2> DEFINE Body(f, i) == IF i = 1 THEN seqs[i] ELSE f[i - 1] \o seqs[i]
             longer == [i \in 1..k + 1 |-> IF i = k + 1 THEN Body(flat, i) ELSE flat[i]]
  <2>2. \A i \in 1..k : longer[i] = flat[i]
    OBVIOUS
  <2>3. ASSUME NEW i \in 1..k + 1 PROVE longer[i] = Body(longer, i)
    <3>1. longer[i] = Body(flat, i)
      <4>1. CASE i = k + 1
        BY <4>1
      <4>2. CASE i # k + 1
        <5>1. i \in 1..k
          BY <4>2
        <5>2. flat[i] = Body(flat, i)
          BY <2>1, <5>1 DEF FlatTo
        <5>3. QED
          BY <2>2, <5>1, <5>2
      <4>3. QED
        BY <4>1, <4>2
    <3>2. i # 1 => longer[i - 1] = flat[i - 1]
      BY <2>2
    <3> HIDE DEF longer
    <3>3. QED
      BY <3>1, <3>2
  <2>4. longer = [i \in 1..k + 1 |-> longer[i]]
    OBVIOUS
  <2> HIDE DEF longer
  <2>5. FlatTo(seqs, k + 1, longer)
    BY <2>3, <2>4 DEF FlatTo
  <2>6. QED
    BY <2>5
<1>3. QED
  BY <1>1, <1>2, Induction

\* What FlattenSeq returns is where the loop that appends list after list ends.
LEMMA FlattenIs ==
  ASSUME NEW seqs, NEW n \in Nat \ {0}, Len(seqs) = n
  PROVE  \E flat : FlatTo(seqs, n, flat) /\ FlattenSeq(seqs) = flat[n]
<1> DEFINE loop == CHOOSE flat : FlatTo(seqs, n, flat)
<1>1. FlatTo(seqs, n, loop)
  <2>1. \E flat : FlatTo(seqs, n, flat)
    BY FlatExists
  <2>2. QED
    BY <2>1
<1>2. FlattenSeq(seqs) = loop[n]
  BY Zenon DEF FlattenSeq, FlatTo
<1>3. QED
  BY <1>1, <1>2

\* Lists that agree up to a place are flattened alike up to there.
AgreeTo(seqs, more, n) == \A i \in 1..n : more[i] = seqs[i]

\* The loops of lists that agree, agree.
LEMMA FlatsAgree ==
  ASSUME NEW seqs, NEW more, NEW n \in Nat, NEW m \in Nat, n <= m, AgreeTo(seqs, more, n),
         NEW flat, FlatTo(seqs, n, flat), NEW further, FlatTo(more, m, further)
  PROVE  AgreeTo(flat, further, n)
<1> DEFINE Good == {k \in Nat : k \in 1..n => further[k] = flat[k]}
<1>1. \A i \in 1..n : flat[i] = IF i = 1 THEN seqs[i] ELSE flat[i - 1] \o seqs[i]
  BY DEF FlatTo
<1>2. \A i \in 1..m : further[i] = IF i = 1 THEN more[i] ELSE further[i - 1] \o more[i]
  BY DEF FlatTo
<1>3. 0 \in Good
  OBVIOUS
<1>4. ASSUME NEW k \in Nat, k \in Good PROVE k + 1 \in Good
  <2>1. SUFFICES ASSUME k + 1 \in 1..n PROVE further[k + 1] = flat[k + 1]
    OBVIOUS
  <2>2. k + 1 \in 1..m /\ more[k + 1] = seqs[k + 1] /\ (k + 1) - 1 = k /\ (k + 1 # 1 => k \in 1..n)
    BY <2>1 DEF AgreeTo
  <2>3. k + 1 # 1 => further[k] = flat[k]
    BY <1>4, <2>2
  <2>4. QED
    BY <1>1, <1>2, <2>1, <2>2, <2>3
<1>5. Nat \subseteq Good
  BY <1>3, <1>4, Induction
<1>6. QED
  BY <1>5 DEF AgreeTo

\* One sequence more at the end of a list.
Extended(seqs, more, end) ==
  /\ Len(seqs) \in Nat /\ (Len(seqs) = 0 => seqs = <<>>)
  /\ Len(more) = Len(seqs) + 1 /\ more[Len(seqs) + 1] = end /\ AgreeTo(seqs, more, Len(seqs))

\* It comes behind what the others give.
LEMMA FlattenMore ==
  ASSUME NEW S, NEW seqs, NEW more, NEW end \in Seq(S), Extended(seqs, more, end)
  PROVE  FlattenSeq(more) = FlattenSeq(seqs) \o end
<1> DEFINE n == Len(seqs)
<1>1. /\ n \in Nat /\ (n = 0 => seqs = <<>>) /\ AgreeTo(seqs, more, n)
      /\ Len(more) = n + 1 /\ more[n + 1] = end /\ Len(seqs) = n
  BY DEF Extended
<1> HIDE DEF n
<1>2. PICK further : FlatTo(more, n + 1, further) /\ FlattenSeq(more) = further[n + 1]
  BY <1>1, FlattenIs
<1>3. further[n + 1] = IF n = 0 THEN end ELSE further[n] \o end
  <2>1. \A i \in 1..n + 1 : further[i] = IF i = 1 THEN more[i] ELSE further[i - 1] \o more[i]
    BY <1>2 DEF FlatTo
  <2>2. n + 1 \in 1..n + 1 /\ (n + 1) - 1 = n /\ (n + 1 = 1 <=> n = 0)
    BY <1>1
  <2>3. QED
    BY <1>1, <2>1, <2>2
<1>4. CASE n = 0
  <2>1. FlattenSeq(seqs) = <<>>
    BY <1>1, <1>4 DEF FlattenSeq
  <2>2. <<>> \o end = end
    BY ConcatEmptySeq
  <2>3. QED
    BY <1>2, <1>3, <1>4, <2>1, <2>2
<1>5. CASE n # 0
  <2>1. PICK flat : FlatTo(seqs, n, flat) /\ FlattenSeq(seqs) = flat[n]
    BY <1>1, <1>5, FlattenIs
  <2>2. further[n] = flat[n]
    <3>1. n + 1 \in Nat /\ n <= n + 1 /\ n \in 1..n
      BY <1>1, <1>5
    <3>2. AgreeTo(flat, further, n)
      BY <1>1, <1>2, <2>1, <3>1, FlatsAgree
    <3>3. QED
      BY <3>1, <3>2 DEF AgreeTo
  <2>3. QED
    BY <1>2, <1>3, <1>5, <2>1, <2>2
<1>6. QED
  BY <1>4, <1>5

\* A list of sequences is flattened to a sequence.
LEMMA FlattenTyped ==
  ASSUME NEW S, NEW n \in Nat, NEW seqs \in [1..n -> Seq(S)]
  PROVE  FlattenSeq(seqs) \in Seq(S)
<1>1. Len(seqs) = n /\ (n = 0 => seqs = <<>>)
  OBVIOUS
<1>2. CASE n = 0
  BY <1>1, <1>2 DEF FlattenSeq
<1>3. CASE n # 0
  <2>1. PICK flat : FlatTo(seqs, n, flat) /\ FlattenSeq(seqs) = flat[n]
    BY <1>1, <1>3, FlattenIs
  <2>2. \A i \in 1..n : flat[i] = IF i = 1 THEN seqs[i] ELSE flat[i - 1] \o seqs[i]
    BY <2>1 DEF FlatTo
  <2> DEFINE Good == {k \in Nat : k \in 1..n => flat[k] \in Seq(S)}
  <2>3. 0 \in Good
    OBVIOUS
  <2>4. ASSUME NEW k \in Nat, k \in Good PROVE k + 1 \in Good
    <3>1. SUFFICES ASSUME k + 1 \in 1..n PROVE flat[k + 1] \in Seq(S)
      OBVIOUS
    <3>2. (k + 1) - 1 = k /\ (k + 1 # 1 => k \in 1..n) /\ seqs[k + 1] \in Seq(S)
      BY <3>1
    <3>3. k + 1 # 1 => flat[k] \o seqs[k + 1] \in Seq(S)
      BY <2>4, <3>2
    <3>4. QED
      BY <2>2, <3>1, <3>2, <3>3
  <2>5. Nat \subseteq Good
    BY <2>3, <2>4, Induction
  <2>6. n \in Nat /\ n \in 1..n
    BY <1>3
  <2>7. QED
    BY <2>1, <2>5, <2>6
<1>4. QED
  BY <1>2, <1>3

-----------------------------------------------------------------------------
\* FrameDecoding: what n runs are encoded to and what they stand for.

\* What one run is encoded to, and the pixels it stands for.
Piece(op, i, block) == <<Byte(op)>> \o BytesFrom(DataOf(op, block), 10 * i)
Blocked(op, i, block) ==
  FlattenSeq([k \in 1..op.count |-> BytesFrom(block, 10 * i + IF op.literal THEN (k - 1) * block ELSE 0)])

\* How many bytes there are.
LEMMA BytesTyped ==
  ASSUME NEW n \in Nat, NEW from \in Nat
  PROVE  BytesFrom(n, from) \in Seq(Nat) /\ Len(BytesFrom(n, from)) = n
BY DEF BytesFrom

\* The opcode read back is the one written.
LEMMA OpcodeRead ==
  ASSUME NEW op \in Opcodes
  PROVE  Byte(op) \in Nat /\ Opcode(Byte(op)) = op
<1> DEFINE room == MaxCount + 1
           count == op.count
<1>1. room \in Nat \ {0} /\ count \in 0..room - 1 /\ op = [literal |-> op.literal, count |-> op.count]
      /\ op.literal \in BOOLEAN
  BY FrameAssumption DEF Opcodes
<1>2. Byte(op) = count + IF op.literal THEN room ELSE 0
  BY DEF Byte
<1> HIDE DEF room, count
<1>3. CASE op.literal
  <2>1. (count + room) \div room = 1 /\ (count + room) % room = count
    BY <1>1
  <2>2. Byte(op) \in Nat /\ (Byte(op) \div room) % 2 = 1 /\ Byte(op) % room = count
    BY <1>1, <1>2, <1>3, <2>1
  <2>3. Opcode(Byte(op)) = [literal |-> TRUE, count |-> count]
    BY <2>2 DEF Opcode, room
  <2>4. QED
    BY <1>1, <1>3, <2>2, <2>3 DEF count
<1>4. CASE ~op.literal
  <2>1. count \div room = 0 /\ count % room = count
    BY <1>1
  <2>2. Byte(op) \in Nat /\ ~((Byte(op) \div room) % 2 = 1) /\ Byte(op) % room = count
    BY <1>1, <1>2, <1>4, <2>1
  <2>3. Opcode(Byte(op)) = [literal |-> FALSE, count |-> count]
    BY <2>2 DEF Opcode, room
  <2>4. QED
    BY <1>1, <1>4, <2>2, <2>3 DEF count
<1>5. QED
  BY <1>1, <1>3, <1>4

\* Blocks that continue each other are one stretch of bytes.
LEMMA BlocksJoin ==
  ASSUME NEW block \in {2, 3}, NEW from \in Nat, NEW count \in Nat
  PROVE  FlattenSeq([k \in 1..count |-> BytesFrom(block, from + (k - 1) * block)])
           = BytesFrom(count * block, from)
<1> DEFINE list(c) == [k \in 1..c |-> BytesFrom(block, from + (k - 1) * block)]
           Good == {c \in Nat : FlattenSeq(list(c)) = BytesFrom(c * block, from)}
<1>1. 0 \in Good
  <2>1. list(0) = <<>> /\ BytesFrom(0 * block, from) = <<>>
    BY DEF BytesFrom
  <2>2. FlattenSeq(<<>>) = <<>>
    BY DEF FlattenSeq
  <2>3. QED
    BY <2>1, <2>2
<1>2. ASSUME NEW c \in Nat, c \in Good PROVE c + 1 \in Good
  <2> DEFINE next == BytesFrom(block, from + c * block)
  <2>1. next \in Seq(Nat) /\ Len(next) = block
    <3>1. from + c * block \in Nat /\ block \in Nat
      OBVIOUS
    <3>2. QED
      BY <3>1, BytesTyped
  <2>2. Extended(list(c), list(c + 1), next)
    BY DEF Extended, AgreeTo
  <2> HIDE DEF list
  <2>3. FlattenSeq(list(c + 1)) = FlattenSeq(list(c)) \o next
    BY <2>1, <2>2, FlattenMore
  <2>4. BytesFrom(c * block, from) \o next = BytesFrom((c + 1) * block, from)
    BY DEF BytesFrom
  <2>5. FlattenSeq(list(c)) = BytesFrom(c * block, from)
    BY <1>2
  <2>6. FlattenSeq(list(c + 1)) = BytesFrom((c + 1) * block, from)
    BY <2>3, <2>4, <2>5
  <2>7. QED
    BY <2>6
<1>3. QED
  BY <1>1, <1>2, Induction

\* As many blocks as are counted, whether they continue each other or repeat.
LEMMA BlockedLength ==
  ASSUME NEW block \in {2, 3}, NEW list, NEW count \in Nat,
         list \in [1..count -> Seq(Nat)], \A k \in 1..count : Len(list[k]) = block
  PROVE  FlattenSeq(list) \in Seq(Nat) /\ Len(FlattenSeq(list)) = count * block
<1> DEFINE first(c) == [k \in 1..c |-> list[k]]
           Good == {c \in Nat : c <= count => Len(FlattenSeq(first(c))) = c * block}
<1>1. 0 \in Good
  <2>1. first(0) = <<>>
    OBVIOUS
  <2>2. FlattenSeq(<<>>) = <<>>
    BY DEF FlattenSeq
  <2>3. QED
    BY <2>1, <2>2
<1>2. ASSUME NEW c \in Nat, c \in Good PROVE c + 1 \in Good
  <2>1. SUFFICES ASSUME c + 1 <= count PROVE Len(FlattenSeq(first(c + 1))) = (c + 1) * block
    OBVIOUS
  <2> DEFINE next == list[c + 1]
  <2>2. /\ Extended(first(c), first(c + 1), next)
        /\ next \in Seq(Nat) /\ Len(next) = block
        /\ first(c) \in [1..c -> Seq(Nat)]
    BY <2>1 DEF Extended, AgreeTo
  <2> HIDE DEF first, next
  <2>3. FlattenSeq(first(c + 1)) = FlattenSeq(first(c)) \o next
    BY <2>2, FlattenMore
  <2>4. FlattenSeq(first(c)) \in Seq(Nat)
    BY <2>2, FlattenTyped
  <2>5. Len(FlattenSeq(first(c))) = c * block
    BY <1>2, <2>1
  <2>6. Len(FlattenSeq(first(c)) \o next) = Len(FlattenSeq(first(c))) + Len(next)
    BY <2>2, <2>4, ConcatProperties
  <2>7. c * block + block = (c + 1) * block
    OBVIOUS
  <2>8. QED
    BY <2>2, <2>3, <2>5, <2>6, <2>7
<1>3. count \in Good
  <2> HIDE DEF Good
  <2>1. QED
    BY <1>1, <1>2, Induction
<1>4. first(count) = list
  OBVIOUS
<1>5. FlattenSeq(list) \in Seq(Nat)
  BY FlattenTyped
<1>6. Len(FlattenSeq(first(count))) = count * block
  BY <1>3
<1>7. QED
  BY <1>4, <1>5, <1>6

\* t continues s.
Begins(s, t) == s \in Seq(Nat) /\ t \in Seq(Nat) /\ \E u \in Seq(Nat) : t = s \o u

\* Run by run: what is encoded and what it stands for grow by a piece each.
Ser(n, block) == Serialize(SubSeq(runs, 1, n), block)
Exp(n, block) == Expand(SubSeq(runs, 1, n), block)

\* How long a run is, encoded and decoded.
LEMMA PieceTyped ==
  ASSUME NEW block \in {2, 3}, NEW i \in Nat, NEW op \in Opcodes
  PROVE  /\ Piece(op, i, block) \in Seq(Nat) /\ Len(Piece(op, i, block)) = 1 + DataOf(op, block)
         /\ Blocked(op, i, block) \in Seq(Nat) /\ Len(Blocked(op, i, block)) = op.count * block
         /\ op.count \in Nat /\ DataOf(op, block) \in Nat /\ op.count * block \in Nat
<1>1. op.count \in Nat /\ op.literal \in BOOLEAN
  BY FrameAssumption DEF Opcodes
<1>2. DataOf(op, block) \in Nat /\ op.count * block \in Nat /\ 10 * i \in Nat
  BY <1>1 DEF DataOf
<1>3. BytesFrom(DataOf(op, block), 10 * i) \in Seq(Nat) /\ Len(BytesFrom(DataOf(op, block), 10 * i)) = DataOf(op, block)
  BY <1>2, BytesTyped
<1>4. Byte(op) \in Nat
  BY OpcodeRead
<1>5. <<Byte(op)>> \in Seq(Nat) /\ Len(<<Byte(op)>>) = 1
  BY <1>4
<1>6. Piece(op, i, block) \in Seq(Nat) /\ Len(Piece(op, i, block)) = 1 + DataOf(op, block)
  BY <1>3, <1>5 DEF Piece
<1> DEFINE list == [k \in 1..op.count |-> BytesFrom(block, 10 * i + IF op.literal THEN (k - 1) * block ELSE 0)]
<1>7. ASSUME NEW k \in 1..op.count
      PROVE  list[k] \in Seq(Nat) /\ Len(list[k]) = block
  <2>1. 10 * i + (IF op.literal THEN (k - 1) * block ELSE 0) \in Nat /\ block \in Nat
    BY <1>1
  <2>2. QED
    BY <2>1, BytesTyped
<1>8. list \in [1..op.count -> Seq(Nat)]
  BY <1>7
<1> HIDE DEF list
<1>9. FlattenSeq(list) \in Seq(Nat) /\ Len(FlattenSeq(list)) = op.count * block
  BY <1>1, <1>7, <1>8, BlockedLength
<1>10. Blocked(op, i, block) = FlattenSeq(list)
  BY DEF Blocked, list
<1>11. QED
  BY <1>1, <1>2, <1>6, <1>9, <1>10

\* One run more adds its piece at the end of what is encoded and of what it stands for.
LEMMA RunByRun ==
  ASSUME NEW block \in {2, 3}, NEW N \in Nat, runs \in [1..N -> Opcodes], NEW n \in Nat, n <= N
  PROVE  /\ Ser(n, block) \in Seq(Nat) /\ Exp(n, block) \in Seq(Nat)
         /\ n = 0 => Ser(n, block) = <<>> /\ Exp(n, block) = <<>>
         /\ n < N => /\ Ser(n + 1, block) = Ser(n, block) \o Piece(runs[n + 1], n + 1, block)
                     /\ Exp(n + 1, block) = Exp(n, block) \o Blocked(runs[n + 1], n + 1, block)
<1> DEFINE ser(m) == [i \in 1..m |-> Piece(runs[i], i, block)]
           exp(m) == [i \in 1..m |-> Blocked(runs[i], i, block)]
<1>1. ASSUME NEW m \in Nat, m <= N
      PROVE  /\ Ser(m, block) = FlattenSeq(ser(m)) /\ Exp(m, block) = FlattenSeq(exp(m))
             /\ ser(m) \in [1..m -> Seq(Nat)] /\ exp(m) \in [1..m -> Seq(Nat)]
  <2>1. SubSeq(runs, 1, m) = [i \in 1..m |-> runs[i]]
    BY <1>1
  <2>2. DOMAIN SubSeq(runs, 1, m) = 1..m /\ \A i \in 1..m : SubSeq(runs, 1, m)[i] = runs[i]
    BY <2>1
  <2>3. /\ [i \in DOMAIN SubSeq(runs, 1, m) |->
              <<Byte(SubSeq(runs, 1, m)[i])>> \o BytesFrom(DataOf(SubSeq(runs, 1, m)[i], block), 10 * i)] = ser(m)
        /\ [i \in DOMAIN SubSeq(runs, 1, m) |->
              FlattenSeq([k \in 1..SubSeq(runs, 1, m)[i].count |->
                BytesFrom(block, 10 * i + IF SubSeq(runs, 1, m)[i].literal THEN (k - 1) * block ELSE 0)])] = exp(m)
    BY <2>2, Zenon DEF Piece, Blocked
  <2>4. \A i \in 1..m : runs[i] \in Opcodes /\ i \in Nat
    BY <1>1
  <2>5. \A i \in 1..m : Piece(runs[i], i, block) \in Seq(Nat) /\ Blocked(runs[i], i, block) \in Seq(Nat)
    BY <2>4, PieceTyped
  <2>6. QED
    BY <2>3, <2>5 DEF Ser, Exp, Serialize, Expand
<1>2. Ser(n, block) \in Seq(Nat) /\ Exp(n, block) \in Seq(Nat)
  <2> HIDE DEF ser, exp
  <2>1. QED
    BY <1>1, FlattenTyped
<1>3. ASSUME n = 0 PROVE Ser(n, block) = <<>> /\ Exp(n, block) = <<>>
  <2>1. ser(n) = <<>> /\ exp(n) = <<>>
    BY <1>3
  <2>2. FlattenSeq(<<>>) = <<>>
    BY DEF FlattenSeq
  <2>3. QED
    BY <1>1, <2>1, <2>2
<1>4. ASSUME n < N
      PROVE  /\ Ser(n + 1, block) = Ser(n, block) \o Piece(runs[n + 1], n + 1, block)
             /\ Exp(n + 1, block) = Exp(n, block) \o Blocked(runs[n + 1], n + 1, block)
  <2> DEFINE piece == Piece(runs[n + 1], n + 1, block)
             blocked == Blocked(runs[n + 1], n + 1, block)
  <2>1. n + 1 \in Nat /\ n + 1 <= N /\ runs[n + 1] \in Opcodes
    BY <1>4
  <2>2. piece \in Seq(Nat) /\ blocked \in Seq(Nat)
    BY <2>1, PieceTyped
  <2>3. Extended(ser(n), ser(n + 1), piece) /\ Extended(exp(n), exp(n + 1), blocked)
    BY <2>1 DEF Extended, AgreeTo
  <2>4. /\ Ser(n, block) = FlattenSeq(ser(n)) /\ Exp(n, block) = FlattenSeq(exp(n))
        /\ Ser(n + 1, block) = FlattenSeq(ser(n + 1)) /\ Exp(n + 1, block) = FlattenSeq(exp(n + 1))
    BY <1>1, <2>1
  <2> HIDE DEF ser, exp, piece, blocked
  <2>5. FlattenSeq(ser(n + 1)) = FlattenSeq(ser(n)) \o piece
    BY <2>2, <2>3, FlattenMore
  <2>6. FlattenSeq(exp(n + 1)) = FlattenSeq(exp(n)) \o blocked
    BY <2>2, <2>3, FlattenMore
  <2>7. QED
    BY <2>4, <2>5, <2>6 DEF piece, blocked
<1>5. QED
  BY <1>2, <1>3, <1>4

\* A sequence that continues another is no shorter and has its elements where it has them.
LEMMA BeginsMeans ==
  ASSUME NEW s, NEW t, Begins(s, t)
  PROVE  Len(s) \in Nat /\ Len(t) \in Nat /\ Len(s) <= Len(t) /\ \A k \in 1..Len(s) : t[k] = s[k]
<1>1. PICK u \in Seq(Nat) : s \in Seq(Nat) /\ t = s \o u
  BY DEF Begins
<1>2. Len(u) \in Nat /\ Len(s) \in Nat /\ Len(t) = Len(s) + Len(u)
  BY <1>1, ConcatProperties
<1>3. \A k \in 1..Len(s) + Len(u) : t[k] = IF k <= Len(s) THEN s[k] ELSE u[k - Len(s)]
  BY <1>1, ConcatProperties
<1>4. QED
  BY <1>2, <1>3

\* What continues is still continued when more is appended.
LEMMA BeginsFurther ==
  ASSUME NEW s, NEW t, NEW u \in Seq(Nat), Begins(s, t)
  PROVE  Begins(s, t \o u)
<1>1. PICK v \in Seq(Nat) : s \in Seq(Nat) /\ t = s \o v
  BY DEF Begins
<1>2. t \o u = s \o (v \o u)
  BY <1>1, ConcatAssociative
<1>3. v \o u \in Seq(Nat) /\ t \o u \in Seq(Nat)
  BY <1>1
<1>4. QED
  BY <1>1, <1>2, <1>3 DEF Begins

\* What n runs give begins what more runs give.
LEMMA Onward ==
  ASSUME NEW block \in {2, 3}, NEW N \in Nat, runs \in [1..N -> Opcodes], NEW n \in Nat, n <= N
  PROVE  Begins(Ser(n, block), Ser(N, block)) /\ Begins(Exp(n, block), Exp(N, block))
<1> DEFINE Good == {k \in Nat : n + k <= N =>
                      Begins(Ser(n, block), Ser(n + k, block)) /\ Begins(Exp(n, block), Exp(n + k, block))}
<1>1. 0 \in Good
  <2>1. Ser(n, block) \in Seq(Nat) /\ Exp(n, block) \in Seq(Nat)
    BY RunByRun
  <2>2. <<>> \in Seq(Nat) /\ Ser(n, block) = Ser(n, block) \o <<>> /\ Exp(n, block) = Exp(n, block) \o <<>>
    BY <2>1
  <2>3. Begins(Ser(n, block), Ser(n, block)) /\ Begins(Exp(n, block), Exp(n, block))
    BY <2>1, <2>2 DEF Begins
  <2>4. n + 0 = n
    OBVIOUS
  <2>5. QED
    BY <2>3, <2>4
<1>2. ASSUME NEW k \in Nat, k \in Good PROVE k + 1 \in Good
  <2>1. SUFFICES ASSUME n + (k + 1) <= N
                 PROVE  /\ Begins(Ser(n, block), Ser(n + (k + 1), block))
                        /\ Begins(Exp(n, block), Exp(n + (k + 1), block))
    OBVIOUS
  <2> DEFINE m == n + k
  <2>2. m \in Nat /\ m < N /\ m <= N /\ n + (k + 1) = m + 1 /\ m + 1 \in Nat /\ runs[m + 1] \in Opcodes
    BY <2>1
  <2>3. Begins(Ser(n, block), Ser(m, block)) /\ Begins(Exp(n, block), Exp(m, block))
    BY <1>2, <2>2
  <2> HIDE DEF m
  <2>4. /\ Piece(runs[m + 1], m + 1, block) \in Seq(Nat)
        /\ Blocked(runs[m + 1], m + 1, block) \in Seq(Nat)
    BY <2>2, PieceTyped
  <2>5. /\ Ser(m + 1, block) = Ser(m, block) \o Piece(runs[m + 1], m + 1, block)
        /\ Exp(m + 1, block) = Exp(m, block) \o Blocked(runs[m + 1], m + 1, block)
    BY <2>2, RunByRun
  <2>6. QED
    BY <2>2, <2>3, <2>4, <2>5, BeginsFurther
<1>3. N - n \in Good
  <2> HIDE DEF Good
  <2>1. N - n \in Nat
    OBVIOUS
  <2>2. QED
    BY <1>1, <1>2, <2>1, Induction
<1>4. n + (N - n) = N /\ N <= N
  OBVIOUS
<1>5. QED
  BY <1>3, <1>4

\* Where the run after the first n is found among what N runs are encoded to, and what
\* it adds.
NextIs(n, N, block) ==
  LET op == runs[n + 1]
      data == DataOf(op, block)
      from == Len(Ser(n, block))
  IN /\ from \in Nat /\ data \in Nat
     /\ from + 1 + data <= Len(Ser(N, block)) /\ from + 1 + data = Len(Ser(n + 1, block))
     /\ Opcode(Ser(N, block)[from + 1]) = op
     /\ \A k \in 1..data : Ser(N, block)[from + 1 + k] = 10 * (n + 1) + k
     /\ Len(Exp(n, block)) + op.count * block <= Len(Exp(N, block))
     /\ Len(Exp(n, block)) \in Nat /\ op.count * block \in Nat /\ op \in Opcodes

\* So the bytes behind the first n runs are those of the next.
LEMMA NextRun ==
  ASSUME NEW block \in {2, 3}, NEW N \in Nat, runs \in [1..N -> Opcodes], NEW n \in Nat, n < N
  PROVE  NextIs(n, N, block)
<1> DEFINE op == runs[n + 1]
           data == DataOf(op, block)
           piece == Piece(op, n + 1, block)
           blocked == Blocked(op, n + 1, block)
<1>1. n + 1 \in Nat /\ n + 1 <= N /\ n <= N /\ op \in Opcodes
  OBVIOUS
<1>2. /\ piece \in Seq(Nat) /\ Len(piece) = 1 + data /\ data \in Nat
      /\ blocked \in Seq(Nat) /\ Len(blocked) = op.count * block /\ op.count * block \in Nat
  BY <1>1, PieceTyped
<1>3. /\ Ser(n, block) \in Seq(Nat) /\ Exp(n, block) \in Seq(Nat)
      /\ Ser(n + 1, block) = Ser(n, block) \o piece
      /\ Exp(n + 1, block) = Exp(n, block) \o blocked
  BY <1>1, RunByRun
<1>4. Begins(Ser(n + 1, block), Ser(N, block)) /\ Begins(Exp(n + 1, block), Exp(N, block))
  BY <1>1, Onward
<1>5. piece[1] = Byte(op) /\ \A k \in 1..data : piece[1 + k] = 10 * (n + 1) + k
  <2>1. Byte(op) \in Nat /\ 10 * (n + 1) \in Nat
    BY <1>1, OpcodeRead
  <2>2. BytesFrom(data, 10 * (n + 1)) \in Seq(Nat) /\ Len(BytesFrom(data, 10 * (n + 1))) = data
    BY <1>2, <2>1, BytesTyped
  <2>3. \A k \in 1..data : BytesFrom(data, 10 * (n + 1))[k] = 10 * (n + 1) + k
    BY DEF BytesFrom
  <2> HIDE DEF data
  <2>4. QED
    BY <1>2, <2>1, <2>2, <2>3 DEF Piece, data
<1> HIDE DEF piece, blocked, data
<1> DEFINE from == Len(Ser(n, block))
<1>6. /\ from \in Nat /\ Len(Ser(n + 1, block)) = from + 1 + data
      /\ \A k \in 1..data + 1 : Ser(n + 1, block)[from + k] = piece[k]
  BY <1>2, <1>3
<1>7. Len(Exp(n, block)) \in Nat /\ Len(Exp(n + 1, block)) = Len(Exp(n, block)) + op.count * block
  <2>1. Len(Exp(n, block)) \in Nat
    BY <1>3
  <2>2. Len(Exp(n, block) \o blocked) = Len(Exp(n, block)) + Len(blocked)
    BY <1>2, <1>3, ConcatProperties
  <2>3. QED
    BY <1>2, <1>3, <2>1, <2>2
<1>8. /\ from + 1 + data <= Len(Ser(N, block))
      /\ \A k \in 1..from + 1 + data : Ser(N, block)[k] = Ser(n + 1, block)[k]
      /\ Len(Exp(n, block)) + op.count * block <= Len(Exp(N, block))
  BY <1>4, <1>6, <1>7, BeginsMeans
<1>9. \A k \in 1..data + 1 : Ser(N, block)[from + k] = piece[k]
  <2>1. \A k \in 1..data + 1 : from + k \in 1..from + 1 + data
    BY <1>2, <1>6
  <2>2. QED
    BY <1>6, <1>8, <2>1
<1>10. Ser(N, block)[from + 1] = Byte(op) /\ \A k \in 1..data : Ser(N, block)[from + 1 + k] = 10 * (n + 1) + k
  <2>1. 1 \in 1..data + 1 /\ \A k \in 1..data : 1 + k \in 1..data + 1 /\ from + (1 + k) = from + 1 + k
    BY <1>2, <1>6
  <2>2. QED
    BY <1>5, <1>9, <2>1
<1>11. QED
  BY <1>1, <1>2, <1>6, <1>7, <1>8, <1>10, OpcodeRead DEF data, NextIs

\* RGBA finds every pixel in what pixelDataSize asks for, and uses every byte of it.
LEMMA EveryByte ==
  ASSUME NEW f, f.screen \in Screens, f.width = Width[f.screen], f.height = Height[f.screen],
         f.format \in Formats
  PROVE  /\ UNION {Channels(f, i) : i \in 0..pixelCount(f) - 1} = 1..pixelDataSize(f)
         /\ pixelDataSize(f) \in Nat
<1> DEFINE p == pixelCount(f)
<1>1. p \in {6, 8}
  BY DEF Screens, Width, Height, pixelCount
<1> HIDE DEF p
<1>2. CASE f.format = "RGB888"
  <2>1. pixelDataSize(f) = p * 3 /\ \A i : Channels(f, i) = {3 * i + 1, 3 * i + 2, 3 * i + 3}
    BY <1>2 DEF pixelDataSize, Channels, p
  <2>2. \A x \in 1..p * 3 : (x - 1) \div 3 \in 0..p - 1 /\ x \in Channels(f, (x - 1) \div 3)
    BY <1>1, <2>1
  <2>3. \A i \in 0..p - 1 : Channels(f, i) \subseteq 1..p * 3
    BY <1>1, <2>1
  <2>4. UNION {Channels(f, i) : i \in 0..p - 1} = 1..p * 3
    BY <2>2, <2>3
  <2>5. QED
    BY <1>1, <2>1, <2>4 DEF p
<1>3. CASE f.format = "L8"
  <2>1. pixelDataSize(f) = p /\ \A i : Channels(f, i) = {i + 1}
    BY <1>3 DEF pixelDataSize, Channels, p
  <2>2. \A x \in 1..p : x - 1 \in 0..p - 1 /\ x \in Channels(f, x - 1)
    BY <1>1, <2>1
  <2>3. \A i \in 0..p - 1 : Channels(f, i) \subseteq 1..p
    BY <1>1, <2>1
  <2>4. UNION {Channels(f, i) : i \in 0..p - 1} = 1..p
    BY <2>2, <2>3
  <2>5. QED
    BY <1>1, <2>1, <2>4 DEF p
<1>4. CASE f.format = "L4"
  <2>1. pixelDataSize(f) = (p + 1) \div 2 /\ \A i : Channels(f, i) = {(i \div 2) + 1}
    BY <1>4 DEF pixelDataSize, Channels, p
  <2>2. \A x \in 1..(p + 1) \div 2 : 2 * (x - 1) \in 0..p - 1 /\ x \in Channels(f, 2 * (x - 1))
    BY <1>1, <2>1
  <2>3. \A i \in 0..p - 1 : Channels(f, i) \subseteq 1..(p + 1) \div 2
    BY <1>1, <2>1
  <2>4. UNION {Channels(f, i) : i \in 0..p - 1} = 1..(p + 1) \div 2
    BY <2>2, <2>3
  <2>5. QED
    BY <1>1, <2>1, <2>4 DEF p
<1>5. QED
  BY <1>2, <1>3, <1>4 DEF Formats

-----------------------------------------------------------------------------
\* What the metadata of a frame may say.
Metas ==
  [origin : {"http", "stream"}, screen : Screens \cup {"unknown"}, width : Nat, height : Nat,
   encoding : {"PLAIN", "RUN_LENGTH", "unknown"}, format : Formats \cup {"unknown"}]
\* Types, and the runs that were encoded.
FrameTyped ==
  raw \in Seq(Nat) /\ pixels \in Seq(Nat) /\ \E N \in Nat : runs \in [1..N -> Opcodes]
\* A run-length encoded payload is what the runs are encoded to, short of some bytes at
\* its end.
Payload ==
  meta.origin = "stream" /\ meta.encoding = "RUN_LENGTH" /\ meta.screen \in Screens =>
    LET whole == Serialize(runs, Block)
    IN \E cut \in Nat : cut <= Len(whole) /\ raw = Cut(whole, cut)
\* The first n runs are decoded, and the cursor is behind them.
Behind(n) ==
  /\ cursor = Len(Ser(n, Block)) + 1 /\ cursor <= Len(raw) + 1 /\ pixels = Exp(n, Block)
  /\ \A i \in 1..n : runs[i].count # 0
\* The metadata that the decoding loop is entered with.
RunLength ==
  /\ meta.origin = "stream" /\ meta.encoding = "RUN_LENGTH" /\ validMetadata(meta) /\ supported(meta)
\* In the loop some number of runs is decoded, and the cursor is behind them.
FrameInv ==
  /\ FrameTyped /\ Payload
  /\ decoding = "start" =>
       cursor = 1 /\ pixels = <<>> /\ meta \in Metas /\ (meta.origin = "http" => meta.encoding = "PLAIN")
  /\ decoding = "decoding" => RunLength /\ \E n \in 0..Len(runs) : Behind(n)
  /\ DecodesExactly

\* The runs, one by one, and what all of them are.
LEMMA AllRuns ==
  ASSUME NEW N \in Nat, runs \in [1..N -> Opcodes], NEW block
  PROVE  Len(runs) = N /\ Ser(N, block) = Serialize(runs, block) /\ Exp(N, block) = Expand(runs, block)
<1>1. Len(runs) = N /\ SubSeq(runs, 1, N) = runs
  OBVIOUS
<1>2. QED
  BY <1>1 DEF Ser, Exp

\* The two sizes of a block.
LEMMA BlockTwoOrThree ==
  ASSUME NEW s \in Screens
  PROVE  BlockSize[s] \in {2, 3}
BY DEF Screens, BlockSize

\* Every initial state satisfies the invariant.
LEMMA FrameInits == FrameInit \/ FrameIdle => FrameInv
<1>1. CASE FrameIdle
  <2>1. meta.origin = "none" /\ raw = <<>> /\ pixels = <<>> /\ runs = <<>> /\ cursor = 1 /\ decoding = "rejected"
    BY <1>1 DEF FrameIdle
  <2>2. <<>> \in [1..0 -> Opcodes] /\ 0 \in Nat
    OBVIOUS
  <2>3. FrameTyped
    BY <2>1, <2>2 DEF FrameTyped
  <2>4. QED
    BY <2>1, <2>3 DEF FrameInv, Payload, DecodesExactly
<1>2. CASE FrameInit
  <2>1. cursor = 1 /\ pixels = <<>> /\ decoding = "start" /\ meta \in Metas
        /\ (meta.origin = "http" => meta.encoding = "PLAIN") /\ pixels \in Seq(Nat)
    <3>1. ASSUME NEW s \in Screens \cup {"unknown"},
                 meta = [origin |-> "http", screen |-> s, width |-> 0, height |-> 0,
                         encoding |-> "PLAIN", format |-> IF s = "front" THEN "RGB888" ELSE "L4"]
          PROVE  meta \in Metas /\ meta.encoding = "PLAIN"
      BY <3>1 DEF Metas, Formats
    <3>2. ASSUME NEW s \in Screens \cup {"unknown"}, NEW f \in Formats \cup {"unknown"},
                 NEW e \in {"PLAIN", "RUN_LENGTH", "unknown"}, NEW w \in {3, 4},
                 meta = [origin |-> "stream", screen |-> s, width |-> w, height |-> 2,
                         encoding |-> e, format |-> f]
          PROVE  meta \in Metas /\ meta.origin # "http"
      BY <3>2 DEF Metas, Formats
    <3>3. pixels \in Seq(Nat)
      BY <1>2 DEF FrameInit
    <3>4. QED
      BY <1>2, <3>1, <3>2, <3>3 DEF FrameInit
  <2>2. ASSUME NEW n \in Nat PROVE BytesFrom(n, 0) \in Seq(Nat)
    BY BytesTyped
  <2>3. <<>> \in [1..0 -> Opcodes] /\ 0 \in Nat
    OBVIOUS
  <2>4. CASE /\ runs \in BoundedSeq(Opcodes, MaxRuns) /\ meta.screen \in Screens
             /\ LET whole == Serialize(runs, BlockSize[meta.screen])
                IN \E cut \in 0..MaxCut : cut <= Len(whole) /\ raw = Cut(whole, cut)
    <3> DEFINE whole == Serialize(runs, Block)
    <3>1. PICK N \in Nat : runs \in [1..N -> Opcodes]
      BY <2>4, FrameAssumption DEF BoundedSeq, SeqOf
    <3>2. PICK cut \in Nat : cut <= Len(whole) /\ raw = Cut(whole, cut)
      BY <2>4, FrameAssumption DEF Block
    <3>3. whole \in Seq(Nat)
      <4>1. Block \in {2, 3}
        BY <2>4, BlockTwoOrThree DEF Block
      <4>2. Ser(N, Block) \in Seq(Nat)
        BY <3>1, <4>1, RunByRun
      <4>3. QED
        BY <3>1, <4>2, AllRuns
    <3>4. raw \in Seq(Nat)
      BY <3>2, <3>3 DEF Cut
    <3>5. FrameTyped
      BY <2>1, <3>1, <3>4 DEF FrameTyped
    <3>6. Payload
      BY <3>2 DEF Payload
    <3>7. QED
      BY <2>1, <3>4, <3>5, <3>6 DEF FrameInv, DecodesExactly
  <2>5. CASE /\ runs = <<>> /\ \E n \in Nat : raw = BytesFrom(n, 0)
             /\ ~(meta.origin = "stream" /\ meta.encoding = "RUN_LENGTH" /\ meta.screen \in Screens)
    <3>1. FrameTyped
      BY <2>1, <2>2, <2>3, <2>5 DEF FrameTyped
    <3>2. Payload
      BY <2>5 DEF Payload
    <3>3. QED
      BY <2>1, <3>1, <3>2 DEF FrameInv, DecodesExactly, FrameTyped
  <2>6. QED
    BY <1>2, <2>4, <2>5 DEF FrameInit
<1>3. QED
  BY <1>1, <1>2

\* A payload is refused, is the pixels themselves, or is run-length encoded.
LEMMA OpenKeeps ==
  ASSUME FrameInv, Open
  PROVE  FrameInv'
<1>1. /\ FrameTyped /\ Payload /\ cursor = 1 /\ pixels = <<>> /\ meta \in Metas
      /\ (meta.origin = "http" => meta.encoding = "PLAIN")
  BY DEF FrameInv, Open
<1>2. meta' = Filled /\ UNCHANGED <<runs, raw, cursor>>
  BY DEF Open
<1>3. /\ meta.origin = "stream" => meta' = meta
      /\ meta' \in Metas /\ meta'.origin = meta.origin /\ meta'.encoding = meta.encoding
  <2>1. CASE meta.origin = "http" /\ meta.screen \in Screens
    <3>1. meta' = [meta EXCEPT !.width = Width[meta.screen], !.height = Height[meta.screen]]
      BY <1>2, <2>1 DEF Filled
    <3>2. Width[meta.screen] \in Nat /\ Height[meta.screen] \in Nat
      BY <2>1 DEF Screens, Width, Height
    <3>3. QED
      BY <1>1, <2>1, <3>1, <3>2 DEF Metas
  <2>2. CASE ~(meta.origin = "http" /\ meta.screen \in Screens)
    BY <1>1, <1>2, <2>2 DEF Filled
  <2>3. QED
    BY <2>1, <2>2
<1>4. PICK N \in Nat : runs \in [1..N -> Opcodes]
  BY <1>1 DEF FrameTyped
<1>5. Payload'
  BY <1>1, <1>2, <1>3 DEF Payload, Block
<1>6. CASE ~(validMetadata(meta') /\ supported(meta'))
  <2>1. decoding' = "rejected" /\ UNCHANGED pixels
    BY <1>6 DEF Open
  <2>2. ~(validMetadata(meta)' /\ supported(meta)')
    BY <1>2, <1>6 DEF validMetadata, supported
  <2>3. QED
    BY <1>1, <1>2, <1>5, <2>1, <2>2 DEF FrameInv, FrameTyped, DecodesExactly
<1>7. CASE validMetadata(meta') /\ supported(meta') /\ meta'.encoding = "RUN_LENGTH"
  <2>1. meta.origin = "stream" /\ meta' = meta /\ decoding' = "decoding" /\ UNCHANGED pixels
    BY <1>1, <1>3, <1>7 DEF Open, Metas
  <2>2. RunLength'
    BY <1>2, <1>7, <2>1 DEF RunLength, validMetadata, supported
  <2>3. Block \in {2, 3}
    BY <1>7, <2>1, BlockTwoOrThree DEF validMetadata, Block
  <2>4. Ser(0, Block) = <<>> /\ Exp(0, Block) = <<>>
    BY <1>4, <2>3, RunByRun
  <2>5. Len(raw) \in Nat /\ 0 \in 0..Len(runs)
    BY <1>1, <1>4 DEF FrameTyped
  <2>6. Behind(0)
    BY <1>1, <2>4, <2>5 DEF Behind
  <2>7. Behind(0)'
    BY <1>2, <2>1, <2>6 DEF Behind, Ser, Exp, Block
  <2>8. 0 \in (0..Len(runs))'
    BY <1>2, <2>5
  <2>9. DecodesExactly'
    BY <1>1, <1>2, <2>1, <2>5 DEF DecodesExactly
  <2>10. QED
    BY <1>1, <1>2, <1>5, <2>1, <2>2, <2>7, <2>8, <2>9 DEF FrameInv, FrameTyped
<1>8. CASE validMetadata(meta') /\ supported(meta') /\ meta'.encoding # "RUN_LENGTH"
  <2>1. CASE Len(raw) = pixelDataSize(meta')
    <3>1. decoding' = "ok" /\ pixels' = raw
      BY <1>8, <2>1 DEF Open
    <3>2. UNION {Channels(meta', i) : i \in 0..pixelCount(meta') - 1} = 1..Len(raw)
      BY <1>8, <2>1, EveryByte DEF validMetadata, supported
    <3>3. DOMAIN raw = 1..Len(raw) /\ Len(raw) \in Nat
      BY <1>1 DEF FrameTyped
    <3>4. DecodesExactly'
      <4>1. (UNION {Channels(meta, i) : i \in 0..pixelCount(meta) - 1} = DOMAIN pixels)'
        BY <3>1, <3>2, <3>3
      <4>2. cursor' <= Len(raw') + 1
        BY <1>1, <1>2, <3>3
      <4>3. QED
        BY <1>8, <3>1, <4>1, <4>2 DEF DecodesExactly
    <3>5. QED
      BY <1>1, <1>2, <1>5, <3>1, <3>4 DEF FrameInv, FrameTyped
  <2>2. CASE Len(raw) # pixelDataSize(meta')
    <3>1. decoding' = "rejected" /\ UNCHANGED pixels
      BY <1>8, <2>2 DEF Open
    <3>2. DecodesExactly'
      BY <1>1, <1>2, <1>8, <3>1 DEF DecodesExactly, FrameTyped
    <3>3. QED
      BY <1>1, <1>2, <1>5, <3>1, <3>2 DEF FrameInv, FrameTyped
  <2>3. QED
    BY <2>1, <2>2
<1>9. QED
  BY <1>6, <1>7, <1>8

\* What holds while the loop is on.
LEMMA InTheLoop ==
  ASSUME FrameInv, decoding = "decoding"
  PROVE  \E N \in Nat, n \in Nat, cut \in Nat :
           /\ runs \in [1..N -> Opcodes] /\ Len(runs) = N /\ n <= N /\ Behind(n) /\ RunLength
           /\ Block \in {2, 3} /\ Ser(N, Block) \in Seq(Nat) /\ Len(Ser(N, Block)) \in Nat
           /\ Ser(N, Block) = Serialize(runs, Block) /\ Exp(N, Block) = Expand(runs, Block)
           /\ cut <= Len(Ser(N, Block)) /\ raw \in Seq(Nat) /\ Len(raw) = Len(Ser(N, Block)) - cut
           /\ \A k \in 1..Len(raw) : raw[k] = Ser(N, Block)[k]
<1>1. FrameTyped /\ Payload /\ RunLength
  BY DEF FrameInv
<1>2. PICK N \in Nat : runs \in [1..N -> Opcodes]
  BY <1>1 DEF FrameTyped
<1>3. Len(runs) = N /\ Ser(N, Block) = Serialize(runs, Block) /\ Exp(N, Block) = Expand(runs, Block)
  BY <1>2, AllRuns
<1>4. PICK n \in 0..Len(runs) : Behind(n)
  BY DEF FrameInv
<1>5. meta.screen \in Screens /\ Block \in {2, 3}
  BY <1>1, BlockTwoOrThree DEF RunLength, validMetadata, Block
<1>6. Ser(N, Block) \in Seq(Nat) /\ Len(Ser(N, Block)) \in Nat
  BY <1>2, <1>5, RunByRun
<1>7. PICK cut \in Nat : cut <= Len(Ser(N, Block)) /\ raw = Cut(Ser(N, Block), cut)
  BY <1>1, <1>3, <1>5 DEF Payload, RunLength
<1>8. /\ raw \in Seq(Nat) /\ Len(raw) = Len(Ser(N, Block)) - cut
      /\ \A k \in 1..Len(raw) : raw[k] = Ser(N, Block)[k]
  <2> DEFINE whole == Ser(N, Block)
  <2>1. whole \in Seq(Nat) /\ cut <= Len(whole) /\ raw = SubSeq(whole, 1, Len(whole) - cut)
    BY <1>6, <1>7 DEF Cut
  <2> HIDE DEF whole
  <2>2. raw \in Seq(Nat) /\ Len(raw) = Len(whole) - cut /\ \A k \in 1..Len(raw) : raw[k] = whole[k]
    BY <2>1
  <2>3. QED
    BY <2>2 DEF whole
<1>9. n \in Nat /\ n <= N
  BY <1>3, <1>4
<1>10. QED
  BY <1>1, <1>2, <1>3, <1>4, <1>5, <1>6, <1>7, <1>8, <1>9

\* What a run decodes to is what it stands for.
Decoded(op, bytes) == IF op.literal THEN bytes ELSE FlattenSeq([k \in 1..op.count |-> bytes])

LEMMA RunDecodes ==
  ASSUME NEW block \in {2, 3}, NEW op \in Opcodes, NEW i \in Nat, NEW bytes,
         bytes = BytesFrom(DataOf(op, block), 10 * i)
  PROVE  Blocked(op, i, block) = Decoded(op, bytes)
<1>1. op.count \in Nat /\ 10 * i \in Nat
  BY FrameAssumption DEF Opcodes
<1>2. CASE op.literal
  <2>1. Blocked(op, i, block) = FlattenSeq([k \in 1..op.count |-> BytesFrom(block, 10 * i + (k - 1) * block)])
    BY <1>2 DEF Blocked
  <2>2. QED
    BY <1>1, <1>2, <2>1, BlocksJoin DEF DataOf, Decoded
<1>3. CASE ~op.literal
  <2>1. 10 * i + 0 = 10 * i
    OBVIOUS
  <2>2. Blocked(op, i, block) = FlattenSeq([k \in 1..op.count |-> BytesFrom(block, 10 * i + 0)])
    BY <1>3 DEF Blocked
  <2>3. bytes = BytesFrom(block, 10 * i)
    BY <1>3 DEF DataOf
  <2>4. QED
    BY <1>3, <2>1, <2>2, <2>3 DEF Decoded
<1>4. QED
  BY <1>2, <1>3

\* A run behind the cursor decodes to what it stands for, or is refused: it is cut, empty
\* or more than the frame holds.
LEMMA DecodeRunKeeps ==
  ASSUME FrameInv, DecodeRun
  PROVE  FrameInv'
<1>1. decoding = "decoding" /\ cursor <= Len(raw) /\ UNCHANGED <<meta, runs, raw>>
  BY DEF DecodeRun
<1>2. PICK N \in Nat, n \in Nat, cut \in Nat :
        /\ runs \in [1..N -> Opcodes] /\ Len(runs) = N /\ n <= N /\ Behind(n) /\ RunLength
        /\ Block \in {2, 3} /\ Ser(N, Block) \in Seq(Nat) /\ Len(Ser(N, Block)) \in Nat
        /\ Ser(N, Block) = Serialize(runs, Block) /\ Exp(N, Block) = Expand(runs, Block)
        /\ cut <= Len(Ser(N, Block)) /\ raw \in Seq(Nat) /\ Len(raw) = Len(Ser(N, Block)) - cut
        /\ \A k \in 1..Len(raw) : raw[k] = Ser(N, Block)[k]
  BY <1>1, InTheLoop
<1> DEFINE from == Len(Ser(n, Block))
           op == runs[n + 1]
           data == DataOf(op, Block)
           whole == Ser(N, Block)
           bytes == SubSeq(raw, cursor + 1, cursor + data)
<1>3. cursor = from + 1 /\ pixels = Exp(n, Block) /\ \A i \in 1..n : runs[i].count # 0
  BY <1>2 DEF Behind
<1>4. n < N
  <2>1. Ser(n, Block) \in Seq(Nat)
    BY <1>2, RunByRun
  <2>2. n # N
    BY <1>1, <1>2, <1>3, <2>1
  <2>3. QED
    BY <1>2, <2>2
<1>5. /\ from \in Nat /\ data \in Nat
      /\ from + 1 + data <= Len(whole) /\ from + 1 + data = Len(Ser(n + 1, Block))
      /\ Opcode(whole[from + 1]) = op
      /\ \A k \in 1..data : whole[from + 1 + k] = 10 * (n + 1) + k
      /\ Len(Exp(n, Block)) + op.count * Block <= Len(Exp(N, Block))
      /\ Len(Exp(n, Block)) \in Nat /\ op.count * Block \in Nat /\ op \in Opcodes
  <2>1. NextIs(n, N, Block)
    BY <1>2, <1>4, NextRun
  <2>2. QED
    BY <2>1 DEF NextIs
<1>6. Opcode(raw[cursor]) = op /\ Data(op, Block) = data
  <2>1. cursor \in 1..Len(raw)
    BY <1>1, <1>2, <1>3, <1>5
  <2>2. QED
    BY <1>2, <1>3, <1>5, <2>1 DEF Data, DataOf
<1>7. FrameTyped /\ Payload
  BY DEF FrameInv
<1>8. Payload'
  BY <1>1, <1>7 DEF Payload, Block
<1>9. RunLength'
  BY <1>1, <1>2 DEF RunLength, validMetadata
<1>10. op.count \in Nat
  BY <1>5, FrameAssumption DEF Opcodes
<1> HIDE DEF from, op, data, whole
<1>11. CASE op.count = 0 \/ op.count * Block > Remaining \/ data > Len(raw) - cursor
  <2>1. decoding' = "rejected" /\ UNCHANGED <<cursor, pixels>>
    BY <1>6, <1>11 DEF DecodeRun
  <2>2. ~Whole(N)
    <3>1. SUFFICES ASSUME Whole(N) PROVE FALSE
      OBVIOUS
    <3>2. Ser(N, Block) = raw /\ Len(Exp(N, Block)) = pixelDataSize(meta)
      BY <3>1 DEF Whole, Ser, Exp
    <3>3. SubSeq(runs, 1, N)[n + 1] = op /\ n + 1 \in 1..N
      BY <1>2, <1>4 DEF op
    <3>4. op.count # 0
      BY <3>1, <3>3 DEF Whole
    <3>5. data <= Len(raw) - cursor
      BY <1>2, <1>3, <1>5, <3>2 DEF whole
    <3>6. op.count * Block <= Remaining
      BY <1>3, <1>5, <3>2 DEF Remaining
    <3>7. Remaining \in Int /\ Len(raw) - cursor \in Int
      <4>1. Len(Exp(N, Block)) \in Nat
        BY <1>2, RunByRun
      <4>2. QED
        BY <1>2, <1>3, <1>5, <3>2, <4>1 DEF Remaining
    <3>8. QED
      BY <1>5, <1>11, <3>4, <3>5, <3>6, <3>7
  <2>3. ~Whole(Len(runs))'
    BY <1>1, <1>2, <2>2 DEF Whole, Block
  <2>4. cursor' <= Len(raw') + 1
    BY <1>1, <1>2, <1>3, <1>5, <2>1
  <2>5. DecodesExactly'
    BY <2>1, <2>3, <2>4 DEF DecodesExactly
  <2>6. QED
    BY <1>1, <1>7, <1>8, <2>1, <2>5 DEF FrameInv, FrameTyped
<1>12. CASE ~(op.count = 0 \/ op.count * Block > Remaining \/ data > Len(raw) - cursor)
  <2>1. /\ pixels' = pixels \o IF op.literal THEN bytes ELSE FlattenSeq([k \in 1..op.count |-> bytes])
        /\ cursor' = cursor + 1 + data /\ UNCHANGED decoding
    BY <1>6, <1>12 DEF DecodeRun
  <2>2. data <= Len(raw) - cursor
    BY <1>2, <1>3, <1>5, <1>12
  <2>3. bytes = BytesFrom(data, 10 * (n + 1))
    <3>1. cursor \in Nat /\ cursor + data <= Len(raw) /\ Len(raw) \in Nat
      <4>1. Len(raw) \in Nat
        BY <1>2
      <4>2. from \in Nat /\ data \in Nat
        BY <1>5
      <4>3. QED
        BY <1>3, <2>2, <4>1, <4>2
    <3>2. bytes = [k \in 1..data |-> raw[cursor + k]]
      BY <1>2, <1>5, <3>1
    <3>3. \A k \in 1..data : raw[cursor + k] = 10 * (n + 1) + k
      <4>1. \A k \in 1..data : cursor + k \in 1..Len(raw) /\ cursor + k = from + 1 + k
        BY <1>3, <1>5, <3>1
      <4>2. QED
        BY <1>2, <1>5, <4>1 DEF whole
    <3> HIDE DEF bytes
    <3>4. QED
      BY <3>2, <3>3 DEF BytesFrom
  <2> HIDE DEF bytes
  <2>4. n + 1 \in Nat /\ n + 1 <= N /\ n < N
    BY <1>2, <1>4
  <2>5. Blocked(op, n + 1, Block) = Decoded(op, bytes)
    <3>1. Block \in {2, 3} /\ op \in Opcodes /\ bytes = BytesFrom(DataOf(op, Block), 10 * (n + 1))
      BY <1>2, <1>5, <2>3 DEF data
    <3> DEFINE i == n + 1
    <3>2. i \in Nat /\ bytes = BytesFrom(DataOf(op, Block), 10 * i)
      BY <2>4, <3>1
    <3> HIDE DEF i
    <3>3. Blocked(op, i, Block) = Decoded(op, bytes)
      BY <3>1, <3>2, RunDecodes
    <3>4. QED
      BY <3>3 DEF i
  <2>6. Exp(n + 1, Block) = Exp(n, Block) \o Blocked(op, n + 1, Block)
    BY <1>2, <2>4, RunByRun DEF op
  <2>7. pixels' = Exp(n + 1, Block)
    BY <1>3, <2>1, <2>5, <2>6 DEF Decoded
  <2>8. cursor' = Len(Ser(n + 1, Block)) + 1 /\ cursor' <= Len(raw) + 1
    <3>1. Len(raw) \in Nat
      BY <1>2
    <3>2. from \in Nat /\ data \in Nat /\ from + 1 + data = Len(Ser(n + 1, Block))
      BY <1>5
    <3>3. cursor = from + 1 /\ cursor' = cursor + 1 + data
      BY <1>3, <2>1
    <3>4. cursor' = (from + 1 + data) + 1
      BY <3>2, <3>3
    <3>5. cursor + data <= Len(raw)
      BY <2>2, <3>1, <3>2, <3>3
    <3>6. QED
      BY <3>1, <3>2, <3>3, <3>4, <3>5
  <2>9. \A i \in 1..n + 1 : runs[i].count # 0
    <3>1. \A i \in 1..n + 1 : i \in 1..n \/ i = n + 1
      OBVIOUS
    <3>2. runs[n + 1].count # 0
      BY <1>12 DEF op
    <3>3. QED
      BY <1>3, <3>1, <3>2
  <2>10. Behind(n + 1)'
    BY <1>1, <2>7, <2>8, <2>9 DEF Behind, Ser, Exp, Block
  <2>11. pixels' \in Seq(Nat)
    BY <1>2, <2>4, <2>7, RunByRun
  <2>12. n + 1 \in (0..Len(runs))'
    BY <1>1, <1>2, <2>4
  <2>13. DecodesExactly'
    BY <1>1, <2>1, <2>8 DEF DecodesExactly
  <2>14. QED
    BY <1>1, <1>7, <1>8, <1>9, <2>1, <2>10, <2>11, <2>12, <2>13 DEF FrameInv, FrameTyped
<1>13. QED
  BY <1>11, <1>12

\* At the end of the payload all runs are decoded, or pixels are missing.
LEMMA DecodeEndKeeps ==
  ASSUME FrameInv, DecodeEnd
  PROVE  FrameInv'
<1>1. decoding = "decoding" /\ cursor > Len(raw) /\ UNCHANGED <<meta, runs, raw, cursor, pixels>>
      /\ decoding' = IF Remaining = 0 THEN "ok" ELSE "rejected"
  BY DEF DecodeEnd
<1>2. PICK N \in Nat, n \in Nat, cut \in Nat :
        /\ runs \in [1..N -> Opcodes] /\ Len(runs) = N /\ n <= N /\ Behind(n) /\ RunLength
        /\ Block \in {2, 3} /\ Ser(N, Block) \in Seq(Nat) /\ Len(Ser(N, Block)) \in Nat
        /\ Ser(N, Block) = Serialize(runs, Block) /\ Exp(N, Block) = Expand(runs, Block)
        /\ cut <= Len(Ser(N, Block)) /\ raw \in Seq(Nat) /\ Len(raw) = Len(Ser(N, Block)) - cut
        /\ \A k \in 1..Len(raw) : raw[k] = Ser(N, Block)[k]
  BY <1>1, InTheLoop
<1>3. /\ cursor = Len(Ser(n, Block)) + 1 /\ cursor <= Len(raw) + 1 /\ pixels = Exp(n, Block)
      /\ \A i \in 1..n : runs[i].count # 0
  BY <1>2 DEF Behind
<1>4. Ser(n, Block) \in Seq(Nat) /\ Exp(n, Block) \in Seq(Nat) /\ Begins(Ser(n, Block), Ser(N, Block))
  BY <1>2, RunByRun, Onward
<1>5. Len(raw) = Len(Ser(n, Block)) /\ Len(raw) \in Nat
  BY <1>1, <1>2, <1>3, <1>4
<1>6. Ser(n, Block) = raw
  <2>1. \A k \in 1..Len(raw) : raw[k] = Ser(n, Block)[k]
    BY <1>2, <1>4, <1>5, BeginsMeans
  <2>2. QED
    BY <1>2, <1>4, <1>5, <2>1, SeqEqual
<1>7. pixelDataSize(meta) \in Nat
      /\ UNION {Channels(meta, i) : i \in 0..pixelCount(meta) - 1} = 1..pixelDataSize(meta)
  BY <1>2, EveryByte DEF RunLength, validMetadata, supported
<1>8. FrameTyped /\ Payload
  BY DEF FrameInv
<1>9. FrameTyped' /\ Payload'
  BY <1>1, <1>8 DEF FrameTyped, Payload, Block
<1>10. cursor' <= Len(raw') + 1
  BY <1>1, <1>3
<1>11. CASE Remaining = 0
  <2>1. Len(pixels) = pixelDataSize(meta) /\ DOMAIN pixels = 1..pixelDataSize(meta)
    BY <1>3, <1>4, <1>7, <1>11 DEF Remaining
  <2>2. Whole(n) /\ pixels = Expand(SubSeq(runs, 1, n), Block)
    <3>1. \A i \in 1..n : SubSeq(runs, 1, n)[i] = runs[i]
      BY <1>2
    <3>2. QED
      BY <1>3, <1>6, <2>1, <3>1 DEF Whole, Ser, Exp
  <2>3. /\ decoding' = "ok" /\ n \in (0..Len(runs))'
        /\ (UNION {Channels(meta, i) : i \in 0..pixelCount(meta) - 1} = DOMAIN pixels)'
    BY <1>1, <1>2, <1>7, <1>11, <2>1
  <2>4. (Whole(n) /\ pixels = Expand(SubSeq(runs, 1, n), Block))'
    BY <1>1, <2>2 DEF Whole, Block
  <2>5. DecodesExactly'
    BY <1>10, <2>3, <2>4 DEF DecodesExactly
  <2>6. QED
    BY <1>9, <2>3, <2>5 DEF FrameInv
<1>12. CASE Remaining # 0
  <2>1. ~Whole(N)
    <3>1. SUFFICES ASSUME Whole(N) PROVE FALSE
      OBVIOUS
    <3>2. Ser(N, Block) = raw /\ Len(Exp(N, Block)) = pixelDataSize(meta)
      BY <3>1 DEF Whole, Ser, Exp
    <3>3. n = N
      <4>1. SUFFICES ASSUME n < N PROVE FALSE
        BY <1>2
      <4>2. /\ DataOf(runs[n + 1], Block) \in Nat
            /\ Len(Ser(n, Block)) + 1 + DataOf(runs[n + 1], Block) <= Len(Ser(N, Block))
        BY <1>2, <4>1, NextRun DEF NextIs
      <4>3. QED
        BY <1>5, <3>2, <4>2
    <3>4. QED
      BY <1>3, <1>4, <1>7, <1>12, <3>2, <3>3 DEF Remaining
  <2>2. ~Whole(Len(runs))'
    BY <1>1, <1>2, <2>1 DEF Whole, Block
  <2>3. decoding' = "rejected"
    BY <1>1, <1>12
  <2>4. DecodesExactly'
    BY <1>10, <2>2, <2>3 DEF DecodesExactly
  <2>5. QED
    BY <1>9, <2>3, <2>4 DEF FrameInv
<1>13. QED
  BY <1>11, <1>12

\* Every action keeps the invariant.
LEMMA FrameStep ==
  ASSUME FrameInv, FrameNext \/ UNCHANGED frameVars
  PROVE  FrameInv'
<1>1. CASE UNCHANGED frameVars
  BY <1>1 DEF frameVars, FrameInv, FrameTyped, Payload, RunLength, Behind, Ser, Exp, Block,
              DecodesExactly, Whole, validMetadata
<1>2. QED
  BY <1>1, OpenKeeps, DecodeRunKeeps, DecodeEndKeeps DEF FrameNext

\* The invariant implies the property.
LEMMA FrameGoal == FrameInv => DecodesExactly
BY DEF FrameInv

-----------------------------------------------------------------------------
\* Animation: how long pixels stay, and what sequences of frames or records play.
Recs == [px : Pixels, dur : 1..MaxByteValue]
Shown == Frames \cup Recs
Stays(px, duration) == [k \in 1..duration |-> px]

\* A frame or a record stays for at least one unit, and no longer than a byte says.
LEMMA ShownTyped ==
  ASSUME NEW e \in Shown
  PROVE  e.px \in Pixels /\ e.dur \in 0..MaxByteValue /\ effectiveDuration(e.dur) \in 1..MaxByteValue
<1>1. MaxByteValue \in Nat \ {0}
  BY AnimationAssumption
<1>2. e.px \in Pixels /\ e.dur \in 0..MaxByteValue
  <2>1. CASE e \in [px : Pixels, dur : 0..MaxByteValue, fits : {TRUE}]
    BY <2>1
  <2>2. CASE e \in [px : Pixels, dur : {1}, fits : {FALSE}]
    <3>1. e.px \in Pixels /\ e.dur = 1
      BY <2>2
    <3>2. QED
      BY <1>1, <3>1
  <2>3. CASE e \in Recs
    <3>1. e.px \in Pixels /\ e.dur \in 1..MaxByteValue
      BY <2>3 DEF Recs
    <3>2. QED
      BY <1>1, <3>1
  <2>4. QED
    BY <2>1, <2>2, <2>3 DEF Shown, Frames
<1>3. QED
  BY <1>1, <1>2 DEF effectiveDuration

\* Staying for d + e units is staying for d and then for e.
LEMMA StaysTyped ==
  ASSUME NEW px \in Pixels, NEW d \in Nat
  PROVE  /\ Stays(px, d) \in Seq(Pixels) /\ Len(Stays(px, d)) = d
         /\ \A e \in Nat : Stays(px, d + e) = Stays(px, d) \o Stays(px, e)
<1>1. Stays(px, d) \in Seq(Pixels) /\ Len(Stays(px, d)) = d
  BY DEF Stays
<1>2. ASSUME NEW e \in Nat PROVE Stays(px, d + e) = Stays(px, d) \o Stays(px, e)
  BY DEF Stays
<1>3. QED
  BY <1>1, <1>2

\* What n places of a sequence play, and what the next one adds.
LEMMA PlaysOn ==
  ASSUME NEW n \in Nat, NEW seq, seq \in [1..n -> Shown]
  PROVE  /\ Playback(seq) \in Seq(Pixels)
         /\ n = 0 => Playback(seq) = <<>>
         /\ \A e \in Shown : Playback(Append(seq, e)) =
              Playback(seq) \o Stays(e.px, effectiveDuration(e.dur))
<1> DEFINE list(s) == [i \in DOMAIN s |-> Stays(s[i].px, effectiveDuration(s[i].dur))]
<1>1. \A s : Playback(s) = FlattenSeq(list(s))
  BY DEF Playback, Stays
<1>2. ASSUME NEW m \in Nat, NEW s \in [1..m -> Shown] PROVE list(s) \in [1..m -> Seq(Pixels)]
  <2>1. ASSUME NEW i \in 1..m
        PROVE  Stays(s[i].px, effectiveDuration(s[i].dur)) \in Seq(Pixels)
    <3>1. s[i] \in Shown
      OBVIOUS
    <3>2. s[i].px \in Pixels /\ effectiveDuration(s[i].dur) \in Nat
      BY <3>1, ShownTyped, AnimationAssumption
    <3>3. QED
      BY <3>2, StaysTyped
  <2>2. DOMAIN s = 1..m
    OBVIOUS
  <2>3. QED
    BY <2>1, <2>2
<1>3. Playback(seq) \in Seq(Pixels)
  <2> HIDE DEF list
  <2>1. QED
    BY <1>1, <1>2, FlattenTyped
<1>4. ASSUME n = 0 PROVE Playback(seq) = <<>>
  <2>1. list(seq) = <<>>
    BY <1>4
  <2>2. FlattenSeq(<<>>) = <<>>
    BY DEF FlattenSeq
  <2>3. QED
    BY <1>1, <2>1, <2>2
<1>5. ASSUME NEW e \in Shown
      PROVE  Playback(Append(seq, e)) = Playback(seq) \o Stays(e.px, effectiveDuration(e.dur))
  <2> DEFINE end == Stays(e.px, effectiveDuration(e.dur))
             further == Append(seq, e)
  <2>1. end \in Seq(Pixels)
    <3>1. e.px \in Pixels /\ effectiveDuration(e.dur) \in Nat
      BY ShownTyped, AnimationAssumption
    <3>2. QED
      BY <3>1, StaysTyped
  <2>2. /\ DOMAIN seq = 1..n /\ DOMAIN further = 1..n + 1 /\ further[n + 1] = e
        /\ \A i \in 1..n : further[i] = seq[i]
    OBVIOUS
  <2> HIDE DEF further
  <2>3. Extended(list(seq), list(further), end)
    BY <2>2 DEF Extended, AgreeTo
  <2> HIDE DEF list, end
  <2>4. FlattenSeq(list(further)) = FlattenSeq(list(seq)) \o end
    BY <2>1, <2>3, FlattenMore
  <2>5. QED
    BY <1>1, <2>4 DEF end, further
<1>6. QED
  BY <1>3, <1>4, <1>5

\* The same of a sequence of any length.
LEMMA PlaysOnSeq ==
  ASSUME NEW seq \in Seq(Shown)
  PROVE  /\ Playback(seq) \in Seq(Pixels)
         /\ seq = <<>> => Playback(seq) = <<>>
         /\ \A e \in Shown : Playback(Append(seq, e)) =
              Playback(seq) \o Stays(e.px, effectiveDuration(e.dur))
<1>1. Len(seq) \in Nat /\ seq \in [1..Len(seq) -> Shown] /\ (seq = <<>> => Len(seq) = 0)
  OBVIOUS
<1>2. QED
  BY <1>1, PlaysOn

\* The first places of a sequence, and one more.
LEMMA PlaysFurther ==
  ASSUME NEW seq \in Seq(Shown), NEW n \in Nat, n < Len(seq)
  PROVE  /\ SubSeq(seq, 1, n) \in Seq(Shown) /\ seq[n + 1] \in Shown
         /\ SubSeq(seq, 1, n + 1) = Append(SubSeq(seq, 1, n), seq[n + 1])
         /\ Playback(SubSeq(seq, 1, n + 1)) =
              Playback(SubSeq(seq, 1, n)) \o Stays(seq[n + 1].px, effectiveDuration(seq[n + 1].dur))
         /\ Len(Playback(SubSeq(seq, 1, n))) \in Nat
         /\ Len(Playback(SubSeq(seq, 1, n + 1))) =
              Len(Playback(SubSeq(seq, 1, n))) + effectiveDuration(seq[n + 1].dur)
<1> DEFINE short == SubSeq(seq, 1, n)
           e == seq[n + 1]
<1>1. short \in Seq(Shown) /\ e \in Shown /\ SubSeq(seq, 1, n + 1) = Append(short, e)
  OBVIOUS
<1> HIDE DEF short, e
<1>2. Playback(Append(short, e)) = Playback(short) \o Stays(e.px, effectiveDuration(e.dur))
      /\ Playback(short) \in Seq(Pixels)
  BY <1>1, PlaysOnSeq
<1>3. effectiveDuration(e.dur) \in Nat /\ e.px \in Pixels
  BY <1>1, ShownTyped, AnimationAssumption
<1>4. Stays(e.px, effectiveDuration(e.dur)) \in Seq(Pixels)
      /\ Len(Stays(e.px, effectiveDuration(e.dur))) = effectiveDuration(e.dur)
  BY <1>3, StaysTyped
<1>5. Len(Playback(Append(short, e))) = Len(Playback(short)) + effectiveDuration(e.dur)
      /\ Len(Playback(short)) \in Nat
  <2> DEFINE end == Stays(e.px, effectiveDuration(e.dur))
             play == Playback(short)
  <2>1. play \in Seq(Pixels) /\ end \in Seq(Pixels) /\ Len(end) = effectiveDuration(e.dur)
        /\ Playback(Append(short, e)) = play \o end
    BY <1>2, <1>4
  <2> HIDE DEF play, end
  <2>2. Len(play \o end) = Len(play) + Len(end) /\ Len(play) \in Nat
    <3>1. play \in Seq(Pixels) /\ end \in Seq(Pixels)
      BY <2>1
    <3>2. QED
      BY <3>1
  <2>3. QED
    BY <2>1, <2>2 DEF play
<1>6. QED
  BY <1>1, <1>2, <1>5 DEF short, e

\* Only durations decide how long a sequence plays.
LEMMA SameLength ==
  ASSUME NEW seq \in Seq(Shown), NEW other \in Seq(Shown), Len(seq) = Len(other),
         \A i \in 1..Len(seq) : seq[i].dur = other[i].dur
  PROVE  Len(Playback(seq)) = Len(Playback(other))
<1> DEFINE Good == {n \in Nat : n <= Len(seq) =>
                      Len(Playback(SubSeq(seq, 1, n))) = Len(Playback(SubSeq(other, 1, n)))}
<1>1. 0 \in Good
  <2>1. SubSeq(seq, 1, 0) = <<>> /\ SubSeq(other, 1, 0) = <<>>
    OBVIOUS
  <2>2. QED
    BY <2>1
<1>2. ASSUME NEW n \in Nat, n \in Good PROVE n + 1 \in Good
  <2>1. SUFFICES ASSUME n + 1 <= Len(seq)
                 PROVE  Len(Playback(SubSeq(seq, 1, n + 1))) = Len(Playback(SubSeq(other, 1, n + 1)))
    OBVIOUS
  <2>2. n < Len(seq) /\ n < Len(other) /\ seq[n + 1].dur = other[n + 1].dur
    BY <2>1
  <2>3. Len(Playback(SubSeq(seq, 1, n))) = Len(Playback(SubSeq(other, 1, n)))
    BY <1>2, <2>2
  <2>4. QED
    BY <2>2, <2>3, PlaysFurther
<1>3. Len(seq) \in Good
  <2>1. Len(seq) \in Nat
    OBVIOUS
  <2> HIDE DEF Good
  <2>2. QED
    BY <1>1, <1>2, <2>1, Induction
<1>4. SubSeq(seq, 1, Len(seq)) = seq /\ SubSeq(other, 1, Len(seq)) = other /\ Len(seq) <= Len(seq)
  OBVIOUS
<1>5. QED
  BY <1>3, <1>4

\* Where every frame stays for one unit, the n-th is what plays n-th.
LEMMA PlaysOnes ==
  ASSUME NEW seq \in Seq(Shown), \A i \in 1..Len(seq) : seq[i].dur = 0
  PROVE  Len(Playback(seq)) = Len(seq) /\ \A i \in 1..Len(seq) : Playback(seq)[i] = seq[i].px
<1> DEFINE Ones(n) == /\ Len(Playback(SubSeq(seq, 1, n))) = n
                      /\ \A i \in 1..n : Playback(SubSeq(seq, 1, n))[i] = seq[i].px
           Good == {n \in Nat : n <= Len(seq) => Ones(n)}
<1>1. 0 \in Good
  <2>1. SubSeq(seq, 1, 0) = <<>> /\ <<>> \in Seq(Shown)
    OBVIOUS
  <2>2. Playback(<<>>) = <<>>
    BY <2>1, PlaysOnSeq
  <2>3. Playback(SubSeq(seq, 1, 0)) = <<>>
    BY <2>1, <2>2
  <2>4. Ones(0)
    BY <2>3
  <2>5. QED
    BY <2>4
<1>2. ASSUME NEW n \in Nat, n \in Good PROVE n + 1 \in Good
  <2>1. SUFFICES ASSUME n + 1 <= Len(seq) PROVE Ones(n + 1)
    OBVIOUS
  <2>2. n < Len(seq) /\ seq[n + 1].dur = 0 /\ seq[n + 1] \in Shown
    BY <2>1
  <2>3. Ones(n)
    BY <1>2, <2>2
  <2> DEFINE play == Playback(SubSeq(seq, 1, n))
             px == seq[n + 1].px
  <2>4. Playback(SubSeq(seq, 1, n + 1)) = play \o Stays(px, 1)
    BY <2>2, PlaysFurther DEF effectiveDuration
  <2>5. play \in Seq(Pixels) /\ px \in Pixels
    BY <2>2, PlaysFurther, PlaysOnSeq, ShownTyped
  <2>6. Stays(px, 1) = <<px>>
    BY DEF Stays
  <2>7. Len(play) = n /\ \A i \in 1..n : play[i] = seq[i].px
    BY <2>3
  <2> HIDE DEF play
  <2>8. /\ Len(play \o <<px>>) = n + 1 /\ (play \o <<px>>)[n + 1] = px
        /\ \A i \in 1..n : (play \o <<px>>)[i] = play[i]
    BY <2>5, <2>7
  <2> DEFINE longer == play \o <<px>>
  <2>9. Len(longer) = n + 1 /\ \A i \in 1..n + 1 : longer[i] = seq[i].px
    BY <2>7, <2>8
  <2>10. Playback(SubSeq(seq, 1, n + 1)) = longer
    BY <2>4, <2>6
  <2> HIDE DEF longer
  <2>11. QED
    BY <2>9, <2>10
<1>3. Len(seq) \in Good
  <2>1. Len(seq) \in Nat
    OBVIOUS
  <2> HIDE DEF Good
  <2>2. QED
    BY <1>1, <1>2, <2>1, Induction
<1>4. SubSeq(seq, 1, Len(seq)) = seq /\ Len(seq) <= Len(seq)
  OBVIOUS
<1>5. QED
  BY <1>3, <1>4

\* What is left of a frame's duration fits into one record.
LEMMA OneRecord ==
  ASSUME NEW rest \in 0..MaxByteValue
  PROVE  Split(rest) = IF rest = 0 THEN <<>> ELSE <<rest>>
<1> DEFINE full == MaxByteValue
<1>1. full \in Nat \ {0} /\ rest \in 0..full
  BY AnimationAssumption
<1>2. Split(rest) = [i \in 1..((rest + full - 1) \div full) |-> IF i * full <= rest THEN full ELSE rest % full]
  BY DEF Split
<1> HIDE DEF full
<1>3. CASE rest = 0
  <2>1. (rest + full - 1) \div full = 0
    BY <1>1, <1>3
  <2>2. QED
    BY <1>2, <1>3, <2>1
<1>4. CASE rest # 0
  <2>1. (rest + full - 1) \div full = 1
    BY <1>1, <1>4
  <2>2. \A i \in 1..1 : i * full = full
    BY <1>1
  <2>3. ~(full <= rest) => rest % full = rest
    BY <1>1, <1>4
  <2>4. \A i \in 1..1 : (IF i * full <= rest THEN full ELSE rest % full) = rest
    BY <1>1, <2>2, <2>3
  <2>5. Split(rest) = [i \in 1..1 |-> rest]
    BY <1>2, <2>1, <2>4
  <2>6. QED
    BY <1>4, <2>5
<1>5. QED
  BY <1>3, <1>4

\* What a frame adds to a record that can take it, and to a new one.
LEMMA Shares ==
  ASSUME NEW frame \in Frames, NEW current \in 0..MaxByteValue
  PROVE  LET effective == effectiveDuration(frame.dur)
             added == Added(frame, current)
             rest == effective - added
         IN /\ effective \in 1..MaxByteValue /\ added \in 0..effective
            /\ current + added \in 0..MaxByteValue /\ rest \in 0..MaxByteValue
            /\ New(frame, current) = IF rest = 0 THEN <<>> ELSE <<rest>>
            /\ previous # frame.px => added = 0
            /\ previous = frame.px /\ rest # 0 => current + added = MaxByteValue
<1>1. MaxByteValue \in Nat \ {0} /\ frame \in Shown
  BY AnimationAssumption DEF Shown
<1>2. effectiveDuration(frame.dur) \in 1..MaxByteValue
  BY <1>1, ShownTyped
<1>3. /\ Added(frame, current) \in 0..effectiveDuration(frame.dur)
      /\ current + Added(frame, current) \in 0..MaxByteValue
      /\ previous # frame.px => Added(frame, current) = 0
      /\ previous = frame.px /\ effectiveDuration(frame.dur) - Added(frame, current) # 0 =>
           current + Added(frame, current) = MaxByteValue
  BY <1>1, <1>2 DEF Added, Fill
<1>4. effectiveDuration(frame.dur) - Added(frame, current) \in 0..MaxByteValue
  BY <1>1, <1>2, <1>3
<1>5. QED
  BY <1>2, <1>3, <1>4, OneRecord DEF New

\* Neighbours of the same pixels: the first is full.
Few(seq) == \A i \in 1..Len(seq) - 1 : seq[i].px = seq[i + 1].px => seq[i].dur = MaxByteValue
\* The pixels loaded last are those of the last record, if any.
Follows(seq) == previous = IF seq = <<>> THEN NoPixels ELSE seq[Len(seq)].px
LastOf(seq) == IF seq = <<>> THEN 0 ELSE seq[Len(seq)].dur

\* The records after a frame is written, as in WriteFrame.
Grown(seq, frame) ==
  IF seq = <<>> THEN <<>> ELSE [seq EXCEPT ![Len(seq)].dur = LastOf(seq) + Added(frame, LastOf(seq))]
Longer(seq, frame) ==
  Grown(seq, frame) \o
    [i \in DOMAIN New(frame, LastOf(seq)) |-> [px |-> frame.px, dur |-> New(frame, LastOf(seq))[i]]]
\* What must hold of them.
Writes(seq, frame, longer) ==
  /\ longer \in Seq(Recs) /\ longer # <<>> /\ longer[Len(longer)].px = frame.px /\ Few(longer)
  /\ Playback(longer) = Playback(seq) \o Stays(frame.px, effectiveDuration(frame.dur))
  /\ Len(longer) = Len(seq) + Len(New(frame, LastOf(seq)))
  /\ LastOf(longer) =
       IF New(frame, LastOf(seq)) = <<>> THEN LastOf(seq) + Added(frame, LastOf(seq))
       ELSE New(frame, LastOf(seq))[Len(New(frame, LastOf(seq)))]

\* A record of its own for the frame, behind one of other pixels or a full one.
LEMMA RecordAppended ==
  ASSUME NEW seq \in Seq(Recs), Few(seq), NEW px \in Pixels, NEW d \in 1..MaxByteValue,
         seq # <<>> => seq[Len(seq)].px # px \/ seq[Len(seq)].dur = MaxByteValue
  PROVE  LET longer == Append(seq, [px |-> px, dur |-> d])
         IN /\ longer \in Seq(Recs) /\ longer # <<>> /\ longer[Len(longer)] = [px |-> px, dur |-> d]
            /\ Few(longer) /\ Len(longer) = Len(seq) + 1
            /\ Playback(longer) = Playback(seq) \o Stays(px, d)
<1> DEFINE e == [px |-> px, dur |-> d]
           longer == Append(seq, e)
<1>1. e \in Recs /\ e \in Shown /\ e.px = px /\ e.dur = d
  BY DEF Recs, Shown
<1>2. effectiveDuration(e.dur) = d
  BY <1>1, AnimationAssumption DEF effectiveDuration
<1>3. seq \in Seq(Shown)
  BY DEF Shown
<1> HIDE DEF e
<1>4. Playback(longer) = Playback(seq) \o Stays(px, d)
  BY <1>1, <1>2, <1>3, PlaysOnSeq
<1>5. /\ longer \in Seq(Recs) /\ longer # <<>> /\ Len(longer) = Len(seq) + 1 /\ Len(seq) \in Nat
      /\ longer[Len(seq) + 1] = e /\ \A i \in 1..Len(seq) : longer[i] = seq[i]
      /\ (seq = <<>> <=> Len(seq) = 0)
  BY <1>1
<1> HIDE DEF longer
<1>6. Few(longer)
  <2>1. SUFFICES ASSUME NEW i \in 1..Len(longer) - 1, longer[i].px = longer[i + 1].px
                 PROVE  longer[i].dur = MaxByteValue
    BY DEF Few
  <2>2. CASE i < Len(seq)
    <3>1. i \in 1..Len(seq) - 1 /\ i + 1 \in 1..Len(seq) /\ i \in 1..Len(seq)
      BY <1>5, <2>2
    <3>2. QED
      BY <1>5, <2>1, <3>1 DEF Few
  <2>3. CASE i = Len(seq)
    <3>1. i \in 1..Len(seq) /\ seq # <<>> /\ longer[i] = seq[Len(seq)] /\ longer[i + 1] = e
      BY <1>5, <2>3
    <3>2. QED
      BY <1>1, <2>1, <3>1
  <2>4. QED
    BY <1>5, <2>2, <2>3
<1>7. QED
  BY <1>4, <1>5, <1>6 DEF longer, e

\* The last record stays longer.
LEMMA RecordExtended ==
  ASSUME NEW seq \in Seq(Recs), seq # <<>>, Few(seq), NEW added \in Nat,
         seq[Len(seq)].dur + added <= MaxByteValue
  PROVE  LET e == seq[Len(seq)]
             grown == [seq EXCEPT ![Len(seq)].dur = e.dur + added]
         IN /\ grown \in Seq(Recs) /\ Len(grown) = Len(seq)
            /\ grown[Len(seq)] = [px |-> e.px, dur |-> e.dur + added] /\ Few(grown)
            /\ Playback(grown) = Playback(seq) \o Stays(e.px, added)
            /\ e.px \in Pixels /\ e.dur \in 1..MaxByteValue
<1> DEFINE n == Len(seq)
           e == seq[n]
           wider == [px |-> e.px, dur |-> e.dur + added]
           grown == [seq EXCEPT ![n].dur = e.dur + added]
           front == SubSeq(seq, 1, n - 1)
<1>1. n \in Nat \ {0} /\ n \in 1..n /\ e \in Recs
  OBVIOUS
<1>2. /\ e = [px |-> e.px, dur |-> e.dur] /\ e.px \in Pixels /\ e.dur \in 1..MaxByteValue
      /\ wider \in Recs /\ wider.px = e.px /\ wider.dur = e.dur + added
      /\ [e EXCEPT !.dur = e.dur + added] = wider
  BY <1>1, AnimationAssumption DEF Recs
<1>3. grown = [seq EXCEPT ![n] = wider]
  BY <1>2
<1> HIDE DEF e, wider
<1>4. /\ grown \in Seq(Recs) /\ Len(grown) = n /\ grown[n] = wider
      /\ \A i \in 1..n - 1 : grown[i] = seq[i]
  BY <1>1, <1>2, <1>3
<1>5. front \in Seq(Recs) /\ seq = Append(front, e) /\ grown = Append(front, wider)
  <2>1. front \in Seq(Recs) /\ Len(front) = n - 1 /\ \A i \in 1..n - 1 : front[i] = seq[i]
    <3>1. n - 1 \in Nat /\ \A i \in 1..n - 1 : seq[i] \in Recs
      BY <1>1
    <3> HIDE DEF n
    <3>2. front \in Seq(Recs) /\ Len(front) = n - 1 /\ \A i \in 1..n - 1 : front[i] = seq[1 + i - 1]
      BY <3>1, SubSeqProperties
    <3>3. QED
      BY <3>1, <3>2
  <2> HIDE DEF front, grown
  <2>2. seq = Append(front, e)
    BY <1>1, <2>1 DEF e
  <2>3. grown = Append(front, wider)
    BY <1>1, <1>2, <1>4, <2>1
  <2>4. QED
    BY <2>1, <2>2, <2>3
<1> HIDE DEF grown, front
<1>6. Few(grown)
  <2>1. \A i \in 1..n : grown[i].px = seq[i].px
    BY <1>1, <1>2, <1>4 DEF e
  <2>2. QED
    BY <1>1, <1>4, <2>1 DEF Few
<1>7. Playback(grown) = Playback(seq) \o Stays(e.px, added)
  <2>1. front \in Seq(Shown) /\ e \in Shown /\ wider \in Shown
    BY <1>1, <1>2, <1>5 DEF Shown
  <2>2. effectiveDuration(e.dur) = e.dur /\ effectiveDuration(wider.dur) = e.dur + added
    BY <1>2 DEF effectiveDuration
  <2>3. /\ Playback(seq) = Playback(front) \o Stays(e.px, e.dur)
        /\ Playback(grown) = Playback(front) \o Stays(e.px, e.dur + added)
        /\ Playback(front) \in Seq(Pixels)
    BY <1>2, <1>5, <2>1, <2>2, PlaysOnSeq
  <2>4. e.dur \in Nat
    BY <1>2
  <2>5. /\ Stays(e.px, e.dur) \in Seq(Pixels) /\ Stays(e.px, added) \in Seq(Pixels)
        /\ Stays(e.px, e.dur + added) = Stays(e.px, e.dur) \o Stays(e.px, added)
    BY <1>2, <2>4, StaysTyped
  <2>6. Playback(front) \o (Stays(e.px, e.dur) \o Stays(e.px, added))
          = (Playback(front) \o Stays(e.px, e.dur)) \o Stays(e.px, added)
    <3> DEFINE a == Playback(front)
               b == Stays(e.px, e.dur)
               c == Stays(e.px, added)
    <3>1. a \in Seq(Pixels) /\ b \in Seq(Pixels) /\ c \in Seq(Pixels)
      BY <2>3, <2>5
    <3> HIDE DEF a, b, c
    <3>2. a \o (b \o c) = (a \o b) \o c
      BY <3>1, ConcatAssociative
    <3>3. QED
      BY <3>2 DEF a, b, c
  <2>7. QED
    BY <2>3, <2>5, <2>6
<1>8. QED
  BY <1>1, <1>2, <1>4, <1>6, <1>7 DEF grown, e, wider

\* Writing a frame extends the last record, appends one, or does both, and what the records
\* play goes on with the frame for as long as it stays.
LEMMA WriteOne ==
  ASSUME NEW seq \in Seq(Recs), Few(seq), Follows(seq), NEW frame \in Frames
  PROVE  Writes(seq, frame, Longer(seq, frame))
<1> DEFINE n == Len(seq)
           current == LastOf(seq)
           effective == effectiveDuration(frame.dur)
           added == Added(frame, current)
           rest == effective - added
           px == frame.px
<1>1. MaxByteValue \in Nat \ {0} /\ NoPixels \notin Pixels /\ frame \in Shown
  BY AnimationAssumption DEF Shown
<1>2. px \in Pixels
  BY <1>1, ShownTyped
<1>3. n \in Nat /\ (n = 0 <=> seq = <<>>) /\ (seq # <<>> => seq[n] \in Recs)
  OBVIOUS
<1>4. current \in 0..MaxByteValue /\ (seq # <<>> => current = seq[n].dur)
  BY <1>1, <1>3 DEF LastOf, Recs
<1>5. /\ effective \in 1..MaxByteValue /\ added \in 0..effective
      /\ current + added \in 0..MaxByteValue /\ rest \in 0..MaxByteValue
      /\ New(frame, current) = IF rest = 0 THEN <<>> ELSE <<rest>>
      /\ previous # px => added = 0
      /\ previous = px /\ rest # 0 => current + added = MaxByteValue
  BY <1>4, Shares
<1>6. added \in Nat /\ effective \in Nat /\ rest \in Nat /\ effective = added + rest /\ current \in Nat
  BY <1>1, <1>4, <1>5
<1> DEFINE grown == Grown(seq, frame)
<1>7. /\ grown \in Seq(Recs) /\ Len(grown) = n /\ Few(grown) /\ LastOf(grown) = current + added
      /\ Playback(grown) = Playback(seq) \o Stays(px, added)
      /\ grown # <<>> => grown[Len(grown)].px = previous
      /\ previous # px => rest = effective
      /\ grown = <<>> <=> seq = <<>>
  <2>1. CASE seq = <<>>
    <3>1. previous # px /\ added = 0 /\ current = 0 /\ grown = <<>>
      BY <1>1, <1>2, <1>5, <2>1 DEF Follows, LastOf, Grown
    <3>2. Stays(px, 0) = <<>> /\ <<>> \in Seq(Shown)
      BY DEF Stays
    <3>3. Playback(seq) = <<>> /\ <<>> \o <<>> = <<>>
      <4>1. <<>> \o <<>> = <<>>
        BY ConcatEmptySeq
      <4>2. QED
        BY <2>1, <3>2, <4>1, PlaysOnSeq
    <3>4. Playback(grown) = Playback(seq) \o Stays(px, added)
      BY <2>1, <3>1, <3>2, <3>3
    <3>5. QED
      <4>1. grown = seq /\ rest = effective /\ LastOf(grown) = current + added
        BY <1>6, <2>1, <3>1 DEF LastOf
      <4> HIDE DEF grown, rest, effective, current, added
      <4>2. QED
        BY <1>3, <2>1, <3>1, <3>4, <4>1
  <2>2. CASE seq # <<>>
    <3>1. previous = seq[n].px /\ current = seq[n].dur
      BY <2>2 DEF Follows, LastOf
    <3>2. grown = [seq EXCEPT ![n].dur = seq[n].dur + added]
      BY <2>2, <3>1 DEF Grown
    <3>3. seq[n].dur + added <= MaxByteValue
      BY <1>5, <3>1
    <3>4. /\ grown \in Seq(Recs) /\ Len(grown) = n
          /\ grown[n] = [px |-> seq[n].px, dur |-> seq[n].dur + added] /\ Few(grown)
          /\ Playback(grown) = Playback(seq) \o Stays(seq[n].px, added)
      BY <1>6, <2>2, <3>2, <3>3, RecordExtended
    <3>5. grown[n].px = seq[n].px /\ grown[n].dur = current + added /\ grown # <<>>
      BY <1>3, <2>2, <3>1, <3>4
    <3>6. previous # px => added = 0 /\ rest = effective
      BY <1>5, <1>6
    <3>7. Stays(seq[n].px, added) = Stays(px, added)
      <4>1. CASE previous = px
        BY <3>1, <4>1
      <4>2. CASE previous # px
        BY <3>6, <4>2 DEF Stays
      <4>3. QED
        BY <4>1, <4>2
    <3>8. LastOf(grown) = current + added /\ grown[Len(grown)].px = previous
      BY <3>1, <3>4, <3>5 DEF LastOf
    <3>9. QED
      BY <2>2, <3>4, <3>5, <3>6, <3>7, <3>8
  <2>3. QED
    BY <2>1, <2>2
<1> HIDE DEF grown, rest, effective, current, added
<1> DEFINE longer == Longer(seq, frame)
           parts == [i \in DOMAIN New(frame, current) |-> [px |-> px, dur |-> New(frame, current)[i]]]
<1>8. longer = grown \o parts
  BY DEF Longer, grown, current
<1>9. seq \in Seq(Shown)
  BY DEF Shown
<1>10. Playback(seq) \in Seq(Pixels)
  BY <1>9, PlaysOnSeq
<1>11. CASE rest = 0
  <2>1. New(frame, current) = <<>> /\ parts = <<>>
    BY <1>5, <1>11
  <2>2. longer = grown
    BY <1>7, <1>8, <2>1
  <2>3. previous = px
    BY <1>1, <1>5, <1>7, <1>11
  <2>4. seq # <<>>
    BY <1>1, <1>2, <2>3 DEF Follows
  <2>5. added = effective
    BY <1>6, <1>11
  <2>6. Len(<<>>) = 0 /\ n + 0 = n
    BY <1>3
  <2>7. QED
    BY <1>7, <2>1, <2>2, <2>3, <2>4, <2>5, <2>6 DEF Writes, current, added, effective
<1>12. CASE rest # 0
  <2> DEFINE e == [px |-> px, dur |-> rest]
  <2>1. New(frame, current) = <<rest>> /\ parts = <<e>>
    BY <1>5, <1>12
  <2>2. longer = Append(grown, e)
    BY <1>7, <1>8, <2>1
  <2>3. rest \in 1..MaxByteValue
    BY <1>5, <1>6, <1>12
  <2>4. grown # <<>> => grown[Len(grown)].px # px \/ grown[Len(grown)].dur = MaxByteValue
    BY <1>5, <1>7, <1>12 DEF LastOf
  <2>5. /\ longer \in Seq(Recs) /\ longer # <<>> /\ longer[Len(longer)] = e
        /\ Few(longer) /\ Len(longer) = Len(grown) + 1
        /\ Playback(longer) = Playback(grown) \o Stays(px, rest)
    <3>1. grown \in Seq(Recs) /\ Few(grown) /\ longer = Append(grown, [px |-> px, dur |-> rest])
      BY <1>7, <2>2
    <3> HIDE DEF px
    <3>2. QED
      <4>1. /\ Append(grown, e) \in Seq(Recs) /\ Append(grown, e) # <<>>
            /\ Append(grown, e)[Len(Append(grown, e))] = e
            /\ Few(Append(grown, e)) /\ Len(Append(grown, e)) = Len(grown) + 1
            /\ Playback(Append(grown, e)) = Playback(grown) \o Stays(px, rest)
        BY <1>2, <2>3, <2>4, <3>1, RecordAppended
      <4>2. QED
        BY <2>2, <4>1
  <2>6. /\ Stays(px, effective) = Stays(px, added) \o Stays(px, rest)
        /\ Stays(px, added) \in Seq(Pixels) /\ Stays(px, rest) \in Seq(Pixels)
    BY <1>2, <1>6, StaysTyped
  <2>7. Playback(longer) = Playback(seq) \o Stays(px, effective)
    <3>1. (Playback(seq) \o Stays(px, added)) \o Stays(px, rest)
            = Playback(seq) \o (Stays(px, added) \o Stays(px, rest))
      BY <1>10, <2>6, ConcatAssociative
    <3>2. QED
      BY <1>7, <2>5, <2>6, <3>1
  <2>8. e.px = px /\ e.dur = rest /\ Len(<<rest>>) = 1 /\ <<rest>>[1] = rest /\ <<rest>> # <<>>
    OBVIOUS
  <2>9. LastOf(longer) = rest
    BY <2>5, <2>8 DEF LastOf
  <2> HIDE DEF e
  <2>10. QED
    BY <1>7, <2>1, <2>5, <2>7, <2>8, <2>9 DEF Writes, current, added, effective
<1>13. QED
  BY <1>11, <1>12

\* What the loop of both passes keeps: the last pixels, the last record's duration and
\* the records so far.
CountOne(c, frame) ==
  LET taken == IF c.prev = frame.px THEN Fill(c.last, effectiveDuration(frame.dur)) ELSE 0
      new == Split(effectiveDuration(frame.dur) - taken)
  IN [prev |-> frame.px, last |-> IF new = <<>> THEN c.last + taken ELSE new[Len(new)],
      enc |-> c.enc + Len(new)]
\* count[i] is what the loop keeps after the first i frames.
Counting(count, n) ==
  /\ count[0] = [prev |-> NoPixels, last |-> 0, enc |-> 0]
  /\ \A i \in 1..n : count[i] = CountOne(count[i - 1], frames[i])
  /\ \A i \in 0..n : count[i].enc \in Nat
  /\ \A i, j \in 0..n : i <= j => count[i].enc <= count[j].enc
\* What the two passes keep, in the variables they have for it.
Analyzed == [prev |-> previous, last |-> last, enc |-> counted.encoded]
Written == [prev |-> previous, last |-> LastOf(records), enc |-> Len(records)]

\* Types; and a call runs until its pass is done.
AnimationTyped ==
  /\ frames \in Seq(Frames) /\ records \in Seq(Recs) /\ played \in Seq(Frames)
  /\ position \in Nat \ {0} /\ changes \in Nat /\ last \in 0..MaxByteValue
  /\ counted \in [encoded : Nat, display : Nat] /\ archive \in Seq(Entries)
  /\ pass # "done" <=> encoding = "running"
\* Before the first pass nothing is counted or written.
Unread ==
  pass = "check" =>
    /\ position = 1 /\ previous = NoPixels /\ last = 0 /\ counted = [encoded |-> 0, display |-> 0]
    /\ records = <<>> /\ played = <<>>
\* What is counted plays as long as the frames so far, and, while no image changed, is what
\* the loop gives for them.
AnalyzeInv ==
  pass = "analyze" =>
    /\ position <= Len(frames) + 1 /\ records = <<>> /\ played = <<>>
    /\ counted.display = Len(Playback(SubSeq(frames, 1, position - 1)))
    /\ changes = 0 => \E count : Counting(count, position - 1) /\ count[position - 1] = Analyzed
\* What is written plays what was loaded, in as few records as possible; while no image
\* changed, it is what the first pass counted at this frame.
WriteInv ==
  pass = "write" =>
    /\ position <= Len(frames) + 1 /\ Len(played) = position - 1
    /\ \A i \in 1..position - 1 : played[i].dur = frames[i].dur
    /\ counted.display = Len(Playback(frames))
    /\ Few(records) /\ Follows(records) /\ Playback(records) = Playback(played)
    /\ changes = 0 =>
         \E count : /\ Counting(count, Len(frames)) /\ count[Len(frames)].enc = counted.encoded
                    /\ count[position - 1] = Written
\* The frames of an archive are its entries, and what is written are these frames.
ArchiveInv ==
  source = "zip" /\ pass \in {"analyze", "write"} =>
    /\ \A i \in 1..Len(frames) : frames[i].dur = 0
    /\ \A e \in ToSet(archive) : e.name = "frame" =>
         e.index \in Nat /\ e.index + 1 \in 1..Len(frames) /\ frames[e.index + 1].px = e.px
    /\ pass = "write" => \A i \in 1..position - 1 : played[i] = frames[i]
\* The inductive invariant.
AnimationInv == AnimationTyped /\ Unread /\ AnalyzeInv /\ WriteInv /\ ArchiveInv /\ PlaysBack

\* Frames are shown.
LEMMA FramesShown ==
  ASSUME NEW seq \in Seq(Frames)
  PROVE  seq \in Seq(Shown)
BY DEF Shown

\* One frame more is counted as the loop counts it.
LEMMA CountsOn ==
  ASSUME NEW n \in Nat, NEW count, Counting(count, n), NEW next, next = CountOne(count[n], frames[n + 1]),
         next.enc \in Nat, count[n].enc <= next.enc
  PROVE  \E further : Counting(further, n + 1) /\ further[n + 1] = next
<1> DEFINE further == [i \in 0..n + 1 |-> IF i = n + 1 THEN next ELSE count[i]]
<1>1. \A i \in 0..n : further[i] = count[i]
  OBVIOUS
<1>2. further[n + 1] = next
  OBVIOUS
<1> HIDE DEF further
<1>3. further[0] = [prev |-> NoPixels, last |-> 0, enc |-> 0]
  <2>1. 0 \in 0..n
    OBVIOUS
  <2>2. QED
    BY <1>1, <2>1 DEF Counting
<1>4. ASSUME NEW i \in 1..n + 1 PROVE further[i] = CountOne(further[i - 1], frames[i])
  <2>1. CASE i \in 1..n
    <3>1. count[i] = CountOne(count[i - 1], frames[i]) /\ i \in 0..n /\ i - 1 \in 0..n
      BY <2>1 DEF Counting
    <3>2. QED
      BY <1>1, <3>1
  <2>2. CASE i = n + 1
    <3>1. i - 1 = n /\ n \in 0..n
      BY <2>2
    <3>2. QED
      BY <1>1, <1>2, <2>2, <3>1
  <2>3. QED
    BY <2>1, <2>2
<1>5. \A i \in 0..n + 1 : i \in 0..n \/ i = n + 1
  OBVIOUS
<1>6. \A i \in 0..n + 1 : further[i].enc \in Nat
  BY <1>1, <1>2, <1>5 DEF Counting
<1>7. ASSUME NEW i \in 0..n + 1, NEW j \in 0..n + 1, i <= j
      PROVE  further[i].enc <= further[j].enc
  <2>1. CASE j \in 0..n
    <3>1. i \in 0..n
      BY <1>7, <2>1
    <3>2. QED
      BY <1>1, <1>7, <2>1, <3>1 DEF Counting
  <2>2. CASE j = n + 1 /\ i = n + 1
    BY <1>6, <2>2
  <2>3. CASE j = n + 1 /\ i \in 0..n
    <3>1. n \in 0..n /\ i <= n
      BY <2>3
    <3>2. count[i].enc <= count[n].enc /\ count[i].enc \in Nat /\ count[n].enc \in Nat
      BY <2>3, <3>1 DEF Counting
    <3>3. further[i].enc <= next.enc
      BY <1>1, <2>3, <3>2
    <3>4. QED
      BY <1>2, <2>3, <3>3
  <2>4. QED
    BY <1>5, <2>1, <2>2, <2>3
<1>8. Counting(further, n + 1)
  BY <1>3, <1>4, <1>6, <1>7 DEF Counting
<1>9. QED
  BY <1>2, <1>8

\* Every initial state satisfies the invariant.
LEMMA AnimationInits == AnimationInit \/ AnimationIdle => AnimationInv
<1>1. <<>> \in Seq(Frames) /\ <<>> \in Seq(Recs) /\ <<>> \in Seq(Entries) /\ Len(<<>>) = 0
  BY EmptySeq
<1>2. 0 \in 0..MaxByteValue
  BY AnimationAssumption
<1>3. CASE AnimationIdle
  <2>1. AnimationTyped
    BY <1>1, <1>2, <1>3 DEF AnimationIdle, AnimationTyped
  <2>2. pass = "done" /\ encoding = "rejected"
    BY <1>3 DEF AnimationIdle
  <2>3. QED
    BY <2>1, <2>2 DEF AnimationInv, Unread, AnalyzeInv, WriteInv, ArchiveInv, PlaysBack
<1>4. CASE AnimationInit
  <2>1. /\ position = 1 /\ previous = NoPixels /\ last = 0 /\ counted = [encoded |-> 0, display |-> 0]
        /\ records = <<>> /\ played = <<>> /\ changes = 0 /\ encoding = "running"
        /\ pass = IF source = "raw" THEN "analyze" ELSE "check"
    BY <1>4 DEF AnimationInit
  <2>2. /\ frames \in IF source = "zip" THEN {<<>>} ELSE BoundedSeq(Frames, MaxFrames)
        /\ archive \in IF source = "zip" THEN BoundedSeq(Entries, MaxArchive) ELSE {<<>>}
    BY <1>4 DEF AnimationInit
  <2>3. \A S : \A m \in Nat : BoundedSeq(S, m) \subseteq Seq(S)
    BY DEF BoundedSeq, SeqOf
  <2>4. frames \in Seq(Frames) /\ archive \in Seq(Entries)
    <3>1. BoundedSeq(Frames, MaxFrames) \subseteq Seq(Frames)
      BY <2>3, AnimationAssumption
    <3>2. BoundedSeq(Entries, MaxArchive) \subseteq Seq(Entries)
      BY <2>3, AnimationAssumption
    <3>3. QED
      BY <1>1, <2>2, <3>1, <3>2
  <2>5. AnimationTyped
    BY <1>1, <1>2, <2>1, <2>4 DEF AnimationTyped
  <2>6. Unread
    BY <2>1 DEF Unread
  <2>7. AnalyzeInv
    <3>1. SUFFICES ASSUME pass = "analyze"
                   PROVE  /\ position <= Len(frames) + 1 /\ records = <<>> /\ played = <<>>
                          /\ counted.display = Len(Playback(SubSeq(frames, 1, position - 1)))
                          /\ \E count : Counting(count, position - 1) /\ count[position - 1] = Analyzed
      BY DEF AnalyzeInv
    <3>2. position - 1 = 0 /\ Len(frames) \in Nat /\ SubSeq(frames, 1, 0) = <<>>
      BY <2>1, <2>4
    <3>3. Playback(<<>>) = <<>>
      BY EmptySeq, PlaysOnSeq
    <3> DEFINE count == [i \in 0..0 |-> [prev |-> NoPixels, last |-> 0, enc |-> 0]]
    <3>4. Counting(count, 0)
      BY DEF Counting
    <3>5. count[0] = Analyzed
      BY <2>1 DEF Analyzed
    <3>6. \E c : Counting(c, 0) /\ c[0] = Analyzed
      BY <3>4, <3>5
    <3>7. counted.display = 0 /\ Playback(SubSeq(frames, 1, position - 1)) = <<>>
      BY <2>1, <3>2, <3>3
    <3>8. position <= Len(frames) + 1 /\ counted.display = Len(Playback(SubSeq(frames, 1, position - 1)))
      BY <1>1, <2>1, <3>2, <3>7
    <3>9. \E c : Counting(c, position - 1) /\ c[position - 1] = Analyzed
      BY <3>2, <3>6
    <3>10. QED
      BY <2>1, <3>8, <3>9
  <2>8. WriteInv
    BY <2>1 DEF WriteInv
  <2>9. ArchiveInv
    BY <2>1 DEF ArchiveInv
  <2>10. PlaysBack
    BY <2>1 DEF PlaysBack
  <2>11. QED
    BY <2>5, <2>6, <2>7, <2>8, <2>9, <2>10 DEF AnimationInv
<1>5. QED
  BY <1>3, <1>4

\* The invariant at the start of a pass over any frames.
StartsAnalysis ==
  /\ AnimationTyped /\ pass = "analyze" /\ position = 1 /\ previous = NoPixels /\ last = 0
  /\ counted = [encoded |-> 0, display |-> 0] /\ records = <<>> /\ played = <<>>

\* A loop that has not begun.
LEMMA FreshCount ==
  \E count : Counting(count, 0) /\ count[0] = [prev |-> NoPixels, last |-> 0, enc |-> 0]
<1> DEFINE count == [i \in 0..0 |-> [prev |-> NoPixels, last |-> 0, enc |-> 0]]
<1>1. Counting(count, 0) /\ count[0] = [prev |-> NoPixels, last |-> 0, enc |-> 0]
  BY DEF Counting
<1>2. QED
  BY <1>1

\* Nothing counted is what no frames give.
LEMMA AnalysisStarts ==
  ASSUME StartsAnalysis
  PROVE  AnalyzeInv
<1>1. position - 1 = 0 /\ Len(frames) \in Nat /\ SubSeq(frames, 1, 0) = <<>>
  BY DEF StartsAnalysis, AnimationTyped
<1>2. Playback(<<>>) = <<>> /\ Len(<<>>) = 0
  BY EmptySeq, PlaysOnSeq
<1>3. \E count : Counting(count, position - 1) /\ count[position - 1] = Analyzed
  BY <1>1, FreshCount DEF StartsAnalysis, Analyzed
<1>4. counted.display = 0 /\ Playback(SubSeq(frames, 1, position - 1)) = <<>>
  BY <1>1, <1>2 DEF StartsAnalysis
<1>5. position <= Len(frames) + 1 /\ counted.display = Len(Playback(SubSeq(frames, 1, position - 1)))
  BY <1>1, <1>2, <1>4 DEF StartsAnalysis
<1>6. QED
  BY <1>3, <1>5 DEF AnalyzeInv, StartsAnalysis

\* EncodeImages starts to count from nothing.
LEMMA ValidateKeeps ==
  ASSUME AnimationInv, ValidateImages
  PROVE  AnimationInv'
<1>1. /\ source = "images" /\ pass = "check"
      /\ UNCHANGED <<inputs, frames, position, previous, last, counted, records, played, changes>>
      /\ \/ pass' = "analyze" /\ UNCHANGED encoding
         \/ pass' = "done" /\ encoding' = "rejected"
  BY DEF ValidateImages, Ends
<1>2. AnimationTyped /\ Unread /\ encoding = "running"
  BY <1>1 DEF AnimationInv, AnimationTyped
<1>3. AnimationTyped'
  BY <1>1, <1>2 DEF AnimationTyped, inputs
<1>4. Unread' /\ WriteInv' /\ ArchiveInv' /\ PlaysBack'
  BY <1>1, <1>2 DEF Unread, WriteInv, ArchiveInv, PlaysBack, inputs
<1>5. CASE pass' = "analyze"
  <2>1. StartsAnalysis'
    BY <1>1, <1>2, <1>3, <1>5 DEF StartsAnalysis, Unread
  <2>2. AnalyzeInv'
    BY <2>1, AnalysisStarts, PTL
  <2>3. QED
    BY <1>3, <1>4, <2>2 DEF AnimationInv
<1>6. CASE pass' = "done"
  <2>1. AnalyzeInv'
    BY <1>6 DEF AnalyzeInv
  <2>2. QED
    BY <1>3, <1>4, <2>1 DEF AnimationInv
<1>7. QED
  BY <1>1, <1>5, <1>6

\* The archive's frames are taken in the order of their numbers, each once.
LEMMA ReadArchiveKeeps ==
  ASSUME AnimationInv, ReadArchive
  PROVE  AnimationInv'
<1> DEFINE Named(name) == {i \in DOMAIN archive : archive[i].name = name}
           indexes == {archive[i].index : i \in Named("frame")}
           framesByIndex == [n \in indexes |->
             archive[CHOOSE i \in Named("frame") : archive[i].index = n]]
           found == [k \in 1..Cardinality(indexes) |->
                      [px |-> framesByIndex[k - 1].px, dur |-> 0, fits |-> TRUE]]
<1>1. /\ source = "zip" /\ pass = "check"
      /\ UNCHANGED <<inputs, position, previous, last, counted, records, played, changes>>
  BY DEF ReadArchive
<1>2. AnimationTyped /\ Unread /\ encoding = "running"
  BY <1>1 DEF AnimationInv, AnimationTyped
<1>3. CASE Ends("rejected") /\ UNCHANGED frames
  <2>1. pass' = "done" /\ encoding' = "rejected" /\ UNCHANGED frames
    BY <1>3 DEF Ends
  <2>2. AnimationTyped'
    BY <1>1, <1>2, <2>1 DEF AnimationTyped, inputs
  <2>3. QED
    BY <2>1, <2>2 DEF AnimationInv, Unread, AnalyzeInv, WriteInv, ArchiveInv, PlaysBack
<1>4. CASE /\ \A i, j \in Named("frame") : i # j => archive[i].index # archive[j].index
           /\ indexes = 0..Cardinality(indexes) - 1
           /\ \A i \in Named("meta") \cup Named("frame") : archive[i].fits
           /\ frames' = found
           /\ pass' = "analyze" /\ UNCHANGED encoding
  <2> DEFINE n == Cardinality(indexes)
  <2>1. n \in Nat /\ indexes = 0..n - 1
    <3>1. IsFiniteSet(DOMAIN archive)
      <4>1. DOMAIN archive = 1..Len(archive) /\ Len(archive) \in Nat
        BY <1>2 DEF AnimationTyped
      <4>2. QED
        BY <4>1, FS_Interval
    <3>2. IsFiniteSet(Named("frame"))
      BY <3>1, FS_Subset
    <3>3. IsFiniteSet(indexes)
      <4> DEFINE S == Named("frame")
                 number == [i \in S |-> archive[i].index]
      <4>1. number \in Surjection(S, indexes)
        BY DEF Surjection
      <4>2. QED
        BY <3>2, <4>1, FS_Surjection
    <3>4. QED
      BY <1>4, <3>3, FS_CardinalityType
  <2>2. ASSUME NEW i \in Named("frame")
        PROVE  /\ archive[i].px \in Pixels /\ archive[i].index \in 0..n - 1
               /\ found[archive[i].index + 1].px = archive[i].px
    <3>1. archive[i] \in Entries /\ archive[i].name = "frame" /\ archive[i].fits
      BY <1>2, <1>4 DEF AnimationTyped
    <3>2. archive[i].px \in Pixels
      BY <3>1 DEF Entries
    <3>3. archive[i].index \in indexes
      OBVIOUS
    <3> DEFINE m == archive[i].index
    <3>4. m \in 0..n - 1 /\ m + 1 \in 1..n /\ (m + 1) - 1 = m
      <4> HIDE DEF m, n, indexes
      <4>1. m \in indexes
        BY <3>3 DEF m
      <4>2. QED
        BY <2>1, <4>1
    <3>5. (CHOOSE j \in Named("frame") : archive[j].index = m) = i
      BY <1>4
    <3>6. framesByIndex[m] = archive[i]
      BY <3>3, <3>5
    <3> HIDE DEF m, indexes, framesByIndex
    <3>7. found[m + 1].px = archive[i].px
      BY <3>4, <3>6
    <3>8. QED
      BY <3>2, <3>4, <3>7 DEF m
  <2>3. ASSUME NEW k \in 1..n
        PROVE  found[k] \in Frames /\ found[k].dur = 0
    <3>1. k - 1 \in indexes
      <4> HIDE DEF n, indexes
      <4>1. QED
        BY <2>1
    <3>2. PICK i \in Named("frame") : archive[i].index = k - 1
      BY <3>1
    <3>3. found[k].px \in Pixels
      BY <2>1, <2>2, <3>2
    <3>4. found[k] = [px |-> found[k].px, dur |-> 0, fits |-> TRUE]
      BY <2>1
    <3> HIDE DEF found
    <3>5. 0 \in 0..MaxByteValue /\ found[k].dur = 0
      BY <3>4, AnimationAssumption
    <3>6. found[k] \in [px : Pixels, dur : 0..MaxByteValue, fits : {TRUE}]
      <4> DEFINE px == found[k].px
      <4>1. px \in Pixels /\ found[k] = [px |-> px, dur |-> 0, fits |-> TRUE]
        BY <3>3, <3>4
      <4> HIDE DEF px
      <4>2. QED
        BY <3>5, <4>1
    <3>7. QED
      BY <3>5, <3>6 DEF Frames
  <2>4. DOMAIN found = 1..n /\ found \in Seq(Frames) /\ Len(found) = n
    <3>1. DOMAIN found = 1..n /\ found = [k \in 1..n |-> found[k]]
      OBVIOUS
    <3> HIDE DEF found, n
    <3>2. found \in [1..n -> Frames]
      BY <2>3, <3>1
    <3>3. QED
      BY <2>1, <3>1, <3>2
  <2> HIDE DEF found, n, indexes
  <2>5. AnimationTyped'
    BY <1>1, <1>2, <1>4, <2>4 DEF AnimationTyped, inputs
  <2>6. StartsAnalysis'
    BY <1>1, <1>2, <1>4, <2>5 DEF StartsAnalysis, Unread
  <2>7. AnalyzeInv'
    BY <2>6, AnalysisStarts, PTL
  <2>8. ASSUME NEW e \in ToSet(archive), e.name = "frame"
        PROVE  e.index \in Nat /\ e.index + 1 \in 1..n /\ found[e.index + 1].px = e.px
    <3>1. PICK i \in DOMAIN archive : archive[i] = e
      BY DEF ToSet
    <3>2. i \in Named("frame")
      BY <2>8, <3>1
    <3>3. QED
      BY <2>1, <2>2, <3>1, <3>2
  <2>9. ArchiveInv'
    <3>1. \A i \in 1..n : found[i].dur = 0
      BY <2>3
    <3>2. ToSet(archive)' = ToSet(archive)
      BY <1>1 DEF inputs, ToSet
    <3>3. frames' = found /\ Len(frames') = n /\ pass' = "analyze"
      BY <1>4, <2>4
    <3>4. QED
      BY <2>8, <3>1, <3>2, <3>3 DEF ArchiveInv
  <2>10. Unread' /\ WriteInv' /\ PlaysBack'
    BY <1>2, <1>4 DEF Unread, WriteInv, PlaysBack
  <2>11. QED
    BY <2>5, <2>7, <2>9, <2>10 DEF AnimationInv
<1>5. QED
  <2>1. \/ /\ /\ Cardinality(Named("meta")) = 1
              /\ Cardinality(Named("meta")) + Cardinality(Named("frame")) <= MaxEntries
              /\ \A i, j \in Named("frame") : i # j => archive[i].index # archive[j].index
              /\ indexes # {} /\ indexes = 0..Cardinality(indexes) - 1
              /\ \A i \in Named("meta") \cup Named("frame") : archive[i].fits
           /\ frames' = found
           /\ pass' = "analyze" /\ UNCHANGED encoding
        \/ Ends("rejected") /\ UNCHANGED frames
    BY DEF ReadArchive
  <2>2. QED
    BY <1>3, <1>4, <2>1

\* The loop counts a frame as CountOne does.
LEMMA OneCounted ==
  ASSUME NEW frame \in Frames, NEW c, c.prev = previous, c.last \in 0..MaxByteValue, c.enc \in Nat
  PROVE  LET new == New(frame, c.last)
             next == CountOne(c, frame)
         IN /\ next = [prev |-> frame.px,
                       last |-> IF new = <<>> THEN c.last + Added(frame, c.last) ELSE new[Len(new)],
                       enc |-> c.enc + Len(new)]
            /\ next.last \in 0..MaxByteValue /\ next.enc \in Nat /\ c.enc <= next.enc
            /\ Len(new) \in Nat
<1> DEFINE new == New(frame, c.last)
           added == Added(frame, c.last)
           rest == effectiveDuration(frame.dur) - added
           next == CountOne(c, frame)
<1>1. /\ c.last + added \in 0..MaxByteValue /\ rest \in 0..MaxByteValue
      /\ new = IF rest = 0 THEN <<>> ELSE <<rest>>
  BY Shares
<1>2. next = [prev |-> frame.px, last |-> IF new = <<>> THEN c.last + added ELSE new[Len(new)],
              enc |-> c.enc + Len(new)]
  BY Zenon DEF CountOne, New, Added
<1>3. Len(new) \in Nat /\ (IF new = <<>> THEN c.last + added ELSE new[Len(new)]) \in 0..MaxByteValue
  <2> HIDE DEF new, added, rest
  <2>1. CASE rest = 0
    <3>1. new = <<>>
      BY <1>1, <2>1
    <3>2. QED
      BY <1>1, <3>1
  <2>2. CASE rest # 0
    <3>1. new = <<rest>>
      BY <1>1, <2>2
    <3>2. QED
      BY <1>1, <3>1
  <2>3. QED
    BY <2>1, <2>2
<1> HIDE DEF next, new, added
<1>4. next.enc = c.enc + Len(new)
      /\ next.last = IF new = <<>> THEN c.last + added ELSE new[Len(new)]
  BY <1>2
<1>5. QED
  BY <1>2, <1>3, <1>4 DEF next, new, added

\* The first pass counts one frame more.
LEMMA AnalyzeKeeps ==
  ASSUME AnimationInv, AnalyzeFrame
  PROVE  AnimationInv'
<1> DEFINE frame == frames[position]
           new == New(frame, last)
           encoded == counted.encoded + Len(new)
<1>1. /\ pass = "analyze" /\ position <= Len(frames) /\ position' = position + 1
      /\ last' = (IF new = <<>> THEN last + Added(frame, last) ELSE new[Len(new)])
      /\ counted' = [encoded |-> encoded, display |-> counted.display + effectiveDuration(frame.dur)]
      /\ previous' = frame.px /\ UNCHANGED <<inputs, frames, records, played, changes>>
  BY DEF AnalyzeFrame
<1>2. \/ pass' = "done" /\ encoding' \in {"rejected", "too large"}
      \/ UNCHANGED <<pass, encoding>>
  BY DEF AnalyzeFrame, Ends, Goes
<1>3. AnimationTyped /\ AnalyzeInv /\ ArchiveInv /\ encoding = "running"
  BY <1>1 DEF AnimationInv, AnimationTyped
<1>4. /\ frames \in Seq(Frames) /\ position \in Nat \ {0} /\ last \in 0..MaxByteValue
      /\ counted \in [encoded : Nat, display : Nat] /\ Len(frames) \in Nat
  BY <1>3 DEF AnimationTyped
<1>5. frame \in Frames /\ frame \in Shown /\ position \in 1..Len(frames)
  BY <1>1, <1>4 DEF Shown
<1>6. Analyzed.prev = previous /\ Analyzed.last = last /\ Analyzed.enc = counted.encoded
      /\ counted.encoded \in Nat /\ counted.display \in Nat
  BY <1>4 DEF Analyzed
<1> DEFINE next == CountOne(Analyzed, frame)
<1>7. /\ next = [prev |-> frame.px, last |-> IF new = <<>> THEN last + Added(frame, last) ELSE new[Len(new)],
                 enc |-> encoded]
      /\ next.last \in 0..MaxByteValue /\ next.enc \in Nat /\ counted.encoded <= next.enc
      /\ Len(new) \in Nat
  <2> DEFINE c == Analyzed
  <2>1. c.prev = previous /\ c.last \in 0..MaxByteValue /\ c.enc \in Nat
    BY <1>4, <1>6
  <2> HIDE DEF c, frame
  <2>2. /\ CountOne(c, frame) = [prev |-> frame.px,
              last |-> IF New(frame, c.last) = <<>> THEN c.last + Added(frame, c.last)
                       ELSE New(frame, c.last)[Len(New(frame, c.last))],
              enc |-> c.enc + Len(New(frame, c.last))]
        /\ CountOne(c, frame).last \in 0..MaxByteValue /\ CountOne(c, frame).enc \in Nat
        /\ c.enc <= CountOne(c, frame).enc /\ Len(New(frame, c.last)) \in Nat
    BY <1>5, <2>1, OneCounted
  <2>3. c.last = last /\ c.enc = counted.encoded
    BY <1>6 DEF c
  <2>4. QED
    BY <2>2, <2>3 DEF c
<1>8. effectiveDuration(frame.dur) \in Nat
  BY <1>5, ShownTyped, AnimationAssumption
<1> HIDE DEF frame, new, next
<1>9. next.last = last' /\ next.enc = encoded /\ next.prev = previous'
  BY <1>1, <1>7
<1>10. counted' \in [encoded : Nat, display : Nat] /\ counted'.encoded = encoded
       /\ counted'.display = counted.display + effectiveDuration(frame.dur)
  BY <1>1, <1>6, <1>7, <1>8, <1>9
<1>11. Analyzed' = next
  BY <1>1, <1>7, <1>10 DEF Analyzed
<1>12. AnimationTyped'
  <2>1. position' \in Nat \ {0} /\ last' \in 0..MaxByteValue
    <3>1. last' \in 0..MaxByteValue
      BY <1>7, <1>9
    <3>2. QED
      BY <1>1, <1>4, <3>1
  <2>2. pass' # "done" <=> encoding' = "running"
    BY <1>1, <1>2, <1>3
  <2>3. /\ frames' \in Seq(Frames) /\ records' \in Seq(Recs) /\ played' \in Seq(Frames)
        /\ changes' \in Nat /\ archive' \in Seq(Entries)
    BY <1>1, <1>3 DEF AnimationTyped, inputs
  <2>4. QED
    BY <1>10, <2>1, <2>2, <2>3 DEF AnimationTyped
<1>13. ArchiveInv'
  BY <1>1, <1>2, <1>3 DEF ArchiveInv, inputs
<1>14. Unread' /\ WriteInv' /\ PlaysBack'
  BY <1>1, <1>2, <1>3 DEF Unread, WriteInv, PlaysBack
<1>15. CASE pass' = "done"
  BY <1>12, <1>13, <1>14, <1>15 DEF AnimationInv, AnalyzeInv
<1>16. CASE UNCHANGED <<pass, encoding>>
  <2>1. /\ position <= Len(frames) + 1 /\ records = <<>> /\ played = <<>>
        /\ counted.display = Len(Playback(SubSeq(frames, 1, position - 1)))
        /\ changes = 0 => \E count : Counting(count, position - 1) /\ count[position - 1] = Analyzed
    BY <1>1, <1>3 DEF AnalyzeInv
  <2> DEFINE n == position - 1
  <2>2. n \in Nat /\ n < Len(frames) /\ n + 1 = position /\ position' - 1 = n + 1
        /\ position' <= Len(frames') + 1 /\ frames' = frames
    BY <1>1, <1>4
  <2>3. frames[n + 1] = frame
    BY <2>2 DEF frame
  <2>4. counted'.display = Len(Playback(SubSeq(frames, 1, n + 1)))
    <3>1. frames \in Seq(Shown)
      BY <1>4, FramesShown
    <3> HIDE DEF n
    <3>2. Len(Playback(SubSeq(frames, 1, n + 1))) =
            Len(Playback(SubSeq(frames, 1, n))) + effectiveDuration(frames[n + 1].dur)
      BY <2>2, <3>1, PlaysFurther
    <3>3. counted.display = Len(Playback(SubSeq(frames, 1, n)))
      BY <2>1 DEF n
    <3>4. QED
      BY <1>10, <2>3, <3>2, <3>3
  <2>5. ASSUME changes' = 0
        PROVE  (\E count : Counting(count, position - 1) /\ count[position - 1] = Analyzed)'
    <3>1. PICK count : Counting(count, n) /\ count[n] = Analyzed
      BY <1>1, <2>1, <2>5
    <3>2. next = CountOne(count[n], frames[n + 1]) /\ next.enc \in Nat /\ count[n].enc <= next.enc
      BY <1>6, <1>7, <2>3, <3>1 DEF next
    <3>3. PICK further : Counting(further, position) /\ further[position] = next
      <4> HIDE DEF n, next
      <4>1. \E further : Counting(further, n + 1) /\ further[n + 1] = next
        BY <2>2, <3>1, <3>2, CountsOn
      <4>2. QED
        BY <2>2, <4>1
    <3>4. (position - 1)' = position /\ frames' = frames
      BY <1>1, <1>4
    <3>5. \A c : (Counting(c, position - 1))' <=> Counting(c, position)
      BY <3>4 DEF Counting
    <3>6. QED
      BY <1>11, <3>3, <3>4, <3>5
  <2>6. AnalyzeInv'
    <3>1. /\ position' <= Len(frames') + 1 /\ records' = <<>> /\ played' = <<>>
          /\ SubSeq(frames', 1, position' - 1) = SubSeq(frames, 1, n + 1)
      BY <1>1, <2>1, <2>2
    <3>2. counted'.display = Len(Playback(SubSeq(frames', 1, position' - 1)))
      BY <2>4, <3>1
    <3> HIDE DEF n
    <3>3. QED
      BY <2>5, <3>1, <3>2 DEF AnalyzeInv
  <2>7. QED
    BY <1>12, <1>13, <1>14, <2>6 DEF AnimationInv
<1>17. QED
  BY <1>2, <1>15, <1>16

\* What is written starts from nothing, as what was counted did.
LEMMA StartKeeps ==
  ASSUME AnimationInv, StartWriting
  PROVE  AnimationInv'
<1>1. /\ pass = "analyze" /\ position > Len(frames) /\ position' = 1 /\ previous' = NoPixels
      /\ UNCHANGED <<inputs, frames, last, counted, records, played, changes>>
      /\ \/ pass' = "done" /\ encoding' = "rejected"
         \/ pass' = "write" /\ UNCHANGED encoding
  BY DEF StartWriting, Ends
<1>2. AnimationTyped /\ AnalyzeInv /\ ArchiveInv /\ encoding = "running"
  BY <1>1 DEF AnimationInv, AnimationTyped
<1>3. AnimationTyped'
  BY <1>1, <1>2 DEF AnimationTyped, inputs
<1>4. Unread' /\ AnalyzeInv' /\ PlaysBack'
  BY <1>1, <1>2 DEF Unread, AnalyzeInv, PlaysBack
<1>5. position' - 1 = 0 /\ 1..position' - 1 = {}
  BY <1>1
<1>6. ArchiveInv'
  <2>1. source' = source /\ archive' = archive /\ frames' = frames
    BY <1>1 DEF inputs
  <2>2. QED
    BY <1>1, <1>2, <1>5, <2>1 DEF ArchiveInv
<1>7. CASE pass' = "write"
  <2>1. /\ position <= Len(frames) + 1 /\ records = <<>> /\ played = <<>>
        /\ counted.display = Len(Playback(SubSeq(frames, 1, position - 1)))
        /\ changes = 0 => \E count : Counting(count, position - 1) /\ count[position - 1] = Analyzed
    BY <1>1, <1>2 DEF AnalyzeInv
  <2>2. frames \in Seq(Frames) /\ Len(frames) \in Nat /\ position - 1 = Len(frames)
    BY <1>1, <1>2, <2>1 DEF AnimationTyped
  <2>3. SubSeq(frames, 1, Len(frames)) = frames
    BY <2>2
  <2>4. counted.display = Len(Playback(frames))
    BY <2>1, <2>2, <2>3
  <2>5. /\ records' = <<>> /\ played' = <<>> /\ frames' = frames /\ counted' = counted
        /\ Len(<<>>) = 0 /\ position' <= Len(frames') + 1
    BY <1>1, <2>1, <2>2
  <2>6. Few(records') /\ Follows(records)'
    BY <1>1, <2>5 DEF Few, Follows
  <2>7. ASSUME changes' = 0
        PROVE  (\E count : /\ Counting(count, Len(frames)) /\ count[Len(frames)].enc = counted.encoded
                           /\ count[position - 1] = Written)'
    <3>1. PICK count : Counting(count, Len(frames)) /\ count[Len(frames)] = Analyzed
      BY <1>1, <2>1, <2>2, <2>7
    <3>2. count[Len(frames)].enc = counted'.encoded
      BY <2>5, <3>1 DEF Analyzed
    <3>3. count[0] = Written'
      BY <1>1, <2>5, <3>1 DEF Counting, Written, LastOf
    <3>4. Counting(count, Len(frames))'
      BY <2>5, <3>1 DEF Counting
    <3>5. QED
      BY <1>5, <2>5, <3>2, <3>3, <3>4
  <2>8. WriteInv'
    <3>1. Len(played') = position' - 1 /\ Playback(records') = Playback(played')
      BY <1>5, <2>5
    <3>2. counted'.display = Len(Playback(frames'))
      BY <2>4, <2>5
    <3>3. QED
      BY <1>5, <2>5, <2>6, <2>7, <3>1, <3>2 DEF WriteInv, Few
  <2>9. QED
    BY <1>3, <1>4, <1>6, <2>8 DEF AnimationInv
<1>8. CASE pass' = "done"
  <2>1. WriteInv'
    BY <1>8 DEF WriteInv
  <2>2. QED
    BY <1>3, <1>4, <1>6, <2>1 DEF AnimationInv
<1>9. QED
  BY <1>1, <1>7, <1>8

\* An image that draws itself differently stays as long as before.
LEMMA ImageKeeps ==
  ASSUME AnimationInv, ImageChanges
  PROVE  AnimationInv'
<1>1. /\ source = "images" /\ pass \in {"analyze", "write"} /\ changes' = changes + 1
      /\ UNCHANGED <<inputs, pass, position, previous, last, counted, records, played, encoding>>
  BY DEF ImageChanges
<1>2. AnimationTyped /\ AnalyzeInv /\ WriteInv /\ encoding = "running"
  BY <1>1 DEF AnimationInv, AnimationTyped
<1>3. PICK i \in DOMAIN frames, p \in Pixels : frames' = [frames EXCEPT ![i].px = p]
  BY DEF ImageChanges
<1>4. /\ frames \in Seq(Frames) /\ Len(frames) \in Nat /\ DOMAIN frames = 1..Len(frames)
      /\ changes \in Nat /\ position \in Nat \ {0}
  BY <1>2 DEF AnimationTyped
<1>5. changes' \in Nat /\ changes' # 0
  BY <1>1, <1>4
<1>6. ASSUME NEW k \in 1..Len(frames)
      PROVE  frames'[k] \in Frames /\ frames'[k].dur = frames[k].dur
  <2>1. frames[k] \in Frames
    BY <1>4
  <2>2. CASE k = i
    <3>1. frames'[k] = [frames[k] EXCEPT !.px = p]
      BY <1>3, <1>4, <2>2
    <3>2. frames'[k].dur = frames[k].dur
      BY <2>1, <3>1 DEF Frames
    <3> DEFINE f == frames[k]
    <3>3. f \in Frames /\ frames'[k] = [f EXCEPT !.px = p]
      BY <2>1, <3>1
    <3> HIDE DEF f
    <3>4. [f EXCEPT !.px = p] \in Frames
      BY <3>3 DEF Frames
    <3>5. QED
      BY <3>2, <3>3, <3>4
  <2>3. CASE k # i
    BY <1>3, <1>4, <2>1, <2>3
  <2>4. QED
    BY <2>2, <2>3
<1>7. frames' \in Seq(Frames) /\ Len(frames') = Len(frames)
  <2>1. frames' = [k \in 1..Len(frames) |-> frames'[k]]
    BY <1>3, <1>4
  <2>2. frames' \in [1..Len(frames) -> Frames]
    BY <1>6, <2>1
  <2>3. QED
    BY <1>4, <2>2
<1>8. AnimationTyped'
  BY <1>1, <1>2, <1>5, <1>7 DEF AnimationTyped, inputs
<1>9. Unread' /\ PlaysBack' /\ ArchiveInv'
  BY <1>1, <1>2 DEF Unread, PlaysBack, ArchiveInv, inputs
<1>10. AnalyzeInv'
  <2>1. SUFFICES ASSUME pass = "analyze" PROVE AnalyzeInv'
    BY <1>1 DEF AnalyzeInv
  <2>2. /\ position <= Len(frames) + 1 /\ records = <<>> /\ played = <<>>
        /\ counted.display = Len(Playback(SubSeq(frames, 1, position - 1)))
    BY <1>2, <2>1 DEF AnalyzeInv
  <2> DEFINE n == position - 1
             seq == SubSeq(frames, 1, n)
             other == SubSeq(frames', 1, n)
  <2>3. n \in 0..Len(frames)
    BY <1>4, <2>2
  <2> HIDE DEF n
  <2>4. /\ seq \in Seq(Frames) /\ Len(seq) = n /\ \A k \in 1..n : seq[k] = frames[k]
        /\ other \in Seq(Frames) /\ Len(other) = n /\ \A k \in 1..n : other[k] = frames'[k]
    BY <1>4, <1>7, <2>3
  <2>5. seq \in Seq(Shown) /\ other \in Seq(Shown)
    BY <2>4, FramesShown
  <2> HIDE DEF seq, other
  <2>6. \A k \in 1..Len(seq) : seq[k].dur = other[k].dur
    BY <1>4, <1>6, <2>3, <2>4
  <2>7. Len(Playback(seq)) = Len(Playback(other))
    BY <2>4, <2>5, <2>6, SameLength
  <2>8. counted'.display = Len(Playback(SubSeq(frames', 1, position' - 1)))
    BY <1>1, <2>2, <2>7 DEF seq, other, n
  <2>9. QED
    BY <1>1, <1>5, <1>7, <2>2, <2>8 DEF AnalyzeInv
<1>11. WriteInv'
  <2>1. SUFFICES ASSUME pass = "write" PROVE WriteInv'
    BY <1>1 DEF WriteInv
  <2>2. /\ position <= Len(frames) + 1 /\ Len(played) = position - 1
        /\ \A k \in 1..position - 1 : played[k].dur = frames[k].dur
        /\ counted.display = Len(Playback(frames))
        /\ Few(records) /\ Follows(records) /\ Playback(records) = Playback(played)
    BY <1>2, <2>1 DEF WriteInv
  <2>3. Len(Playback(frames)) = Len(Playback(frames'))
    <3>1. frames \in Seq(Shown) /\ frames' \in Seq(Shown)
      BY <1>4, <1>7, FramesShown
    <3> DEFINE other == frames'
    <3>2. other \in Seq(Shown) /\ Len(other) = Len(frames) /\ \A k \in 1..Len(frames) : frames[k].dur = other[k].dur
      BY <1>6, <1>7, <3>1
    <3> HIDE DEF other
    <3>3. Len(Playback(frames)) = Len(Playback(other))
      BY <3>1, <3>2, SameLength
    <3>4. QED
      BY <3>3 DEF other
  <2>4. \A k \in 1..position - 1 : played[k].dur = frames'[k].dur
    BY <1>4, <1>6, <2>2
  <2>5. /\ position' <= Len(frames') + 1 /\ Len(played') = position' - 1
        /\ \A k \in 1..position' - 1 : played'[k].dur = frames'[k].dur
        /\ counted'.display = Len(Playback(frames'))
    BY <1>1, <1>7, <2>2, <2>3, <2>4
  <2>6. Few(records)' /\ Follows(records)' /\ (Playback(records) = Playback(played))'
    BY <1>1, <2>2 DEF Few, Follows
  <2>7. QED
    BY <1>5, <2>5, <2>6 DEF WriteInv
<1>12. QED
  BY <1>8, <1>9, <1>10, <1>11 DEF AnimationInv

\* What is written continues what was written, and is as many records as were counted
\* as long as no image changes.
LEMMA WriteKeeps ==
  ASSUME AnimationInv, WriteFrame
  PROVE  AnimationInv'
<1> DEFINE frame == frames[position]
           new == New(frame, LastOf(records))
           longer == Longer(records, frame)
<1>1. /\ pass = "write" /\ position <= Len(frames) /\ position' = position + 1
      /\ records' = longer /\ previous' = frame.px /\ played' = Append(played, frame)
      /\ UNCHANGED <<inputs, frames, last, counted, changes>>
      /\ \/ Len(records) + Len(new) <= counted.encoded /\ UNCHANGED <<encoding, pass>>
         \/ /\ ~(Len(records) + Len(new) <= counted.encoded)
            /\ encoding' = "changed" /\ pass' = "done"
  BY DEF WriteFrame, Goes, Ends, Longer, Grown, LastOf
<1>2. AnimationTyped /\ WriteInv /\ ArchiveInv /\ encoding = "running"
  BY <1>1 DEF AnimationInv, AnimationTyped
<1>3. /\ frames \in Seq(Frames) /\ Len(frames) \in Nat /\ position \in Nat \ {0}
      /\ records \in Seq(Recs) /\ played \in Seq(Frames) /\ changes \in Nat
      /\ counted \in [encoded : Nat, display : Nat]
  BY <1>2 DEF AnimationTyped
<1>4. /\ Len(played) = position - 1 /\ \A i \in 1..position - 1 : played[i].dur = frames[i].dur
      /\ counted.display = Len(Playback(frames))
      /\ Few(records) /\ Follows(records) /\ Playback(records) = Playback(played)
      /\ changes = 0 =>
           \E count : /\ Counting(count, Len(frames)) /\ count[Len(frames)].enc = counted.encoded
                      /\ count[position - 1] = Written
  BY <1>1, <1>2 DEF WriteInv
<1>5. frame \in Frames /\ frame \in Shown /\ position \in 1..Len(frames)
  BY <1>1, <1>3 DEF Shown
<1> HIDE DEF frame, longer
<1>6. Writes(records, frame, longer)
  BY <1>3, <1>4, <1>5, WriteOne DEF longer
<1>7. /\ longer \in Seq(Recs) /\ longer # <<>> /\ longer[Len(longer)].px = frame.px /\ Few(longer)
      /\ Playback(longer) = Playback(records) \o Stays(frame.px, effectiveDuration(frame.dur))
      /\ Len(longer) = Len(records) + Len(new)
      /\ LastOf(longer) = IF new = <<>> THEN LastOf(records) + Added(frame, LastOf(records))
                          ELSE new[Len(new)]
  BY <1>6 DEF Writes
<1> HIDE DEF new
<1>8. played' \in Seq(Frames) /\ Len(played') = position /\ played'[position] = frame
      /\ \A i \in 1..position - 1 : played'[i] = played[i]
  BY <1>1, <1>3, <1>4, <1>5
<1>9. Playback(records') = Playback(played')
  <2>1. played \in Seq(Shown)
    BY <1>3, FramesShown
  <2>2. Playback(Append(played, frame)) =
          Playback(played) \o Stays(frame.px, effectiveDuration(frame.dur))
    BY <1>5, <2>1, PlaysOnSeq
  <2>3. QED
    BY <1>1, <1>4, <1>7, <2>2
<1>10. ASSUME changes = 0
       PROVE  /\ Len(records) + Len(new) <= counted.encoded
              /\ \E count : /\ Counting(count, Len(frames)) /\ count[Len(frames)].enc = counted.encoded
                            /\ count[position] = Written'
  <2>1. PICK count : /\ Counting(count, Len(frames)) /\ count[Len(frames)].enc = counted.encoded
                     /\ count[position - 1] = Written
    BY <1>4, <1>10
  <2> DEFINE next == CountOne(Written, frame)
  <2>2. /\ Written.prev = previous /\ Written.last = LastOf(records) /\ Written.enc = Len(records)
        /\ Len(records) \in Nat /\ LastOf(records) \in 0..MaxByteValue
    <3>1. Len(records) \in Nat /\ (records # <<>> => records[Len(records)] \in Recs)
      BY <1>3
    <3>2. LastOf(records) \in 0..MaxByteValue
      BY <3>1, AnimationAssumption DEF LastOf, Recs
    <3>3. QED
      BY <3>1, <3>2 DEF Written
  <2>3. next = [prev |-> frame.px,
                last |-> IF new = <<>> THEN LastOf(records) + Added(frame, LastOf(records))
                         ELSE new[Len(new)],
                enc |-> Len(records) + Len(new)]
    <3> DEFINE c == Written
    <3>1. c.prev = previous /\ c.last \in 0..MaxByteValue /\ c.enc \in Nat
      BY <2>2
    <3> HIDE DEF c
    <3>2. CountOne(c, frame) = [prev |-> frame.px,
              last |-> IF New(frame, c.last) = <<>> THEN c.last + Added(frame, c.last)
                       ELSE New(frame, c.last)[Len(New(frame, c.last))],
              enc |-> c.enc + Len(New(frame, c.last))]
      BY <1>5, <3>1, OneCounted
    <3>3. c.last = LastOf(records) /\ c.enc = Len(records)
      BY <2>2 DEF c
    <3>4. QED
      BY <3>2, <3>3 DEF c, new
  <2>4. next = Written'
    BY <1>1, <1>7, <2>3 DEF Written
  <2>5. count[position] = next /\ position \in 0..Len(frames) /\ Len(frames) \in 0..Len(frames)
        /\ position <= Len(frames)
    <3>1. count[position] = CountOne(count[position - 1], frames[position])
      BY <1>5, <2>1 DEF Counting
    <3>2. QED
      BY <1>3, <1>5, <2>1, <3>1 DEF frame
  <2>6. count[position].enc <= counted.encoded
    BY <2>1, <2>5 DEF Counting
  <2>7. next.enc = Len(records) + Len(new)
    BY <2>3
  <2>8. Len(records) + Len(new) <= counted.encoded
    BY <2>5, <2>6, <2>7
  <2>9. count[position] = Written'
    BY <2>4, <2>5
  <2>10. QED
    BY <2>1, <2>8, <2>9
<1>11. AnimationTyped'
  BY <1>1, <1>2, <1>7, <1>8 DEF AnimationTyped, inputs
<1>12. Unread' /\ AnalyzeInv'
  BY <1>1 DEF Unread, AnalyzeInv
<1>13. PlaysBack'
  <2>1. encoding' # "ok"
    BY <1>1, <1>2
  <2>2. encoding' = "changed" => changes' > 0
    BY <1>1, <1>2, <1>3, <1>10
  <2>3. QED
    BY <2>1, <2>2 DEF PlaysBack
<1>14. ArchiveInv'
  <2>1. SUFFICES ASSUME source = "zip", pass' = "write" PROVE ArchiveInv'
    BY <1>1 DEF ArchiveInv, inputs
  <2>2. /\ \A i \in 1..Len(frames) : frames[i].dur = 0
        /\ \A e \in ToSet(archive) : e.name = "frame" =>
             e.index \in Nat /\ e.index + 1 \in 1..Len(frames) /\ frames[e.index + 1].px = e.px
        /\ \A i \in 1..position - 1 : played[i] = frames[i]
    BY <1>1, <1>2, <2>1 DEF ArchiveInv
  <2>3. ASSUME NEW i \in 1..position PROVE played'[i] = frames[i]
    <3>1. CASE i = position
      BY <1>8, <3>1 DEF frame
    <3>2. CASE i # position
      BY <1>3, <1>8, <2>2, <3>2
    <3>3. QED
      BY <3>1, <3>2
  <2>4. frames' = frames /\ archive' = archive /\ position' - 1 = position
    BY <1>1, <1>3 DEF inputs
  <2>5. QED
    BY <2>2, <2>3, <2>4 DEF ArchiveInv
<1>15. WriteInv'
  <2>1. position' - 1 = position /\ position' <= Len(frames) + 1 /\ frames' = frames /\ counted' = counted
        /\ changes' = changes
    BY <1>1, <1>3
  <2>2. ASSUME NEW i \in 1..position PROVE played'[i].dur = frames[i].dur
    <3>1. CASE i = position
      BY <1>8, <3>1 DEF frame
    <3>2. CASE i # position
      BY <1>3, <1>4, <1>8, <3>2
    <3>3. QED
      BY <3>1, <3>2
  <2>3. Follows(records)' /\ Few(records)'
    BY <1>1, <1>7 DEF Follows, Few
  <2>4. ASSUME changes' = 0
        PROVE  (\E count : /\ Counting(count, Len(frames)) /\ count[Len(frames)].enc = counted.encoded
                           /\ count[position - 1] = Written)'
    <3>1. PICK count : /\ Counting(count, Len(frames)) /\ count[Len(frames)].enc = counted.encoded
                       /\ count[position] = Written'
      BY <1>10, <2>1, <2>4
    <3>2. Counting(count, Len(frames))'
      BY <2>1, <3>1 DEF Counting
    <3>3. QED
      BY <2>1, <3>1, <3>2
  <2>5. /\ Len(played') = position' - 1
        /\ \A i \in 1..position' - 1 : played'[i].dur = frames'[i].dur
        /\ counted'.display = Len(Playback(frames'))
    BY <1>4, <1>8, <2>1, <2>2
  <2>6. (Playback(records) = Playback(played))'
    BY <1>9
  <2>7. QED
    BY <2>1, <2>3, <2>4, <2>5, <2>6 DEF WriteInv
<1>16. QED
  BY <1>11, <1>12, <1>13, <1>14, <1>15 DEF AnimationInv

\* An archive or images that did not change were written as they were counted.
LEMMA EndKeeps ==
  ASSUME AnimationInv, EndWriting
  PROVE  AnimationInv'
<1>1. /\ pass = "write" /\ position > Len(frames) /\ pass' = "done"
      /\ UNCHANGED <<inputs, frames, position, previous, last, counted, records, played, changes>>
      /\ \/ encoding' = "ok" /\ Len(records) = counted.encoded
         \/ encoding' = "changed" /\ Len(records) # counted.encoded
  BY DEF EndWriting, Ends
<1>2. AnimationTyped /\ WriteInv /\ ArchiveInv
  BY DEF AnimationInv
<1>3. /\ frames \in Seq(Frames) /\ Len(frames) \in Nat /\ position \in Nat \ {0}
      /\ records \in Seq(Recs) /\ played \in Seq(Frames) /\ changes \in Nat
  BY <1>2 DEF AnimationTyped
<1>4. /\ position <= Len(frames) + 1 /\ Len(played) = position - 1
      /\ \A i \in 1..position - 1 : played[i].dur = frames[i].dur
      /\ counted.display = Len(Playback(frames))
      /\ Few(records) /\ Playback(records) = Playback(played)
      /\ changes = 0 =>
           \E count : /\ Counting(count, Len(frames)) /\ count[Len(frames)].enc = counted.encoded
                      /\ count[position - 1] = Written
  BY <1>1, <1>2 DEF WriteInv
<1>5. position - 1 = Len(frames)
  BY <1>1, <1>3, <1>4
<1>6. played \in Seq(Shown) /\ frames \in Seq(Shown)
  BY <1>3, FramesShown
<1>7. changes = 0 => Len(records) = counted.encoded
  BY <1>4, <1>5 DEF Written
<1>8. Len(Playback(records)) = counted.display
  <2>1. Len(Playback(played)) = Len(Playback(frames))
    BY <1>4, <1>5, <1>6, SameLength
  <2>2. QED
    BY <1>4, <2>1
<1>9. ASSUME NEW i \in DOMAIN records PROVE records[i].dur \in 1..MaxByteValue
  <2>1. records[i] \in Recs
    BY <1>3
  <2>2. QED
    BY <2>1 DEF Recs
<1>10. ASSUME source = "zip", NEW e \in ToSet(archive), e.name = "frame"
       PROVE  Playback(records)[e.index + 1] = e.px
  <2>1. /\ \A i \in 1..Len(frames) : frames[i].dur = 0 /\ played[i] = frames[i]
        /\ e.index \in Nat /\ e.index + 1 \in 1..Len(frames) /\ frames[e.index + 1].px = e.px
    BY <1>1, <1>2, <1>5, <1>10 DEF ArchiveInv
  <2>2. \A i \in 1..Len(played) : played[i].dur = 0
    BY <1>4, <1>5, <2>1
  <2>3. Playback(played)[e.index + 1] = played[e.index + 1].px
    BY <1>4, <1>5, <1>6, <2>1, <2>2, PlaysOnes
  <2>4. QED
    BY <1>4, <2>1, <2>3
<1>11. AnimationTyped'
  BY <1>1, <1>2 DEF AnimationTyped, inputs
<1>12. Unread' /\ AnalyzeInv' /\ WriteInv' /\ ArchiveInv'
  BY <1>1 DEF Unread, AnalyzeInv, WriteInv, ArchiveInv
<1>13. PlaysBack'
  <2>1. encoding' = "changed" => changes' > 0
    BY <1>1, <1>3, <1>7
  <2>2. source' = source /\ archive' = archive
    BY <1>1 DEF inputs
  <2>3. ASSUME encoding' = "ok"
        PROVE  (/\ Playback(records) = Playback(played)
                /\ Len(records) = counted.encoded /\ Len(Playback(records)) = counted.display
                /\ \A i \in DOMAIN records : records[i].dur \in 1..MaxByteValue
                /\ \A i \in 1..Len(records) - 1 :
                     records[i].px = records[i + 1].px => records[i].dur = MaxByteValue
                /\ source = "zip" =>
                     \A e \in ToSet(archive) : e.name = "frame" => Playback(records)[e.index + 1] = e.px)'
    <3>1. Len(records) = counted.encoded
      BY <1>1, <2>3
    <3>2. /\ (Playback(records) = Playback(played))'
          /\ (Len(records) = counted.encoded /\ Len(Playback(records)) = counted.display)'
      BY <1>1, <1>4, <1>8, <3>1
    <3>3. (\A i \in DOMAIN records : records[i].dur \in 1..MaxByteValue)'
      BY <1>1, <1>9
    <3>4. (\A i \in 1..Len(records) - 1 :
             records[i].px = records[i + 1].px => records[i].dur = MaxByteValue)'
      BY <1>1, <1>4 DEF Few
    <3>5. (source = "zip" =>
             \A e \in ToSet(archive) : e.name = "frame" => Playback(records)[e.index + 1] = e.px)'
      BY <1>1, <1>10, <2>2
    <3>6. QED
      BY <3>2, <3>3, <3>4, <3>5
  <2>4. QED
    BY <2>1, <2>3 DEF PlaysBack
<1>14. QED
  BY <1>11, <1>12, <1>13 DEF AnimationInv

\* Every action keeps the invariant.
LEMMA AnimationStep ==
  ASSUME AnimationInv, AnimationNext \/ UNCHANGED animationVars
  PROVE  AnimationInv'
<1>1. CASE UNCHANGED animationVars
  <2>1. /\ UNCHANGED <<source, archive, frames, pass, position, previous, last, counted, records,
                       played, changes, encoding>>
    BY <1>1 DEF animationVars
  <2>2. AnimationTyped' /\ Unread' /\ ArchiveInv' /\ PlaysBack'
    BY <2>1 DEF AnimationInv, AnimationTyped, Unread, ArchiveInv, PlaysBack
  <2>3. Analyzed' = Analyzed /\ Written' = Written
    BY <2>1 DEF Analyzed, Written, LastOf
  <2>4. AnalyzeInv'
    BY <2>1, <2>3 DEF AnimationInv, AnalyzeInv, Counting
  <2>5. WriteInv'
    BY <2>1, <2>3 DEF AnimationInv, WriteInv, Counting, Few, Follows
  <2>6. QED
    BY <2>2, <2>4, <2>5 DEF AnimationInv
<1>2. QED
  BY <1>1, ValidateKeeps, ReadArchiveKeeps, AnalyzeKeeps, StartKeeps, WriteKeeps, EndKeeps, ImageKeeps
     DEF AnimationNext

\* The invariant implies the property.
LEMMA AnimationGoal == AnimationInv => PlaysBack
BY DEF AnimationInv

-----------------------------------------------------------------------------
\* Behaviours of Parts: one part is at work and the others rest.

\* Every state a behaviour starts in satisfies the invariants.
LEMMA Initially ==
  Init => /\ RequestInv /\ BusyInv /\ AudioInv /\ ClientInv /\ DeliveryInv /\ ContractInv
          /\ ImageInv /\ FrameInv /\ AnimationInv
<1>1. Init => /\ RequestInit \/ RequestIdle
              /\ BusyInit \/ BusyIdle
              /\ AudioInit \/ AudioIdle
              /\ ClientInit \/ ClientIdle
              /\ DeliveryInit \/ DeliveryIdle
              /\ ContractInit \/ ContractIdle
              /\ ImageInit \/ ImageIdle
              /\ FrameInit \/ FrameIdle
              /\ AnimationInit \/ AnimationIdle
  BY DEF Init, CallsIdle
<1>2. QED
  BY <1>1, RequestInits, BusyInits, AudioInits, ClientInits, DeliveryInits,
     ContractInits, ImageInits, FrameInits, AnimationInits

\* A step is one part's, and leaves the others' variables alone.
LEMMA OnePartAtATime ==
  ASSUME [Next]_vars
  PROVE  /\ RequestNext \/ UNCHANGED requestVars
         /\ BusyNext \/ UNCHANGED busyVars
         /\ AudioNext \/ UNCHANGED audioVars
         /\ ClientNext \/ UNCHANGED clientVars
         /\ DeliveryNext \/ UNCHANGED deliveryVars
         /\ ContractNext \/ UNCHANGED contractVars
         /\ ImageNext \/ UNCHANGED imageVars
         /\ FrameNext \/ UNCHANGED frameVars
         /\ AnimationNext \/ UNCHANGED animationVars
BY DEF Next, CallNext, vars, callVars

\* Whatever text a path is given as, what a remote client may not call does not leave it
\* as the firmware spells it, with or without one slash at its end; credentials are the
\* client's, and a success has sent and reported the body that was measured (Prepare,
\* canonicalAPIPath, IsRemoteBlockedOperation, sendOnce, readAndCloseResponseBody).
THEOREM RequestsSentAsPrepared == Spec => []SentAsPrepared
<1>1. RequestInv /\ [Next]_vars => RequestInv'
  BY RequestStep, OnePartAtATime
<1>2. QED
  BY <1>1, Initially, RequestGoal, PTL DEF Spec

\* A snapshot the Busy service returned is accepted when it is set again, unless the
\* application changed it (validateBusySnapshot, validateBusyInterval).
THEOREM SnapshotsReturn == Spec => []SnapshotReturns
<1>1. BusyInv /\ [Next]_vars => BusyInv'
  BY BusyStep, OnePartAtATime
<1>2. QED
  BY <1>1, Initially, BusyGoal, PTL DEF Spec

\* A conversion that succeeds returns all the tool wrote, and leaves nothing running
\* (command.Run).
THEOREM AudioComplete == Spec => []ResultIsComplete
<1>1. AudioInv /\ [Next]_vars => AudioInv'
  BY AudioStep, OnePartAtATime
<1>2. AudioInv => ResultIsComplete
  BY DEF AudioInv
<1>3. QED
  BY <1>1, <1>2, Initially, PTL DEF Spec

\* What is held belongs to the active stream, and once a caller of Close is back the
\* client holds nothing and no request runs (remote/client.go:91-132).
THEOREM ClosedClientOwnsNothing == Spec => []ClosedOwnsNothing
<1>1. ClientInv /\ [Next]_vars => ClientInv'
  BY ClientStep, OnePartAtATime
<1>2. QED
  BY <1>1, Initially, ClientGoal, PTL DEF Spec

\* A subscription that has not failed has, with its consumer, in its buffer or on the
\* way, every packet routed to it, in order; one that has failed got a beginning of
\* them and leaves the list (deliver, fail, Close).
THEOREM DeliveryHasNoGap == Spec => []NoGap
<1>1. DeliveryInv /\ [Next]_vars => DeliveryInv'
  BY DeliveryStep, OnePartAtATime
<1>2. QED
  BY <1>1, Initially, DeliveryGoal, PTL DEF Spec

\* A match is told of files that each have what the client was written for, in contents
\* the tag named; a drift is told of a failed git call or of contents that disagree:
\* however the receipt and the revisions differ, and however often the tag moves
\* (LoadContractFile, newTaggedFirmwareSource, readFile, checkFirmware).
THEOREM VerdictsAreTrue == Spec => []VerdictIsTrue
<1>1. ContractInv /\ [Next]_vars => ContractInv'
  BY ContractStep, OnePartAtATime
<1>2. QED
  BY <1>1, Initially, ContractGoal, PTL DEF Spec

\* An image that succeeds fills the display as far as it reaches, cut from its middle
\* and sampled from inside the source, whatever its sides and the rounding; one over a
\* limit, or a GIF with two images, has no result (Image, resizeAndCrop, gifFrameCount).
THEOREM ImagesFillDisplay == Spec => []FillsDisplay
<1>1. ImageInv /\ [Next]_vars => ImageInv'
  BY ImageStep, OnePartAtATime
<1>2. QED
  BY <1>1, Initially, ImageGoal, PTL DEF Spec

\* Decoding undoes the firmware's encoding, however many runs there are: what it returns is
\* what the runs of the payload stand for, which is every pixel RGBA reads and no byte more;
\* a whole payload is not refused (decodeRLE, pixelDataSize, RGBA).
THEOREM FramesDecodeExactly == Spec => []DecodesExactly
<1>1. FrameInv /\ [Next]_vars => FrameInv'
  BY FrameStep, OnePartAtATime
<1>2. QED
  BY <1>1, Initially, FrameGoal, PTL DEF Spec

\* An encoded animation plays exactly the frames written, as long as its header says and
\* in as few records as a byte of duration allows, for animations of every length; the two
\* readings of the frames disagree only when an image changed between them (analyzeFrames,
\* writeFrames, EncodeImages, ConvertZIP).
THEOREM AnimationsPlayBack == Spec => []PlaysBack
<1>1. AnimationInv /\ [Next]_vars => AnimationInv'
  BY AnimationStep, OnePartAtATime
<1>2. QED
  BY <1>1, Initially, AnimationGoal, PTL DEF Spec
=============================================================================
