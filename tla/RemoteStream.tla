---------------------------- MODULE RemoteStream ----------------------------
(***************************************************************************)
(* remote/stream.go: the status stream over MQTT.  The device streams while*)
(* it holds a lease, which a start publication grants or renews and a stop *)
(* publication ends.  One goroutine drives the stream (the caller inside   *)
(* Start, then run); every subscription has a receive goroutine that hands *)
(* its messages over in a channel of capacity one; callers of Stop, the    *)
(* consumer, the transport and the caller's context act around them.       *)
(***************************************************************************)
EXTENDS StreamState

CONSTANTS
  Sub,          \* identities of subscriptions (bounds reconnections)
  Stopper,      \* callers of Stop
  NoSub,        \* nil
  MaxAttempts   \* ReconnectPolicy.MaxAttempts
ASSUME AttemptsAssumption == MaxAttempts \in Nat \ {0}
ASSUME SubAssumption == NoSub \notin Sub

VARIABLES
  pc,         \* control state of the driving goroutine
  phase,      \* lifecycle shown while connecting: "connecting" or "reconnecting"
  attempt,    \* attempt number of connectWithRetry
  here,       \* the subscription in hand
  result,     \* what readSubscription returned, then what to finish with
  activated,  \* s.activated
  unclean,    \* s.stopErr or s.closeErr is set
  active,     \* the client's active stream is this one
  cancelled,  \* runCtx is done: Stop, or the context given to Start
  sub,        \* state of each subscription
  rcv,        \* control state of each receive goroutine
  passed,     \* content of its channel: a result, and the subscription it is of
  heard,      \* the subscription the last device state came over (history)
  stop,       \* control state of each Stop call
  leased      \* the device is streaming for this session

driver == <<pc, phase, attempt, here, result>>
ending == <<activated, unclean, active>>
subs   == <<sub, rcv, passed>>
vars   == <<stateVars, driver, ending, subs, heard, stop, cancelled, leased>>

Empty == [kind |-> "empty", from |-> NoSub]

\* NewStatusStream has made the stream the client's active one.
Init ==
  /\ StateInit
  /\ pc = "idle" /\ phase = "connecting" /\ attempt = 0 /\ here = NoSub /\ result = "nil"
  /\ activated = FALSE /\ unclean = FALSE /\ active = TRUE /\ cancelled = FALSE
  /\ sub = [c \in Sub |-> "none"] /\ rcv = [c \in Sub |-> "none"]
  /\ passed = [c \in Sub |-> Empty] /\ heard = NoSub
  /\ stop = [p \in Stopper |-> "idle"] /\ leased = FALSE

At(from, to) == pc = from /\ pc' = to
Others == UNCHANGED <<stop, cancelled>>

-----------------------------------------------------------------------------
(* Start and connectWithRetry.                                             *)

Start ==
  /\ At("idle", "begun") /\ Claim
  /\ UNCHANGED <<phase, attempt, here, result, ending, subs, heard, leased>> /\ Others

ShowConnecting ==
  /\ At("begun", "attempt")
  /\ SetStatus([status EXCEPT !.life = "connecting", !.access = "unknown", !.data = "waiting"])
  /\ attempt' = 1 /\ phase' = "connecting"
  /\ UNCHANGED <<here, result, ending, subs, heard, leased>> /\ Others

Attempt ==
  /\ At("attempt", "subscribe")
  /\ SetStatus([status EXCEPT !.life = phase, !.access = "unknown"])
  /\ UNCHANGED <<phase, attempt, here, result, ending, subs, heard, leased>> /\ Others

Subscribe ==
  /\ pc = "subscribe"
  /\ \/ /\ pc' = "publish"
        /\ \E c \in Sub : sub[c] = "none" /\ sub' = [sub EXCEPT ![c] = "open"] /\ here' = c
     \/ pc' = "failed" /\ UNCHANGED <<sub, here>>
  /\ UNCHANGED <<stateVars, phase, attempt, result, ending, rcv, passed, heard, leased>> /\ Others

\* A start publication: one that failed may have been carried out all the same.
Publish(ok) == IF ok THEN leased' = TRUE ELSE leased' \in {leased, TRUE}

PublishStart ==
  /\ \/ At("publish", "show") /\ Publish(TRUE)
     \/ At("publish", "unsubscribe") /\ Publish(FALSE)
  /\ UNCHANGED <<stateVars, phase, attempt, here, result, ending, subs, heard>> /\ Others

AttemptLeaks ==
  /\ At("unsubscribe", "failed") /\ here' = NoSub
  /\ UNCHANGED <<stateVars, phase, attempt, result, ending, subs, heard, leased>> /\ Others
\* The start failed: the subscription made for it is closed.
Unsubscribe ==
  /\ At("unsubscribe", "failed")
  /\ sub' = [sub EXCEPT ![here] = "closed"] /\ here' = NoSub
  /\ UNCHANGED <<stateVars, phase, attempt, result, ending, rcv, passed, heard, leased>>
  /\ Others

ShowConnected ==
  /\ pc = "show"
  /\ pc' = IF phase = "connecting" THEN "activate" ELSE "listen"
  /\ SetStatus([status EXCEPT !.life = "connected", !.access = "accepted",
                              !.data = IF status.seen THEN "stale" ELSE "waiting"])
  /\ UNCHANGED <<phase, attempt, here, result, ending, subs, heard, leased>> /\ Others

NeverActivate ==
  /\ At("activate", "listen")
  /\ UNCHANGED <<stateVars, phase, attempt, here, result, ending, subs, heard, leased>>
  /\ Others
\* Start's last step, before run.
Activate ==
  /\ At("activate", "listen") /\ activated' = TRUE
  /\ UNCHANGED <<stateVars, phase, attempt, here, result, unclean, active>>
  /\ UNCHANGED <<subs, heard, leased>> /\ Others

Failed ==
  /\ pc = "failed"
  /\ pc' = IF cancelled \/ attempt = MaxAttempts THEN "giveup" ELSE "delay"
  /\ UNCHANGED <<stateVars, phase, attempt, here, result, ending, subs, heard, leased>>
  /\ Others
Delay ==
  /\ \/ At("delay", "attempt") /\ attempt' = attempt + 1
     \/ At("delay", "giveup") /\ cancelled /\ UNCHANGED attempt
  /\ UNCHANGED <<stateVars, phase, here, result, ending, subs, heard, leased>> /\ Others

\* Start finishes with the context's error, run with nil, when the context ended.
GiveUp ==
  /\ At("giveup", "finish")
  /\ result' = IF ~cancelled THEN "connect" ELSE IF phase = "connecting" THEN "ctx" ELSE "nil"
  /\ UNCHANGED <<stateVars, phase, attempt, here, ending, subs, heard, leased>> /\ Others

-----------------------------------------------------------------------------
(* readSubscription: the select loop, then run.                            *)

\* It starts the receive goroutine of the subscription.
Listen ==
  /\ At("listen", "read") /\ rcv' = [rcv EXCEPT ![here] = "receiving"]
  /\ UNCHANGED <<stateVars, phase, attempt, here, result, ending, sub, passed, heard, leased>>
  /\ Others

ContextCase ==
  /\ At("read", "close") /\ cancelled /\ result' = "read"
  /\ UNCHANGED <<stateVars, phase, attempt, here, ending, subs, heard, leased>> /\ Others
RenewCase ==
  /\ \/ pc = "read" /\ UNCHANGED <<pc, result>> /\ Publish(TRUE)
     \/ At("read", "close") /\ result' = "read" /\ Publish(FALSE)
  /\ UNCHANGED <<stateVars, phase, attempt, here, ending, subs, heard>> /\ Others
StaleCase ==
  /\ pc = "read" /\ status.life = "connected" /\ status.data # "stale"
  /\ SetStatus([status EXCEPT !.data = "stale"])
  /\ UNCHANGED <<driver, ending, subs, heard, leased>> /\ Others

\* The receive goroutine's result: an error ends the read; a message for another
\* topic is skipped, an oversized one is terminal, the others are decoded (a
\* state, a fatal device error with it, or neither).  Every read has a channel of
\* its own; were there one for all of them, ReceivedFromAny would be what it does.
Received(c) ==
  /\ pc = "read" /\ passed[c].kind # "empty"
  /\ passed' = [passed EXCEPT ![c] = Empty]
  /\ \/ passed[c].kind = "error" /\ pc' = "close" /\ result' = "read" /\ UNCHANGED heard
     \/ passed[c].kind = "message" /\ pc' = "close" /\ result' = "oversize" /\ UNCHANGED heard
     \/ /\ passed[c].kind = "message" /\ UNCHANGED result
        /\ \/ pc' \in {"read", "deliver", "deliverFatal"} /\ UNCHANGED heard
           \/ pc' \in {"state", "fatal"} /\ heard' = passed[c].from
  /\ UNCHANGED <<stateVars, phase, attempt, here, ending, sub, rcv, leased>> /\ Others
ReceivedFromAny == \E c \in Sub : Received(c)
ReceivedCase == Received(here)

MarkFresh ==
  /\ At("state", "deliver") \/ At("fatal", "deliverFatal")
  /\ SetStatus([status EXCEPT !.data = "fresh", !.seen = TRUE])
  /\ UNCHANGED <<phase, attempt, here, result, ending, subs, heard, leased>> /\ Others

DeliverDrops ==
  /\ \/ /\ Enqueue
        /\ \/ At("deliver", "read") /\ UNCHANGED result
           \/ At("deliverFatal", "close") /\ result' = "device"
     \/ /\ pc \in {"deliver", "deliverFatal"} /\ pc' = "read"
        /\ Refuse /\ UNCHANGED result
  /\ UNCHANGED <<phase, attempt, here, ending, subs, heard, leased>> /\ Others
Deliver ==
  /\ \/ /\ Enqueue
        /\ \/ At("deliver", "read") /\ UNCHANGED result
           \/ At("deliverFatal", "close") /\ result' = "device"
     \/ /\ pc \in {"deliver", "deliverFatal"} /\ pc' = "close"
        /\ \/ Refuse /\ ~cancelled /\ result' = "deliver"
           \/ cancelled /\ UNCHANGED stateVars /\ result' = "read"
  /\ UNCHANGED <<phase, attempt, here, ending, subs, heard, leased>> /\ Others

\* run closes the subscription, whose Close may report an error.
CloseSubscription ==
  /\ At("close", "verdict")
  /\ sub' = [sub EXCEPT ![here] = "closed"] /\ unclean' \in {unclean, TRUE}
  /\ UNCHANGED <<stateVars, phase, attempt, here, result, activated, active>>
  /\ UNCHANGED <<rcv, passed, heard, leased>> /\ Others

Verdict ==
  /\ pc = "verdict"
  /\ \/ /\ cancelled \/ result # "read"
        /\ pc' = "finish" /\ result' = IF cancelled THEN "nil" ELSE result
        /\ UNCHANGED <<stateVars, attempt, phase, here>>
     \/ /\ ~cancelled /\ result = "read" /\ pc' = "attempt" /\ here' = NoSub
        /\ SetStatus([status EXCEPT !.life = "reconnecting", !.access = "unknown",
                                    !.data = IF status.seen THEN "stale" ELSE "waiting"])
        /\ attempt' = 1 /\ phase' = "reconnecting" /\ UNCHANGED result
  /\ UNCHANGED <<ending, subs, heard, leased>> /\ Others

-----------------------------------------------------------------------------
(* finish: the cleanup of State.Finish, then the end.                      *)

\* publishStop, only for a stream that was activated; it may fail before or
\* after the device has seen it.
PublishStop ==
  /\ At("finish", "release")
  /\ \/ ~activated /\ UNCHANGED <<unclean, leased>>
     \/ activated /\ leased' = FALSE /\ UNCHANGED unclean
     \/ activated /\ leased' \in {leased, FALSE} /\ unclean' = TRUE
  /\ UNCHANGED <<stateVars, phase, attempt, here, result, activated, active>>
  /\ UNCHANGED <<subs, heard>> /\ Others
Release ==
  /\ At("release", "finish2") /\ active' = FALSE
  /\ UNCHANGED <<stateVars, phase, attempt, here, result, activated, unclean>>
  /\ UNCHANGED <<subs, heard, leased>> /\ Others
FinishStream ==
  /\ At("finish2", "done")
  /\ Finish(IF result = "nil" /\ unclean THEN "cleanup" ELSE result)
  /\ UNCHANGED <<phase, attempt, here, result, ending, subs, heard, leased>> /\ Others

-----------------------------------------------------------------------------
(* The receive goroutine of subscription c.                                *)

RcvMoves(c, from, to) == rcv[c] = from /\ rcv' = [rcv EXCEPT ![c] = to]
RcvElse == UNCHANGED <<stateVars, driver, ending, heard, leased>> /\ Others

ReceiveMessage(c) ==
  /\ sub[c] = "open" /\ RcvMoves(c, "receiving", "message")
  /\ UNCHANGED <<sub, passed>> /\ RcvElse
ReceiveError(c) ==
  /\ sub[c] # "open" \/ cancelled
  /\ RcvMoves(c, "receiving", "error")
  /\ UNCHANGED <<sub, passed>> /\ RcvElse
\* Hand the result over, or leave because the context is over.
Pass(c) ==
  /\ \/ /\ passed[c] = Empty /\ passed' = [passed EXCEPT ![c] = [kind |-> rcv[c], from |-> c]]
        /\ RcvMoves(c, "message", "receiving") \/ RcvMoves(c, "error", "ended")
     \/ /\ cancelled /\ UNCHANGED passed
        /\ RcvMoves(c, "message", "ended") \/ RcvMoves(c, "error", "ended")
  /\ UNCHANGED sub /\ RcvElse

-----------------------------------------------------------------------------
(* Everyone else.                                                          *)

StopElse == UNCHANGED <<driver, activated, unclean, subs, heard, leased>>

Stop(p) ==
  /\ stop[p] = "idle"
  /\ \/ Claim /\ stop' = [stop EXCEPT ![p] = "claimed"] /\ UNCHANGED cancelled
     \/ /\ started /\ stop' = [stop EXCEPT ![p] = "waiting"]
        /\ cancelled' = (cancelled \/ pc # "idle") /\ UNCHANGED stateVars
  /\ UNCHANGED active /\ StopElse
StopFinishes(p) ==
  /\ \/ /\ stop[p] = "claimed" /\ active /\ active' = FALSE /\ UNCHANGED <<stateVars, stop>>
     \/ /\ stop[p] = "claimed" /\ ~active /\ stop' = [stop EXCEPT ![p] = "waiting"]
        /\ Finish("nil") /\ UNCHANGED active
  /\ UNCHANGED cancelled /\ StopElse
StopReturns(p) ==
  /\ stop[p] = "waiting" /\ finished /\ stop' = [stop EXCEPT ![p] = "returned"]
  /\ UNCHANGED <<stateVars, active, cancelled>> /\ StopElse

ContextEnds ==
  /\ pc # "idle" /\ ~finished /\ ~cancelled /\ cancelled' = TRUE
  /\ UNCHANGED <<stateVars, stop, active>> /\ StopElse
TransportEnds(c) ==
  /\ sub[c] = "open" /\ sub' = [sub EXCEPT ![c] = "broken"]
  /\ UNCHANGED <<rcv, passed>> /\ RcvElse
LeaseExpires ==
  /\ leased /\ leased' = FALSE
  /\ UNCHANGED <<stateVars, driver, ending, subs, heard>> /\ Others
Receive == Consume /\ UNCHANGED <<driver, ending, subs, heard, leased>> /\ Others

Drive ==
  \/ ShowConnecting \/ Attempt \/ Subscribe \/ PublishStart \/ Unsubscribe \/ ShowConnected
  \/ Activate \/ Failed \/ Delay \/ GiveUp \/ Listen \/ MarkFresh \/ Deliver
  \/ CloseSubscription \/ Verdict \/ PublishStop \/ Release \/ FinishStream
Receiver(c) == ReceiveError(c) \/ Pass(c)

Ended ==
  /\ finished /\ queue = 0 /\ ~leased
  /\ \A p \in Stopper : stop[p] = "returned"
  /\ UNCHANGED vars

Next ==
  \/ Start \/ Drive \/ ContextCase \/ RenewCase \/ StaleCase \/ ReceivedCase
  \/ \E c \in Sub : Receiver(c) \/ ReceiveMessage(c) \/ TransportEnds(c)
  \/ \E p \in Stopper : Stop(p) \/ StopFinishes(p) \/ StopReturns(p)
  \/ ContextEnds \/ LeaseExpires \/ Receive \/ Ended

Spec == Init /\ [][Next]_vars

-----------------------------------------------------------------------------
(* Properties.                                                             *)

Handovers == [kind : {"empty", "message", "error"}, from : Sub \cup {NoSub}]

\* Every variable keeps its type.
TypeOK ==
  /\ StateTypeOK
  /\ pc \in {"idle", "begun", "attempt", "subscribe", "publish", "show", "unsubscribe",
             "activate", "failed", "delay", "giveup", "listen", "read", "state", "fatal",
             "deliver", "deliverFatal", "close", "verdict", "finish", "release", "finish2",
             "done"}
  /\ phase \in {"connecting", "reconnecting"} /\ attempt \in 0..MaxAttempts
  /\ {here, heard} \subseteq Sub \cup {NoSub} /\ result \in Causes \cup {"read"}
  /\ {activated, unclean, active, cancelled, leased} \subseteq BOOLEAN
  /\ sub \in [Sub -> {"none", "open", "broken", "closed"}]
  /\ rcv \in [Sub -> {"none", "receiving", "message", "error", "ended"}]
  /\ passed \in [Sub -> Handovers]
  /\ stop \in [Stopper -> {"idle", "claimed", "waiting", "returned"}]

\* Data that shows as fresh came over the subscription the stream has in hand:
\* no freshness outlives its subscription into the attempts to replace it, and a
\* message that a receive goroutine left behind in an earlier read's channel never
\* makes the data of a later one fresh.
FreshIsCurrent == ~finished /\ status.data = "fresh" => here # NoSub /\ heard = here

\* A stream that reports a clean end has told the device to stop, and nothing
\* started it again: only one that failed can leave the device streaming until
\* its lease expires.
CleanEndStopsDevice == finished /\ final = "nil" => ~leased

\* The client may create another stream (active is cleared) only when this one
\* publishes nothing more: the old stop precedes the new start.  Checked with the
\* types.
ReleasedIsSilent ==
  /\ TypeOK
  /\ ~active => pc \in {"idle", "finish2", "done"} /\ \A c \in Sub : sub[c] # "open"

\* The remote stream keeps the contract of stream.Stream, with the transport's
\* subscription as what it holds; a message its full channel refused ends it
\* with that failure.
Contract == INSTANCE StreamContract WITH
  Results <- Causes, Dropped <- "deliver", over <- cancelled,
  phase <- IF finished THEN "ended" ELSE IF started THEN "running" ELSE "idle",
  result <- final,
  held <- \E c \in Sub : sub[c] \in {"open", "broken"}
KeepsContract == Contract!Spec
=============================================================================
