----------------------------- MODULE RemoteHTTP -----------------------------
(***************************************************************************)
(* remote/http.go: HTTP round trips carried over one MQTT response         *)
(* subscription.  Many callers of RoundTrip share the mutex r.mu, the      *)
(* pending map and the current subscription; each subscription has one     *)
(* receive goroutine; Close runs once.                                     *)
(*                                                                         *)
(* A round trip is named by its correlation identifier (128 random bits,   *)
(* so distinct) and owns one result channel of capacity one.  Results are  *)
(* always sent after r.mu is released: whoever has taken channels out of   *)
(* the pending map holds them in "hand" until each send is done.  Which    *)
(* result a channel carries (a response, an oversize error, a failure) and *)
(* which error a caller returns are left out.                              *)
(***************************************************************************)
EXTENDS Naturals

CONSTANTS
  Req,        \* round trips
  Sub,        \* identities of response subscriptions (bounds re-subscription)
  Closer,     \* the goroutine inside Close
  None,       \* nil
  MaxCopies   \* bound: deliveries of one response (MQTT QoS 1 may duplicate)

ASSUME DistinctNames == None \notin Req \cup Sub /\ Closer \notin Sub
ASSUME CopiesAssumption == MaxCopies \in Nat

VARIABLES
  mu,         \* request holding r.mu across a transport call, or None
  closed,     \* r.closed
  cur,        \* r.subscription
  pending,    \* correlations in r.pending
  inflight,   \* requests counted by r.inflight
  pc,         \* control state of each RoundTrip
  mine,       \* the subscription a RoundTrip got from ensureSubscription
  cancelled,  \* running requests whose context is done
  full,       \* requests whose result channel holds a result
  hand,       \* channels a sender took from pending and has yet to send to
  sub,        \* transport: "unused", "open" or "ended" subscription
  copies,     \* transport: deliveries of a response still under way
  rcv,        \* control state of each receive goroutine
  got,        \* correlation a receive goroutine read and not yet looked up
  closer,     \* control state of close
  closing     \* the subscription close took from r.subscription

httpVars   == <<mu, closed, cur, pending, inflight>>
callVars   == <<pc, mine, cancelled>>
sendVars   == <<full, hand>>
deviceVars == <<sub, copies>>
rcvVars    == <<rcv, got>>
closeVars  == <<closer, closing>>
vars == <<httpVars, callVars, sendVars, deviceVars, rcvVars, closeVars>>

Sender == Sub \cup {Closer}

Init ==
  /\ mu = None /\ closed = FALSE /\ cur = None
  /\ pending = {} /\ inflight = {} /\ cancelled = {} /\ full = {}
  /\ pc = [r \in Req |-> "idle"] /\ mine = [r \in Req |-> None]
  /\ hand = [h \in Sender |-> {}]
  /\ sub = [s \in Sub |-> "unused"] /\ copies = [r \in Req |-> 0]
  /\ rcv = [s \in Sub |-> "none"] /\ got = [s \in Sub |-> None]
  /\ closer = "idle" /\ closing = None

Unlocked == mu = None

-----------------------------------------------------------------------------
(* RoundTrip, one action for every critical section and transport call.    *)

\* A step of caller r from one control state to the next: it leaves the other
\* goroutines' state and r.closed alone.
Step(r, from, to) ==
  /\ pc[r] = from
  /\ pc' = [pc EXCEPT ![r] = to]
  /\ UNCHANGED <<closed, hand, sub, rcvVars, closeVars>>

BeginUncounted(r) ==
  /\ Unlocked
  /\ IF closed THEN Step(r, "idle", "done") ELSE Step(r, "idle", "begun")
  /\ UNCHANGED <<mu, cur, pending, inflight, mine, cancelled, full, copies>>

Begin(r) ==
  /\ Unlocked
  /\ \/ closed /\ Step(r, "idle", "done") /\ UNCHANGED inflight
     \/ ~closed /\ Step(r, "idle", "begun") /\ inflight' = inflight \cup {r}
  /\ UNCHANGED <<mu, cur, pending, mine, cancelled, full, copies>>

\* ensureSubscription up to its call of transport.Subscribe, made with r.mu held.
EnsureSubscription(r) ==
  /\ Unlocked
  /\ \/ closed /\ Step(r, "begun", "leaving") /\ UNCHANGED <<mu, mine>>
     \/ /\ ~closed /\ cur # None
        /\ Step(r, "begun", "ensured")
        /\ mine' = [mine EXCEPT ![r] = cur] /\ UNCHANGED mu
     \/ /\ ~closed /\ cur = None
        /\ Step(r, "begun", "subscribing")
        /\ mu' = r /\ UNCHANGED mine
  /\ UNCHANGED <<cur, pending, inflight, cancelled, full, copies>>

\* transport.Subscribe returned a subscription: it becomes current and gets its
\* receive goroutine before r.mu is released.
Subscribed(r) ==
  /\ pc[r] = "subscribing" /\ pc' = [pc EXCEPT ![r] = "ensured"]
  /\ \E s \in Sub :
       /\ sub[s] = "unused"
       /\ sub' = [sub EXCEPT ![s] = "open"]
       /\ rcv' = [rcv EXCEPT ![s] = "receiving"]
       /\ cur' = s /\ mine' = [mine EXCEPT ![r] = s]
  /\ mu' = None
  /\ UNCHANGED <<closed, pending, inflight, cancelled, sendVars, copies, got, closeVars>>

SubscribeFailed(r) ==
  /\ Step(r, "subscribing", "leaving")
  /\ mu' = None
  /\ UNCHANGED <<cur, pending, inflight, mine, cancelled, full, copies>>

\* randomHex, then register: a request that would wait on a subscription no
\* longer current is turned away.
RandomFails(r) ==
  /\ Step(r, "ensured", "leaving")
  /\ UNCHANGED <<mu, cur, pending, inflight, mine, cancelled, full, copies>>
Register(r) ==
  /\ Unlocked
  /\ \/ (closed \/ cur # mine[r]) /\ Step(r, "ensured", "leaving") /\ UNCHANGED pending
     \/ /\ ~closed /\ cur = mine[r]
        /\ Step(r, "ensured", "registered") /\ pending' = pending \cup {r}
  /\ UNCHANGED <<mu, cur, inflight, mine, cancelled, full, copies>>

EncodeFails(r) ==
  /\ Step(r, "registered", "unregister")
  /\ UNCHANGED <<mu, cur, pending, inflight, mine, cancelled, full, copies>>

\* publish up to its call of transport.Publish, made with r.mu held.  From here
\* on the device may answer, any number of times up to MaxCopies.
Publish(r) ==
  /\ Unlocked
  /\ \/ closed /\ Step(r, "registered", "unregister") /\ UNCHANGED <<mu, copies>>
     \/ /\ ~closed
        /\ Step(r, "registered", "publishing") /\ mu' = r
        /\ \E n \in 0..MaxCopies : copies' = [copies EXCEPT ![r] = n]
  /\ UNCHANGED <<cur, pending, inflight, mine, cancelled, full>>

Published(r) ==
  /\ Step(r, "publishing", "waiting")
  /\ mu' = None
  /\ UNCHANGED <<cur, pending, inflight, mine, cancelled, full, copies>>

PublishFailed(r) ==
  /\ Step(r, "publishing", "unregister")
  /\ mu' = None
  /\ UNCHANGED <<cur, pending, inflight, mine, cancelled, full, copies>>

\* The two cases of the select; when both are ready Go picks either.
TakeResult(r) ==
  /\ r \in full /\ Step(r, "waiting", "leaving")
  /\ full' = full \ {r}
  /\ UNCHANGED <<mu, cur, pending, inflight, mine, cancelled, copies>>
ContextDone(r) ==
  /\ r \in cancelled /\ Step(r, "waiting", "unregister")
  /\ UNCHANGED <<mu, cur, pending, inflight, mine, cancelled, full, copies>>

\* Deferred calls, last first: unregister, then inflight.Done.
Unregister(r) ==
  /\ Unlocked /\ Step(r, "unregister", "leaving")
  /\ pending' = pending \ {r}
  /\ UNCHANGED <<mu, cur, inflight, mine, cancelled, full, copies>>
Leave(r) ==
  /\ Step(r, "leaving", "done")
  /\ inflight' = inflight \ {r} /\ cancelled' = cancelled \ {r}
  /\ mine' = [mine EXCEPT ![r] = None]
  /\ UNCHANGED <<mu, cur, pending, full, copies>>

\* The caller's context ends (deadline or cancellation), at any time of the call.
Cancel(r) ==
  /\ pc[r] \notin {"idle", "done"} /\ r \notin cancelled
  /\ cancelled' = cancelled \cup {r}
  /\ UNCHANGED <<httpVars, pc, mine, sendVars, deviceVars, rcvVars, closeVars>>

-----------------------------------------------------------------------------
(* The receive goroutine of subscription s.                                *)

ReceiverMoves(s, from, to) == rcv[s] = from /\ rcv' = [rcv EXCEPT ![s] = to]

\* A delivery can answer any published request, one that has left included;
\* messages on other topics or without correlation data change nothing.
ReceiveMessage(s) ==
  /\ sub[s] = "open" /\ ReceiverMoves(s, "receiving", "got")
  /\ \E r \in Req :
       /\ copies[r] > 0
       /\ copies' = [copies EXCEPT ![r] = @ - 1]
       /\ got' = [got EXCEPT ![s] = r]
  /\ UNCHANGED <<httpVars, callVars, sub, sendVars, closeVars>>

ReceiveError(s) ==
  /\ sub[s] = "ended" /\ ReceiverMoves(s, "receiving", "error")
  /\ UNCHANGED <<httpVars, callVars, deviceVars, got, sendVars, closeVars>>

LookUpKeepsEntry(s) ==
  /\ Unlocked
  /\ \/ /\ got[s] \in pending /\ ReceiverMoves(s, "got", "sending")
        /\ hand' = [hand EXCEPT ![s] = {got[s]}]
     \/ got[s] \notin pending /\ ReceiverMoves(s, "got", "receiving") /\ UNCHANGED hand
  /\ got' = [got EXCEPT ![s] = None]
  /\ UNCHANGED <<httpVars, callVars, deviceVars, full, closeVars>>

\* The lookup in pending and the deletion are one critical section, so that a
\* second copy of a response finds nothing.
LookUp(s) ==
  /\ Unlocked
  /\ \/ /\ got[s] \in pending /\ ReceiverMoves(s, "got", "sending")
        /\ pending' = pending \ {got[s]}
        /\ hand' = [hand EXCEPT ![s] = {got[s]}]
     \/ /\ got[s] \notin pending /\ ReceiverMoves(s, "got", "receiving")
        /\ UNCHANGED <<pending, hand>>
  /\ got' = [got EXCEPT ![s] = None]
  /\ UNCHANGED <<mu, closed, cur, inflight, callVars, deviceVars, full, closeVars>>

\* A send on a result channel: blocks while the channel's one slot is full.
SendTo(h) ==
  /\ \E r \in hand[h] \ full :
       /\ full' = full \cup {r}
       /\ hand' = [hand EXCEPT ![h] = @ \ {r}]
  /\ UNCHANGED <<httpVars, callVars, deviceVars, rcvVars, closeVars>>

ReceiverSends(s) == rcv[s] \in {"sending", "failing"} /\ SendTo(s)

\* Back to Receive after a response; the end after failing the waiters.
ReceiverResumes(s) ==
  /\ hand[s] = {}
  /\ ReceiverMoves(s, "sending", "receiving") \/ ReceiverMoves(s, "failing", "done")
  /\ UNCHANGED <<httpVars, callVars, deviceVars, got, sendVars, closeVars>>

DropWaiters(s) ==
  /\ Unlocked
  /\ \/ /\ cur = s /\ ReceiverMoves(s, "error", "failing")
        /\ cur' = None /\ pending' = {}
     \/ /\ cur # s /\ ReceiverMoves(s, "error", "done")
        /\ UNCHANGED <<cur, pending>>
  /\ UNCHANGED <<mu, closed, inflight, callVars, deviceVars, got, sendVars, closeVars>>

SubscriptionFailed(s) ==
  /\ Unlocked
  /\ \/ /\ cur = s /\ ReceiverMoves(s, "error", "failing")
        /\ cur' = None /\ pending' = {}
        /\ hand' = [hand EXCEPT ![s] = pending]
     \/ /\ cur # s /\ ReceiverMoves(s, "error", "done")
        /\ UNCHANGED <<cur, pending, hand>>
  /\ UNCHANGED <<mu, closed, inflight, callVars, deviceVars, got, full, closeVars>>

\* The transport ends a subscription by itself: slow consumer, oversized
\* payload, transport closed.
TransportEnds(s) ==
  /\ sub[s] = "open"
  /\ sub' = [sub EXCEPT ![s] = "ended"]
  /\ UNCHANGED <<httpVars, callVars, copies, rcvVars, sendVars, closeVars>>

-----------------------------------------------------------------------------
(* close, run once by closeOnce.                                           *)

CloseForgetsWaiters ==
  /\ closer = "idle" /\ Unlocked
  /\ closed' = TRUE /\ cur' = None /\ pending' = {}
  /\ closer' = "failing" /\ closing' = cur
  /\ UNCHANGED <<mu, inflight, callVars, sendVars, deviceVars, rcvVars>>

CloseBegin ==
  /\ closer = "idle" /\ Unlocked
  /\ closed' = TRUE /\ cur' = None /\ pending' = {}
  /\ hand' = [hand EXCEPT ![Closer] = pending]
  /\ closer' = "failing" /\ closing' = cur
  /\ UNCHANGED <<mu, inflight, callVars, full, deviceVars, rcvVars>>

CloserSends == closer = "failing" /\ SendTo(Closer)

\* Subscription.Close ends the subscription whether or not it reports an error.
CloseSubscription ==
  /\ closer = "failing" /\ hand[Closer] = {}
  /\ sub' = [s \in Sub |-> IF s = closing THEN "ended" ELSE sub[s]]
  /\ closer' = "waiting"
  /\ UNCHANGED <<httpVars, callVars, copies, rcvVars, sendVars, closing>>

\* r.inflight.Wait
CloseReturns ==
  /\ closer = "waiting" /\ inflight = {}
  /\ closer' = "done"
  /\ UNCHANGED <<httpVars, callVars, sendVars, deviceVars, rcvVars, closing>>

-----------------------------------------------------------------------------
(* What each goroutine does, and what the environment does to it.          *)

TransportReturns(r) ==
  Subscribed(r) \/ SubscribeFailed(r) \/ Published(r) \/ PublishFailed(r)

Caller(r) ==
  \/ EnsureSubscription(r) \/ RandomFails(r) \/ Register(r)
  \/ EncodeFails(r) \/ Publish(r) \/ TakeResult(r) \/ ContextDone(r)
  \/ Unregister(r) \/ Leave(r)

Receiver(s) ==
  \/ ReceiveMessage(s) \/ ReceiveError(s) \/ LookUp(s)
  \/ ReceiverSends(s) \/ ReceiverResumes(s) \/ SubscriptionFailed(s)

Closing == CloserSends \/ CloseSubscription \/ CloseReturns

\* Every call has returned and every goroutine has ended.
Quiescent ==
  /\ closer = "done"
  /\ \A r \in Req : pc[r] = "done"
  /\ \A s \in Sub : rcv[s] \in {"none", "done"}
  /\ UNCHANGED vars

Next ==
  \/ \E r \in Req : Begin(r) \/ Caller(r) \/ TransportReturns(r) \/ Cancel(r)
  \/ \E s \in Sub : Receiver(s) \/ TransportEnds(s)
  \/ CloseBegin \/ Closing
  \/ Quiescent

Spec == Init /\ [][Next]_vars

\* Goroutines keep running, and the transport's calls return: they are given the
\* caller's context, which the client's request timeout always ends.  Nothing is
\* assumed of the device, the callers or the life of a subscription.
Fairness ==
  /\ \A r \in Req : WF_vars(Caller(r)) /\ WF_vars(TransportReturns(r))
  /\ \A s \in Sub : WF_vars(Receiver(s))
  /\ WF_vars(Closing)

FairSpec == Spec /\ Fairness

-----------------------------------------------------------------------------
(* Properties.                                                             *)

\* Every variable of the round tripper keeps its type.
TypeOK ==
  /\ mu \in Req \cup {None} /\ closed \in BOOLEAN /\ cur \in Sub \cup {None}
  /\ pending \subseteq Req /\ inflight \subseteq Req
  /\ cancelled \subseteq Req /\ full \subseteq Req
  /\ pc \in [Req -> {"idle", "begun", "subscribing", "ensured", "registered",
                     "publishing", "waiting", "unregister", "leaving", "done"}]
  /\ mine \in [Req -> Sub \cup {None}]
  /\ hand \in [Sender -> SUBSET Req]
  /\ sub \in [Sub -> {"unused", "open", "ended"}] /\ copies \in [Req -> 0..MaxCopies]
  /\ rcv \in [Sub -> {"none", "receiving", "got", "sending", "error", "failing", "done"}]
  /\ got \in [Sub -> Req \cup {None}]
  /\ closer \in {"idle", "failing", "waiting", "done"} /\ closing \in Sub \cup {None}

\* A request that waits for its result, or is about to, has not been forgotten:
\* it is in pending, or someone is about to send to it, or its result is there
\* (receive, subscriptionFailed and close take entries out of the map early).
NoWaiterForgotten ==
  \A r \in Req : pc[r] \in {"registered", "publishing", "waiting"} =>
    r \in pending \/ r \in full \/ \E h \in Sender : r \in hand[h]

\* No result is sent to a full channel, so neither the receive goroutine nor
\* Close ever blocks on a caller that has left (late, duplicated and failure
\* results racing each other).
SendNeverBlocks ==
  \A h \in Sender : \A r \in hand[h] :
    r \notin full /\ \A g \in Sender \ {h} : r \notin hand[g]

\* Whoever is in pending waits on the current subscription, and that one has a
\* receive goroutine that is still going to release it.
PendingHasReceiver ==
  \A r \in pending :
    /\ cur # None /\ mine[r] = cur
    /\ rcv[cur] \in {"receiving", "got", "sending", "error"}

\* Once Close has begun no call is inside the transport: none starts, and Close
\* waits for the one under way (publish and subscribe hold r.mu).
ClosedIsQuiet ==
  closed => mu = None /\ \A r \in Req : pc[r] \notin {"subscribing", "publishing"}

\* Once Close has returned no call it let in is running, no entry is left in
\* pending, and any receive goroutine still alive has an ended subscription.
CloseDrains ==
  closer = "done" =>
    /\ pending = {} /\ \A r \in Req : pc[r] \in {"idle", "done"}
    /\ \A s \in Sub : rcv[s] \notin {"none", "done"} => sub[s] = "ended"

\* The inductive invariant behind the properties above: who holds the mutex, what
\* a pending entry, a channel on its way and a filled channel say about their
\* request, which goroutine answers for which subscription, and what Close knows.
Early == {"idle", "begun", "subscribing", "ensured"}
Ready == {"receiving", "got", "sending", "error"}

MutexInv ==
  \A r \in Req : /\ mu = r <=> pc[r] \in {"subscribing", "publishing"}
                 /\ pc[r] = "subscribing" => cur = None
PendingInv ==
  /\ \A r \in Req : pc[r] = "ensured" => mine[r] # None
  /\ \A r \in pending :
       /\ cur # None /\ mine[r] = cur
       /\ pc[r] \in {"registered", "publishing", "waiting", "unregister"}
TransitInv ==
  /\ \A h \in Sender : \A r \in hand[h] :
       /\ r \notin pending /\ r \notin full /\ pc[r] \notin Early
       /\ \A g \in Sender : r \in hand[g] => g = h
  /\ \A r \in full : r \notin pending /\ pc[r] \notin Early
  /\ \A s \in Sub : rcv[s] \notin {"sending", "failing"} => hand[s] = {}
  /\ closer # "failing" => hand[Closer] = {}
ReceiverInv ==
  /\ cur # None => rcv[cur] \in Ready
  /\ closing # None => rcv[closing] # "none"
  /\ \A s \in Sub :
       /\ sub[s] = "unused" <=> rcv[s] = "none"
       /\ rcv[s] \in {"error", "failing", "done"} => sub[s] = "ended"
       /\ sub[s] = "open" => s = cur \/ (closer = "failing" /\ s = closing)
CloseInv ==
  /\ closed <=> closer # "idle"
  /\ closed => cur = None /\ pending = {} /\ mu = None
  /\ \A r \in Req : r \in inflight <=> pc[r] \notin {"idle", "done"}
  /\ closer = "done" => inflight = {}

IInv ==
  /\ TypeOK /\ MutexInv /\ PendingInv /\ TransitInv /\ ReceiverInv /\ CloseInv
  /\ NoWaiterForgotten

\* The call as RoundTrips sees it.
Gate == CASE closer = "idle" -> "open" [] closer = "done" -> "closed" [] OTHER -> "closing"
Call == [r \in Req |-> CASE pc[r] = "idle" -> "idle" [] pc[r] = "done" -> "finished"
                         [] OTHER -> "running"]
RT == INSTANCE RoundTrips WITH gate <- Gate, call <- Call

\* The round tripper implements RoundTrips (beginRoundTrip, inflight, Close).
ImplementsRoundTrips == RT!Spec

\* A caller whose context is over gets out of RoundTrip, whatever the device does;
\* Close returns, and the receive goroutines end with it.
CallsEnd ==
  /\ \A r \in Req : r \in cancelled ~> pc[r] = "done"
  /\ closed ~> (closer = "done" /\ \A s \in Sub : rcv[s] \in {"none", "done"})
=============================================================================
