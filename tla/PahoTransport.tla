--------------------------- MODULE PahoTransport ----------------------------
(***************************************************************************)
(* pahotransport/transport.go: local subscriptions over one reconnecting   *)
(* Paho connection.  Callers of Subscribe and Subscription.Close register  *)
(* and remove items and hand an operation to the one reconcile loop, which *)
(* drives the broker to the set of topics somebody wants; the loop is also *)
(* woken by the reconcile and reconnect channels (capacity one, so pending *)
(* wake-ups coalesce) and by a retry timer.  The router fails consumers    *)
(* that cannot keep up; Close fails everyone and ends the lifetime.        *)
(*                                                                         *)
(* Payloads, the message buffers and the retry delays are left out.  A     *)
(* broker subscription is a pair <<topic, qos>>.                           *)
(***************************************************************************)
EXTENDS Integers, FiniteSets, FiniteSetsExt

CONSTANTS
  Item,        \* local subscriptions
  Topic,
  TopicOf,     \* topic and QoS each item asks for
  QosOf,
  Loop,        \* the loop's own jobs (ten second context)
  None,
  MaxDrops,    \* bound: connection losses
  Together,    \* bound: sets of items that subscribe in one behaviour
  Slow,        \* bound: items whose consumer may fall behind
  Ends,        \* bound: does the run close the transport
  Abandoned    \* requests that may take effect at the broker although their
               \* call gave up waiting for the acknowledgment
ASSUME ItemAssumption == Loop \notin Item /\ None \notin Item \cup {Loop}
ASSUME RequestAssumption ==
  /\ TopicOf \in [Item -> Topic] /\ QosOf \in [Item -> 0..2]
  /\ MaxDrops \in Nat /\ Slow \subseteq Item /\ Ends \in BOOLEAN
  /\ Abandoned \subseteq {"subscribe", "unsubscribe"}

VARIABLES
  pc,          \* control state of each item's caller: Subscribe, later Close
  over,        \* items whose caller's context is done during an operation
  res,         \* content of operation.result
  live,        \* items whose done channel is open
  registered,  \* items in t.subscriptions
  reconcile,   \* a token is in t.reconcile
  reconnect,   \* a token is in t.reconnect
  lpc,         \* control state of reconcileLoop
  job,         \* whose context the running reconcileBroker has
  want,        \* its desired map
  broker,      \* the loop's broker map
  call,        \* the pair it is calling the manager about
  callUp,      \* the connection of the call has not been lost
  err,         \* why the last subscribe failed
  doomed,      \* items failTopic has yet to fail
  retry,       \* the retry timer is set
  rpc,         \* control state of route, with
  victim,      \* the item it is evicting
  closer,      \* control state of Close
  condemned,   \* items failAll has yet to fail
  done,        \* the lifetime is over
  conn,        \* "down", "silent" (up, callback not run yet) or "up"
  drops,       \* connection losses so far
  actual,      \* what the broker really is subscribed to
  unheard      \* topics it dropped on an UNSUBSCRIBE whose call had been given up
               \* on, and has not been asked for since (history)

itemVars  == <<pc, over, res>>
localVars == <<live, registered>>
wakeVars  == <<reconcile, reconnect>>
loopVars  == <<lpc, job, want, broker, call, callUp, err, doomed, retry>>
routeVars == <<rpc, victim>>
closeVars == <<closer, condemned, done>>
netVars   == <<conn, drops, actual, unheard>>
vars == <<itemVars, localVars, wakeVars, loopVars, routeVars, closeVars, netVars>>

Topics(pairs) == {p[1] : p \in pairs}
On(t) == {i \in registered : TopicOf[i] = t}
Replace(pairs, p) == {q \in pairs : q[1] # p[1]} \cup {p}

\* What reconcileBroker computes under the read lock: the highest QoS per topic.
Desired == {<<t, Max({QosOf[i] : i \in On(t)})>> : t \in {TopicOf[i] : i \in registered}}

\* Dial has seen the connection come up; its callback may not have run yet.
Init ==
  /\ pc = [i \in Item |-> "idle"] /\ over = {} /\ res = [i \in Item |-> "none"]
  /\ live = {} /\ registered = {}
  /\ reconcile = FALSE /\ reconnect = FALSE
  /\ lpc = "select" /\ job = None /\ want = {} /\ broker = {} /\ call = <<>>
  /\ callUp = FALSE /\ err = "nil" /\ doomed = {} /\ retry = FALSE
  /\ rpc = "idle" /\ victim = None
  /\ closer = "idle" /\ condemned = {} /\ done = FALSE
  /\ conn = "silent" /\ drops = 0 /\ actual = {} /\ unheard = {}

\* subscription.fail, run once.
Fail(i) == live' = live \ {i}
\* requestReconcile: nothing once the lifetime is over, else at most one token.
RequestReconcile == reconcile' = (reconcile \/ ~done) /\ UNCHANGED reconnect

-----------------------------------------------------------------------------
(* Subscribe and Subscription.Close.                                       *)

Step(i, from, to) == pc[i] = from /\ pc' = [pc EXCEPT ![i] = to]
Elsewhere == UNCHANGED <<loopVars, routeVars, closeVars, netVars>>

MaySubscribe(i) == \E S \in Together : {j \in Item : pc[j] # "idle"} \cup {i} \subseteq S

Register(i) ==
  /\ MaySubscribe(i)
  /\ \/ done /\ Step(i, "idle", "error") /\ UNCHANGED localVars
     \/ /\ ~done /\ Step(i, "idle", "send")
        /\ live' = live \cup {i} /\ registered' = registered \cup {i}
  /\ UNCHANGED <<over, res, wakeVars>> /\ Elsewhere

GiveUpLate(i) ==
  /\ i \in over
  /\ \/ Step(i, "send", "remove") \/ Step(i, "await", "remove")
     \/ Step(i, "closeSend", "closeError") \/ Step(i, "closeAwait", "closeError")
  /\ over' = over \ {i} /\ res' = [res EXCEPT ![i] = "none"]
  /\ UNCHANGED <<localVars, wakeVars>> /\ Elsewhere

\* reconcileSync gives up: the lifetime or the caller's context is over (while
\* the loop has the operation, its result is dropped).  Subscribe rolls back,
\* Close reports the error.
GiveUp(i) ==
  /\ done \/ i \in over
  /\ \/ Step(i, "send", "remove") \/ Step(i, "await", "remove")
     \/ Step(i, "closeSend", "closeError") \/ Step(i, "closeAwait", "closeError")
  /\ over' = over \ {i} /\ res' = [res EXCEPT ![i] = "none"]
  /\ UNCHANGED <<localVars, wakeVars>> /\ Elsewhere

TakeResult(i) ==
  /\ \/ res[i] = "ok" /\ Step(i, "await", "open")
     \/ res[i] = "error" /\ Step(i, "await", "remove")
     \/ res[i] = "ok" /\ Step(i, "closeAwait", "closed")
     \/ res[i] = "error" /\ Step(i, "closeAwait", "closeError")
  /\ over' = over \ {i} /\ res' = [res EXCEPT ![i] = "none"]
  /\ UNCHANGED <<localVars, wakeVars>> /\ Elsewhere

\* remove, and the wake-up at its end, outside t.mu.
Remove(i) ==
  /\ Step(i, "remove", "request") \/ Step(i, "closeRemove", "closeRequest")
  /\ registered' = registered \ {i}
  /\ UNCHANGED <<over, res, live, wakeVars>> /\ Elsewhere

RequestNothing(i) ==
  /\ Step(i, "request", "fail") \/ Step(i, "closeRequest", "closeSend")
  /\ UNCHANGED <<over, res, localVars, wakeVars>> /\ Elsewhere

Request(i) ==
  /\ Step(i, "request", "fail") \/ Step(i, "closeRequest", "closeSend")
  /\ RequestReconcile
  /\ UNCHANGED <<over, res, localVars>> /\ Elsewhere

FailOwn(i) ==
  /\ Step(i, "fail", "error") /\ Fail(i)
  /\ UNCHANGED <<over, res, registered, wakeVars>> /\ Elsewhere

Close(i) ==
  /\ Step(i, "open", "closeRemove") /\ Fail(i)
  /\ UNCHANGED <<over, res, registered, wakeVars>> /\ Elsewhere

Caller(i) == GiveUp(i) \/ TakeResult(i) \/ Remove(i) \/ Request(i) \/ FailOwn(i)

\* The context given to Subscribe ends, or the ten seconds of Close are over.
Awaiting == {"await", "closeAwait"}
ContextEnds(i) ==
  /\ pc[i] \in {"send", "closeSend"} \cup Awaiting /\ i \notin over
  /\ over' = over \cup {i}
  /\ UNCHANGED <<pc, res, localVars, wakeVars>> /\ Elsewhere

-----------------------------------------------------------------------------
(* reconcileLoop.                                                          *)

LoopElse == UNCHANGED <<over, routeVars, closeVars, conn, drops>>

\* reconcileBroker starts: it takes the set of desired subscriptions.
Start(who) ==
  /\ lpc = "select" /\ lpc' = "broker" /\ job' = who /\ want' = Desired
  /\ UNCHANGED <<res, call, callUp, err, doomed, localVars, actual>> /\ LoopElse

TakeOperation(i) ==
  /\ Start(i)
  /\ Step(i, "send", "await") \/ Step(i, "closeSend", "closeAwait")
  /\ UNCHANGED <<wakeVars, broker, retry, unheard>>

TrustOldSession ==
  /\ reconnect /\ reconnect' = FALSE
  /\ Start(Loop) /\ retry' = FALSE
  /\ UNCHANGED <<pc, reconcile, broker, unheard>>

\* After a reconnection nothing is known to be subscribed.
TakeReconnect ==
  /\ reconnect /\ reconnect' = FALSE
  /\ Start(Loop) /\ retry' = FALSE /\ broker' = {} /\ unheard' = {}
  /\ UNCHANGED <<pc, reconcile>>
TakeReconcile ==
  /\ reconcile /\ reconcile' = FALSE
  /\ Start(Loop)
  /\ UNCHANGED <<pc, reconnect, retry, broker, unheard>>
TakeRetry ==
  /\ retry /\ retry' = FALSE
  /\ Start(Loop)
  /\ UNCHANGED <<pc, wakeVars, broker, unheard>>

\* The next requests: subscriptions first, then topics nobody wants.
Pending == IF want \ broker # {} THEN want \ broker
           ELSE {p \in broker : p[1] \notin Topics(want)}
Subscribing == call \in want

\* The job ends: the one answer goes to the operation, whose caller may have
\* left; a retry is wanted or the timer is stopped.
End(result, again) ==
  /\ lpc' = "select" /\ job' = None /\ want' = {} /\ call' = <<>> /\ err' = "nil"
  /\ retry' = again
  /\ res' = [i \in Item |-> IF i = job /\ pc[i] \in Awaiting THEN result ELSE res[i]]

\* The manager is called; without a connection it fails at once with
\* ConnectionDownError, which a reconnection will make good.
Call ==
  /\ lpc = "broker"
  /\ \/ conn = "down" /\ Pending # {} /\ End("error", FALSE) /\ UNCHANGED callUp
     \/ /\ conn # "down" /\ lpc' = "calling" /\ callUp' = TRUE
        /\ \E p \in Pending : call' = p
        /\ UNCHANGED <<job, want, err, retry, res>>
  /\ UNCHANGED <<pc, localVars, wakeVars, broker, doomed, actual, unheard>> /\ LoopElse

\* What the broker holds, and what the loop believes, once a request is done.
After(pairs) == IF Subscribing THEN Replace(pairs, call) ELSE pairs \ {call}

Acknowledged ==
  /\ lpc = "calling" /\ callUp /\ lpc' = "broker"
  /\ broker' = After(broker)
  /\ actual' = IF Subscribing THEN Replace(actual, call)
               ELSE {p \in actual : p[1] # call[1]}
  /\ unheard' = unheard \ {call[1]}
  /\ call' = <<>> /\ callUp' = FALSE
  /\ UNCHANGED <<pc, res, localVars, wakeVars, job, want, err, doomed, retry>> /\ LoopElse

FailedNoRetry(why) ==
  /\ lpc = "calling" /\ callUp' = FALSE
  /\ \/ /\ Subscribing /\ lpc' = "failTopic" /\ err' = why /\ retry' = FALSE
        /\ UNCHANGED <<job, want, call, res>>
     \/ ~Subscribing /\ End("error", FALSE)
  /\ UNCHANGED <<pc, localVars, wakeVars, broker, doomed>> /\ LoopElse

\* handleResult: a failed subscribe fails the topic, a failed unsubscribe is
\* retried.
Failed(why) ==
  /\ lpc = "calling" /\ callUp' = FALSE
  /\ \/ /\ Subscribing /\ lpc' = "failTopic" /\ err' = why /\ retry' = FALSE
        /\ UNCHANGED <<job, want, call, res>>
     \/ ~Subscribing /\ End("error", TRUE)
  /\ UNCHANGED <<pc, localVars, wakeVars, broker, doomed>> /\ LoopElse

\* A rejection or an acknowledgment that does not validate; a lost connection.
Rejected == callUp /\ Failed("broker") /\ UNCHANGED <<actual, unheard>>
Lost     == ~callUp /\ Failed("broker") /\ UNCHANGED <<actual, unheard>>
JobOverButLifetime == job = Loop \/ job \in over
\* The job's context is over, and the lifetime ends every context; a caller that
\* has left did so because of either.
JobOver == done \/ job = Loop \/ job \in over \/ (job \in Item /\ pc[job] \notin Awaiting)
\* The call returns without an acknowledgment.
Interrupted ==
  /\ JobOver /\ Failed("context")
  /\ \/ UNCHANGED <<actual, unheard>>
     \/ /\ callUp /\ Subscribing /\ "subscribe" \in Abandoned
        /\ actual' = Replace(actual, call) /\ unheard' = unheard \ {call[1]}
     \/ /\ callUp /\ ~Subscribing /\ "unsubscribe" \in Abandoned
        /\ actual' = {p \in actual : p[1] # call[1]} /\ unheard' = unheard \cup {call[1]}

Complete ==
  /\ lpc = "broker" /\ Pending = {} /\ End("ok", FALSE)
  /\ UNCHANGED <<pc, localVars, wakeVars, broker, callUp, doomed, actual, unheard>> /\ LoopElse

TopicForgets ==
  /\ lpc = "failTopic" /\ lpc' = "failing"
  /\ registered' = registered \ On(call[1]) /\ want' = {} /\ call' = <<>>
  /\ UNCHANGED <<pc, res, live, wakeVars, job, broker, callUp, err, doomed, retry, actual, unheard>>
  /\ LoopElse

\* failTopic: its critical section, then the failures, then the wake-up.
FailTopic ==
  /\ lpc = "failTopic" /\ lpc' = "failing"
  /\ doomed' = On(call[1]) /\ registered' = registered \ doomed'
  /\ want' = {} /\ call' = <<>>
  /\ UNCHANGED <<pc, res, live, wakeVars, job, broker, callUp, err, retry, actual, unheard>> /\ LoopElse
FailOne ==
  /\ lpc = "failing"
  /\ \/ /\ \E i \in doomed : Fail(i) /\ doomed' = doomed \ {i}
        /\ UNCHANGED <<lpc, job, want, call, err, retry, res, wakeVars>>
     \/ doomed = {} /\ End("error", FALSE) /\ RequestReconcile /\ UNCHANGED <<live, doomed>>
  /\ UNCHANGED <<pc, registered, broker, callUp, actual, unheard>> /\ LoopElse

Exit ==
  /\ lpc = "select" /\ done /\ lpc' = "exited" /\ retry' = FALSE /\ broker' = {}
  /\ UNCHANGED <<pc, res, localVars, wakeVars, job, want, call, callUp, err, doomed, actual, unheard>>
  /\ LoopElse

Running == Call \/ Lost \/ Interrupted \/ Complete \/ FailTopic \/ FailOne
Woken == TakeReconnect \/ TakeReconcile \/ TakeRetry \/ Exit \/ \E i \in Item : TakeOperation(i)

-----------------------------------------------------------------------------
(* route, called by Paho for one message after the other.  A message that is *)
(* too large for an item, or finds its buffer full, fails and removes it.    *)

RouteElse == UNCHANGED <<itemVars, loopVars, closeVars, netVars>>

Route(i) ==
  /\ rpc = "idle" /\ i \in registered \cap Slow
  /\ Fail(i) /\ rpc' = "remove" /\ victim' = i
  /\ UNCHANGED <<registered, wakeVars>> /\ RouteElse
Evict ==
  /\ \/ /\ rpc = "remove" /\ rpc' = "request" /\ registered' = registered \ {victim}
        /\ victim' = None /\ UNCHANGED wakeVars
     \/ /\ rpc = "request" /\ rpc' = "idle" /\ RequestReconcile
        /\ UNCHANGED <<victim, registered>>
  /\ UNCHANGED live /\ RouteElse

-----------------------------------------------------------------------------
(* Close (closeOnce), and the connection that autopaho keeps.              *)

CloseElse == UNCHANGED <<itemVars, wakeVars, loopVars, routeVars, conn, drops, actual, unheard>>

FailAll ==
  /\ Ends /\ closer = "idle" /\ closer' = "failing"
  /\ condemned' = registered /\ registered' = {}
  /\ UNCHANGED <<live, done>> /\ CloseElse
FailNext ==
  /\ closer = "failing" /\ \E i \in condemned : Fail(i) /\ condemned' = condemned \ {i}
  /\ UNCHANGED <<registered, closer, done>> /\ CloseElse
EndLifetime ==
  /\ closer = "failing" /\ condemned = {} /\ closer' = "waiting" /\ done' = TRUE
  /\ UNCHANGED <<localVars, condemned>> /\ CloseElse
Disconnect ==
  /\ closer = "waiting" /\ lpc = "exited" /\ closer' = "closed"
  /\ conn' = "down" /\ actual' = {}
  /\ UNCHANGED <<itemVars, localVars, wakeVars, loopVars, routeVars, condemned, done>>
  /\ UNCHANGED <<drops, unheard>>
Closer == FailNext \/ EndLifetime \/ Disconnect

NetElse == UNCHANGED <<itemVars, localVars, routeVars, closeVars>>

\* The session does not outlive its connection (autopaho's default expiry).
ConnectionLost ==
  /\ conn # "down" /\ drops < MaxDrops /\ drops' = drops + 1
  /\ conn' = "down" /\ actual' = {} /\ callUp' = FALSE
  /\ UNCHANGED <<wakeVars, lpc, job, want, broker, call, err, doomed, retry, unheard>> /\ NetElse
ConnectionUp ==
  /\ conn = "down" /\ ~done /\ conn' = "silent"
  /\ UNCHANGED <<wakeVars, loopVars, drops, actual, unheard>> /\ NetElse
\* OnConnectionUp runs requestReconnect.
OnConnectionUp ==
  /\ conn = "silent" /\ conn' = "up"
  /\ reconnect' = (reconnect \/ ~done)
  /\ UNCHANGED <<reconcile, loopVars, drops, actual, unheard>> /\ NetElse

\* Nobody has anything left to do: the loop waits, or the transport is closed.
Quiescent ==
  /\ closer = "closed" \/ (~Ends /\ lpc = "select" /\ ~reconcile /\ ~reconnect /\ ~retry)
  /\ \A i \in Item : pc[i] \in {"error", "closed", "closeError"} \/ ~MaySubscribe(i)
  /\ UNCHANGED vars

Next ==
  \/ \E i \in Item : Register(i) \/ Close(i) \/ Caller(i) \/ ContextEnds(i) \/ Route(i)
  \/ Running \/ Acknowledged \/ Rejected \/ Woken \/ Evict
  \/ FailAll \/ Closer
  \/ ConnectionLost \/ ConnectionUp \/ OnConnectionUp
  \/ Quiescent

Spec == Init /\ [][Next]_vars

\* Goroutines keep running, a call whose context is over or whose connection is
\* lost returns, and Go's select starves no case that is ready again and again.
\* The broker need never answer, and a caller's context need never end.
Fairness ==
  /\ WF_vars(Running) /\ WF_vars(Woken) /\ WF_vars(Evict) /\ WF_vars(Closer)
  /\ SF_vars(TakeReconnect) /\ SF_vars(TakeReconcile) /\ SF_vars(Exit)
  /\ \A i \in Item : WF_vars(Caller(i))
FairSpec == Spec /\ Fairness

-----------------------------------------------------------------------------
(* Properties.                                                             *)

Pairs == Topic \X (0..2)
IsMap(pairs) == pairs \subseteq Pairs /\ \A p, q \in pairs : p[1] = q[1] => p = q
Live(i) == pc[i] = "open" /\ i \in live

WakeTypes == /\ reconcile \in BOOLEAN /\ reconnect \in BOOLEAN /\ retry \in BOOLEAN
             /\ callUp \in BOOLEAN /\ done \in BOOLEAN
MapTypes == IsMap(want) /\ IsMap(broker) /\ IsMap(actual) /\ unheard \subseteq Topic
StateTypes ==
  /\ pc \in [Item -> {"idle", "send", "await", "remove", "request", "fail", "error", "open",
                      "closeRemove", "closeRequest", "closeSend", "closeAwait", "closed",
                      "closeError"}]
  /\ over \subseteq Item /\ live \subseteq Item /\ registered \subseteq Item
  /\ doomed \subseteq Item /\ condemned \subseteq Item
  /\ res \in [Item -> {"none", "ok", "error"}]
  /\ lpc \in {"select", "broker", "calling", "failTopic", "failing", "exited"}
  /\ job \in Item \cup {Loop, None} /\ victim \in Item \cup {None}
  /\ call \in Pairs \cup {<<>>}
  /\ err \in {"nil", "broker", "context"} /\ rpc \in {"idle", "remove", "request"}
  /\ closer \in {"idle", "failing", "waiting", "closed"}
  /\ conn \in {"down", "silent", "up"} /\ drops \in 0..MaxDrops

\* Every variable keeps its type; the maps have one QoS per topic.
TypeOK == StateTypes /\ WakeTypes /\ MapTypes

\* A live subscription is in the map, where messages and failures find it, or
\* whoever took it out is about to fail it: Receive cannot wait for ever on a
\* subscription everyone forgot (failTopic, failAll).  Checked with the types.
LiveIsReachable == TypeOK /\ \A i \in Item : Live(i) => i \in registered \cup doomed \cup condemned

\* The loop has dealt with all it was told, and the connection stands.
Settled == lpc = "select" /\ conn = "up" /\ ~done /\ ~reconnect

\* An open subscription is subscribed at the broker once nothing is left to do,
\* whatever was lost on the way, with one exception: its topic was unsubscribed
\* earlier by a request whose acknowledgment nobody waited for (SubscribeTakesEffect).
OpenIsSubscribed ==
  Settled /\ ~reconcile =>
    \A i \in registered : Live(i) => TopicOf[i] \in Topics(actual) \cup unheard

\* What Subscribe is documented to do, without the exception: it creates a
\* subscription, which a Subscribe that returned, a loop at rest and a standing
\* connection leave nothing to wait for.
SubscribeTakesEffect ==
  Settled /\ ~reconcile => \A i \in registered : Live(i) => TopicOf[i] \in Topics(actual)

\* No wake-up is lost in the one-token channels: a topic nobody wants is on its
\* way to be unsubscribed.
NoLostWakeUp ==
  Settled /\ ~reconcile /\ ~retry /\ closer = "idle" /\ rpc # "request" =>
    \/ \E i \in Item : pc[i] \in {"request", "closeRequest"}
    \/ Topics(broker) \subseteq {TopicOf[i] : i \in registered}

\* Close returns although a broker call hangs, and every Subscribe and every
\* Subscription.Close returns after it.
CloseCompletes == closer = "failing" ~> closer = "closed"
CallersReturn ==
  \A i \in Item : done ~> pc[i] \in {"idle", "error", "open", "closed", "closeError"}

\* When the connection stays, its callback runs and a broker that again and again
\* could answer does, the loop's map reaches what is wanted, and all that is
\* wanted is subscribed.
BrokerAnswers == SF_vars(Acknowledged) /\ SF_vars(TakeRetry) /\ WF_vars(OnConnectionUp)
Converges ==
  BrokerAnswers /\ <>[](conn # "down" /\ closer = "idle") =>
    <>[](broker = Desired /\ Desired \subseteq actual)
=============================================================================
