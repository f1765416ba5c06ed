----------------------------- MODULE PahoDelivery ----------------------------
(***************************************************************************)
(* pahotransport: what travels over an established connection.  route      *)
(* hands each packet to the subscriptions of its topic that were in the    *)
(* map when it looked; each has a bounded buffer and fails when that is    *)
(* full.  Consumers receive and close, the transport dials and closes.     *)
(* How topics reach the broker is PahoTransport's subject; there is one    *)
(* topic here.                                                             *)
(***************************************************************************)
EXTENDS Naturals, Sequences, SequencesExt, FiniteSets

CONSTANTS
  Item,         \* subscriptions to the topic
  Publisher,    \* callers of Publish
  Room,         \* subscriptionBuffer
  MaxPackets    \* bound on the packets that arrive
ASSUME DeliveryAssumption == Room \in Nat \ {0} /\ MaxPackets \in Nat

VARIABLES
  dial,       \* "dialing", "up" or "failed"
  lifetime,   \* is the transport's lifetime context alive
  shutting,   \* Close: "idle", "failing", "waiting" or "closed"
  condemned,  \* subscriptions failAll has taken out of the map
  listed,     \* subscriptions in the map
  used,       \* subscriptions made so far
  why,        \* terminal error per subscription, or "none"
  leaving,    \* failed subscriptions still to be removed from the map
  doomed,     \* subscriptions failTopic has taken out of the map
  packets,    \* packets arrived; the last one is being routed while targets is not empty
  targets,    \* subscriptions it still goes to
  checked,    \* targets for which deliver has not seen done
  buffer,     \* messages per subscription
  got,        \* those its consumer has received
  owed,       \* packets route found it listed for
  reading,    \* its consumer: "idle", "waiting" or "told" of the error
  publishing  \* per publisher: "idle", "calling" or "returned"

itemVars == <<listed, used, why, leaving, doomed>>
routeVars == <<packets, targets, checked, owed>>
lifeVars == <<dial, lifetime, shutting, condemned>>
deliveryVars == <<lifeVars, itemVars, routeVars, buffer, got, reading, publishing>>

DeliveryInit ==
  /\ dial = "dialing" /\ lifetime = TRUE /\ shutting = "idle" /\ condemned = {}
  /\ listed = {} /\ used = {} /\ why = [i \in Item |-> "none"] /\ leaving = {} /\ doomed = {}
  /\ packets = 0 /\ targets = {} /\ checked = {} /\ owed = [i \in Item |-> <<>>]
  /\ buffer = [i \in Item |-> <<>>] /\ got = [i \in Item |-> <<>>]
  /\ reading = [i \in Item |-> "idle"] /\ publishing = [p \in Publisher |-> "idle"]
\* Nothing can happen any more.
DeliveryIdle ==
  /\ dial = "failed" /\ lifetime = FALSE /\ shutting = "closed" /\ condemned = {}
  /\ listed = {} /\ used = Item /\ why = [i \in Item |-> "closed"] /\ leaving = {} /\ doomed = {}
  /\ packets = MaxPackets /\ targets = {} /\ checked = {} /\ owed = [i \in Item |-> <<>>]
  /\ buffer = [i \in Item |-> <<>>] /\ got = [i \in Item |-> <<>>]
  /\ reading = [i \in Item |-> "told"] /\ publishing = [p \in Publisher |-> "returned"]

\* subscription.fail: the first error stays.
FailItem(i, err) == why' = IF why[i] = "none" THEN [why EXCEPT ![i] = err] ELSE why

-----------------------------------------------------------------------------
\* Dial, which closes a transport that does not connect; and Close.
Dialled ==
  /\ dial = "dialing" /\ dial' = "up"
  /\ UNCHANGED <<lifetime, shutting, condemned, itemVars, routeVars, buffer, got, reading, publishing>>
CloseBegins ==
  /\ shutting = "idle" /\ shutting' = "failing" /\ condemned' = listed /\ listed' = {}
  /\ dial' = IF dial = "dialing" THEN "failed" ELSE dial
  /\ UNCHANGED <<lifetime, used, why, leaving, doomed, routeVars, buffer, got, reading, publishing>>
FailCondemned(i) ==
  /\ i \in condemned /\ condemned' = condemned \ {i} /\ FailItem(i, "closed")
  /\ UNCHANGED <<dial, lifetime, shutting, listed, used, leaving, doomed, routeVars, buffer, got, reading, publishing>>
Cancel ==
  /\ shutting = "failing" /\ condemned = {} /\ shutting' = "waiting" /\ lifetime' = FALSE
  /\ UNCHANGED <<dial, condemned, itemVars, routeVars, buffer, got, reading, publishing>>
Disconnect ==
  /\ shutting = "waiting" /\ shutting' = "closed"
  /\ UNCHANGED <<dial, lifetime, condemned, itemVars, routeVars, buffer, got, reading, publishing>>

\* Subscribe enters the map.  It fails, or failTopic ends a subscription: out of
\* the map first.  subscription.Close fails it first.
Register(i) ==
  /\ dial = "up" /\ lifetime /\ i \notin used
  /\ listed' = listed \cup {i} /\ used' = used \cup {i}
  /\ UNCHANGED <<lifeVars, why, leaving, doomed, routeVars, buffer, got, reading, publishing>>
LoseTopic(i) ==
  /\ i \in listed /\ listed' = listed \ {i} /\ doomed' = doomed \cup {i}
  /\ UNCHANGED <<lifeVars, used, why, leaving, routeVars, buffer, got, reading, publishing>>
FailDoomed(i) ==
  /\ i \in doomed /\ doomed' = doomed \ {i} /\ FailItem(i, "refused")
  /\ UNCHANGED <<lifeVars, listed, used, leaving, routeVars, buffer, got, reading, publishing>>
CloseItem(i) ==
  /\ i \in used /\ why[i] # "closed" /\ FailItem(i, "closed") /\ leaving' = leaving \cup {i}
  /\ UNCHANGED <<lifeVars, listed, used, doomed, routeVars, buffer, got, reading, publishing>>
RemoveItem(i) ==
  /\ i \in leaving /\ leaving' = leaving \ {i} /\ listed' = listed \ {i}
  /\ UNCHANGED <<lifeVars, used, why, doomed, routeVars, buffer, got, reading, publishing>>

-----------------------------------------------------------------------------
\* route takes the subscriptions under the lock.
Route ==
  /\ targets = {} /\ packets < MaxPackets /\ shutting # "closed"
  /\ packets' = packets + 1 /\ targets' = listed /\ checked' = {}
  /\ owed' = [i \in Item |-> IF i \in listed THEN Append(owed[i], packets') ELSE owed[i]]
  /\ UNCHANGED <<lifeVars, itemVars, buffer, got, reading, publishing>>

\* Too large, or deliver's first select: done is seen here or not at all.
Examine(i) ==
  /\ i \in targets \ checked
  /\ \/ /\ FailItem(i, "too large") /\ leaving' = leaving \cup {i}
        /\ targets' = targets \ {i} /\ UNCHANGED checked
     \/ /\ IF why[i] = "none" THEN checked' = checked \cup {i} /\ UNCHANGED targets
           ELSE targets' = targets \ {i} /\ UNCHANGED checked
        /\ UNCHANGED <<why, leaving>>
  /\ UNCHANGED <<lifeVars, listed, used, doomed, packets, owed, buffer, got, reading, publishing>>

\* Fault: a full buffer loses the message.
DeliverDrops(i) ==
  /\ i \in checked /\ targets' = targets \ {i} /\ checked' = checked \ {i}
  /\ buffer' = IF Len(buffer[i]) < Room THEN [buffer EXCEPT ![i] = Append(@, packets)] ELSE buffer
  /\ UNCHANGED <<lifeVars, itemVars, packets, owed, got, reading, publishing>>

\* deliver's second select, whose cases may both be ready; route fails a
\* subscription without room.
Deliver(i) ==
  /\ i \in checked /\ targets' = targets \ {i} /\ checked' = checked \ {i}
  /\ \/ /\ Len(buffer[i]) < Room /\ buffer' = [buffer EXCEPT ![i] = Append(@, packets)]
        /\ UNCHANGED <<why, leaving>>
     \/ why[i] # "none" /\ UNCHANGED <<buffer, why, leaving>>
     \/ /\ Len(buffer[i]) = Room /\ why[i] = "none"
        /\ FailItem(i, "slow") /\ leaving' = leaving \cup {i} /\ UNCHANGED buffer
  /\ UNCHANGED <<lifeVars, listed, used, doomed, packets, owed, got, reading, publishing>>

-----------------------------------------------------------------------------
\* Receive: its first select, then the second, which may be left by the context.
Receive(i) ==
  /\ i \in used /\ reading[i] = "idle"
  /\ reading' = [reading EXCEPT ![i] = IF why[i] = "none" THEN "waiting" ELSE "told"]
  /\ UNCHANGED <<lifeVars, itemVars, routeVars, buffer, got, publishing>>
Received(i) ==
  /\ reading[i] = "waiting"
  /\ \/ /\ buffer[i] # <<>> /\ got' = [got EXCEPT ![i] = Append(@, Head(buffer[i]))]
        /\ buffer' = [buffer EXCEPT ![i] = Tail(@)] /\ reading' = [reading EXCEPT ![i] = "idle"]
     \/ /\ why[i] # "none" /\ reading' = [reading EXCEPT ![i] = "told"] /\ UNCHANGED <<got, buffer>>
     \/ reading' = [reading EXCEPT ![i] = "idle"] /\ UNCHANGED <<got, buffer>>
  /\ UNCHANGED <<lifeVars, itemVars, routeVars, publishing>>

\* Publish: one call of the manager, bounded by the lifetime.
Publish(p) ==
  /\ dial = "up" /\ publishing[p] = "idle"
  /\ publishing' = [publishing EXCEPT ![p] = IF lifetime THEN "calling" ELSE "returned"]
  /\ UNCHANGED <<lifeVars, itemVars, routeVars, buffer, got, reading>>
PublishReturns(p) ==
  /\ publishing[p] = "calling" /\ publishing' = [publishing EXCEPT ![p] = "returned"]
  /\ UNCHANGED <<lifeVars, itemVars, routeVars, buffer, got, reading>>

DeliveryNext ==
  \/ Dialled \/ CloseBegins \/ Cancel \/ Disconnect \/ Route
  \/ \E i \in Item :
       \/ FailCondemned(i) \/ Register(i) \/ LoseTopic(i) \/ FailDoomed(i) \/ CloseItem(i) \/ RemoveItem(i)
       \/ Examine(i) \/ Deliver(i) \/ Receive(i) \/ Received(i)
  \/ \E p \in Publisher : Publish(p) \/ PublishReturns(p)

-----------------------------------------------------------------------------
\* A subscription's consumer sees the packets of its topic in order and without a
\* gap, from the first one routed while it was listed, up to the error that ends
\* it: with a consumer too slow, a Close or an eviction between the two selects of
\* deliver, a packet is lost only by a subscription that has failed, and so are
\* all that follow it; and whatever fails leaves the map, or is about to (route,
\* deliver, fail, Receive).
NoGap ==
  /\ \A i \in Item :
       /\ IsPrefix(got[i] \o buffer[i], owed[i])
       /\ why[i] = "none" =>
            owed[i] = got[i] \o buffer[i] \o IF i \in targets THEN <<packets>> ELSE <<>>
       /\ why[i] # "none" => i \in leaving \/ i \notin listed
=============================================================================
