------------------------ MODULE PahoTransport_proofs ------------------------
(***************************************************************************)
(* Proofs about the Paho transport: no subscription is forgotten, what is  *)
(* open is subscribed once the loop is at rest, and no wake-up is lost.    *)
(***************************************************************************)
EXTENDS PahoTransport, TLAPS

-----------------------------------------------------------------------------
(* The inductive invariant.                                                *)

InJob == lpc \in {"broker", "calling"}
RegisteredTopics == {TopicOf[i] : i \in registered}

\* Whoever has taken items out of the map fails them before it goes on, and an
\* item that is anywhere has a caller.
ListInv ==
  /\ \A i \in Item : pc[i] = "idle" => i \notin registered \cup doomed \cup condemned \cup {victim}
  /\ lpc # "failing" => doomed = {}
  /\ closer = "idle" => condemned = {}
  /\ rpc # "remove" => victim = None
  /\ victim \notin live

\* A live item that is being opened or is open can be reached.
LiveInv ==
  \A i \in Item : pc[i] \in {"send", "await", "open"} /\ i \in live =>
    i \in registered \cup doomed \cup condemned

\* A call subscribes what is wanted, or, with all that is wanted subscribed,
\* unsubscribes a topic nobody wanted.
CallInv ==
  /\ lpc = "calling" => call \in Pairs
  /\ lpc = "calling" /\ ~Subscribing =>
       want \subseteq broker /\ call \in broker /\ call[1] \notin Topics(want)

\* The running job knows of every item that waits for its answer or has had one.
JobInv == InJob => \A i \in registered : pc[i] \in {"await", "open"} => TopicOf[i] \in Topics(want)

\* At rest the loop believes each of them subscribed, or it will be woken.
RestInv ==
  lpc = "select" /\ ~reconcile /\ ~reconnect /\ conn = "up" /\ ~done =>
    \A i \in registered : pc[i] \in {"await", "open"} => TopicOf[i] \in Topics(broker)

\* What the loop believes is so, while it has heard of the last reconnection, but
\* for the topics the broker dropped behind its back.
BelievedInv ==
  conn = "up" /\ ~reconnect /\ ~done => Topics(broker) \subseteq Topics(actual) \cup unheard

\* Somebody will have the loop look again.
Wake == \/ reconcile \/ done \/ closer # "idle" \/ rpc = "request"
        \/ \E i \in Item : pc[i] \in {"request", "closeRequest"}

\* A topic the job wants or the loop believes subscribed has an item, or the loop
\* is going to look again.
WakeInv ==
  /\ InJob => Topics(want) \subseteq RegisteredTopics \/ Wake
  /\ lpc = "select" =>
       Topics(broker) \subseteq RegisteredTopics \/ Wake \/ reconnect \/ retry \/ conn # "up"

IInv == TypeOK /\ ListInv /\ LiveInv /\ CallInv /\ JobInv /\ RestInv /\ WakeInv

-----------------------------------------------------------------------------
(* What reconcileBroker wants subscribed.                                  *)

\* The highest of some qualities of service is one.
LEMMA MaxOfQos ==
  ASSUME NEW S \in SUBSET (0..2), S # {}
  PROVE  Max(S) \in 0..2
<1>1. \E m \in S : \A y \in S : m >= y
  <2>1. CASE 2 \in S
    BY <2>1
  <2>2. CASE 2 \notin S /\ 1 \in S
    BY <2>2
  <2>3. CASE 2 \notin S /\ 1 \notin S
    <3>1. \A y \in S : y = 0
      <4>1. \A y \in S : y \in 0..2 /\ y # 1 /\ y # 2
        BY <2>3
      <4>2. QED
        BY <4>1
    <3>2. 0 \in S
      BY <3>1
    <3>3. QED
      BY <3>1, <3>2
  <2>4. QED
    BY <2>1, <2>2, <2>3
<1>2. QED
  BY <1>1 DEF Max

\* The desired map has one entry per topic with an item, and no other.
LEMMA DesiredTyped ==
  ASSUME TypeOK
  PROVE  /\ IsMap(Desired)
         /\ Topics(Desired) = RegisteredTopics
<1>1. \A t \in RegisteredTopics : Max({QosOf[i] : i \in On(t)}) \in 0..2
  <2>1. TAKE t \in RegisteredTopics
  <2>2. PICK i \in registered : TopicOf[i] = t
    BY DEF RegisteredTopics
  <2>3. i \in On(t)
    BY <2>2 DEF On
  <2>4. \A j \in On(t) : QosOf[j] \in 0..2
    BY RequestAssumption DEF TypeOK, StateTypes, On
  <2>5. {QosOf[j] : j \in On(t)} \in SUBSET (0..2)
    BY <2>4
  <2>6. {QosOf[j] : j \in On(t)} # {}
    BY <2>3
  <2>7. QED
    BY <2>5, <2>6, MaxOfQos
<1>2. RegisteredTopics \subseteq Topic
  BY RequestAssumption DEF RegisteredTopics, TypeOK, StateTypes
<1>3. Desired = {<<t, Max({QosOf[i] : i \in On(t)})>> : t \in RegisteredTopics}
  BY DEF Desired, RegisteredTopics
<1>4. IsMap(Desired)
  <2>1. \A p \in Desired : \E t \in RegisteredTopics : p = <<t, Max({QosOf[i] : i \in On(t)})>>
    BY <1>3
  <2>2. \A p \in Desired : p \in Pairs
    <3>1. TAKE p \in Desired
    <3>2. PICK t \in RegisteredTopics : p = <<t, Max({QosOf[i] : i \in On(t)})>>
      BY <2>1
    <3>3. t \in Topic /\ Max({QosOf[i] : i \in On(t)}) \in 0..2
      BY <1>1, <1>2
    <3>4. QED
      BY <3>2, <3>3 DEF Pairs
  <2>3. \A p, q \in Desired : p[1] = q[1] => p = q
    <3>1. TAKE p, q \in Desired
    <3>2. PICK t \in RegisteredTopics : p = <<t, Max({QosOf[i] : i \in On(t)})>>
      BY <2>1
    <3>3. PICK u \in RegisteredTopics : q = <<u, Max({QosOf[i] : i \in On(u)})>>
      BY <2>1
    <3>4. QED
      BY <3>2, <3>3
  <2>4. QED
    BY <2>2, <2>3 DEF IsMap
<1>5. Topics(Desired) = RegisteredTopics
  <2>1. ASSUME NEW p \in Desired PROVE p[1] \in RegisteredTopics
    <3>1. PICK t \in RegisteredTopics : p = <<t, Max({QosOf[i] : i \in On(t)})>>
      BY <1>3
    <3>2. QED
      BY <3>1
  <2>2. ASSUME NEW t \in RegisteredTopics PROVE t \in Topics(Desired)
    <3>1. <<t, Max({QosOf[i] : i \in On(t)})>> \in Desired
      BY <1>3
    <3>2. QED
      BY <3>1 DEF Topics
  <2>3. QED
    BY <2>1, <2>2 DEF Topics
<1>6. QED
  BY <1>4, <1>5

\* Every step keeps the invariant (reconcileLoop, route, Subscribe and both Close).
LEMMA Inductive ==
  ASSUME IInv, [Next]_vars
  PROVE  IInv'
<1> USE ItemAssumption, RequestAssumption
<1> USE DEF IInv, TypeOK, StateTypes, WakeTypes, MapTypes, IsMap, Pairs, ListInv, LiveInv,
            CallInv, JobInv, RestInv, WakeInv, InJob, RegisteredTopics, Wake, Topics, On, Awaiting,
            Pending, Subscribing, vars, itemVars, localVars, wakeVars, loopVars, routeVars,
            closeVars, netVars
<1>1. ASSUME NEW i \in Item, Register(i) PROVE IInv'
  <2>1. StateTypes'
    BY <1>1 DEF Register, Step, Elsewhere
  <2>2. WakeTypes' /\ MapTypes'
    BY <1>1 DEF Register, Step, Elsewhere
  <2>3. ListInv' /\ LiveInv'
    BY <1>1 DEF Register, Step, Elsewhere
  <2>4. CallInv' /\ JobInv' /\ RestInv'
    BY <1>1 DEF Register, Step, Elsewhere
  <2>5. WakeInv'
    <3>1. RegisteredTopics \subseteq RegisteredTopics'
      BY <1>1 DEF Register, Elsewhere
    <3>2. Wake => Wake'
      BY <1>1 DEF Register, Step, Elsewhere
    <3>3. QED
      BY <1>1, <3>1, <3>2 DEF Register, Elsewhere
  <2>6. QED
    BY <2>1, <2>2, <2>3, <2>4, <2>5
<1>2. ASSUME NEW i \in Item, Close(i) PROVE IInv'
  <2>1. StateTypes'
    BY <1>2 DEF Close, Fail, Step, Elsewhere
  <2>2. WakeTypes' /\ MapTypes'
    BY <1>2 DEF Close, Fail, Step, Elsewhere
  <2>3. ListInv' /\ LiveInv'
    BY <1>2 DEF Close, Fail, Step, Elsewhere
  <2>4. CallInv' /\ JobInv' /\ RestInv'
    BY <1>2 DEF Close, Fail, Step, Elsewhere
  <2>5. WakeInv'
    BY <1>2 DEF Close, Fail, Step, Elsewhere
  <2>6. QED
    BY <2>1, <2>2, <2>3, <2>4, <2>5
<1>3. ASSUME NEW i \in Item, GiveUp(i) PROVE IInv'
  <2>1. StateTypes'
    BY <1>3 DEF GiveUp, Step, Elsewhere
  <2>2. WakeTypes' /\ MapTypes'
    BY <1>3 DEF GiveUp, Step, Elsewhere
  <2>3. ListInv' /\ LiveInv'
    BY <1>3 DEF GiveUp, Step, Elsewhere
  <2>4. CallInv' /\ JobInv' /\ RestInv'
    BY <1>3 DEF GiveUp, Step, Elsewhere
  <2>5. WakeInv'
    BY <1>3 DEF GiveUp, Step, Elsewhere
  <2>6. QED
    BY <2>1, <2>2, <2>3, <2>4, <2>5
<1>4. ASSUME NEW i \in Item, TakeResult(i) PROVE IInv'
  <2>1. StateTypes'
    BY <1>4 DEF TakeResult, Step, Elsewhere
  <2>2. WakeTypes' /\ MapTypes'
    BY <1>4 DEF TakeResult, Step, Elsewhere
  <2>3. ListInv' /\ LiveInv'
    BY <1>4 DEF TakeResult, Step, Elsewhere
  <2>4. CallInv' /\ JobInv' /\ RestInv'
    BY <1>4 DEF TakeResult, Step, Elsewhere
  <2>5. WakeInv'
    BY <1>4 DEF TakeResult, Step, Elsewhere
  <2>6. QED
    BY <2>1, <2>2, <2>3, <2>4, <2>5
<1>5. ASSUME NEW i \in Item, Remove(i) PROVE IInv'
  <2>1. StateTypes'
    BY <1>5 DEF Remove, Step, Elsewhere
  <2>2. WakeTypes' /\ MapTypes'
    BY <1>5 DEF Remove, Step, Elsewhere
  <2>3. ListInv' /\ LiveInv'
    BY <1>5 DEF Remove, Step, Elsewhere
  <2>4. CallInv' /\ JobInv' /\ RestInv'
    BY <1>5 DEF Remove, Step, Elsewhere
  <2>5. WakeInv'
    BY <1>5 DEF Remove, Step, Elsewhere
  <2>6. QED
    BY <2>1, <2>2, <2>3, <2>4, <2>5
<1>6. ASSUME NEW i \in Item, Request(i) PROVE IInv'
  <2>1. StateTypes'
    BY <1>6 DEF Request, RequestReconcile, Step, Elsewhere
  <2>2. WakeTypes' /\ MapTypes'
    BY <1>6 DEF Request, RequestReconcile, Step, Elsewhere
  <2>3. ListInv' /\ LiveInv'
    BY <1>6 DEF Request, RequestReconcile, Step, Elsewhere
  <2>4. CallInv' /\ JobInv' /\ RestInv'
    BY <1>6 DEF Request, RequestReconcile, Step, Elsewhere
  <2>5. WakeInv'
    BY <1>6 DEF Request, RequestReconcile, Step, Elsewhere
  <2>6. QED
    BY <2>1, <2>2, <2>3, <2>4, <2>5
<1>7. ASSUME NEW i \in Item, FailOwn(i) PROVE IInv'
  <2>1. StateTypes'
    BY <1>7 DEF FailOwn, Fail, Step, Elsewhere
  <2>2. WakeTypes' /\ MapTypes'
    BY <1>7 DEF FailOwn, Fail, Step, Elsewhere
  <2>3. ListInv' /\ LiveInv'
    BY <1>7 DEF FailOwn, Fail, Step, Elsewhere
  <2>4. CallInv' /\ JobInv' /\ RestInv'
    BY <1>7 DEF FailOwn, Fail, Step, Elsewhere
  <2>5. WakeInv'
    BY <1>7 DEF FailOwn, Fail, Step, Elsewhere
  <2>6. QED
    BY <2>1, <2>2, <2>3, <2>4, <2>5
<1>8. ASSUME NEW i \in Item, ContextEnds(i) PROVE IInv'
  <2>1. StateTypes'
    BY <1>8 DEF ContextEnds, Elsewhere
  <2>2. WakeTypes' /\ MapTypes'
    BY <1>8 DEF ContextEnds, Elsewhere
  <2>3. ListInv' /\ LiveInv'
    BY <1>8 DEF ContextEnds, Elsewhere
  <2>4. CallInv' /\ JobInv' /\ RestInv'
    BY <1>8 DEF ContextEnds, Elsewhere
  <2>5. WakeInv'
    BY <1>8 DEF ContextEnds, Elsewhere
  <2>6. QED
    BY <2>1, <2>2, <2>3, <2>4, <2>5
<1>9. ASSUME NEW i \in Item, Route(i) PROVE IInv'
  <2>1. StateTypes'
    BY <1>9 DEF Route, Fail, RouteElse
  <2>2. WakeTypes' /\ MapTypes'
    BY <1>9 DEF Route, Fail, RouteElse
  <2>3. ListInv' /\ LiveInv'
    BY <1>9 DEF Route, Fail, RouteElse
  <2>4. CallInv' /\ JobInv' /\ RestInv'
    BY <1>9 DEF Route, Fail, RouteElse
  <2>5. WakeInv'
    BY <1>9 DEF Route, Fail, RouteElse
  <2>6. QED
    BY <2>1, <2>2, <2>3, <2>4, <2>5
<1>10. ASSUME NEW i \in Item, TakeOperation(i) PROVE IInv'
  <2>1. StateTypes'
    BY <1>10, DesiredTyped DEF TakeOperation, Start, Step, LoopElse
  <2>2. WakeTypes' /\ MapTypes'
    BY <1>10, DesiredTyped DEF TakeOperation, Start, Step, LoopElse
  <2>3. ListInv' /\ LiveInv'
    BY <1>10, DesiredTyped DEF TakeOperation, Start, Step, LoopElse
  <2>4. CallInv' /\ JobInv' /\ RestInv'
    BY <1>10, DesiredTyped DEF TakeOperation, Start, Step, LoopElse
  <2>5. WakeInv'
    BY <1>10, DesiredTyped DEF TakeOperation, Start, Step, LoopElse
  <2>6. QED
    BY <2>1, <2>2, <2>3, <2>4, <2>5
<1>11. ASSUME TakeReconnect PROVE IInv'
  <2>1. StateTypes'
    BY <1>11, DesiredTyped DEF TakeReconnect, Start, LoopElse
  <2>2. WakeTypes' /\ MapTypes'
    BY <1>11, DesiredTyped DEF TakeReconnect, Start, LoopElse
  <2>3. ListInv' /\ LiveInv'
    BY <1>11, DesiredTyped DEF TakeReconnect, Start, LoopElse
  <2>4. CallInv' /\ JobInv' /\ RestInv'
    BY <1>11, DesiredTyped DEF TakeReconnect, Start, LoopElse
  <2>5. WakeInv'
    BY <1>11, DesiredTyped DEF TakeReconnect, Start, LoopElse
  <2>6. QED
    BY <2>1, <2>2, <2>3, <2>4, <2>5
<1>12. ASSUME TakeReconcile PROVE IInv'
  <2>1. StateTypes'
    BY <1>12, DesiredTyped DEF TakeReconcile, Start, LoopElse
  <2>2. WakeTypes' /\ MapTypes'
    BY <1>12, DesiredTyped DEF TakeReconcile, Start, LoopElse
  <2>3. ListInv' /\ LiveInv'
    BY <1>12, DesiredTyped DEF TakeReconcile, Start, LoopElse
  <2>4. CallInv' /\ JobInv' /\ RestInv'
    BY <1>12, DesiredTyped DEF TakeReconcile, Start, LoopElse
  <2>5. WakeInv'
    BY <1>12, DesiredTyped DEF TakeReconcile, Start, LoopElse
  <2>6. QED
    BY <2>1, <2>2, <2>3, <2>4, <2>5
<1>13. ASSUME TakeRetry PROVE IInv'
  <2>1. StateTypes'
    BY <1>13, DesiredTyped DEF TakeRetry, Start, LoopElse
  <2>2. WakeTypes' /\ MapTypes'
    BY <1>13, DesiredTyped DEF TakeRetry, Start, LoopElse
  <2>3. ListInv' /\ LiveInv'
    BY <1>13, DesiredTyped DEF TakeRetry, Start, LoopElse
  <2>4. CallInv' /\ JobInv' /\ RestInv'
    BY <1>13, DesiredTyped DEF TakeRetry, Start, LoopElse
  <2>5. WakeInv'
    BY <1>13, DesiredTyped DEF TakeRetry, Start, LoopElse
  <2>6. QED
    BY <2>1, <2>2, <2>3, <2>4, <2>5
<1>14. ASSUME Call PROVE IInv'
  <2>1. StateTypes'
    BY <1>14 DEF Call, End, LoopElse
  <2>2. WakeTypes' /\ MapTypes'
    BY <1>14 DEF Call, End, LoopElse
  <2>3. ListInv' /\ LiveInv'
    BY <1>14 DEF Call, End, LoopElse
  <2>4. CallInv' /\ JobInv' /\ RestInv'
    BY <1>14 DEF Call, End, LoopElse
  <2>5. WakeInv'
    BY <1>14 DEF Call, End, LoopElse
  <2>6. QED
    BY <2>1, <2>2, <2>3, <2>4, <2>5
<1>15. ASSUME Acknowledged PROVE IInv'
  <2>1. StateTypes'
    BY <1>15 DEF Acknowledged, LoopElse, After, Replace
  <2>2. WakeTypes' /\ MapTypes'
    BY <1>15 DEF Acknowledged, LoopElse, After, Replace
  <2>3. ListInv' /\ LiveInv'
    BY <1>15 DEF Acknowledged, LoopElse, After, Replace
  <2>4. CallInv' /\ JobInv' /\ RestInv'
    BY <1>15 DEF Acknowledged, LoopElse, After, Replace
  <2>5. WakeInv'
    BY <1>15 DEF Acknowledged, LoopElse, After, Replace
  <2>6. QED
    BY <2>1, <2>2, <2>3, <2>4, <2>5
<1>16. ASSUME Rejected \/ Lost PROVE IInv'
  <2>1. StateTypes'
    BY <1>16 DEF Rejected, Lost, Failed, End, LoopElse
  <2>2. WakeTypes' /\ MapTypes'
    BY <1>16 DEF Rejected, Lost, Failed, End, LoopElse
  <2>3. ListInv' /\ LiveInv'
    BY <1>16 DEF Rejected, Lost, Failed, End, LoopElse
  <2>4. CallInv' /\ JobInv' /\ RestInv'
    BY <1>16 DEF Rejected, Lost, Failed, End, LoopElse
  <2>5. WakeInv'
    BY <1>16 DEF Rejected, Lost, Failed, End, LoopElse
  <2>6. QED
    BY <2>1, <2>2, <2>3, <2>4, <2>5
<1>17. ASSUME Interrupted PROVE IInv'
  <2>1. StateTypes'
    BY <1>17 DEF Interrupted, Failed, End, LoopElse, Replace
  <2>2. WakeTypes' /\ MapTypes'
    BY <1>17 DEF Interrupted, Failed, End, LoopElse, Replace
  <2>3. ListInv' /\ LiveInv'
    BY <1>17 DEF Interrupted, Failed, End, LoopElse, Replace
  <2>4. CallInv' /\ JobInv' /\ RestInv'
    BY <1>17 DEF Interrupted, Failed, End, LoopElse, Replace
  <2>5. WakeInv'
    BY <1>17 DEF Interrupted, Failed, End, LoopElse, Replace
  <2>6. QED
    BY <2>1, <2>2, <2>3, <2>4, <2>5
<1>18. ASSUME Complete PROVE IInv'
  <2>1. StateTypes'
    BY <1>18 DEF Complete, End, LoopElse
  <2>2. WakeTypes' /\ MapTypes'
    BY <1>18 DEF Complete, End, LoopElse
  <2>3. ListInv' /\ LiveInv'
    BY <1>18 DEF Complete, End, LoopElse
  <2>4. CallInv' /\ JobInv' /\ RestInv'
    BY <1>18 DEF Complete, End, LoopElse
  <2>5. WakeInv'
    <3>1. Topics(broker) \subseteq Topics(want)
      BY <1>18 DEF Complete
    <3>2. Topics(broker)' = Topics(broker) /\ RegisteredTopics' = RegisteredTopics /\ Wake' = Wake
      BY <1>18 DEF Complete, LoopElse
    <3>3. QED
      BY <1>18, <3>1, <3>2 DEF Complete, End, LoopElse
  <2>6. QED
    BY <2>1, <2>2, <2>3, <2>4, <2>5
<1>19. ASSUME FailTopic PROVE IInv'
  <2>1. StateTypes'
    BY <1>19 DEF FailTopic, LoopElse
  <2>2. WakeTypes' /\ MapTypes'
    BY <1>19 DEF FailTopic, LoopElse
  <2>3. ListInv' /\ LiveInv'
    BY <1>19 DEF FailTopic, LoopElse
  <2>4. CallInv' /\ JobInv' /\ RestInv'
    BY <1>19 DEF FailTopic, LoopElse
  <2>5. WakeInv'
    BY <1>19 DEF FailTopic, LoopElse
  <2>6. QED
    BY <2>1, <2>2, <2>3, <2>4, <2>5
<1>20. ASSUME FailOne PROVE IInv'
  <2>1. StateTypes'
    BY <1>20 DEF FailOne, Fail, End, RequestReconcile, LoopElse
  <2>2. WakeTypes' /\ MapTypes'
    BY <1>20 DEF FailOne, Fail, End, RequestReconcile, LoopElse
  <2>3. ListInv' /\ LiveInv'
    BY <1>20 DEF FailOne, Fail, End, RequestReconcile, LoopElse
  <2>4. CallInv' /\ JobInv' /\ RestInv'
    BY <1>20 DEF FailOne, Fail, End, RequestReconcile, LoopElse
  <2>5. WakeInv'
    BY <1>20 DEF FailOne, Fail, End, RequestReconcile, LoopElse
  <2>6. QED
    BY <2>1, <2>2, <2>3, <2>4, <2>5
<1>21. ASSUME Exit PROVE IInv'
  <2>1. StateTypes'
    BY <1>21 DEF Exit, LoopElse
  <2>2. WakeTypes' /\ MapTypes'
    BY <1>21 DEF Exit, LoopElse
  <2>3. ListInv' /\ LiveInv'
    BY <1>21 DEF Exit, LoopElse
  <2>4. CallInv' /\ JobInv' /\ RestInv'
    BY <1>21 DEF Exit, LoopElse
  <2>5. WakeInv'
    BY <1>21 DEF Exit, LoopElse
  <2>6. QED
    BY <2>1, <2>2, <2>3, <2>4, <2>5
<1>22. ASSUME Evict PROVE IInv'
  <2>1. StateTypes'
    BY <1>22 DEF Evict, RequestReconcile, RouteElse
  <2>2. WakeTypes' /\ MapTypes'
    BY <1>22 DEF Evict, RequestReconcile, RouteElse
  <2>3. ListInv' /\ LiveInv'
    BY <1>22 DEF Evict, RequestReconcile, RouteElse
  <2>4. CallInv' /\ JobInv' /\ RestInv'
    BY <1>22 DEF Evict, RequestReconcile, RouteElse
  <2>5. WakeInv'
    BY <1>22 DEF Evict, RequestReconcile, RouteElse
  <2>6. QED
    BY <2>1, <2>2, <2>3, <2>4, <2>5
<1>23. ASSUME FailAll PROVE IInv'
  <2>1. StateTypes'
    BY <1>23 DEF FailAll, CloseElse
  <2>2. WakeTypes' /\ MapTypes'
    BY <1>23 DEF FailAll, CloseElse
  <2>3. ListInv' /\ LiveInv'
    BY <1>23 DEF FailAll, CloseElse
  <2>4. CallInv' /\ JobInv' /\ RestInv'
    BY <1>23 DEF FailAll, CloseElse
  <2>5. WakeInv'
    BY <1>23 DEF FailAll, CloseElse
  <2>6. QED
    BY <2>1, <2>2, <2>3, <2>4, <2>5
<1>24. ASSUME FailNext PROVE IInv'
  <2>1. StateTypes'
    BY <1>24 DEF FailNext, Fail, CloseElse
  <2>2. WakeTypes' /\ MapTypes'
    BY <1>24 DEF FailNext, Fail, CloseElse
  <2>3. ListInv' /\ LiveInv'
    BY <1>24 DEF FailNext, Fail, CloseElse
  <2>4. CallInv' /\ JobInv' /\ RestInv'
    BY <1>24 DEF FailNext, Fail, CloseElse
  <2>5. WakeInv'
    BY <1>24 DEF FailNext, Fail, CloseElse
  <2>6. QED
    BY <2>1, <2>2, <2>3, <2>4, <2>5
<1>25. ASSUME EndLifetime PROVE IInv'
  <2>1. StateTypes'
    BY <1>25 DEF EndLifetime, CloseElse
  <2>2. WakeTypes' /\ MapTypes'
    BY <1>25 DEF EndLifetime, CloseElse
  <2>3. ListInv' /\ LiveInv'
    BY <1>25 DEF EndLifetime, CloseElse
  <2>4. CallInv' /\ JobInv' /\ RestInv'
    BY <1>25 DEF EndLifetime, CloseElse
  <2>5. WakeInv'
    BY <1>25 DEF EndLifetime, CloseElse
  <2>6. QED
    BY <2>1, <2>2, <2>3, <2>4, <2>5
<1>26. ASSUME Disconnect PROVE IInv'
  <2>1. StateTypes'
    BY <1>26 DEF Disconnect
  <2>2. WakeTypes' /\ MapTypes'
    BY <1>26 DEF Disconnect
  <2>3. ListInv' /\ LiveInv'
    BY <1>26 DEF Disconnect
  <2>4. CallInv' /\ JobInv' /\ RestInv'
    BY <1>26 DEF Disconnect
  <2>5. WakeInv'
    BY <1>26 DEF Disconnect
  <2>6. QED
    BY <2>1, <2>2, <2>3, <2>4, <2>5
<1>27. ASSUME ConnectionLost PROVE IInv'
  <2>1. StateTypes'
    BY <1>27 DEF ConnectionLost, NetElse
  <2>2. WakeTypes' /\ MapTypes'
    BY <1>27 DEF ConnectionLost, NetElse
  <2>3. ListInv' /\ LiveInv'
    BY <1>27 DEF ConnectionLost, NetElse
  <2>4. CallInv' /\ JobInv' /\ RestInv'
    BY <1>27 DEF ConnectionLost, NetElse
  <2>5. WakeInv'
    BY <1>27 DEF ConnectionLost, NetElse
  <2>6. QED
    BY <2>1, <2>2, <2>3, <2>4, <2>5
<1>28. ASSUME ConnectionUp \/ OnConnectionUp PROVE IInv'
  <2>1. StateTypes'
    BY <1>28 DEF ConnectionUp, OnConnectionUp, NetElse
  <2>2. WakeTypes' /\ MapTypes'
    BY <1>28 DEF ConnectionUp, OnConnectionUp, NetElse
  <2>3. ListInv' /\ LiveInv'
    BY <1>28 DEF ConnectionUp, OnConnectionUp, NetElse
  <2>4. CallInv' /\ JobInv' /\ RestInv'
    BY <1>28 DEF ConnectionUp, OnConnectionUp, NetElse
  <2>5. WakeInv'
    BY <1>28 DEF ConnectionUp, OnConnectionUp, NetElse
  <2>6. QED
    BY <2>1, <2>2, <2>3, <2>4, <2>5
<1>29. ASSUME Quiescent \/ UNCHANGED vars PROVE IInv'
  <2>1. StateTypes'
    BY <1>29 DEF Quiescent
  <2>2. WakeTypes' /\ MapTypes'
    BY <1>29 DEF Quiescent
  <2>3. ListInv' /\ LiveInv'
    BY <1>29 DEF Quiescent
  <2>4. CallInv' /\ JobInv' /\ RestInv'
    BY <1>29 DEF Quiescent
  <2>5. WakeInv'
    BY <1>29 DEF Quiescent
  <2>6. QED
    BY <2>1, <2>2, <2>3, <2>4, <2>5
<1>30. QED
  BY <1>1, <1>2, <1>3, <1>4, <1>5, <1>6, <1>7, <1>8, <1>9, <1>10, <1>11, <1>12, <1>13,
     <1>14, <1>15, <1>16, <1>17, <1>18, <1>19, <1>20, <1>21, <1>22, <1>23, <1>24, <1>25, <1>26,
     <1>27, <1>28, <1>29 DEF Next, Caller, Running, Woken, Closer

\* NewTransport and Dial.
LEMMA Initially == Init => IInv /\ BelievedInv
<1> USE ItemAssumption, RequestAssumption
<1>1. ASSUME Init PROVE TypeOK
  <2>1. StateTypes
    <3>1. call \in Pairs \cup {<<>>} /\ drops \in 0..MaxDrops
      BY <1>1 DEF Init
    <3>2. pc \in [Item -> {"idle"}] /\ res \in [Item -> {"none"}]
      BY <1>1 DEF Init
    <3>3. QED
      BY <1>1, <3>1, <3>2 DEF Init, StateTypes
  <2>2. WakeTypes
    BY <1>1 DEF Init, WakeTypes
  <2>3. MapTypes
    BY <1>1 DEF Init, MapTypes, IsMap
  <2>4. QED
    BY <2>1, <2>2, <2>3 DEF TypeOK
<1>2. Init => ListInv /\ LiveInv /\ CallInv /\ JobInv /\ RestInv
  BY DEF Init, ListInv, LiveInv, CallInv, JobInv, RestInv, InJob
<1>3. Init => WakeInv /\ BelievedInv
  BY DEF Init, WakeInv, BelievedInv, InJob, Topics
<1>4. QED
  BY <1>1, <1>2, <1>3 DEF IInv

\* The invariant holds throughout (pahotransport/transport.go, whole).
THEOREM Invariance == Spec => []IInv
<1>1. QED
  BY Initially, Inductive, PTL DEF Spec

-----------------------------------------------------------------------------
(* What follows from it.                                                   *)

\* A live subscription is in the map, or whoever took it out is about to fail it
\* (route, failTopic, failAll).
THEOREM LiveSubscriptionsReachable == Spec => []LiveIsReachable
<1>1. IInv => LiveIsReachable
  BY DEF IInv, LiveInv, LiveIsReachable, Live
<1>2. QED
  BY <1>1, Invariance, PTL

\* Every topic nobody wants any more has the loop woken for it, although pending
\* wake-ups coalesce (requestReconcile, handleResult).
THEOREM WakeUpsAreKept == Spec => []NoLostWakeUp
<1>1. IInv => NoLostWakeUp
  BY DEF IInv, WakeInv, NoLostWakeUp, Settled, Wake, RegisteredTopics
<1>2. QED
  BY <1>1, Invariance, PTL

\* What the loop believes subscribed stays so, or is dropped by an unsubscribe it
\* heard nothing of (reconcileBroker, handleResult).
LEMMA Believed ==
  ASSUME IInv, BelievedInv, [Next]_vars
  PROVE  BelievedInv'
<1> USE DEF IInv, TypeOK, WakeTypes, MapTypes, IsMap, BelievedInv, Topics, Subscribing, CallInv
<1>1. ASSUME UNCHANGED <<broker, actual, unheard, conn, reconnect, done>> PROVE BelievedInv'
  BY <1>1
<1>2. CASE \E i \in Item : Register(i) \/ Close(i) \/ Caller(i) \/ ContextEnds(i) \/ Route(i)
  BY <1>1, <1>2 DEF Register, Close, Caller, GiveUp, TakeResult, Remove, Request, FailOwn,
    ContextEnds, Route, RouteElse, Elsewhere, localVars, wakeVars, loopVars, closeVars, netVars,
    RequestReconcile
<1>3. CASE Call \/ Complete \/ FailTopic \/ FailOne \/ Rejected \/ Lost
  BY <1>1, <1>3 DEF Call, Complete, FailTopic, FailOne, Rejected, Lost, Failed, LoopElse, wakeVars,
    closeVars, RequestReconcile
<1>4. CASE Interrupted
  BY <1>4 DEF Interrupted, Failed, Replace, LoopElse, wakeVars, closeVars
<1>5. CASE Acknowledged
  BY <1>5 DEF Acknowledged, After, Replace, LoopElse, wakeVars, closeVars
<1>6. CASE TakeReconnect \/ Exit
  BY <1>6 DEF TakeReconnect, Exit, Start, LoopElse, closeVars
<1>7. CASE TakeReconcile \/ TakeRetry \/ \E i \in Item : TakeOperation(i)
  BY <1>1, <1>7 DEF TakeReconcile, TakeRetry, TakeOperation, Start, LoopElse, wakeVars, closeVars
<1>8. CASE Evict \/ FailAll \/ FailNext
  BY <1>1, <1>8 DEF Evict, FailAll, FailNext, RouteElse, CloseElse, RequestReconcile, wakeVars,
    loopVars, closeVars, netVars
<1>9. CASE EndLifetime \/ Disconnect \/ ConnectionLost
  BY <1>9 DEF EndLifetime, Disconnect, ConnectionLost, CloseElse
<1>10. CASE ConnectionUp \/ OnConnectionUp
  BY <1>10 DEF ConnectionUp, OnConnectionUp, NetElse, closeVars
<1>11. CASE Quiescent \/ UNCHANGED vars
  BY <1>1, <1>11 DEF Quiescent, vars, wakeVars, loopVars, closeVars, netVars
<1>12. QED
  BY <1>2, <1>3, <1>4, <1>5, <1>6, <1>7, <1>8, <1>9, <1>10, <1>11 DEF Next, Running, Woken, Closer

\* Once the loop is at rest on a standing connection, every open subscription is
\* subscribed at the broker, unless an earlier unsubscribe of its topic took effect
\* after its call had been given up on (reconcileBroker, handleResult).
THEOREM OpenSubscriptionsSubscribed == Spec => []OpenIsSubscribed
<1>1. IInv /\ BelievedInv => OpenIsSubscribed
  <2>1. SUFFICES ASSUME IInv, BelievedInv, Settled, ~reconcile, NEW i \in registered, Live(i)
                 PROVE  TopicOf[i] \in Topics(actual) \cup unheard
    BY DEF OpenIsSubscribed
  <2>2. TopicOf[i] \in Topics(broker)
    BY <2>1 DEF IInv, RestInv, Settled, Live
  <2>3. QED
    BY <2>1, <2>2 DEF BelievedInv, Settled
<1>2. IInv /\ BelievedInv /\ [Next]_vars => BelievedInv'
  BY Believed
<1>3. QED
  BY <1>1, <1>2, Initially, Invariance, PTL DEF Spec
=============================================================================
