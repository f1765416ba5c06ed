------------------------- MODULE RemoteStream_proofs ------------------------
(***************************************************************************)
(* Proofs about RemoteStream for any sets of subscriptions and callers of  *)
(* Stop, any buffer and any number of attempts: a clean end has stopped    *)
(* the device, a released stream is silent, freshness is current, and the  *)
(* contract of stream.Stream.                                              *)
(***************************************************************************)
EXTENDS RemoteStream, TLAPS

\* The driving goroutine reads the subscription in hand; holds one; has none that
\* a state arrived on; is past the subscriptions.
Reading  == {"listen", "read", "state", "fatal", "deliver", "deliverFatal"}
Attached == Reading \cup {"publish", "show", "unsubscribe", "activate", "close"}
Detached == {"idle", "begun", "attempt", "subscribe", "publish", "show", "unsubscribe",
             "failed", "delay", "giveup"}
Leaving  == {"close", "verdict", "finish", "release", "finish2", "done"}

Alive(c) == sub[c] \in {"open", "broken"}

-----------------------------------------------------------------------------
(* The shared stream state (streamstate/state.go).                         *)

\* A lifecycle snapshot stays one when its fields are set (setStatus's callers).
LEMMA StatusFields ==
  ASSUME NEW s \in Statuses
  PROVE  /\ s.life \in Lives /\ s.access \in Accesses /\ s.data \in Datas /\ s.seen \in BOOLEAN
         /\ \A l \in Lives : [s EXCEPT !.life = l] \in Statuses
         /\ \A a \in Accesses : [s EXCEPT !.access = a] \in Statuses
         /\ \A d \in Datas : [s EXCEPT !.data = d] \in Statuses
         /\ \A l \in Lives, a \in Accesses : [s EXCEPT !.life = l, !.access = a] \in Statuses
         /\ \A l \in Lives, a \in Accesses, d \in Datas :
              [s EXCEPT !.life = l, !.access = a, !.data = d] \in Statuses
         /\ \A d \in Datas : [s EXCEPT !.data = d, !.seen = TRUE] \in Statuses
BY DEF Statuses

\* The operations of the shared state keep its types (streamstate/state.go).
LEMMA StateOperations ==
  ASSUME StateTypeOK
  PROVE  /\ \A new \in Statuses : SetStatus(new) => StateTypeOK'
         /\ Claim \/ Enqueue \/ Refuse \/ Consume \/ UNCHANGED stateVars => StateTypeOK'
         /\ \A err \in Causes : Finish(err) => StateTypeOK'
<1>1. ASSUME NEW new \in Statuses, SetStatus(new) PROVE StateTypeOK'
  BY <1>1 DEF StateTypeOK, SetStatus
<1>2. ASSUME Claim \/ Enqueue \/ Refuse \/ Consume \/ UNCHANGED stateVars PROVE StateTypeOK'
  <2>1. CASE Claim
    BY <2>1 DEF StateTypeOK, Claim
  <2>2. CASE Enqueue \/ Consume
    BY <2>2, BufferAssumption DEF StateTypeOK, Enqueue, Consume
  <2>3. CASE Refuse
    BY <2>3 DEF StateTypeOK, Refuse
  <2>4. CASE UNCHANGED stateVars
    BY <2>4 DEF StateTypeOK, stateVars
  <2>5. QED
    BY <1>2, <2>1, <2>2, <2>3, <2>4
<1>3. ASSUME NEW err \in Causes, Finish(err) PROVE StateTypeOK'
  <2>1. status' \in Statuses
    BY <1>3, StatusFields DEF StateTypeOK, Finish, Lives
  <2>2. QED
    BY <1>3, <2>1 DEF StateTypeOK, Finish
<1>4. QED
  BY <1>1, <1>2, <1>3

-----------------------------------------------------------------------------
\* A subscription that is not closed is the one in hand, of a goroutine that is at
\* work on it.
SubInv ==
  /\ \A c \in Sub : Alive(c) => c = here /\ pc \in Attached
  /\ pc \in Attached \cup {"verdict"} => here \in Sub

\* No freshness outlives its subscription into the attempts that follow it, and a
\* channel holds only what came over its own subscription, a state taken from it too.
DataInv ==
  /\ FreshIsCurrent
  /\ \A c \in Sub : passed[c].kind # "empty" => passed[c].from = c
  /\ pc \in {"state", "fatal"} => heard = here
  /\ pc \in Detached => status.data # "fresh" \/ finished

\* The driving goroutine belongs to a started stream, and only it, or a Stop that
\* came before Start, finishes it; a lost message sends it on its way out.
LifeInv ==
  /\ finished => started /\ pc \in {"idle", "done"}
  /\ pc # "idle" => started
  /\ \A p \in Stopper : stop[p] = "claimed" => started /\ pc = "idle"
  /\ lost => pc \in Leaving /\ (result = "deliver" \/ cancelled)
  /\ pc \in {"finish", "release", "finish2"} => result # "read"
  /\ pc = "delay" => attempt < MaxAttempts
  /\ ~active => started /\ pc \in {"idle", "finish2", "done"}

\* A stream that reads has been activated, and only one that was can end cleanly;
\* then its stop publication has been carried out.
LeaseInv ==
  /\ CleanEndStopsDevice
  /\ ~activated => phase = "connecting" /\ pc \notin Reading \cup {"close", "verdict"}
  /\ pc \in {"finish", "release", "finish2"} /\ result = "nil" => activated
  /\ pc \in {"release", "finish2"} /\ result = "nil" /\ ~unclean => ~leased
  /\ pc = "idle" => ~leased

IInv == TypeOK /\ SubInv /\ DataInv /\ LifeInv /\ LeaseInv

-----------------------------------------------------------------------------
\* The initial state satisfies the invariant (newStatusStream, streamstate.New).
LEMMA InitInv == Init => IInv
<1> SUFFICES ASSUME Init PROVE IInv
  OBVIOUS
<1> USE DEF Init, StateInit
<1>1. TypeOK
  <2>1. status \in Statuses
    BY DEF Statuses, Lives, Accesses, Datas
  <2>2. StateTypeOK
    <3>1. queue \in 0..Buffer
      BY BufferAssumption
    <3>2. QED
      BY <2>1, <3>1 DEF StateTypeOK
  <2>3. attempt \in 0..MaxAttempts
    BY AttemptsAssumption
  <2>4. passed \in [Sub -> Handovers]
    BY DEF Handovers, Empty
  <2>5. QED
    BY <2>2, <2>3, <2>4 DEF TypeOK, Causes
<1>2. SubInv /\ LeaseInv
  BY DEF SubInv, LeaseInv, CleanEndStopsDevice, Alive, Attached, Reading
<1>3. DataInv /\ LifeInv
  BY DEF DataInv, FreshIsCurrent, LifeInv, Empty
<1>4. QED
  BY <1>1, <1>2, <1>3 DEF IInv

\* Every step keeps the types (the whole of stream.go).
LEMMA TypeInv ==
  ASSUME IInv, [Next]_vars
  PROVE  TypeOK'
<1> USE DEF IInv, TypeOK, At, driver, ending, subs, Others
<1>1. CASE Start
  <2>1. StateTypeOK'
    BY <1>1, StateOperations DEF Start
  <2>2. QED
    BY <1>1, <2>1 DEF Start
<1>2. CASE ShowConnecting
  <2>1. StateTypeOK'
    BY <1>2, StateOperations, StatusFields DEF ShowConnecting, StateTypeOK, Lives, Accesses, Datas
  <2>2. QED
    BY <1>2, <2>1, AttemptsAssumption DEF ShowConnecting
<1>3. CASE Attempt
  <2>1. StateTypeOK'
    BY <1>3, StateOperations, StatusFields DEF Attempt, StateTypeOK, Lives, Accesses, Datas
  <2>2. QED
    BY <1>3, <2>1 DEF Attempt
<1>4. CASE Subscribe
  <2>1. StateTypeOK'
    BY <1>4, StateOperations DEF Subscribe
  <2>2. QED
    BY <1>4, <2>1 DEF Subscribe
<1>5. CASE PublishStart
  <2>1. StateTypeOK'
    BY <1>5, StateOperations DEF PublishStart, Publish
  <2>2. QED
    BY <1>5, <2>1 DEF PublishStart, Publish
<1>6. CASE Unsubscribe
  <2>1. StateTypeOK'
    BY <1>6, StateOperations DEF Unsubscribe
  <2>2. QED
    BY <1>6, <2>1 DEF Unsubscribe
<1>7. CASE ShowConnected
  <2>1. StateTypeOK'
    BY <1>7, StateOperations, StatusFields DEF ShowConnected, StateTypeOK, Lives, Accesses, Datas
  <2>2. QED
    BY <1>7, <2>1 DEF ShowConnected
<1>8. CASE Activate \/ Failed
  <2>1. StateTypeOK'
    BY <1>8, StateOperations DEF Activate, Failed
  <2>2. QED
    BY <1>8, <2>1 DEF Activate, Failed
<1>9. CASE Delay \/ GiveUp
  <2>1. StateTypeOK'
    BY <1>9, StateOperations DEF Delay, GiveUp
  <2>2. QED
    BY <1>9, <2>1, AttemptsAssumption DEF Delay, GiveUp, LifeInv, Causes
<1>10. CASE Listen
  <2>1. StateTypeOK'
    BY <1>10, StateOperations DEF Listen
  <2>2. QED
    BY <1>10, <2>1 DEF Listen
<1>11. CASE ContextCase \/ RenewCase
  <2>1. StateTypeOK'
    BY <1>11, StateOperations DEF ContextCase, RenewCase, Publish
  <2>2. QED
    BY <1>11, <2>1 DEF ContextCase, RenewCase, Publish
<1>12. CASE StaleCase
  <2>1. StateTypeOK'
    BY <1>12, StateOperations, StatusFields DEF StaleCase, StateTypeOK, Lives, Accesses, Datas
  <2>2. QED
    BY <1>12, <2>1 DEF StaleCase
<1>13. CASE ReceivedCase
  <2>1. StateTypeOK'
    BY <1>13, StateOperations DEF ReceivedCase, Received
  <2>2. passed' \in [Sub -> Handovers] /\ heard' \in Sub \cup {NoSub}
    <3>1. pc = "read" /\ here \in Sub
      BY <1>13 DEF ReceivedCase, Received, SubInv, Attached, Reading
    <3>2. Empty \in Handovers /\ passed[here].from \in Sub \cup {NoSub}
      BY <3>1 DEF Empty, Handovers
    <3>3. QED
      BY <1>13, <3>1, <3>2 DEF ReceivedCase, Received
  <2>3. QED
    BY <1>13, <2>1, <2>2 DEF ReceivedCase, Received, Causes
<1>14. CASE MarkFresh
  <2>1. StateTypeOK'
    BY <1>14, StateOperations, StatusFields DEF MarkFresh, StateTypeOK, Lives, Accesses, Datas
  <2>2. QED
    BY <1>14, <2>1 DEF MarkFresh
<1>15. CASE Deliver
  <2>1. StateTypeOK'
    BY <1>15, StateOperations DEF Deliver
  <2>2. QED
    BY <1>15, <2>1 DEF Deliver, Causes
<1>16. CASE CloseSubscription
  <2>1. StateTypeOK'
    BY <1>16, StateOperations DEF CloseSubscription
  <2>2. QED
    BY <1>16, <2>1 DEF CloseSubscription
<1>17. CASE Verdict
  <2>1. StateTypeOK'
    BY <1>17, StateOperations, StatusFields DEF Verdict, StateTypeOK, Lives, Accesses, Datas
  <2>2. QED
    BY <1>17, <2>1, AttemptsAssumption DEF Verdict, Causes
<1>18. CASE PublishStop \/ Release
  <2>1. StateTypeOK'
    BY <1>18, StateOperations DEF PublishStop, Release
  <2>2. QED
    BY <1>18, <2>1 DEF PublishStop, Release
<1>19. CASE FinishStream
  <2>1. StateTypeOK'
    BY <1>19, StateOperations DEF FinishStream, LifeInv, Causes
  <2>2. QED
    BY <1>19, <2>1 DEF FinishStream
<1>20. CASE ContextEnds \/ LeaseExpires \/ Receive
  <2>1. StateTypeOK'
    BY <1>20, StateOperations DEF ContextEnds, LeaseExpires, Receive, StopElse
  <2>2. QED
    BY <1>20, <2>1 DEF ContextEnds, LeaseExpires, Receive, StopElse
<1>21. CASE \E c \in Sub : Receiver(c) \/ ReceiveMessage(c) \/ TransportEnds(c)
  <2>1. PICK c \in Sub : ReceiveError(c) \/ Pass(c) \/ ReceiveMessage(c) \/ TransportEnds(c)
    BY <1>21 DEF Receiver
  <2>2. StateTypeOK' /\ UNCHANGED <<driver, ending, heard, leased, stop, cancelled>>
    BY <2>1, StateOperations DEF ReceiveError, Pass, ReceiveMessage, TransportEnds, RcvElse
  <2>3. rcv' \in [Sub -> {"none", "receiving", "message", "error", "ended"}]
    BY <2>1 DEF ReceiveError, Pass, ReceiveMessage, TransportEnds, RcvMoves
  <2>4. sub' \in [Sub -> {"none", "open", "broken", "closed"}]
    BY <2>1 DEF ReceiveError, Pass, ReceiveMessage, TransportEnds
  <2>5. passed' \in [Sub -> Handovers]
    <3>1. CASE Pass(c) /\ rcv[c] \in {"message", "error"}
      BY <3>1 DEF Pass, Handovers
    <3>2. CASE ReceiveError(c) \/ ReceiveMessage(c) \/ TransportEnds(c)
      BY <3>2 DEF ReceiveError, ReceiveMessage, TransportEnds
    <3>3. QED
      BY <2>1, <3>1, <3>2 DEF Pass, RcvMoves
  <2>6. QED
    BY <2>2, <2>3, <2>4, <2>5
<1>22. CASE \E p \in Stopper : Stop(p) \/ StopFinishes(p) \/ StopReturns(p)
  <2>1. StateTypeOK'
    BY <1>22, StateOperations DEF Stop, StopFinishes, StopReturns, Causes
  <2>2. stop' \in [Stopper -> {"idle", "claimed", "waiting", "returned"}]
    BY <1>22 DEF Stop, StopFinishes, StopReturns
  <2>3. cancelled' \in BOOLEAN /\ active' \in BOOLEAN
    BY <1>22 DEF Stop, StopFinishes, StopReturns
  <2>4. QED
    BY <1>22, <2>1, <2>2, <2>3 DEF Stop, StopFinishes, StopReturns, StopElse
<1>23. CASE UNCHANGED vars
  BY <1>23, StateOperations DEF vars
<1>24. QED
  BY <1>1, <1>2, <1>3, <1>4, <1>5, <1>6, <1>7, <1>8, <1>9, <1>10, <1>11, <1>12, <1>13, <1>14, <1>15,
       <1>16, <1>17, <1>18, <1>19, <1>20, <1>21, <1>22, <1>23
     DEF Next, Drive, Ended

\* So it does what it says of subscriptions (connectOnce, run).
LEMMA SubStep ==
  ASSUME IInv, [Next]_vars
  PROVE  SubInv'
<1> USE DEF IInv, TypeOK, SubInv, Alive, Attached, Reading, At, driver, ending, subs, Others
<1>1. CASE Start
  BY <1>1 DEF Start
<1>2. CASE ShowConnecting \/ Attempt
  BY <1>2 DEF ShowConnecting, Attempt
<1>3. CASE Subscribe
  BY <1>3, SubAssumption DEF Subscribe
<1>4. CASE PublishStart
  BY <1>4 DEF PublishStart, Publish
<1>5. CASE Unsubscribe
  BY <1>5 DEF Unsubscribe
<1>6. CASE ShowConnected
  BY <1>6 DEF ShowConnected
<1>7. CASE Activate \/ Failed
  BY <1>7 DEF Activate, Failed
<1>8. CASE Delay \/ GiveUp
  BY <1>8 DEF Delay, GiveUp
<1>9. CASE Listen
  BY <1>9 DEF Listen
<1>10. CASE ContextCase \/ RenewCase \/ StaleCase
  BY <1>10 DEF ContextCase, RenewCase, Publish, StaleCase
<1>11. CASE ReceivedCase
  BY <1>11 DEF ReceivedCase, Received
<1>12. CASE MarkFresh
  BY <1>12 DEF MarkFresh
<1>13. CASE Deliver
  BY <1>13 DEF Deliver
<1>14. CASE CloseSubscription
  BY <1>14 DEF CloseSubscription
<1>15. CASE Verdict
  BY <1>15, SubAssumption DEF Verdict
<1>16. CASE PublishStop \/ Release
  BY <1>16 DEF PublishStop, Release
<1>17. CASE FinishStream
  BY <1>17 DEF FinishStream
<1>18. CASE ContextEnds \/ LeaseExpires \/ Receive
  BY <1>18 DEF ContextEnds, StopElse, LeaseExpires, Receive
<1>19. CASE \E c \in Sub : Receiver(c) \/ ReceiveMessage(c) \/ TransportEnds(c)
  BY <1>19 DEF Receiver, ReceiveError, Pass, ReceiveMessage, TransportEnds, RcvMoves, RcvElse
<1>20. CASE \E p \in Stopper : Stop(p) \/ StopFinishes(p) \/ StopReturns(p)
  BY <1>20 DEF Stop, StopFinishes, StopReturns, StopElse
<1>21. CASE UNCHANGED vars
  BY <1>21 DEF vars
<1>22. QED
  BY <1>1, <1>2, <1>3, <1>4, <1>5, <1>6, <1>7, <1>8, <1>9, <1>10, <1>11, <1>12, <1>13, <1>14, <1>15,
       <1>16, <1>17, <1>18, <1>19, <1>20, <1>21
     DEF Next, Drive, Ended

\* What it says of freshness (the callers of SetStatus).
LEMMA DataStep ==
  ASSUME IInv, [Next]_vars
  PROVE  DataInv'
<1> USE DEF IInv, TypeOK, StateTypeOK, Statuses, DataInv, FreshIsCurrent, Detached, LifeInv, At,
     stateVars, driver, ending, subs, Others
<1>1. CASE Start
  BY <1>1 DEF Start, Claim
<1>2. CASE ShowConnecting \/ Attempt
  BY <1>2 DEF ShowConnecting, SetStatus, Attempt
<1>3. CASE Subscribe
  BY <1>3 DEF Subscribe
<1>4. CASE PublishStart
  BY <1>4 DEF PublishStart, Publish
<1>5. CASE Unsubscribe
  BY <1>5 DEF Unsubscribe
<1>6. CASE ShowConnected
  BY <1>6 DEF ShowConnected, SetStatus
<1>7. CASE Activate \/ Failed
  BY <1>7 DEF Activate, Failed
<1>8. CASE Delay \/ GiveUp
  BY <1>8 DEF Delay, GiveUp
<1>9. CASE Listen
  BY <1>9 DEF Listen
<1>10. CASE ContextCase \/ RenewCase \/ StaleCase
  BY <1>10 DEF ContextCase, RenewCase, Publish, StaleCase, SetStatus
<1>11. CASE ReceivedCase
  <2>1. pc = "read" /\ here \in Sub /\ passed[here].from = here
    BY <1>11 DEF ReceivedCase, Received, SubInv, Attached, Reading
  <2>2. /\ UNCHANGED <<stateVars, here>> /\ passed' = [passed EXCEPT ![here] = Empty]
        /\ \/ pc' \in {"close", "read", "deliver", "deliverFatal"} /\ heard' = heard
           \/ pc' \in {"state", "fatal"} /\ heard' = here
    BY <1>11, <2>1 DEF ReceivedCase, Received
  <2>3. \A c \in Sub : passed'[c].kind # "empty" => passed'[c].from = c
    BY <2>2 DEF Empty
  <2>4. ~finished /\ status.data = "fresh" => here # NoSub /\ heard' = here
    BY <2>2
  <2>5. QED
    BY <2>1, <2>2, <2>3, <2>4
<1>12. CASE MarkFresh
  <2>1. here # NoSub
    BY <1>12, SubAssumption DEF MarkFresh, SubInv, Attached, Reading
  <2>2. QED
    BY <1>12, <2>1 DEF MarkFresh, SetStatus
<1>13. CASE Deliver
  BY <1>13 DEF Deliver, Enqueue, Refuse
<1>14. CASE CloseSubscription
  BY <1>14 DEF CloseSubscription
<1>15. CASE Verdict
  BY <1>15 DEF Verdict, SetStatus
<1>16. CASE PublishStop \/ Release
  BY <1>16 DEF PublishStop, Release
<1>17. CASE FinishStream
  BY <1>17 DEF FinishStream, Finish
<1>18. CASE ContextEnds \/ LeaseExpires \/ Receive
  BY <1>18 DEF ContextEnds, StopElse, LeaseExpires, Receive, Consume
<1>19. CASE \E c \in Sub : Receiver(c) \/ ReceiveMessage(c) \/ TransportEnds(c)
  BY <1>19 DEF Receiver, ReceiveError, Pass, ReceiveMessage, TransportEnds, RcvMoves, RcvElse
<1>20. CASE \E p \in Stopper : Stop(p) \/ StopFinishes(p) \/ StopReturns(p)
  BY <1>20 DEF Stop, StopFinishes, StopReturns, StopElse, Claim, Finish
<1>21. CASE UNCHANGED vars
  BY <1>21 DEF vars
<1>22. QED
  BY <1>1, <1>2, <1>3, <1>4, <1>5, <1>6, <1>7, <1>8, <1>9, <1>10, <1>11, <1>12, <1>13, <1>14, <1>15,
       <1>16, <1>17, <1>18, <1>19, <1>20, <1>21
     DEF Next, Drive, Ended

\* Of the life of the stream (Start, run, Stop, finish).
LEMMA LifeStep ==
  ASSUME IInv, [Next]_vars
  PROVE  LifeInv'
<1> USE DEF IInv, TypeOK, StateTypeOK, LifeInv, Leaving, At, stateVars, driver, ending, subs, Others
<1>1. CASE Start
  BY <1>1 DEF Start, Claim
<1>2. CASE ShowConnecting \/ Attempt
  BY <1>2 DEF ShowConnecting, SetStatus, Attempt
<1>3. CASE Subscribe
  BY <1>3 DEF Subscribe
<1>4. CASE PublishStart
  BY <1>4 DEF PublishStart, Publish
<1>5. CASE Unsubscribe
  BY <1>5 DEF Unsubscribe
<1>6. CASE ShowConnected
  BY <1>6 DEF ShowConnected, SetStatus
<1>7. CASE Activate \/ Failed
  BY <1>7, AttemptsAssumption DEF Activate, Failed
<1>8. CASE Delay \/ GiveUp
  BY <1>8, AttemptsAssumption DEF Delay, GiveUp
<1>9. CASE Listen
  BY <1>9 DEF Listen
<1>10. CASE ContextCase
  BY <1>10 DEF ContextCase
<1>11. CASE RenewCase
  BY <1>11 DEF RenewCase, Publish
<1>12. CASE StaleCase
  BY <1>12 DEF StaleCase, SetStatus
<1>13. CASE ReceivedCase
  BY <1>13 DEF ReceivedCase, Received
<1>14. CASE MarkFresh
  BY <1>14 DEF MarkFresh, SetStatus
<1>15. CASE Deliver
  BY <1>15 DEF Deliver, Enqueue, Refuse
<1>16. CASE CloseSubscription
  BY <1>16 DEF CloseSubscription
<1>17. CASE Verdict
  <2>1. pc = "verdict" /\ UNCHANGED <<started, finished, final, lost, ending, stop, cancelled, leased>>
    BY <1>17 DEF Verdict, SetStatus
  <2>2. \/ /\ pc' = "finish" /\ (cancelled \/ result # "read")
           /\ result' = IF cancelled THEN "nil" ELSE result
           /\ UNCHANGED phase
        \/ /\ pc' = "attempt" /\ ~cancelled /\ result = "read" /\ result' = result
           /\ phase' = "reconnecting"
    BY <1>17 DEF Verdict
  <2>3. QED
    BY <2>1, <2>2
<1>18. CASE PublishStop
  BY <1>18 DEF PublishStop
<1>19. CASE Release
  BY <1>19 DEF Release
<1>20. CASE FinishStream
  BY <1>20 DEF FinishStream, Finish
<1>21. CASE ContextEnds \/ LeaseExpires \/ Receive
  BY <1>21 DEF ContextEnds, StopElse, LeaseExpires, Receive, Consume
<1>22. CASE \E c \in Sub : Receiver(c) \/ ReceiveMessage(c) \/ TransportEnds(c)
  BY <1>22 DEF Receiver, ReceiveError, Pass, ReceiveMessage, TransportEnds, RcvMoves, RcvElse
<1>23. CASE \E p \in Stopper : Stop(p) \/ StopFinishes(p) \/ StopReturns(p)
  BY <1>23 DEF Stop, StopFinishes, StopReturns, StopElse, Claim, Finish
<1>24. CASE UNCHANGED vars
  BY <1>24 DEF vars
<1>25. QED
  BY <1>1, <1>2, <1>3, <1>4, <1>5, <1>6, <1>7, <1>8, <1>9, <1>10, <1>11, <1>12, <1>13, <1>14, <1>15,
       <1>16, <1>17, <1>18, <1>19, <1>20, <1>21, <1>22, <1>23, <1>24
     DEF Next, Drive, Ended

\* And of the lease (publishStart, publishStop, Start's activation).
LEMMA LeaseStep ==
  ASSUME IInv, [Next]_vars
  PROVE  LeaseInv'
<1> USE DEF IInv, TypeOK, LeaseInv, CleanEndStopsDevice, LifeInv, Reading, At, stateVars, driver,
     ending, subs, Others
<1>1. CASE Start
  BY <1>1 DEF Start, Claim
<1>2. CASE ShowConnecting \/ Attempt
  BY <1>2 DEF ShowConnecting, SetStatus, Attempt
<1>3. CASE Subscribe
  BY <1>3 DEF Subscribe
<1>4. CASE PublishStart
  BY <1>4 DEF PublishStart, Publish
<1>5. CASE Unsubscribe
  BY <1>5 DEF Unsubscribe
<1>6. CASE ShowConnected
  BY <1>6 DEF ShowConnected, SetStatus
<1>7. CASE Activate \/ Failed
  BY <1>7 DEF Activate, Failed
<1>8. CASE Delay \/ GiveUp
  BY <1>8 DEF Delay, GiveUp
<1>9. CASE Listen
  BY <1>9 DEF Listen
<1>10. CASE ContextCase
  BY <1>10 DEF ContextCase
<1>11. CASE RenewCase
  BY <1>11 DEF RenewCase, Publish
<1>12. CASE StaleCase
  BY <1>12 DEF StaleCase, SetStatus
<1>13. CASE ReceivedCase
  BY <1>13 DEF ReceivedCase, Received
<1>14. CASE MarkFresh
  BY <1>14 DEF MarkFresh, SetStatus
<1>15. CASE Deliver
  BY <1>15 DEF Deliver, Enqueue, Refuse
<1>16. CASE CloseSubscription
  BY <1>16 DEF CloseSubscription
<1>17. CASE Verdict
  <2>1. pc = "verdict" /\ UNCHANGED <<started, finished, final, lost, ending, stop, cancelled, leased>>
    BY <1>17 DEF Verdict, SetStatus
  <2>2. \/ /\ pc' = "finish" /\ (cancelled \/ result # "read")
           /\ result' = IF cancelled THEN "nil" ELSE result
           /\ UNCHANGED phase
        \/ /\ pc' = "attempt" /\ ~cancelled /\ result = "read" /\ result' = result
           /\ phase' = "reconnecting"
    BY <1>17 DEF Verdict
  <2>3. QED
    BY <2>1, <2>2
<1>18. CASE PublishStop
  BY <1>18 DEF PublishStop
<1>19. CASE Release
  BY <1>19 DEF Release
<1>20. CASE FinishStream
  BY <1>20 DEF FinishStream, Finish
<1>21. CASE ContextEnds \/ LeaseExpires \/ Receive
  BY <1>21 DEF ContextEnds, StopElse, LeaseExpires, Receive, Consume
<1>22. CASE \E c \in Sub : Receiver(c) \/ ReceiveMessage(c) \/ TransportEnds(c)
  BY <1>22 DEF Receiver, ReceiveError, Pass, ReceiveMessage, TransportEnds, RcvMoves, RcvElse
<1>23. CASE \E p \in Stopper : Stop(p) \/ StopFinishes(p) \/ StopReturns(p)
  BY <1>23 DEF Stop, StopFinishes, StopReturns, StopElse, Claim, Finish
<1>24. CASE UNCHANGED vars
  BY <1>24 DEF vars
<1>25. QED
  BY <1>1, <1>2, <1>3, <1>4, <1>5, <1>6, <1>7, <1>8, <1>9, <1>10, <1>11, <1>12, <1>13, <1>14, <1>15,
       <1>16, <1>17, <1>18, <1>19, <1>20, <1>21, <1>22, <1>23, <1>24
     DEF Next, Drive, Ended

-----------------------------------------------------------------------------
\* What the abstract stream calls its phase and what it holds.
Phase == IF finished THEN "ended" ELSE IF started THEN "running" ELSE "idle"
Held  == \E c \in Sub : Alive(c)

\* A step that changes no more than what is held acquires (while the stream runs),
\* releases or stutters.
LEMMA HeldStep ==
  ASSUME UNCHANGED <<started, finished, final, queue, lost, cancelled>>,
         Held' => Held \/ Phase = "running"
  PROVE  [Contract!Next]_(Contract!vars)
<1> USE DEF Phase, Held, Alive, Contract!vars, Contract!Next
<1>1. CASE Held' = Held
  BY <1>1
<1>2. CASE ~Held'
  BY <1>2 DEF Contract!Release
<1>3. CASE Held' /\ Phase = "running"
  BY <1>3 DEF Contract!Acquire
<1>4. QED
  BY <1>1, <1>2, <1>3

\* Every step is one of the contract's, or leaves what it speaks of alone
\* (stream/types.go).
LEMMA ContractStep ==
  ASSUME IInv, [Next]_vars
  PROVE  [Contract!Next]_(Contract!vars)
<1> DEFINE Same == UNCHANGED <<started, finished, final, queue, lost, cancelled>>
<1>a. pc \notin {"idle", "done"} => Phase = "running" /\ ~finished
  BY DEF IInv, LifeInv, Phase
<1>b. UNCHANGED sub => Held' = Held
  BY DEF Held, Alive
<1>1. ASSUME \/ ShowConnecting \/ Attempt \/ Subscribe \/ PublishStart \/ Unsubscribe \/ ShowConnected
             \/ Activate \/ Failed \/ Delay \/ GiveUp \/ Listen \/ ContextCase \/ RenewCase \/ StaleCase
             \/ ReceivedCase \/ MarkFresh \/ CloseSubscription \/ Verdict \/ PublishStop \/ Release
      PROVE  Same /\ pc \notin {"idle", "done"}
  <2> USE DEF At, stateVars, Others
  <2>1. CASE ShowConnecting \/ Attempt \/ ShowConnected \/ StaleCase \/ MarkFresh
    BY <2>1 DEF ShowConnecting, Attempt, ShowConnected, StaleCase, MarkFresh, SetStatus
  <2>2. CASE Subscribe \/ PublishStart \/ Unsubscribe \/ Activate \/ Failed \/ Delay \/ GiveUp
    BY <2>2 DEF Subscribe, PublishStart, Unsubscribe, Activate, Failed, Delay, GiveUp
  <2>3. CASE Listen \/ ContextCase \/ RenewCase \/ ReceivedCase
    BY <2>3 DEF Listen, ContextCase, RenewCase, ReceivedCase, Received
  <2>4. CASE CloseSubscription \/ PublishStop \/ Release
    BY <2>4 DEF CloseSubscription, PublishStop, Release
  <2>5. CASE Verdict
    BY <2>5 DEF Verdict, SetStatus
  <2>6. QED
    BY <1>1, <2>1, <2>2, <2>3, <2>4, <2>5
<1>2. ASSUME \/ LeaseExpires
             \/ \E c \in Sub : Receiver(c) \/ ReceiveMessage(c) \/ TransportEnds(c)
             \/ \E p \in Stopper : StopReturns(p)
      PROVE  Same /\ (Held' => Held)
  <2> USE DEF stateVars, subs, Held, Alive
  <2>1. CASE LeaseExpires \/ \E p \in Stopper : StopReturns(p)
    BY <2>1 DEF LeaseExpires, StopReturns, StopElse, Others
  <2>2. CASE \E c \in Sub : Receiver(c) \/ ReceiveMessage(c)
    BY <2>2 DEF Receiver, ReceiveError, Pass, ReceiveMessage, RcvElse, Others
  <2>3. CASE \E c \in Sub : TransportEnds(c)
    BY <2>3 DEF TransportEnds, RcvElse, Others, IInv, TypeOK
  <2>4. QED
    BY <1>2, <2>1, <2>2, <2>3
<1>3. CASE Start
  <2>1. UNCHANGED sub /\ ~started /\ ~finished /\ started'
        /\ UNCHANGED <<finished, final, queue, lost, cancelled>>
    BY <1>3 DEF Start, Claim, subs, Others, IInv, LifeInv
  <2>2. QED
    BY <2>1, <1>b DEF Contract!Next, Contract!Start, Held, Alive
<1>4. CASE \E p \in Stopper : Stop(p)
  <2>1. PICK p \in Stopper : Stop(p)
    BY <1>4
  <2>2. UNCHANGED sub
    BY <2>1 DEF Stop, StopElse, subs
  <2>3. CASE Claim /\ UNCHANGED cancelled
    <3>1. ~started /\ ~finished /\ started' /\ UNCHANGED <<finished, final, queue, lost, cancelled>>
      BY <2>3 DEF Claim, IInv, LifeInv
    <3>2. QED
      BY <3>1, <2>2, <1>b DEF Contract!Next, Contract!Start, Held, Alive
  <2>4. CASE UNCHANGED stateVars /\ cancelled' = (cancelled \/ pc # "idle")
    <3>1. cancelled' = cancelled \/ cancelled'
      BY <2>4 DEF IInv, TypeOK
    <3>2. QED
      BY <3>1, <2>2, <2>4, <1>b
         DEF Contract!Next, Contract!Cancel, Contract!vars, Held, Alive, stateVars
  <2>5. QED
    BY <2>1, <2>3, <2>4 DEF Stop
<1>5. CASE \E p \in Stopper : StopFinishes(p)
  <2>1. PICK p \in Stopper : StopFinishes(p)
    BY <1>5
  <2>2. /\ UNCHANGED <<sub, started, queue, lost, cancelled>> /\ started /\ ~lost /\ ~Held
    BY <2>1 DEF StopFinishes, Finish, StopElse, subs, stateVars, Held, IInv, LifeInv, SubInv,
                Attached, Reading, Leaving
  <2>3. IF finished THEN UNCHANGED <<finished, final>>
        ELSE UNCHANGED <<finished, final>> \/ (finished' /\ final' = "nil")
    BY <2>1 DEF StopFinishes, Finish, stateVars
  <2>4. QED
    BY <2>2, <2>3, <1>b DEF Contract!Next, Contract!End, Contract!vars, Held, Alive, Causes
<1>6. CASE FinishStream
  <2> DEFINE end == IF result = "nil" /\ unclean THEN "cleanup" ELSE result
  <2>1. /\ UNCHANGED <<sub, started, queue, lost, cancelled>>
        /\ ~finished /\ finished' /\ final' = end
    BY <1>6, <1>a DEF FinishStream, Finish, subs, Others, At
  <2>2. started /\ ~Held /\ end \in Causes /\ (lost => end = "deliver" \/ cancelled)
    BY <1>6 DEF FinishStream, At, Held, IInv, TypeOK, LifeInv, SubInv, Attached, Reading, Causes
  <2>3. QED
    BY <2>1, <2>2, <1>b DEF Contract!Next, Contract!End, Held, Alive
<1>7. CASE Deliver
  <2>1. UNCHANGED sub /\ Phase = "running" /\ ~lost /\ UNCHANGED <<started, finished, final, cancelled>>
    BY <1>7, <1>a DEF Deliver, Enqueue, Refuse, stateVars, subs, Others, At, IInv, LifeInv, Leaving
  <2>2. \/ queue < Buffer /\ queue' = queue + 1 /\ UNCHANGED lost
        \/ queue = Buffer /\ lost' = TRUE /\ UNCHANGED queue
        \/ UNCHANGED <<queue, lost>>
    BY <1>7 DEF Deliver, Enqueue, Refuse, stateVars
  <2>3. QED
    BY <2>1, <2>2, <1>b
       DEF Contract!Next, Contract!Deliver, Contract!Lose, Contract!vars, Phase, Held, Alive
<1>8. CASE Receive
  BY <1>8, <1>b DEF Receive, Consume, subs, Others, Contract!Next, Contract!Consume, Held, Alive
<1>9. CASE ContextEnds
  BY <1>9, <1>b DEF ContextEnds, stateVars, StopElse, subs, Contract!Next, Contract!Cancel, Held, Alive
<1>10. CASE UNCHANGED vars
  BY <1>10, <1>b DEF vars, stateVars, subs, Others, Contract!vars, Held, Alive
<1>11. QED
  BY <1>1, <1>2, <1>3, <1>4, <1>5, <1>6, <1>7, <1>8, <1>9, <1>10, <1>a, HeldStep DEF Next, Drive, Ended

-----------------------------------------------------------------------------
\* The invariant holds throughout (remote/stream.go, whole).
THEOREM Invariance == Spec => []IInv
<1>1. IInv /\ [Next]_vars => IInv'
  BY TypeInv, SubStep, DataStep, LifeStep, LeaseStep DEF IInv
<1>2. QED
  BY <1>1, InitInv, PTL DEF Spec

\* A state received before a reconnection never shows as fresh after it (SetStatus).
THEOREM FreshnessIsCurrent == Spec => []FreshIsCurrent
<1>1. IInv => FreshIsCurrent
  BY DEF IInv, DataInv
<1>2. QED
  BY <1>1, Invariance, PTL

\* A stream that reports a clean end has told the device to stop (finish, publishStop).
THEOREM DeviceIsStopped == Spec => []CleanEndStopsDevice
<1>1. IInv => CleanEndStopsDevice
  BY DEF IInv, LeaseInv
<1>2. QED
  BY <1>1, Invariance, PTL

\* A stream that has released its client publishes nothing more (finish, release).
THEOREM ReleaseIsSilent == Spec => []ReleasedIsSilent
<1>1. IInv => ReleasedIsSilent
  BY DEF IInv, TypeOK, LifeInv, SubInv, Alive, Attached, Reading, ReleasedIsSilent
<1>2. QED
  BY <1>1, Invariance, PTL

\* The remote stream implements the contract of stream.Stream: it runs once, loses
\* no message silently, and ends once, holding nothing.
THEOREM RemoteKeepsContract == Spec => KeepsContract
<1>1. Init => Contract!Init
  BY DEF Init, StateInit, Contract!Init
<1>2. QED
  BY <1>1, ContractStep, Invariance, PTL DEF Spec, Contract!Spec, KeepsContract
=============================================================================
