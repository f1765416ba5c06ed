------------------------- MODULE RemoteHTTP_proofs -------------------------
(***************************************************************************)
(* Proofs about RemoteHTTP for any number of requests, subscriptions and   *)
(* duplicate deliveries: IInv is inductive, the safety properties follow   *)
(* from it, and every step is a step of RoundTrips or a stutter.           *)
(***************************************************************************)
EXTENDS RemoteHTTP, TLAPS

USE DistinctNames, CopiesAssumption DEF Sender, Unlocked, Early, Ready,
    httpVars, callVars, sendVars, deviceVars, rcvVars, closeVars

\* Nothing is registered, sent or subscribed in the initial state.
LEMMA InitInv == Init => IInv
<1>. SUFFICES ASSUME Init PROVE IInv OBVIOUS
<1>1. TypeOK
  <2>1. 0 \in 0..MaxCopies OBVIOUS
  <2>. QED BY <2>1 DEF Init, TypeOK
<1>2. MutexInv /\ PendingInv BY DEF Init, MutexInv, PendingInv
<1>3. TransitInv BY DEF Init, TransitInv
<1>4. ReceiverInv /\ CloseInv BY DEF Init, ReceiverInv, CloseInv
<1>5. NoWaiterForgotten BY DEF Init, NoWaiterForgotten
<1>. QED BY <1>1, <1>2, <1>3, <1>4, <1>5 DEF IInv

\* Steps of a caller by itself.
LEMMA CallerInv ==
  ASSUME IInv, NEW r \in Req, Caller(r)
  PROVE  IInv'
<1> USE DEF IInv, TypeOK, MutexInv, PendingInv, TransitInv, ReceiverInv,
            CloseInv, NoWaiterForgotten
<1>1. CASE EnsureSubscription(r)
  BY <1>1, SMTT(30) DEF EnsureSubscription, Step
<1>2. CASE RandomFails(r)
  BY <1>2, SMTT(30) DEF RandomFails, Step
<1>3. CASE Register(r)
  <2>1. CASE closed \/ cur # mine[r]
    BY <1>3, <2>1, SMTT(60) DEF Register, Step
  <2>2. CASE ~closed /\ cur = mine[r]
    <3>1. pc[r] = "ensured" BY <1>3 DEF Register, Step
    <3>2. mine[r] \in Sub BY <2>2, <3>1
    <3>3. TypeOK' BY <1>3, <2>2 DEF Register, Step
    <3>4. MutexInv' /\ ReceiverInv' /\ CloseInv'
      BY <1>3, <2>2 DEF Register, Step
    <3>5. PendingInv' BY <1>3, <2>2, <3>2 DEF Register, Step
    <3>6. TransitInv' BY <1>3, <2>2, <3>1 DEF Register, Step
    <3>7. NoWaiterForgotten' BY <1>3, <2>2 DEF Register, Step
    <3>. QED BY <3>3, <3>4, <3>5, <3>6, <3>7
  <2>. QED BY <2>1, <2>2
<1>4. CASE EncodeFails(r)
  BY <1>4, SMTT(30) DEF EncodeFails, Step
<1>5. CASE Publish(r)
  BY <1>5, SMTT(30) DEF Publish, Step
<1>6. CASE TakeResult(r)
  BY <1>6, SMTT(30) DEF TakeResult, Step
<1>7. CASE ContextDone(r)
  BY <1>7, SMTT(30) DEF ContextDone, Step
<1>8. CASE Unregister(r)
  BY <1>8, SMTT(30) DEF Unregister, Step
<1>9. CASE Leave(r)
  BY <1>9, SMTT(30) DEF Leave, Step
<1>. QED BY <1>1, <1>2, <1>3, <1>4, <1>5, <1>6, <1>7, <1>8, <1>9 DEF Caller

\* The start of a call, the return of a transport call, the end of a context.
LEMMA TransportInv ==
  ASSUME IInv, NEW r \in Req, Begin(r) \/ TransportReturns(r) \/ Cancel(r)
  PROVE  IInv'
<1> USE DEF IInv, TypeOK, MutexInv, PendingInv, TransitInv, ReceiverInv,
            CloseInv, NoWaiterForgotten
<1>1. CASE Begin(r)
  BY <1>1, SMTT(30) DEF Begin, Step
<1>2. CASE Subscribed(r)
  <2>. PICK s \in Sub :
         /\ sub[s] = "unused" /\ sub' = [sub EXCEPT ![s] = "open"]
         /\ rcv' = [rcv EXCEPT ![s] = "receiving"]
         /\ cur' = s /\ mine' = [mine EXCEPT ![r] = s]
    BY <1>2 DEF Subscribed
  <2>0. mu = r /\ cur = None /\ pending = {} 
    BY <1>2 DEF Subscribed
  <2>1. TypeOK' BY <1>2 DEF Subscribed
  <2>2. MutexInv' /\ PendingInv' BY <1>2, <2>0 DEF Subscribed
  <2>3. TransitInv' BY <1>2 DEF Subscribed
  <2>4. ReceiverInv' BY <1>2, <2>0 DEF Subscribed
  <2>5. CloseInv' /\ NoWaiterForgotten' BY <1>2 DEF Subscribed
  <2>. QED BY <2>1, <2>2, <2>3, <2>4, <2>5
<1>3. CASE SubscribeFailed(r)
  BY <1>3, SMTT(30) DEF SubscribeFailed, Step
<1>4. CASE Published(r)
  BY <1>4, SMTT(30) DEF Published, Step
<1>5. CASE PublishFailed(r)
  BY <1>5, SMTT(30) DEF PublishFailed, Step
<1>6. CASE Cancel(r)
  BY <1>6, SMTT(30) DEF Cancel
<1>. QED BY <1>1, <1>2, <1>3, <1>4, <1>5, <1>6 DEF TransportReturns

\* Steps of a receive goroutine, and the transport ending a subscription.
LEMMA ReceiveInv ==
  ASSUME IInv, NEW s \in Sub, Receiver(s) \/ TransportEnds(s)
  PROVE  IInv'
<1> USE DEF IInv, TypeOK, MutexInv, PendingInv, TransitInv, ReceiverInv,
            CloseInv, NoWaiterForgotten
<1>1. CASE ReceiveMessage(s)
  BY <1>1, SMTT(30) DEF ReceiveMessage, ReceiverMoves
<1>2. CASE ReceiveError(s)
  BY <1>2, SMTT(30) DEF ReceiveError, ReceiverMoves
<1>3. CASE LookUp(s)
  BY <1>3, SMTT(30) DEF LookUp, ReceiverMoves
<1>4. CASE ReceiverSends(s)
  BY <1>4, SMTT(30) DEF ReceiverSends, SendTo
<1>5. CASE ReceiverResumes(s)
  BY <1>5, SMTT(30) DEF ReceiverResumes, ReceiverMoves
<1>6. CASE SubscriptionFailed(s)
  BY <1>6, SMTT(30) DEF SubscriptionFailed, ReceiverMoves
<1>7. CASE TransportEnds(s)
  BY <1>7, SMTT(30) DEF TransportEnds
<1>. QED BY <1>1, <1>2, <1>3, <1>4, <1>5, <1>6, <1>7 DEF Receiver

\* Steps of Close.
LEMMA CloserInv ==
  ASSUME IInv, CloseBegin \/ Closing
  PROVE  IInv'
<1> USE DEF IInv, TypeOK, MutexInv, PendingInv, TransitInv, ReceiverInv,
            CloseInv, NoWaiterForgotten
<1>1. CASE CloseBegin
  BY <1>1, SMTT(30) DEF CloseBegin
<1>2. CASE CloserSends
  BY <1>2, SMTT(30) DEF CloserSends, SendTo
<1>3. CASE CloseSubscription
  <2>1. TypeOK' BY <1>3 DEF CloseSubscription
  <2>2. MutexInv' /\ PendingInv' BY <1>3 DEF CloseSubscription
  <2>3. TransitInv' BY <1>3 DEF CloseSubscription
  <2>4. ReceiverInv'
    <3>1. cur = None BY <1>3 DEF CloseSubscription
    <3>2. ASSUME NEW s \in Sub PROVE (sub[s] = "unused" <=> rcv[s] = "none")'
      BY <1>3, <3>1, <3>2 DEF CloseSubscription
    <3>. QED BY <1>3, <3>1, <3>2 DEF CloseSubscription
  <2>5. CloseInv' /\ NoWaiterForgotten' BY <1>3 DEF CloseSubscription
  <2>. QED BY <2>1, <2>2, <2>3, <2>4, <2>5
<1>4. CASE CloseReturns
  BY <1>4, SMTT(30) DEF CloseReturns
<1>. QED BY <1>1, <1>2, <1>3, <1>4 DEF Closing

\* IInv is an invariant: every variable keeps its type, and mutex, pending map,
\* result channels, receive goroutines and Close stay in step with each other.
THEOREM Invariance == Spec => []IInv
<1>1. IInv /\ [Next]_vars => IInv'
  <2>1. CASE UNCHANGED vars
    BY <2>1 DEF vars, IInv, TypeOK, MutexInv, PendingInv, TransitInv,
                ReceiverInv, CloseInv, NoWaiterForgotten
  <2>. QED BY <2>1, CallerInv, TransportInv, ReceiveInv, CloserInv
           DEF Next, Quiescent
<1>. QED BY <1>1, InitInv, PTL DEF Spec

\* Type correctness of the round tripper's state.
THEOREM TypeCorrect == Spec => []TypeOK
<1>1. IInv => TypeOK BY DEF IInv
<1>. QED BY <1>1, Invariance, PTL

\* RoundTrip never blocks on a result nobody is left to send: the entry is in
\* pending, with a sender, or answered.
THEOREM WaitersAccountedFor == Spec => []NoWaiterForgotten
<1>1. IInv => NoWaiterForgotten BY DEF IInv
<1>. QED BY <1>1, Invariance, PTL

\* receive, subscriptionFailed and close never send to a full result channel.
THEOREM SendersNeverBlock == Spec => []SendNeverBlocks
<1>1. IInv => SendNeverBlocks BY DEF IInv, TransitInv, SendNeverBlocks
<1>. QED BY <1>1, Invariance, PTL

\* Every entry of pending belongs to the current subscription, whose receive
\* goroutine is alive.
THEOREM PendingIsServed == Spec => []PendingHasReceiver
<1>1. IInv => PendingHasReceiver
  BY DEF IInv, PendingInv, ReceiverInv, PendingHasReceiver
<1>. QED BY <1>1, Invariance, PTL

\* No Publish or Subscribe of the transport runs once Close has set r.closed.
THEOREM QuietOnceClosed == Spec => []ClosedIsQuiet
<1>1. IInv => ClosedIsQuiet
  <2>. SUFFICES ASSUME IInv, closed PROVE mu = None /\
                \A r \in Req : pc[r] \notin {"subscribing", "publishing"}
    BY DEF ClosedIsQuiet
  <2>1. mu = None BY DEF IInv, CloseInv
  <2>. QED BY <2>1 DEF IInv, MutexInv
<1>. QED BY <1>1, Invariance, PTL

\* Close returns only when no call it let in is running and pending is empty.
THEOREM CloseWaitsForCalls == Spec => []CloseDrains
<1>1. IInv => CloseDrains
  <2>. SUFFICES ASSUME IInv, closer = "done"
                PROVE /\ pending = {} /\ \A r \in Req : pc[r] \in {"idle", "done"}
                      /\ \A s \in Sub : rcv[s] \notin {"none", "done"} => sub[s] = "ended"
    BY DEF CloseDrains
  <2>1. closed /\ cur = None /\ pending = {} BY DEF IInv, CloseInv
  <2>2. ASSUME NEW r \in Req PROVE pc[r] \in {"idle", "done"}
    BY <2>2 DEF IInv, CloseInv
  <2>3. ASSUME NEW s \in Sub, rcv[s] \notin {"none", "done"} PROVE sub[s] = "ended"
    BY <2>1, <2>3 DEF IInv, TypeOK, ReceiverInv
  <2>. QED BY <2>1, <2>2, <2>3
<1>. QED BY <1>1, Invariance, PTL

\* Each step of the round tripper is a step of RoundTrips or leaves it alone:
\* calls start only before Close, and Close returns after the last of them.
THEOREM Refinement == Spec => ImplementsRoundTrips
<1>1. Init => RT!Init
  BY DEF Init, RT!Init, Gate, Call
<1>2. IInv /\ [Next]_vars => [RT!Next]_(RT!vars)
  <2>. SUFFICES ASSUME IInv, [Next]_vars PROVE RT!Next \/ UNCHANGED <<Gate, Call>>
    BY DEF RT!vars
  <2>. USE DEF IInv, TypeOK, Gate, Call
  <2>1. ASSUME NEW r \in Req, Begin(r) PROVE RT!Start(r) \/ RT!Refuse(r)
    <3>1. CASE closed
      BY <2>1, <3>1 DEF Begin, Step, CloseInv, RT!Refuse, RT!Move
    <3>2. CASE ~closed
      BY <2>1, <3>2 DEF Begin, Step, CloseInv, RT!Start, RT!Move
    <3>. QED BY <3>1, <3>2
  <2>2. ASSUME NEW r \in Req, Leave(r) PROVE RT!Return(r)
    BY <2>2 DEF Leave, Step, RT!Return, RT!Move
  <2>3. ASSUME NEW r \in Req, Caller(r) \/ TransportReturns(r) \/ Cancel(r), ~Leave(r)
        PROVE  UNCHANGED <<Gate, Call>>
    BY <2>3 DEF Caller, TransportReturns, Cancel, Step, EnsureSubscription,
       RandomFails, Register, EncodeFails, Publish, TakeResult, ContextDone,
       Unregister, Subscribed, SubscribeFailed, Published, PublishFailed
  <2>4. ASSUME NEW s \in Sub, Receiver(s) \/ TransportEnds(s)
        PROVE  UNCHANGED <<Gate, Call>>
    BY <2>4 DEF Receiver, TransportEnds, ReceiveMessage, ReceiveError, LookUp,
       ReceiverSends, SendTo, ReceiverResumes, SubscriptionFailed
  <2>5. ASSUME CloseBegin PROVE RT!CloseStart
    BY <2>5 DEF CloseBegin, RT!CloseStart
  <2>6. ASSUME CloserSends \/ CloseSubscription PROVE UNCHANGED <<Gate, Call>>
    BY <2>6 DEF CloserSends, SendTo, CloseSubscription
  <2>7. ASSUME CloseReturns PROVE RT!CloseEnd
    BY <2>7 DEF CloseReturns, CloseInv, RT!CloseEnd
  <2>8. CASE UNCHANGED vars BY <2>8 DEF vars
  <2>. QED BY <2>1, <2>2, <2>3, <2>4, <2>5, <2>6, <2>7, <2>8
           DEF Next, Closing, Quiescent, RT!Next
<1>. QED BY <1>1, <1>2, Invariance, PTL DEF Spec, RT!Spec, ImplementsRoundTrips

=============================================================================
