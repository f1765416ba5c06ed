------------------------- MODULE LocalStream_proofs -------------------------
(***************************************************************************)
(* Proofs about LocalStream for any sets of connections and callers of     *)
(* Stop, any buffer and any number of attempts: one connection at a time,  *)
(* freshness that belongs to it, and the contract of stream.Stream.        *)
(***************************************************************************)
EXTENDS LocalStream, TLAPS

\* The driving goroutine reads the connection in hand; holds one; has none; is
\* past the connections.
Reading  == {"read", "state", "fatal", "text", "deliver", "deliverFatal", "leave"}
Attached == Reading \cup {"enable", "enabled", "close"}
Detached == {"idle", "begun", "attempt", "version", "dial", "enable", "enabled", "failed",
             "delay", "giveup"}
Leaving  == {"leave", "close", "verdict", "finish", "finish2", "done"}

-----------------------------------------------------------------------------
(* The shared stream state (streamstate/state.go).                         *)

\* A lifecycle snapshot stays one when its fields are set (setStatus's callers).
LEMMA StatusFields ==
  ASSUME NEW s \in Statuses
  PROVE  /\ s.life \in Lives /\ s.access \in Accesses /\ s.data \in Datas /\ s.seen \in BOOLEAN
         /\ \A l \in Lives : [s EXCEPT !.life = l] \in Statuses
         /\ \A a \in Accesses : [s EXCEPT !.access = a] \in Statuses
         /\ \A d \in Datas : [s EXCEPT !.data = d] \in Statuses
         /\ \A l \in Lives, a \in Accesses : [s EXCEPT !.life = l, !.access = a] \in Statuses
         /\ \A l \in Lives, a \in Accesses, d \in Datas :
              [s EXCEPT !.life = l, !.access = a, !.data = d] \in Statuses
         /\ \A d \in Datas : [s EXCEPT !.data = d, !.seen = TRUE] \in Statuses
BY DEF Statuses

\* The operations of the shared state keep its types (streamstate/state.go).
LEMMA StateOperations ==
  ASSUME StateTypeOK
  PROVE  /\ \A new \in Statuses : SetStatus(new) => StateTypeOK'
         /\ Claim \/ Enqueue \/ Refuse \/ Consume \/ UNCHANGED stateVars => StateTypeOK'
         /\ \A err \in Causes : Finish(err) => StateTypeOK'
<1>1. ASSUME NEW new \in Statuses, SetStatus(new) PROVE StateTypeOK'
  BY <1>1 DEF StateTypeOK, SetStatus
<1>2. ASSUME Claim \/ Enqueue \/ Refuse \/ Consume \/ UNCHANGED stateVars PROVE StateTypeOK'
  <2>1. CASE Claim
    BY <2>1 DEF StateTypeOK, Claim
  <2>2. CASE Enqueue \/ Consume
    BY <2>2, BufferAssumption DEF StateTypeOK, Enqueue, Consume
  <2>3. CASE Refuse
    BY <2>3 DEF StateTypeOK, Refuse
  <2>4. CASE UNCHANGED stateVars
    BY <2>4 DEF StateTypeOK, stateVars
  <2>5. QED
    BY <1>2, <2>1, <2>2, <2>3, <2>4
<1>3. ASSUME NEW err \in Causes, Finish(err) PROVE StateTypeOK'
  <2>1. status' \in Statuses
    BY <1>3, StatusFields DEF StateTypeOK, Finish, Lives
  <2>2. QED
    BY <1>3, <2>1 DEF StateTypeOK, Finish
<1>4. QED
  BY <1>1, <1>2, <1>3

-----------------------------------------------------------------------------
\* An open connection is the one in hand, of a goroutine that is at work on it.
ConnInv ==
  /\ \A c \in Conn : Live(c) => c = here /\ pc \in Attached
  /\ \A c \in watch : c = here /\ pc \in Reading
  /\ pc \in Attached \cup {"verdict"} => here \in Conn

\* No freshness outlives its connection into the attempts that follow it.
DataInv ==
  /\ FreshIsCurrent
  /\ pc \in Detached => status.data # "fresh" \/ finished

\* The driving goroutine belongs to a started stream, and only it, or a Stop that
\* came before Start, finishes it; a lost message sends it on its way out.
LifeInv ==
  /\ finished => started /\ pc \in {"idle", "done"}
  /\ pc # "idle" => started
  /\ \A p \in Stopper : stop[p] = "claimed" => started /\ pc = "idle"
  /\ lost => pc \in Leaving /\ (result = "deliver" \/ cancelled)
  /\ pc \in {"finish", "finish2"} => result # "read"
  /\ pc = "delay" => attempt < MaxAttempts

IInv == TypeOK /\ ConnInv /\ DataInv /\ LifeInv

-----------------------------------------------------------------------------

\* The initial state satisfies the invariant (New, streamstate.New).
LEMMA InitInv == Init => IInv
<1> SUFFICES ASSUME Init PROVE IInv
  OBVIOUS
<1> USE DEF Init, StateInit
<1>1. TypeOK
  <2>1. status \in Statuses
    BY DEF Statuses, Lives, Accesses, Datas
  <2>2. StateTypeOK
    <3>1. queue \in 0..Buffer
      BY BufferAssumption
    <3>2. QED
      BY <2>1, <3>1 DEF StateTypeOK
  <2>3. attempt \in 0..MaxAttempts
    BY AttemptsAssumption
  <2>4. QED
    BY <2>2, <2>3 DEF TypeOK, Causes
<1>2. ConnInv
  BY DEF ConnInv, Live, Attached, Reading
<1>3. DataInv
  BY DEF DataInv, FreshIsCurrent
<1>4. LifeInv
  BY DEF LifeInv
<1>5. QED
  BY <1>1, <1>2, <1>3, <1>4 DEF IInv

\* Every step keeps the types (the whole of stream.go).
LEMMA TypeInv ==
  ASSUME IInv, [Next]_vars
  PROVE  TypeOK'
<1> USE DEF IInv, TypeOK, At, driver, env, others
<1>1. CASE Start
  <2>1. StateTypeOK'
    BY <1>1, StateOperations DEF Start
  <2>2. QED
    BY <1>1, <2>1 DEF Start
<1>2. CASE ShowConnecting
  <2>1. StateTypeOK'
    BY <1>2, StateOperations, StatusFields DEF ShowConnecting, StateTypeOK, Lives, Accesses, Datas
  <2>2. QED
    BY <1>2, <2>1, AttemptsAssumption DEF ShowConnecting
<1>3. CASE Attempt
  <2>1. StateTypeOK'
    BY <1>3, StateOperations, StatusFields DEF Attempt, StateTypeOK, Lives, Accesses, Datas
  <2>2. QED
    BY <1>3, <2>1 DEF Attempt
<1>4. CASE Version \/ DialIncompatible
  <2>1. StateTypeOK'
    BY <1>4, StateOperations DEF Version, DialIncompatible, Fail
  <2>2. QED
    BY <1>4, <2>1 DEF Version, DialIncompatible, Fail
<1>5. CASE DialFails
  <2>1. StateTypeOK'
    BY <1>5, StateOperations DEF DialFails, Fail
  <2>2. QED
    BY <1>5, <2>1 DEF DialFails, Fail
<1>6. CASE EnableFails
  <2>1. StateTypeOK'
    BY <1>6, StateOperations DEF EnableFails, Fail
  <2>2. QED
    BY <1>6, <2>1 DEF EnableFails, Fail, ConnInv, Attached
<1>7. CASE DialSucceeds \/ Enabled
  <2>1. StateTypeOK'
    BY <1>7, StateOperations DEF DialSucceeds, Enabled
  <2>2. QED
    BY <1>7, <2>1 DEF DialSucceeds, Enabled
<1>8. CASE Connected
  <2>1. StateTypeOK'
    BY <1>8, StateOperations, StatusFields DEF Connected, StateTypeOK, Lives, Accesses, Datas
  <2>2. QED
    BY <1>8, <2>1 DEF Connected, ConnInv, Attached
<1>9. CASE Failed
  <2>1. StateTypeOK'
    BY <1>9, StateOperations, StatusFields DEF Failed, StateTypeOK, Lives, Accesses, Datas
  <2>2. QED
    BY <1>9, <2>1 DEF Failed
<1>10. CASE Delay \/ GiveUp
  <2>1. StateTypeOK'
    BY <1>10, StateOperations DEF Delay, GiveUp
  <2>2. QED
    BY <1>10, <2>1, AttemptsAssumption DEF Delay, GiveUp, LifeInv, Causes
<1>11. CASE Read \/ ReadError
  <2>1. StateTypeOK'
    BY <1>11, StateOperations DEF Read, ReadError
  <2>2. QED
    BY <1>11, <2>1 DEF Read, ReadError
<1>12. CASE MarkFresh
  <2>1. StateTypeOK'
    BY <1>12, StateOperations, StatusFields DEF MarkFresh, StateTypeOK, Lives, Accesses, Datas
  <2>2. QED
    BY <1>12, <2>1 DEF MarkFresh
<1>13. CASE Deliver
  <2>1. StateTypeOK'
    BY <1>13, StateOperations DEF Deliver
  <2>2. QED
    BY <1>13, <2>1 DEF Deliver, Causes
<1>14. CASE Leave \/ CloseNow
  <2>1. StateTypeOK'
    BY <1>14, StateOperations DEF Leave, CloseNow
  <2>2. QED
    BY <1>14, <2>1 DEF Leave, CloseNow
<1>15. CASE Verdict
  <2>1. StateTypeOK'
    BY <1>15, StateOperations, StatusFields DEF Verdict, StateTypeOK, Lives, Accesses, Datas
  <2>2. QED
    BY <1>15, <2>1, AttemptsAssumption DEF Verdict, Causes
<1>16. CASE FinishStream
  <2>1. StateTypeOK'
    BY <1>16, StateOperations DEF FinishStream, LifeInv
  <2>2. QED
    BY <1>16, <2>1 DEF FinishStream
<1>17. CASE Stale
  <2>1. StateTypeOK'
    BY <1>17, StateOperations, StatusFields DEF Stale, StateTypeOK, Lives, Accesses, Datas
  <2>2. QED
    BY <1>17, <2>1 DEF Stale
<1>18. CASE ClearConn \/ RequestSnapshot \/ SnapshotWritten
  <2>1. StateTypeOK'
    BY <1>18, StateOperations DEF ClearConn, RequestSnapshot, SnapshotWritten
  <2>2. QED
    BY <1>18, <2>1 DEF ClearConn, RequestSnapshot, SnapshotWritten
<1>19. CASE ContextEnds \/ Receive
  <2>1. StateTypeOK'
    BY <1>19, StateOperations DEF ContextEnds, Receive
  <2>2. QED
    BY <1>19, <2>1 DEF ContextEnds, Receive
<1>20. CASE \E p \in Stopper : Stop(p) \/ StopFinishes(p) \/ StopReturns(p)
  <2>1. StateTypeOK'
    BY <1>20, StateOperations DEF Stop, StopFinishes, StopReturns, Causes
  <2>2. stop' \in [Stopper -> {"idle", "claimed", "waiting", "returned"}]
    BY <1>20 DEF Stop, StopFinishes, StopReturns
  <2>3. cancelled' \in BOOLEAN /\ sconn' \in Conn \cup {NoConn}
    BY <1>20 DEF Stop, StopFinishes, StopReturns
  <2>4. QED
    BY <1>20, <2>1, <2>2, <2>3 DEF Stop, StopFinishes, StopReturns
<1>21. CASE \E c \in Conn : PeerFails(c)
  BY <1>21, StateOperations DEF PeerFails
<1>22. CASE UNCHANGED vars
  BY <1>22, StateOperations DEF vars
<1>23. QED
  BY <1>1, <1>2, <1>3, <1>4, <1>5, <1>6, <1>7, <1>8, <1>9, <1>10, <1>11, <1>12, <1>13, <1>14, <1>15,
       <1>16, <1>17, <1>18, <1>19, <1>20, <1>21, <1>22
     DEF Next, Drive, Ended

\* So it does what it says of connections (connectOnce, readConnection).
LEMMA ConnStep ==
  ASSUME IInv, [Next]_vars
  PROVE  ConnInv'
<1> USE DEF IInv, TypeOK, ConnInv, Live, Attached, Reading, At, driver, env, others
<1>1. CASE Start \/ ShowConnecting \/ Attempt
  BY <1>1 DEF Start, ShowConnecting, Attempt
<1>2. CASE Version \/ DialFails \/ DialIncompatible
  BY <1>2 DEF Version, Fail, DialFails, DialIncompatible
<1>3. CASE DialSucceeds
  BY <1>3, ConnAssumption DEF DialSucceeds
<1>4. CASE EnableFails
  BY <1>4 DEF EnableFails, Fail
<1>5. CASE Enabled
  BY <1>5 DEF Enabled
<1>6. CASE Connected
  BY <1>6 DEF Connected
<1>7. CASE Failed \/ Delay \/ GiveUp
  BY <1>7 DEF Failed, Delay, GiveUp
<1>8. CASE Read \/ ReadError \/ MarkFresh
  BY <1>8 DEF Read, ReadError, MarkFresh
<1>9. CASE Deliver
  BY <1>9 DEF Deliver
<1>10. CASE Leave
  BY <1>10 DEF Leave
<1>11. CASE CloseNow
  BY <1>11 DEF CloseNow
<1>12. CASE Verdict
  BY <1>12, ConnAssumption DEF Verdict
<1>13. CASE ClearConn \/ FinishStream \/ Stale \/ RequestSnapshot
  BY <1>13 DEF ClearConn, FinishStream, Stale, RequestSnapshot
<1>14. CASE SnapshotWritten
  BY <1>14 DEF SnapshotWritten
<1>15. CASE ContextEnds \/ Receive
  BY <1>15 DEF ContextEnds, Receive
<1>16. CASE \E p \in Stopper : Stop(p) \/ StopFinishes(p) \/ StopReturns(p)
  BY <1>16 DEF Stop, StopFinishes, StopReturns
<1>17. CASE \E c \in Conn : PeerFails(c)
  BY <1>17 DEF PeerFails
<1>18. CASE UNCHANGED vars
  BY <1>18 DEF vars
<1>19. QED
  BY <1>1, <1>2, <1>3, <1>4, <1>5, <1>6, <1>7, <1>8, <1>9, <1>10, <1>11, <1>12, <1>13, <1>14, <1>15,
       <1>16, <1>17, <1>18 DEF Next, Drive, Ended

\* What it says of freshness (the callers of SetStatus).
LEMMA DataStep ==
  ASSUME IInv, [Next]_vars
  PROVE  DataInv'
<1> USE DEF IInv, TypeOK, StateTypeOK, Statuses, ConnInv, Attached, Reading, DataInv, FreshIsCurrent,
     Detached, LifeInv,
           At, stateVars, driver, env, others
<1>1. CASE Start
  BY <1>1 DEF Start, Claim
<1>2. CASE ShowConnecting \/ Attempt
  BY <1>2 DEF ShowConnecting, SetStatus, Attempt
<1>3. CASE Version \/ DialFails \/ DialIncompatible \/ EnableFails
  BY <1>3 DEF Version, Fail, DialFails, DialIncompatible, EnableFails
<1>4. CASE DialSucceeds \/ Enabled
  BY <1>4, ConnAssumption DEF DialSucceeds, Enabled
<1>5. CASE Connected
  BY <1>5 DEF Connected, SetStatus
<1>6. CASE Failed \/ Delay \/ GiveUp
  BY <1>6 DEF Failed, SetStatus, Delay, GiveUp
<1>7. CASE Read \/ ReadError \/ MarkFresh
  BY <1>7, ConnAssumption DEF Read, ReadError, MarkFresh, SetStatus
<1>8. CASE Deliver
  BY <1>8 DEF Deliver, Enqueue, Refuse
<1>9. CASE Leave \/ CloseNow
  BY <1>9 DEF Leave, CloseNow
<1>10. CASE Verdict
  BY <1>10 DEF Verdict, SetStatus
<1>11. CASE ClearConn \/ FinishStream
  BY <1>11 DEF ClearConn, FinishStream, Finish
<1>12. CASE Stale
  BY <1>12 DEF Stale, SetStatus
<1>13. CASE RequestSnapshot \/ SnapshotWritten
  BY <1>13 DEF RequestSnapshot, SnapshotWritten
<1>14. CASE ContextEnds \/ Receive
  BY <1>14 DEF ContextEnds, Receive, Consume
<1>15. CASE \E p \in Stopper : Stop(p) \/ StopFinishes(p) \/ StopReturns(p)
  BY <1>15 DEF Stop, StopFinishes, StopReturns, Claim, Finish
<1>16. CASE \E c \in Conn : PeerFails(c)
  BY <1>16 DEF PeerFails
<1>17. CASE UNCHANGED vars
  BY <1>17 DEF vars
<1>18. QED
  BY <1>1, <1>2, <1>3, <1>4, <1>5, <1>6, <1>7, <1>8, <1>9, <1>10, <1>11, <1>12, <1>13, <1>14, <1>15,
       <1>16, <1>17 DEF Next, Drive, Ended

\* And of the life of the stream (Start, run, Stop, finish).
LEMMA LifeStep ==
  ASSUME IInv, [Next]_vars
  PROVE  LifeInv'
<1> USE DEF IInv, TypeOK, StateTypeOK, LifeInv, Leaving, At, stateVars, driver, env, others
<1>1. CASE Start
  BY <1>1 DEF Start, Claim
<1>2. CASE ShowConnecting \/ Attempt \/ Connected
  BY <1>2 DEF ShowConnecting, SetStatus, Attempt, Connected
<1>3. CASE Version \/ DialIncompatible \/ EnableFails
  BY <1>3 DEF Version, Fail, DialIncompatible, EnableFails
<1>4. CASE DialFails
  <2>1. pc = "dial" /\ pc' = "failed" /\ UNCHANGED <<stateVars, attempt, result, others, cancelled>>
    BY <1>4 DEF DialFails, Fail
  <2>2. QED
    BY <2>1
<1>5. CASE DialSucceeds \/ Enabled
  BY <1>5 DEF DialSucceeds, Enabled
<1>6. CASE Failed
  BY <1>6, AttemptsAssumption DEF Failed, SetStatus
<1>7. CASE Delay \/ GiveUp
  BY <1>7, AttemptsAssumption DEF Delay, GiveUp
<1>8. CASE Read \/ ReadError \/ MarkFresh
  BY <1>8 DEF Read, ReadError, MarkFresh, SetStatus
<1>9. CASE Deliver
  BY <1>9 DEF Deliver, Enqueue, Refuse
<1>10. CASE Leave \/ CloseNow
  BY <1>10 DEF Leave, CloseNow
<1>11. CASE Verdict
  BY <1>11 DEF Verdict, SetStatus
<1>12. CASE ClearConn \/ FinishStream
  BY <1>12 DEF ClearConn, FinishStream, Finish
<1>13. CASE Stale \/ RequestSnapshot \/ SnapshotWritten
  BY <1>13 DEF Stale, SetStatus, RequestSnapshot, SnapshotWritten
<1>14. CASE ContextEnds \/ Receive
  BY <1>14 DEF ContextEnds, Receive, Consume
<1>15. CASE \E p \in Stopper : Stop(p) \/ StopFinishes(p) \/ StopReturns(p)
  BY <1>15 DEF Stop, StopFinishes, StopReturns, Claim, Finish
<1>16. CASE \E c \in Conn : PeerFails(c)
  BY <1>16 DEF PeerFails
<1>17. CASE UNCHANGED vars
  BY <1>17 DEF vars
<1>18. QED
  BY <1>1, <1>2, <1>3, <1>4, <1>5, <1>6, <1>7, <1>8, <1>9, <1>10, <1>11, <1>12, <1>13, <1>14, <1>15,
       <1>16, <1>17 DEF Next, Drive, Ended

-----------------------------------------------------------------------------
\* What the abstract stream calls its phase and what it holds.
Phase == IF finished THEN "ended" ELSE IF started THEN "running" ELSE "idle"
Held  == watch # {} \/ \E c \in Conn : Live(c)

\* A step that changes no more than what is held acquires (while the stream runs),
\* releases or stutters.
LEMMA HeldStep ==
  ASSUME UNCHANGED <<started, finished, final, queue, lost, cancelled>>,
         Held' => Held \/ Phase = "running"
  PROVE  [Contract!Next]_(Contract!vars)
<1> USE DEF Phase, Held, Contract!vars, Contract!Next
<1>1. CASE Held' = Held
  BY <1>1
<1>2. CASE ~Held'
  BY <1>2 DEF Contract!Release
<1>3. CASE Held' /\ Phase = "running"
  BY <1>3 DEF Contract!Acquire
<1>4. QED
  BY <1>1, <1>2, <1>3

\* Every step is one of the contract's, or leaves what it speaks of alone
\* (stream/types.go).
LEMMA ContractStep ==
  ASSUME IInv, [Next]_vars
  PROVE  [Contract!Next]_(Contract!vars)
<1> DEFINE Same == UNCHANGED <<started, finished, final, queue, lost, cancelled>>
           Quiet == UNCHANGED <<conn, watch>>
<1>a. pc \notin {"idle", "done"} => Phase = "running"
  BY DEF IInv, LifeInv, Phase
<1>b. Quiet => Held' = Held
  BY DEF Held, Live
<1>c. pc \notin {"idle", "done"} => ~finished
  BY DEF IInv, LifeInv
<1>1. ASSUME \/ ShowConnecting \/ Attempt \/ Version \/ DialFails \/ DialIncompatible
             \/ DialSucceeds \/ EnableFails \/ Enabled \/ Connected \/ Failed \/ Delay
             \/ GiveUp \/ Read \/ ReadError \/ MarkFresh \/ Leave \/ CloseNow \/ Verdict \/ ClearConn
      PROVE  Same /\ pc \notin {"idle", "done"}
  <2> USE DEF At, stateVars
  <2>1. CASE ShowConnecting \/ Attempt \/ Connected \/ Failed \/ MarkFresh
    BY <2>1 DEF ShowConnecting, Attempt, Connected, Failed, MarkFresh, SetStatus
  <2>2. CASE Version \/ DialFails \/ DialIncompatible \/ DialSucceeds \/ EnableFails \/ Enabled
    BY <2>2 DEF Version, DialFails, DialIncompatible, DialSucceeds, EnableFails, Enabled, Fail
  <2>3. CASE Delay \/ GiveUp \/ Read \/ ReadError \/ Leave \/ CloseNow \/ ClearConn
    BY <2>3 DEF Delay, GiveUp, Read, ReadError, Leave, CloseNow, ClearConn
  <2>4. CASE Verdict
    BY <2>4 DEF Verdict, SetStatus
  <2>5. QED
    BY <1>1, <2>1, <2>2, <2>3, <2>4
<1>2. ASSUME \/ Stale \/ RequestSnapshot \/ SnapshotWritten
             \/ \E p \in Stopper : StopReturns(p)
             \/ \E c \in Conn : PeerFails(c)
      PROVE  Same /\ (Held' => Held)
  <2> USE DEF stateVars, env, Held, Live
  <2>1. CASE Stale
    BY <2>1 DEF Stale, SetStatus
  <2>2. CASE RequestSnapshot \/ \E p \in Stopper : StopReturns(p)
    BY <2>2 DEF RequestSnapshot, StopReturns
  <2>3. CASE SnapshotWritten
    BY <2>3 DEF SnapshotWritten, IInv, TypeOK
  <2>4. CASE \E c \in Conn : PeerFails(c)
    BY <2>4 DEF PeerFails, IInv, TypeOK
  <2>5. QED
    BY <1>2, <2>1, <2>2, <2>3, <2>4
<1>3. CASE Start
  <2>1. Quiet /\ ~started /\ ~finished /\ started' /\ UNCHANGED <<finished, final, queue, lost, cancelled>>
    BY <1>3 DEF Start, Claim, env, IInv, LifeInv
  <2>2. QED
    BY <2>1, <1>b DEF Contract!Next, Contract!Start, Held
<1>4. CASE \E p \in Stopper : Stop(p)
  <2>1. PICK p \in Stopper : Stop(p)
    BY <1>4
  <2>2. Quiet
    BY <2>1 DEF Stop, env
  <2>3. CASE Claim /\ UNCHANGED cancelled
    <3>1. ~started /\ ~finished /\ started' /\ UNCHANGED <<finished, final, queue, lost, cancelled>>
      BY <2>3 DEF Claim, IInv, LifeInv
    <3>2. QED
      BY <3>1, <2>2, <1>b DEF Contract!Next, Contract!Start, Held
  <2>4. CASE UNCHANGED stateVars /\ cancelled' = (cancelled \/ pc # "idle")
    <3>1. cancelled' = cancelled \/ cancelled'
      BY <2>4 DEF IInv, TypeOK
    <3>2. QED
      BY <3>1, <2>2, <2>4, <1>b
         DEF Contract!Next, Contract!Cancel, Contract!vars, Held, stateVars
  <2>5. QED
    BY <2>1, <2>3, <2>4 DEF Stop
<1>5. CASE \E p \in Stopper : StopFinishes(p)
  <2>1. PICK p \in Stopper : StopFinishes(p)
    BY <1>5
  <2>2. Quiet /\ UNCHANGED <<started, queue, lost, cancelled>> /\ started /\ ~lost /\ ~Held
    BY <2>1 DEF StopFinishes, Finish, env, Held, Live, IInv, LifeInv, ConnInv, Attached, Reading, Leaving
  <2>3. IF finished THEN UNCHANGED <<finished, final>> ELSE finished' /\ final' = "nil"
    BY <2>1 DEF StopFinishes, Finish
  <2>4. QED
    BY <2>2, <2>3, <1>b DEF Contract!Next, Contract!End, Contract!vars, Held, Causes
<1>6. CASE FinishStream
  <2>1. Quiet /\ UNCHANGED <<started, queue, lost, cancelled>> /\ ~finished /\ finished' /\ final' = result
    BY <1>6, <1>c DEF FinishStream, Finish, env, At
  <2>2. started /\ ~Held /\ result \in Causes /\ (lost => result = "deliver" \/ cancelled)
    BY <1>6 DEF FinishStream, At, Held, Live, IInv, TypeOK, LifeInv, ConnInv, Attached, Reading
  <2>3. QED
    BY <2>1, <2>2, <1>b DEF Contract!Next, Contract!End, Held
<1>7. CASE Deliver
  <2>1. Quiet /\ Phase = "running" /\ ~lost /\ UNCHANGED <<started, finished, final, cancelled>>
    BY <1>7, <1>a DEF Deliver, Enqueue, Refuse, stateVars, env, At, IInv, LifeInv, Leaving
  <2>2. \/ queue < Buffer /\ queue' = queue + 1 /\ UNCHANGED lost
        \/ queue = Buffer /\ lost' = TRUE /\ UNCHANGED queue
        \/ UNCHANGED <<queue, lost>>
    BY <1>7 DEF Deliver, Enqueue, Refuse, stateVars
  <2>3. QED
    BY <2>1, <2>2, <1>b
       DEF Contract!Next, Contract!Deliver, Contract!Lose, Contract!vars, Phase, Held
<1>8. CASE Receive
  BY <1>8, <1>b DEF Receive, Consume, env, Contract!Next, Contract!Consume, Held
<1>9. CASE ContextEnds
  BY <1>9, <1>b DEF ContextEnds, stateVars, env, Contract!Next, Contract!Cancel, Held
<1>10. CASE UNCHANGED vars
  BY <1>10, <1>b DEF vars, stateVars, env, Contract!vars, Held
<1>11. QED
  BY <1>1, <1>2, <1>3, <1>4, <1>5, <1>6, <1>7, <1>8, <1>9, <1>10, <1>a, HeldStep DEF Next, Drive, Ended

-----------------------------------------------------------------------------
\* The invariant holds throughout (statusstream/stream.go, whole).
THEOREM Invariance == Spec => []IInv
<1>1. IInv /\ [Next]_vars => IInv'
  BY TypeInv, ConnStep, DataStep, LifeStep DEF IInv
<1>2. QED
  BY <1>1, InitInv, PTL DEF Spec

\* There is at most one connection, and only it is watched (readConnection, run).
THEOREM OneConnectionAtATime == Spec => []OneConnection
<1>1. IInv => OneConnection
  BY DEF IInv, ConnInv, OneConnection, Reading
<1>2. QED
  BY <1>1, Invariance, PTL

\* A state received before a reconnection never shows as fresh after it (SetStatus).
THEOREM FreshnessIsCurrent == Spec => []FreshIsCurrent
<1>1. IInv => FreshIsCurrent
  BY DEF IInv, DataInv
<1>2. QED
  BY <1>1, Invariance, PTL

\* The local stream implements the contract of stream.Stream: it runs once, loses
\* no message silently, and ends once, holding nothing.
THEOREM LocalKeepsContract == Spec => KeepsContract
<1>1. Init => Contract!Init
  BY DEF Init, StateInit, Contract!Init, Live
<1>2. QED
  BY <1>1, ContractStep, Invariance, PTL DEF Spec, Contract!Spec, KeepsContract
=============================================================================
