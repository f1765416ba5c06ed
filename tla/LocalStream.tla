---------------------------- MODULE LocalStream -----------------------------
(***************************************************************************)
(* internal/statusstream: the local WebSocket status stream.  One goroutine*)
(* at a time drives it (the caller inside Start, then run); around it are  *)
(* the staleness watcher of the open connection, callers of Stop and of    *)
(* RequestSnapshot, the consumer, the device and the caller's context.     *)
(***************************************************************************)
EXTENDS StreamState, FiniteSets

CONSTANTS
  Conn,         \* identities of WebSocket connections (bounds reconnections)
  Stopper,      \* callers of Stop
  NoConn,       \* nil
  MaxAttempts   \* ReconnectPolicy.MaxAttempts
ASSUME AttemptsAssumption == MaxAttempts \in Nat \ {0}
ASSUME ConnAssumption == NoConn \notin Conn

VARIABLES
  pc,         \* control state of the driving goroutine
  phase,      \* lifecycle shown while connecting: "connecting" or "reconnecting"
  attempt,    \* attempt number of connectWithRetry
  compat,     \* compatibilityRetried of connectOnce
  failure,    \* failure of the last attempt: may it be retried
  here,       \* the connection in hand
  result,     \* what readConnection returned, then what to finish with
  cancelled,  \* runCtx is done: Stop, or the context given to Start
  sconn,      \* s.conn
  conn,       \* state of each connection
  watch,      \* connections whose staleness watcher runs
  stateHere,  \* a device state arrived on the connection in hand (history)
  stop,       \* control state of each Stop call
  target      \* connection a RequestSnapshot is writing to, or NoConn

driver == <<pc, phase, attempt, compat, failure, here, result>>
env    == <<conn, watch, stateHere>>
others == <<stop, target>>
vars   == <<stateVars, driver, env, others, cancelled, sconn>>

Init ==
  /\ StateInit
  /\ pc = "idle" /\ phase = "connecting" /\ attempt = 0 /\ compat = FALSE
  /\ failure = "none" /\ here = NoConn /\ result = "nil"
  /\ cancelled = FALSE /\ sconn = NoConn
  /\ conn = [c \in Conn |-> "none"] /\ watch = {} /\ stateHere = FALSE
  /\ stop = [p \in Stopper |-> "idle"] /\ target = NoConn

At(from, to) == pc = from /\ pc' = to
Live(c) == conn[c] \in {"open", "broken"}

-----------------------------------------------------------------------------
(* Start and connectWithRetry.                                             *)

\* Begin and the storing of the cancel function are one critical section of s.mu.
Start ==
  /\ At("idle", "begun") /\ Claim
  /\ UNCHANGED <<phase, attempt, compat, failure, here, result, env, others, cancelled, sconn>>

ShowConnecting ==
  /\ At("begun", "attempt")
  /\ SetStatus([status EXCEPT !.life = "connecting", !.access = "unknown", !.data = "waiting"])
  /\ attempt' = 1 /\ phase' = "connecting"
  /\ UNCHANGED <<compat, failure, here, result, env, others, cancelled, sconn>>

Attempt ==
  /\ At("attempt", "version")
  /\ SetStatus([status EXCEPT !.life = phase, !.access = "unknown"])
  /\ compat' = FALSE
  /\ UNCHANGED <<phase, attempt, failure, here, result, env, others, cancelled, sconn>>

\* connectOnce: every way an attempt fails, by whether it may be retried.
Fail(why) ==
  /\ failure' = why /\ pc' = "failed"
  /\ UNCHANGED <<stateVars, phase, attempt, here, result, others, cancelled, sconn>>

\* The version is known already or fetched; fetching it may fail.
Version ==
  \/ /\ At("version", "dial")
     /\ UNCHANGED <<stateVars, phase, attempt, compat, failure, here, result>>
     /\ UNCHANGED <<env, others, cancelled, sconn>>
  \/ pc = "version" /\ Fail("retry") /\ UNCHANGED <<compat, env>>

DialFails ==
  /\ pc = "dial" /\ UNCHANGED env
  /\ \/ \* no response or 5xx; another status; 403
        \E why \in {"retry", "fatal", "rejected"} : Fail(why) /\ UNCHANGED compat
     \/ \* 405 once per attempt: refresh the version, which may fail, and dial again
        ~compat /\ compat' = TRUE /\ Fail("retry")
DialAlwaysRefreshes ==
  /\ At("dial", "version")
  /\ UNCHANGED <<stateVars, phase, attempt, compat, failure, here, result, env, others, cancelled, sconn>>
DialIncompatible ==
  /\ At("dial", "version") /\ ~compat /\ compat' = TRUE
  /\ UNCHANGED <<stateVars, phase, attempt, failure, here, result, env, others, cancelled, sconn>>
DialSucceeds ==
  /\ At("dial", "enable")
  /\ \E c \in Conn : conn[c] = "none" /\ conn' = [conn EXCEPT ![c] = "open"] /\ here' = c
  /\ stateHere' = FALSE
  /\ UNCHANGED <<stateVars, phase, attempt, compat, failure, result, watch, others, cancelled, sconn>>

EnableLeaks ==
  /\ pc = "enable" /\ Fail("retry")
  /\ UNCHANGED <<compat, env>>

\* The enabling write fails: the connection is closed and the attempt retried.
EnableFails ==
  /\ pc = "enable" /\ Fail("retry")
  /\ conn' = [conn EXCEPT ![here] = "closed"]
  /\ UNCHANGED <<compat, watch, stateHere>>
Enabled ==
  /\ At("enable", "enabled") /\ sconn' = here
  /\ UNCHANGED <<stateVars, phase, attempt, compat, failure, here, result, env, others, cancelled>>

\* The connected status; Start returns nil, run and then readConnection begin,
\* which starts the watcher.
Connected ==
  /\ At("enabled", "read")
  /\ SetStatus([status EXCEPT !.life = "connected", !.access = "accepted",
                              !.data = IF status.seen THEN "stale" ELSE "waiting"])
  /\ watch' = watch \cup {here}
  /\ UNCHANGED <<phase, attempt, compat, failure, here, result, conn, stateHere, others, cancelled, sconn>>

\* After a failed attempt: a rejection is shown; the last, an unretryable and a
\* cancelled attempt end the connecting.
Failed ==
  /\ pc = "failed"
  /\ SetStatus([status EXCEPT !.access = IF failure = "rejected" THEN "rejected" ELSE @])
  /\ pc' = IF cancelled \/ failure # "retry" \/ attempt = MaxAttempts THEN "giveup" ELSE "delay"
  /\ UNCHANGED <<phase, attempt, compat, failure, here, result, env, others, cancelled, sconn>>

Delay ==
  /\ pc = "delay"
  /\ \/ pc' = "attempt" /\ attempt' = attempt + 1
     \/ cancelled /\ pc' = "giveup" /\ UNCHANGED attempt
  /\ UNCHANGED <<stateVars, phase, compat, failure, here, result, env, others, cancelled, sconn>>

\* Start finishes with the context's error, run with nil, when the context ended.
GiveUp ==
  /\ At("giveup", "finish")
  /\ result' = IF ~cancelled THEN "connect" ELSE IF phase = "connecting" THEN "ctx" ELSE "nil"
  /\ UNCHANGED <<stateVars, phase, attempt, compat, failure, here, env, others, cancelled, sconn>>

-----------------------------------------------------------------------------
(* readConnection and run.                                                 *)

\* A binary message holds a state (fatal when it reports a fatal device error)
\* or does not decode; a text message holds none.
Read ==
  /\ pc = "read" /\ conn[here] = "open"
  /\ pc' \in {"state", "fatal", "text"}
  /\ UNCHANGED <<stateVars, phase, attempt, compat, failure, here, result, env, others, cancelled, sconn>>
ReadError ==
  /\ At("read", "leave") /\ (conn[here] # "open" \/ cancelled)
  /\ result' = "read"
  /\ UNCHANGED <<stateVars, phase, attempt, compat, failure, here, env, others, cancelled, sconn>>

\* The status turns fresh before the message is delivered.
MarkFresh ==
  /\ At("state", "deliver") \/ At("fatal", "deliverFatal")
  /\ SetStatus([status EXCEPT !.data = "fresh", !.seen = TRUE])
  /\ stateHere' = TRUE
  /\ UNCHANGED <<phase, attempt, compat, failure, here, result, conn, watch, others, cancelled, sconn>>

Deliver ==
  /\ \/ /\ Enqueue
        /\ \/ pc \in {"text", "deliver"} /\ pc' = "read" /\ UNCHANGED result
           \/ At("deliverFatal", "leave") /\ result' = "device"
     \/ /\ pc \in {"text", "deliver", "deliverFatal"} /\ pc' = "leave"
        /\ \/ Refuse /\ ~cancelled /\ result' = "deliver"
           \/ cancelled /\ UNCHANGED stateVars /\ result' = "read"
  /\ UNCHANGED <<phase, attempt, compat, failure, here, env, others, cancelled, sconn>>

LeaveUnjoined ==
  /\ At("leave", "close")
  /\ UNCHANGED <<stateVars, phase, attempt, compat, failure, here, result, env, others, cancelled, sconn>>

\* The deferred calls of readConnection wait for the watcher to end.
Leave ==
  /\ At("leave", "close") /\ watch' = watch \ {here}
  /\ UNCHANGED <<stateVars, phase, attempt, compat, failure, here, result>>
  /\ UNCHANGED <<conn, stateHere, others, cancelled, sconn>>

CloseNow ==
  /\ At("close", "verdict") /\ conn' = [conn EXCEPT ![here] = "closed"]
  /\ UNCHANGED <<stateVars, phase, attempt, compat, failure, here, result>>
  /\ UNCHANGED <<watch, stateHere, others, cancelled, sconn>>

ReconnectKeepsData ==
  \/ /\ At("verdict", "finish") /\ (cancelled \/ result # "read")
     /\ result' = IF cancelled THEN "nil" ELSE result
     /\ UNCHANGED <<stateVars, phase, attempt, compat, failure, here, env, others, cancelled, sconn>>
  \/ /\ At("verdict", "attempt") /\ ~cancelled /\ result = "read"
     /\ SetStatus([status EXCEPT !.life = "reconnecting", !.access = "unknown"])
     /\ attempt' = 1 /\ phase' = "reconnecting" /\ here' = NoConn
     /\ UNCHANGED <<compat, failure, result, env, others, cancelled, sconn>>

\* run after a connection: finish (cleanly once the context is over), or show
\* the reconnection and try again.
Verdict ==
  \/ /\ At("verdict", "finish") /\ (cancelled \/ result # "read")
     /\ result' = IF cancelled THEN "nil" ELSE result
     /\ UNCHANGED <<stateVars, phase, attempt, compat, failure, here, env, others, cancelled, sconn>>
  \/ /\ At("verdict", "attempt") /\ ~cancelled /\ result = "read"
     /\ SetStatus([status EXCEPT !.life = "reconnecting", !.access = "unknown",
                                 !.data = IF status.seen THEN "stale" ELSE "waiting"])
     /\ attempt' = 1 /\ phase' = "reconnecting" /\ here' = NoConn
     /\ UNCHANGED <<compat, failure, result, env, others, cancelled, sconn>>

\* finish: s.conn is cleared, then State.Finish.
ClearConn ==
  /\ At("finish", "finish2") /\ sconn' = NoConn
  /\ UNCHANGED <<stateVars, phase, attempt, compat, failure, here, result, env, others, cancelled>>
FinishStream ==
  /\ At("finish2", "done") /\ Finish(result)
  /\ UNCHANGED <<phase, attempt, compat, failure, here, result, env, others, cancelled, sconn>>

-----------------------------------------------------------------------------
(* Everyone else.                                                          *)

\* A tick of the watcher that finds the freshness window passed (no state yet:
\* the window starts with the connection).
Stale ==
  /\ watch # {} /\ status.life = "connected" /\ status.data # "stale"
  /\ SetStatus([status EXCEPT !.data = "stale"])
  /\ UNCHANGED <<driver, env, others, cancelled, sconn>>

\* Stop: claim a stream that was not started and finish it, or cancel and wait.
Stop(p) ==
  /\ stop[p] = "idle"
  /\ \/ Claim /\ stop' = [stop EXCEPT ![p] = "claimed"] /\ UNCHANGED cancelled
     \/ /\ started /\ stop' = [stop EXCEPT ![p] = "waiting"]
        /\ cancelled' = (cancelled \/ pc # "idle") /\ UNCHANGED stateVars
  /\ UNCHANGED <<driver, env, target, sconn>>
StopFinishes(p) ==
  /\ stop[p] = "claimed" /\ stop' = [stop EXCEPT ![p] = "waiting"]
  /\ sconn' = NoConn /\ Finish("nil")
  /\ UNCHANGED <<driver, env, target, cancelled>>
StopReturns(p) ==
  /\ stop[p] = "waiting" /\ finished /\ stop' = [stop EXCEPT ![p] = "returned"]
  /\ UNCHANGED <<stateVars, driver, env, target, cancelled, sconn>>

\* RequestSnapshot picks the connection under s.mu and writes outside it; when
\* the write fails it closes that connection.
RequestSnapshot ==
  /\ target = NoConn /\ sconn # NoConn /\ status.life = "connected"
  /\ target' = sconn
  /\ UNCHANGED <<stateVars, driver, env, stop, cancelled, sconn>>
SnapshotWritten ==
  /\ target # NoConn /\ target' = NoConn
  /\ \/ conn[target] = "open" /\ UNCHANGED conn
     \/ conn' = [conn EXCEPT ![target] = "closed"]
  /\ UNCHANGED <<stateVars, driver, watch, stateHere, stop, cancelled, sconn>>

ContextEnds ==
  /\ pc # "idle" /\ ~finished /\ ~cancelled /\ cancelled' = TRUE
  /\ UNCHANGED <<stateVars, driver, env, others, sconn>>
PeerFails(c) ==
  /\ conn[c] = "open" /\ conn' = [conn EXCEPT ![c] = "broken"]
  /\ UNCHANGED <<stateVars, driver, watch, stateHere, others, cancelled, sconn>>
Receive == Consume /\ UNCHANGED <<driver, env, others, cancelled, sconn>>

Drive ==
  \/ ShowConnecting \/ Attempt \/ Version \/ DialFails \/ DialIncompatible \/ DialSucceeds
  \/ EnableFails \/ Enabled \/ Connected \/ Failed \/ Delay \/ GiveUp
  \/ MarkFresh \/ Deliver \/ Leave \/ CloseNow \/ Verdict \/ ClearConn \/ FinishStream

Ended ==
  /\ finished /\ queue = 0 /\ target = NoConn
  /\ \A p \in Stopper : stop[p] = "returned"
  /\ UNCHANGED vars

Next ==
  \/ Start \/ Drive \/ Read \/ ReadError \/ Stale \/ RequestSnapshot \/ SnapshotWritten
  \/ \E p \in Stopper : Stop(p) \/ StopFinishes(p) \/ StopReturns(p)
  \/ ContextEnds \/ (\E c \in Conn : PeerFails(c)) \/ Receive \/ Ended

Spec == Init /\ [][Next]_vars

\* The goroutines keep running; a dial ends (it has a timeout and the context);
\* a read ends once its context is over, however many messages still arrive.
FairSpec ==
  /\ Spec /\ WF_vars(Drive) /\ SF_vars(ReadError)
  /\ \A p \in Stopper : WF_vars(StopFinishes(p)) /\ WF_vars(StopReturns(p))

-----------------------------------------------------------------------------
(* Properties.                                                             *)

\* Every variable keeps its type.
TypeOK ==
  /\ StateTypeOK
  /\ pc \in {"idle", "begun", "attempt", "version", "dial", "enable", "enabled", "failed",
             "delay", "giveup", "read", "state", "fatal", "text", "deliver", "deliverFatal",
             "leave", "close", "verdict", "finish", "finish2", "done"}
  /\ phase \in {"connecting", "reconnecting"} /\ attempt \in 0..MaxAttempts
  /\ compat \in BOOLEAN /\ failure \in {"none", "retry", "fatal", "rejected"}
  /\ here \in Conn \cup {NoConn} /\ sconn \in Conn \cup {NoConn}
  /\ result \in Causes \cup {"read"} /\ cancelled \in BOOLEAN
  /\ conn \in [Conn -> {"none", "open", "broken", "closed"}] /\ watch \subseteq Conn
  /\ stateHere \in BOOLEAN
  /\ stop \in [Stopper -> {"idle", "claimed", "waiting", "returned"}]
  /\ target \in Conn \cup {NoConn}

\* At most one connection is open and only it is watched: a reconnection waits
\* for the old connection and its watcher (readConnection, run).  Checked with
\* the types, which bound the attempts.
OneConnection ==
  /\ TypeOK
  /\ \A c \in Conn : Live(c) => c = here
  /\ \A c \in watch : c = here /\ pc \in {"read", "state", "fatal", "text", "deliver",
                                          "deliverFatal", "leave"}

\* Fresh data is fresh on this connection: a state received before a
\* reconnection never shows as fresh after it.
FreshIsCurrent == ~finished /\ status.data = "fresh" => stateHere /\ here # NoConn

\* The local stream keeps the contract of stream.Stream: it runs once, ends
\* once with a stable result, and then holds no connection and no watcher; a
\* message its full channel refused ends it with that failure.
Contract == INSTANCE StreamContract WITH
  Results <- Causes, Dropped <- "deliver", over <- cancelled,
  phase <- IF finished THEN "ended" ELSE IF started THEN "running" ELSE "idle",
  result <- final,
  held <- watch # {} \/ \E c \in Conn : Live(c)
KeepsContract == Contract!Spec

\* Stop returns, and Start returns: connected, or finished after at most
\* MaxAttempts attempts (Stop, Start, connectWithRetry).
CallersReturn ==
  /\ \A p \in Stopper : stop[p] \in {"claimed", "waiting"} ~> stop[p] = "returned"
  /\ pc = "begun" ~> pc \in {"read", "done"}
=============================================================================
