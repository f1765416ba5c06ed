----------------------------- MODULE RemoteClient ----------------------------
(***************************************************************************)
(* remote/client.go: a Client owns one status stream at a time and the     *)
(* round tripper under its HTTP client, and closes both.  Both are taken   *)
(* at what they promise (StreamContract, RoundTrips), which RemoteStream   *)
(* and RemoteHTTP are checked to implement; here the applications that     *)
(* create, start and stop streams, make requests and call Close meet.      *)
(***************************************************************************)
CONSTANTS
  Stream,    \* streams the client may create
  Req,       \* requests made through Device
  Closer,    \* callers of Close
  NoStream

ASSUME NoStreamAssumption == NoStream \notin Stream

VARIABLES
  closed,    \* Client.closed
  active,    \* Client.active
  phase,     \* per stream: "new", "created", "running", "finishing", "released" or "ended"
  held,      \* does the stream hold a subscription or a lease
  closers,   \* per caller of Close: "idle", "waiting" or "returned"
  closing,   \* where close() is: "idle", "stopping", "http" or "done"
  stopping,  \* the stream close() has read, or NoStream
  gate, call \* the round tripper: RoundTrips

HTTP == INSTANCE RoundTrips
httpVars == <<gate, call>>
streamVars == <<active, phase, held>>
closeVars == <<closed, closers, closing, stopping>>
clientVars == <<streamVars, closeVars, httpVars>>

ClientInit ==
  /\ closed = FALSE /\ active = NoStream
  /\ phase = [s \in Stream |-> "new"] /\ held = [s \in Stream |-> FALSE]
  /\ closers = [c \in Closer |-> "idle"] /\ closing = "idle" /\ stopping = NoStream
  /\ HTTP!Init

\* Closed, and nothing can happen any more.
ClientIdle ==
  /\ closed = TRUE /\ active = NoStream
  /\ phase = [s \in Stream |-> "ended"] /\ held = [s \in Stream |-> FALSE]
  /\ closers = [c \in Closer |-> "returned"] /\ closing = "done" /\ stopping = NoStream
  /\ gate = "closed" /\ call = [r \in Req |-> "finished"]

Becomes(s, to) == phase' = [phase EXCEPT ![s] = to]

-----------------------------------------------------------------------------
\* Fault: closed is not looked at.
CreateUnchecked(s) ==
  /\ phase[s] = "new" /\ active = NoStream
  /\ Becomes(s, "created") /\ active' = s
  /\ UNCHANGED <<held, closeVars, httpVars>>

\* NewStatusStream; one that is refused changes nothing.
NewStatusStream(s) ==
  /\ ~closed /\ active = NoStream /\ phase[s] = "new"
  /\ Becomes(s, "created") /\ active' = s
  /\ UNCHANGED <<held, closeVars, httpVars>>

\* The stream: Start, what it holds while it runs, Stop before Start, its end,
\* and finish, which gives everything up, releases the client and then ends.
StartStream(s) ==
  /\ phase[s] = "created" /\ Becomes(s, "running")
  /\ UNCHANGED <<active, held, closeVars, httpVars>>
Hold(s) ==
  /\ phase[s] = "running" /\ held' = [held EXCEPT ![s] = ~@]
  /\ UNCHANGED <<active, phase, closeVars, httpVars>>
StopBeforeStart(s) ==
  /\ phase[s] = "created" /\ Becomes(s, "finishing")
  /\ UNCHANGED <<active, held, closeVars, httpVars>>
Finish(s) ==
  /\ phase[s] = "running" /\ Becomes(s, "finishing") /\ held' = [held EXCEPT ![s] = FALSE]
  /\ UNCHANGED <<active, closeVars, httpVars>>
Release(s) ==
  /\ phase[s] = "finishing" /\ Becomes(s, "released")
  /\ active' = IF active = s THEN NoStream ELSE active
  /\ UNCHANGED <<held, closeVars, httpVars>>
End(s) ==
  /\ phase[s] = "released" /\ Becomes(s, "ended")
  /\ UNCHANGED <<active, held, closeVars, httpVars>>

-----------------------------------------------------------------------------
\* Close: the first caller runs close(), the others wait for it (closeOnce).
Close(c) ==
  /\ closers[c] = "idle" /\ closers' = [closers EXCEPT ![c] = "waiting"]
  /\ IF closing = "idle"
     THEN closed' = TRUE /\ stopping' = active /\ closing' = "stopping"
     ELSE UNCHANGED <<closed, stopping, closing>>
  /\ UNCHANGED <<streamVars, httpVars>>

\* active.Stop() stops a stream that has not started and waits for its end.
StopActive ==
  /\ closing = "stopping"
  /\ \/ /\ \E s \in Stream : s = stopping /\ phase[s] = "created" /\ Becomes(s, "finishing")
        /\ UNCHANGED <<closing, httpVars>>
     \/ /\ \A s \in Stream : s = stopping => phase[s] = "ended"
        /\ closing' = "http" /\ HTTP!CloseStart /\ UNCHANGED phase
  /\ UNCHANGED <<active, held, closed, closers, stopping>>
CloseHTTP ==
  /\ closing = "http" /\ HTTP!CloseEnd /\ closing' = "done"
  /\ UNCHANGED <<streamVars, closed, closers, stopping>>
CloseReturns(c) ==
  /\ closing = "done" /\ closers[c] = "waiting" /\ closers' = [closers EXCEPT ![c] = "returned"]
  /\ UNCHANGED <<streamVars, closed, closing, stopping, httpVars>>

\* A request through Device.
Request(r) ==
  /\ HTTP!Start(r) \/ HTTP!Refuse(r) \/ HTTP!Return(r)
  /\ UNCHANGED <<streamVars, closeVars>>

ClientNext ==
  \/ \E s \in Stream :
       \/ NewStatusStream(s) \/ StartStream(s) \/ Hold(s) \/ StopBeforeStart(s)
       \/ Finish(s) \/ Release(s) \/ End(s)
  \/ \E c \in Closer : Close(c) \/ CloseReturns(c)
  \/ StopActive \/ CloseHTTP \/ \E r \in Req : Request(r)

-----------------------------------------------------------------------------
\* "Close stops the active stream and all client-owned subscriptions": whichever
\* way creation, the stream's own end, Stop and requests fall between the steps of
\* Close, once any caller of Close is back the client holds nothing, no request
\* runs, and no stream it created can still acquire anything; and until then what
\* is held belongs to its one active stream (NewStatusStream, close, release).
ClosedOwnsNothing ==
  /\ \A s \in Stream : phase[s] \in {"created", "running", "finishing"} \/ held[s] => active = s
  /\ (\E c \in Closer : closers[c] = "returned") =>
       /\ \A s \in Stream : phase[s] \in {"new", "released", "ended"}
       /\ gate = "closed" /\ \A r \in Req : call[r] # "running"
=============================================================================
