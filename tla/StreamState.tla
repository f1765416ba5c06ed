---------------------------- MODULE StreamState -----------------------------
(***************************************************************************)
(* internal/streamstate: the lifecycle state that the local and the remote *)
(* stream share.  Every operation is one critical section of State.mu (the *)
(* publication of a snapshot inside it is StatusChannel's subject), so it  *)
(* is one formula here, a conjunct of the action that calls it.  Times are *)
(* reduced to "a device state has arrived" and errors to their cause.      *)
(***************************************************************************)
EXTENDS Naturals

CONSTANT Buffer     \* capacity of the message channel
ASSUME BufferAssumption == Buffer \in Nat \ {0}

VARIABLES
  started,    \* started: Begin or StopBeforeStart has claimed the stream
  finished,   \* finished, and with it the closing of the three channels
  final,      \* finalErr: "none" until finished, then its cause or "nil"
  status,     \* the lifecycle snapshot
  queue,      \* messages waiting in the channel
  lost        \* a received message was refused by the full channel

stateVars == <<started, finished, final, status, queue, lost>>

Causes == {"nil", "ctx", "connect", "deliver", "device", "oversize", "cleanup"}
Lives    == {"idle", "connecting", "connected", "reconnecting", "stopped", "failed"}
Accesses == {"unknown", "accepted", "rejected"}
Datas    == {"waiting", "fresh", "stale"}
\* seen: LastStateAt is set.
Statuses == [life : Lives, access : Accesses, data : Datas, seen : BOOLEAN]

StateInit ==
  /\ started = FALSE /\ finished = FALSE /\ final = "none"
  /\ status = [life |-> "idle", access |-> "unknown", data |-> "waiting", seen |-> FALSE]
  /\ queue = 0 /\ lost = FALSE

\* Begin and StopBeforeStart: exactly one caller gets the stream.
Claim == ~started /\ started' = TRUE /\ UNCHANGED <<finished, final, status, queue, lost>>

\* Once finished, a status change is dropped.
SetStatus(new) ==
  /\ status' = IF finished THEN status ELSE new
  /\ UNCHANGED <<started, finished, final, queue, lost>>

\* Deliver never waits for the consumer: queue the message, or give up because
\* the context is over, or (only when neither is possible) refuse it.
Enqueue == queue < Buffer /\ queue' = queue + 1
           /\ UNCHANGED <<started, finished, final, status, lost>>
Refuse  == queue = Buffer /\ lost' = TRUE
           /\ UNCHANGED <<started, finished, final, status, queue>>

\* Finish with the terminal error already joined with the cleanup's; the first
\* call decides.
Finish(err) ==
  /\ IF finished THEN UNCHANGED <<finished, final, status>>
     ELSE /\ finished' = TRUE /\ final' = err
          /\ status' = [status EXCEPT !.life = IF err = "nil" THEN "stopped" ELSE "failed"]
  /\ UNCHANGED <<started, queue, lost>>

\* The consumer receives a message, before or after the channel is closed.
Consume == queue > 0 /\ queue' = queue - 1
           /\ UNCHANGED <<started, finished, final, status, lost>>

StateTypeOK ==
  /\ started \in BOOLEAN /\ finished \in BOOLEAN /\ lost \in BOOLEAN
  /\ final \in Causes \cup {"none"} /\ status \in Statuses /\ queue \in 0..Buffer
=============================================================================
