--------------------------- MODULE StreamContract ---------------------------
(***************************************************************************)
(* stream.Stream: the one-shot lifecycle that the local WebSocket stream   *)
(* and the remote MQTT stream both promise.  A stream runs at most once,   *)
(* delivers messages only while it runs, and ends with a result that is    *)
(* never changed, only after everything it held has been given up.  It may *)
(* lose a message to a full queue, but not silently: nothing is delivered  *)
(* after that, and the result says so unless the context ended too.        *)
(***************************************************************************)
EXTENDS Naturals
CONSTANTS Results, Dropped, Buffer
VARIABLES
  phase,    \* "idle", "running" or "ended"
  result,   \* what Wait returns, once ended
  held,     \* does the stream own a connection, goroutine or lease
  queue,    \* messages in the channel Messages returns
  lost,     \* has a message been refused by the full channel
  over      \* has the context of Start ended
vars == <<phase, result, held, queue, lost, over>>

Init ==
  /\ phase = "idle" /\ result = "none" /\ held = FALSE /\ queue = 0
  /\ lost = FALSE /\ over = FALSE

Start   == phase = "idle" /\ phase' = "running" /\ UNCHANGED <<result, held, queue, lost, over>>
Acquire == phase = "running" /\ held' = TRUE /\ UNCHANGED <<phase, result, queue, lost, over>>
Release == held' = FALSE /\ UNCHANGED <<phase, result, queue, lost, over>>
Deliver ==
  /\ phase = "running" /\ ~lost /\ queue < Buffer
  /\ queue' = queue + 1 /\ UNCHANGED <<phase, result, held, lost, over>>
Lose ==
  /\ phase = "running" /\ ~lost /\ queue = Buffer
  /\ lost' = TRUE /\ UNCHANGED <<phase, result, held, queue, over>>
Consume ==
  /\ queue > 0 /\ queue' = queue - 1 /\ UNCHANGED <<phase, result, held, lost, over>>
Cancel == over' = TRUE /\ UNCHANGED <<phase, result, held, queue, lost>>
End(res) ==
  /\ phase = "running" /\ ~held /\ (lost => res = Dropped \/ over)
  /\ phase' = "ended" /\ result' = res /\ UNCHANGED <<held, queue, lost, over>>

Next ==
  \/ Start \/ Acquire \/ Release \/ Deliver \/ Lose \/ Consume \/ Cancel
  \/ \E res \in Results : End(res)
Spec == Init /\ [][Next]_vars
=============================================================================
