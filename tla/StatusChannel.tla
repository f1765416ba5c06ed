--------------------------- MODULE StatusChannel ----------------------------
(***************************************************************************)
(* internal/streamstate: publishStatusLocked.  A snapshot is published in  *)
(* three non-blocking selects (send, drain, send) under State.mu; only the *)
(* consumer of the channel runs between them.  Snapshots are numbered; the *)
(* channel has room for one.                                               *)
(***************************************************************************)
EXTENDS Integers

CONSTANTS Writer, None, MaxWrites   \* MaxWrites bounds the status changes
ASSUME WriterAssumption == None \notin Writer
ASSUME WritesAssumption == MaxWrites \in Nat

VARIABLES
  mu,        \* writer inside State.mu, or None
  pc,        \* where in publishStatusLocked each writer is
  status,    \* number of the current snapshot
  finished,  \* s.finished
  slot,      \* content of the channel: {} or {n}
  closed,    \* the channel is closed
  seen,      \* last snapshot the consumer received, -1 before the first
  sawClose   \* the consumer saw the channel close
channelVars == <<mu, pc, status, finished, slot, closed, seen, sawClose>>

\* New puts the idle snapshot into the channel.
ChannelInit ==
  /\ mu = None /\ pc = [w \in Writer |-> "idle"]
  /\ status = 0 /\ finished = FALSE
  /\ slot = {0} /\ closed = FALSE /\ seen = -1 /\ sawClose = FALSE

Step(w, from, to) == pc[w] = from /\ pc' = [pc EXCEPT ![w] = to]

\* SetStatus and Finish change the snapshot and go on to publish it.
ChangeStatus(w) ==
  /\ mu = None /\ Step(w, "idle", "send") /\ mu' = w
  /\ status' = status + 1
  /\ UNCHANGED <<slot, closed, seen, sawClose>>
SetStatus(w) == ~finished /\ status < MaxWrites /\ ChangeStatus(w) /\ UNCHANGED finished
FinishOnce(w) == ~finished /\ ChangeStatus(w) /\ finished' = TRUE

SendOnly(w) ==
  /\ slot' = IF slot = {} THEN {status} ELSE slot
  /\ Step(w, "send", "publish")
  /\ UNCHANGED <<mu, status, finished, closed, seen, sawClose>>

Send(w) ==
  /\ \/ slot = {} /\ slot' = {status} /\ Step(w, "send", "publish")
     \/ slot # {} /\ Step(w, "send", "drain") /\ UNCHANGED slot
  /\ UNCHANGED <<mu, status, finished, closed, seen, sawClose>>
Drain(w) ==
  /\ Step(w, "drain", "resend") /\ slot' = {}
  /\ UNCHANGED <<mu, status, finished, closed, seen, sawClose>>
Resend(w) ==
  /\ slot' = IF slot = {} THEN {status} ELSE slot
  /\ Step(w, "resend", "publish")
  /\ UNCHANGED <<mu, status, finished, closed, seen, sawClose>>

\* The lock is released; Finish has closed the channels first.
Unlock(w) ==
  /\ Step(w, "publish", "idle") /\ mu' = None
  /\ closed' = finished
  /\ UNCHANGED <<status, finished, slot, seen, sawClose>>

\* The consumer: buffered snapshots are received even after the close.
Receive ==
  /\ slot # {} /\ seen' \in slot /\ slot' = {}
  /\ UNCHANGED <<mu, pc, status, finished, closed, sawClose>>
SeeClose ==
  /\ closed /\ slot = {} /\ sawClose' = TRUE
  /\ UNCHANGED <<mu, pc, status, finished, slot, closed, seen>>

Publish(w) == Send(w) \/ Drain(w) \/ Resend(w) \/ Unlock(w)
ChannelNext ==
  \/ \E w \in Writer : SetStatus(w) \/ FinishOnce(w) \/ Publish(w)
  \/ Receive \/ SeeClose
  \/ sawClose /\ UNCHANGED channelVars   \* the stream has ended

ChannelSpec == ChannelInit /\ [][ChannelNext]_channelVars
ChannelFairSpec ==
  /\ ChannelSpec /\ WF_channelVars(Receive \/ SeeClose)
  /\ \A w \in Writer : WF_channelVars(Publish(w))

-----------------------------------------------------------------------------
\* Every variable keeps its type; the slot holds at most one snapshot.
ChannelTypeOK ==
  /\ mu \in Writer \cup {None}
  /\ pc \in [Writer -> {"idle", "send", "drain", "resend", "publish"}]
  /\ status \in Nat /\ finished \in BOOLEAN /\ closed \in BOOLEAN
  /\ sawClose \in BOOLEAN /\ seen \in Int /\ seen <= status
  /\ slot = {} \/ \E n \in 0..status : slot = {n}

\* Between publications the consumer has the latest snapshot or finds it in the
\* channel: coalescing loses intermediate snapshots, never the last one.
LatestReachable == mu = None => slot = {status} \/ (slot = {} /\ seen = status)

\* No snapshot is sent to the closed channel (a send would panic).
NoSendAfterClose == closed => mu = None /\ \A w \in Writer : pc[w] = "idle"

\* Snapshots are received in the order of the changes, none of them twice.
SeenInOrder == [][Receive => seen' > seen]_channelVars

\* A consumer that keeps receiving gets the terminal snapshot, then the close.
TerminalSeen == finished ~> (sawClose /\ seen = status)

\* The snapshot is in the channel, or with the consumer.
Delivered == \/ slot = {status} /\ seen < status
             \/ slot = {} /\ seen = status

\* The inductive invariant: what the slot and the consumer hold at each point
\* of a publication.
ChannelInv ==
  /\ ChannelTypeOK
  /\ \A w \in Writer : mu = w <=> pc[w] # "idle"
  /\ closed => finished /\ mu = None
  /\ mu = None => (finished => closed)
  /\ \A w \in Writer :
       /\ pc[w] \in {"send", "drain"} =>
            seen < status /\ \A n \in slot : seen < n /\ n < status
       /\ pc[w] = "resend" => seen < status /\ slot = {}
       /\ pc[w] = "publish" => Delivered
  /\ mu = None => Delivered
=============================================================================
