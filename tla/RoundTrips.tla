----------------------------- MODULE RoundTrips -----------------------------
(***************************************************************************)
(* What a closable request client promises (remote.Client.Close and        *)
(* "calls made through the returned client fail after Close"): calls start *)
(* only while the gate is open, later ones are refused, and Close returns  *)
(* only when no call it let in is still running.                           *)
(***************************************************************************)
CONSTANT Req
VARIABLES gate, call
vars == <<gate, call>>

Init == gate = "open" /\ call = [r \in Req |-> "idle"]

Move(r, from, to) == call[r] = from /\ call' = [call EXCEPT ![r] = to]

Start(r)  == gate = "open" /\ Move(r, "idle", "running") /\ UNCHANGED gate
Refuse(r) == gate # "open" /\ Move(r, "idle", "finished") /\ UNCHANGED gate
Return(r) == Move(r, "running", "finished") /\ UNCHANGED gate
CloseStart == gate = "open" /\ gate' = "closing" /\ UNCHANGED call
CloseEnd ==
  /\ gate = "closing" /\ \A r \in Req : call[r] # "running"
  /\ gate' = "closed" /\ UNCHANGED call

Next ==
  \/ \E r \in Req : Start(r) \/ Refuse(r) \/ Return(r)
  \/ CloseStart \/ CloseEnd

Spec == Init /\ [][Next]_vars
=============================================================================
