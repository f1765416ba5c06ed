---------------------------- MODULE RequestExec -----------------------------
(***************************************************************************)
(* request.go and body.go over version.go: each caller executes a prepared *)
(* request, from preparedExecution through the attempts of                 *)
(* executePreparedWith; several may execute the same one.  An execution    *)
(* carries the API version it was given; a device that speaks another one  *)
(* answers 405, after which the version is fetched afresh and the request  *)
(* sent once more.  A request whose transport fails may have been carried  *)
(* out all the same.                                                       *)
(*                                                                         *)
(* Headers, payloads and which error is returned are left out, as are      *)
(* disabled negotiation and 405 for other reasons.                         *)
(***************************************************************************)
EXTENDS VersionCache

CONSTANTS
  Request,      \* prepared requests
  Safe,         \* those with a method that is safe to retry
  Repeatable,   \* those whose body can be opened again
  MaxAttempts   \* retryPolicy.MaxAttempts
ASSUME RequestAssumption ==
  /\ Safe \subseteq Request /\ Repeatable \subseteq Request /\ None \notin Request
  /\ MaxAttempts \in Nat \ {0}

VARIABLES
  pc,        \* control state of each caller
  req,       \* the request it executes, or None before it begins
  over,      \* callers whose context is over
  mine,      \* the flight a caller waits for
  local,     \* its execution: header, attempts, retried, and the reply under way
  used,      \* requests whose body cannot be opened any more
  executed,  \* how often the device carried it out (history)
  upgraded   \* callers during whose call the device was upgraded (history)
requestVars == <<pc, req, over, mine, local, used, executed, upgraded>>
vars == <<versionVars, requestVars>>

Returned == [header |-> 0, attempts |-> 0, retried |-> FALSE, reply |-> "none"]
Init ==
  /\ VersionInit
  /\ pc = [c \in Caller |-> "idle"] /\ req = [c \in Caller |-> None] /\ over = {}
  /\ mine = [c \in Caller |-> None] /\ local = [c \in Caller |-> Returned]
  /\ used = {} /\ executed = [c \in Caller |-> 0] /\ upgraded = {}

Step(c, from, to) == pc[c] = from /\ pc' = [pc EXCEPT ![c] = to]
\* c goes on with the execution x, or ends its call.
Go(c, from, to, x) == Step(c, from, to) /\ local' = [local EXCEPT ![c] = x]
End(c, from, to) == Go(c, from, to, Returned)

-----------------------------------------------------------------------------
(* preparedExecution: APISemVer.                                           *)

Begin(c) ==
  /\ \/ /\ Hit /\ Go(c, "idle", "send", [Returned EXCEPT !.header = cached])
        /\ UNCHANGED mine
     \/ /\ Join /\ Go(c, "idle", "wait", Returned)
        /\ mine' = [mine EXCEPT ![c] = inFlight]
     \/ /\ Go(c, "idle", "wait", Returned)
        /\ \E f \in Flight : Launch(f) /\ mine' = [mine EXCEPT ![c] = f]
  /\ \E q \in Request : req' = [req EXCEPT ![c] = q]
  /\ UNCHANGED <<over, used, executed, upgraded>>

\* waitForVersionRefresh: the flight is done, or the context is over.
Shared(c) ==
  /\ pc[c] = "wait" /\ state[mine[c]] = "done"
  /\ IF outcome[mine[c]] = 0 THEN End(c, "wait", "versionError")
     ELSE Go(c, "wait", "send", [Returned EXCEPT !.header = outcome[mine[c]]])
  /\ mine' = [mine EXCEPT ![c] = None]
  /\ UNCHANGED <<versionVars, req, over, used, executed, upgraded>>
\* The case of the context may be taken when the flight is done as well.
Leave(c) ==
  /\ c \in over /\ Step(c, "wait", "cancelled")
  /\ Release(mine[c]) /\ mine' = [mine EXCEPT ![c] = None]
  /\ UNCHANGED <<req, over, local, used, executed, upgraded>>

-----------------------------------------------------------------------------
(* executePreparedWith.                                                    *)

AttemptsOfAny(c) == IF req[c] \in Repeatable THEN MaxAttempts ELSE 1
AttemptsOf(c) == IF req[c] \in Repeatable \cap Safe THEN MaxAttempts ELSE 1

Elsewhere == UNCHANGED <<versionVars, req, over, mine, upgraded>>

\* sendOnce: a body that cannot be repeated opens once, whoever executes it.
SendOnce(c) ==
  /\ LET x == [local[c] EXCEPT !.attempts = @ + 1] IN
     \/ req[c] \in used /\ Go(c, "send", "error", x) /\ UNCHANGED used
     \/ /\ req[c] \notin used /\ Go(c, "send", "sent", x)
        /\ used' = IF req[c] \in Repeatable THEN used ELSE used \cup {req[c]}
  /\ UNCHANGED executed /\ Elsewhere

\* The request arrives.
Arrive(c) ==
  /\ local[c].reply = "none"
  /\ \/ /\ local[c].header # device
        /\ Go(c, "sent", "sent", [local[c] EXCEPT !.reply = "405"]) /\ UNCHANGED executed
     \/ /\ local[c].header = device
        /\ Go(c, "sent", "sent", [local[c] EXCEPT !.reply = "done"])
        /\ executed' = [executed EXCEPT ![c] = executed[c] + 1]
  /\ UNCHANGED used /\ Elsewhere

TransportFails(c) ==
  /\ Go(c, "sent", "error", [local[c] EXCEPT !.reply = "none"])
  /\ UNCHANGED <<used, executed>> /\ Elsewhere

\* The context, then the attempts left, then the backoff (which the context cuts
\* short).
Retry(c) ==
  /\ \/ c \in over /\ End(c, "error", "cancelled")
     \/ c \notin over /\ local[c].attempts < AttemptsOf(c) /\ Go(c, "error", "send", local[c])
     \/ c \notin over /\ local[c].attempts >= AttemptsOf(c) /\ End(c, "error", "failed")
  /\ UNCHANGED <<used, executed>> /\ Elsewhere

\* An answer, the second 405, or a response that breaks off while it is read.
Respond(c) ==
  /\ \/ local[c].reply = "done" /\ End(c, "sent", "ok")
     \/ local[c].reply = "405" /\ local[c].retried /\ End(c, "sent", "rejected")
     \/ local[c].reply # "none" /\ End(c, "sent", "failed")
  /\ UNCHANGED <<used, executed>> /\ Elsewhere

Incompatible(c) ==
  /\ local[c].reply = "405" /\ ~local[c].retried
  /\ \/ /\ req[c] \in Repeatable
        /\ Go(c, "sent", "refresh", [local[c] EXCEPT !.retried = TRUE, !.reply = "none"])
     \/ req[c] \notin Repeatable /\ End(c, "sent", "failed")
  /\ UNCHANGED <<used, executed>> /\ Elsewhere

RefreshKeepsHeader(c) ==
  /\ \/ Go(c, "refresh", "send", local[c]) /\ Refreshed(c)
     \/ End(c, "refresh", "versionError") /\ RefreshFails(c)
  /\ UNCHANGED <<req, over, mine, used, executed, upgraded>>
\* RefreshAPISemVer returns.
Refresh(c) ==
  /\ \/ Go(c, "refresh", "send", [local[c] EXCEPT !.header = answer[c]]) /\ Refreshed(c)
     \/ End(c, "refresh", "versionError") /\ RefreshFails(c)
  /\ UNCHANGED <<req, over, mine, used, executed, upgraded>>

-----------------------------------------------------------------------------

Finals == {"ok", "failed", "cancelled", "rejected", "versionError"}
Running == {c \in Caller : pc[c] \notin Finals \cup {"idle"}}
ContextEnds(c) ==
  /\ c \in Running \ over /\ over' = over \cup {c}
  /\ UNCHANGED <<versionVars, pc, req, mine, local, used, executed, upgraded>>
Served(g) ==
  /\ \/ g \in Flight /\ state[g] = "fetching"
     \/ g \in Caller /\ pc[g] = "refresh"
  /\ answer[g] = None /\ Answer(g) /\ UNCHANGED requestVars
Flies(f) == (Lands(f) \/ LandFails(f)) /\ UNCHANGED requestVars
Upgrades ==
  /\ Upgrade /\ upgraded' = upgraded \cup Running
  /\ UNCHANGED <<pc, req, over, mine, local, used, executed>>

\* What a caller does by itself, and how a call it waits for returns.
Proceed(c) == Shared(c) \/ Leave(c) \/ SendOnce(c) \/ Retry(c)
Returns(c) == TransportFails(c) \/ Respond(c) \/ Incompatible(c) \/ Refresh(c)

Ended == (\A c \in Caller : pc[c] \in Finals) /\ UNCHANGED vars

Next ==
  \/ \E c \in Caller : Begin(c) \/ Proceed(c) \/ Returns(c) \/ Arrive(c) \/ ContextEnds(c)
  \/ \E g \in Fetcher : Served(g)
  \/ \E f \in Flight : Flies(f)
  \/ Upgrades \/ Ended

Spec == Init /\ [][Next]_vars

-----------------------------------------------------------------------------
(* Properties.                                                             *)

\* A request whose method is not safe to repeat is carried out at most once by an
\* execution, whatever is retried: never after a transport error, and 405 means it
\* was not; and one whose body can be read once, by one execution in all.
ExecutedOnce ==
  /\ \A c \in Caller : req[c] \notin Safe => executed[c] <= 1
  /\ \A c, d \in Caller :
       c # d /\ req[c] = req[d] /\ req[c] \notin Repeatable => executed[c] + executed[d] <= 1

\* A stale version costs a request one more attempt, never its success: 405 is
\* returned only if the device was upgraded while the request ran.
OnlyUpgradeRejects == \A c \in Caller : pc[c] = "rejected" => c \in upgraded

\* Somebody waits for every flight that is not cancelled or done, there is one
\* at most, and nobody's flight is cancelled under him.
FlightIsShared ==
  \A f \in Flight :
    LET Waiting == {c \in Caller : mine[c] = f} IN
    /\ state[f] = "fetching" => (f = inFlight <=> f \notin cancelled)
    /\ f = inFlight => waiters = Cardinality(Waiting) /\ Waiting # {}
    /\ f \in cancelled => Waiting = {}
=============================================================================
