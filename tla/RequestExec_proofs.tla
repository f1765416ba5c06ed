-------------------------- MODULE RequestExec_proofs ------------------------
(***************************************************************************)
(* Proofs about RequestExec for any finite set of callers, any requests    *)
(* and flights, and any bounds: nothing unsafe is carried out twice, 405   *)
(* reaches a caller only after an upgrade, and a shared fetch lives as     *)
(* long as somebody waits for it.                                          *)
(***************************************************************************)
EXTENDS RequestExec, FiniteSetTheorems, TLAPS

Executions ==
  [header : Nat, attempts : Nat, retried : BOOLEAN, reply : {"none", "405", "done"}]
Waiting(f) == {c \in Caller : mine[c] = f}

-----------------------------------------------------------------------------
CacheTypeOK ==
  /\ device \in Nat /\ cached \in Nat /\ waiters \in Nat
  /\ inFlight \in Flight \cup {None}
  /\ state \in [Flight -> {"unused", "fetching", "done"}] /\ cancelled \subseteq Flight
  /\ answer \in [Fetcher -> Nat \cup {None}] /\ outcome \in [Flight -> Nat]
CallTypeOK ==
  /\ pc \in [Caller -> {"idle", "wait", "send", "sent", "error", "refresh"} \cup Finals]
  /\ req \in [Caller -> Request \cup {None}] /\ mine \in [Caller -> Flight \cup {None}]
  /\ over \subseteq Caller /\ upgraded \subseteq Caller /\ used \subseteq Request
  /\ local \in [Caller -> Executions] /\ executed \in [Caller -> Nat]

\* The flight in use is fetching and everybody's who waits for one that does, a
\* cancelled or unused one is nobody's, and a caller has a flight exactly while it
\* waits.
FlightInv ==
  /\ \A f \in Flight :
       /\ f = inFlight => state[f] = "fetching" /\ \E c \in Caller : mine[c] = f
       /\ state[f] = "fetching" => (f = inFlight <=> f \notin cancelled)
       /\ state[f] = "unused" => f \notin cancelled
       /\ f \in cancelled \/ state[f] = "unused" => \A c \in Caller : mine[c] # f
  /\ \A c \in Caller : mine[c] # None <=> pc[c] = "wait"
\* Its waiters are counted.
CountInv == inFlight # None => waiters = Cardinality(Waiting(inFlight))

\* A caller has a reply only while its request is under way, and nothing more to
\* carry out once a request that must not be repeated has been.
ExecInv ==
  /\ \A c \in Caller :
       /\ pc[c] = "idle" <=> req[c] = None
       /\ local[c].reply # "none" => pc[c] = "sent"
       /\ pc[c] \in {"sent", "error"} => local[c].attempts >= 1
       /\ req[c] \notin Safe \cap Repeatable =>
            \/ executed[c] = 0
            \/ /\ executed[c] = 1
               /\ (pc[c] = "sent" /\ local[c].reply = "done") \/ pc[c] \in {"error"} \cup Finals

\* A body that can be read once is open for one execution at most.
Opened(c) == pc[c] = "sent" \/ executed[c] > 0
UsedInv ==
  /\ \A c \in Caller : Opened(c) /\ req[c] \notin Repeatable => req[c] \in used
  /\ \A c, d \in Caller :
       c # d /\ req[c] = req[d] /\ req[c] \notin Repeatable => ~(Opened(c) /\ Opened(d))

\* The version fetched for a second attempt is the device's, until an upgrade.
UpgradeInv ==
  /\ OnlyUpgradeRejects
  /\ \A c \in Caller :
       /\ answer[c] # None => pc[c] = "refresh"
       /\ c \notin upgraded =>
            /\ pc[c] = "refresh" /\ answer[c] # None => answer[c] = device
            /\ local[c].retried /\ pc[c] \in {"send", "sent", "error"} =>
                 local[c].header = device /\ local[c].reply # "405"

IInv == CacheTypeOK /\ CallTypeOK /\ FlightInv /\ CountInv /\ ExecInv /\ UsedInv /\ UpgradeInv

-----------------------------------------------------------------------------
\* The initial state satisfies the invariant (NewClient, Prepare).
LEMMA InitInv == Init => IInv
<1> SUFFICES ASSUME Init PROVE IInv
  OBVIOUS
<1> USE CallerAssumption, RequestAssumption DEF Init, VersionInit, Returned
<1>1. CacheTypeOK
  BY DEF CacheTypeOK
<1>2. CallTypeOK
  BY DEF CallTypeOK, Executions
<1>3. FlightInv /\ CountInv
  BY DEF FlightInv, CountInv, Fetcher
<1>4. ExecInv /\ UsedInv
  BY DEF ExecInv, UsedInv, Opened
<1>5. UpgradeInv
  BY DEF UpgradeInv, OnlyUpgradeRejects, Fetcher
<1>6. QED
  BY <1>1, <1>2, <1>3, <1>4, <1>5 DEF IInv

-----------------------------------------------------------------------------
\* What happens to the cache keeps its types (version.go).
LEMMA CacheType ==
  ASSUME IInv, [Next]_vars
  PROVE  CacheTypeOK'
<1> USE CallerAssumption DEF IInv, CacheTypeOK, Fetcher, versionVars
<1>1. ASSUME NEW c \in Caller, Begin(c) PROVE CacheTypeOK'
  BY <1>1 DEF Begin, Hit, Join, Launch
<1>2. ASSUME NEW c \in Caller, Leave(c) PROVE CacheTypeOK'
  <2>1. PICK f \in Flight : f = mine[c] /\ Release(f)
    BY <1>2 DEF Leave, Step, CallTypeOK, FlightInv
  <2>2. inFlight = f => waiters >= 1
    <3>1. inFlight = f => waiters = Cardinality(Waiting(f)) /\ Waiting(f) # {}
      BY DEF FlightInv, CountInv, Waiting, Fetcher
    <3>2. IsFiniteSet(Waiting(f))
      BY FiniteAssumption, FS_Subset DEF Waiting
    <3>3. QED
      BY <3>1, <3>2, FS_EmptySet, FS_CardinalityType
  <2>3. QED
    BY <2>1, <2>2 DEF Release
<1>3. ASSUME NEW c \in Caller, Refresh(c) PROVE CacheTypeOK'
  BY <1>3 DEF Refresh, Refreshed, RefreshFails
<1>4. ASSUME NEW c \in Caller, \/ Shared(c) \/ SendOnce(c) \/ Retry(c) \/ TransportFails(c) \/ Respond(c)
                               \/ Incompatible(c) \/ Arrive(c) \/ ContextEnds(c)
      PROVE  CacheTypeOK'
  BY <1>4 DEF Shared, SendOnce, Retry, TransportFails, Respond, Incompatible, Arrive, ContextEnds, Elsewhere
<1>5. ASSUME NEW g \in Fetcher, Served(g) PROVE CacheTypeOK'
  BY <1>5 DEF Served, Answer
<1>6. ASSUME NEW f \in Flight, Flies(f) PROVE CacheTypeOK'
  <2>1. PICK value \in Nat : Land(f, value)
    BY <1>6 DEF Flies, Lands, LandFails
  <2>2. QED
    BY <2>1 DEF Land
<1>7. CASE Upgrades
  BY <1>7 DEF Upgrades, Upgrade
<1>8. CASE UNCHANGED vars
  BY <1>8 DEF vars
<1>9. QED
  BY <1>1, <1>2, <1>3, <1>4, <1>5, <1>6, <1>7, <1>8 DEF Next, Proceed, Returns, Ended

\* An execution stays one when its fields are set (request.go:195-340).
LEMMA ExecutionFields ==
  ASSUME NEW x \in Executions
  PROVE  /\ x.header \in Nat /\ x.attempts \in Nat /\ x.retried \in BOOLEAN /\ x.reply \in {"none", "405", "done"}
         /\ [x EXCEPT !.attempts = @ + 1] \in Executions
         /\ \A r \in {"none", "405", "done"} : [x EXCEPT !.reply = r] \in Executions
         /\ [x EXCEPT !.retried = TRUE, !.reply = "none"] \in Executions
         /\ \A v \in Nat : [x EXCEPT !.header = v] \in Executions
         /\ Returned \in Executions
<1> USE DEF Executions
<1>1. [x EXCEPT !.attempts = @ + 1] \in Executions
  <2>1. x.attempts + 1 \in Nat
    OBVIOUS
  <2>2. QED
    BY <2>1
<1>2. QED
  BY <1>1 DEF Returned

\* So do the executions (request.go).
LEMMA CallType ==
  ASSUME IInv, [Next]_vars
  PROVE  CallTypeOK'
<1> USE CallerAssumption, RequestAssumption
        DEF IInv, CallTypeOK, Finals, Running, requestVars, Go, Step, End, Elsewhere
<1>a. \A c \in Caller, x \in Executions : \A from, to : Go(c, from, to, x) => local' \in [Caller -> Executions]
  OBVIOUS
<1>b. \A c \in Caller : local[c] \in Executions
  OBVIOUS
<1>1. ASSUME NEW c \in Caller, Begin(c) PROVE CallTypeOK'
  <2>1. local' \in [Caller -> Executions]
    <3>1. [Returned EXCEPT !.header = cached] \in Executions /\ Returned \in Executions
      BY ExecutionFields DEF CacheTypeOK, Executions, Returned
    <3>2. QED
      BY <1>1, <3>1 DEF Begin
  <2>2. QED
    BY <1>1, <2>1 DEF Begin, Join, CacheTypeOK
<1>2. ASSUME NEW c \in Caller, Shared(c) PROVE CallTypeOK'
  <2>1. mine[c] \in Flight
    BY <1>2 DEF Shared, FlightInv
  <2>2. [Returned EXCEPT !.header = outcome[mine[c]]] \in Executions /\ Returned \in Executions
    BY <2>1 DEF CacheTypeOK, Executions, Returned
  <2>3. local' \in [Caller -> Executions]
    BY <1>2, <2>2 DEF Shared
  <2>4. QED
    BY <1>2, <2>3 DEF Shared
<1>3. ASSUME NEW c \in Caller, Leave(c) PROVE CallTypeOK'
  BY <1>3 DEF Leave
<1>4. ASSUME NEW c \in Caller, SendOnce(c) PROVE CallTypeOK'
  <2>1. local' \in [Caller -> Executions]
    <3>1. [local[c] EXCEPT !.attempts = @ + 1] \in Executions
      BY <1>b, ExecutionFields
    <3>2. QED
      BY <1>4, <3>1 DEF SendOnce
  <2>2. used' \subseteq Request
    BY <1>4 DEF SendOnce, ExecInv
  <2>3. QED
    BY <1>4, <2>1, <2>2 DEF SendOnce
<1>5. ASSUME NEW c \in Caller, Arrive(c) PROVE CallTypeOK'
  <2>1. \A r \in {"none", "405", "done"} : [local[c] EXCEPT !.reply = r] \in Executions
    BY <1>b, ExecutionFields
  <2>2. QED
    BY <1>5, <2>1 DEF Arrive
<1>6. ASSUME NEW c \in Caller, TransportFails(c) PROVE CallTypeOK'
  <2>1. [local[c] EXCEPT !.reply = "none"] \in Executions
    BY <1>b, ExecutionFields
  <2>2. QED
    BY <1>6, <2>1 DEF TransportFails
<1>7. ASSUME NEW c \in Caller, Retry(c) \/ Respond(c) PROVE CallTypeOK'
  <2>1. Returned \in Executions /\ local[c] \in Executions
    BY <1>b, ExecutionFields
  <2>2. QED
    BY <1>7, <2>1 DEF Retry, Respond
<1>8. ASSUME NEW c \in Caller, Incompatible(c) PROVE CallTypeOK'
  <2>1. Returned \in Executions /\ [local[c] EXCEPT !.retried = TRUE, !.reply = "none"] \in Executions
    BY <1>b, ExecutionFields
  <2>2. QED
    BY <1>8, <2>1 DEF Incompatible
<1>9. ASSUME NEW c \in Caller, Refresh(c) PROVE CallTypeOK'
  <2>1. answer[c] # None => answer[c] \in Nat
    BY DEF CacheTypeOK, Fetcher
  <2>2. Returned \in Executions /\ (answer[c] # None => [local[c] EXCEPT !.header = answer[c]] \in Executions)
    BY <1>b, <2>1, ExecutionFields
  <2>3. QED
    BY <1>9, <2>2 DEF Refresh, Refreshed
<1>10. CASE \/ \E c \in Caller : ContextEnds(c)
            \/ \E g \in Fetcher : Served(g)
            \/ \E f \in Flight : Flies(f)
            \/ Upgrades \/ UNCHANGED vars
  BY <1>10 DEF ContextEnds, Served, Flies, Upgrades, vars
<1>11. QED
  BY <1>1, <1>2, <1>3, <1>4, <1>5, <1>6, <1>7, <1>8, <1>9, <1>10 DEF Next, Proceed, Returns, Ended

-----------------------------------------------------------------------------
\* The waiters of a flight are finitely many: none, one or more.
LEMMA WaitersFinite ==
  ASSUME NEW f \in Flight
  PROVE  /\ IsFiniteSet(Waiting(f)) /\ Cardinality(Waiting(f)) \in Nat
         /\ \A c \in Waiting(f) : IsFiniteSet(Waiting(f) \ {c})
              /\ Cardinality(Waiting(f) \ {c}) = Cardinality(Waiting(f)) - 1
         /\ Cardinality(Waiting(f)) = 1 => \A c, d \in Waiting(f) : c = d
         /\ Cardinality(Waiting(f)) # 1 => \A c \in Waiting(f) : \E d \in Waiting(f) : d # c
<1>1. IsFiniteSet(Waiting(f)) /\ Cardinality(Waiting(f)) \in Nat
  BY FiniteAssumption, FS_Subset, FS_CardinalityType DEF Waiting
<1>2. \A c \in Waiting(f) : /\ IsFiniteSet(Waiting(f) \ {c})
                            /\ Cardinality(Waiting(f) \ {c}) = Cardinality(Waiting(f)) - 1
  BY <1>1, FS_RemoveElement
<1>3. ASSUME Cardinality(Waiting(f)) = 1, NEW c \in Waiting(f), NEW d \in Waiting(f) PROVE c = d
  <2>1. Cardinality(Waiting(f) \ {c}) = 0
    BY <1>2, <1>3
  <2>2. Waiting(f) \ {c} = {}
    BY <1>2, <2>1, FS_EmptySet
  <2>3. QED
    BY <2>2
<1>4. ASSUME Cardinality(Waiting(f)) # 1, NEW c \in Waiting(f) PROVE \E d \in Waiting(f) : d # c
  <2>1. Cardinality(Waiting(f) \ {c}) # 0
    BY <1>1, <1>2, <1>4
  <2>2. Waiting(f) \ {c} # {}
    BY <2>1, FS_EmptySet
  <2>3. QED
    BY <2>2
<1>5. QED
  BY <1>1, <1>2, <1>3, <1>4

\* Every step keeps what holds of the flights and counts their waiters (APISemVer,
\* releaseVersionWaiter, runVersionRefresh).
LEMMA FlightStep ==
  ASSUME IInv, [Next]_vars
  PROVE  FlightInv' /\ CountInv'
<1> USE CallerAssumption DEF IInv, CacheTypeOK, CallTypeOK, FlightInv, Fetcher
<1>a. \A f \in Flight, c \in Caller : c \in Waiting(f) <=> mine[c] = f
  BY DEF Waiting
<1>b. UNCHANGED <<mine, inFlight, waiters>> => CountInv'
  BY DEF CountInv, Waiting
<1>c. inFlight' = None => CountInv'
  BY DEF CountInv
<1>1. ASSUME NEW c \in Caller, Begin(c) PROVE FlightInv' /\ CountInv'
  <2>1. pc[c] = "idle" /\ mine[c] = None
    BY <1>1 DEF Begin, Go, Step
  <2>2. CASE Hit /\ Go(c, "idle", "send", [Returned EXCEPT !.header = cached]) /\ UNCHANGED mine
    <3>1. pc' = [pc EXCEPT ![c] = "send"] /\ UNCHANGED versionVars
      BY <2>2 DEF Hit, Go, Step
    <3>2. QED
      BY <1>b, <2>1, <2>2, <3>1 DEF versionVars
  <2>3. CASE Join /\ Go(c, "idle", "wait", Returned) /\ mine' = [mine EXCEPT ![c] = inFlight]
    <3>1. inFlight \in Flight /\ waiters' = waiters + 1 /\ UNCHANGED <<inFlight, state, cancelled>>
      BY <2>3 DEF Join
    <3>2. pc' = [pc EXCEPT ![c] = "wait"]
      BY <2>3 DEF Go, Step
    <3>3. FlightInv'
      BY <2>1, <2>3, <3>1, <3>2
    <3>4. Waiting(inFlight)' = Waiting(inFlight) \cup {c} /\ c \notin Waiting(inFlight)
      BY <2>1, <2>3, <3>1 DEF Waiting
    <3>5. Cardinality(Waiting(inFlight) \cup {c}) = Cardinality(Waiting(inFlight)) + 1
      BY <3>1, <3>4, WaitersFinite, FS_AddElement
    <3>6. waiters = Cardinality(Waiting(inFlight))
      BY <3>1 DEF CountInv
    <3>7. waiters' = Cardinality(Waiting(inFlight)')
      BY <3>1, <3>4, <3>5, <3>6
    <3>8. CountInv'
      BY <3>1, <3>7 DEF CountInv
    <3>9. QED
      BY <3>3, <3>8
  <2>4. CASE /\ Go(c, "idle", "wait", Returned)
             /\ \E f \in Flight : Launch(f) /\ mine' = [mine EXCEPT ![c] = f]
    <3>1. PICK f \in Flight : Launch(f) /\ mine' = [mine EXCEPT ![c] = f]
      BY <2>4
    <3>2. pc' = [pc EXCEPT ![c] = "wait"]
      BY <2>4 DEF Go, Step
    <3>3. FlightInv'
      BY <2>1, <3>1, <3>2 DEF Launch
    <3>4. Waiting(inFlight)' = {c} /\ waiters' = 1
      BY <2>1, <3>1 DEF Launch, Waiting
    <3>5. QED
      BY <3>3, <3>4, FS_Singleton DEF CountInv
  <2>5. QED
    BY <1>1, <2>2, <2>3, <2>4 DEF Begin
<1>2. ASSUME NEW c \in Caller, Shared(c) PROVE FlightInv' /\ CountInv'
  <2>1. /\ pc[c] = "wait" /\ mine' = [mine EXCEPT ![c] = None] /\ state[mine[c]] = "done"
        /\ \E to \in {"send", "versionError"} : pc' = [pc EXCEPT ![c] = to]
        /\ UNCHANGED <<inFlight, waiters, state, cancelled>>
    BY <1>2 DEF Shared, Go, End, Step, versionVars
  <2>2. mine[c] # inFlight
    BY <2>1
  <2>3. FlightInv'
    BY <2>1, <2>2
  <2>4. inFlight # None => Waiting(inFlight)' = Waiting(inFlight)
    BY <2>1, <2>2 DEF Waiting
  <2>5. QED
    BY <2>1, <2>3, <2>4 DEF CountInv
<1>3. ASSUME NEW c \in Caller, Leave(c) PROVE FlightInv' /\ CountInv'
  <2>1. PICK f \in Flight : f = mine[c] /\ Release(f)
    BY <1>3 DEF Leave, Step
  <2>2. /\ pc[c] = "wait" /\ pc' = [pc EXCEPT ![c] = "cancelled"]
        /\ mine' = [mine EXCEPT ![c] = None] /\ UNCHANGED state
    BY <1>3, <2>1 DEF Leave, Step, Release
  <2>3. CASE inFlight # f
    <3>1. UNCHANGED <<inFlight, waiters, cancelled>>
      BY <2>1, <2>3 DEF Release
    <3>2. FlightInv'
      BY <2>1, <2>2, <2>3, <3>1
    <3>3. inFlight # None => Waiting(inFlight)' = Waiting(inFlight)
      BY <2>1, <2>2, <2>3, <3>1 DEF Waiting
    <3>4. QED
      BY <3>1, <3>2, <3>3 DEF CountInv
  <2>4. CASE inFlight = f /\ waiters = 1
    <3>1. inFlight' = None /\ cancelled' = cancelled \cup {f}
      BY <2>1, <2>4 DEF Release
    <3>2. \A d \in Caller : mine[d] = f => d = c
      BY <2>1, <2>4, <1>a, WaitersFinite DEF CountInv
    <3>3. FlightInv'
      BY <2>1, <2>2, <2>4, <3>1, <3>2
    <3>4. QED
      BY <3>1, <3>3, <1>c
  <2>5. CASE inFlight = f /\ waiters # 1
    <3>1. waiters' = waiters - 1 /\ UNCHANGED <<inFlight, cancelled>>
      BY <2>1, <2>5 DEF Release
    <3>2. PICK d \in Caller : mine[d] = f /\ d # c
      <4>1. \E d \in Waiting(f) : d # c
        BY <2>1, <2>5, <1>a, WaitersFinite DEF CountInv
      <4>2. QED
        BY <4>1 DEF Waiting
    <3>3. FlightInv'
      BY <2>1, <2>2, <2>5, <3>1, <3>2
    <3>4. Waiting(inFlight)' = Waiting(f) \ {c} /\ c \in Waiting(f)
      BY <2>1, <2>2, <2>5, <3>1 DEF Waiting
    <3>5. waiters = Cardinality(Waiting(f)) /\ Cardinality(Waiting(f) \ {c}) = Cardinality(Waiting(f)) - 1
      BY <2>1, <2>5, <3>4, WaitersFinite DEF CountInv
    <3>6. waiters' = Cardinality(Waiting(inFlight)')
      BY <3>1, <3>4, <3>5
    <3>7. QED
      BY <3>1, <3>3, <3>6 DEF CountInv
  <2>6. QED
    BY <2>3, <2>4, <2>5
<1>4. ASSUME NEW c \in Caller, \/ SendOnce(c) \/ Retry(c) \/ TransportFails(c) \/ Respond(c)
                               \/ Incompatible(c) \/ Arrive(c) \/ Refresh(c)
      PROVE  FlightInv' /\ CountInv'
  <2>1. \E to \in {"send", "sent", "error", "refresh"} \cup Finals : pc' = [pc EXCEPT ![c] = to] /\ pc[c] # "wait"
    BY <1>4 DEF SendOnce, Retry, TransportFails, Respond, Incompatible, Arrive, Refresh, Go, End, Step, Finals
  <2>2. UNCHANGED <<inFlight, waiters, state, cancelled, mine>>
    BY <1>4 DEF SendOnce, Retry, TransportFails, Respond, Incompatible, Arrive, Refresh, Elsewhere,
                versionVars, Refreshed, RefreshFails
  <2>3. pc[c] # "wait" /\ pc'[c] # "wait" /\ \A d \in Caller \ {c} : pc'[d] = pc[d]
    BY <2>1 DEF Finals
  <2>4. FlightInv'
    BY <2>2, <2>3
  <2>5. QED
    BY <1>b, <2>2, <2>4
<1>5. ASSUME \/ \E c \in Caller : ContextEnds(c)
             \/ \E g \in Fetcher : Served(g)
             \/ Upgrades \/ UNCHANGED vars
      PROVE FlightInv' /\ CountInv'
  <2>1. UNCHANGED <<inFlight, waiters, state, cancelled, mine, pc>>
    BY <1>5 DEF ContextEnds, Served, Answer, Upgrades, Upgrade, vars, versionVars, requestVars
  <2>2. FlightInv'
    BY <2>1
  <2>3. QED
    BY <1>b, <2>1, <2>2
<1>6. ASSUME NEW f \in Flight, Flies(f) PROVE FlightInv' /\ CountInv'
  <2>1. PICK value : Land(f, value)
    BY <1>6 DEF Flies, Lands, LandFails
  <2>2. UNCHANGED <<pc, mine, cancelled>> /\ state[f] = "fetching" /\ state' = [state EXCEPT ![f] = "done"]
    BY <1>6, <2>1 DEF Flies, requestVars, Land
  <2>3. IF inFlight = f THEN inFlight' = None ELSE UNCHANGED <<inFlight, waiters>>
    BY <2>1 DEF Land
  <2>4. FlightInv'
    BY <2>2, <2>3
  <2>5. QED
    BY <1>b, <1>c, <2>2, <2>3, <2>4
<1>7. QED
  BY <1>1, <1>2, <1>3, <1>4, <1>5, <1>6 DEF Next, Proceed, Returns, Ended

-----------------------------------------------------------------------------
\* Every step keeps what holds of the executions (executePreparedWith).
LEMMA ExecStep ==
  ASSUME IInv, [Next]_vars
  PROVE  ExecInv'
<1> USE RequestAssumption
        DEF IInv, CallTypeOK, Executions, Finals, Running, requestVars, Returned, Go, Step, End,
            Elsewhere, ExecInv, AttemptsOf
<1>1. ASSUME NEW c \in Caller, Begin(c) PROVE ExecInv'
  BY <1>1 DEF Begin
<1>2. ASSUME NEW c \in Caller, Shared(c) PROVE ExecInv'
  BY <1>2 DEF Shared
<1>3. ASSUME NEW c \in Caller, Leave(c) PROVE ExecInv'
  BY <1>3 DEF Leave
<1>4. ASSUME NEW c \in Caller, SendOnce(c) PROVE ExecInv'
  BY <1>4 DEF SendOnce
<1>5. ASSUME NEW c \in Caller, Arrive(c) PROVE ExecInv'
  BY <1>5 DEF Arrive
<1>6. ASSUME NEW c \in Caller, TransportFails(c) PROVE ExecInv'
  BY <1>6 DEF TransportFails
<1>7. ASSUME NEW c \in Caller, Retry(c) PROVE ExecInv'
  BY <1>7 DEF Retry
<1>8. ASSUME NEW c \in Caller, Respond(c) PROVE ExecInv'
  BY <1>8 DEF Respond
<1>9. ASSUME NEW c \in Caller, Incompatible(c) PROVE ExecInv'
  <2>1. /\ pc[c] = "sent" /\ local[c].reply = "405" /\ UNCHANGED <<req, executed>>
        /\ \E to \in {"refresh", "failed"} : pc' = [pc EXCEPT ![c] = to]
    BY <1>9 DEF Incompatible
  <2>2. local'[c].reply = "none"
    <3>1. [local[c] EXCEPT !.retried = TRUE, !.reply = "none"].reply = "none" /\ Returned.reply = "none"
      <4>1. local[c] \in Executions
        OBVIOUS
      <4>2. QED
        BY <4>1
    <3>2. \/ local'[c] = [local[c] EXCEPT !.retried = TRUE, !.reply = "none"]
          \/ local'[c] = Returned
      BY <1>9 DEF Incompatible
    <3>3. QED
      BY <3>1, <3>2
  <2>3. \A d \in Caller \ {c} : local'[d] = local[d]
    BY <1>9 DEF Incompatible
  <2>4. QED
    BY <2>1, <2>2, <2>3
<1>10. ASSUME NEW c \in Caller, Refresh(c) PROVE ExecInv'
  BY <1>10 DEF Refresh
<1>11. CASE \/ \E c \in Caller : ContextEnds(c)
            \/ \E g \in Fetcher : Served(g)
            \/ \E f \in Flight : Flies(f)
            \/ Upgrades \/ UNCHANGED vars
  BY <1>11 DEF ContextEnds, Served, Flies, Upgrades, vars
<1>12. QED
  BY <1>1, <1>2, <1>3, <1>4, <1>5, <1>6, <1>7, <1>8, <1>9, <1>10, <1>11
     DEF Next, Proceed, Returns, Ended

\* Of the bodies that open once (body.go, sendOnce).
LEMMA UsedStep ==
  ASSUME IInv, [Next]_vars
  PROVE  UsedInv'
<1> USE RequestAssumption
        DEF IInv, CallTypeOK, Executions, Finals, Running, requestVars, Returned, Go, Step, End,
            Elsewhere, ExecInv, UsedInv, Opened, AttemptsOf
<1>1. ASSUME NEW c \in Caller, Begin(c) PROVE UsedInv'
  BY <1>1 DEF Begin
<1>2. ASSUME NEW c \in Caller, Shared(c) PROVE UsedInv'
  BY <1>2 DEF Shared
<1>3. ASSUME NEW c \in Caller, Leave(c) PROVE UsedInv'
  BY <1>3 DEF Leave
<1>4. ASSUME NEW c \in Caller, SendOnce(c) PROVE UsedInv'
  BY <1>4 DEF SendOnce
<1>5. ASSUME NEW c \in Caller, Arrive(c) PROVE UsedInv'
  <2>1. UNCHANGED <<req, used>> /\ Opened(c) /\ \A d \in Caller : Opened(d)' => Opened(d)
    BY <1>5 DEF Arrive
  <2>2. QED
    BY <2>1
<1>6. ASSUME NEW c \in Caller, TransportFails(c) PROVE UsedInv'
  BY <1>6 DEF TransportFails
<1>7. ASSUME NEW c \in Caller, Retry(c) PROVE UsedInv'
  BY <1>7 DEF Retry
<1>8. ASSUME NEW c \in Caller, Respond(c) PROVE UsedInv'
  BY <1>8 DEF Respond
<1>9. ASSUME NEW c \in Caller, Incompatible(c) PROVE UsedInv'
  BY <1>9 DEF Incompatible
<1>10. ASSUME NEW c \in Caller, Refresh(c) PROVE UsedInv'
  BY <1>10 DEF Refresh
<1>11. CASE \/ \E c \in Caller : ContextEnds(c)
            \/ \E g \in Fetcher : Served(g)
            \/ \E f \in Flight : Flies(f)
            \/ Upgrades \/ UNCHANGED vars
  BY <1>11 DEF ContextEnds, Served, Flies, Upgrades, vars
<1>12. QED
  BY <1>1, <1>2, <1>3, <1>4, <1>5, <1>6, <1>7, <1>8, <1>9, <1>10, <1>11
     DEF Next, Proceed, Returns, Ended

\* And of the versions (RefreshAPISemVer, executePreparedWith).
LEMMA UpgradeStep ==
  ASSUME IInv, [Next]_vars
  PROVE  UpgradeInv'
<1> USE CallerAssumption
        DEF IInv, CallTypeOK, Executions, Finals, Running, requestVars, Returned, Go, Step, End,
            Elsewhere, CacheTypeOK, ExecInv, UpgradeInv, OnlyUpgradeRejects, versionVars, Fetcher
<1>1. ASSUME NEW c \in Caller, Begin(c) PROVE UpgradeInv'
  BY <1>1 DEF Begin, Hit, Join, Launch
<1>2. ASSUME NEW c \in Caller, Shared(c) PROVE UpgradeInv'
  BY <1>2 DEF Shared
<1>3. ASSUME NEW c \in Caller, Leave(c) PROVE UpgradeInv'
  BY <1>3 DEF Leave, Release
<1>4. ASSUME NEW c \in Caller, SendOnce(c) PROVE UpgradeInv'
  BY <1>4 DEF SendOnce
<1>5. ASSUME NEW c \in Caller, Arrive(c) PROVE UpgradeInv'
  BY <1>5 DEF Arrive
<1>6. ASSUME NEW c \in Caller, TransportFails(c) PROVE UpgradeInv'
  BY <1>6 DEF TransportFails
<1>7. ASSUME NEW c \in Caller, Retry(c) PROVE UpgradeInv'
  BY <1>7 DEF Retry
<1>8. ASSUME NEW c \in Caller, Respond(c) PROVE UpgradeInv'
  BY <1>8 DEF Respond
<1>9. ASSUME NEW c \in Caller, Incompatible(c) PROVE UpgradeInv'
  BY <1>9 DEF Incompatible
<1>10. ASSUME NEW c \in Caller, Refresh(c) PROVE UpgradeInv'
  BY <1>10 DEF Refresh, Refreshed, RefreshFails
<1>11. CASE \/ \E c \in Caller : ContextEnds(c)
            \/ \E g \in Fetcher : Served(g)
            \/ \E f \in Flight : Flies(f)
            \/ Upgrades \/ UNCHANGED vars
  BY <1>11 DEF ContextEnds, Served, Flies, Upgrades, vars, Answer, Upgrade, Lands, LandFails, Land
<1>12. QED
  BY <1>1, <1>2, <1>3, <1>4, <1>5, <1>6, <1>7, <1>8, <1>9, <1>10, <1>11
     DEF Next, Proceed, Returns, Ended

-----------------------------------------------------------------------------
\* The invariant holds throughout (request.go, version.go).
THEOREM Invariance == Spec => []IInv
<1>1. IInv /\ [Next]_vars => IInv'
  BY CacheType, CallType, FlightStep, ExecStep, UsedStep, UpgradeStep DEF IInv
<1>2. QED
  BY <1>1, InitInv, PTL DEF Spec

\* Nothing that must not be repeated is carried out twice (executePreparedWith, the
\* retry conditions and bodies that open once).
THEOREM NothingExecutedTwice == Spec => []ExecutedOnce
<1>1. IInv => ExecutedOnce
  BY DEF IInv, CallTypeOK, ExecInv, UsedInv, Opened, ExecutedOnce
<1>2. QED
  BY <1>1, Invariance, PTL

\* 405 reaches a caller only if the device was upgraded during his call (the
\* compatibility retry).
THEOREM RejectionMeansUpgrade == Spec => []OnlyUpgradeRejects
<1>1. IInv => OnlyUpgradeRejects
  BY DEF IInv, UpgradeInv
<1>2. QED
  BY <1>1, Invariance, PTL

\* A shared fetch lives exactly as long as somebody waits for it
\* (releaseVersionWaiter, runVersionRefresh).
THEOREM FlightsAreShared == Spec => []FlightIsShared
<1>1. IInv => FlightIsShared
  BY CallerAssumption DEF IInv, CacheTypeOK, FlightInv, CountInv, FlightIsShared, Waiting, Fetcher
<1>2. QED
  BY <1>1, Invariance, PTL
=============================================================================
