---------------------------- MODULE VersionCache ----------------------------
(***************************************************************************)
(* version.go: the API version a client sends with its requests.  The first*)
(* callers share one fetch (a flight), which lives as long as somebody     *)
(* waits for it and is cancelled by the last to leave; a refresh fetches   *)
(* on its own.  A version is a number, 0 where the code has "".            *)
(*                                                                         *)
(* A fetch is GET /api/version: the device answers with its version at the *)
(* time, and the answer may arrive late or never.  Of the attempts this    *)
(* request may take by itself only the one that succeeds matters.          *)
(***************************************************************************)
EXTENDS Integers, FiniteSets

CONSTANTS
  Caller,
  Flight,       \* identities of shared fetches (bounds how many start)
  None,
  MaxUpgrades   \* bound: firmware updates of the device
Fetcher == Caller \cup Flight
ASSUME CallerAssumption == Caller \cap Flight = {} /\ None \notin Fetcher
ASSUME UpgradesAssumption == MaxUpgrades \in Nat
ASSUME FiniteAssumption == IsFiniteSet(Caller)

VARIABLES
  device,     \* the version the device speaks
  cached,     \* c.apiSemVer
  inFlight,   \* c.versionInFlight
  waiters,    \* its waiters field (nobody reads that of an older flight)
  state,      \* of each flight: "unused", "fetching" or "done"
  cancelled,  \* flights whose context is cancelled
  answer,     \* what each fetch has been answered so far, or None
  outcome     \* the value or 0 (an error) a flight ended with
versionVars == <<device, cached, inFlight, waiters, state, cancelled, answer, outcome>>

VersionInit ==
  /\ device = 1 /\ cached = 0 /\ inFlight = None /\ waiters = 0
  /\ state = [f \in Flight |-> "unused"] /\ cancelled = {}
  /\ answer = [g \in Fetcher |-> None] /\ outcome = [f \in Flight |-> 0]

-----------------------------------------------------------------------------
(* APISemVer, in one critical section.                                     *)

Hit == cached # 0 /\ UNCHANGED versionVars

Join ==
  /\ cached = 0 /\ inFlight # None /\ waiters' = waiters + 1
  /\ UNCHANGED <<device, cached, inFlight, state, cancelled, answer, outcome>>

Launch(f) ==
  /\ cached = 0 /\ inFlight = None /\ state[f] = "unused"
  /\ inFlight' = f /\ waiters' = 1 /\ state' = [state EXCEPT ![f] = "fetching"]
  /\ UNCHANGED <<device, cached, cancelled, answer, outcome>>

ReleaseCancels(f) ==
  /\ IF inFlight # f THEN UNCHANGED <<inFlight, waiters, cancelled>>
     ELSE /\ waiters' = waiters - 1
          /\ inFlight' = None /\ cancelled' = cancelled \cup {f}
  /\ UNCHANGED <<device, cached, state, answer, outcome>>
\* releaseVersionWaiter: a waiter leaves, the last one cancels the flight.
Release(f) ==
  /\ IF inFlight # f THEN UNCHANGED <<inFlight, waiters, cancelled>>
     ELSE /\ waiters' = waiters - 1
          /\ IF waiters = 1 THEN inFlight' = None /\ cancelled' = cancelled \cup {f}
             ELSE UNCHANGED <<inFlight, cancelled>>
  /\ UNCHANGED <<device, cached, state, answer, outcome>>

\* fetchAPISemVer: the device answers.
Answer(g) ==
  /\ answer' = [answer EXCEPT ![g] = device]
  /\ UNCHANGED <<device, cached, inFlight, waiters, state, cancelled, outcome>>

\* runVersionRefresh: the fetch returns and its result is published.
Land(f, value) ==
  /\ state[f] = "fetching" /\ state' = [state EXCEPT ![f] = "done"]
  /\ outcome' = [outcome EXCEPT ![f] = value]
  /\ answer' = [answer EXCEPT ![f] = None]
  /\ IF inFlight = f THEN /\ inFlight' = None /\ waiters' = 0
                          /\ cached' = IF value # 0 THEN value ELSE cached
     ELSE UNCHANGED <<inFlight, waiters, cached>>
  /\ UNCHANGED <<device, cancelled>>
Lands(f)  == answer[f] # None /\ Land(f, answer[f])
LandFails(f) == Land(f, 0)

\* RefreshAPISemVer of caller c stores what it fetched, whatever is cached.
Refreshed(c) ==
  /\ answer[c] # None /\ cached' = answer[c] /\ answer' = [answer EXCEPT ![c] = None]
  /\ UNCHANGED <<device, inFlight, waiters, state, cancelled, outcome>>
RefreshFails(c) ==
  /\ answer' = [answer EXCEPT ![c] = None]
  /\ UNCHANGED <<device, cached, inFlight, waiters, state, cancelled, outcome>>

Upgrade ==
  /\ device <= MaxUpgrades /\ device' = device + 1
  /\ UNCHANGED <<cached, inFlight, waiters, state, cancelled, answer, outcome>>
=============================================================================
