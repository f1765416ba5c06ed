------------------------------ MODULE BusyTimer -----------------------------
(***************************************************************************)
(* busy.go: the device runs a timer with settings SetProfile has accepted; *)
(* an application reads the snapshot, pauses the timer or changes the      *)
(* settings in it, and writes it back after validation, while the timer    *)
(* goes on.  Durations count units of the shortest interval; limits are    *)
(* scaled down.                                                            *)
(***************************************************************************)
EXTENDS Integers

CONSTANTS SimpleMax, IntervalMin, IntervalMax, CyclesMin, CyclesMax
ASSUME LimitsAssumption ==
  /\ SimpleMax \in Nat /\ IntervalMin \in Nat /\ IntervalMax \in Nat
  /\ CyclesMin \in Nat \ {0} /\ CyclesMax \in Nat

VARIABLES
  timer,     \* the device's timer: a snapshot
  copy,      \* the snapshot the application holds, or NotStarted
  edited,    \* has the application changed the settings in it
  written,   \* "none", "accepted" or "rejected": its last SetSnapshot
  busy       \* "start", "running" or "none"

busyVars == <<timer, copy, edited, written, busy>>

Durations == 0..SimpleMax + 1
Settings ==
  [type : {"INFINITE"}] \cup [type : {"SIMPLE"}, total : Durations]
  \cup [type : {"INTERVAL"}, work : 0..IntervalMax + 1, rest : 0..IntervalMax + 1, cycles : CyclesMin - 1..CyclesMax + 1]
NotStarted == [type |-> "NOT_STARTED"]

BusyIdle ==
  /\ timer = NotStarted /\ copy = NotStarted
  /\ edited = FALSE /\ written = "none" /\ busy = "none"
BusyInit ==
  /\ timer = NotStarted /\ copy = NotStarted
  /\ edited = FALSE /\ written = "none" /\ busy = "start"

-----------------------------------------------------------------------------
validateBusyInterval(s) ==
  /\ s.work \in IntervalMin..IntervalMax /\ s.rest \in IntervalMin..IntervalMax
  /\ s.cycles \in CyclesMin..CyclesMax
\* BusyTimerSettings.Validate.
validSettings(s) ==
  \/ s.type = "INFINITE"
  \/ s.type = "SIMPLE" /\ s.total \in 0..SimpleMax
  \/ s.type = "INTERVAL" /\ validateBusyInterval(s)

\* Fault: work and rest are swapped.
BoundSwapped(snap) == IF snap.interval % 2 = 1 THEN snap.settings.work ELSE snap.settings.rest

\* Odd intervals are rests.
Bound(snap) == IF snap.interval % 2 = 1 THEN snap.settings.rest ELSE snap.settings.work

\* BusySnapshot.Validate.
validSnapshot(snap) ==
  \/ snap.type \in {"NOT_STARTED", "INFINITE"}
  \/ snap.type = "SIMPLE" /\ snap.left \in 0..SimpleMax
  \/ /\ snap.type = "INTERVAL" /\ validateBusyInterval(snap.settings)
     /\ snap.interval \in 0..2 * CyclesMax - 2
     /\ snap.left \in 0..snap.total /\ snap.left <= Bound(snap)

-----------------------------------------------------------------------------
\* The device: it starts the profile's timer, counts down, alternates work and
\* rest from work to work, and stops.
Started(s) ==
  CASE s.type = "INFINITE" -> [type |-> "INFINITE", paused |-> FALSE]
    [] s.type = "SIMPLE" -> [type |-> "SIMPLE", paused |-> FALSE, left |-> s.total]
    [] s.type = "INTERVAL" -> [type |-> "INTERVAL", paused |-> FALSE, interval |-> 0, total |-> s.work,
                               left |-> s.work, settings |-> s]
Tick ==
  /\ busy = "running" /\ timer.type \in {"SIMPLE", "INTERVAL"} /\ ~timer.paused
  /\ timer' = IF timer.left > 0 THEN [timer EXCEPT !.left = @ - 1]
              ELSE IF timer.type = "SIMPLE" \/ timer.interval >= 2 * timer.settings.cycles - 2 THEN NotStarted
              ELSE LET next == [timer EXCEPT !.interval = @ + 1]
                       length == IF next.interval % 2 = 1 THEN timer.settings.rest ELSE timer.settings.work
                   IN [next EXCEPT !.total = length, !.left = length]
  /\ UNCHANGED <<copy, edited, written, busy>>

\* SetProfile with any settings, and the button on the device.
SetProfile ==
  /\ busy = "start"
  /\ \E s \in Settings :
       IF validSettings(s) THEN busy' = "running" /\ timer' = Started(s)
       ELSE busy' = "none" /\ UNCHANGED timer
  /\ UNCHANGED <<copy, edited, written>>

Snapshot ==
  /\ busy = "running" /\ copy' = timer /\ edited' = FALSE /\ written' = "none"
  /\ UNCHANGED <<timer, busy>>

\* The application pauses or resumes the timer, or changes a setting, in its copy.
Pause ==
  /\ copy.type # "NOT_STARTED" /\ copy' = [copy EXCEPT !.paused = ~@] /\ written' = "none"
  /\ UNCHANGED <<timer, edited, busy>>
Edit ==
  /\ copy.type = "INTERVAL"
  /\ \E d \in 0..IntervalMax + 1 :
       copy' \in {[copy EXCEPT !.settings.work = d], [copy EXCEPT !.settings.rest = d],
                   [copy EXCEPT !.settings.cycles = d + CyclesMin - 1]}
  /\ edited' = TRUE /\ written' = "none" /\ UNCHANGED <<timer, busy>>

SetSnapshot ==
  /\ busy = "running"
  /\ IF validSnapshot(copy) THEN timer' = copy /\ written' = "accepted"
     ELSE UNCHANGED timer /\ written' = "rejected"
  /\ UNCHANGED <<copy, edited, busy>>

BusyNext == SetProfile \/ Snapshot \/ Pause \/ Edit \/ SetSnapshot \/ Tick

-----------------------------------------------------------------------------
\* What the device reports of a timer it was allowed to start can be written back
\* at any later time, paused or not; and whatever is accepted leaves the device
\* with a timer it can run: settings within their limits, at most the configured
\* duration to go, in an interval the most cycles have (BusySnapshot.Validate,
\* BusyTimerSettings.Validate).  That the interval is one of the snapshot's own
\* cycles is not checked when these were changed.
SnapshotReturns ==
  /\ written = "rejected" => edited
  /\ timer.type = "SIMPLE" => timer.left \in 0..SimpleMax
  /\ timer.type = "INTERVAL" =>
       /\ timer.settings.work \in IntervalMin..IntervalMax
       /\ timer.settings.rest \in IntervalMin..IntervalMax
       /\ timer.settings.cycles \in CyclesMin..CyclesMax
       /\ timer.interval \in 0..2 * CyclesMax - 2
       /\ timer.left \in 0..(IF timer.interval % 2 = 0 THEN timer.settings.work ELSE timer.settings.rest)
=============================================================================
