--------------------------- MODULE SnapshotStore ----------------------------
(***************************************************************************)
(* snapshot: an application starts a status stream, collects an initial    *)
(* Snapshot over HTTP, hands it to a Store and applies the messages of the *)
(* stream to it in order, while the device goes on changing.               *)
(*                                                                         *)
(* Collect makes one request per endpoint, one after the other; Apply and  *)
(* Snapshot are each one critical section of Store.mu and so one action.   *)
(* What the sections with pointers, slices or protobuf messages refer to   *)
(* lives in a cell; "at" names the holder that allocated the cell, and the *)
(* application may write through every cell it can reach.                  *)
(***************************************************************************)
EXTENDS SnapshotFields

CONSTANTS
  MaxChanges,  \* bound on the changes the device makes
  MaxFaults    \* bound on the endpoints that fail or answer nonsense

VARIABLES
  device,     \* the device's state of each section
  queue,      \* messages in the stream's channel, each a sequence of updates
  changes,    \* number of device changes, bounded by MaxChanges
  faults,     \* number of failed endpoints, bounded by MaxFaults
  cancelled,  \* the context of Collect
  asked,      \* the sections whose endpoint Collect has read
  result,     \* what Collect returned: "none" before, "nil" or "ctx"
  field,      \* the Field of each section, of each holder
  at,         \* the holder whose cell the section's value is in
  cell,       \* the cells, by holder and section
  report,     \* Change.Sections of the last Apply
  updated,    \* the sections the stream has ever updated
  was         \* what the Store held before the last Apply

vars == <<device, queue, changes, faults, cancelled, asked, result, field, at,
          cell, report, updated, was>>
deviceVars == <<device, queue, changes>>
collectVars == <<faults, cancelled, asked, result>>
history == <<report, updated, was>>

\* The collected Snapshot, the Store, the Snapshot the application got last,
\* and the protobuf messages of the update it applied last.
Holder == {"initial", "store", "copy", "message"}
Junk == [kind |-> "junk"]

Value(h, s) == cell[at[h][s]][s]
Held(h, s) == <<field[h][s], Value(h, s)>>
Meant(h, s) == <<field[h][s], Meaning(Value(h, s))>>
HasStore == at["store"] # [s \in Section |-> "none"]

Init ==
  /\ device = [s \in Section |-> CHOOSE r \in Reading(s) : TRUE]
  /\ queue = <<>> /\ changes = 0 /\ faults = 0
  /\ cancelled = FALSE /\ asked = {} /\ result = "none"
  /\ field = [h \in Holder |-> [s \in Section |-> NoField]]
  /\ at = [h \in Holder |-> [s \in Section |-> IF h = "store" THEN "none" ELSE h]]
  /\ cell = [h \in Holder |-> [s \in Section |-> Zero]]
  /\ report = <<>> /\ updated = {} /\ was = <<>>

-----------------------------------------------------------------------------
(***************************************************************************)
(* The device.  A change of a streamed section is pushed, in a message of  *)
(* its own or with the previous change; a message may carry an update kind *)
(* or a value the client does not know.                                    *)
(***************************************************************************)
Update(s, r) == [section |-> s, reading |-> r]
Unknown == [section |-> "unknown", reading |-> nil]

Push(u) ==
  \/ queue' = Append(queue, <<u>>)
  \/ /\ queue # <<>> /\ Len(Last(queue)) < 2
     /\ queue' = [queue EXCEPT ![Len(queue)] = Append(@, u)]

Change(s) ==
  /\ changes < MaxChanges /\ changes' = changes + 1
  /\ \E r \in Reading(s) :
       /\ device' = [device EXCEPT ![s] = r]
       /\ IF s \in Streamed THEN Push(Update(s, r)) ELSE UNCHANGED queue
  /\ UNCHANGED <<collectVars, field, at, cell, history>>

PushUnknown ==
  /\ changes < MaxChanges /\ changes' = changes + 1
  /\ Push(Unknown)
  /\ UNCHANGED <<device, collectVars, field, at, cell, history>>

-----------------------------------------------------------------------------
(***************************************************************************)
(* Collect.                                                                *)
(***************************************************************************)
\* collectJSON: the field and the value one answered request leaves.
Collection(s) ==
  LET v == decode(s, Answer(s, device[s]))
  IN IF v = Undecodable THEN <<Field(FALSE, "protocol", TRUE), Zero>> ELSE <<present, v>>

\* A request that fails, or a body that is no JSON.  APISemVer keeps no body.
Failed(s) ==
  {<<Field(FALSE, "request", FALSE), Zero>>, <<Field(FALSE, "protocol", s # "version"), Zero>>}

\* One endpoint, the next in the order, then the look at the context.
CollectNext ==
  /\ result = "none"
  /\ \E s \in Collected \ asked :
       /\ \A t \in Collected \ asked : ~Before(HTTPSections, t, s)
       /\ \E out \in {Collection(s)} \cup Failed(s) :
            /\ IF out = Collection(s) THEN UNCHANGED faults
               ELSE faults < MaxFaults /\ faults' = faults + 1
            /\ field' = [field EXCEPT !["initial"][s] = out[1]]
            /\ cell' = [cell EXCEPT !["initial"][s] = out[2]]
       /\ asked' = asked \cup {s}
  /\ result' = IF cancelled THEN "ctx" ELSE IF asked' = Collected THEN "nil" ELSE "none"
  /\ UNCHANGED <<deviceVars, cancelled, at, history>>

Cancel ==
  /\ result = "none" /\ ~cancelled /\ cancelled' = TRUE
  /\ UNCHANGED <<deviceVars, faults, asked, result, field, at, cell, history>>

-----------------------------------------------------------------------------
(***************************************************************************)
(* The Store.                                                              *)
(***************************************************************************)
\* The places of the updates of s in a batch.
Updates(batch, s) == {i \in DOMAIN batch : batch[i].section = s}

\* Faults: protobuf messages are copied by assignment; a new value keeps the
\* failure of its section; the first update of a batch wins; every section
\* touched is reported.
cloneShallow(from, to) ==
  /\ field' = [field EXCEPT ![to] = field[from]]
  /\ at' = [at EXCEPT ![to] = [s \in Section |-> IF s \in Protos THEN at[from][s] ELSE to]]
  /\ cell' = [cell EXCEPT ![to] = [s \in Section |-> cloneValue(Value(from, s))]]
applyKeepsFailure(batch, s) ==
  LET us == Updates(batch, s)
  IN IF us = {} THEN <<field["store"][s], Value("store", s)>>
     ELSE <<[present EXCEPT !.err = field["store"][s].err], fromProto(s, batch[Max(us)].reading)>>
applyFirst(batch, s) ==
  LET us == Updates(batch, s)
  IN IF us = {} THEN <<field["store"][s], Value("store", s)>>
     ELSE <<present, fromProto(s, batch[Min(us)].reading)>>
changedTouched(touched, after) == Among(streamSectionOrder, touched)

\* cloneSnapshot: the holder to gets cells of its own for every value.
cloneSnapshot(from, to) ==
  /\ field' = [field EXCEPT ![to] = field[from]]
  /\ at' = [at EXCEPT ![to] = [s \in Section |-> to]]
  /\ cell' = [cell EXCEPT ![to] = [s \in Section |-> cloneValue(Value(from, s))]]

NewStore ==
  /\ result # "none" /\ ~HasStore
  /\ cloneSnapshot("initial", "store")
  /\ UNCHANGED <<deviceVars, collectVars, history>>

Snapshot ==
  /\ HasStore
  /\ cloneSnapshot("store", "copy")
  /\ UNCHANGED <<deviceVars, collectVars, history>>

\* apply: the store's field and value of s after one batch of updates.
apply(batch, s) ==
  LET us == Updates(batch, s)
  IN IF us = {} THEN <<field["store"][s], Value("store", s)>>
     ELSE <<present, fromProto(s, batch[Max(us)].reading)>>

\* changedSections: compared with reflect.DeepEqual or proto.Equal against the
\* clone made before the batch.
changedSections(touched, after) ==
  Among(streamSectionOrder,
    {s \in touched : <<field["store"][s], cloneValue(Value("store", s))>> # after[s]})

Apply ==
  /\ HasStore /\ queue # <<>>
  /\ LET batch == Head(queue)
         touched == {batch[i].section : i \in DOMAIN batch} \cap Section
         after == [s \in Section |-> apply(batch, s)]
     IN /\ report' = changedSections(touched, after)
        /\ updated' = updated \cup touched
        /\ was' = [s \in Section |-> Held("store", s)]
        /\ field' = [h \in Holder |->
             CASE h \in {"store", "copy"} -> [s \in Section |-> after[s][1]]
               [] OTHER -> field[h]]
        /\ at' = [at EXCEPT !["store"] = [s \in Section |-> IF s \in touched THEN "store" ELSE @[s]],
                            !["copy"] = [s \in Section |-> "copy"]]
        /\ cell' = [cell EXCEPT
             !["store"] = [s \in Section |-> IF s \in touched THEN after[s][2] ELSE @[s]],
             !["copy"] = [s \in Section |-> cloneValue(after[s][2])],
             !["message"] = [s \in Section |-> IF s \in touched THEN after[s][2] ELSE Zero]]
  /\ queue' = Tail(queue)
  /\ UNCHANGED <<device, changes, collectVars>>

\* The application writes through everything that the Snapshots it holds and
\* the messages it received refer to.
Scribble ==
  /\ HasStore
  /\ cell' = [k \in Holder |-> [s \in Section |->
       IF s \in Shared /\ k \in {at[h][s] : h \in Holder \ {"store"}}
       THEN Junk ELSE cell[k][s]]]
  /\ UNCHANGED <<deviceVars, collectVars, field, at, history>>

Next ==
  \/ \E s \in Section : Change(s)
  \/ PushUnknown
  \/ CollectNext
  \/ Cancel
  \/ NewStore
  \/ Apply
  \/ Snapshot
  \/ Scribble

Spec == Init /\ [][Next]_vars

-----------------------------------------------------------------------------
\* Store promises that its state is its own: it changes when a batch is
\* applied, never because the application writes through the Snapshot it
\* passed in, one it was given, or a message it applied (NewStore, Snapshot
\* and Apply copy everything a pointer, slice or message reaches).
StoreIsPrivate ==
  [][HasStore /\ (\E s \in Section : Meant("store", s)' # Meant("store", s))
       => queue # <<>> /\ queue' = Tail(queue)]_vars

Differing == {s \in Section : Meant("store", s) # <<was[s][1], Meaning(was[s][2])>>}

\* Change.Sections names the sections whose value after the whole batch is not
\* the value before it, in stream order and once each: a value that changes and
\* changes back inside a batch is not named, one that differs is never missed.
\* Wi-Fi may be named although it is unchanged: see ReportedSectionsDiffer.
ReportIsExact ==
  was # <<>> =>
    /\ ToSet(report) \ {"wifi"} = Differing \ {"wifi"}
    /\ "wifi" \in Differing => "wifi" \in ToSet(report)
    /\ \A i, j \in DOMAIN report : i < j => Before(streamSectionOrder, report[i], report[j])

\* "Sections whose final values differ from their values before the batch": no
\* section is reported, Wi-Fi included, for an update equal in everything to what
\* the Store holds (an empty slice in the place of a nil one is a difference here).
ReportedSectionsDiffer ==
  was # <<>> => \A s \in ToSet(report) : Held("store", s) # was[s]

\* Once the messages received are applied, every streamed section the Store
\* holds is what the device has: in all that the stream carries once the stream has
\* updated it, and until then, collected over HTTP before, between or after the
\* changes, in all that HTTP carries.  No older state overwrites a newer one for
\* good, and the two decodings of one device state agree on what both wires carry.
CaughtUp ==
  HasStore /\ queue = <<>> =>
    \A s \in Streamed : field["store"][s].present =>
      LET held == Value("store", s)
          news == fromProto(s, device[s])
      IN IF s \in updated THEN Meaning(held) = Meaning(news) ELSE Common(held) = Common(news)

\* A failure stays on its section until the stream updates that section: a
\* Collect that returns no error has a value or an error for every endpoint, and
\* the Store loses no section and keeps no error an update has made obsolete.
FailuresAccountFor ==
  /\ result = "nil" =>
       /\ \A s \in Collected : field["initial"][s].present # (s \in Failures(field["initial"]))
       /\ Complete(field["initial"]) <=> Failures(field["initial"]) = {}
  /\ HasStore =>
       /\ Failures(field["store"]) = Failures(field["initial"]) \ updated
       /\ \A s \in Section :
            field["store"][s].present <=> field["initial"][s].present \/ s \in updated

=============================================================================
