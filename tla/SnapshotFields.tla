--------------------------- MODULE SnapshotFields ---------------------------
(***************************************************************************)
(* snapshot: what one section of a Snapshot holds, how the two wires, HTTP *)
(* and the status stream, are brought into it, and what copying and        *)
(* comparing it do.  A device reading is the device's own state of a       *)
(* section; Answer is how the firmware renders it over HTTP.               *)
(***************************************************************************)
EXTENDS Naturals, Sequences, FiniteSets, SequencesExt

CONSTANT Section   \* the sections of this instance

\* The endpoints Collect reads, in its order.
HTTPSections ==
  <<"version", "name", "status", "system", "power", "time", "wifi",
    "brightness", "audio_volume", "ble", "storage">>

streamSectionOrder ==
  <<"name", "power", "brightness", "audio_volume", "wifi", "firmware_update",
    "update_check", "timezone", "matter", "frame", "input", "timer", "ble",
    "auto_update", "timer_profiles">>

ASSUME SectionAssumption == Section \subseteq ToSet(HTTPSections) \cup ToSet(streamSectionOrder)

\* s comes before t in a list; and the members of S in the order of the list, as
\* a loop over it appends them.
Before(order, s, t) == \E i, j \in DOMAIN order : i < j /\ order[i] = s /\ order[j] = t
Among(order, S) ==
  LET upTo[i \in 0..Len(order)] ==
        IF i = 0 THEN <<>>
        ELSE IF order[i] \in S THEN Append(upTo[i - 1], order[i]) ELSE upTo[i - 1]
  IN upTo[Len(order)]

Collected == Section \cap ToSet(HTTPSections)
Streamed == Section \cap ToSet(streamSectionOrder)

\* Sections held as a protobuf message, and structs with pointers or a slice
\* inside: only these are shared when a Snapshot is copied by assignment.
Protos == Streamed \ Collected
Pointers == {"brightness", "wifi", "ble"}
Shared == Protos \cup Pointers

nil == "nil"
Zero == [kind |-> "zero"]
Plain(v) == [kind |-> "plain", v |-> v]
Undecodable == [kind |-> "undecodable"]

\* The content of a Field: no value yet, a decode failure, or a value.
Field(has, e, body) == [present |-> has, err |-> e, raw |-> body]
NoField == Field(FALSE, nil, FALSE)
present == Field(TRUE, nil, FALSE)

-----------------------------------------------------------------------------
\* Device readings with a shape of their own; every other section is 1 or 2.
Secured == [OPEN |-> "Open", WPA |-> "WPA", WPA2 |-> "WPA2", WEP |-> "WEP",
            WPA_WPA2 |-> "WPA/WPA2", WPA3 |-> "WPA3", WPA2_WPA3 |-> "WPA2/WPA3"]
Services == [RESET |-> "reset", INITIALIZATION |-> "initialization",
             READY |-> "disabled", ADVERTISING |-> "enabled",
             CONNECTABLE |-> "connectable", CONNECTED |-> "connected",
             ERROR |-> "internal error"]
Links == [CONNECTED |-> "connected", CONNECTING |-> "connecting",
          DISCONNECTING |-> "disconnecting", RECONNECTING |-> "reconnecting"]

Idle == [state |-> "inactive"]
Active(link, security, ips) ==
  [state |-> "active", link |-> link, security |-> security, ips |-> ips]

\* An address, with the gateway and netmask it comes with (one value here).
IP(address, gateway) == [address |-> address, gateway |-> gateway]
Addresses == {<<>>, <<IP("a", "g")>>, <<IP("a", "g"), IP("b", "h")>>}

Reading(s) ==
  CASE s = "power" -> {"UNKNOWN", "DISCHARGING", "CHARGING", "CHARGED"}
    [] s = "brightness" -> [mode : {"automatic", "manual"}, setting : {"40"}, actual : {"39"}]
    [] s = "wifi" -> {[state |-> "unknown"], Idle}
                       \cup {Active(l, "WPA2", <<>>) : l \in DOMAIN Links}
                       \cup {Active("CONNECTED", "WPA2", ips) : ips \in Addresses}
                       \cup {Active("CONNECTED", c, <<IP("a", "g")>>) :
                             c \in DOMAIN Secured \cup {"UNKNOWN"}}
    [] s = "ble" -> [status : DOMAIN Services, address : {nil}] \cup [status : {"CONNECTED"}, address : {"aa"}]
    [] OTHER -> {1, 2}

IPs(r) == IF r.state = "active" THEN r.ips ELSE <<>>

-----------------------------------------------------------------------------
(***************************************************************************)
(* The HTTP side: the answer a reading is rendered to, and its decoding.   *)
(* An answer has room for one Wi-Fi address, without gateway or netmask    *)
(* (busylib.WiFiIPConfig); the firmware is taken to give the first.        *)
(***************************************************************************)
Answer(s, r) ==
  CASE s = "power" -> IF r = "UNKNOWN" THEN [state |-> "unknown"]
                      ELSE [state |-> CASE r = "DISCHARGING" -> "discharging"
                                        [] r = "CHARGING" -> "charging"
                                        [] r = "CHARGED" -> "charged"]
    [] s = "brightness" -> [value |-> IF r.mode = "automatic" THEN "auto" ELSE r.setting]
    [] s = "wifi" ->
         [state |-> CASE r.state = "unknown" -> "unknown"
                      [] r.state = "inactive" -> "disconnected"
                      [] r.state = "active" -> Links[r.link],
          security |-> IF r.state # "active" THEN ""
                       ELSE IF r.security = "UNKNOWN" THEN "Unsupported"
                       ELSE Secured[r.security],
          address |-> IF IPs(r) = <<>> THEN nil ELSE IPs(r)[1].address]
    [] s = "ble" -> [state |-> Services[r.status], address |-> r.address]
    [] OTHER -> r

powerStatus(state) ==
  CASE state = "discharging" -> "DISCHARGING"
    [] state = "charging" -> "CHARGING"
    [] state = "charged" -> "CHARGED"
    [] OTHER -> nil

decodePower(a) ==
  IF powerStatus(a.state) = nil THEN Undecodable
  ELSE [kind |-> "power", known |-> TRUE, status |-> powerStatus(a.state)]

decodeBrightness(a) ==
  IF a.value = "auto"
  THEN [kind |-> "brightness", mode |-> "automatic", manual |-> nil, actual |-> nil]
  ELSE [kind |-> "brightness", mode |-> "manual", manual |-> a.value, actual |-> nil]

wifiState(state) ==
  CASE state = "unknown" -> <<"unknown", nil>>
    [] state = "disconnected" -> <<"inactive", nil>>
    [] state = "connected" -> <<"active", "CONNECTED">>
    [] state = "connecting" -> <<"active", "CONNECTING">>
    [] state = "disconnecting" -> <<"active", "DISCONNECTING">>
    [] state = "reconnecting" -> <<"active", "RECONNECTING">>

wifiSecurity(name) ==
  CASE name = "Open" -> "OPEN" [] name = "WPA" -> "WPA" [] name = "WPA2" -> "WPA2"
    [] name = "WEP" -> "WEP" [] name = "WPA/WPA2" -> "WPA_WPA2"
    [] name = "WPA3" -> "WPA3" [] name = "WPA2/WPA3" -> "WPA2_WPA3"
    [] OTHER -> "UNKNOWN"

\* A slice: nil, or allocated with these elements.
Slice(elements) == [nil |-> FALSE, of |-> elements]
NilSlice == [nil |-> TRUE, of |-> <<>>]

decodeWiFi(a) ==
  [kind |-> "wifi", state |-> wifiState(a.state)[1], link |-> wifiState(a.state)[2],
   name |-> a.security, code |-> IF a.security = "" THEN nil ELSE wifiSecurity(a.security),
   ips |-> IF a.address = nil THEN NilSlice ELSE Slice(<<IP(a.address, nil)>>)]

bleStatus(state) ==
  CASE state = "reset" -> "RESET" [] state = "initialization" -> "INITIALIZATION"
    [] state = "disabled" -> "READY" [] state = "enabled" -> "ADVERTISING"
    [] state = "connectable" -> "CONNECTABLE" [] state = "connected" -> "CONNECTED"
    [] OTHER -> nil

decodeBLE(a) ==
  IF bleStatus(a.state) = nil \/ (bleStatus(a.state) = "CONNECTED" /\ a.address = nil)
  THEN Undecodable
  ELSE [kind |-> "ble", status |-> bleStatus(a.state), address |-> a.address]

decode(s, a) ==
  CASE s = "power" -> decodePower(a)
    [] s = "brightness" -> decodeBrightness(a)
    [] s = "wifi" -> decodeWiFi(a)
    [] s = "ble" -> decodeBLE(a)
    [] OTHER -> Plain(a)

-----------------------------------------------------------------------------
(***************************************************************************)
(* The stream side: what a protobuf update of a reading becomes.           *)
(***************************************************************************)
powerFromProto(r) ==
  IF r = "UNKNOWN" THEN [kind |-> "power", known |-> FALSE, status |-> nil]
  ELSE [kind |-> "power", known |-> TRUE, status |-> r]

brightnessFromProto(r) ==
  [kind |-> "brightness", mode |-> r.mode,
   manual |-> IF r.mode = "manual" THEN r.setting ELSE nil, actual |-> r.actual]

wifiSecurityName(code) ==
  CASE code = "OPEN" -> "Open" [] code = "WPA" -> "WPA" [] code = "WPA2" -> "WPA2"
    [] code = "WEP" -> "WEP" [] code = "WPA_WPA2" -> "WPA/WPA2"
    [] code = "WPA3" -> "WPA3" [] code = "WPA2_WPA3" -> "WPA2/WPA3"
    [] OTHER -> "Unsupported"

\* The address slice is made with make: it is never nil, not even when empty.  All
\* addresses are kept, with gateway and netmask.
wifiFromProto(r) ==
  IF r.state = "active"
  THEN [kind |-> "wifi", state |-> "active", link |-> r.link,
        name |-> wifiSecurityName(r.security), code |-> r.security, ips |-> Slice(IPs(r))]
  ELSE [kind |-> "wifi", state |-> r.state, link |-> nil, name |-> "", code |-> nil,
        ips |-> Slice(IPs(r))]

bleFromProto(r) == [kind |-> "ble", status |-> r.status, address |-> r.address]

fromProto(s, r) ==
  CASE s = "power" -> powerFromProto(r)
    [] s = "brightness" -> brightnessFromProto(r)
    [] s = "wifi" -> wifiFromProto(r)
    [] s = "ble" -> bleFromProto(r)
    [] OTHER -> Plain(r)

-----------------------------------------------------------------------------
\* Copying a slice with append(nil, s...) turns an empty slice into a nil one.
cloneWiFi(c) == [c EXCEPT !.ips = IF @.of = <<>> THEN NilSlice ELSE @]
cloneValue(c) == IF c.kind = "wifi" THEN cloneWiFi(c) ELSE c

\* What a reader of a value can tell: a nil and an empty slice are the same.
Meaning(c) == cloneValue(c)

\* The part of a value that HTTP carries too: no actual brightness, and of the
\* Wi-Fi addresses the first, without its gateway and netmask.
Common(c) ==
  CASE c.kind = "brightness" -> [c EXCEPT !.actual = nil]
    [] c.kind = "wifi" ->
         [c EXCEPT !.ips = IF @.of = <<>> THEN NilSlice ELSE Slice(<<IP(@.of[1].address, nil)>>)]
    [] OTHER -> c

Failures(fields) == {s \in Section : fields[s].err # nil}
Complete(fields) == \A s \in Collected : fields[s].present
=============================================================================
