-------------------------- MODULE Snapshots_proofs --------------------------
(***************************************************************************)
(* Proofs about the way of a snapshot to the application: the Store that   *)
(* holds it, for any set of sections and any number of changes and faults  *)
(* (SnapshotStore), and the one-slot channel a status is published over,   *)
(* for any number of writers (StatusChannel).                              *)
(***************************************************************************)
EXTENDS SnapshotStore, StatusChannel, TLAPS, SequenceTheorems, WellFoundedInduction

-----------------------------------------------------------------------------
(***************************************************************************)
(* The values of a section: copying them, and the two wires of them.       *)
(***************************************************************************)
\* A value that says it is a Wi-Fi value has the shape of one.
Shaped(c) ==
  c.kind = "wifi" =>
    \E st, li, na, co, sl : c = [kind |-> "wifi", state |-> st, link |-> li, name |-> na,
                                 code |-> co, ips |-> sl]

\* What is left of a Wi-Fi value over HTTP: the first address, alone.
LEMMA WiFiInCommon ==
  ASSUME NEW st, NEW li, NEW na, NEW co, NEW sl
  PROVE  Common([kind |-> "wifi", state |-> st, link |-> li, name |-> na, code |-> co, ips |-> sl])
           = [kind |-> "wifi", state |-> st, link |-> li, name |-> na, code |-> co,
              ips |-> IF sl.of = <<>> THEN NilSlice ELSE Slice(<<IP(sl.of[1].address, nil)>>)]
<1> DEFINE c == [kind |-> "wifi", state |-> st, link |-> li, name |-> na, code |-> co, ips |-> sl]
<1>1. c.kind = "wifi" /\ c.ips = sl
  OBVIOUS
<1>2. Common(c) = [c EXCEPT !.ips = IF sl.of = <<>> THEN NilSlice ELSE Slice(<<IP(sl.of[1].address, nil)>>)]
  BY <1>1 DEF Common
<1>3. ASSUME NEW x
      PROVE  [c EXCEPT !.ips = x]
               = [kind |-> "wifi", state |-> st, link |-> li, name |-> na, code |-> co, ips |-> x]
  OBVIOUS
<1>4. QED
  BY <1>2, <1>3

\* Copying loses nothing a reader can tell, and keeps the shape.
LEMMA CloneKeeps ==
  ASSUME NEW c, Shaped(c)
  PROVE  /\ Shaped(cloneValue(c)) /\ Common(cloneValue(c)) = Common(c)
         /\ cloneValue(cloneValue(c)) = cloneValue(c)
<1>1. CASE c.kind = "wifi"
  <2>1. PICK st, li, na, co, sl : c = [kind |-> "wifi", state |-> st, link |-> li, name |-> na,
                                       code |-> co, ips |-> sl]
    BY <1>1 DEF Shaped
  <2> DEFINE kept == IF sl.of = <<>> THEN NilSlice ELSE sl
  <2>2. cloneValue(c) = [kind |-> "wifi", state |-> st, link |-> li, name |-> na,
                         code |-> co, ips |-> kept]
    BY <2>1 DEF cloneValue, cloneWiFi
  <2>3. (IF kept.of = <<>> THEN NilSlice ELSE kept) = kept
    BY DEF NilSlice
  <2>4. cloneValue(cloneValue(c)) = cloneValue(c)
    BY <2>2, <2>3 DEF cloneValue, cloneWiFi
  <2>5. Shaped(cloneValue(c))
    BY <2>2 DEF Shaped
  <2>6. (IF kept.of = <<>> THEN NilSlice ELSE Slice(<<IP(kept.of[1].address, nil)>>))
          = (IF sl.of = <<>> THEN NilSlice ELSE Slice(<<IP(sl.of[1].address, nil)>>))
    <3>1. NilSlice.of = <<>>
      BY DEF NilSlice
    <3>2. QED
      BY <3>1, Zenon
  <2> DEFINE first(x) == IF x.of = <<>> THEN NilSlice ELSE Slice(<<IP(x.of[1].address, nil)>>)
             wifi(x) == [kind |-> "wifi", state |-> st, link |-> li, name |-> na, code |-> co, ips |-> x]
  <2>7. Common(cloneValue(c)) = Common(c)
    <3>1. \A x : Common(wifi(x)) = wifi(first(x))
      BY WiFiInCommon
    <3>2. c = wifi(sl) /\ cloneValue(c) = wifi(kept) /\ first(kept) = first(sl)
      BY <2>1, <2>2, <2>6, Zenon
    <3> HIDE DEF wifi, first, kept
    <3>3. QED
      BY <3>1, <3>2
  <2>8. QED
    BY <2>4, <2>5, <2>7
<1>2. CASE c.kind # "wifi"
  BY <1>2 DEF cloneValue, Shaped
<1>3. QED
  BY <1>1, <1>2

\* The security and link names of the two wires name the same things.
LEMMA SecurityNames ==
  ASSUME NEW code \in DOMAIN Secured
  PROVE  Secured[code] # "" /\ wifiSecurity(Secured[code]) = code /\ wifiSecurityName(code) = Secured[code]
<1> USE DEF Secured, wifiSecurity, wifiSecurityName
<1>1. code \in {"OPEN", "WPA", "WPA2", "WEP", "WPA_WPA2", "WPA3", "WPA2_WPA3"}
  OBVIOUS
<1>2. CASE code = "OPEN"
  BY <1>2
<1>3. CASE code = "WPA"
  BY <1>3
<1>4. CASE code = "WPA2"
  BY <1>4
<1>5. CASE code = "WEP"
  BY <1>5
<1>6. CASE code = "WPA_WPA2"
  BY <1>6
<1>7. CASE code = "WPA3"
  BY <1>7
<1>8. CASE code = "WPA2_WPA3"
  BY <1>8
<1>9. QED
  BY ONLY <1>1, <1>2, <1>3, <1>4, <1>5, <1>6, <1>7, <1>8

\* The states of a link, on both wires.
LEMMA LinkNames ==
  ASSUME NEW link \in DOMAIN Links
  PROVE  wifiState(Links[link]) = <<"active", link>>
<1>1. link \in {"CONNECTED", "CONNECTING", "DISCONNECTING", "RECONNECTING"}
  BY DEF Links
<1>2. QED
  BY <1>1 DEF Links, wifiState

\* Where both wires carry a section, what HTTP decodes to is what the stream brings.
\* Power and brightness.
LEMMA PowerAgrees ==
  ASSUME NEW r \in Reading("power"), decode("power", Answer("power", r)) # Undecodable
  PROVE  Common(decode("power", Answer("power", r))) = Common(fromProto("power", r))
<1>1. r \in {"UNKNOWN", "DISCHARGING", "CHARGING", "CHARGED"}
  BY DEF Reading
<1>2. QED
  BY <1>1 DEF Answer, decode, decodePower, powerStatus, fromProto, powerFromProto, nil

LEMMA BrightnessAgrees ==
  ASSUME NEW r \in Reading("brightness")
  PROVE  Common(decode("brightness", Answer("brightness", r))) = Common(fromProto("brightness", r))
<1>1. r \in [mode : {"automatic", "manual"}, setting : {"40"}, actual : {"39"}]
  BY DEF Reading
<1>2. CASE r.mode = "automatic"
  BY <1>1, <1>2 DEF Answer, decode, decodeBrightness, fromProto, brightnessFromProto, Common
<1>3. CASE r.mode = "manual"
  BY <1>1, <1>3 DEF Answer, decode, decodeBrightness, fromProto, brightnessFromProto, Common
<1>4. QED
  BY <1>1, <1>2, <1>3

\* The states of the BLE service; HTTP has no answer for an error.
LEMMA ServiceNames ==
  ASSUME NEW service \in DOMAIN Services
  PROVE  bleStatus(Services[service]) \in {service, nil}
<1> USE DEF Services, bleStatus
<1>1. service \in {"RESET", "INITIALIZATION", "READY", "ADVERTISING", "CONNECTABLE", "CONNECTED", "ERROR"}
  OBVIOUS
<1>2. CASE service = "RESET"
  BY <1>2
<1>3. CASE service = "INITIALIZATION"
  BY <1>3
<1>4. CASE service = "READY"
  BY <1>4
<1>5. CASE service = "ADVERTISING"
  BY <1>5
<1>6. CASE service = "CONNECTABLE"
  BY <1>6
<1>7. CASE service = "CONNECTED"
  BY <1>7
<1>8. CASE service = "ERROR"
  BY <1>8
<1>9. QED
  BY ONLY <1>1, <1>2, <1>3, <1>4, <1>5, <1>6, <1>7, <1>8

LEMMA BLEAgrees ==
  ASSUME NEW r \in Reading("ble"), decode("ble", Answer("ble", r)) # Undecodable
  PROVE  Common(decode("ble", Answer("ble", r))) = Common(fromProto("ble", r))
<1>1. r.status \in DOMAIN Services
  BY DEF Reading, Services
<1>2. Answer("ble", r) = [state |-> Services[r.status], address |-> r.address]
  BY DEF Answer
<1>3. decode("ble", Answer("ble", r)) = decodeBLE(Answer("ble", r))
  BY DEF decode
<1>4. decode("ble", Answer("ble", r)) = [kind |-> "ble", status |-> r.status, address |-> r.address]
  BY <1>1, <1>2, <1>3, ServiceNames DEF decodeBLE
<1>5. QED
  BY <1>4 DEF fromProto, bleFromProto

\* decodeWiFi, field by field.
LEMMA WiFiDecoded ==
  ASSUME NEW a, NEW st, NEW li, wifiState(a.state) = <<st, li>>
  PROVE  decodeWiFi(a) =
           [kind |-> "wifi", state |-> st, link |-> li, name |-> a.security,
            code |-> IF a.security = "" THEN nil ELSE wifiSecurity(a.security),
            ips |-> IF a.address = nil THEN NilSlice ELSE Slice(<<IP(a.address, nil)>>)]
<1>1. wifiState(a.state)[1] = st /\ wifiState(a.state)[2] = li
  OBVIOUS
<1>2. QED
  BY <1>1, Zenon DEF decodeWiFi

LEMMA WiFiAgrees ==
  ASSUME NEW r \in Reading("wifi")
  PROVE  Common(decode("wifi", Answer("wifi", r))) = Common(fromProto("wifi", r))
<1> DEFINE d == decodeWiFi(Answer("wifi", r))
           p == wifiFromProto(r)
<1>1. \/ r = [state |-> "unknown"] \/ r = Idle
      \/ \E l \in DOMAIN Links, c \in DOMAIN Secured \cup {"UNKNOWN"}, i \in Addresses \cup {<<>>} :
           r = Active(l, c, i)
  BY DEF Reading, Links, Secured, Addresses
<1>2. ASSUME NEW st \in {"unknown", "inactive"}, r.state = st
      PROVE  Common(d) = Common(p)
  <2>1. PICK e : e = <<>>
    OBVIOUS
  <2>2. IPs(r) = e /\ r.state # "active"
    BY <1>2, <2>1 DEF IPs
  <2>3. PICK a : /\ a = Answer("wifi", r) /\ wifiState(a.state) = <<st, nil>>
                 /\ a.security = "" /\ a.address = nil
    <3>1. CASE st = "unknown"
      <4>1. PICK a : a = [state |-> "unknown", security |-> "", address |-> nil]
        OBVIOUS
      <4>2. a = Answer("wifi", r)
        BY <1>2, <2>1, <2>2, <3>1, <4>1 DEF Answer
      <4>3. wifiState(a.state) = <<st, nil>> /\ a.security = "" /\ a.address = nil
        BY <3>1, <4>1 DEF wifiState
      <4>4. QED
        BY <4>2, <4>3, Zenon
    <3>2. CASE st = "inactive"
      <4>1. PICK a : a = [state |-> "disconnected", security |-> "", address |-> nil]
        OBVIOUS
      <4>2. a = Answer("wifi", r)
        BY <1>2, <2>1, <2>2, <3>2, <4>1 DEF Answer
      <4>3. wifiState(a.state) = <<st, nil>> /\ a.security = "" /\ a.address = nil
        BY <3>2, <4>1 DEF wifiState
      <4>4. QED
        BY <4>2, <4>3, Zenon
    <3>3. QED
      BY <3>1, <3>2
  <2>4. d = [kind |-> "wifi", state |-> st, link |-> nil, name |-> "", code |-> nil, ips |-> NilSlice]
    <3>1. d = [kind |-> "wifi", state |-> st, link |-> nil, name |-> a.security,
               code |-> IF a.security = "" THEN nil ELSE wifiSecurity(a.security),
               ips |-> IF a.address = nil THEN NilSlice ELSE Slice(<<IP(a.address, nil)>>)]
      BY <2>3, WiFiDecoded, Zenon
    <3>2. QED
      BY <2>3, <3>1, Zenon
  <2>5. p = [kind |-> "wifi", state |-> st, link |-> nil, name |-> "", code |-> nil, ips |-> Slice(e)]
    BY <1>2, <2>1, <2>2 DEF wifiFromProto
  <2>6. NilSlice.of = <<>> /\ Slice(e).of = <<>>
    BY <2>1 DEF NilSlice, Slice
  <2>7. \A x \in {NilSlice, Slice(e)} :
          Common([kind |-> "wifi", state |-> st, link |-> nil, name |-> "", code |-> nil, ips |-> x])
            = [kind |-> "wifi", state |-> st, link |-> nil, name |-> "", code |-> nil, ips |-> NilSlice]
    <3> DEFINE first(x) == IF x.of = <<>> THEN NilSlice ELSE Slice(<<IP(x.of[1].address, nil)>>)
               wifi(x) == [kind |-> "wifi", state |-> st, link |-> nil, name |-> "", code |-> nil, ips |-> x]
    <3>1. \A x : Common(wifi(x)) = wifi(first(x))
      <4>1. \A ni, na, x :
              Common([kind |-> "wifi", state |-> st, link |-> ni, name |-> na, code |-> ni, ips |-> x])
                = [kind |-> "wifi", state |-> st, link |-> ni, name |-> na, code |-> ni, ips |-> first(x)]
        BY WiFiInCommon
      <4>2. QED
        BY <4>1, Zenon
    <3>2. \A x \in {NilSlice, Slice(e)} : first(x) = NilSlice
      BY <2>6, Zenon
    <3> HIDE DEF first
    <3>3. \A x \in {NilSlice, Slice(e)} : Common(wifi(x)) = wifi(NilSlice)
      BY <3>1, <3>2, Zenon
    <3>4. QED
      BY <3>3
  <2>8. QED
    BY <2>4, <2>5, <2>7, Zenon
<1>4. ASSUME NEW l \in DOMAIN Links, NEW c \in DOMAIN Secured \cup {"UNKNOWN"},
             NEW i \in Addresses \cup {<<>>}, r = Active(l, c, i)
      PROVE  Common(d) = Common(p)
  <2> DEFINE name == IF c = "UNKNOWN" THEN "Unsupported" ELSE Secured[c]
             address == IF i = <<>> THEN nil ELSE i[1].address
             kept == IF i = <<>> THEN NilSlice ELSE Slice(<<IP(i[1].address, nil)>>)
  <2>1. Answer("wifi", r) = [state |-> Links[l], security |-> name, address |-> address]
    BY <1>4 DEF Answer, Active, IPs
  <2>2. name # "" /\ wifiSecurity(name) = c /\ wifiSecurityName(c) = name
    <3>1. CASE c = "UNKNOWN"
      BY <3>1 DEF wifiSecurity, wifiSecurityName
    <3>2. CASE c # "UNKNOWN"
      BY <3>2, SecurityNames
    <3>3. QED
      BY <3>1, <3>2
  <2>3. i # <<>> => i[1].address = "a"
    BY DEF Addresses, IP
  <2>4. (IF address = nil THEN NilSlice ELSE Slice(<<IP(address, nil)>>)) = kept
    BY <2>3 DEF nil
  <2>5. d = [kind |-> "wifi", state |-> "active", link |-> l, name |-> name, code |-> c, ips |-> kept]
    <3> DEFINE a == Answer("wifi", r)
    <3>1. a.state = Links[l] /\ a.security = name /\ a.address = address
      BY <2>1
    <3>2. wifiState(a.state) = <<"active", l>>
      BY <3>1, LinkNames
    <3>3. d = [kind |-> "wifi", state |-> "active", link |-> l, name |-> a.security,
               code |-> IF a.security = "" THEN nil ELSE wifiSecurity(a.security),
               ips |-> IF a.address = nil THEN NilSlice ELSE Slice(<<IP(a.address, nil)>>)]
      BY <3>2, WiFiDecoded, Zenon
    <3> HIDE DEF a, d, name, address, kept
    <3>4. QED
      BY <2>2, <2>4, <3>1, <3>3
  <2>6. p = [kind |-> "wifi", state |-> "active", link |-> l, name |-> name, code |-> c,
             ips |-> Slice(i)]
    BY <1>4, <2>2 DEF wifiFromProto, Active, IPs
  <2>7. (IF Slice(i).of = <<>> THEN NilSlice ELSE Slice(<<IP(Slice(i).of[1].address, nil)>>)) = kept
    <3>1. Slice(i).of = i
      BY DEF Slice
    <3>2. QED
      BY <3>1, Zenon
  <2>8. (IF kept.of = <<>> THEN NilSlice ELSE Slice(<<IP(kept.of[1].address, nil)>>)) = kept
    <3>1. CASE i = <<>>
      <4>1. kept = NilSlice /\ NilSlice.of = <<>>
        BY <3>1 DEF NilSlice
      <4>2. QED
        BY <4>1, Zenon
    <3>2. CASE i # <<>>
      <4>1. PICK x : x = IP(i[1].address, nil)
        OBVIOUS
      <4>2. kept = Slice(<<x>>) /\ x.address = i[1].address
        BY <3>2, <4>1 DEF IP
      <4>3. kept.of = <<x>> /\ <<x>> # <<>> /\ kept.of[1] = x
        BY <4>2 DEF Slice
      <4> HIDE DEF kept
      <4>4. QED
        BY <4>1, <4>2, <4>3
    <3>3. QED
      BY <3>1, <3>2
  <2> DEFINE first(x) == IF x.of = <<>> THEN NilSlice ELSE Slice(<<IP(x.of[1].address, nil)>>)
             wifi(x) == [kind |-> "wifi", state |-> "active", link |-> l, name |-> name, code |-> c, ips |-> x]
  <2>9. \A x : Common(wifi(x)) = wifi(first(x))
    BY WiFiInCommon
  <2>10. d = wifi(kept) /\ p = wifi(Slice(i)) /\ first(kept) = kept /\ first(Slice(i)) = kept
    BY <2>5, <2>6, <2>7, <2>8, Zenon
  <2> HIDE DEF d, p, name, kept, first, wifi
  <2>11. QED
    BY <2>9, <2>10
<1>5. Common(d) = Common(p)
  BY <1>1, <1>2, <1>4 DEF Idle
<1>6. QED
  BY <1>5 DEF decode, fromProto

LEMMA WiresAgree ==
  ASSUME NEW s, NEW r \in Reading(s), decode(s, Answer(s, r)) # Undecodable
  PROVE  Common(decode(s, Answer(s, r))) = Common(fromProto(s, r))
<1>1. CASE s \notin {"power", "brightness", "wifi", "ble"}
  BY <1>1 DEF decode, Answer, fromProto
<1>2. QED
  BY <1>1, PowerAgrees, BrightnessAgrees, WiFiAgrees, BLEAgrees

\* Every value either wire brings has its shape.
LEMMA ValuesShaped ==
  ASSUME NEW s, NEW r
  PROVE  Shaped(decode(s, r)) /\ Shaped(fromProto(s, r)) /\ Shaped(Zero)
<1>1. Shaped(Zero) /\ Shaped(Undecodable) /\ \A v : Shaped(Plain(v))
  BY DEF Zero, Undecodable, Plain, Shaped
<1>2. Shaped(decodePower(r)) /\ Shaped(powerFromProto(r))
  BY <1>1 DEF decodePower, powerFromProto, Shaped
<1>3. Shaped(decodeBrightness(r)) /\ Shaped(brightnessFromProto(r))
  BY DEF decodeBrightness, brightnessFromProto, Shaped
<1>4. Shaped(decodeBLE(r)) /\ Shaped(bleFromProto(r))
  BY <1>1 DEF decodeBLE, bleFromProto, Shaped
<1>5. Shaped(decodeWiFi(r)) /\ Shaped(wifiFromProto(r))
  BY DEF decodeWiFi, wifiFromProto, Shaped
<1>6. QED
  BY <1>1, <1>2, <1>3, <1>4, <1>5 DEF decode, fromProto

-----------------------------------------------------------------------------
(***************************************************************************)
(* Lists: induction, and what the loop of changedSections finds.           *)
(***************************************************************************)
\* The least-number principle and induction over the naturals, of sets: the library's
\* theorems take a predicate, which no prover here can instantiate, so the former is
\* taken from the well-foundedness of < (WFMin).
LEMMA LeastNumber ==
  ASSUME NEW T, T \subseteq Nat, T # {}
  PROVE  \E n \in T : \A m \in T : n <= m
<1> DEFINE R == {ss \in Nat \X Nat : ss[1] < ss[2]}
<1>1. IsWellFoundedOn(R, Nat)
  BY NatLessThanWellFounded DEF OpToRel
<1>2. \A x, y \in Nat : <<y, x>> \in R <=> y < x
  OBVIOUS
<1> HIDE DEF R
<1>3. \E x \in T : \A y \in T : ~ (<<y, x>> \in R)
  BY <1>1, WFMin
<1>4. PICK n \in T : \A m \in T : ~ (<<m, n>> \in R)
  BY <1>3
<1>5. ASSUME NEW m \in T PROVE n <= m
  <2>1. n \in Nat /\ m \in Nat
    OBVIOUS
  <2>2. ~(m < n)
    BY <1>2, <1>4, <2>1
  <2>3. QED
    BY <2>1, <2>2
<1>6. QED
  BY <1>5

\* Induction.
LEMMA Induction ==
  ASSUME NEW S, 0 \in S, \A n \in Nat : n \in S => n + 1 \in S
  PROVE  Nat \subseteq S
<1> SUFFICES ASSUME Nat \ S # {} PROVE FALSE
  OBVIOUS
<1>1. PICK n \in Nat \ S : \A m \in Nat \ S : n <= m
  BY LeastNumber
<1>2. n - 1 \in Nat /\ n - 1 \in S /\ n = (n - 1) + 1
  BY <1>1
<1>3. QED
  BY <1>1, <1>2

\* The loop of Among, up to a place of the list.
AmongTo(order, S, n, upTo) ==
  upTo = [i \in 0..n |->
            IF i = 0 THEN <<>>
            ELSE IF order[i] \in S THEN Append(upTo[i - 1], order[i]) ELSE upTo[i - 1]]

\* There is a function that does what the loop says.
LEMMA AmongExists ==
  ASSUME NEW order, NEW S, NEW n \in Nat
  PROVE  \E upTo : AmongTo(order, S, n, upTo)
<1> DEFINE Good == {k \in Nat : \E upTo : AmongTo(order, S, k, upTo)}
<1>1. 0 \in Good
  <2>1. AmongTo(order, S, 0, [i \in 0..0 |-> <<>>])
    BY DEF AmongTo
  <2>2. QED
    BY <2>1
<1>2. ASSUME NEW k \in Nat, k \in Good PROVE k + 1 \in Good
  <2>1. PICK upTo : AmongTo(order, S, k, upTo)
    BY <1>2
  <2> DEFINE more == IF order[k + 1] \in S THEN Append(upTo[k], order[k + 1]) ELSE upTo[k]
             longer == [i \in 0..k + 1 |-> IF i = k + 1 THEN more ELSE upTo[i]]
  <2>2. \A i \in 0..k : longer[i] = upTo[i]
    OBVIOUS
  <2>3. \A i \in 0..k + 1 :
          longer[i] = IF i = 0 THEN <<>>
                      ELSE IF order[i] \in S THEN Append(longer[i - 1], order[i]) ELSE longer[i - 1]
    <3>1. ASSUME NEW i \in 0..k
          PROVE  longer[i] = IF i = 0 THEN <<>>
                      ELSE IF order[i] \in S THEN Append(longer[i - 1], order[i]) ELSE longer[i - 1]
      <4>1. upTo[i] = IF i = 0 THEN <<>>
                      ELSE IF order[i] \in S THEN Append(upTo[i - 1], order[i]) ELSE upTo[i - 1]
        BY <2>1 DEF AmongTo
      <4>2. i # 0 => longer[i - 1] = upTo[i - 1]
        BY <2>2
      <4>3. QED
        BY <2>2, <4>1, <4>2
    <3>2. longer[k + 1] = more /\ longer[k] = upTo[k] /\ k + 1 # 0 /\ (k + 1) - 1 = k
      BY <2>2
    <3> HIDE DEF longer
    <3>3. QED
      BY <3>1, <3>2
  <2>4. AmongTo(order, S, k + 1, longer)
    <3>1. longer = [i \in 0..k + 1 |-> longer[i]]
      OBVIOUS
    <3> HIDE DEF longer
    <3>2. QED
      BY <2>3, <3>1 DEF AmongTo
  <2>5. QED
    BY <2>4
<1>3. QED
  BY <1>1, <1>2, Induction

\* What the loop has found so far: the members of S among the places passed, in order.
FoundSoFar(order, S, i, found) ==
  /\ found \in Seq(ToSet(order))
  /\ \A s : s \in ToSet(found) <=> s \in S /\ \E k \in 1..i : order[k] = s
  /\ \A a, b \in DOMAIN found : a < b => \E k, l \in 1..i : k < l /\ order[k] = found[a] /\ order[l] = found[b]

LEMMA AppendFound ==
  ASSUME NEW order, NEW T, order \in Seq(T), NEW S, NEW i \in Nat, i + 1 \in DOMAIN order,
         NEW found, FoundSoFar(order, S, i, found)
  PROVE  FoundSoFar(order, S, i + 1, IF order[i + 1] \in S THEN Append(found, order[i + 1]) ELSE found)
<1> DEFINE new == order[i + 1]
<1>1. found \in Seq(ToSet(order)) /\ new \in ToSet(order) /\ i \in Nat
  BY DEF FoundSoFar, ToSet
<1>2. \A k : k \in 1..i + 1 <=> k \in 1..i \/ k = i + 1
  OBVIOUS
<1>3. CASE new \notin S
  BY <1>2, <1>3 DEF FoundSoFar
<1>4. CASE new \in S
  <2> DEFINE more == Append(found, new)
  <2>1. /\ more \in Seq(ToSet(order)) /\ DOMAIN more = 1..Len(found) + 1 /\ Len(found) \in Nat
        /\ DOMAIN found = 1..Len(found)
        /\ more[Len(found) + 1] = new /\ \A a \in DOMAIN found : more[a] = found[a]
    BY <1>1
  <2> HIDE DEF more, new
  <2>2. \A s : s \in ToSet(more) <=> s \in ToSet(found) \/ s = new
    BY <2>1 DEF ToSet
  <2>3. \A s : s \in ToSet(more) <=> s \in S /\ \E k \in 1..i + 1 : order[k] = s
    BY <1>2, <1>4, <2>2 DEF FoundSoFar, new
  <2>4. ASSUME NEW a \in DOMAIN more, NEW b \in DOMAIN more, a < b
        PROVE  \E k, l \in 1..i + 1 : k < l /\ order[k] = more[a] /\ order[l] = more[b]
    <3>1. a \in DOMAIN found /\ more[a] = found[a]
      BY <2>1, <2>4
    <3>2. CASE b \in DOMAIN found
      <4>1. \E k, l \in 1..i : k < l /\ order[k] = found[a] /\ order[l] = found[b]
        BY <2>4, <3>1, <3>2 DEF FoundSoFar
      <4>2. QED
        BY <1>2, <2>1, <3>1, <3>2, <4>1
    <3>3. CASE b \notin DOMAIN found
      <4>1. more[b] = order[i + 1]
        BY <2>1, <3>3 DEF new
      <4>2. PICK k \in 1..i : order[k] = found[a]
        BY <3>1 DEF FoundSoFar, ToSet
      <4>3. k \in 1..i + 1 /\ i + 1 \in 1..i + 1 /\ k < i + 1
        OBVIOUS
      <4>4. QED
        BY <3>1, <4>1, <4>2, <4>3
    <3>4. QED
      BY <3>2, <3>3
  <2>5. QED
    BY <1>4, <2>1, <2>3, <2>4 DEF FoundSoFar, more, new
<1>5. QED
  BY <1>3, <1>4

\* Among finds the members of S that are in the list, in the order of the list.
LEMMA AmongFinds ==
  ASSUME NEW T, NEW order \in Seq(T), NEW S
  PROVE  /\ ToSet(Among(order, S)) = S \cap ToSet(order)
         /\ \A i, j \in DOMAIN Among(order, S) : i < j => Before(order, Among(order, S)[i], Among(order, S)[j])
<1> DEFINE n == Len(order)
           loop == CHOOSE upTo : AmongTo(order, S, n, upTo)
<1>1. n \in Nat /\ DOMAIN order = 1..n
  OBVIOUS
<1>2. AmongTo(order, S, n, loop)
  <2>1. \E upTo : AmongTo(order, S, n, upTo)
    BY <1>1, AmongExists
  <2>2. QED
    BY <2>1, Zenon
<1>3. Among(order, S) = loop[n]
  BY Zenon DEF Among, AmongTo
<1> HIDE DEF loop
<1> DEFINE Good == {i \in Nat : i <= n => FoundSoFar(order, S, i, loop[i])}
<1>4. 0 \in Good
  <2>1. loop[0] = <<>>
    BY <1>1, <1>2 DEF AmongTo
  <2>2. FoundSoFar(order, S, 0, <<>>)
    BY DEF FoundSoFar, ToSet
  <2>3. QED
    BY <2>1, <2>2
<1>5. ASSUME NEW i \in Nat, i \in Good PROVE i + 1 \in Good
  <2>1. CASE i + 1 <= n
    <3>1. loop[i + 1] = IF order[i + 1] \in S THEN Append(loop[i], order[i + 1]) ELSE loop[i]
      <4>1. i + 1 \in 0..n /\ i + 1 # 0 /\ (i + 1) - 1 = i
        BY <1>1, <2>1
      <4>2. QED
        BY <1>2, <4>1 DEF AmongTo
    <3>2. FoundSoFar(order, S, i, loop[i]) /\ i + 1 \in DOMAIN order
      BY <1>1, <1>5, <2>1
    <3>3. FoundSoFar(order, S, i + 1, loop[i + 1])
      BY <3>1, <3>2, AppendFound
    <3>4. QED
      BY <3>3
  <2>2. QED
    BY <1>1, <2>1
<1>6. n \in Good
  <2> HIDE DEF Good
  <2>1. QED BY <1>1, <1>4, <1>5, Induction
<1>7. FoundSoFar(order, S, n, loop[n])
  BY <1>1, <1>6
<1>8. ToSet(Among(order, S)) = S \cap ToSet(order)
  BY <1>1, <1>3, <1>7 DEF FoundSoFar, ToSet
<1>9. \A i, j \in DOMAIN Among(order, S) : i < j => Before(order, Among(order, S)[i], Among(order, S)[j])
  <2>1. \A a, b \in DOMAIN loop[n] : a < b =>
          \E k, l \in 1..n : k < l /\ order[k] = loop[n][a] /\ order[l] = loop[n][b]
    BY <1>7 DEF FoundSoFar
  <2>2. QED
    BY <1>1, <1>3, <2>1 DEF Before
<1>10. QED
  BY <1>8, <1>9

-----------------------------------------------------------------------------
(***************************************************************************)
(* The invariant of the Store.                                             *)
(***************************************************************************)
\* The values of the variables, as far as the proof needs them: readings are ones the
\* section may have, Fields are Fields, and cells hold shaped values.
Fields == [present : BOOLEAN, err : {nil, "request", "protocol"}, raw : BOOLEAN]
IsTable(f) == DOMAIN f = Holder /\ \A h \in Holder : DOMAIN f[h] = Section
ValuesInv ==
  /\ DOMAIN device = Section /\ \A s \in Section : device[s] \in Reading(s)
  /\ field \in [Holder -> [Section -> Fields]]
  /\ IsTable(cell) /\ \A h \in Holder, s \in Section : Shaped(cell[h][s])

\* Every holder's values are in cells of its own.
OwnCellsInv ==
  /\ at \in [Holder -> [Section -> Holder \cup {"none"}]]
  /\ \A h \in Holder \ {"store"}, s \in Section : at[h][s] = h
  /\ \A s \in Section : at["store"][s] = IF HasStore THEN "store" ELSE "none"

\* What Collect has left on each section so far; the Store has it too, where no update
\* has taken its place.
CollectInv ==
  /\ asked \subseteq Collected /\ updated \subseteq Section
  /\ \A s \in asked : field["initial"][s].present # (field["initial"][s].err # nil)
  /\ \A s \in Section \ asked : field["initial"][s] = NoField
  /\ result = "nil" => asked = Collected
  /\ HasStore => result # "none"
  /\ ~HasStore => updated = {}
  /\ HasStore => \A s \in Section :
       field["store"][s] = IF s \in updated THEN present ELSE field["initial"][s]

\* Messages are of one update or two, and the newest update of a section that is on its
\* way brings the device's state of it.
Sent == {Unknown} \cup UNION {{Update(s, r) : r \in Reading(s)} : s \in Streamed}
Batches == {batch \in Seq(Sent) : Len(batch) \in 1..2}
Newest(k, i, s) ==
  /\ queue[k][i].section = s
  /\ \A l \in DOMAIN queue : \A j \in DOMAIN queue[l] :
       l > k \/ (l = k /\ j > i) => queue[l][j].section # s
QueueInv ==
  /\ queue \in Seq(Batches)
  /\ \A s \in Streamed : \A k \in DOMAIN queue : \A i \in DOMAIN queue[k] :
       Newest(k, i, s) => queue[k][i].reading = device[s]

\* Where none is on its way, the last holder of the state agrees with the device: on what
\* HTTP carries, and on everything once the stream has updated the section.
Awaited(s) == \E k \in DOMAIN queue : \E i \in DOMAIN queue[k] : queue[k][i].section = s
Agrees(h, s) ==
  field[h][s].present =>
    /\ Common(cell[h][s]) = Common(fromProto(s, device[s]))
    /\ h = "store" /\ s \in updated => cell[h][s] = fromProto(s, device[s])
NewsInv ==
  \A s \in Streamed : ~Awaited(s) => Agrees(IF HasStore THEN "store" ELSE "initial", s)

StoreInv == ValuesInv /\ OwnCellsInv /\ CollectInv /\ QueueInv /\ NewsInv

-----------------------------------------------------------------------------
(***************************************************************************)
(* Batches of updates, and the queue they wait in.                         *)
(***************************************************************************)
\* The Store exists when it has a cell.
LEMMA StoreExists ==
  ASSUME at \in [Holder -> [Section -> Holder \cup {"none"}]]
  PROVE  HasStore <=> \E s \in Section : at["store"][s] # "none"
<1>1. at["store"] \in [Section -> Holder \cup {"none"}]
  BY DEF Holder
<1>2. QED
  BY <1>1 DEF HasStore

\* What a holder's value is.
LEMMA OwnValue ==
  ASSUME OwnCellsInv, NEW h \in Holder, NEW s \in Section, h = "store" => HasStore
  PROVE  Value(h, s) = cell[h][s]
BY DEF OwnCellsInv, Value

\* A batch leaves a section as it was, or as its last update of it says (apply).
LEMMA Applied ==
  ASSUME NEW batch \in Batches, NEW s \in Section
  PROVE  \/ /\ \A i \in DOMAIN batch : batch[i].section # s
            /\ apply(batch, s) = <<field["store"][s], Value("store", s)>>
         \/ \E i \in DOMAIN batch :
              /\ batch[i].section = s /\ \A j \in DOMAIN batch : j > i => batch[j].section # s
              /\ apply(batch, s) = <<present, fromProto(s, batch[i].reading)>>
<1> DEFINE us == Updates(batch, s)
<1>1. us \subseteq 1..2 /\ DOMAIN batch \subseteq 1..2
  BY DEF Updates, Batches
<1>2. CASE us = {}
  BY <1>2 DEF apply, Updates
<1>3. CASE us # {}
  <2>1. PICK m \in us : \A x \in us : m >= x
    <3>1. CASE 2 \in us
      BY <1>1, <3>1
    <3>2. CASE 2 \notin us
      BY <1>1, <1>3, <3>2
    <3>3. QED
      BY <3>1, <3>2
  <2>2. Max(us) \in us /\ \A x \in us : Max(us) >= x
    BY <2>1 DEF Max
  <2>3. Max(us) \in Nat /\ \A x \in us : x \in Nat
    BY <1>1, <2>2
  <2>4. apply(batch, s) = <<present, fromProto(s, batch[Max(us)].reading)>>
    BY <1>3 DEF apply
  <2>5. \A j \in DOMAIN batch : j > Max(us) => batch[j].section # s
    <3>1. ASSUME NEW j \in DOMAIN batch, j > Max(us), batch[j].section = s PROVE FALSE
      <4>1. j \in us
        BY <3>1 DEF Updates
      <4>2. QED
        BY <2>2, <2>3, <3>1, <4>1
    <3>2. QED
      BY <3>1
  <2>6. Max(us) \in DOMAIN batch /\ batch[Max(us)].section = s
    BY <2>2 DEF Updates
  <2>7. QED
    BY <2>4, <2>5, <2>6
<1>4. QED
  BY <1>2, <1>3

\* The names of sections, and that of an unknown update.
LEMMA UnknownIsNone == "unknown" \notin Section
<1>1. ToSet(HTTPSections) \cup ToSet(streamSectionOrder) \subseteq
        {"version", "name", "status", "system", "power", "time", "wifi", "brightness",
         "audio_volume", "ble", "storage", "firmware_update", "update_check", "timezone",
         "matter", "frame", "input", "timer", "auto_update", "timer_profiles"}
  BY DEF ToSet, HTTPSections, streamSectionOrder
<1>2. QED
  BY <1>1, SectionAssumption

\* Whatever a section holds, the device has some state of it.
LEMMA ReadingExists == ASSUME NEW s PROVE \E r : r \in Reading(s)
<1>1. CASE s = "power"
  BY <1>1 DEF Reading
<1>2. CASE s = "brightness"
  <2>1. [mode |-> "manual", setting |-> "40", actual |-> "39"]
          \in [mode : {"automatic", "manual"}, setting : {"40"}, actual : {"39"}]
    OBVIOUS
  <2>2. QED
    BY <1>2, <2>1 DEF Reading
<1>3. CASE s = "wifi"
  BY <1>3 DEF Reading
<1>4. CASE s = "ble"
  <2>1. [status |-> "CONNECTED", address |-> "aa"] \in [status : {"CONNECTED"}, address : {"aa"}]
    OBVIOUS
  <2>2. QED
    BY <1>4, <2>1 DEF Reading
<1>5. CASE s \notin {"power", "brightness", "wifi", "ble"}
  BY <1>5 DEF Reading
<1>6. QED
  BY <1>1, <1>2, <1>3, <1>4, <1>5

\* The update u is now at the end of the queue, as update i0 of message k0.
AddedAt(u, k0, i0) ==
  /\ queue' \in Seq(Batches)
  /\ k0 \in DOMAIN queue' /\ i0 \in DOMAIN queue'[k0] /\ queue'[k0][i0] = u
  /\ \A k \in DOMAIN queue' :
       k \in Nat /\ k <= k0 /\ (k < k0 => k \in DOMAIN queue /\ queue'[k] = queue[k])
  /\ \A k \in DOMAIN queue :
       /\ k \in DOMAIN queue'
       /\ \A i \in DOMAIN queue[k] :
            /\ i \in DOMAIN queue'[k] /\ queue'[k][i] = queue[k][i]
            /\ k = k0 => i < i0
  /\ \A i \in DOMAIN queue'[k0] :
       /\ i \in Nat /\ i <= i0
       /\ i < i0 => k0 \in DOMAIN queue /\ i \in DOMAIN queue[k0] /\ queue'[k0][i] = queue[k0][i]

\* A message has room for a second update.
LEMMA OneMore ==
  ASSUME NEW u \in Sent
  PROVE  <<u>> \in Batches /\ \A b \in Batches : Len(b) < 2 => Append(b, u) \in Batches
<1>1. <<u>> \in Seq(Sent) /\ Len(<<u>>) = 1
  OBVIOUS
<1>2. ASSUME NEW b \in Batches, Len(b) < 2 PROVE Append(b, u) \in Batches
  <2>1. b \in Seq(Sent) /\ Len(b) \in 1..2
    BY DEF Batches
  <2>2. Append(b, u) \in Seq(Sent) /\ Len(Append(b, u)) = Len(b) + 1
    BY <2>1, AppendProperties
  <2>3. Len(b) + 1 \in 1..2
    BY <1>2, <2>1
  <2>4. QED
    BY <2>2, <2>3 DEF Batches
<1>3. QED
  BY <1>1, <1>2 DEF Batches

\* The places of a message of two.
LEMMA TwoOfThem ==
  ASSUME NEW S, NEW b \in Seq(S), Len(b) = 1, NEW u \in S
  PROVE  DOMAIN Append(b, u) = 1..2 /\ Append(b, u)[1] = b[1] /\ Append(b, u)[2] = u
<1> DEFINE c == Append(b, u)
<1>1. 1 \in 1..Len(b)
  OBVIOUS
<1>2. c \in Seq(S) /\ Len(c) = Len(b) + 1 /\ c[Len(b) + 1] = u /\ c[1] = b[1]
  BY <1>1, AppendProperties
<1>3. Len(c) = 2 /\ c[2] = u /\ c[1] = b[1]
  BY <1>2
<1>4. DOMAIN c = 1..2
  BY <1>2, <1>3
<1>5. QED
  BY <1>3, <1>4

\* One more update at the end of the queue: it is the newest of its section, and the
\* newest of another section stays where it is (Push).
LEMMA Pushed ==
  ASSUME queue \in Seq(Batches), NEW u \in Sent, Push(u)
  PROVE  /\ queue' \in Seq(Batches)
         /\ \A s : Awaited(s)' <=> Awaited(s) \/ s = u.section
         /\ \A s : \A k \in DOMAIN queue' : \A i \in DOMAIN queue'[k] :
              Newest(k, i, s)' =>
                IF s = u.section THEN queue'[k][i] = u
                ELSE k \in DOMAIN queue /\ i \in DOMAIN queue[k] /\ Newest(k, i, s) /\ queue'[k][i] = queue[k][i]
<1> DEFINE n == Len(queue)
<1>1. n \in Nat /\ DOMAIN queue = 1..n /\ \A k \in 1..n : queue[k] \in Batches
  OBVIOUS
<1>2. \A b \in Batches : Len(b) \in 1..2 /\ DOMAIN b = 1..Len(b)
  BY DEF Batches
<1>3. PICK k0 \in Nat, i0 \in Nat : AddedAt(u, k0, i0)
  <2>1. CASE queue' = Append(queue, <<u>>)
    <3>1. /\ queue' \in Seq(Batches) /\ DOMAIN queue' = 1..n + 1 /\ queue'[n + 1] = <<u>>
          /\ \A k \in 1..n : queue'[k] = queue[k]
      BY <2>1, OneMore
    <3>2. DOMAIN <<u>> = {1} /\ <<u>>[1] = u
      OBVIOUS
    <3>3. n + 1 \in DOMAIN queue' /\ 1 \in DOMAIN queue'[n + 1] /\ queue'[n + 1][1] = u
      BY <1>1, <3>1, <3>2
    <3>4. \A k \in DOMAIN queue' : k \in Nat /\ k <= n + 1 /\ (k < n + 1 => k \in DOMAIN queue /\ queue'[k] = queue[k])
      BY <1>1, <3>1
    <3>5. \A k \in DOMAIN queue : /\ k \in DOMAIN queue'
                                  /\ \A i \in DOMAIN queue[k] :
                                       /\ i \in DOMAIN queue'[k] /\ queue'[k][i] = queue[k][i]
                                       /\ k = n + 1 => i < 1
      BY <1>1, <3>1
    <3>6. \A i \in DOMAIN queue'[n + 1] : i \in Nat /\ i <= 1 /\ ~(i < 1)
      BY <3>1, <3>2
    <3>7. AddedAt(u, n + 1, 1)
      BY ONLY <3>1, <3>3, <3>4, <3>5, <3>6 DEF AddedAt
    <3>8. QED
      BY <1>1, <3>7
  <2>2. CASE queue # <<>> /\ Len(Last(queue)) < 2 /\ queue' = [queue EXCEPT ![n] = Append(@, u)]
    <3> DEFINE b == queue[n]
    <3>1. n \in 1..n /\ Last(queue) = b /\ b \in Batches
      BY <1>1, <2>2 DEF Last
    <3>2. Len(b) = 1 /\ DOMAIN b = {1}
      <4>1. Len(b) \in 1..2 /\ DOMAIN b = 1..Len(b) /\ Len(b) < 2
        BY <1>2, <2>2, <3>1
      <4>2. Len(b) = 1
        BY ONLY <4>1
      <4>3. QED
        BY ONLY <4>1, <4>2
    <3>3. Append(b, u) \in Batches
      BY <2>2, <3>1, OneMore
    <3>4. DOMAIN Append(b, u) = {1, 2} /\ Append(b, u)[1] = b[1] /\ Append(b, u)[2] = u
      <4>1. b \in Seq(Sent)
        BY <3>1 DEF Batches
      <4>2. Len(b) = 1 /\ u \in Sent
        BY <3>2
      <4>3. DOMAIN Append(b, u) = 1..2 /\ Append(b, u)[1] = b[1] /\ Append(b, u)[2] = u
        BY ONLY <4>1, <4>2, TwoOfThem
      <4>4. 1..2 = {1, 2}
        OBVIOUS
      <4>5. QED
        BY ONLY <4>3, <4>4
    <3>5. /\ DOMAIN queue' = 1..n /\ queue'[n] = Append(b, u)
          /\ \A k \in 1..n : k # n => queue'[k] = queue[k]
      BY <1>1, <2>2, <3>1
    <3>6. queue' \in Seq(Batches)
      BY <1>1, <2>2, <3>1, <3>3
    <3>7. n \in DOMAIN queue' /\ 2 \in DOMAIN queue'[n] /\ queue'[n][2] = u
      BY <3>1, <3>4, <3>5
    <3>8. \A k \in DOMAIN queue' : k \in Nat /\ k <= n /\ (k < n => k \in DOMAIN queue /\ queue'[k] = queue[k])
      <4>1. ASSUME NEW k \in 1..n PROVE k \in Nat /\ k <= n /\ (k < n => k # n)
        <5>1. n \in Nat
          BY <1>1
        <5>2. QED
          BY ONLY <5>1, <4>1
      <4>2. QED
        BY <1>1, <3>5, <4>1
    <3>9. \A k \in DOMAIN queue : /\ k \in DOMAIN queue'
                                  /\ \A i \in DOMAIN queue[k] :
                                       /\ i \in DOMAIN queue'[k] /\ queue'[k][i] = queue[k][i]
                                       /\ k = n => i < 2
      <4>1. ASSUME NEW k \in DOMAIN queue, NEW i \in DOMAIN queue[k]
            PROVE  i \in DOMAIN queue'[k] /\ queue'[k][i] = queue[k][i] /\ (k = n => i < 2)
        <5>1. CASE k = n
          BY <3>2, <3>4, <3>5, <4>1, <5>1
        <5>2. CASE k # n
          BY <1>1, <3>5, <4>1, <5>2
        <5>3. QED
          BY <5>1, <5>2
      <4>2. QED
        BY <1>1, <3>5, <4>1
    <3>10. \A i \in DOMAIN queue'[n] :
             /\ i \in Nat /\ i <= 2
             /\ i < 2 => n \in DOMAIN queue /\ i \in DOMAIN queue[n] /\ queue'[n][i] = queue[n][i]
      <4>1. \A i \in {1, 2} : i \in Nat /\ i <= 2 /\ (i < 2 => i = 1)
        OBVIOUS
      <4>2. QED
        BY <1>1, <3>1, <3>2, <3>4, <3>5, <4>1
    <3>11. AddedAt(u, n, 2)
      BY <3>6, <3>7, <3>8, <3>9, <3>10 DEF AddedAt
    <3>12. QED
      BY <1>1, <3>11
  <2>3. QED
    BY <2>1, <2>2 DEF Push
<1>4. ASSUME NEW s PROVE Awaited(s)' <=> Awaited(s) \/ s = u.section
  <2>1. Awaited(s) => Awaited(s)'
    BY <1>3 DEF Awaited, AddedAt
  <2>2. s = u.section => Awaited(s)'
    BY <1>3 DEF Awaited, AddedAt
  <2>3. ASSUME NEW k \in DOMAIN queue', NEW i \in DOMAIN queue'[k], queue'[k][i].section = s
        PROVE  Awaited(s) \/ s = u.section
    <3>1. CASE k < k0
      BY <1>3, <2>3, <3>1 DEF Awaited, AddedAt
    <3>2. CASE k = k0 /\ i < i0
      BY <1>3, <2>3, <3>2 DEF Awaited, AddedAt
    <3>3. CASE k = k0 /\ i = i0
      BY <1>3, <2>3, <3>3 DEF AddedAt
    <3>4. k \in Nat /\ k <= k0 /\ (k = k0 => i \in Nat /\ i <= i0)
      BY <1>3 DEF AddedAt
    <3>5. QED
      BY <3>1, <3>2, <3>3, <3>4
  <2>4. QED
    BY <2>1, <2>2, <2>3 DEF Awaited
<1>5. ASSUME NEW s, NEW k \in DOMAIN queue', NEW i \in DOMAIN queue'[k], Newest(k, i, s)'
      PROVE  IF s = u.section THEN queue'[k][i] = u
             ELSE k \in DOMAIN queue /\ i \in DOMAIN queue[k] /\ Newest(k, i, s) /\ queue'[k][i] = queue[k][i]
  <2>1. /\ queue'[k][i].section = s
        /\ \A l \in DOMAIN queue' : \A j \in DOMAIN queue'[l] :
             l > k \/ (l = k /\ j > i) => queue'[l][j].section # s
    BY <1>5 DEF Newest
  <2>2. /\ k \in Nat /\ k <= k0 /\ (k = k0 => i \in Nat /\ i <= i0)
        /\ k0 \in DOMAIN queue' /\ i0 \in DOMAIN queue'[k0] /\ queue'[k0][i0] = u
    BY <1>3 DEF AddedAt
  <2>3. CASE s = u.section
    <3>1. ~(k0 > k \/ (k0 = k /\ i0 > i))
      BY <2>1, <2>2, <2>3
    <3>2. k = k0 /\ i = i0
      BY ONLY <2>2, <3>1, k0 \in Nat, i0 \in Nat
    <3>3. QED
      BY <2>2, <2>3, <3>2
  <2>4. CASE s # u.section
    <3>1. ~(k = k0 /\ i = i0)
      BY <2>1, <2>2, <2>4
    <3>2. k \in DOMAIN queue /\ i \in DOMAIN queue[k] /\ queue'[k][i] = queue[k][i]
      BY <1>3, <2>2, <3>1 DEF AddedAt
    <3>3. Newest(k, i, s)
      BY <1>3, <2>1, <3>2 DEF Newest, AddedAt
    <3>4. QED
      BY <2>4, <3>2, <3>3
  <2>5. QED
    BY <2>3, <2>4
<1>6. QED
  BY <1>3, <1>4, <1>5 DEF AddedAt

-----------------------------------------------------------------------------
(***************************************************************************)
(* The invariant holds at the start, and every action keeps it.            *)
(***************************************************************************)
\* Sections collected or streamed are sections, and the holders are four.
LEMMA SectionsAndHolders ==
  /\ Collected \subseteq Section /\ Streamed \subseteq Section
  /\ Holder = {"initial", "store", "copy", "message"}
BY DEF Collected, Streamed, Holder

\* An update of a streamed section, or an unknown one, may be sent.
LEMMA WhatIsSent ==
  /\ \A s \in Streamed : \A r \in Reading(s) :
       Update(s, r) \in Sent /\ Update(s, r).section = s /\ Update(s, r).reading = r
  /\ Unknown \in Sent /\ Unknown.section = "unknown"
<1>1. ASSUME NEW s \in Streamed, NEW r \in Reading(s)
      PROVE  Update(s, r) \in Sent /\ Update(s, r).section = s /\ Update(s, r).reading = r
  <2>1. Update(s, r) \in {Update(s, x) : x \in Reading(s)}
    OBVIOUS
  <2>2. Update(s, r) \in UNION {{Update(z, x) : x \in Reading(z)} : z \in Streamed}
    BY <2>1
  <2>3. QED
    BY <2>2 DEF Sent, Update
<1>2. Unknown \in Sent
  BY DEF Sent
<1>3. Unknown.section = "unknown"
  BY DEF Unknown
<1>4. QED
  BY <1>1, <1>2, <1>3

\* At the start nothing is collected, sent or held.
LEMMA StoreInits == Init => StoreInv
<1> SUFFICES ASSUME Init PROVE StoreInv
  OBVIOUS
<1>1. \A s \in Section : device[s] \in Reading(s)
  BY ReadingExists DEF Init
<1>2. field = [h \in Holder |-> [s \in Section |-> NoField]] /\ NoField \in Fields
  BY DEF Init, NoField, Field, Fields
<1>3. cell = [h \in Holder |-> [s \in Section |-> Zero]] /\ Shaped(Zero)
  BY ValuesShaped DEF Init
<1>4. ValuesInv
  BY <1>1, <1>2, <1>3 DEF Init, ValuesInv, IsTable
<1>5. at = [h \in Holder |-> [s \in Section |-> IF h = "store" THEN "none" ELSE h]]
  BY DEF Init
<1>6. ~HasStore
  BY <1>5, SectionsAndHolders DEF HasStore
<1>7. OwnCellsInv
  BY <1>5, <1>6, SectionsAndHolders DEF OwnCellsInv
<1>8. CollectInv
  BY <1>2, <1>6, SectionsAndHolders DEF Init, CollectInv
<1>9. QueueInv
  BY DEF Init, QueueInv
<1>10. \A h \in Holder, s \in Section : ~field[h][s].present
  BY <1>2 DEF NoField, Field
<1>11. NewsInv
  BY <1>6, <1>10, SectionsAndHolders DEF NewsInv, Agrees
<1>12. QED
  BY <1>4, <1>7, <1>8, <1>9, <1>11 DEF StoreInv

\* What leaves the holders of the values alone leaves the existence of the Store alone.
LEMMA CollectStays ==
  ASSUME CollectInv, UNCHANGED <<asked, updated, result, field>>, HasStore' <=> HasStore
  PROVE  CollectInv'
BY DEF CollectInv

\* The same for the cells.
LEMMA OwnCellsStay ==
  ASSUME OwnCellsInv, UNCHANGED at
  PROVE  OwnCellsInv' /\ (HasStore' <=> HasStore)
BY DEF OwnCellsInv, HasStore

\* And for what the last holder of the state says of it.
LEMMA NewsStay ==
  ASSUME NewsInv, UNCHANGED <<device, queue, updated>>, HasStore' <=> HasStore,
         NEW h, h = IF HasStore THEN "store" ELSE "initial",
         \A s \in Streamed : field'[h][s] = field[h][s] /\ cell'[h][s] = cell[h][s]
  PROVE  NewsInv'
<1>1. ASSUME NEW s \in Streamed PROVE (Awaited(s)' <=> Awaited(s)) /\ (Agrees(h, s)' <=> Agrees(h, s))
  BY DEF Agrees, Awaited
<1>2. QED
  BY <1>1 DEF NewsInv

\* The device changes a section, and the stream says so.
LEMMA ChangeKeeps ==
  ASSUME StoreInv, NEW s \in Section, Change(s)
  PROVE  StoreInv'
<1> USE DEF StoreInv
<1>1. PICK r \in Reading(s) : /\ device' = [device EXCEPT ![s] = r]
                              /\ IF s \in Streamed THEN Push(Update(s, r)) ELSE UNCHANGED queue
  BY DEF Change
<1>2. UNCHANGED <<asked, result, field, at, cell, updated>>
  BY DEF Change, collectVars, history
<1>3. OwnCellsInv' /\ (HasStore' <=> HasStore)
  BY <1>2, OwnCellsStay
<1>4. CollectInv'
  BY <1>2, <1>3, CollectStays
<1>5. \A t \in Section : device'[t] = IF t = s THEN r ELSE device[t]
  BY <1>1 DEF ValuesInv
<1>6. ValuesInv'
  BY <1>1, <1>2, <1>5 DEF ValuesInv, IsTable
<1>7. CASE s \in Streamed
  <2> DEFINE u == Update(s, r)
  <2>1. u.section = s /\ u.reading = r /\ u \in Sent
    BY <1>7, WhatIsSent
  <2>2. queue \in Seq(Batches) /\ Push(u)
    BY <1>1, <1>7 DEF QueueInv
  <2> HIDE DEF u
  <2>3. /\ queue' \in Seq(Batches)
        /\ \A t : Awaited(t)' <=> Awaited(t) \/ t = s
        /\ \A t : \A k \in DOMAIN queue' : \A i \in DOMAIN queue'[k] :
             Newest(k, i, t)' =>
               IF t = s THEN queue'[k][i] = u
               ELSE k \in DOMAIN queue /\ i \in DOMAIN queue[k] /\ Newest(k, i, t) /\ queue'[k][i] = queue[k][i]
    BY <2>1, <2>2, Pushed
  <2>4. ASSUME NEW t \in Streamed, NEW k \in DOMAIN queue', NEW i \in DOMAIN queue'[k], Newest(k, i, t)'
        PROVE  queue'[k][i].reading = device'[t]
    <3>1. CASE t = s
      <4>1. queue'[k][i] = u
        BY <2>3, <2>4, <3>1
      <4>2. device'[t] = r
        BY <1>5, <3>1
      <4>3. QED
        BY <2>1, <4>1, <4>2
    <3>2. CASE t # s
      <4>1. k \in DOMAIN queue /\ i \in DOMAIN queue[k] /\ Newest(k, i, t) /\ queue'[k][i] = queue[k][i]
        BY <2>3, <2>4, <3>2
      <4>2. queue[k][i].reading = device[t]
        BY <4>1 DEF QueueInv
      <4>3. device'[t] = device[t]
        BY <1>5, <3>2, SectionsAndHolders
      <4>4. QED
        BY <4>1, <4>2, <4>3
    <3>3. QED
      BY <3>1, <3>2
  <2>5. QueueInv'
    BY <2>3, <2>4 DEF QueueInv
  <2>6. NewsInv'
    BY <1>2, <1>3, <1>5, <2>3, SectionsAndHolders DEF NewsInv, Agrees
  <2>7. QED
    BY <1>3, <1>4, <1>6, <2>5, <2>6
<1>8. CASE s \notin Streamed
  <2>1. queue' = queue /\ \A t \in Streamed : device'[t] = device[t]
    BY <1>1, <1>5, <1>8, SectionsAndHolders
  <2>2. QueueInv'
    BY <2>1 DEF QueueInv, Newest
  <2>3. NewsInv'
    BY <1>2, <1>3, <2>1 DEF NewsInv, Agrees, Awaited
  <2>4. QED
    BY <1>3, <1>4, <1>6, <2>2, <2>3
<1>9. QED
  BY <1>7, <1>8

\* The stream brings something the client does not know.
LEMMA PushUnknownKeeps ==
  ASSUME StoreInv, PushUnknown
  PROVE  StoreInv'
<1> USE DEF StoreInv
<1>1. UNCHANGED <<device, asked, result, field, at, cell, updated>> /\ Push(Unknown)
  BY DEF PushUnknown, collectVars, history
<1>2. OwnCellsInv' /\ (HasStore' <=> HasStore)
  BY <1>1, OwnCellsStay
<1>3. CollectInv'
  BY <1>1, <1>2, CollectStays
<1>4. ValuesInv'
  BY <1>1 DEF ValuesInv, IsTable
<1>5. Unknown \in Sent /\ Unknown.section \notin Streamed /\ queue \in Seq(Batches)
  BY UnknownIsNone, SectionsAndHolders, WhatIsSent DEF QueueInv
<1>6. /\ queue' \in Seq(Batches)
      /\ \A t \in Streamed : Awaited(t)' <=> Awaited(t)
      /\ \A t \in Streamed, k \in DOMAIN queue' : \A i \in DOMAIN queue'[k] :
           Newest(k, i, t)' =>
             k \in DOMAIN queue /\ i \in DOMAIN queue[k] /\ Newest(k, i, t) /\ queue'[k][i] = queue[k][i]
  BY <1>1, <1>5, Pushed
<1>7. QueueInv'
  BY <1>1, <1>6 DEF QueueInv
<1>8. NewsInv'
  BY <1>1, <1>2, <1>6 DEF NewsInv, Agrees
<1>9. QED
  BY <1>2, <1>3, <1>4, <1>7, <1>8

\* Collect has an answer of an endpoint, or has none.
LEMMA CollectNextKeeps ==
  ASSUME StoreInv, CollectNext
  PROVE  StoreInv'
<1> USE DEF StoreInv
<1>1. PICK s \in Collected \ asked : \E out \in {Collection(s)} \cup Failed(s) :
        /\ field' = [field EXCEPT !["initial"][s] = out[1]]
        /\ cell' = [cell EXCEPT !["initial"][s] = out[2]]
        /\ asked' = asked \cup {s}
  BY DEF CollectNext
<1>2. PICK f, v : /\ <<f, v>> \in {Collection(s)} \cup Failed(s)
                  /\ field' = [field EXCEPT !["initial"][s] = f]
                  /\ cell' = [cell EXCEPT !["initial"][s] = v]
  <2>1. PICK out \in {Collection(s)} \cup Failed(s) :
        /\ field' = [field EXCEPT !["initial"][s] = out[1]]
        /\ cell' = [cell EXCEPT !["initial"][s] = out[2]]
    BY <1>1
  <2>2. \E f, v : out = <<f, v>>
    <3>1. CASE out = Collection(s)
      <4>1. \/ out = <<Field(FALSE, "protocol", TRUE), Zero>>
            \/ out = <<present, decode(s, Answer(s, device[s]))>>
        BY <3>1 DEF Collection
      <4>2. QED
        BY <4>1
    <3>2. CASE out \in Failed(s)
      <4>1. \/ out = <<Field(FALSE, "request", FALSE), Zero>>
            \/ out = <<Field(FALSE, "protocol", s # "version"), Zero>>
        BY <3>2 DEF Failed
      <4>2. QED
        BY <4>1
    <3>3. QED
      BY <2>1, <3>1, <3>2
  <2>3. PICK f, v : out = <<f, v>>
    BY <2>2
  <2>4. out[1] = f /\ out[2] = v
    BY <2>3
  <2>5. /\ <<f, v>> \in {Collection(s)} \cup Failed(s)
        /\ field' = [field EXCEPT !["initial"][s] = f]
        /\ cell' = [cell EXCEPT !["initial"][s] = v]
    BY <2>1, <2>3, <2>4, Zenon
  <2>6. QED
    BY <2>5
<1>3. s \in Section /\ s \in Collected /\ device[s] \in Reading(s)
  BY <1>1, SectionsAndHolders DEF ValuesInv
<1>4. /\ f \in Fields /\ f.present # (f.err # nil) /\ Shaped(v)
      /\ s \in Streamed /\ f.present => Common(v) = Common(fromProto(s, device[s]))
  <2>1. CASE <<f, v>> = <<present, decode(s, Answer(s, device[s]))>>
             /\ decode(s, Answer(s, device[s])) # Undecodable
    <3>1. f = present /\ v = decode(s, Answer(s, device[s]))
      BY <2>1
    <3>2. present \in Fields /\ present.present = TRUE /\ present.err = nil
      BY DEF present, Field, Fields
    <3>3. QED
      BY <1>3, <2>1, <3>1, <3>2, ValuesShaped, WiresAgree
  <2>2. CASE \E e \in {"request", "protocol"}, raw \in BOOLEAN : <<f, v>> = <<Field(FALSE, e, raw), Zero>>
    <3>1. PICK e \in {"request", "protocol"}, raw \in BOOLEAN : f = Field(FALSE, e, raw) /\ v = Zero
      BY <2>2
    <3>2. f \in Fields /\ f.present = FALSE /\ f.err # nil
      BY <3>1 DEF Field, Fields, nil
    <3>3. QED
      BY <3>1, <3>2, ValuesShaped
  <2>3. QED
    BY <1>2, <2>1, <2>2 DEF Collection, Failed
<1>5. /\ asked' = asked \cup {s} /\ result = "none"
      /\ result' \in {"none", "ctx", "nil"} /\ (result' = "nil" => asked' = Collected)
      /\ UNCHANGED <<device, queue, at, updated>>
  <2>1. asked' = asked \cup {s}
    BY <1>1
  <2>2. QED
    BY <2>1 DEF CollectNext, deviceVars, history
<1>6. OwnCellsInv' /\ (HasStore' <=> HasStore) /\ ~HasStore
  BY <1>5, OwnCellsStay DEF CollectInv
<1>7. /\ \A h \in Holder, t \in Section :
           /\ field'[h][t] = IF h = "initial" /\ t = s THEN f ELSE field[h][t]
           /\ cell'[h][t] = IF h = "initial" /\ t = s THEN v ELSE cell[h][t]
      /\ field' \in [Holder -> [Section -> Fields]] /\ IsTable(cell')
  BY <1>2, <1>3, <1>4 DEF ValuesInv, IsTable
<1>8. ValuesInv'
  BY <1>4, <1>5, <1>7 DEF ValuesInv, IsTable
<1>9. CollectInv'
  BY <1>1, <1>3, <1>4, <1>5, <1>6, <1>7, SectionsAndHolders DEF CollectInv
<1>10. QueueInv'
  BY <1>5 DEF QueueInv, Newest
<1>11. NewsInv'
  <2>1. ASSUME NEW t \in Streamed, ~Awaited(t)' PROVE Agrees("initial", t)'
    <3>1. CASE t = s
      BY <1>4, <1>5, <1>7, <2>1, <3>1, SectionsAndHolders DEF Agrees
    <3>2. CASE t # s
      <4>1. ~Awaited(t)
        BY <1>5, <2>1 DEF Awaited
      <4>2. Agrees("initial", t)
        BY <1>6, <2>1, <4>1 DEF NewsInv
      <4>3. QED
        BY <1>5, <1>7, <3>2, <4>2, SectionsAndHolders DEF Agrees
    <3>3. QED
      BY <3>1, <3>2
  <2>2. QED
    BY <1>6, <2>1 DEF NewsInv
<1>12. QED
  BY <1>6, <1>8, <1>9, <1>10, <1>11

\* The application gives up collecting.
LEMMA CancelKeeps ==
  ASSUME StoreInv, Cancel
  PROVE  StoreInv'
<1> USE DEF StoreInv
<1>1. UNCHANGED <<device, queue, asked, result, field, at, cell, updated>>
  BY DEF Cancel, deviceVars, history
<1>2. OwnCellsInv' /\ (HasStore' <=> HasStore)
  BY <1>1, OwnCellsStay
<1>3. CollectInv'
  BY <1>1, <1>2, CollectStays
<1>4. ValuesInv' /\ QueueInv'
  BY <1>1 DEF ValuesInv, IsTable, QueueInv, Newest
<1>5. NewsInv'
  BY <1>1, <1>2, NewsStay
<1>6. QED
  BY <1>2, <1>3, <1>4, <1>5

\* A clone takes the meaning of every section over, and nobody else notices.
LEMMA Cloned ==
  ASSUME ValuesInv, OwnCellsInv, NEW from \in Holder, NEW to \in Holder, cloneSnapshot(from, to),
         \A s \in Section : Value(from, s) = cell[from][s]
  PROVE  /\ \A s \in Section :
              /\ field'[to][s] = field[from][s] /\ at'[to][s] = to
              /\ Common(cell'[to][s]) = Common(cell[from][s])
         /\ \A h \in Holder \ {to} : field'[h] = field[h] /\ cell'[h] = cell[h]
         /\ field' \in [Holder -> [Section -> Fields]] /\ IsTable(cell')
         /\ \A h \in Holder, s \in Section : Shaped(cell'[h][s])
<1>1. /\ field' = [field EXCEPT ![to] = field[from]]
      /\ at' = [at EXCEPT ![to] = [s \in Section |-> to]]
      /\ cell' = [cell EXCEPT ![to] = [s \in Section |-> cloneValue(Value(from, s))]]
  BY DEF cloneSnapshot
<1>2. \A s \in Section : cell'[to][s] = cloneValue(cell[from][s])
  BY <1>1 DEF ValuesInv, IsTable
<1>3. \A s \in Section : Shaped(cell'[to][s]) /\ Common(cell'[to][s]) = Common(cell[from][s])
  BY <1>2, CloneKeeps DEF ValuesInv
<1>4. \A h \in Holder \ {to} : field'[h] = field[h] /\ cell'[h] = cell[h]
  BY <1>1 DEF ValuesInv, IsTable
<1>5. field' \in [Holder -> [Section -> Fields]] /\ IsTable(cell')
  BY <1>1 DEF ValuesInv, IsTable
<1>6. QED
  BY <1>1, <1>3, <1>4, <1>5 DEF ValuesInv, OwnCellsInv

\* NewStore takes the collected Snapshot over.
LEMMA NewStoreKeeps ==
  ASSUME StoreInv, NewStore
  PROVE  StoreInv'
<1> USE DEF StoreInv
<1>1. /\ result # "none" /\ ~HasStore /\ cloneSnapshot("initial", "store")
      /\ UNCHANGED <<device, queue, asked, result, updated>>
  BY DEF NewStore, deviceVars, collectVars, history
<1>2. \A s \in Section : Value("initial", s) = cell["initial"][s]
  BY SectionsAndHolders, OwnValue
<1>3. /\ \A s \in Section :
           /\ field'["store"][s] = field["initial"][s] /\ at'["store"][s] = "store"
           /\ Common(cell'["store"][s]) = Common(cell["initial"][s])
      /\ \A h \in Holder \ {"store"} : field'[h] = field[h] /\ cell'[h] = cell[h]
      /\ field' \in [Holder -> [Section -> Fields]] /\ IsTable(cell')
      /\ \A h \in Holder, s \in Section : Shaped(cell'[h][s])
  BY <1>1, <1>2, SectionsAndHolders, Cloned
<1>4. at' = [at EXCEPT !["store"] = [s \in Section |-> "store"]]
  BY <1>1 DEF cloneSnapshot
<1>5. HasStore' <=> Section # {}
  BY <1>4, SectionsAndHolders DEF OwnCellsInv, HasStore
<1>6. ValuesInv'
  BY <1>1, <1>3 DEF ValuesInv
<1>7. OwnCellsInv'
  BY <1>4, <1>5, SectionsAndHolders DEF OwnCellsInv
<1>8. CollectInv'
  BY <1>1, <1>3, SectionsAndHolders DEF CollectInv
<1>9. QueueInv'
  BY <1>1 DEF QueueInv, Newest
<1>10. NewsInv'
  <2>1. ASSUME NEW s \in Streamed, ~Awaited(s)' PROVE Agrees("store", s)'
    <3>1. ~Awaited(s)
      BY <1>1, <2>1 DEF Awaited
    <3>2. Agrees("initial", s)
      BY <1>1, <3>1 DEF NewsInv
    <3>3. QED
      BY <1>1, <1>3, <3>2, SectionsAndHolders DEF Agrees, CollectInv
  <2>2. \A s \in Streamed : HasStore'
    BY <1>5, SectionsAndHolders
  <2>3. QED
    BY <2>1, <2>2 DEF NewsInv
<1>11. QED
  BY <1>6, <1>7, <1>8, <1>9, <1>10

\* What keeps the Store's fields and cells keeps its meaning.
StoreStays == \A s \in Section : field'["store"][s] = field["store"][s] /\ cell'["store"][s] = cell["store"][s]

\* Store.Snapshot gives the application cells of its own.
LEMMA SnapshotKeeps ==
  ASSUME StoreInv, Snapshot
  PROVE  StoreInv' /\ StoreStays
<1> USE DEF StoreInv
<1>1. /\ HasStore /\ cloneSnapshot("store", "copy")
      /\ UNCHANGED <<device, queue, asked, result, updated>>
  BY DEF Snapshot, deviceVars, collectVars, history
<1>2. \A s \in Section : Value("store", s) = cell["store"][s]
  BY <1>1, SectionsAndHolders, OwnValue
<1>3. /\ \A h \in Holder \ {"copy"} : field'[h] = field[h] /\ cell'[h] = cell[h]
      /\ field' \in [Holder -> [Section -> Fields]] /\ IsTable(cell')
      /\ \A h \in Holder, s \in Section : Shaped(cell'[h][s])
  BY <1>1, <1>2, SectionsAndHolders, Cloned
<1>4. at' = [at EXCEPT !["copy"] = [s \in Section |-> "copy"]]
  BY <1>1 DEF cloneSnapshot
<1>5. at'["store"] = at["store"] /\ HasStore'
  BY <1>1, <1>4, SectionsAndHolders DEF OwnCellsInv, HasStore
<1>6. ValuesInv'
  BY <1>1, <1>3 DEF ValuesInv
<1>7. OwnCellsInv'
  BY <1>1, <1>4, <1>5, SectionsAndHolders DEF OwnCellsInv
<1>8. CollectInv'
  BY <1>1, <1>3, <1>5, SectionsAndHolders DEF CollectInv
<1>9. QueueInv'
  BY <1>1 DEF QueueInv, Newest
<1>10. NewsInv'
  BY <1>1, <1>3, <1>5, SectionsAndHolders, NewsStay
<1>11. StoreStays
  BY <1>3, SectionsAndHolders DEF StoreStays
<1>12. QED
  BY <1>6, <1>7, <1>8, <1>9, <1>10, <1>11

\* Writing through what the application holds does not reach the Store.
LEMMA ScribbleKeeps ==
  ASSUME StoreInv, Scribble
  PROVE  StoreInv' /\ StoreStays
<1> USE DEF StoreInv
<1>1. HasStore /\ UNCHANGED <<device, queue, asked, result, field, at, updated>>
  BY DEF Scribble, deviceVars, collectVars, history
<1>2. OwnCellsInv' /\ (HasStore' <=> HasStore)
  BY <1>1, OwnCellsStay
<1>3. CollectInv'
  BY <1>1, <1>2, CollectStays
<1>4. "store" \notin {at[h][s] : h \in Holder \ {"store"}, s \in Section}
  BY SectionsAndHolders DEF OwnCellsInv
<1>5. /\ IsTable(cell')
      /\ \A s \in Section : cell'["store"][s] = cell["store"][s]
      /\ \A h \in Holder, s \in Section : cell'[h][s] \in {Junk, cell[h][s]}
  BY <1>4, SectionsAndHolders DEF Scribble, IsTable
<1>6. Shaped(Junk)
  BY DEF Junk, Shaped
<1>7. ValuesInv'
  BY <1>1, <1>5, <1>6 DEF ValuesInv
<1>8. QueueInv'
  BY <1>1 DEF QueueInv, Newest
<1>9. NewsInv'
  BY <1>1, <1>2, <1>5, SectionsAndHolders, NewsStay
<1>10. StoreStays
  BY <1>1, <1>5 DEF StoreStays
<1>11. QED
  BY <1>2, <1>3, <1>7, <1>8, <1>9, <1>10

\* A batch leaves the queue.
LEMMA Popped ==
  ASSUME queue \in Seq(Batches), queue # <<>>, queue' = Tail(queue)
  PROVE  /\ queue' \in Seq(Batches) /\ Head(queue) \in Batches
         /\ 1 \in DOMAIN queue /\ queue[1] = Head(queue) /\ \A k \in DOMAIN queue : k \in Nat /\ k >= 1
         /\ \A k \in DOMAIN queue' : k \in Nat /\ k + 1 \in DOMAIN queue /\ queue'[k] = queue[k + 1]
         /\ \A k \in DOMAIN queue : k # 1 => k - 1 \in DOMAIN queue' /\ queue[k] = queue'[k - 1]
<1> DEFINE n == Len(queue)
<1>1. n \in Nat /\ n # 0 /\ DOMAIN queue = 1..n
  OBVIOUS
<1>2. queue' \in Seq(Batches) /\ DOMAIN queue' = 1..(n - 1) /\ \A k \in 1..(n - 1) : queue'[k] = queue[k + 1]
  BY <1>1
<1>3. Head(queue) \in Batches /\ queue[1] = Head(queue)
  BY <1>1
<1> HIDE DEF n
<1>4. /\ 1 \in 1..n
      /\ \A k \in 1..n : k \in Nat /\ k >= 1 /\ (k # 1 => k - 1 \in 1..(n - 1) /\ (k - 1) + 1 = k)
      /\ \A k \in 1..(n - 1) : k \in Nat /\ k + 1 \in 1..n
  BY ONLY <1>1
<1>5. \A k \in 1..n : k # 1 => queue[k] = queue'[k - 1]
  BY <1>2, <1>4
<1>6. QED
  BY ONLY <1>1, <1>2, <1>3, <1>4, <1>5

\* A message is applied: its sections hold what it brings last.
LEMMA ApplyKeeps ==
  ASSUME StoreInv, Apply
  PROVE  StoreInv'
<1> USE DEF StoreInv
<1> DEFINE batch == Head(queue)
           touched == {batch[i].section : i \in DOMAIN batch} \cap Section
           after == [s \in Section |-> apply(batch, s)]
<1>1. /\ HasStore /\ queue # <<>> /\ queue' = Tail(queue) /\ updated' = updated \cup touched
      /\ field' = [h \in Holder |->
             CASE h \in {"store", "copy"} -> [s \in Section |-> after[s][1]]
               [] OTHER -> field[h]]
      /\ at' = [at EXCEPT !["store"] = [s \in Section |-> IF s \in touched THEN "store" ELSE @[s]],
                          !["copy"] = [s \in Section |-> "copy"]]
      /\ cell' = [cell EXCEPT
             !["store"] = [s \in Section |-> IF s \in touched THEN after[s][2] ELSE @[s]],
             !["copy"] = [s \in Section |-> cloneValue(after[s][2])],
             !["message"] = [s \in Section |-> IF s \in touched THEN after[s][2] ELSE Zero]]
      /\ UNCHANGED <<device, asked, result>>
  BY DEF Apply, collectVars
<1>2. /\ queue' \in Seq(Batches) /\ batch \in Batches
      /\ 1 \in DOMAIN queue /\ queue[1] = batch /\ \A k \in DOMAIN queue : k \in Nat /\ k >= 1
      /\ \A k \in DOMAIN queue' : k \in Nat /\ k + 1 \in DOMAIN queue /\ queue'[k] = queue[k + 1]
      /\ \A k \in DOMAIN queue : k # 1 => k - 1 \in DOMAIN queue' /\ queue[k] = queue'[k - 1]
  BY <1>1, Popped DEF QueueInv
<1> HIDE DEF batch
<1>3. ASSUME NEW s \in Section
      PROVE  /\ s \notin touched => after[s] = <<field["store"][s], cell["store"][s]>>
             /\ s \in touched =>
                  \E i \in DOMAIN batch :
                    /\ batch[i].section = s /\ \A j \in DOMAIN batch : j > i => batch[j].section # s
                    /\ after[s] = <<present, fromProto(s, batch[i].reading)>>
  <2>1. Value("store", s) = cell["store"][s] /\ after[s] = apply(batch, s)
    BY <1>1, SectionsAndHolders, OwnValue
  <2>2. QED
    BY <1>2, <1>3, <2>1, Applied
<1> DEFINE f(s) == after[s][1]
           v(s) == after[s][2]
<1>4. ASSUME NEW s \in Section
      PROVE  /\ f(s) \in Fields /\ Shaped(v(s))
             /\ s \notin touched => f(s) = field["store"][s] /\ v(s) = cell["store"][s]
             /\ s \in touched => f(s) = present
  <2>1. present \in Fields
    BY DEF present, Field, Fields
  <2>2. field["store"][s] \in Fields /\ Shaped(cell["store"][s])
    BY SectionsAndHolders DEF ValuesInv
  <2>3. CASE s \notin touched
    BY <1>3, <2>2, <2>3
  <2>4. CASE s \in touched
    BY <1>3, <2>1, <2>4, ValuesShaped
  <2>5. QED
    BY <2>3, <2>4
<1>5. /\ \A s \in Section :
           /\ field'["store"][s] = f(s) /\ field'["copy"][s] = f(s)
           /\ cell'["store"][s] = v(s)
           /\ cell'["copy"][s] = cloneValue(v(s))
           /\ cell'["message"][s] \in {v(s), Zero}
      /\ field'["initial"] = field["initial"] /\ cell'["initial"] = cell["initial"]
  BY <1>1, <1>4, SectionsAndHolders DEF ValuesInv, IsTable
<1>6. field' \in [Holder -> [Section -> Fields]] /\ IsTable(cell')
  BY <1>1, <1>4, SectionsAndHolders DEF ValuesInv, IsTable
<1>7. ValuesInv'
  <2>1. ASSUME NEW h \in Holder, NEW s \in Section PROVE Shaped(cell'[h][s])
    <3>1. Shaped(v(s)) /\ Shaped(cloneValue(v(s))) /\ Shaped(Zero) /\ Shaped(cell["initial"][s])
      BY <1>4, CloneKeeps, ValuesShaped, SectionsAndHolders DEF ValuesInv
    <3>2. QED
      BY <1>5, <3>1, SectionsAndHolders
  <2>2. QED
    BY <1>1, <1>6, <2>1 DEF ValuesInv
<1>8. at' = at /\ HasStore'
  <2>1. \A s \in Section : at["store"][s] = "store" /\ at["copy"][s] = "copy"
    BY <1>1, SectionsAndHolders DEF OwnCellsInv
  <2>2. at \in [Holder -> [Section -> Holder \cup {"none"}]]
    BY DEF OwnCellsInv
  <2>3. at' = at
    BY <1>1, <2>1, <2>2, SectionsAndHolders
  <2>4. QED
    BY <1>1, <2>3 DEF HasStore
<1>9. OwnCellsInv'
  BY <1>1, <1>8, OwnCellsStay
<1>10. CollectInv'
  <2>1. ASSUME NEW s \in Section
        PROVE  field'["store"][s] = IF s \in updated' THEN present ELSE field'["initial"][s]
    <3>1. s \in updated' <=> s \in updated \/ s \in touched
      BY <1>1
    <3>2. field["store"][s] = IF s \in updated THEN present ELSE field["initial"][s]
      BY <1>1 DEF CollectInv
    <3>3. field'["store"][s] = (IF s \in touched THEN present ELSE field["store"][s])
          /\ field'["initial"] = field["initial"]
      BY <1>4, <1>5
    <3>4. QED
      BY ONLY <3>1, <3>2, <3>3
  <2>2. updated' \subseteq Section
    BY <1>1 DEF CollectInv
  <2>3. QED
    <3>1. /\ CollectInv /\ UNCHANGED <<asked, result>> /\ HasStore /\ HasStore'
          /\ field'["initial"] = field["initial"]
      BY <1>1, <1>5, <1>8
    <3>2. QED
      BY ONLY <2>1, <2>2, <3>1 DEF CollectInv
<1>11. ASSUME NEW s \in Streamed, NEW k \in DOMAIN queue', NEW i \in DOMAIN queue'[k], Newest(k, i, s)'
       PROVE  queue'[k][i].reading = device'[s]
  <2>1. k + 1 \in DOMAIN queue /\ queue[k + 1] = queue'[k] /\ k \in Nat
    BY <1>2
  <2>2. ASSUME NEW l \in DOMAIN queue, NEW j \in DOMAIN queue[l], l > k + 1 \/ (l = k + 1 /\ j > i)
        PROVE  queue[l][j].section # s
    <3>1. l \in Nat /\ l # 1 /\ (l - 1 > k \/ (l - 1 = k /\ j > i))
      BY <1>2, <2>1, <2>2
    <3>2. l - 1 \in DOMAIN queue' /\ queue[l] = queue'[l - 1]
      BY <1>2, <3>1
    <3>3. QED
      BY <1>11, <2>2, <3>1, <3>2 DEF Newest
  <2>3. Newest(k + 1, i, s)
    BY <1>11, <2>1, <2>2 DEF Newest
  <2>4. QED
    BY <1>1, <2>1, <2>3 DEF QueueInv
<1>12. QueueInv'
  BY <1>2, <1>11 DEF QueueInv
<1>13. ASSUME NEW s \in Streamed, ~Awaited(s)' PROVE Agrees("store", s)'
  <2>1. s \in Section
    BY SectionsAndHolders
  <2>2. \A k \in DOMAIN queue : k # 1 => \A i \in DOMAIN queue[k] : queue[k][i].section # s
    BY <1>2, <1>13 DEF Awaited
  <2>3. CASE s \in touched
    <3>1. PICK i \in DOMAIN batch :
            /\ batch[i].section = s /\ \A j \in DOMAIN batch : j > i => batch[j].section # s
            /\ after[s] = <<present, fromProto(s, batch[i].reading)>>
      BY <1>3, <2>1, <2>3
    <3>2. Newest(1, i, s)
      BY <1>2, <2>2, <3>1 DEF Newest
    <3>3. batch[i].reading = device[s]
      BY <1>2, <3>1, <3>2 DEF QueueInv
    <3>4. cell'["store"][s] = fromProto(s, device'[s])
      <4>1. after[s][2] = fromProto(s, batch[i].reading)
        BY <3>1
      <4>2. QED
        BY <1>1, <1>5, <2>1, <3>3, <4>1
    <3>5. QED
      BY <3>4 DEF Agrees
  <2>4. CASE s \notin touched
    <3>1. ~Awaited(s)
      BY <1>2, <2>1, <2>2, <2>4 DEF Awaited
    <3>2. Agrees("store", s)
      BY <1>1, <3>1 DEF NewsInv
    <3>3. QED
      BY <1>1, <1>4, <1>5, <2>1, <2>4, <3>2 DEF Agrees
  <2>5. QED
    BY <2>3, <2>4
<1>14. NewsInv'
  BY <1>8, <1>13 DEF NewsInv
<1>15. QED
  BY <1>7, <1>9, <1>10, <1>12, <1>14

\* Every step keeps the invariant, and only a batch changes what the Store means.
LEMMA StoreSteps ==
  ASSUME StoreInv, [Next]_vars
  PROVE  /\ StoreInv'
         /\ HasStore => StoreStays \/ (queue # <<>> /\ queue' = Tail(queue))
<1>1. ASSUME NEW s \in Section, Change(s) PROVE StoreInv' /\ StoreStays
  BY <1>1, ChangeKeeps DEF Change, StoreStays
<1>2. CASE PushUnknown
  BY <1>2, PushUnknownKeeps DEF PushUnknown, StoreStays
<1>3. CASE CollectNext
  BY <1>3, CollectNextKeeps DEF CollectNext, StoreInv, CollectInv
<1>4. CASE Cancel
  BY <1>4, CancelKeeps DEF Cancel, StoreStays
<1>5. CASE NewStore
  BY <1>5, NewStoreKeeps DEF NewStore
<1>6. CASE Apply
  BY <1>6, ApplyKeeps DEF Apply
<1>7. CASE Snapshot
  BY <1>7, SnapshotKeeps
<1>8. CASE Scribble
  BY <1>8, ScribbleKeeps
<1>9. CASE UNCHANGED vars
  <2>1. UNCHANGED <<device, queue, asked, result, field, at, cell, updated>>
    BY <1>9 DEF vars
  <2>2. OwnCellsInv' /\ (HasStore' <=> HasStore)
    BY <2>1, OwnCellsStay DEF StoreInv
  <2>3. CollectInv' /\ NewsInv'
    BY <2>1, <2>2, CollectStays, NewsStay DEF StoreInv
  <2>4. ValuesInv' /\ QueueInv'
    BY <2>1 DEF StoreInv, ValuesInv, IsTable, QueueInv, Newest
  <2>5. QED
    BY <2>1, <2>2, <2>3, <2>4 DEF StoreInv, StoreStays
<1>10. QED
  BY <1>1, <1>2, <1>3, <1>4, <1>5, <1>6, <1>7, <1>8, <1>9 DEF Next

\* A Store, once made, stays.
LEMMA StoreRemains ==
  ASSUME OwnCellsInv, [Next]_vars, HasStore
  PROVE  HasStore'
<1>1. CASE UNCHANGED at
  BY <1>1 DEF HasStore
<1>2. CASE Snapshot
  BY <1>2, SectionsAndHolders DEF Snapshot, cloneSnapshot, HasStore, OwnCellsInv
<1>3. CASE Apply
  <2>1. PICK S : at' = [at EXCEPT !["store"] = [s \in Section |-> IF s \in S THEN "store" ELSE @[s]],
                                  !["copy"] = [s \in Section |-> "copy"]]
    BY <1>3 DEF Apply
  <2>2. at'["store"] = [s \in Section |-> IF s \in S THEN "store" ELSE at["store"][s]]
    BY <2>1, SectionsAndHolders DEF OwnCellsInv
  <2>3. at["store"] = [s \in Section |-> "store"]
    BY SectionsAndHolders DEF OwnCellsInv
  <2>4. at'["store"] = at["store"]
    BY <2>2, <2>3
  <2>5. QED
    BY <2>4 DEF HasStore
<1>4. QED
  BY <1>1, <1>2, <1>3 DEF Next, Change, PushUnknown, CollectNext, Cancel, NewStore, Scribble, vars

-----------------------------------------------------------------------------
(***************************************************************************)
(* The report of a batch.                                                  *)
(***************************************************************************)
\* Only a Wi-Fi section gets a Wi-Fi value from the stream.
LEMMA OnlyWiFiIsCopied ==
  ASSUME NEW s, s # "wifi", NEW r
  PROVE  cloneValue(fromProto(s, r)) = fromProto(s, r)
<1>1. fromProto(s, r).kind # "wifi"
  BY DEF fromProto, powerFromProto, brightnessFromProto, bleFromProto, Plain
<1>2. QED
  BY <1>1 DEF cloneValue

\* What is reported is a report of the Store that exists.
ReportInv == was # <<>> => HasStore /\ ReportIsExact

\* A batch is reported exactly: the report is the list of the sections that differ from
\* the clone made before it.
LEMMA ApplyReports ==
  ASSUME StoreInv, StoreInv', Apply
  PROVE  HasStore' /\ ReportIsExact'
<1> USE DEF StoreInv
<1> DEFINE batch == Head(queue)
           touched == {batch[i].section : i \in DOMAIN batch} \cap Section
           after == [s \in Section |-> apply(batch, s)]
           old(s) == <<field["store"][s], cloneValue(cell["store"][s])>>
           named == {s \in touched : old(s) # after[s]}
<1>1. /\ HasStore /\ queue # <<>> /\ queue' = Tail(queue)
      /\ report' = changedSections(touched, after)
      /\ was' = [s \in Section |-> Held("store", s)]
      /\ field' = [h \in Holder |->
             CASE h \in {"store", "copy"} -> [s \in Section |-> after[s][1]]
               [] OTHER -> field[h]]
      /\ at' = [at EXCEPT !["store"] = [s \in Section |-> IF s \in touched THEN "store" ELSE @[s]],
                          !["copy"] = [s \in Section |-> "copy"]]
      /\ cell' = [cell EXCEPT
             !["store"] = [s \in Section |-> IF s \in touched THEN after[s][2] ELSE @[s]],
             !["copy"] = [s \in Section |-> cloneValue(after[s][2])],
             !["message"] = [s \in Section |-> IF s \in touched THEN after[s][2] ELSE Zero]]
  BY DEF Apply
<1>2. batch \in Batches
  BY <1>1, Popped DEF QueueInv
<1>3. HasStore'
  <2>1. \A s \in Section : at'["store"][s] = "store"
    BY <1>1, SectionsAndHolders DEF OwnCellsInv
  <2>2. \E s \in Section : TRUE
    BY <1>1, StoreExists DEF OwnCellsInv
  <2>3. QED
    BY <2>1, <2>2 DEF HasStore
<1> HIDE DEF batch
<1>4. \A s \in Section : Value("store", s) = cell["store"][s] /\ after[s] = apply(batch, s)
  BY <1>1, SectionsAndHolders, OwnValue
<1>5. ASSUME NEW s \in Section
      PROVE  /\ s \notin touched => after[s] = <<field["store"][s], cell["store"][s]>>
             /\ s \in touched => \E r : after[s] = <<present, fromProto(s, r)>>
  BY <1>2, <1>4, Applied
<1>6. ASSUME NEW s \in Section
      PROVE  /\ Meant("store", s)' = <<after[s][1], cloneValue(after[s][2])>>
             /\ <<was'[s][1], Meaning(was'[s][2])>> = old(s)
  <2>1. field'["store"][s] = after[s][1]
    BY <1>1, SectionsAndHolders
  <2>2. cell'["store"][s] = IF s \in touched THEN after[s][2] ELSE cell["store"][s]
    BY <1>1, SectionsAndHolders DEF ValuesInv, IsTable
  <2>3. cell'["store"][s] = after[s][2]
    BY <1>5, <2>2
  <2>4. at'["store"][s] = "store"
    BY <1>3 DEF OwnCellsInv
  <2>5. Meant("store", s)' = <<field'["store"][s], cloneValue(cell'["store"][s])>>
    BY <2>4 DEF Meant, Meaning, Value
  <2>6. <<was'[s][1], Meaning(was'[s][2])>> = old(s)
    BY <1>1, <1>4 DEF Held, Meaning
  <2>7. QED
    BY <2>1, <2>3, <2>5, <2>6
<1> DEFINE new(s) == <<after[s][1], cloneValue(after[s][2])>>
<1>7. Differing' = {s \in Section : new(s) # old(s)}
  BY <1>6 DEF Differing
<1>8. report' = Among(streamSectionOrder, named)
  <2>1. {s \in touched : <<field["store"][s], cloneValue(Value("store", s))>> # after[s]} = named
    BY <1>4
  <2>2. QED
    BY <1>1, <2>1 DEF changedSections
<1>9. touched \subseteq ToSet(streamSectionOrder)
  <2>1. ASSUME NEW i \in DOMAIN batch, batch[i].section \in Section
        PROVE  batch[i].section \in Streamed
    <3>1. batch[i] \in Sent
      BY <1>2 DEF Batches
    <3>2. batch[i] # Unknown
      BY <2>1, UnknownIsNone, WhatIsSent
    <3>3. PICK s \in Streamed : \E r \in Reading(s) : batch[i] = Update(s, r)
      BY <3>1, <3>2 DEF Sent
    <3>4. QED
      BY <3>3 DEF Update
  <2>2. QED
    BY <2>1 DEF Streamed
<1>10. ASSUME NEW s \in Section
       PROVE  /\ s \notin touched => new(s) = old(s)
              /\ s \in touched /\ s # "wifi" => new(s) = after[s]
              /\ new(s) # old(s) => old(s) # after[s]
  <2>1. Shaped(cell["store"][s])
    BY SectionsAndHolders DEF ValuesInv
  <2>2. CASE s \notin touched
    BY <1>5, <2>2
  <2>3. CASE s \in touched
    <3>1. PICK r : after[s] = <<present, fromProto(s, r)>>
      BY <1>5, <2>3
    <3>2. s # "wifi" => new(s) = after[s]
      BY <3>1, OnlyWiFiIsCopied
    <3>3. old(s) = after[s] => new(s) = old(s)
      BY <2>1, <3>1, CloneKeeps
    <3>4. QED
      BY <2>3, <3>2, <3>3
  <2>4. QED
    BY <2>2, <2>3
<1> HIDE DEF after, old, new, touched
<1>11. /\ ToSet(report') = named
       /\ \A i, j \in DOMAIN report' : i < j => Before(streamSectionOrder, report'[i], report'[j])
  <2>1. streamSectionOrder \in Seq(ToSet(streamSectionOrder))
    BY DEF streamSectionOrder, ToSet
  <2>2. named \cap ToSet(streamSectionOrder) = named
    BY <1>9
  <2> HIDE DEF named
  <2>3. QED
    BY <1>8, <2>1, <2>2, AmongFinds
<1>12. touched \subseteq Section
  BY DEF touched
<1>13. named \ {"wifi"} = Differing' \ {"wifi"} /\ ("wifi" \in Differing' => "wifi" \in named)
  <2>1. ASSUME NEW s, s \in Differing' PROVE s \in named
    BY <1>7, <1>10, <2>1
  <2>2. ASSUME NEW s, s \in named, s # "wifi" PROVE s \in Differing'
    BY <1>7, <1>10, <1>12, <2>2
  <2>3. QED
    BY <2>1, <2>2
<1>14. ReportIsExact'
  BY <1>11, <1>13 DEF ReportIsExact
<1>15. QED
  BY <1>3, <1>14

\* Any other step leaves the report and what the Store means alone.
LEMMA ReportStays ==
  ASSUME StoreInv, HasStore, [Next]_vars, ~Apply
  PROVE  StoreStays /\ UNCHANGED <<report, was>>
<1>1. ASSUME NEW s \in Section, Change(s) PROVE StoreStays /\ UNCHANGED <<report, was>>
  BY <1>1 DEF Change, StoreStays, history
<1>2. CASE PushUnknown
  BY <1>2 DEF PushUnknown, StoreStays, history
<1>3. CASE CollectNext
  BY <1>3 DEF CollectNext, StoreInv, CollectInv
<1>4. CASE Cancel
  BY <1>4 DEF Cancel, StoreStays, history
<1>5. CASE NewStore
  BY <1>5 DEF NewStore
<1>6. CASE Snapshot
  BY <1>6, SnapshotKeeps DEF Snapshot, history
<1>7. CASE Scribble
  BY <1>7, ScribbleKeeps DEF Scribble, history
<1>8. CASE UNCHANGED vars
  BY <1>8 DEF vars, StoreStays
<1>9. QED
  BY <1>1, <1>2, <1>3, <1>4, <1>5, <1>6, <1>7, <1>8 DEF Next

-----------------------------------------------------------------------------
(***************************************************************************)
(* What the Store promises.                                                *)
(***************************************************************************)
\* The fields, cells and messages on their way stay consistent with each other and with
\* the device.
THEOREM StoreInvariance == Spec => []StoreInv
<1>1. Init => StoreInv
  BY StoreInits
<1>2. StoreInv /\ [Next]_vars => StoreInv'
  BY StoreSteps
<1>3. QED
  BY <1>1, <1>2, PTL DEF Spec

\* Store's state changes when a batch is applied and at no other time, whatever the
\* application writes through what it holds (NewStore, Snapshot, Apply).
THEOREM StateIsPrivate == Spec => StoreIsPrivate
<1>1. ASSUME StoreInv, StoreInv', [Next]_vars,
             HasStore, HasStore', \E s \in Section : Meant("store", s)' # Meant("store", s)
      PROVE  queue # <<>> /\ queue' = Tail(queue)
  <2>1. CASE StoreStays
    <3>1. ASSUME NEW s \in Section PROVE Meant("store", s)' = Meant("store", s)
      <4>1. at["store"][s] = "store" /\ at'["store"][s] = "store"
        BY <1>1 DEF StoreInv, OwnCellsInv
      <4>2. QED
        BY <2>1, <4>1 DEF Meant, Value, StoreStays
    <3>2. QED
      BY <1>1, <3>1
  <2>2. QED
    BY <1>1, <2>1, StoreSteps
<1>2. StoreInv /\ StoreInv' /\ [Next]_vars
        => [HasStore /\ (\E s \in Section : Meant("store", s)' # Meant("store", s))
              => queue # <<>> /\ queue' = Tail(queue)]_vars
  BY <1>1, StoreRemains DEF StoreInv
<1>3. QED
  BY <1>2, StoreInvariance, PTL DEF Spec, StoreIsPrivate

\* Change.Sections names the sections that a batch changed, in stream order and once
\* each, and none that it did not change, Wi-Fi excepted (changedSections, Apply).
THEOREM ReportsAreExact == Spec => []ReportIsExact
<1>1. Init => ReportInv
  BY DEF Init, ReportInv
<1>2. ASSUME StoreInv, StoreInv', ReportInv, [Next]_vars PROVE ReportInv'
  <2>1. CASE Apply
    BY <1>2, <2>1, ApplyReports DEF ReportInv
  <2>2. CASE ~Apply /\ HasStore
    <3>1. StoreStays /\ UNCHANGED <<report, was>> /\ HasStore'
      BY <1>2, <2>2, ReportStays, StoreRemains DEF StoreInv
    <3>2. ASSUME NEW s \in Section PROVE Meant("store", s)' = Meant("store", s)
      <4>1. at["store"][s] = "store" /\ at'["store"][s] = "store"
        BY <1>2, <2>2, <3>1 DEF StoreInv, OwnCellsInv
      <4>2. QED
        BY <3>1, <4>1 DEF Meant, Value, StoreStays
    <3>3. Differing' = Differing
      BY <3>1, <3>2 DEF Differing
    <3>4. QED
      BY <1>2, <3>1, <3>3 DEF ReportInv, ReportIsExact
  <2>3. CASE ~Apply /\ ~HasStore
    <3>1. UNCHANGED was
      BY <1>2, <2>3 DEF Next, Change, PushUnknown, CollectNext, Cancel, NewStore, Snapshot, Scribble, vars, history
    <3>2. QED
      BY <1>2, <2>3, <3>1 DEF ReportInv
  <2>4. QED
    BY <2>1, <2>2, <2>3
<1>3. ReportInv => ReportIsExact
  BY DEF ReportInv, ReportIsExact
<1>4. QED
  BY <1>1, <1>2, <1>3, StoreInvariance, PTL DEF Spec

\* Every failure is on the section of the endpoint that failed, until the stream brings
\* the section (Collect, Failures, Store.Apply).
THEOREM FailuresKept == Spec => []FailuresAccountFor
<1>1. ASSUME StoreInv PROVE FailuresAccountFor
  <2>1. CollectInv /\ Collected \subseteq Section
    BY <1>1, SectionsAndHolders DEF StoreInv
  <2>2. NoField.err = nil /\ present.err = nil /\ present.present = TRUE /\ NoField.present = FALSE
    BY DEF NoField, present, Field
  <2>3. ASSUME result = "nil"
        PROVE  /\ \A s \in Collected : field["initial"][s].present # (s \in Failures(field["initial"]))
               /\ Complete(field["initial"]) <=> Failures(field["initial"]) = {}
    <3>1. asked = Collected /\ \A s \in Collected : field["initial"][s].present # (field["initial"][s].err # nil)
      BY <2>1, <2>3 DEF CollectInv
    <3>2. \A s \in Section \ Collected : field["initial"][s].err = nil
      BY <2>1, <2>2, <3>1 DEF CollectInv
    <3>3. \A s \in Section : s \in Failures(field["initial"]) <=> field["initial"][s].err # nil
      BY DEF Failures
    <3>4. Failures(field["initial"]) \subseteq Section
      BY DEF Failures
    <3>5. \A s \in Collected : field["initial"][s].present # (s \in Failures(field["initial"]))
      BY <2>1, <3>1, <3>3
    <3>6. Complete(field["initial"]) <=> \A s \in Collected : s \notin Failures(field["initial"])
      <4>1. \A s \in Collected : field["initial"][s] \in Fields
        BY <1>1, SectionsAndHolders DEF StoreInv, ValuesInv
      <4>2. \A s \in Collected : field["initial"][s].present \in BOOLEAN
        BY <4>1 DEF Fields
      <4>3. \A s \in Collected : field["initial"][s].present <=> s \notin Failures(field["initial"])
        BY <3>5, <4>2
      <4>4. QED
        BY <4>3, Zenon DEF Complete
    <3>7. Failures(field["initial"]) \subseteq Collected
      BY <3>2, <3>3, <3>4
    <3>8. QED
      BY <3>5, <3>6, <3>7
  <2>4. ASSUME HasStore
        PROVE  /\ Failures(field["store"]) = Failures(field["initial"]) \ updated
               /\ \A s \in Section :
                    field["store"][s].present <=> field["initial"][s].present \/ s \in updated
    BY <2>1, <2>2, <2>4 DEF CollectInv, Failures
  <2>5. QED
    BY <2>3, <2>4 DEF FailuresAccountFor
<1>2. QED
  BY <1>1, StoreInvariance, PTL

\* Once every message is applied, a streamed section the Store holds is the device's: all
\* that the stream carries of it once the stream has brought it, and what HTTP carries
\* of it until then (Collect, Store.Apply and the two decoders).
THEOREM StoreCatchesUp == Spec => []CaughtUp
<1>1. ASSUME StoreInv PROVE CaughtUp
  <2>1. ASSUME HasStore, queue = <<>>, NEW s \in Streamed, field["store"][s].present
        PROVE  IF s \in updated THEN Meaning(Value("store", s)) = Meaning(fromProto(s, device[s]))
                                ELSE Common(Value("store", s)) = Common(fromProto(s, device[s]))
    <3>1. ~Awaited(s)
      BY <2>1 DEF Awaited
    <3>2. Agrees("store", s)
      BY <1>1, <2>1, <3>1 DEF StoreInv, NewsInv
    <3>3. Value("store", s) = cell["store"][s]
      BY <1>1, <2>1, SectionsAndHolders, OwnValue DEF StoreInv
    <3>4. QED
      BY <2>1, <3>2, <3>3 DEF Agrees
  <2>2. QED
    BY <2>1 DEF CaughtUp
<1>2. QED
  BY <1>1, StoreInvariance, PTL

-----------------------------------------------------------------------------
(***************************************************************************)
(* The one-slot channel.                                                   *)
(***************************************************************************)
USE WriterAssumption, WritesAssumption DEF Delivered

\* Each step of a writer or of the consumer keeps the invariant.
LEMMA ChannelStep == ChannelInv /\ [ChannelNext]_channelVars => ChannelInv'
<1>. SUFFICES ASSUME ChannelInv, [ChannelNext]_channelVars PROVE ChannelInv' OBVIOUS
<1>. USE DEF ChannelInv, ChannelTypeOK, Step
<1>1. ASSUME NEW w \in Writer, SetStatus(w) PROVE ChannelInv'
  BY <1>1, SMTT(30) DEF SetStatus, ChangeStatus
<1>2. ASSUME NEW w \in Writer, FinishOnce(w) PROVE ChannelInv'
  BY <1>2, SMTT(30) DEF FinishOnce, ChangeStatus
<1>3. ASSUME NEW w \in Writer, Send(w) PROVE ChannelInv'
  BY <1>3, SMTT(30) DEF Send
<1>4. ASSUME NEW w \in Writer, Drain(w) PROVE ChannelInv'
  BY <1>4, SMTT(30) DEF Drain
<1>5. ASSUME NEW w \in Writer, Resend(w) PROVE ChannelInv'
  BY <1>5, SMTT(30) DEF Resend
<1>6. ASSUME NEW w \in Writer, Unlock(w) PROVE ChannelInv'
  BY <1>6, SMTT(30) DEF Unlock
<1>7. CASE Receive
  BY <1>7, SMTT(30) DEF Receive
<1>8. CASE SeeClose
  BY <1>8, SMTT(30) DEF SeeClose
<1>9. CASE UNCHANGED channelVars
  BY <1>9 DEF channelVars
<1>. QED BY <1>1, <1>2, <1>3, <1>4, <1>5, <1>6, <1>7, <1>8, <1>9 DEF ChannelNext, Publish

\* The slot and the consumer agree with the point the publication has reached.
THEOREM ChannelInvariance == ChannelSpec => []ChannelInv
<1>1. ChannelInit => ChannelInv
  <2>. SUFFICES ASSUME ChannelInit PROVE ChannelInv OBVIOUS
  <2>1. 0 \in 0..status /\ slot = {0} /\ status = 0 /\ seen = -1 BY DEF ChannelInit
  <2>2. ChannelTypeOK
    <3>1. \E n \in 0..status : slot = {n} BY <2>1
    <3>2. status \in Nat /\ seen \in Int /\ seen <= status BY <2>1
    <3>3. finished \in BOOLEAN /\ closed \in BOOLEAN /\ sawClose \in BOOLEAN
      BY Zenon DEF ChannelInit
    <3>4. /\ mu \in Writer \cup {None}
          /\ pc \in [Writer -> {"idle", "send", "drain", "resend", "publish"}]
      BY DEF ChannelInit
    <3>. QED BY <3>1, <3>2, <3>3, <3>4, Zenon DEF ChannelTypeOK
  <2>3. \A w \in Writer : pc[w] = "idle" BY DEF ChannelInit
  <2>. QED BY <2>1, <2>2, <2>3 DEF ChannelInit, ChannelInv
<1>. QED BY <1>1, ChannelStep, PTL DEF ChannelSpec

\* The last snapshot published is in the channel or with the consumer.
THEOREM LatestNeverLost == ChannelSpec => []LatestReachable
<1>1. ChannelInv => LatestReachable BY DEF ChannelInv, LatestReachable
<1>. QED BY <1>1, ChannelInvariance, PTL

\* SetStatus and Finish never send on the closed channel.
THEOREM ClosedChannelSafe == ChannelSpec => []NoSendAfterClose
<1>1. ChannelInv => NoSendAfterClose BY DEF ChannelInv, NoSendAfterClose
<1>. QED BY <1>1, ChannelInvariance, PTL

\* The consumer never receives a snapshot older than, or equal to, the last.
THEOREM ReceivedInOrder == ChannelSpec => SeenInOrder
<1>1. ChannelInv /\ [ChannelNext]_channelVars => [Receive => seen' > seen]_channelVars
  <2>. SUFFICES ASSUME ChannelInv, Receive PROVE seen' > seen OBVIOUS
  <2>1. seen' \in slot BY DEF Receive
  <2>2. CASE mu = None BY <2>1, <2>2 DEF ChannelInv, ChannelTypeOK
  <2>3. CASE mu # None
    <3>1. mu \in Writer /\ pc[mu] # "idle" BY <2>3 DEF ChannelInv, ChannelTypeOK
    <3>. QED BY <2>1, <3>1 DEF ChannelInv, ChannelTypeOK
  <2>. QED BY <2>2, <2>3
<1>. QED BY <1>1, ChannelInvariance, PTL DEF ChannelSpec, SeenInOrder
=============================================================================
