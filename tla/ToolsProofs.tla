---------------------------- MODULE ToolsProofs ----------------------------
(***************************************************************************)
(* The tools for any number of devices and outputs: what airspyhf_info     *)
(* reports, and what airspyhf_gpio has set when it returns success.        *)
(***************************************************************************)
EXTENDS Tools, SequenceTheorems, TLAPS

(* Which tool is where. *)
PlaceInv ==
  /\ step \in {"count", "one", "list"} => n = 0 /\ reported = <<>>
  /\ step = "one" => wanted # NoDevice
  /\ step \in {"list", "each"} => wanted = NoDevice
  /\ step \in {"list", "each"} => tool # "calibrate"
  /\ step = "calibrate" => tool = "calibrate"
  /\ step = "pins" => tool = "gpio"

(* The numbers of the second listing, and those reported. *)
ListInv ==
  /\ step = "each" =>
       /\ n \in 1 .. ndev + 1
       /\ \A i \in 1 .. ndev :
            serials[i] = IF i \in 1 .. Len(listed) THEN listed[i] ELSE NoDevice
       /\ tool = "info" => Len(reported) = n - 1
  /\ tool # "info" => reported = <<>>
  /\ (wanted = NoDevice /\ Len(listed) = ndev) =>
       /\ Len(reported) <= ndev
       /\ \A i \in 1 .. Len(reported) : reported[i] = listed[i]

(* The outputs set so far. *)
PinsInv ==
  /\ step = "pins" =>
       /\ n \in 0 .. Pins
       /\ dev # NoDevice => \A p \in 0 .. n - 1 : output[dev][p] = asked[p]
  /\ OutputsSet

ToolInv == TypeOK /\ PlaceInv /\ ListInv /\ PinsInv

LEMMA EmptyType == \A S : <<>> \in Seq(S)
  OBVIOUS

LEMMA AppendType ==
  ASSUME NEW S, NEW s \in Seq(S), NEW x \in S
  PROVE  /\ Append(s, x) \in Seq(S) /\ Len(Append(s, x)) = Len(s) + 1
         /\ \A i \in 1 .. Len(s) : Append(s, x)[i] = s[i]
         /\ Append(s, x)[Len(s) + 1] = x
  OBVIOUS

LEMMA OpenableIs ==
  ASSUME NEW serial, NEW d \in Openable(serial), plugged \subseteq Devices
  PROVE  d \in Devices /\ (serial # NoDevice => d = serial)
  BY DEF Openable

LEMMA ListingIs ==
  ASSUME plugged \subseteq Devices, NEW l \in Listings, NEW count \in Nat
  PROVE  /\ Cut(l, count) \in Seq(Devices) /\ Len(Cut(l, count)) <= count
         /\ DOMAIN Cut(l, count) = 1 .. Len(Cut(l, count))
<1>1. PICK k \in 0 .. Cardinality(plugged) : l \in [1 .. k -> plugged]
  BY DEF Listings
<1>2. k \in Nat
  BY <1>1
<1>3. l \in Seq(Devices)
  BY <1>1, <1>2
<1> DEFINE cut == IF Len(l) < count THEN Len(l) ELSE count
<1>4. cut \in 0 .. Len(l) /\ cut <= count
  BY <1>3, LenProperties
<1>5. SubSeq(l, 1, cut) \in Seq(Devices) /\ Len(SubSeq(l, 1, cut)) = cut
  BY <1>3, <1>4, SubSeqProperties
<1> QED
  BY <1>4, <1>5, LenProperties DEF Cut

LEMMA ToolInit == Init => ToolInv
<1> SUFFICES ASSUME Init PROVE ToolInv
  OBVIOUS
<1> USE DEF Init
<1>1. TypeOK
  <2>1. \A s \in States : [p \in 0 .. Pins - 1 |-> s] \in Outputs
    BY DEF Outputs
  <2>2. output \in [Devices -> Outputs]
    <3>1. ASSUME NEW d \in Devices PROVE output[d] \in Outputs
      <4>1. PICK s \in States : output[d] = [p \in 0 .. Pins - 1 |-> s]
        OBVIOUS
      <4> QED
        BY <2>1, <4>1
    <3>2. output = [d \in Devices |-> output[d]]
      OBVIOUS
    <3> QED
      BY <3>1, <3>2
  <2>3. {reported, listed} \subseteq Seq(Devices) /\ serials \in Seq(Devices \union {NoDevice})
    BY EmptyType
  <2> QED
    BY <2>2, <2>3 DEF TypeOK, Steps
<1>2. PlaceInv /\ ListInv /\ PinsInv
  BY DEF PlaceInv, ListInv, PinsInv, OutputsSet
<1> QED
  BY <1>1, <1>2 DEF ToolInv
-----------------------------------------------------------------------------
LEMMA UseType ==
  ASSUME TypeOK, NEW d \in Devices, Use(d)
  PROVE  dev' \in Devices \union {NoDevice} /\ opened' \subseteq Devices /\ reported' \in Seq(Devices)
<1>1. opened \subseteq Devices /\ reported \in Seq(Devices)
  BY DEF TypeOK
<1>2. dev' = d
  BY DEF Use
<1>3. CASE reported' = Append(reported, d) /\ UNCHANGED opened
  BY <1>1, <1>2, <1>3, AppendType
<1>4. CASE opened' = opened \union {d} /\ UNCHANGED reported
  BY <1>1, <1>2, <1>4
<1> QED
  BY <1>3, <1>4 DEF Use

(* Types. *)
LEMMA TypeStep == TypeOK /\ [Next]_vars => TypeOK'
<1> SUFFICES ASSUME TypeOK, [Next]_vars PROVE TypeOK'
  OBVIOUS
<1> USE DEF command, ghosts, Steps, Ended
<1>1. CASE Count
  <2>1. ndev' \in Nat
    <3>1. ASSUME NEW l \in Listings PROVE Len(l) \in Nat
      <4>1. PICK k \in 0 .. Cardinality(plugged) : l \in [1 .. k -> plugged]
        BY DEF Listings
      <4>2. k \in Nat
        BY <4>1
      <4>3. l \in Seq(plugged)
        BY <4>1, <4>2
      <4> QED
        BY <4>3, LenProperties
    <3> QED
      BY <1>1, <3>1, ToolsAssumption DEF Count
  <2>2. step' \in Steps
    BY <1>1 DEF Count
  <2> QED
    BY <1>1, <2>1, <2>2 DEF Count, TypeOK
<1>2. CASE OpenWanted
  <2>1. /\ dev' \in Devices \union {NoDevice} /\ opened' \subseteq Devices
        /\ reported' \in Seq(Devices)
    BY <1>2, UseType, OpenableIs DEF OpenWanted, TypeOK
  <2>2. step' \in Steps
    BY <1>2 DEF OpenWanted, TypeOK
  <2> QED
    BY <1>2, <2>1, <2>2 DEF OpenWanted, TypeOK
<1>3. CASE List
  <2>1. listed' \in Seq(Devices) /\ serials' \in Seq(Devices \union {NoDevice})
    <3>1. CASE UNCHANGED <<serials, listed>>
      BY <3>1 DEF TypeOK
    <3>2. CASE \E l \in Listings \ {<<>>} :
                 /\ listed' = Cut(l, ndev)
                 /\ serials' = [i \in 1 .. ndev |->
                                 IF i \in DOMAIN listed' THEN listed'[i] ELSE NoDevice]
      <4>1. ndev \in Nat /\ plugged \subseteq Devices
        BY DEF TypeOK
      <4>2. listed' \in Seq(Devices) /\ DOMAIN listed' = 1 .. Len(listed')
        BY <3>2, <4>1, ListingIs
      <4>3. \A i \in DOMAIN listed' : listed'[i] \in Devices
        BY <4>2
      <4>4. serials' \in [1 .. ndev -> Devices \union {NoDevice}]
        BY <3>2, <4>3
      <4> QED
        BY <4>1, <4>2, <4>4
    <3> QED
      BY <1>3, <3>1, <3>2 DEF List
  <2>2. step' \in Steps /\ n' \in Nat
    BY <1>3 DEF List
  <2> QED
    BY <1>3, <2>1, <2>2 DEF List, TypeOK
<1>4. CASE Each
  <2>1. /\ dev' \in Devices \union {NoDevice} /\ opened' \subseteq Devices
        /\ reported' \in Seq(Devices)
    BY <1>4, UseType, OpenableIs DEF Each, EachWith, TypeOK
  <2>2. step' \in Steps /\ n' \in Nat
    BY <1>4 DEF Each, EachWith, TypeOK
  <2> QED
    BY <1>4, <2>1, <2>2 DEF Each, EachWith, TypeOK
<1>5. CASE SetPins
  <2>1. output' \in [Devices -> Outputs]
    <3>1. CASE output' = output
      BY <3>1 DEF TypeOK
    <3>2. CASE n < Pins /\ dev \in Devices /\ output' = [output EXCEPT ![dev][n] = asked[n]]
      <4>1. n \in 0 .. Pins - 1
        BY <3>2, ToolsAssumption DEF TypeOK
      <4>2. asked[n] \in States /\ output[dev] \in Outputs
        BY <3>2, <4>1 DEF TypeOK, Outputs
      <4>3. [output[dev] EXCEPT ![n] = asked[n]] \in Outputs
        BY <4>1, <4>2 DEF Outputs
      <4> QED
        BY <3>2, <4>3 DEF TypeOK
    <3> QED
      BY <1>5, <3>1, <3>2 DEF SetPins, SetPinsUpTo, TypeOK
  <2>2. n' \in Nat /\ step' \in Steps /\ opened' \subseteq Devices
    BY <1>5 DEF SetPins, SetPinsUpTo, TypeOK
  <2> QED
    BY <1>5, <2>1, <2>2 DEF SetPins, SetPinsUpTo, TypeOK
<1>6. CASE Calibrate
  BY <1>6 DEF Calibrate, TypeOK
<1>7. ASSUME NEW d \in Devices, Unplug(d) \/ Plug(d) PROVE TypeOK'
  BY <1>7 DEF Unplug, Plug, TypeOK
<1>8. CASE Finished \/ UNCHANGED vars
  BY <1>8 DEF Finished, vars, TypeOK
<1> QED
  BY <1>1, <1>2, <1>3, <1>4, <1>5, <1>6, <1>7, <1>8 DEF Next, Main

LEMMA PlaceStep == TypeOK /\ PlaceInv /\ [Next]_vars => PlaceInv'
<1> SUFFICES ASSUME TypeOK, PlaceInv, [Next]_vars PROVE PlaceInv'
  OBVIOUS
<1> USE DEF PlaceInv, command, ghosts
<1>1. CASE Count
  BY <1>1 DEF Count
<1>2. CASE OpenWanted
  BY <1>2 DEF OpenWanted, TypeOK
<1>3. CASE List
  BY <1>3 DEF List
<1>4. CASE Each
  BY <1>4 DEF Each, EachWith
<1>5. CASE SetPins \/ Calibrate
  BY <1>5 DEF SetPins, SetPinsUpTo, Calibrate
<1>6. ASSUME NEW d \in Devices, Unplug(d) \/ Plug(d) PROVE PlaceInv'
  BY <1>6 DEF Unplug, Plug
<1>7. CASE Finished \/ UNCHANGED vars
  BY <1>7 DEF Finished, vars
<1> QED
  BY <1>1, <1>2, <1>3, <1>4, <1>5, <1>6, <1>7 DEF Next, Main

(* The numbers reported are those listed. *)
LEMMA ReportNext ==
  ASSUME ToolInv, Each, tool = "info", NEW d \in Devices, n <= ndev,
         d \in Openable(serials[n]), Use(d), n' = n + 1
  PROVE  /\ Len(reported') = n
         /\ Len(listed) = ndev => \A i \in 1 .. Len(reported') : reported'[i] = listed[i]
<1>1. /\ reported \in Seq(Devices) /\ ndev \in Nat /\ n \in Nat /\ plugged \subseteq Devices
      /\ listed \in Seq(Devices) /\ NoDevice \notin Devices
  BY ToolsAssumption DEF ToolInv, TypeOK
<1>2. step = "each" /\ listed' = listed
  BY DEF Each, EachWith
<1>3. /\ n \in 1 .. ndev + 1 /\ Len(reported) = n - 1
      /\ serials[n] = IF n \in 1 .. Len(listed) THEN listed[n] ELSE NoDevice
  BY <1>1, <1>2 DEF ToolInv, ListInv
<1>4. reported' = Append(reported, d)
  BY DEF Use
<1>5. /\ Len(reported') = Len(reported) + 1 /\ reported'[Len(reported) + 1] = d
      /\ \A i \in 1 .. Len(reported) : reported'[i] = reported[i]
  BY <1>1, <1>4, AppendType
<1>6. Len(reported') = n
  BY <1>1, <1>3, <1>5
<1>7. ASSUME Len(listed) = ndev, NEW i \in 1 .. n PROVE reported'[i] = listed[i]
  <2>1. CASE i = n
    <3>1. serials[n] = listed[n] /\ serials[n] \in Devices
      BY <1>1, <1>3, <1>7
    <3>2. serials[n] # NoDevice
      BY <3>1, <1>1
    <3>3. d = serials[n]
      BY <3>2, <1>1, OpenableIs
    <3>4. reported'[n] = d
      BY <1>1, <1>3, <1>5
    <3> QED
      BY <2>1, <3>1, <3>3, <3>4
  <2>2. CASE i < n
    <3>1. i \in 1 .. Len(reported)
      BY <1>1, <1>3, <2>2
    <3>2. wanted = NoDevice
      BY <1>2 DEF ToolInv, PlaceInv
    <3>3. reported[i] = listed[i]
      BY <3>1, <3>2, <1>7 DEF ToolInv, ListInv
    <3> QED
      BY <3>1, <3>3, <1>5
  <2> QED
    BY <1>1, <1>7, <2>1, <2>2
<1> QED
  BY <1>6, <1>7

LEMMA ListStep == ToolInv /\ TypeOK' /\ [Next]_vars => ListInv'
<1> SUFFICES ASSUME ToolInv, TypeOK', [Next]_vars PROVE ListInv'
  OBVIOUS
<1>t. TypeOK /\ PlaceInv /\ ListInv
  BY DEF ToolInv
<1>u. ndev \in Nat /\ n \in Nat /\ ndev' \in Nat /\ reported \in Seq(Devices)
  BY <1>t DEF TypeOK
<1>e. Len(<<>>) = 0 /\ 1 .. 0 = {}
  OBVIOUS
<1> USE DEF command, ghosts
<1>1. CASE Count
  <2>1. step' # "each" /\ reported' = reported /\ reported = <<>>
    BY <1>1, <1>t DEF Count, PlaceInv
  <2> QED
    BY <2>1, <1>u, <1>e DEF ListInv
<1>2. CASE OpenWanted
  <2>1. step' # "each" /\ wanted' = wanted /\ wanted # NoDevice /\ tool' = tool
    BY <1>2, <1>t DEF OpenWanted, PlaceInv, TypeOK
  <2>2. tool # "info" => reported' = reported
    BY <1>2 DEF OpenWanted, Use
  <2> QED
    BY <1>t, <2>1, <2>2 DEF ListInv
<1>3. CASE List
  <2>1. reported' = reported /\ reported = <<>> /\ ndev' = ndev /\ tool' = tool
    BY <1>3, <1>t DEF List, PlaceInv
  <2>2. ASSUME step' = "each"
        PROVE  /\ n' = 1
               /\ \A i \in 1 .. ndev :
                    serials'[i] = IF i \in 1 .. Len(listed') THEN listed'[i] ELSE NoDevice
    <3>1. PICK l \in Listings \ {<<>>} :
            /\ listed' = Cut(l, ndev)
            /\ serials' = [i \in 1 .. ndev |->
                            IF i \in DOMAIN listed' THEN listed'[i] ELSE NoDevice]
      BY <1>3, <2>2 DEF List
    <3>2. plugged \subseteq Devices
      BY <1>t DEF TypeOK
    <3>3. DOMAIN listed' = 1 .. Len(listed')
      BY <3>1, <3>2, <1>u, ListingIs
    <3>4. n' = 1
      BY <1>3, <2>2 DEF List
    <3> QED
      BY <3>1, <3>3, <3>4
  <2>3. Len(reported') = 0 /\ reported' = <<>>
    BY <2>1, <1>e
  <2> QED
    BY <2>1, <2>2, <2>3, <1>u, <1>e DEF ListInv
<1>4. CASE Each
  <2>1. /\ step = "each" /\ listed' = listed /\ serials' = serials /\ ndev' = ndev
        /\ tool' = tool /\ wanted' = wanted
    BY <1>4 DEF Each, EachWith
  <2>2. CASE /\ n <= ndev /\ n' = n + 1 /\ step' = step
             /\ \E d \in Openable(serials[n]) : Use(d)
    <3>1. PICK d \in Openable(serials[n]) : Use(d)
      BY <2>2
    <3>2. d \in Devices
      BY <3>1, <1>t, OpenableIs DEF TypeOK
    <3>3. n' \in 1 .. ndev' + 1
      BY <2>1, <2>2, <1>t, <1>u DEF ListInv
    <3>4. CASE tool = "info"
      <4>1. /\ Len(reported') = n
            /\ Len(listed) = ndev => \A i \in 1 .. Len(reported') : reported'[i] = listed[i]
        BY <1>4, <2>2, <3>1, <3>2, <3>4, ReportNext
      <4>2. Len(reported') = n' - 1 /\ Len(reported') <= ndev'
        BY <4>1, <2>1, <2>2, <1>u
      <4> QED
        BY <4>1, <4>2, <3>3, <3>4, <2>1, <1>t DEF ListInv
    <3>5. CASE tool # "info"
      <4>1. reported' = reported
        BY <3>1, <3>5 DEF Use
      <4> QED
        BY <4>1, <3>3, <3>5, <2>1, <1>t DEF ListInv
    <3> QED
      BY <3>4, <3>5
  <2>3. CASE step' # "each" /\ reported' = reported
    BY <2>1, <2>3, <1>t DEF ListInv
  <2> QED
    BY <1>4, <2>2, <2>3 DEF Each, EachWith
<1>5. CASE SetPins \/ Calibrate
  <2>1. /\ step' # "each" /\ reported' = reported /\ listed' = listed
        /\ ndev' = ndev /\ tool' = tool /\ wanted' = wanted
    BY <1>5 DEF SetPins, SetPinsUpTo, Calibrate
  <2> QED
    BY <2>1, <1>t DEF ListInv
<1>6. ASSUME NEW d \in Devices, Unplug(d) \/ Plug(d) PROVE ListInv'
  BY <1>6, <1>t DEF Unplug, Plug, ListInv
<1>7. CASE Finished \/ UNCHANGED vars
  BY <1>7, <1>t DEF Finished, vars, ListInv
<1> QED
  BY <1>1, <1>2, <1>3, <1>4, <1>5, <1>6, <1>7 DEF Next, Main

(* The outputs set. *)
LEMMA PinsStep == ToolInv /\ [Next]_vars => PinsInv'
<1> SUFFICES ASSUME ToolInv, [Next]_vars PROVE PinsInv'
  OBVIOUS
<1>t. TypeOK /\ PlaceInv /\ PinsInv /\ Pins \in Nat
  BY ToolsAssumption DEF ToolInv
<1>z. 0 \in 0 .. Pins /\ \A p \in 0 .. 0 - 1 : FALSE
  BY <1>t
<1> USE DEF command, ghosts
<1>1. CASE Count
  BY <1>1 DEF Count, PinsInv, OutputsSet
<1>2. CASE OpenWanted
  <2>1. /\ step' \in {"success", "pins", "calibrate", "failure"} /\ n' = n /\ n = 0
        /\ tool' = tool
        /\ step' = "success" => tool # "gpio"
    BY <1>2, <1>t DEF OpenWanted, PlaceInv, TypeOK
  <2> QED
    BY <2>1, <1>t, <1>z DEF PinsInv, OutputsSet
<1>3. CASE List
  <2>1. /\ step' \in {"success", "pins", "each", "crashed"} /\ tool' = tool
        /\ step' = "success" => tool # "gpio"
        /\ step' = "pins" => n' = 0
    BY <1>3 DEF List
  <2> QED
    BY <2>1, <1>t, <1>z DEF PinsInv, OutputsSet
<1>4. CASE Each
  <2>1. /\ step' \in {"success", "pins", "each", "failure"} /\ tool' = tool
        /\ step' = "success" => tool # "gpio"
        /\ step' = "pins" => n' = 0
    BY <1>4 DEF Each, EachWith
  <2> QED
    BY <2>1, <1>t, <1>z DEF PinsInv, OutputsSet
<1>5. CASE SetPins
  <2>1. /\ step = "pins" /\ dev' = dev /\ asked' = asked /\ asked \in Outputs
        /\ output \in [Devices -> Outputs] /\ dev \in Devices \union {NoDevice}
        /\ n \in 0 .. Pins
        /\ dev # NoDevice => \A p \in 0 .. n - 1 : output[dev][p] = asked[p]
    BY <1>5, <1>t DEF SetPins, SetPinsUpTo, PinsInv, TypeOK
  <2>2. CASE step' = "crashed"
    BY <2>2 DEF PinsInv, OutputsSet
  <2>3. CASE step' = "failure"
    BY <2>3 DEF PinsInv, OutputsSet
  <2>4. CASE /\ dev \in plugged /\ n < Pins /\ n' = n + 1 /\ step' = step
             /\ output' = [output EXCEPT ![dev][n] = asked[n]]
    <3>1. dev \in Devices
      BY <2>4, <1>t DEF TypeOK
    <3>a. n \in 0 .. Pins - 1
      BY <2>1, <2>4, <1>t
    <3>2. output[dev] \in [0 .. Pins - 1 -> States] /\ n \in 0 .. Pins - 1
      BY <2>1, <3>a, <3>1 DEF Outputs
    <3>3. output'[dev] = [output[dev] EXCEPT ![n] = asked[n]]
      BY <2>1, <2>4, <3>1
    <3>4. dev # NoDevice
      BY <3>1, ToolsAssumption
    <3>5. ASSUME NEW p \in 0 .. n PROVE output'[dev][p] = asked[p]
      <4>1. p \in 0 .. Pins - 1 /\ (p = n \/ p \in 0 .. n - 1)
        BY <3>a, <1>t
      <4>2. output'[dev][p] = IF p = n THEN asked[n] ELSE output[dev][p]
        BY <3>2, <3>3, <4>1
      <4> QED
        BY <2>1, <3>4, <4>1, <4>2
    <3>6. n' \in 0 .. Pins /\ n' - 1 = n
      BY <2>4, <3>a, <1>t
    <3> QED
      BY <2>1, <2>4, <3>5, <3>6 DEF PinsInv, OutputsSet
  <2>5. CASE dev # NoDevice /\ n = Pins /\ step' = "success" /\ output' = output
    <3>1. dev \in Devices
      BY <2>1, <2>5
    <3>2. output[dev] \in [0 .. Pins - 1 -> States] /\ asked \in [0 .. Pins - 1 -> States]
      BY <2>1, <3>1 DEF Outputs
    <3>3. \A p \in 0 .. Pins - 1 : output[dev][p] = asked[p]
      BY <2>1, <2>5
    <3>4. output[dev] = asked
      <4>1. /\ output[dev] = [p \in 0 .. Pins - 1 |-> output[dev][p]]
            /\ asked = [p \in 0 .. Pins - 1 |-> asked[p]]
        BY <3>2
      <4> QED
        BY <3>3, <4>1, Zenon
    <3> QED
      BY <2>1, <2>5, <3>4 DEF PinsInv, OutputsSet
  <2> QED
    BY <1>5, <2>2, <2>3, <2>4, <2>5 DEF SetPins, SetPinsUpTo
<1>6. CASE Calibrate
  <2>1. step' = "success" /\ tool' = tool /\ tool # "gpio"
    BY <1>6, <1>t DEF Calibrate, PlaceInv
  <2> QED
    BY <2>1 DEF PinsInv, OutputsSet
<1>7. ASSUME NEW d \in Devices, Unplug(d) \/ Plug(d) PROVE PinsInv'
  BY <1>7, <1>t DEF Unplug, Plug, PinsInv, OutputsSet
<1>8. CASE Finished \/ UNCHANGED vars
  BY <1>8, <1>t DEF Finished, vars, PinsInv, OutputsSet
<1> QED
  BY <1>1, <1>2, <1>3, <1>4, <1>5, <1>6, <1>7, <1>8 DEF Next, Main
-----------------------------------------------------------------------------
(* The invariant that the other theorems rest on: the types, what each     *)
(* place in main knows, and how far the loop that runs has come.           *)
THEOREM ToolInvariant == Spec => []ToolInv
<1>1. ToolInv /\ [Next]_vars => ToolInv'
  <2> SUFFICES ASSUME ToolInv, [Next]_vars PROVE ToolInv'
    OBVIOUS
  <2>1. TypeOK' /\ PlaceInv'
    BY TypeStep, PlaceStep DEF ToolInv
  <2>2. ListInv' /\ PinsInv'
    BY <2>1, ListStep, PinsStep
  <2> QED
    BY <2>1, <2>2 DEF ToolInv
<1> QED
  BY ToolInit, <1>1, PTL DEF Spec

(* When airspyhf_gpio returns success, the device it opened last has all   *)
(* the outputs asked for.                                                  *)
THEOREM OutputsAreSet == Spec => []OutputsSet
<1>1. ToolInv => OutputsSet
  BY DEF ToolInv, PinsInv
<1> QED
  BY <1>1, ToolInvariant, PTL

(* airspyhf_info reports the devices of a listing that agrees with its     *)
(* count in the order of the list.                                         *)
THEOREM ReportedInListOrder == Spec => []ReportedInOrder
<1>1. ToolInv => ReportedInOrder
  <2> SUFFICES ASSUME ToolInv, wanted = NoDevice, Len(listed) = ndev
               PROVE  Len(reported) <= ndev /\ reported = SubSeq(listed, 1, Len(reported))
    BY DEF ReportedInOrder
  <2>1. reported \in Seq(Devices) /\ listed \in Seq(Devices)
    BY DEF ToolInv, TypeOK
  <2>2. Len(reported) <= ndev /\ \A i \in 1 .. Len(reported) : reported[i] = listed[i]
    BY DEF ToolInv, ListInv
  <2>3. Len(reported) \in Nat /\ Len(reported) <= Len(listed)
    BY <2>1, <2>2, LenProperties
  <2>4. /\ SubSeq(listed, 1, Len(reported)) \in Seq(Devices)
        /\ Len(SubSeq(listed, 1, Len(reported))) = Len(reported)
        /\ \A i \in 1 .. Len(reported) : SubSeq(listed, 1, Len(reported))[i] = listed[i]
    BY <2>1, <2>3, SubSeqProperties
  <2> QED
    BY <2>1, <2>2, <2>4, SeqEqual
<1> QED
  BY <1>1, ToolInvariant, PTL


=============================================================================
