------------------------------- MODULE Tools -------------------------------
(***************************************************************************)
(* The tools airspyhf_info, airspyhf_gpio and airspyhf_calibrate: which    *)
(* devices they open, report and set, while devices are plugged in and out *)
(* and other programs hold some.                                           *)
(*                                                                         *)
(* Of the library they use what the module DeviceOpen shows:               *)
(* airspyhf_list_devices returns the serial numbers it could read, in some *)
(* order and up to its count, or an error; airspyhf_open_sn opens one      *)
(* device with that number, or any for SERIAL_NUMBER_UNUSED, or fails.     *)
(* Devices stand for their serial numbers.  The calibration that           *)
(* airspyhf_calibrate writes is in the module FlashConfig.                 *)
(***************************************************************************)
EXTENDS Integers, Sequences, FiniteSets

CONSTANTS
  Devices,
  NoDevice,     \* NULL, and SERIAL_NUMBER_UNUSED
  Pins,         \* of airspyhf_set_user_output, 0 .. Pins - 1
  UINT_MAX

ASSUME ToolsAssumption ==
  /\ NoDevice \notin Devices
  /\ Pins \in Nat /\ UINT_MAX \in Nat /\ Cardinality(Devices) < UINT_MAX

VARIABLES
  tool, wanted, asked,  \* the command: the tool, option -s, options -0 to -3
  step,                 \* what main does next, or how it ended
  ndev, serials, n,     \* its variables; n counts the loop that runs
  dev,
  opened,               \* devices that the process holds
  (* The devices *)
  plugged, output,
  (* Ghost variables *)
  reported,             \* devices that airspyhf_info has printed, in order
  listed                \* what the second listing returned

command == <<tool, wanted, asked>>
ghosts == <<reported, listed>>
vars == <<command, step, ndev, serials, n, dev, opened, plugged, output, ghosts>>

States == {"low", "high"}
Outputs == [0 .. Pins - 1 -> States]
Ended == {"success", "failure", "crashed"}
Steps == {"count", "one", "list", "each", "pins", "calibrate"} \union Ended

Init ==
  /\ tool \in {"info", "gpio", "calibrate"}
  /\ wanted \in Devices \union {NoDevice}
  /\ asked \in Outputs
  /\ tool # "gpio" => asked = [p \in 0 .. Pins - 1 |-> "low"]
  /\ step = "count"
  /\ ndev = 0
  /\ serials = <<>>
  /\ n = 0
  /\ dev = NoDevice
  /\ opened = {}
  /\ plugged \in SUBSET Devices
  /\ output \in [Devices -> {[p \in 0 .. Pins - 1 |-> s] : s \in States}]
  /\ reported = <<>>
  /\ listed = <<>>
-----------------------------------------------------------------------------
(* airspyhf_list_devices: devices that other programs hold are not listed. *)
Listings ==
  {l \in UNION {[1 .. k -> plugged] : k \in 0 .. Cardinality(plugged)} :
     \A i, j \in DOMAIN l : l[i] = l[j] => i = j}
Cut(l, count) == SubSeq(l, 1, IF Len(l) < count THEN Len(l) ELSE count)

(* ndev is unsigned: the test ndev <= 0 does not see the error.            *)
Count ==
  /\ step = "count"
  /\ ndev' \in {UINT_MAX} \union {Len(l) : l \in Listings}
  /\ step' = CASE ndev' = 0 -> "failure"
               [] ndev' # 0 /\ wanted # NoDevice -> "one"
               [] ndev' # 0 /\ wanted = NoDevice ->
                    IF tool = "calibrate" THEN "failure" ELSE "list"
  /\ UNCHANGED <<command, serials, n, dev, opened, plugged, output, reported, listed>>

(* What airspyhf_open_sn may open. *)
Openable(serial) ==
  (IF serial = NoDevice THEN plugged ELSE plugged \intersect {serial}) \ opened

(* print_receiver_data of airspyhf_info closes the device. *)
Use(d) ==
  /\ dev' = d
  /\ IF tool = "info"
       THEN reported' = Append(reported, d) /\ UNCHANGED opened
       ELSE opened' = opened \union {d} /\ UNCHANGED reported

OpenWanted ==
  /\ step = "one"
  /\ \/ /\ \E d \in Openable(wanted) : Use(d)
        /\ step' = CASE tool = "info" -> "success"
                     [] tool = "gpio" -> "pins"
                     [] tool = "calibrate" -> "calibrate"
     \/ step' = "failure" /\ dev' = NoDevice /\ UNCHANGED <<opened, reported>>
  /\ UNCHANGED <<command, ndev, serials, n, plugged, output, listed>>

(* The second listing, into an array of ndev numbers that starts as zeros. *)
(* With ndev = UINT_MAX the array cannot be had, or the library, told -1,  *)
(* clears what lies beyond it.                                             *)
List ==
  /\ step = "list"
  /\ \/ /\ ndev = UINT_MAX /\ step' = "crashed"
        /\ UNCHANGED <<serials, listed>>
     \/ /\ step' = IF tool = "gpio" THEN "pins" ELSE "success"
        /\ UNCHANGED <<serials, listed>>
     \/ /\ ndev # UINT_MAX
        /\ \E l \in Listings \ {<<>>} :
             /\ listed' = Cut(l, ndev)
             /\ serials' = [i \in 1 .. ndev |->
                             IF i \in DOMAIN listed' THEN listed'[i] ELSE NoDevice]
        /\ step' = "each"
  /\ n' = IF step' = "each" THEN 1 ELSE 0
  /\ UNCHANGED <<command, ndev, dev, opened, plugged, output, reported>>

(* The loop over serials ends when all are open, or when one fails, which  *)
(* airspyhf_info takes for a success.                                      *)
EachWith(numbers) ==
  /\ step = "each"
  /\ \/ /\ n <= ndev
        /\ \E d \in Openable(numbers[n]) : Use(d)
        /\ n' = n + 1
        /\ UNCHANGED step
     \/ /\ n <= ndev
        /\ dev' = NoDevice
        /\ step' = IF tool = "gpio" THEN "failure" ELSE "success"
        /\ UNCHANGED <<n, opened, reported>>
     \/ /\ n > ndev
        /\ n' = 0
        /\ step' = IF tool = "gpio" THEN "pins" ELSE "success"
        /\ UNCHANGED <<dev, opened, reported>>
  /\ UNCHANGED <<command, ndev, serials, plugged, output, listed>>

(* Mutant: airspyhf_open instead of airspyhf_open_sn. *)
EachAny == EachWith([i \in DOMAIN serials |-> NoDevice])
Each == EachWith(serials)

(* airspyhf_gpio sets all the outputs of dev, then closes dev.  The answer *)
(* of the device may be lost.                                              *)
SetPinsUpTo(count) ==
  /\ step = "pins"
  /\ \/ dev = NoDevice /\ step' = "crashed" /\ UNCHANGED <<n, opened, output>>
     \/ /\ dev \in plugged /\ n < count
        /\ output' = [output EXCEPT ![dev][n] = asked[n]]
        /\ n' = n + 1
        /\ UNCHANGED <<step, opened>>
     \/ /\ dev # NoDevice /\ n < count
        /\ output' \in IF dev \in plugged
                         THEN {output, [output EXCEPT ![dev][n] = asked[n]]} ELSE {output}
        /\ step' = "failure"
        /\ opened' = opened \ {dev}
        /\ UNCHANGED n
     \/ /\ dev # NoDevice /\ n = count
        /\ step' = "success"
        /\ opened' = opened \ {dev}
        /\ UNCHANGED <<n, output>>
  /\ UNCHANGED <<command, ndev, serials, dev, plugged, ghosts>>

(* Mutant: the last output is left out. *)
SetPinsFew == SetPinsUpTo(Pins - 1)
SetPins == SetPinsUpTo(Pins)

(* airspyhf_calibrate prints, writes (see FlashConfig), does not close.    *)
Calibrate ==
  /\ step = "calibrate" /\ step' = "success"
  /\ UNCHANGED <<command, ndev, serials, n, dev, opened, plugged, output, ghosts>>

(* A device that is unplugged while the tool holds it stays away. *)
Unplug(d) ==
  /\ step \notin Ended /\ d \in plugged
  /\ plugged' = plugged \ {d}
  /\ UNCHANGED <<command, step, ndev, serials, n, dev, opened, output, ghosts>>
Plug(d) ==
  /\ step \notin Ended /\ d \notin plugged \union opened
  /\ plugged' = plugged \union {d}
  /\ UNCHANGED <<command, step, ndev, serials, n, dev, opened, output, ghosts>>

Finished == step \in Ended /\ UNCHANGED vars

Main == Count \/ OpenWanted \/ List \/ Each \/ SetPins \/ Calibrate
Next == Main \/ Finished \/ \E d \in Devices : Unplug(d) \/ Plug(d)

Spec == Init /\ [][Next]_vars
-----------------------------------------------------------------------------
(* Types. *)
TypeOK ==
  /\ tool \in {"info", "gpio", "calibrate"}
  /\ wanted \in Devices \union {NoDevice}
  /\ asked \in Outputs
  /\ step \in Steps
  /\ ndev \in Nat
  /\ serials \in Seq(Devices \union {NoDevice})
  /\ n \in Nat
  /\ dev \in Devices \union {NoDevice}
  /\ {opened, plugged} \subseteq SUBSET Devices
  /\ output \in [Devices -> Outputs]
  /\ {reported, listed} \subseteq Seq(Devices)

(* When both listings of airspyhf_info found as many devices, it reports   *)
(* them in the order of the list, each once, up to the first that it       *)
(* cannot open.                                                            *)
ReportedInOrder ==
  (wanted = NoDevice /\ Len(listed) = ndev) =>
    /\ Len(reported) <= ndev
    /\ reported = SubSeq(listed, 1, Len(reported))

(* When airspyhf_gpio returns success, the device it opened last has all   *)
(* the outputs asked for, though each was set by a transfer of its own     *)
(* that might have failed.                                                 *)
OutputsSet ==
  (tool = "gpio" /\ step = "success") => dev # NoDevice /\ output[dev] = asked

=============================================================================
