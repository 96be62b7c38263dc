----------------------------- MODULE DeviceOpen -----------------------------
(***************************************************************************)
(* How libairspyhf finds, opens and closes devices: airspyhf_open_init     *)
(* with the search of airspyhf_open_device and the tables it reads from    *)
(* the firmware, airspyhf_close, and airspyhf_list_devices, for one        *)
(* application thread that keeps several devices open, while devices are   *)
(* plugged in and out and any call to libusb may fail.                     *)
(*                                                                         *)
(* The program's allocations are counted; the small ones that the code     *)
(* does not test succeed.  Sessions are in the module Streaming, what      *)
(* airspyhf_open does with the stored configuration in FlashConfig.        *)
(***************************************************************************)
EXTENDS Integers, Sequences, FiniteSets

CONSTANTS
  Devices,      \* with the vendor and product numbers of an Airspy HF+
  Serial(_),    \* the number in a device's serial number string
  NoSerial,     \* the value of Serial when there is no such number in it
  SERIAL_NUMBER_UNUSED,
  Handles,      \* the application's variables of type airspyhf_device_t *
  NoDevice, NoHandle, NoLimit,
  FwCount,      \* bound: sample rates or attenuator steps of the firmware
  MaxLeaks      \* bound: calls that leak

ASSUME BoundsAssumption ==
  /\ FwCount \in Nat \ {0, 1} /\ MaxLeaks \in Nat
  /\ NoDevice \notin Devices /\ NoHandle \notin Handles /\ NoLimit \notin Nat

VARIABLES
  allocated,    \* how many of each resource exist
  fields,       \* resources that the members of an open device point to
  usb_device,   \* the device behind it
  tables,       \* its supported_samplerate_count, ..rates, and architectures
  (* The call in progress. *)
  step,         \* what it does next, or "idle"
  handle,       \* the device being opened, or NoHandle in airspyhf_list_devices
  serial,       \* parameter serial_number
  limit,        \* parameter count, or NoLimit when serials is NULL
  devices,      \* what libusb_get_device_list returned, as far as not visited
  output,       \* the serial numbers found, until they are returned
  result,       \* what the last call returned
  (* Ghost variables *)
  seen,         \* the devices visited, in order
  refused,      \* those that failed to be opened, read or claimed
  leaks         \* calls that failed where nothing is given back

device == <<fields, usb_device, tables>>
search == <<serial, limit, devices, output, seen, refused>>
vars == <<allocated, device, step, handle, search, result, leaks>>

(* A table is the firmware's, or the firmware's with some of its end as    *)
(* malloc gave it, or stands in for it.  The counts are FwCount and 1.     *)
Read == {"firmware", "partly"}
Sources == Read \union {"default", "none"}
Tables == [count : {0, 1, FwCount}, rates : Sources, architectures : Sources]
NoTables == [count |-> 0, rates |-> "none", architectures |-> "none"]

(* What airspyhf_open_sn may be asked for, and airspyhf_open asks for. *)
Serials == ({Serial(d) : d \in Devices} \ {NoSerial}) \union {SERIAL_NUMBER_UNUSED}

Buffers == {"output_buffer", "received_samples_queue", "transfers"}
Resources ==
  Buffers \union {"device", "context", "usb_device", "samplerates",
                  "architectures", "att_steps", "iq_balancer", "consumer_cv"}

Steps == {"idle", "init", "scan", "count", "rates", "architectures",
          "att count", "att steps", "allocate", "config", "list"}

Init ==
  /\ allocated = [r \in Resources |-> 0]
  /\ fields = [h \in Handles |-> {}]
  /\ usb_device = [h \in Handles |-> NoDevice]
  /\ tables = [h \in Handles |-> NoTables]
  /\ step = "idle"
  /\ handle = NoHandle
  /\ serial = SERIAL_NUMBER_UNUSED
  /\ limit = NoLimit
  /\ devices = <<>>
  /\ output = <<>>
  /\ result = "none"
  /\ seen = <<>>
  /\ refused = {}
  /\ leaks = 0
-----------------------------------------------------------------------------
(* The opening call acquires resources for its device, or gives them back. *)
Balance(got, given) ==
  [r \in Resources |-> allocated[r] + (IF r \in got THEN 1 ELSE 0)
                                    - (IF r \in given THEN 1 ELSE 0)]

Acquire(rs) ==
  /\ allocated' = Balance(rs, {})
  /\ fields' = [fields EXCEPT ![handle] = @ \union rs]

(* The device is freed, after the resources rs were given back and those   *)
(* of got were acquired but are forgotten.                                 *)
Dispose(h, got, rs) ==
  /\ allocated' = Balance(got, rs \union {"device"})
  /\ fields' = [fields EXCEPT ![h] = {}]
  /\ usb_device' = [usb_device EXCEPT ![h] = NoDevice]
  /\ tables' = [tables EXCEPT ![h] = NoTables]

Return(value) == step' = "idle" /\ result' = value

(* airspyhf_open, airspyhf_open_sn: allocate the device and libusb_init.   *)
Open(h, s) ==
  /\ step = "idle" /\ fields[h] = {}
  /\ handle' = h /\ serial' = s
  /\ \/ /\ step' = "init"
        /\ allocated' = Balance({"device", "context"}, {})
        /\ fields' = [fields EXCEPT ![h] = {"device", "context"}]
        /\ UNCHANGED result
     \/ Return("error") /\ UNCHANGED <<allocated, fields>>
  /\ UNCHANGED <<usb_device, tables, limit, devices, output, seen, refused, leaks>>

(* airspyhf_open_fd, which only Android builds support. *)
OpenFd(h) ==
  /\ step = "idle" /\ fields[h] = {}
  /\ result' \in {"error", "unsupported"}
  /\ UNCHANGED <<allocated, device, step, handle, search, leaks>>

(* libusb_get_device_list: the devices come and go. *)
DeviceLists ==
  {s \in UNION {[1 .. n -> Devices] : n \in 0 .. Cardinality(Devices)} :
     \A m, n \in DOMAIN s : m # n => s[m] # s[n]}

GetDeviceList ==
  /\ step = "init"
  /\ \/ /\ devices' \in DeviceLists
        /\ step' = "scan"
        /\ UNCHANGED <<allocated, device, result>>
     \/ /\ Dispose(handle, {}, {"context"})
        /\ Return("error")
        /\ UNCHANGED devices
  /\ UNCHANGED <<handle, serial, limit, output, seen, refused, leaks>>

(* The list is freed; the search is forgotten. *)
SearchEnds == devices' = <<>> /\ seen' = <<>> /\ refused' = {}

(* The device under visit is left, for the next one. *)
Visit ==
  /\ devices' = Tail(devices)
  /\ seen' = Append(seen, Head(devices))

(* libusb_open, reading the serial number, libusb_set_configuration,       *)
(* libusb_claim_interface and libusb_set_interface_alt_setting may each    *)
(* fail; a device that another handle has claimed refuses to be.           *)
Claimed(d) == \E h \in Handles : usb_device[h] = d
Matches(d) == serial \in {SERIAL_NUMBER_UNUSED, Serial(d)}

(* The search takes the device, or visits the next one, of those that are  *)
(* asked for.  What it opened on the way it closes.                        *)
ScanWhere(tested, left_open) ==
  LET d == Head(devices) IN
  /\ step = "scan" /\ devices # <<>>
  /\ \/ /\ Matches(d)
        /\ tested => ~Claimed(d)
        /\ usb_device' = [usb_device EXCEPT ![handle] = d]
        /\ Acquire({"usb_device"})
        /\ step' = "count"
        /\ SearchEnds
     \/ /\ Matches(d)
        /\ Visit
        /\ refused' = refused \union {d}
        /\ allocated' = Balance(left_open, {})
        /\ UNCHANGED <<fields, usb_device, step>>
     \/ /\ ~Matches(d)
        /\ Visit
        /\ UNCHANGED <<refused, allocated, fields, usb_device, step>>
  /\ UNCHANGED <<tables, handle, serial, limit, output, result, leaks>>

(* Mutants: the result of the claim is not tested; a refused device stays  *)
(* open; it ends the search.                                               *)
ScanUnclaimed == ScanWhere(FALSE, {})
ScanLeavesOpen == ScanWhere(TRUE, {"usb_device"})
ScanOnce ==
  \/ refused = {} /\ ScanWhere(TRUE, {})
  \/ /\ step = "scan" /\ refused # {} /\ devices # <<>>
     /\ Dispose(handle, {}, {"context"})
     /\ Return("error") /\ SearchEnds
     /\ UNCHANGED <<handle, serial, limit, output, leaks>>

Scan == ScanWhere(TRUE, {})

(* No device was taken: everything is given back. *)
NotFound ==
  /\ step = "scan" /\ devices = <<>>
  /\ Dispose(handle, {}, {"context"})
  /\ Return("error") /\ SearchEnds
  /\ UNCHANGED <<handle, serial, limit, output, leaks>>
-----------------------------------------------------------------------------
(* The tables of the firmware.  A transfer that moves at least one byte    *)
(* passes, also one that comes short.  Of a count the first byte is all    *)
(* there is: the rest of it is 0.  An old firmware supports none of them.  *)
GoOn(s) == step' = s /\ UNCHANGED <<usb_device, handle, search, result, leaks>>
SetTables(t) == tables' = [tables EXCEPT ![handle] = t]

(* One sample rate with Zero-IF is assumed. *)
DefaultTables == [count |-> 1, rates |-> "default", architectures |-> "default"]

ReadCount ==
  /\ step = "count"
  /\ \/ /\ SetTables([NoTables EXCEPT !.count = FwCount])
        /\ Acquire({"samplerates"})
        /\ GoOn("rates")
     \/ /\ SetTables(DefaultTables)
        /\ Acquire({"samplerates", "architectures"})
        /\ GoOn("att count")

(* Mutant: the rates fall back, their number does not. *)
ReadRatesHalf ==
  /\ step = "rates"
  /\ SetTables([DefaultTables EXCEPT !.count = FwCount])
  /\ Acquire({"architectures"})
  /\ GoOn("att count")

(* A table that could not be read is freed, the one assumed allocated.     *)
ReadRates ==
  /\ step = "rates"
  /\ Acquire({"architectures"})
  /\ \/ /\ \E source \in Read : SetTables([tables[handle] EXCEPT !.rates = source])
        /\ GoOn("architectures")
     \/ SetTables(DefaultTables) /\ GoOn("att count")

(* The request leaves room for four bytes a rate, the block has one: the   *)
(* firmware is taken to send no more than one.  When the read fails, all   *)
(* rates are taken for Zero-IF.                                            *)
ReadArchitectures ==
  /\ step = "architectures"
  /\ \E source \in Read \union {"default"} :
       SetTables([tables[handle] EXCEPT !.architectures = source])
  /\ GoOn("att count")
  /\ UNCHANGED <<allocated, fields>>

(* The attenuator steps of the firmware, or those of the HF+ Discovery. *)
ReadAttSteps ==
  /\ \/ /\ step = "att count"
        /\ Acquire({"att_steps"})
        /\ GoOn("att steps") \/ GoOn("allocate")
     \/ /\ step = "att steps"
        /\ GoOn("allocate")
        /\ UNCHANGED <<allocated, fields>>
  /\ UNCHANGED tables
-----------------------------------------------------------------------------
(* allocate_transfers, which gives nothing back when it fails at the       *)
(* buffers of the queue, the array of transfers, or a transfer;            *)
(* airspyhf_open_init then closes the USB device only.                     *)
AllocateTransfers ==
  /\ step = "allocate"
  /\ \/ /\ Acquire(Buffers)
        /\ GoOn("config")
        /\ UNCHANGED tables
     \/ \E got \in {{"output_buffer", "received_samples_queue"}, Buffers} :
          /\ leaks < MaxLeaks
          /\ leaks' = leaks + 1
          /\ Dispose(handle, got, {"usb_device", "context"})
          /\ Return("error")
          /\ UNCHANGED <<handle, search>>

(* The stored configuration is read; whatever comes of it, the device is   *)
(* open.                                                                   *)
OpenReturns ==
  /\ step = "config"
  /\ Acquire({"iq_balancer", "consumer_cv"})
  /\ Return("success")
  /\ UNCHANGED <<usb_device, tables, handle, search, leaks>>

(* airspyhf_close: airspyhf_stop, whose result it returns, free_transfers, *)
(* airspyhf_open_exit, and the rest.                                       *)
Close(h) ==
  /\ step = "idle" /\ fields[h] # {}
  /\ Dispose(h, {}, fields[h])
  /\ result' \in {"success", "error"}
  /\ UNCHANGED <<step, handle, search, leaks>>
-----------------------------------------------------------------------------
(* airspyhf_list_devices.  When libusb_get_device_list fails the context   *)
(* is not given back.                                                      *)
List(n) ==
  /\ step = "idle"
  /\ handle' = NoHandle /\ limit' = n
  /\ \/ /\ step' = "list"
        /\ devices' \in DeviceLists
        /\ allocated' = Balance({"context"}, {})
        /\ UNCHANGED <<result, leaks>>
     \/ Return("error") /\ UNCHANGED <<devices, allocated, leaks>>
     \/ /\ Return("error") /\ UNCHANGED devices
        /\ leaks < MaxLeaks
        /\ leaks' = leaks + 1
        /\ allocated' = Balance({"context"}, {})
  /\ UNCHANGED <<device, serial, output, seen, refused>>

Room == IF limit = NoLimit THEN TRUE ELSE Len(output) < limit

(* A device is opened, its serial number read, and the device closed.      *)
ListVisitIf(room) ==
  LET d == Head(devices) IN
  /\ step = "list" /\ devices # <<>> /\ room
  /\ Visit
  /\ \/ /\ Serial(d) # NoSerial
        /\ output' = Append(output, Serial(d))
        /\ UNCHANGED refused
     \/ /\ refused' = refused \union {d}
        /\ UNCHANGED output
  /\ UNCHANGED <<allocated, device, step, handle, serial, limit, result, leaks>>

(* Mutant: the limit is tested too late. *)
ListOneMore == ListVisitIf(limit # NoLimit => Len(output) <= limit)
ListVisit == ListVisitIf(Room)

ListReturns ==
  /\ step = "list" /\ (devices = <<>> \/ ~Room)
  /\ allocated' = Balance({}, {"context"})
  /\ Return("success") /\ SearchEnds
  /\ output' = <<>> /\ limit' = NoLimit
  /\ UNCHANGED <<device, handle, serial, leaks>>

Next ==
  \/ \E h \in Handles : OpenFd(h) \/ Close(h)
  \/ \E h \in Handles, s \in Serials : Open(h, s)
  \/ GetDeviceList \/ Scan \/ NotFound
  \/ ReadCount \/ ReadRates \/ ReadArchitectures \/ ReadAttSteps
  \/ AllocateTransfers \/ OpenReturns
  \/ \E n \in (0 .. Cardinality(Devices)) \union {NoLimit} : List(n)
  \/ ListVisit \/ ListReturns

Spec == Init /\ [][Next]_vars
-----------------------------------------------------------------------------
(* Types. *)
TypeOK ==
  /\ {devices, seen} \subseteq Seq(Devices)
  /\ allocated \in [Resources -> Int]
  /\ fields \in [Handles -> SUBSET Resources]
  /\ usb_device \in [Handles -> Devices \union {NoDevice}]
  /\ tables \in [Handles -> Tables]
  /\ step \in Steps
  /\ handle \in Handles \union {NoHandle}
  /\ serial \in Serials
  /\ limit \in Nat \union {NoLimit}
  /\ output \in Seq(Serials)
  /\ result \in {"none", "success", "error", "unsupported"}
  /\ refused \subseteq Devices
  /\ leaks \in 0 .. MaxLeaks

(* After every call, whatever failed in it, each device that is open has   *)
(* all of its resources, and nothing else is left allocated, but for the   *)
(* two calls that forget: airspyhf_open when the buffers cannot be         *)
(* allocated, and airspyhf_list_devices without a device list.             *)
Owners(r) == {h \in Handles : r \in fields[h]}
Forgotten == Buffers \union {"samplerates", "architectures", "att_steps", "context"}

NothingElseLeaks ==
  step = "idle" =>
    /\ \A h \in Handles : fields[h] \in {{}, Resources}
    /\ \A r \in Resources :
         allocated[r] - Cardinality(Owners(r))
           \in 0 .. (IF r \in Forgotten THEN leaks ELSE 0)

(* No two open devices of the application are the same one, also while one *)
(* of them is still being opened.                                          *)
OneOwner ==
  \A g, h \in Handles :
    (g # h /\ usb_device[g] # NoDevice) => usb_device[g] # usb_device[h]

(* The search ends at the first device that was asked for and did not      *)
(* refuse, and without one only after all that were asked for did.         *)
SearchThorough ==
  [][(step = "scan" /\ step' # "scan") =>
       /\ \A n \in 1 .. Len(seen) : Matches(seen[n]) => seen[n] \in refused
       /\ IF step' = "idle" THEN devices = <<>>
          ELSE Matches(usb_device'[handle]) /\ usb_device'[handle] = Head(devices)]_vars

(* Whichever read fails, the number of sample rates, the rates and their   *)
(* architectures belong together in every device that is open: no table is *)
(* missing, shorter than the number says, or assumed for the rates of the  *)
(* firmware, but for architectures all taken for Zero-IF.  A read that     *)
(* comes short does not fail: the end of its table may be anything.        *)
TablesAgree ==
  \A h \in Handles :
    "iq_balancer" \in fields[h] =>
      \/ tables[h] = DefaultTables
      \/ /\ tables[h].count = FwCount
         /\ tables[h].rates \in Read
         /\ tables[h].architectures \in Read \union {"default"}

(* airspyhf_list_devices returns the numbers of the devices it could read, *)
(* in their order, no more than asked for, and no fewer if there are more: *)
(* position[m] is where the search met the device of the m-th number.      *)
Lists(position) ==
  /\ \A m, n \in DOMAIN position : m < n => position[m] < position[n]
  /\ \A n \in 1 .. Len(seen) :
       seen[n] \notin refused <=> \E m \in DOMAIN position : position[m] = n
  /\ \A m \in DOMAIN position : output[m] = Serial(seen[position[m]])
OutputInOrder == \E position \in [1 .. Len(output) -> 1 .. Len(seen)] : Lists(position)

ListExact ==
  [][(step = "list" /\ step' = "idle") =>
       /\ OutputInOrder
       /\ limit # NoLimit => Len(output) <= limit
       /\ devices = <<>> \/ Len(output) = limit]_vars
=============================================================================
