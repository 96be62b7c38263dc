-------------------------- MODULE DeviceOpenProofs --------------------------
(***************************************************************************)
(* Opening devices, for every set of devices and handles: the search ends  *)
(* where it should, no device is opened twice, the tables of an open       *)
(* device belong together, no call leaks but the two that do, and the      *)
(* listing is exact.  OpenInv follows the call of airspyhf_open in         *)
(* progress through its steps, HeldInv and LeakInv its allocations,        *)
(* ListInv what airspyhf_list_devices has found.                           *)
(***************************************************************************)
EXTENDS DeviceOpen, FiniteSetTheorems, TLAPS

Opening == Steps \ {"idle", "list"}

(* The call in progress opens a device that is not ready yet. *)
CallInv == step \in Opening => handle \in Handles /\ "iq_balancer" \notin fields[handle]

(* The devices visited that were asked for have refused. *)
SearchInv ==
  /\ step = "scan" => \A n \in 1 .. Len(seen) : Matches(seen[n]) => seen[n] \in refused
  /\ step \notin {"scan", "list"} => seen = <<>> /\ refused = {}

(* The tables after each step of reading them. *)
Complete(t) ==
  \/ t = DefaultTables
  \/ /\ t.count = FwCount /\ t.rates \in Read
     /\ t.architectures \in Read \union {"default"}
TablesInv ==
  /\ step = "rates" => tables[handle].count = FwCount
  /\ step = "architectures" =>
       tables[handle].count = FwCount /\ tables[handle].rates \in Read
  /\ step \in {"att count", "att steps", "allocate", "config"} => Complete(tables[handle])

OpenInv == TypeOK /\ CallInv /\ SearchInv /\ TablesInv /\ OneOwner /\ TablesAgree

LEMMA OpenInit == Init => OpenInv
<1> SUFFICES ASSUME Init PROVE OpenInv
  OBVIOUS
<1>1. TypeOK
  <2>1. SERIAL_NUMBER_UNUSED \in Serials
    BY DEF Serials
  <2>2. NoTables \in Tables
    BY DEF NoTables, Tables, Sources
  <2> QED
    BY <2>1, <2>2, BoundsAssumption DEF Init, TypeOK, Steps
<1>2. CallInv /\ SearchInv /\ TablesInv /\ OneOwner /\ TablesAgree
  BY DEF Init, CallInv, Opening, SearchInv, TablesInv, OneOwner, TablesAgree
<1> QED
  BY <1>1, <1>2 DEF OpenInv
-----------------------------------------------------------------------------
LEMMA BalanceType ==
  ASSUME allocated \in [Resources -> Int], NEW got, NEW given
  PROVE  Balance(got, given) \in [Resources -> Int]
  BY DEF Balance

LEMMA EmptyType == \A S : <<>> \in Seq(S)
  OBVIOUS

LEMMA AppendType ==
  ASSUME NEW S, NEW s \in Seq(S), NEW x \in S PROVE Append(s, x) \in Seq(S)
  OBVIOUS

LEMMA CountType ==
  ASSUME NEW n \in 0 .. Cardinality(Devices) PROVE n \in Nat
  OBVIOUS

LEMMA DeviceListsType == DeviceLists \subseteq Seq(Devices)
<1> SUFFICES ASSUME NEW n \in 0 .. Cardinality(Devices), NEW s \in [1 .. n -> Devices]
             PROVE  s \in Seq(Devices)
  BY DEF DeviceLists
<1>1. n \in Nat
  OBVIOUS
<1> QED
  BY <1>1

LEMMA TablesTypes ==
  /\ NoTables \in Tables /\ DefaultTables \in Tables
  /\ [NoTables EXCEPT !.count = FwCount] \in Tables
  /\ \A t \in Tables, s \in Sources :
       [t EXCEPT !.rates = s] \in Tables /\ [t EXCEPT !.architectures = s] \in Tables
  BY DEF NoTables, DefaultTables, Tables, Sources

(* Types. *)
LEMMA AcquireType ==
  ASSUME TypeOK, handle \in Handles, NEW rs \in SUBSET Resources, Acquire(rs)
  PROVE  allocated' \in [Resources -> Int] /\ fields' \in [Handles -> SUBSET Resources]
<1>1. allocated' \in [Resources -> Int]
  BY BalanceType DEF Acquire, TypeOK
<1>2. fields' = [fields EXCEPT ![handle] = fields[handle] \union rs]
  BY DEF Acquire
<1>3. fields[handle] \union rs \in SUBSET Resources
  BY DEF TypeOK
<1> QED
  BY <1>1, <1>2, <1>3 DEF TypeOK

LEMMA DisposeType ==
  ASSUME TypeOK, NEW h \in Handles, NEW got, NEW rs, Dispose(h, got, rs)
  PROVE  /\ allocated' \in [Resources -> Int] /\ fields' \in [Handles -> SUBSET Resources]
         /\ usb_device' \in [Handles -> Devices \union {NoDevice}]
         /\ tables' \in [Handles -> Tables]
  BY BalanceType, TablesTypes DEF Dispose, TypeOK

LEMMA TypeStep == TypeOK /\ CallInv /\ [Next]_vars => TypeOK'
<1> SUFFICES ASSUME TypeOK, CallInv, [Next]_vars PROVE TypeOK'
  OBVIOUS
<1> USE DEF CallInv, Opening, Steps, device, search, Return, GoOn, SearchEnds
<1>1. ASSUME NEW h \in Handles, OpenFd(h) \/ Close(h) PROVE TypeOK'
  BY <1>1, DisposeType DEF OpenFd, Close, TypeOK
<1>2. ASSUME NEW h \in Handles, NEW s \in Serials, Open(h, s) PROVE TypeOK'
  <2>1. {"device", "context"} \in SUBSET Resources
    BY DEF Resources
  <2>2. allocated' \in [Resources -> Int] /\ fields' \in [Handles -> SUBSET Resources]
    <3>1. \/ /\ allocated' = Balance({"device", "context"}, {})
             /\ fields' = [fields EXCEPT ![h] = {"device", "context"}]
          \/ allocated' = allocated /\ fields' = fields
      BY <1>2 DEF Open
    <3>2. allocated \in [Resources -> Int] /\ fields \in [Handles -> SUBSET Resources]
      BY DEF TypeOK
    <3>3. allocated' \in [Resources -> Int]
      <4>1. Balance({"device", "context"}, {}) \in [Resources -> Int]
        BY <3>2, BalanceType
      <4> QED
        BY <3>1, <3>2, <4>1
    <3>4. fields' \in [Handles -> SUBSET Resources]
      BY <2>1, <3>1, <3>2
    <3> QED
      BY <3>3, <3>4
  <2>3. /\ handle' \in Handles /\ serial' \in Serials /\ step' \in Steps
        /\ result' \in {"none", "success", "error", "unsupported"}
        /\ UNCHANGED <<usb_device, tables, limit, devices, output, seen, refused, leaks>>
    BY <1>2 DEF Open, TypeOK
  <2> QED
    BY <2>2, <2>3 DEF TypeOK
<1>3. CASE GetDeviceList
  BY <1>3, DisposeType, DeviceListsType DEF GetDeviceList, TypeOK
<1>4. CASE Scan
  <2>1. /\ Head(devices) \in Devices /\ Tail(devices) \in Seq(Devices)
        /\ Append(seen, Head(devices)) \in Seq(Devices)
    BY <1>4 DEF Scan, ScanWhere, TypeOK
  <2>2. {"usb_device"} \in SUBSET Resources
    BY DEF Resources
  <2>3. handle \in Handles
    BY <1>4 DEF Scan, ScanWhere
  <2>4. allocated' \in [Resources -> Int] /\ fields' \in [Handles -> SUBSET Resources]
    <3>1. CASE Acquire({"usb_device"})
      BY <2>2, <2>3, <3>1, AcquireType
    <3>2. CASE (allocated' = Balance({}, {}) \/ allocated' = allocated) /\ fields' = fields
      <4>1. allocated \in [Resources -> Int] /\ fields \in [Handles -> SUBSET Resources]
        BY DEF TypeOK
      <4>2. Balance({}, {}) \in [Resources -> Int]
        BY <4>1, BalanceType
      <4> QED
        BY <3>2, <4>1, <4>2
    <3> QED
      BY <1>4, <3>1, <3>2 DEF Scan, ScanWhere
  <2>5. usb_device' \in [Handles -> Devices \union {NoDevice}]
    BY <1>4, <2>1, <2>3 DEF Scan, ScanWhere, TypeOK
  <2>6. {devices', seen'} \subseteq Seq(Devices) /\ refused' \subseteq Devices
    <3>1. CASE devices' = <<>> /\ seen' = <<>> /\ refused' = {}
      <4>1. <<>> \in Seq(Devices)
        BY EmptyType
      <4> QED
        BY <3>1, <4>1
    <3>2. CASE /\ devices' = Tail(devices) /\ seen' = Append(seen, Head(devices))
               /\ refused' \in {refused, refused \union {Head(devices)}}
      BY <2>1, <3>2 DEF TypeOK
    <3> QED
      BY <1>4, <3>1, <3>2 DEF Scan, ScanWhere, Visit
  <2>7. step' \in Steps /\ UNCHANGED <<tables, handle, serial, limit, output, result, leaks>>
    BY <1>4 DEF Scan, ScanWhere
  <2> QED
    BY <2>4, <2>5, <2>6, <2>7 DEF TypeOK
<1>5. CASE NotFound
  BY <1>5, DisposeType DEF NotFound, TypeOK
<1>6. CASE ReadCount
  <2>1. {"samplerates"} \in SUBSET Resources /\ {"samplerates", "architectures"} \in SUBSET Resources
    BY DEF Resources
  <2> QED
    BY <1>6, <2>1, AcquireType, TablesTypes DEF ReadCount, SetTables, TypeOK
<1>7. CASE ReadRates
  <2>1. {"architectures"} \in SUBSET Resources /\ Read \subseteq Sources
    BY DEF Resources, Sources
  <2>2. handle \in Handles /\ tables[handle] \in Tables
    BY <1>7 DEF ReadRates, TypeOK
  <2>3. allocated' \in [Resources -> Int] /\ fields' \in [Handles -> SUBSET Resources]
    BY <1>7, <2>1, <2>2, AcquireType DEF ReadRates
  <2>4. tables' \in [Handles -> Tables]
    <3>1. PICK t \in {DefaultTables} \union
                      {[tables[handle] EXCEPT !.rates = source] : source \in Read} :
            tables' = [tables EXCEPT ![handle] = t]
      BY <1>7 DEF ReadRates, SetTables
    <3>2. t \in Tables
      BY <2>1, <2>2, TablesTypes
    <3> QED
      BY <3>1, <3>2 DEF TypeOK
  <2> QED
    BY <1>7, <2>3, <2>4 DEF ReadRates, TypeOK
<1>8. CASE ReadArchitectures
  <2>1. handle \in Handles /\ tables[handle] \in Tables
    BY <1>8 DEF ReadArchitectures, TypeOK
  <2>2. tables' \in [Handles -> Tables]
    <3>1. PICK source \in Read \union {"default"} :
            tables' = [tables EXCEPT ![handle] = [tables[handle] EXCEPT !.architectures = source]]
      BY <1>8 DEF ReadArchitectures, SetTables
    <3>2. source \in Sources
      BY DEF Sources
    <3> QED
      BY <2>1, <3>1, <3>2, TablesTypes DEF TypeOK
  <2> QED
    BY <1>8, <2>2 DEF ReadArchitectures, TypeOK
<1>9. CASE ReadAttSteps
  <2>1. {"att_steps"} \in SUBSET Resources
    BY DEF Resources
  <2> QED
    BY <1>9, <2>1, AcquireType DEF ReadAttSteps, TypeOK
<1>10. CASE AllocateTransfers
  <2>1. Buffers \in SUBSET Resources
    BY DEF Resources
  <2>2. leaks' \in 0 .. MaxLeaks
    BY <1>10, BoundsAssumption DEF AllocateTransfers, TypeOK
  <2> QED
    BY <1>10, <2>1, <2>2, AcquireType, DisposeType DEF AllocateTransfers, TypeOK
<1>11. CASE OpenReturns
  <2>1. {"iq_balancer", "consumer_cv"} \in SUBSET Resources
    BY DEF Resources
  <2> QED
    BY <1>11, <2>1, AcquireType DEF OpenReturns, TypeOK
<1>12. ASSUME NEW n \in (0 .. Cardinality(Devices)) \union {NoLimit}, List(n) PROVE TypeOK'
  <2>1. n \in Nat \union {NoLimit}
    BY CountType
  <2>2. leaks' \in 0 .. MaxLeaks
    BY <1>12, BoundsAssumption DEF List, TypeOK
  <2>3. allocated' \in [Resources -> Int]
    BY <1>12, BalanceType DEF List, TypeOK
  <2>4. devices' \in Seq(Devices)
    BY <1>12, DeviceListsType DEF List, TypeOK
  <2>5. /\ step' \in Steps /\ handle' = NoHandle /\ limit' = n
        /\ result' \in {"none", "success", "error", "unsupported"}
        /\ UNCHANGED <<device, serial, output, seen, refused>>
    BY <1>12 DEF List, TypeOK
  <2> QED
    BY <2>1, <2>2, <2>3, <2>4, <2>5 DEF TypeOK
<1>13. CASE ListVisit
  <2>1. /\ Head(devices) \in Devices /\ Tail(devices) \in Seq(Devices)
        /\ Append(seen, Head(devices)) \in Seq(Devices)
    BY <1>13 DEF ListVisit, ListVisitIf, TypeOK
  <2>2. output' \in Seq(Serials)
    <3>1. CASE output' = output
      BY <3>1 DEF TypeOK
    <3>2. CASE output' = Append(output, Serial(Head(devices))) /\ Serial(Head(devices)) # NoSerial
      <4>1. Serial(Head(devices)) \in Serials
        BY <2>1, <3>2 DEF Serials
      <4>2. output \in Seq(Serials)
        BY DEF TypeOK
      <4> QED
        BY <3>2, <4>1, <4>2, AppendType
    <3> QED
      BY <1>13, <3>1, <3>2 DEF ListVisit, ListVisitIf
  <2> QED
    BY <1>13, <2>1, <2>2 DEF ListVisit, ListVisitIf, Visit, TypeOK
<1>14. CASE ListReturns
  <2>1. allocated' \in [Resources -> Int]
    BY <1>14, BalanceType DEF ListReturns, TypeOK
  <2> QED
    BY <1>14, <2>1 DEF ListReturns, TypeOK
<1>15. CASE UNCHANGED vars
  BY <1>15 DEF vars, TypeOK
<1> QED
  BY <1>1, <1>2, <1>3, <1>4, <1>5, <1>6, <1>7, <1>8, <1>9, <1>10, <1>11, <1>12, <1>13,
     <1>14, <1>15 DEF Next
-----------------------------------------------------------------------------
(* What an opening call acquires makes no device ready, but at its end. *)
LEMMA AcquireEffect ==
  ASSUME fields \in [Handles -> SUBSET Resources], handle \in Handles,
         NEW rs, "iq_balancer" \notin rs, Acquire(rs)
  PROVE  \A h \in Handles : "iq_balancer" \in fields'[h] <=> "iq_balancer" \in fields[h]
<1>1. fields' = [fields EXCEPT ![handle] = fields[handle] \union rs]
  BY DEF Acquire
<1> QED
  BY <1>1

(* The steps of a call: where each may lead, and what it leaves alone. *)
LEMMA CallStep == OpenInv /\ [Next]_vars => CallInv'
<1> SUFFICES ASSUME OpenInv, [Next]_vars PROVE CallInv'
  OBVIOUS
<1> USE DEF CallInv, Opening, Steps, device, Return, GoOn
<1>0. handle \in Handles \union {NoHandle} /\ fields \in [Handles -> SUBSET Resources]
  BY DEF OpenInv, TypeOK
<1>a. ASSUME NEW rs, "iq_balancer" \notin rs, Acquire(rs), step \in Opening, handle' = handle
      PROVE  CallInv'
  <2>1. handle \in Handles /\ "iq_balancer" \notin fields[handle]
    BY <1>a DEF OpenInv
  <2> QED
    BY <1>0, <1>a, <2>1, AcquireEffect
<1>1. ASSUME NEW h \in Handles, OpenFd(h) \/ Close(h) PROVE CallInv'
  BY <1>1 DEF OpenFd, Close
<1>2. ASSUME NEW h \in Handles, NEW s \in Serials, Open(h, s) PROVE CallInv'
  <2>1. CASE step' = "idle"
    BY <2>1
  <2>2. CASE handle' = h /\ fields' = [fields EXCEPT ![h] = {"device", "context"}]
    BY <1>0, <2>2
  <2> QED
    BY <1>2, <2>1, <2>2 DEF Open
<1>3. CASE GetDeviceList
  BY <1>3 DEF GetDeviceList, OpenInv
<1>4. CASE Scan
  <2>1. CASE Acquire({"usb_device"}) /\ handle' = handle /\ step = "scan"
    BY <1>a, <2>1
  <2>2. CASE UNCHANGED <<fields, handle, step>>
    BY <2>2 DEF OpenInv
  <2> QED
    BY <1>4, <2>1, <2>2 DEF Scan, ScanWhere
<1>5. CASE NotFound \/ OpenReturns
  BY <1>5 DEF NotFound, OpenReturns
<1>6. CASE ReadCount
  BY <1>a, <1>6 DEF ReadCount
<1>7. CASE ReadRates
  BY <1>a, <1>7 DEF ReadRates
<1>8. CASE ReadArchitectures
  BY <1>8 DEF ReadArchitectures, OpenInv
<1>9. CASE ReadAttSteps
  <2>1. CASE Acquire({"att_steps"})
    BY <1>a, <1>9, <2>1 DEF ReadAttSteps
  <2>2. CASE UNCHANGED <<fields, handle>> /\ step \in Opening
    BY <2>2 DEF OpenInv
  <2> QED
    BY <1>9, <2>1, <2>2 DEF ReadAttSteps
<1>10. CASE AllocateTransfers
  BY <1>a, <1>10 DEF AllocateTransfers, Buffers
<1>11. ASSUME NEW n, List(n) PROVE CallInv'
  BY <1>11 DEF List
<1>12. CASE ListVisit \/ ListReturns
  BY <1>12 DEF ListVisit, ListVisitIf, ListReturns
<1>13. CASE UNCHANGED vars
  BY <1>13 DEF vars, OpenInv
<1> QED
  BY <1>1, <1>2, <1>3, <1>4, <1>5, <1>6, <1>7, <1>8, <1>9, <1>10, <1>11, <1>12, <1>13
     DEF Next

(* The search goes on as long as those it asks for refuse. *)
LEMMA SearchStep == OpenInv /\ [Next]_vars => SearchInv'
<1> SUFFICES ASSUME OpenInv, [Next]_vars PROVE SearchInv'
  OBVIOUS
<1> USE DEF SearchInv, device, search, Return, GoOn, SearchEnds
<1>0. SearchInv
  BY DEF OpenInv
<1>1. ASSUME NEW h \in Handles, OpenFd(h) \/ Close(h) PROVE SearchInv'
  BY <1>0, <1>1 DEF OpenFd, Close, Matches
<1>2. ASSUME NEW h \in Handles, NEW s \in Serials, Open(h, s) PROVE SearchInv'
  BY <1>0, <1>2 DEF Open
<1>3. CASE GetDeviceList
  <2>1. seen' = <<>> /\ refused' = {} /\ Len(seen') = 0
    BY <1>0, <1>3 DEF GetDeviceList
  <2> QED
    BY <2>1
<1>4. CASE Scan
  <2>1. CASE SearchEnds /\ step' = "count"
    BY <2>1
  <2>2. CASE Visit /\ step' = "scan"
    <3>1. /\ serial' = serial
          /\ refused' \in {refused, refused \union {Head(devices)}}
          /\ Matches(Head(devices)) => Head(devices) \in refused'
          /\ devices # <<>> /\ step = "scan"
      BY <1>4, <2>2 DEF Scan, ScanWhere
    <3>2. Head(devices) \in Devices /\ seen \in Seq(Devices)
      BY <3>1 DEF OpenInv, TypeOK
    <3>3. seen' = Append(seen, Head(devices))
      BY <2>2 DEF Visit
    <3>4. ASSUME NEW n \in 1 .. Len(seen'),
                 serial' \in {SERIAL_NUMBER_UNUSED, Serial(seen'[n])}
          PROVE  seen'[n] \in refused'
      <4>1. Matches(seen'[n])
        BY <3>1, <3>4 DEF Matches
      <4>2. seen'[n] = Head(devices) \/ (n \in 1 .. Len(seen) /\ seen'[n] = seen[n])
        BY <3>2, <3>3
      <4> QED
        BY <1>0, <3>1, <4>1, <4>2
    <3> QED
      BY <2>2, <3>4 DEF Matches
  <2> QED
    BY <1>4, <2>1, <2>2 DEF Scan, ScanWhere
<1>5. CASE NotFound
  BY <1>5 DEF NotFound
<1>6. CASE ReadCount \/ ReadRates \/ ReadArchitectures \/ ReadAttSteps
  BY <1>0, <1>6 DEF ReadCount, ReadRates, ReadArchitectures, ReadAttSteps
<1>7. CASE AllocateTransfers \/ OpenReturns
  BY <1>0, <1>7 DEF AllocateTransfers, OpenReturns
<1>8. ASSUME NEW n, List(n) PROVE SearchInv'
  BY <1>0, <1>8 DEF List
<1>9. CASE ListVisit \/ ListReturns
  BY <1>9 DEF ListVisit, ListVisitIf, ListReturns
<1>10. CASE UNCHANGED vars
  BY <1>0, <1>10 DEF vars, Matches
<1> QED
  BY <1>1, <1>2, <1>3, <1>4, <1>5, <1>6, <1>7, <1>8, <1>9, <1>10 DEF Next

(* The device under a handle is another one for each. *)
LEMMA OwnerStep == OpenInv /\ [Next]_vars => OneOwner'
<1> SUFFICES ASSUME OpenInv, [Next]_vars PROVE OneOwner'
  OBVIOUS
<1> USE DEF OneOwner, device, GoOn
<1>0. OneOwner /\ usb_device \in [Handles -> Devices \union {NoDevice}]
  BY DEF OpenInv, TypeOK
<1>1. ASSUME NEW h \in Handles, NEW got, NEW rs, Dispose(h, got, rs) PROVE OneOwner'
  BY <1>0, <1>1 DEF Dispose
<1>2. CASE Scan
  <2>1. CASE usb_device' = usb_device
    BY <1>0, <2>1
  <2>2. CASE ~Claimed(Head(devices)) /\ usb_device' = [usb_device EXCEPT ![handle] = Head(devices)]
    BY <1>0, <2>2 DEF Claimed
  <2> QED
    BY <1>2, <2>1, <2>2 DEF Scan, ScanWhere
<1>3. handle \in Handles \/ step \notin Opening
  BY DEF OpenInv, CallInv
<1>4. CASE UNCHANGED usb_device
  BY <1>0, <1>4
<1>5. CASE GetDeviceList \/ NotFound \/ AllocateTransfers
  BY <1>1, <1>3, <1>4, <1>5 DEF GetDeviceList, NotFound, AllocateTransfers, Opening, Steps
<1>6. ASSUME NEW h \in Handles, Close(h) PROVE OneOwner'
  BY <1>1, <1>6 DEF Close
<1> QED
  BY <1>2, <1>4, <1>5, <1>6 DEF Next, OpenFd, Open, ReadCount, ReadRates,
     ReadArchitectures, ReadAttSteps, OpenReturns, List, ListVisit, ListVisitIf,
     ListReturns, vars

(* The tables of the device being opened, and of those that are open. *)
LEMMA TablesStep == OpenInv /\ [Next]_vars => TablesInv' /\ TablesAgree'
<1> SUFFICES ASSUME OpenInv, [Next]_vars PROVE TablesInv' /\ TablesAgree'
  OBVIOUS
<1> USE DEF device, Return, GoOn
<1>0. /\ TablesInv /\ TablesAgree /\ CallInv
      /\ tables \in [Handles -> Tables] /\ fields \in [Handles -> SUBSET Resources]
  BY DEF OpenInv, TypeOK
<1>1. TablesAgree <=> \A h \in Handles : "iq_balancer" \in fields[h] => Complete(tables[h])
  BY DEF TablesAgree, Complete
<1>2. TablesAgree' <=>
        \A h \in Handles : "iq_balancer" \in fields'[h] => Complete(tables'[h])
  BY DEF TablesAgree, Complete, DefaultTables
<1>3. ASSUME NEW h \in Handles, NEW got, NEW rs, Dispose(h, got, rs) PROVE TablesAgree'
  BY <1>0, <1>1, <1>2, <1>3 DEF Dispose
<1>a. ASSUME NEW rs, "iq_balancer" \notin rs, Acquire(rs), handle \in Handles,
             UNCHANGED tables
      PROVE  TablesAgree'
  BY <1>0, <1>1, <1>2, <1>a, AcquireEffect
<1>b. ASSUME step \in Opening, NEW t, tables' = [tables EXCEPT ![handle] = t],
             \A h \in Handles : "iq_balancer" \in fields'[h] <=> "iq_balancer" \in fields[h]
      PROVE  TablesAgree' /\ tables'[handle] = t
  <2>1. handle \in Handles /\ "iq_balancer" \notin fields[handle]
    BY <1>0, <1>b DEF CallInv
  <2> QED
    BY <1>0, <1>1, <1>2, <1>b, <2>1
<1>4. ASSUME NEW h \in Handles, OpenFd(h) \/ Close(h) PROVE TablesInv' /\ TablesAgree'
  BY <1>0, <1>3, <1>4 DEF OpenFd, Close, TablesInv, TablesAgree
<1>5. ASSUME NEW h \in Handles, NEW s \in Serials, Open(h, s) PROVE TablesInv' /\ TablesAgree'
  <2>1. UNCHANGED tables /\ step' \in {"idle", "init"}
    BY <1>5 DEF Open
  <2>2. \A g \in Handles : "iq_balancer" \in fields'[g] => "iq_balancer" \in fields[g]
    BY <1>0, <1>5 DEF Open
  <2> QED
    BY <1>0, <1>1, <1>2, <2>1, <2>2 DEF TablesInv
<1>6. CASE GetDeviceList \/ NotFound
  BY <1>0, <1>1, <1>2, <1>3, <1>6
     DEF GetDeviceList, NotFound, TablesInv, CallInv, Opening, Steps
<1>7. CASE Scan
  <2>1. UNCHANGED tables /\ step' \in {"scan", "count"} /\ handle \in Handles
    BY <1>0, <1>7 DEF Scan, ScanWhere, CallInv, Opening, Steps
  <2>2. CASE Acquire({"usb_device"})
    BY <1>a, <2>1, <2>2 DEF TablesInv
  <2>3. CASE UNCHANGED fields
    BY <1>0, <1>1, <1>2, <2>1, <2>3 DEF TablesInv
  <2> QED
    BY <1>7, <2>2, <2>3 DEF Scan, ScanWhere
<1>8. CASE ReadCount
  <2>1. step \in Opening /\ handle \in Handles /\ handle' = handle
    BY <1>0, <1>8 DEF ReadCount, CallInv, Opening, Steps
  <2>2. CASE /\ tables' = [tables EXCEPT ![handle] = [NoTables EXCEPT !.count = FwCount]]
             /\ Acquire({"samplerates"}) /\ step' = "rates"
    <3>1. TablesAgree' /\ tables'[handle] = [NoTables EXCEPT !.count = FwCount]
      BY <1>0, <1>b, <2>1, <2>2, AcquireEffect
    <3> QED
      BY <2>1, <2>2, <3>1 DEF TablesInv, NoTables
  <2>3. CASE /\ tables' = [tables EXCEPT ![handle] = DefaultTables]
             /\ Acquire({"samplerates", "architectures"}) /\ step' = "att count"
    <3>1. TablesAgree' /\ tables'[handle] = DefaultTables
      BY <1>0, <1>b, <2>1, <2>3, AcquireEffect
    <3> QED
      BY <2>1, <2>3, <3>1 DEF TablesInv, Complete, DefaultTables
  <2> QED
    BY <1>8, <2>2, <2>3 DEF ReadCount, SetTables
<1>9. CASE ReadRates
  <2>1. /\ step \in Opening /\ handle \in Handles /\ handle' = handle
        /\ Acquire({"architectures"})
    BY <1>0, <1>9 DEF ReadRates, CallInv, Opening, Steps
  <2>2. ASSUME NEW source \in Read,
               tables' = [tables EXCEPT ![handle] = [tables[handle] EXCEPT !.rates = source]],
               step' = "architectures"
        PROVE  TablesInv' /\ TablesAgree'
    <3>1. TablesAgree' /\ tables'[handle] = [tables[handle] EXCEPT !.rates = source]
      BY <1>0, <1>b, <2>1, <2>2, AcquireEffect
    <3>2. tables[handle] \in Tables /\ tables[handle].count = FwCount
      BY <1>0, <1>9, <2>1 DEF TablesInv, ReadRates
    <3>3. tables'[handle].count = FwCount /\ tables'[handle].rates \in Read
      BY <2>2, <3>1, <3>2 DEF Tables
    <3> QED
      BY <2>1, <2>2, <3>1, <3>3 DEF TablesInv
  <2>3. CASE tables' = [tables EXCEPT ![handle] = DefaultTables] /\ step' = "att count"
    <3>1. TablesAgree' /\ tables'[handle] = DefaultTables
      BY <1>0, <1>b, <2>1, <2>3, AcquireEffect
    <3> QED
      BY <2>1, <2>3, <3>1 DEF TablesInv, Complete, DefaultTables
  <2> QED
    BY <1>9, <2>2, <2>3 DEF ReadRates, SetTables
<1>10. CASE ReadArchitectures
  <2>1. /\ step \in Opening /\ handle \in Handles /\ handle' = handle
        /\ step' = "att count" /\ UNCHANGED fields
    BY <1>0, <1>10 DEF ReadArchitectures, CallInv, Opening, Steps
  <2>2. PICK source \in Read \union {"default"} :
          tables' = [tables EXCEPT ![handle] = [tables[handle] EXCEPT !.architectures = source]]
    BY <1>10 DEF ReadArchitectures, SetTables
  <2>3. TablesAgree' /\ tables'[handle] = [tables[handle] EXCEPT !.architectures = source]
    BY <1>b, <2>1, <2>2
  <2>4. /\ tables[handle] \in Tables /\ tables[handle].count = FwCount
        /\ tables[handle].rates \in Read
    BY <1>0, <1>10, <2>1 DEF TablesInv, ReadArchitectures
  <2>5. /\ tables'[handle].count = FwCount /\ tables'[handle].rates \in Read
        /\ tables'[handle].architectures \in Read \union {"default"}
    BY <2>2, <2>3, <2>4 DEF Tables
  <2> QED
    BY <2>1, <2>3, <2>5 DEF TablesInv, Complete
<1>11. CASE ReadAttSteps
  BY <1>0, <1>1, <1>2, <1>11 DEF ReadAttSteps, Acquire, TablesInv
<1>12. CASE AllocateTransfers
  BY <1>0, <1>1, <1>2, <1>3, <1>12
     DEF AllocateTransfers, Acquire, Buffers, TablesInv, CallInv, Opening, Steps
<1>13. CASE OpenReturns
  BY <1>0, <1>1, <1>2, <1>13 DEF OpenReturns, Acquire, TablesInv
<1>14. ASSUME NEW n, List(n) PROVE TablesInv' /\ TablesAgree'
  BY <1>0, <1>14 DEF List, TablesInv, TablesAgree
<1>15. CASE ListVisit \/ ListReturns
  BY <1>0, <1>15 DEF ListVisit, ListVisitIf, ListReturns, TablesInv, TablesAgree
<1>16. CASE UNCHANGED vars
  BY <1>0, <1>16 DEF vars, TablesInv, TablesAgree, Complete
<1> QED
  BY <1>4, <1>5, <1>6, <1>7, <1>8, <1>9, <1>10, <1>11, <1>12, <1>13, <1>14, <1>15, <1>16
     DEF Next
-----------------------------------------------------------------------------
(* The invariant of opening and closing devices.                           *)
THEOREM OpenInvariant == Spec => []OpenInv
<1>1. Init => OpenInv
  BY OpenInit
<1>2. OpenInv /\ [Next]_vars => OpenInv'
  BY TypeStep, CallStep, SearchStep, OwnerStep, TablesStep DEF OpenInv
<1> QED
  BY <1>1, <1>2, PTL DEF Spec

(* No device is opened twice at a time.                                    *)
THEOREM OneOwnerEach == Spec => []OneOwner
<1>1. OpenInv => OneOwner
  BY DEF OpenInv
<1> QED
  BY <1>1, OpenInvariant, PTL

(* The tables of an open device belong together, whichever reads failed or *)
(* came short while it was opened.                                         *)
THEOREM TablesBelongTogether == Spec => []TablesAgree
<1>1. OpenInv => TablesAgree
  BY DEF OpenInv
<1> QED
  BY <1>1, OpenInvariant, PTL

(* The search ends at the first device asked for that does not refuse, and *)
(* empty-handed only after all.                                            *)
THEOREM SearchIsThorough == Spec => SearchThorough
<1> DEFINE Thorough ==
      (step = "scan" /\ step' # "scan") =>
        /\ \A n \in 1 .. Len(seen) : Matches(seen[n]) => seen[n] \in refused
        /\ IF step' = "idle" THEN devices = <<>>
           ELSE Matches(usb_device'[handle]) /\ usb_device'[handle] = Head(devices)
<1>1. OpenInv /\ [Next]_vars => Thorough
  <2> SUFFICES ASSUME OpenInv, [Next]_vars, step = "scan", step' # "scan"
               PROVE  IF step' = "idle" THEN devices = <<>>
                      ELSE Matches(usb_device'[handle]) /\ usb_device'[handle] = Head(devices)
    BY DEF OpenInv, SearchInv
  <2>1. handle \in Handles /\ usb_device \in [Handles -> Devices \union {NoDevice}]
    BY DEF OpenInv, CallInv, TypeOK, Opening, Steps
  <2>2. Scan \/ NotFound
    BY DEF Next, OpenFd, Close, Open, GetDeviceList, ReadCount, ReadRates,
       ReadArchitectures, ReadAttSteps, AllocateTransfers, OpenReturns, List, ListVisit,
       ListVisitIf, ListReturns, vars
  <2> QED
    BY <2>1, <2>2 DEF Scan, ScanWhere, NotFound, Return
<1>2. OpenInv /\ [Next]_vars => [Thorough]_vars
  BY <1>1
<1> QED
  BY <1>2, OpenInvariant, PTL DEF Spec, SearchThorough
-----------------------------------------------------------------------------
(* The accounts of the allocations.  Before each of its steps an opening   *)
(* call has given its device the resources Held, every other device has    *)
(* all of them or none, and what is allocated beyond that is the context   *)
(* of airspyhf_list_devices and what the calls that leak have forgotten.   *)
Basic == {"device", "context"}
Fetched == Basic \union {"usb_device", "samplerates", "architectures"}
Held ==
  CASE step \in {"init", "scan"} -> Basic
    [] step = "count" -> Basic \union {"usb_device"}
    [] step = "rates" -> Basic \union {"usb_device", "samplerates"}
    [] step \in {"architectures", "att count"} -> Fetched
    [] step \in {"att steps", "allocate"} -> Fetched \union {"att_steps"}
    [] step = "config" -> Resources \ {"iq_balancer", "consumer_cv"}

Ready(h) == fields[h] \in {{}, Resources}
HeldInv ==
  /\ step \in Opening => fields[handle] = Held
  /\ \A h \in Handles : (step \in Opening /\ h = handle) \/ Ready(h)

Surplus(r) ==
  allocated[r] - Cardinality(Owners(r)) - (IF step = "list" /\ r = "context" THEN 1 ELSE 0)
LeakInv ==
  \A r \in Resources :
    IsFiniteSet(Owners(r)) /\ Surplus(r) \in 0 .. (IF r \in Forgotten THEN leaks ELSE 0)

(* A device becomes an owner of what it is given ...                       *)
LEMMA OwnersGain ==
  ASSUME fields \in [Handles -> SUBSET Resources], NEW h \in Handles, NEW rs,
         rs \cap fields[h] = {}, fields' = [fields EXCEPT ![h] = fields[h] \union rs],
         NEW r \in Resources, IsFiniteSet(Owners(r))
  PROVE  /\ IsFiniteSet(Owners(r)')
         /\ Cardinality(Owners(r)') = Cardinality(Owners(r)) + (IF r \in rs THEN 1 ELSE 0)
<1>1. Cardinality(Owners(r)) \in Nat
  BY FS_CardinalityType
<1>2. CASE r \in rs
  <2>1. Owners(r)' = Owners(r) \union {h} /\ h \notin Owners(r)
    BY <1>2 DEF Owners
  <2>2. /\ IsFiniteSet(Owners(r) \union {h})
        /\ Cardinality(Owners(r) \union {h}) = Cardinality(Owners(r)) + 1
    BY <2>1, FS_AddElement
  <2> QED
    BY <1>2, <2>1, <2>2
<1>3. CASE r \notin rs
  <2>1. Owners(r)' = Owners(r)
    BY <1>3 DEF Owners
  <2> QED
    BY <1>1, <1>3, <2>1
<1> QED
  BY <1>2, <1>3

(* ... and when it is freed no longer owns what it had.                    *)
LEMMA OwnersLose ==
  ASSUME fields \in [Handles -> SUBSET Resources], NEW h \in Handles,
         fields' = [fields EXCEPT ![h] = {}],
         NEW r \in Resources, IsFiniteSet(Owners(r))
  PROVE  /\ IsFiniteSet(Owners(r)')
         /\ Cardinality(Owners(r)')
              = Cardinality(Owners(r)) - (IF r \in fields[h] THEN 1 ELSE 0)
<1>1. Cardinality(Owners(r)) \in Nat
  BY FS_CardinalityType
<1>2. CASE r \in fields[h]
  <2>1. Owners(r)' = Owners(r) \ {h} /\ h \in Owners(r)
    BY <1>2 DEF Owners
  <2>2. /\ IsFiniteSet(Owners(r) \ {h})
        /\ Cardinality(Owners(r) \ {h}) = Cardinality(Owners(r)) - 1
    BY <2>1, FS_RemoveElement
  <2> QED
    BY <1>2, <2>1, <2>2
<1>3. CASE r \notin fields[h]
  <2>1. Owners(r)' = Owners(r)
    BY <1>3 DEF Owners
  <2> QED
    BY <1>1, <1>3, <2>1
<1> QED
  BY <1>2, <1>3

(* What an opening call acquires goes to its device.                       *)
LEMMA AcquireLeaks ==
  ASSUME TypeOK, LeakInv, NEW h \in Handles, NEW rs, allocated' = Balance(rs, {}),
         fields' = [fields EXCEPT ![h] = fields[h] \union rs],
         rs \cap fields[h] = {}, step # "list", step' # "list", UNCHANGED leaks
  PROVE  LeakInv'
<1> SUFFICES ASSUME NEW r \in Resources
             PROVE  /\ IsFiniteSet(Owners(r)')
                    /\ Surplus(r)' \in 0 .. (IF r \in Forgotten THEN leaks ELSE 0)
  BY DEF LeakInv
<1>1. allocated[r] \in Int /\ fields \in [Handles -> SUBSET Resources]
  BY DEF TypeOK
<1>2. /\ IsFiniteSet(Owners(r)) /\ Cardinality(Owners(r)) \in Nat
      /\ allocated[r] - Cardinality(Owners(r)) - 0 \in 0 .. (IF r \in Forgotten THEN leaks ELSE 0)
  BY FS_CardinalityType DEF LeakInv, Surplus
<1>3. /\ IsFiniteSet(Owners(r)')
      /\ Cardinality(Owners(r)') = Cardinality(Owners(r)) + (IF r \in rs THEN 1 ELSE 0)
  BY <1>1, <1>2, OwnersGain
<1>4. allocated'[r] = allocated[r] + (IF r \in rs THEN 1 ELSE 0) - 0
  BY DEF Balance
<1>5. Surplus(r)' = allocated'[r] - Cardinality(Owners(r)') - 0
  BY DEF Surplus
<1>6. allocated'[r] - Cardinality(Owners(r)') - 0 = allocated[r] - Cardinality(Owners(r)) - 0
  BY <1>1, <1>2, <1>3, <1>4
<1> QED
  BY <1>2, <1>3, <1>5, <1>6

(* When a device is freed, what it owned is given back, but for resources  *)
(* that a call which leaks forgets.                                        *)
LEMMA DisposeLeaks ==
  ASSUME TypeOK, LeakInv, NEW h \in Handles, NEW got, NEW rs, Dispose(h, got, rs),
         leaks' \in {leaks, leaks + 1}, step # "list", step' # "list",
         got \cap fields[h] = {}, rs \union {"device"} \subseteq fields[h],
         leaks' = leaks => rs \union {"device"} = fields[h] /\ got = {},
         got \union (fields[h] \ (rs \union {"device"})) \subseteq Forgotten
  PROVE  LeakInv'
<1> SUFFICES ASSUME NEW r \in Resources
             PROVE  /\ IsFiniteSet(Owners(r)')
                    /\ Surplus(r)' \in 0 .. (IF r \in Forgotten THEN leaks' ELSE 0)
  BY DEF LeakInv
<1>1. /\ allocated[r] \in Int /\ fields \in [Handles -> SUBSET Resources]
      /\ leaks \in Nat
  BY DEF TypeOK
<1>2. /\ IsFiniteSet(Owners(r)) /\ Cardinality(Owners(r)) \in Nat
      /\ allocated[r] - Cardinality(Owners(r)) - 0 \in 0 .. (IF r \in Forgotten THEN leaks ELSE 0)
  BY FS_CardinalityType DEF LeakInv, Surplus
<1>3. /\ IsFiniteSet(Owners(r)')
      /\ Cardinality(Owners(r)')
           = Cardinality(Owners(r)) - (IF r \in fields[h] THEN 1 ELSE 0)
  BY <1>1, <1>2, OwnersLose DEF Dispose
<1>4. allocated'[r] = allocated[r] + (IF r \in got THEN 1 ELSE 0)
                                   - (IF r \in rs \union {"device"} THEN 1 ELSE 0)
  BY DEF Dispose, Balance
<1>5. Surplus(r)' = allocated'[r] - Cardinality(Owners(r)') - 0
  BY DEF Surplus
<1> DEFINE old == allocated[r] - Cardinality(Owners(r)) - 0
           new == allocated'[r] - Cardinality(Owners(r)') - 0
<1>6. CASE r \in got \/ (r \in fields[h] /\ r \notin rs \union {"device"})
  <2>1. r \in Forgotten /\ leaks' = leaks + 1
    BY <1>6
  <2>2. new = old + 1
    BY <1>1, <1>2, <1>3, <1>4, <1>6
  <2>3. old \in 0 .. leaks
    BY <1>2, <2>1
  <2>4. new \in 0 .. leaks'
    <3> HIDE DEF old, new
    <3> QED
      BY <1>1, <2>1, <2>2, <2>3
  <2> QED
    BY <1>3, <1>5, <2>1, <2>4
<1>7. CASE r \notin got /\ (r \in fields[h] <=> r \in rs \union {"device"})
  <2>1. new = old
    BY <1>1, <1>2, <1>3, <1>4, <1>7
  <2>2. old \in 0 .. (IF r \in Forgotten THEN leaks ELSE 0)
    BY <1>2
  <2>3. new \in 0 .. (IF r \in Forgotten THEN leaks' ELSE 0)
    <3> HIDE DEF old, new
    <3> QED
      BY <1>1, <2>1, <2>2
  <2> QED
    BY <1>3, <1>5, <2>3
<1> QED
  BY <1>6, <1>7

(* Other calls touch no allocation, or the context of a list of devices.   *)
LEMMA LeaksKept ==
  ASSUME TypeOK, LeakInv, UNCHANGED <<allocated, fields, leaks>>,
         step' = "list" <=> step = "list"
  PROVE  LeakInv'
<1>1. \A r \in Resources : Owners(r)' = Owners(r) /\ Surplus(r)' = Surplus(r)
  BY DEF Owners, Surplus
<1> QED
  BY <1>1 DEF LeakInv

LEMMA ContextLeaks ==
  ASSUME TypeOK, LeakInv, UNCHANGED fields,
         \/ /\ allocated' = Balance({"context"}, {})
            /\ step # "list" /\ step' = "list" /\ UNCHANGED leaks
         \/ /\ allocated' = Balance({"context"}, {})
            /\ step # "list" /\ step' # "list" /\ leaks' = leaks + 1
         \/ /\ allocated' = Balance({}, {"context"})
            /\ step = "list" /\ step' # "list" /\ UNCHANGED leaks
  PROVE  LeakInv'
<1> SUFFICES ASSUME NEW r \in Resources
             PROVE  /\ IsFiniteSet(Owners(r)')
                    /\ Surplus(r)' \in 0 .. (IF r \in Forgotten THEN leaks' ELSE 0)
  BY DEF LeakInv
<1>1. /\ allocated[r] \in Int /\ leaks \in Nat
      /\ IsFiniteSet(Owners(r)) /\ Cardinality(Owners(r)) \in Nat
      /\ Surplus(r) \in 0 .. (IF r \in Forgotten THEN leaks ELSE 0)
  BY FS_CardinalityType DEF TypeOK, LeakInv
<1>2. Owners(r)' = Owners(r)
  BY DEF Owners
<1>3. CASE r # "context"
  <2>1. allocated'[r] = allocated[r] + 0 - 0
    BY <1>3 DEF Balance
  <2>2. Surplus(r)' = Surplus(r)
    BY <1>1, <1>2, <1>3, <2>1 DEF Surplus
  <2>3. leaks' \in Nat /\ leaks <= leaks'
    BY <1>1
  <2> QED
    BY <1>1, <1>2, <2>2, <2>3
<1>4. CASE r = "context"
  <2>1. r \in Forgotten
    BY <1>4 DEF Forgotten
  <2>2. /\ Balance({"context"}, {})[r] = allocated[r] + 1 - 0
        /\ Balance({}, {"context"})[r] = allocated[r] + 0 - 1
    BY <1>4 DEF Balance
  <2>3. \/ Surplus(r)' = Surplus(r) /\ leaks' = leaks
        \/ Surplus(r)' = Surplus(r) + 1 /\ leaks' = leaks + 1
    BY <1>1, <1>2, <1>4, <2>2 DEF Surplus
  <2> QED
    <3>1. Surplus(r) \in 0 .. leaks /\ leaks \in Nat
      BY <1>1, <2>1
    <3>2. Surplus(r)' \in 0 .. leaks'
      BY <2>3, <3>1
    <3>3. IsFiniteSet(Owners(r)')
      BY <1>1, <1>2
    <3> QED
      BY <2>1, <3>2, <3>3
<1> QED
  BY <1>3, <1>4

(* Nothing is lost by any step, but for the calls that leak.               *)
LEMMA LeakStep == OpenInv /\ HeldInv /\ LeakInv /\ [Next]_vars => LeakInv'
<1> SUFFICES ASSUME OpenInv, HeldInv, LeakInv, [Next]_vars PROVE LeakInv'
  OBVIOUS
<1> USE DEF device, search, Return, GoOn
<1>0. TypeOK /\ (step \in Opening => handle \in Handles)
  BY DEF OpenInv, CallInv
<1>a. ASSUME NEW rs, Acquire(rs), step \in Opening, step' # "list", UNCHANGED leaks,
             rs \cap fields[handle] = {}
      PROVE  LeakInv'
  <2>1. step # "list" /\ handle \in Handles
    BY <1>0, <1>a DEF Opening
  <2>2. /\ allocated' = Balance(rs, {})
        /\ fields' = [fields EXCEPT ![handle] = fields[handle] \union rs]
    BY <1>a DEF Acquire
  <2> QED
    BY <1>0, <1>a, <2>1, <2>2, AcquireLeaks
<1>b. step \in Opening => fields[handle] = Held
  BY DEF HeldInv
<1>1. ASSUME NEW h \in Handles, OpenFd(h) PROVE LeakInv'
  BY <1>0, <1>1, LeaksKept DEF OpenFd
<1>2. ASSUME NEW h \in Handles, Close(h) PROVE LeakInv'
  <2>1. fields[h] = Resources /\ "device" \in Resources
    BY <1>2 DEF HeldInv, Ready, Opening, Close, Resources
  <2>2. Dispose(h, {}, fields[h]) /\ step = "idle" /\ step' = "idle" /\ leaks' = leaks
    BY <1>2 DEF Close
  <2> QED
    BY <1>0, <2>1, <2>2, DisposeLeaks
<1>3. ASSUME NEW h \in Handles, NEW s \in Serials, Open(h, s) PROVE LeakInv'
  <2>1. CASE step' = "init"
    <3>1. /\ allocated' = Balance({"device", "context"}, {})
          /\ fields' = [fields EXCEPT ![h] = fields[h] \union {"device", "context"}]
          /\ {"device", "context"} \cap fields[h] = {}
      BY <1>3, <2>1 DEF Open
    <3> QED
      BY <1>0, <1>3, <2>1, <3>1, AcquireLeaks DEF Open
  <2>2. CASE step' = "idle"
    BY <1>0, <1>3, <2>2, LeaksKept DEF Open
  <2> QED
    BY <1>3, <2>1, <2>2 DEF Open
<1>4. CASE GetDeviceList \/ NotFound
  <2>1. CASE Dispose(handle, {}, {"context"}) /\ step' = "idle"
    <3>1. step \in Opening /\ handle \in Handles /\ fields[handle] = {"context", "device"}
      BY <1>0, <1>4 DEF GetDeviceList, NotFound, Opening, Steps, HeldInv, Held, Basic
    <3>2. leaks' = leaks /\ step # "list"
      BY <1>4 DEF GetDeviceList, NotFound
    <3> QED
      BY <1>0, <2>1, <3>1, <3>2, DisposeLeaks
  <2>2. CASE UNCHANGED <<allocated, fields, leaks>> /\ step # "list" /\ step' # "list"
    BY <1>0, <2>2, LeaksKept
  <2> QED
    BY <1>4, <2>1, <2>2 DEF GetDeviceList, NotFound
<1>5. CASE Scan
  <2>1. step \in Opening /\ step' # "list" /\ leaks' = leaks
    BY <1>5 DEF Scan, ScanWhere, Opening, Steps
  <2>2. CASE Acquire({"usb_device"})
    <3>1. {"usb_device"} \cap fields[handle] = {}
      BY <1>5, <1>b, <2>1 DEF Scan, ScanWhere, Held, Basic
    <3> QED
      BY <1>a, <2>1, <2>2, <3>1
  <2>3. CASE UNCHANGED fields /\ (allocated' = allocated \/ allocated' = Balance({}, {}))
    <3>1. allocated' = allocated
      <4>1. allocated \in [Resources -> Int]
        BY <1>0 DEF TypeOK
      <4>2. Balance({}, {}) = allocated
        BY <4>1 DEF Balance
      <4> QED
        BY <2>3, <4>2
    <3> QED
      BY <1>0, <2>1, <2>3, <3>1, LeaksKept DEF Opening
  <2> QED
    BY <1>5, <2>2, <2>3 DEF Scan, ScanWhere
<1>6. CASE ReadCount
  <2>1. /\ step \in Opening /\ step' # "list" /\ leaks' = leaks
        /\ fields[handle] = Basic \union {"usb_device"}
    BY <1>6, <1>b DEF ReadCount, Opening, Steps, Held
  <2>2. CASE Acquire({"samplerates"})
    BY <1>a, <2>1, <2>2 DEF Basic
  <2>3. CASE Acquire({"samplerates", "architectures"})
    BY <1>a, <2>1, <2>3 DEF Basic
  <2> QED
    BY <1>6, <2>2, <2>3 DEF ReadCount
<1>7. CASE ReadRates
  <2>1. /\ step \in Opening /\ step' # "list" /\ leaks' = leaks
        /\ fields[handle] = Basic \union {"usb_device", "samplerates"}
    BY <1>7, <1>b DEF ReadRates, Opening, Steps, Held
  <2> QED
    BY <1>7, <1>a, <2>1 DEF ReadRates, Basic
<1>8. CASE ReadArchitectures
  BY <1>0, <1>8, LeaksKept DEF ReadArchitectures
<1>9. CASE ReadAttSteps
  <2>1. CASE Acquire({"att_steps"}) /\ step = "att count"
    <3>1. /\ step \in Opening /\ step' # "list" /\ leaks' = leaks
          /\ fields[handle] = Fetched
      BY <1>9, <1>b, <2>1 DEF ReadAttSteps, Opening, Steps, Held
    <3> QED
      BY <1>a, <2>1, <3>1 DEF Fetched, Basic
  <2>2. CASE step = "att steps"
    BY <1>0, <1>9, <2>2, LeaksKept DEF ReadAttSteps
  <2> QED
    BY <1>9, <2>1, <2>2 DEF ReadAttSteps
<1>10. CASE AllocateTransfers
  <2>1. /\ step \in Opening /\ step' # "list" /\ step # "list" /\ handle \in Handles
        /\ fields[handle] = Fetched \union {"att_steps"}
    BY <1>0, <1>10, <1>b DEF AllocateTransfers, Opening, Steps, Held
  <2>2. CASE Acquire(Buffers) /\ leaks' = leaks
    BY <1>a, <2>1, <2>2 DEF Buffers, Fetched, Basic
  <2>3. ASSUME NEW got \in {{"output_buffer", "received_samples_queue"}, Buffers},
               Dispose(handle, got, {"usb_device", "context"}), leaks' = leaks + 1
        PROVE  LeakInv'
    <3>1. got \subseteq Buffers
      BY DEF Buffers
    <3>2. /\ got \cap fields[handle] = {}
          /\ {"usb_device", "context"} \union {"device"} \subseteq fields[handle]
          /\ got \union (fields[handle] \ ({"usb_device", "context"} \union {"device"}))
               \subseteq Forgotten
      BY <2>1, <3>1 DEF Buffers, Fetched, Basic, Forgotten
    <3>3. leaks \in Nat
      BY <1>0 DEF TypeOK
    <3>4. leaks' # leaks
      BY <2>3, <3>3
    <3> QED
      BY <1>0, <2>1, <2>3, <3>2, <3>4, DisposeLeaks
  <2> QED
    BY <1>10, <2>2, <2>3 DEF AllocateTransfers
<1>11. CASE OpenReturns
  <2>1. /\ step \in Opening /\ step' # "list" /\ leaks' = leaks
        /\ fields[handle] = Resources \ {"iq_balancer", "consumer_cv"}
    BY <1>11, <1>b DEF OpenReturns, Opening, Steps, Held
  <2> QED
    BY <1>11, <1>a, <2>1 DEF OpenReturns
<1>12. ASSUME NEW n, List(n) PROVE LeakInv'
  <2>1. UNCHANGED fields /\ step = "idle"
    BY <1>12 DEF List
  <2>2. CASE UNCHANGED <<allocated, leaks>> /\ step' = "idle"
    BY <1>0, <2>1, <2>2, LeaksKept
  <2>3. CASE /\ allocated' = Balance({"context"}, {})
             /\ \/ step' = "list" /\ UNCHANGED leaks
                \/ step' = "idle" /\ leaks' = leaks + 1
    BY <1>0, <2>1, <2>3, ContextLeaks
  <2> QED
    BY <1>12, <2>2, <2>3 DEF List
<1>13. CASE ListVisit
  BY <1>0, <1>13, LeaksKept DEF ListVisit, ListVisitIf
<1>14. CASE ListReturns
  BY <1>0, <1>14, ContextLeaks DEF ListReturns
<1>15. CASE UNCHANGED vars
  BY <1>0, <1>15, LeaksKept DEF vars
<1> QED
  BY <1>1, <1>2, <1>3, <1>4, <1>5, <1>6, <1>7, <1>8, <1>9, <1>10, <1>11, <1>12, <1>13,
     <1>14, <1>15 DEF Next

(* The device being opened has what the steps so far have got for it.      *)
LEMMA HeldStep == OpenInv /\ HeldInv /\ [Next]_vars => HeldInv'
<1> SUFFICES ASSUME OpenInv, HeldInv, [Next]_vars PROVE HeldInv'
  OBVIOUS
<1> USE DEF device, search, Return, GoOn, Ready
<1>0. /\ fields \in [Handles -> SUBSET Resources] /\ step \in Steps
      /\ step \in Opening => handle \in Handles
  BY DEF OpenInv, CallInv, TypeOK
<1>a. ASSUME NEW rs, Acquire(rs), step \in Opening, handle' = handle,
             Held \union rs = IF step' \in Opening THEN Held' ELSE Resources
      PROVE  HeldInv'
  <2>1. fields' = [fields EXCEPT ![handle] = Held \union rs] /\ handle \in Handles
    BY <1>0, <1>a DEF Acquire, HeldInv
  <2>2. fields'[handle] = Held \union rs /\ \A h \in Handles \ {handle} : fields'[h] = fields[h]
    BY <1>0, <2>1
  <2>3. \A h \in Handles \ {handle} : fields[h] \in {{}, Resources}
    BY DEF HeldInv
  <2> HIDE DEF Ready
  <2>4. step' \in Opening => fields'[handle'] = Held'
    BY <1>a, <2>2
  <2>5. ASSUME NEW h \in Handles, ~(step' \in Opening /\ h = handle') PROVE Ready(h)'
    BY <1>a, <2>2, <2>3, <2>5 DEF Ready
  <2> QED
    BY <2>4, <2>5 DEF HeldInv
<1>b. ASSUME NEW h \in Handles, fields' = [fields EXCEPT ![h] = {}],
             step' \notin Opening, step \in Opening => h = handle
      PROVE  HeldInv'
  BY <1>0, <1>b DEF HeldInv
<1>c. ASSUME UNCHANGED <<fields, handle>>, step' \in Opening, step \in Opening, Held' = Held
      PROVE  HeldInv'
  BY <1>c DEF HeldInv
<1>d. ASSUME UNCHANGED fields, step' \notin Opening, step \notin Opening
      PROVE  HeldInv'
  BY <1>d DEF HeldInv
<1>e. UNCHANGED step => Held' = Held
  BY DEF Held
<1> USE DEF Opening, Steps
<1>1. ASSUME NEW h \in Handles, OpenFd(h) PROVE HeldInv'
  BY <1>1, <1>d DEF OpenFd
<1>2. ASSUME NEW h \in Handles, Close(h) PROVE HeldInv'
  BY <1>2, <1>b DEF Close, Dispose
<1>3. ASSUME NEW h \in Handles, NEW s \in Serials, Open(h, s) PROVE HeldInv'
  <2>1. CASE step' = "init"
    <3>1. /\ fields' = [fields EXCEPT ![h] = Basic] /\ handle' = h /\ step = "idle"
      BY <1>3, <2>1 DEF Open, Basic
    <3>2. \A g \in Handles : fields[g] \in {{}, Resources}
      BY <3>1 DEF HeldInv
    <3>3. Held' = Basic
      BY <2>1 DEF Held
    <3> QED
      BY <1>0, <2>1, <3>1, <3>2, <3>3 DEF HeldInv
  <2>2. CASE step' = "idle"
    BY <1>3, <1>d, <2>2 DEF Open
  <2> QED
    BY <1>3, <2>1, <2>2 DEF Open
<1>4. CASE GetDeviceList
  <2>1. CASE step' = "scan"
    <3>1. Held' = Held
      BY <1>4, <2>1 DEF GetDeviceList, Held
    <3> QED
      BY <1>4, <1>c, <2>1, <3>1 DEF GetDeviceList
  <2>2. CASE Dispose(handle, {}, {"context"}) /\ step' = "idle"
    BY <1>0, <1>4, <1>b, <2>2 DEF GetDeviceList, Dispose
  <2> QED
    BY <1>4, <2>1, <2>2 DEF GetDeviceList
<1>5. CASE NotFound
  BY <1>0, <1>5, <1>b DEF NotFound, Dispose
<1>6. CASE Scan
  <2>1. CASE Acquire({"usb_device"}) /\ step' = "count"
    <3>1. Held \union {"usb_device"} = Held'
      BY <1>6, <2>1 DEF Scan, ScanWhere, Held
    <3> QED
      BY <1>6, <1>a, <2>1, <3>1 DEF Scan, ScanWhere
  <2>2. CASE UNCHANGED <<fields, step>>
    BY <1>6, <1>c, <1>e, <2>2 DEF Scan, ScanWhere
  <2> QED
    BY <1>6, <2>1, <2>2 DEF Scan, ScanWhere
<1>7. CASE ReadCount
  <2>1. CASE Acquire({"samplerates"}) /\ step' = "rates"
    <3>1. Held \union {"samplerates"} = Held'
      BY <1>7, <2>1 DEF ReadCount, Held
    <3> QED
      BY <1>7, <1>a, <2>1, <3>1 DEF ReadCount
  <2>2. CASE Acquire({"samplerates", "architectures"}) /\ step' = "att count"
    <3>1. Held \union {"samplerates", "architectures"} = Held'
      BY <1>7, <2>2 DEF ReadCount, Held, Fetched
    <3> QED
      BY <1>7, <1>a, <2>2, <3>1 DEF ReadCount
  <2> QED
    BY <1>7, <2>1, <2>2 DEF ReadCount
<1>8. CASE ReadRates
  <2>1. /\ Acquire({"architectures"}) /\ step = "rates" /\ handle' = handle
        /\ step' \in {"architectures", "att count"}
    BY <1>8 DEF ReadRates
  <2>2. Held \union {"architectures"} = Held'
    BY <2>1 DEF Held, Fetched
  <2> QED
    BY <1>a, <2>1, <2>2
<1>9. CASE ReadArchitectures
  <2>1. Held' = Held
    BY <1>9 DEF ReadArchitectures, Held
  <2> QED
    BY <1>9, <1>c, <2>1 DEF ReadArchitectures
<1>10. CASE ReadAttSteps
  <2>1. CASE Acquire({"att_steps"}) /\ step = "att count"
    <3>1. step' \in {"att steps", "allocate"} /\ handle' = handle
      BY <1>10, <2>1 DEF ReadAttSteps
    <3>2. Held \union {"att_steps"} = Held'
      BY <2>1, <3>1 DEF Held
    <3> QED
      BY <1>a, <2>1, <3>1, <3>2
  <2>2. CASE step = "att steps"
    <3>1. step' = "allocate" /\ UNCHANGED <<fields, handle>>
      BY <1>10, <2>2 DEF ReadAttSteps
    <3>2. Held' = Held
      BY <2>2, <3>1 DEF Held
    <3> QED
      BY <1>c, <2>2, <3>1, <3>2
  <2> QED
    BY <1>10, <2>1, <2>2 DEF ReadAttSteps
<1>11. CASE AllocateTransfers
  <2>1. CASE Acquire(Buffers) /\ step' = "config" /\ handle' = handle
    <3>1. Held = Fetched \union {"att_steps"} /\ Held' = Resources \ {"iq_balancer", "consumer_cv"}
      BY <1>11, <2>1 DEF AllocateTransfers, Held
    <3>2. Held \union Buffers = Held'
      BY <3>1 DEF Fetched, Basic, Buffers, Resources
    <3> QED
      BY <1>11, <1>a, <2>1, <3>2 DEF AllocateTransfers
  <2>2. CASE fields' = [fields EXCEPT ![handle] = {}] /\ step' = "idle"
    BY <1>0, <1>11, <1>b, <2>2 DEF AllocateTransfers
  <2> QED
    BY <1>11, <2>1, <2>2 DEF AllocateTransfers, Dispose
<1>12. CASE OpenReturns
  <2>1. Held \union {"iq_balancer", "consumer_cv"} = Resources
    BY <1>12 DEF OpenReturns, Held, Resources
  <2> QED
    BY <1>12, <1>a, <2>1 DEF OpenReturns
<1>13. ASSUME NEW n, List(n) PROVE HeldInv'
  BY <1>13, <1>d DEF List
<1>14. CASE ListVisit \/ ListReturns
  BY <1>14, <1>d DEF ListVisit, ListVisitIf, ListReturns
<1>15. CASE UNCHANGED vars
  BY <1>0, <1>15, <1>c, <1>d, <1>e DEF vars
<1> QED
  BY <1>1, <1>2, <1>3, <1>4, <1>5, <1>6, <1>7, <1>8, <1>9, <1>10, <1>11, <1>12, <1>13,
     <1>14, <1>15 DEF Next

(* Nothing is allocated at first.                                          *)
LEMMA LeakInit == Init => HeldInv /\ LeakInv
<1> SUFFICES ASSUME Init PROVE HeldInv /\ LeakInv
  OBVIOUS
<1>1. HeldInv
  BY DEF Init, HeldInv, Opening, Ready
<1>2. ASSUME NEW r \in Resources
      PROVE  IsFiniteSet(Owners(r)) /\ Surplus(r) \in 0 .. (IF r \in Forgotten THEN leaks ELSE 0)
  <2>1. Owners(r) = {} /\ allocated[r] = 0 /\ leaks = 0 /\ step = "idle"
    BY DEF Init, Owners
  <2>2. IsFiniteSet(Owners(r)) /\ Cardinality(Owners(r)) = 0
    BY <2>1, FS_EmptySet
  <2> QED
    BY <2>1, <2>2 DEF Surplus
<1> QED
  BY <1>1, <1>2 DEF LeakInv

(* Whatever fails in a call, each open device has all of its resources     *)
(* after it, and nothing else is left, but for the two calls that forget.  *)
THEOREM NoOtherLeaks == Spec => []NothingElseLeaks
<1>1. Init => HeldInv /\ LeakInv
  BY LeakInit
<1>2. OpenInv /\ HeldInv /\ LeakInv /\ [Next]_vars => (HeldInv /\ LeakInv)'
  BY HeldStep, LeakStep
<1>3. OpenInv /\ HeldInv /\ LeakInv => NothingElseLeaks
  <2> SUFFICES ASSUME OpenInv, HeldInv, LeakInv, step = "idle"
               PROVE  /\ \A h \in Handles : fields[h] \in {{}, Resources}
                      /\ \A r \in Resources :
                           allocated[r] - Cardinality(Owners(r))
                             \in 0 .. (IF r \in Forgotten THEN leaks ELSE 0)
    BY DEF NothingElseLeaks
  <2>1. \A h \in Handles : fields[h] \in {{}, Resources}
    BY DEF HeldInv, Ready, Opening
  <2>2. ASSUME NEW r \in Resources
        PROVE  allocated[r] - Cardinality(Owners(r))
                 \in 0 .. (IF r \in Forgotten THEN leaks ELSE 0)
    <3>1. /\ IsFiniteSet(Owners(r))
          /\ allocated[r] - Cardinality(Owners(r)) - 0
               \in 0 .. (IF r \in Forgotten THEN leaks ELSE 0)
      BY DEF LeakInv, Surplus
    <3>2. allocated[r] \in Int /\ Cardinality(Owners(r)) \in Nat
      BY <3>1, FS_CardinalityType DEF OpenInv, TypeOK
    <3> QED
      BY <3>1, <3>2
  <2> QED
    BY <2>1, <2>2
<1> QED
  BY <1>1, <1>2, <1>3, OpenInvariant, PTL DEF Spec
-----------------------------------------------------------------------------
(* airspyhf_list_devices.  libusb lists a device once, so that what was    *)
(* found out of a device visited does not change with later ones.          *)
ListInv ==
  /\ step # "list" => output = <<>>
  /\ step = "list" =>
       /\ OutputInOrder
       /\ limit # NoLimit => Len(output) <= limit
       /\ \A m, n \in 1 .. Len(devices) : m # n => devices[m] # devices[n]
       /\ \A m \in 1 .. Len(seen), n \in 1 .. Len(devices) : seen[m] # devices[n]
       /\ \A d \in refused : \E m \in 1 .. Len(seen) : seen[m] = d

(* A visit takes the first of the list to the end of those visited.        *)
LEMMA VisitSequences ==
  ASSUME NEW s \in Seq(Devices), NEW q \in Seq(Devices), q # <<>>
  PROVE  /\ Len(q) \in Nat \ {0} /\ Head(q) = q[1]
         /\ Len(Tail(q)) = Len(q) - 1 /\ \A n \in 1 .. Len(Tail(q)) : Tail(q)[n] = q[n + 1]
         /\ Len(s) \in Nat /\ Len(Append(s, Head(q))) = Len(s) + 1
         /\ \A n \in 1 .. Len(s) + 1 :
              Append(s, Head(q))[n] = IF n = Len(s) + 1 THEN Head(q) ELSE s[n]
  OBVIOUS

LEMMA ListVisitStep ==
  ASSUME TypeOK, ListInv, ListVisit
  PROVE  ListInv'
<1>1. /\ step = "list" /\ step' = "list" /\ devices # <<>> /\ limit' = limit
      /\ devices' = Tail(devices) /\ seen' = Append(seen, Head(devices))
      /\ Room
      /\ \/ output' = Append(output, Serial(Head(devices))) /\ refused' = refused
         \/ output' = output /\ refused' = refused \union {Head(devices)}
  BY DEF ListVisit, ListVisitIf, Visit
<1>2. seen \in Seq(Devices) /\ devices \in Seq(Devices) /\ output \in Seq(Serials)
  BY DEF TypeOK
<1>3. /\ \A m, n \in 1 .. Len(devices) : m # n => devices[m] # devices[n]
      /\ \A m \in 1 .. Len(seen), n \in 1 .. Len(devices) : seen[m] # devices[n]
      /\ \A d \in refused : \E m \in 1 .. Len(seen) : seen[m] = d
      /\ limit # NoLimit => Len(output) <= limit
  BY <1>1 DEF ListInv
<1>4. /\ Len(devices) \in Nat \ {0} /\ Head(devices) = devices[1]
      /\ Len(devices') = Len(devices) - 1
      /\ \A n \in 1 .. Len(devices') : devices'[n] = devices[n + 1]
      /\ Len(seen) \in Nat /\ Len(seen') = Len(seen) + 1
      /\ \A n \in 1 .. Len(seen) + 1 :
           seen'[n] = IF n = Len(seen) + 1 THEN Head(devices) ELSE seen[n]
  BY <1>1, <1>2, VisitSequences
<1>5. \A m \in 1 .. Len(seen) : seen[m] # Head(devices) /\ seen'[m] = seen[m]
  BY <1>3, <1>4
<1>6. \A m, n \in 1 .. Len(devices') : m # n => devices'[m] # devices'[n]
  <2> SUFFICES ASSUME NEW m \in 1 .. Len(devices'), NEW n \in 1 .. Len(devices'), m # n
               PROVE  devices'[m] # devices'[n]
    OBVIOUS
  <2>1. m + 1 \in 1 .. Len(devices) /\ n + 1 \in 1 .. Len(devices) /\ m + 1 # n + 1
    BY <1>4
  <2> QED
    BY <1>3, <1>4, <2>1
<1>7. \A m \in 1 .. Len(seen'), n \in 1 .. Len(devices') : seen'[m] # devices'[n]
  <2> SUFFICES ASSUME NEW m \in 1 .. Len(seen'), NEW n \in 1 .. Len(devices')
               PROVE  seen'[m] # devices'[n]
    OBVIOUS
  <2>1. n + 1 \in 1 .. Len(devices) /\ 1 \in 1 .. Len(devices) /\ n + 1 # 1
    BY <1>4
  <2>2. devices'[n] = devices[n + 1]
    BY <1>4
  <2>3. CASE m = Len(seen) + 1
    BY <1>3, <1>4, <2>1, <2>2, <2>3
  <2>4. CASE m # Len(seen) + 1
    <3>1. m \in 1 .. Len(seen)
      BY <1>4, <2>4
    <3> QED
      BY <1>3, <1>5, <2>1, <2>2, <3>1
  <2> QED
    BY <2>3, <2>4
<1>8. \A d \in refused' : \E m \in 1 .. Len(seen') : seen'[m] = d
  <2> SUFFICES ASSUME NEW d \in refused' PROVE \E m \in 1 .. Len(seen') : seen'[m] = d
    OBVIOUS
  <2>1. Len(seen) + 1 \in 1 .. Len(seen') /\ 1 .. Len(seen) \subseteq 1 .. Len(seen')
    BY <1>4
  <2>2. CASE d \in refused
    <3>1. PICK m \in 1 .. Len(seen) : seen[m] = d
      BY <1>3, <2>2
    <3> QED
      BY <1>5, <2>1, <3>1
  <2>3. CASE d = Head(devices)
    <3>1. seen'[Len(seen) + 1] = d
      BY <1>4, <2>1, <2>3
    <3> QED
      BY <2>1, <3>1
  <2> QED
    BY <1>1, <2>2, <2>3
<1>9. limit' # NoLimit => Len(output') <= limit'
  <2> SUFFICES ASSUME limit # NoLimit PROVE Len(output') <= limit
    BY <1>1
  <2>1. Len(output) < limit /\ limit \in Nat /\ Len(output) \in Nat
    BY <1>1, <1>2 DEF Room, TypeOK
  <2>2. Len(output') \in {Len(output), Len(output) + 1}
    BY <1>1, <1>2
  <2> QED
    BY <2>1, <2>2
<1>10. PICK position \in [1 .. Len(output) -> 1 .. Len(seen)] : Lists(position)
  BY <1>1 DEF ListInv, OutputInOrder
<1>11. Len(output) \in Nat
  BY <1>2
<1>12. \A m \in 1 .. Len(output) : position[m] \in 1 .. Len(seen) /\ position[m] # Len(seen) + 1
  BY <1>4, <1>10
<1>13. CASE output' = output /\ refused' = refused \union {Head(devices)}
  <2>1. position \in [1 .. Len(output') -> 1 .. Len(seen')]
    <3>1. 1 .. Len(seen) \subseteq 1 .. Len(seen')
      BY <1>4
    <3> QED
      BY <1>10, <1>13, <3>1
  <2>2. ASSUME NEW n \in 1 .. Len(seen')
        PROVE  seen'[n] \notin refused' <=> \E m \in DOMAIN position : position[m] = n
    <3>1. CASE n = Len(seen) + 1
      <4>1. seen'[n] = Head(devices)
        BY <1>4, <3>1
      <4> QED
        BY <1>10, <1>12, <1>13, <3>1, <4>1
    <3>2. CASE n # Len(seen) + 1
      <4>1. n \in 1 .. Len(seen)
        BY <1>4, <3>2
      <4>2. seen'[n] \notin refused' <=> seen[n] \notin refused
        BY <1>5, <1>13, <4>1
      <4> QED
        BY <1>10, <4>1, <4>2 DEF Lists
    <3> QED
      BY <3>1, <3>2
  <2>3. \A m \in DOMAIN position : output'[m] = Serial(seen'[position[m]])
    BY <1>5, <1>10, <1>12, <1>13 DEF Lists
  <2>4. Lists(position)'
    BY <1>10, <2>2, <2>3 DEF Lists
  <2>5. OutputInOrder'
    BY <2>1, <2>4 DEF OutputInOrder
  <2> QED
    BY <1>1, <1>6, <1>7, <1>8, <1>9, <2>5 DEF ListInv
<1>14. CASE output' = Append(output, Serial(Head(devices))) /\ refused' = refused
  <2>0. PICK next : next = [m \in 1 .. Len(output) + 1 |->
                              IF m = Len(output) + 1 THEN Len(seen) + 1 ELSE position[m]]
    OBVIOUS
  <2>1. /\ DOMAIN next = 1 .. Len(output) + 1
        /\ Len(output) + 1 \in 1 .. Len(output) + 1
        /\ next[Len(output) + 1] = Len(seen) + 1
        /\ \A m \in 1 .. Len(output) :
             m \in 1 .. Len(output) + 1 /\ m # Len(output) + 1 /\ next[m] = position[m]
    BY <1>11, <2>0
  <2>2. /\ Len(output') = Len(output) + 1
        /\ output'[Len(output) + 1] = Serial(Head(devices))
        /\ \A m \in 1 .. Len(output) : output'[m] = output[m]
    BY <1>2, <1>14
  <2>3. \A m \in 1 .. Len(output) + 1 : m \in 1 .. Len(output) \/ m = Len(output) + 1
    BY <1>11
  <2>4. next \in [1 .. Len(output') -> 1 .. Len(seen')]
    <3>1. \A m \in 1 .. Len(output) + 1 : next[m] \in 1 .. Len(seen')
      BY <1>4, <1>12, <2>1, <2>3
    <3> QED
      BY <2>0, <2>2, <3>1
  <2>5. ASSUME NEW m \in DOMAIN next, NEW n \in DOMAIN next, m < n PROVE next[m] < next[n]
    <3>1. m \in 1 .. Len(output)
      BY <1>11, <2>1, <2>5
    <3>2. CASE n = Len(output) + 1
      BY <1>4, <1>12, <2>1, <3>1, <3>2
    <3>3. CASE n \in 1 .. Len(output)
      BY <1>10, <2>1, <2>5, <3>1, <3>3 DEF Lists
    <3> QED
      BY <2>1, <2>3, <3>2, <3>3
  <2>6. ASSUME NEW n \in 1 .. Len(seen')
        PROVE  seen'[n] \notin refused' <=> \E m \in DOMAIN next : next[m] = n
    <3>1. CASE n = Len(seen) + 1
      <4>1. seen'[n] = Head(devices) /\ Head(devices) \notin refused
        BY <1>3, <1>4, <1>5, <3>1
      <4> QED
        BY <1>14, <2>1, <3>1, <4>1
    <3>2. CASE n # Len(seen) + 1
      <4>1. n \in 1 .. Len(seen)
        BY <1>4, <3>2
      <4>2. seen'[n] \notin refused' <=> seen[n] \notin refused
        BY <1>5, <1>14, <4>1
      <4>3. (\E m \in DOMAIN next : next[m] = n) <=> \E m \in DOMAIN position : position[m] = n
        BY <1>10, <2>1, <2>3, <3>2
      <4> QED
        BY <1>10, <4>1, <4>2, <4>3 DEF Lists
    <3> QED
      BY <3>1, <3>2
  <2>7. ASSUME NEW m \in DOMAIN next PROVE output'[m] = Serial(seen'[next[m]])
    <3>1. CASE m = Len(output) + 1
      <4>1. seen'[Len(seen) + 1] = Head(devices)
        BY <1>4
      <4> QED
        BY <2>1, <2>2, <3>1, <4>1
    <3>2. CASE m \in 1 .. Len(output)
      BY <1>5, <1>10, <1>12, <2>1, <2>2, <3>2 DEF Lists
    <3> QED
      BY <2>1, <2>3, <3>1, <3>2
  <2>8. Lists(next)'
    BY <2>5, <2>6, <2>7 DEF Lists
  <2>9. OutputInOrder'
    BY <2>4, <2>8 DEF OutputInOrder
  <2> QED
    BY <1>1, <1>6, <1>7, <1>8, <1>9, <2>9 DEF ListInv
<1> QED
  BY <1>1, <1>13, <1>14

(* A listing starts with nothing visited and nothing found. *)
LEMMA ListBegins ==
  ASSUME OpenInv, ListInv, NEW n \in (0 .. Cardinality(Devices)) \union {NoLimit}, List(n)
  PROVE  ListInv'
<1>1. step = "idle" /\ output' = <<>> /\ seen' = <<>> /\ refused' = {} /\ limit' = n
  BY DEF List, ListInv, OpenInv, SearchInv
<1>2. CASE step' = "idle"
  BY <1>1, <1>2 DEF ListInv
<1>3. CASE step' = "list" /\ devices' \in DeviceLists
  <2>1. Len(output') = 0 /\ Len(seen') = 0
    BY <1>1
  <2>2. OutputInOrder'
    <3>0. PICK none : none = [m \in 1 .. 0 |-> 1]
      OBVIOUS
    <3>1. DOMAIN none = 1 .. 0 /\ \A m \in 1 .. 0 : FALSE
      BY <3>0
    <3>2. none \in [1 .. Len(output') -> 1 .. Len(seen')]
      BY <2>1, <3>0
    <3>3. Lists(none)'
      BY <2>1, <3>1 DEF Lists
    <3> QED
      BY <3>2, <3>3 DEF OutputInOrder
  <2>3. limit' # NoLimit => Len(output') <= limit'
    <3>1. n # NoLimit => n \in Nat
      BY CountType
    <3> QED
      BY <1>1, <2>1, <3>1
  <2>4. \A k, m \in 1 .. Len(devices') : k # m => devices'[k] # devices'[m]
    <3>1. PICK length \in 0 .. Cardinality(Devices) : devices' \in [1 .. length -> Devices]
      BY <1>3 DEF DeviceLists
    <3>2. length \in Nat
      BY CountType
    <3>3. Len(devices') = length /\ DOMAIN devices' = 1 .. length
      BY <3>1, <3>2
    <3> QED
      BY <1>3, <3>3 DEF DeviceLists
  <2>5. \A m \in 1 .. Len(seen') : FALSE
    BY <2>1
  <2> QED
    BY <1>1, <1>3, <2>2, <2>3, <2>4, <2>5 DEF ListInv
<1> QED
  BY <1>2, <1>3 DEF List, Return

LEMMA ListStep == OpenInv /\ ListInv /\ [Next]_vars => ListInv'
<1> SUFFICES ASSUME OpenInv, ListInv, [Next]_vars PROVE ListInv'
  OBVIOUS
<1>1. CASE step # "list" /\ step' # "list" /\ output' = output
  BY <1>1 DEF ListInv
<1>2. CASE UNCHANGED vars
  <2>1. UNCHANGED <<step, output, seen, refused, limit, devices>>
    BY <1>2 DEF vars, search
  <2>2. OutputInOrder' <=> OutputInOrder
    BY <2>1 DEF OutputInOrder, Lists
  <2> QED
    BY <2>1, <2>2 DEF ListInv
<1>3. CASE \E h \in Handles : OpenFd(h) \/ Close(h)
  <2>1. step = "idle" /\ UNCHANGED <<step, output>>
    BY <1>3 DEF OpenFd, Close, search
  <2> QED
    BY <1>1, <2>1
<1>4. CASE \E h \in Handles, s \in Serials : Open(h, s)
  <2>1. step = "idle" /\ step' \in {"init", "idle"} /\ UNCHANGED output
    BY <1>4 DEF Open, Return
  <2> QED
    BY <1>1, <2>1
<1>5. CASE GetDeviceList
  <2>1. step = "init" /\ step' \in {"scan", "idle"} /\ UNCHANGED output
    BY <1>5 DEF GetDeviceList, Return
  <2> QED
    BY <1>1, <2>1
<1>6. CASE Scan
  <2>1. step = "scan" /\ step' \in {"scan", "count"} /\ UNCHANGED output
    BY <1>6 DEF Scan, ScanWhere
  <2> QED
    BY <1>1, <2>1
<1>7. CASE NotFound
  <2>1. step = "scan" /\ step' = "idle" /\ UNCHANGED output
    BY <1>7 DEF NotFound, Return
  <2> QED
    BY <1>1, <2>1
<1>8. CASE ReadCount \/ ReadRates \/ ReadArchitectures \/ ReadAttSteps
  <2>1. /\ step \notin {"list"} /\ UNCHANGED output
        /\ step' \in {"rates", "architectures", "att count", "att steps", "allocate"}
    BY <1>8 DEF ReadCount, ReadRates, ReadArchitectures, ReadAttSteps, GoOn, search
  <2> QED
    BY <1>1, <2>1
<1>9. CASE AllocateTransfers
  <2>1. step = "allocate" /\ step' \in {"config", "idle"} /\ UNCHANGED output
    BY <1>9 DEF AllocateTransfers, GoOn, Return, search
  <2> QED
    BY <1>1, <2>1
<1>10. CASE OpenReturns
  <2>1. step = "config" /\ step' = "idle" /\ UNCHANGED output
    BY <1>10 DEF OpenReturns, Return, search
  <2> QED
    BY <1>1, <2>1
<1>11. CASE \E n \in (0 .. Cardinality(Devices)) \union {NoLimit} : List(n)
  BY <1>11, ListBegins
<1>12. CASE ListVisit
  BY <1>12, ListVisitStep DEF OpenInv
<1>13. CASE ListReturns
  <2>1. step' = "idle" /\ output' = <<>>
    BY <1>13 DEF ListReturns, Return
  <2> QED
    BY <2>1 DEF ListInv
<1> QED
  BY <1>2, <1>3, <1>4, <1>5, <1>6, <1>7, <1>8, <1>9, <1>10, <1>11, <1>12, <1>13 DEF Next

(* Only the last step of airspyhf_list_devices leaves "list". *)
LEMMA ListEnds == TypeOK /\ step = "list" /\ step' = "idle" /\ [Next]_vars => ListReturns
<1> SUFFICES ASSUME TypeOK, step = "list", step' = "idle", [Next]_vars PROVE ListReturns
  OBVIOUS
<1>1. ~ UNCHANGED vars
  BY DEF vars
<1>2. ~ \E h \in Handles : OpenFd(h) \/ Close(h)
  BY DEF OpenFd, Close
<1>3. ~ \E h \in Handles, s \in Serials : Open(h, s)
  BY DEF Open
<1>4. ~ (GetDeviceList \/ Scan \/ NotFound)
  BY DEF GetDeviceList, Scan, ScanWhere, NotFound
<1>5. ~ (ReadCount \/ ReadRates \/ ReadArchitectures \/ ReadAttSteps)
  BY DEF ReadCount, ReadRates, ReadArchitectures, ReadAttSteps
<1>6. ~ (AllocateTransfers \/ OpenReturns)
  BY DEF AllocateTransfers, OpenReturns
<1>7. ~ \E n \in (0 .. Cardinality(Devices)) \union {NoLimit} : List(n)
  BY DEF List
<1>8. ~ ListVisit
  BY DEF ListVisit, ListVisitIf
<1> QED
  BY <1>1, <1>2, <1>3, <1>4, <1>5, <1>6, <1>7, <1>8 DEF Next

(* airspyhf_list_devices returns the numbers of exactly the devices it     *)
(* could read, in their order, up to the limit and not before it while     *)
(* there are more devices.                                                 *)
THEOREM ListIsExact == Spec => ListExact
<1>1. Init => ListInv
  BY DEF Init, ListInv
<1>2. OpenInv /\ ListInv /\ [Next]_vars => ListInv'
  BY ListStep
<1>3. OpenInv /\ ListInv /\ [Next]_vars =>
        [(step = "list" /\ step' = "idle") =>
           /\ OutputInOrder
           /\ limit # NoLimit => Len(output) <= limit
           /\ devices = <<>> \/ Len(output) = limit]_vars
  <2> SUFFICES ASSUME OpenInv, ListInv, [Next]_vars, step = "list", step' = "idle"
               PROVE  /\ OutputInOrder
                      /\ limit # NoLimit => Len(output) <= limit
                      /\ devices = <<>> \/ Len(output) = limit
    OBVIOUS
  <2>1. OutputInOrder /\ (limit # NoLimit => Len(output) <= limit)
    BY DEF ListInv
  <2>2. devices = <<>> \/ ~Room
    BY ListEnds DEF OpenInv, ListReturns
  <2>3. ASSUME ~Room PROVE Len(output) = limit
    <3>1. limit # NoLimit /\ ~(Len(output) < limit)
      BY <2>3 DEF Room
    <3>2. limit \in Nat /\ Len(output) \in Nat
      BY <3>1 DEF OpenInv, TypeOK
    <3> QED
      BY <2>1, <3>1, <3>2
  <2> QED
    BY <2>1, <2>2, <2>3
<1> QED
  BY <1>1, <1>2, <1>3, OpenInvariant, PTL DEF Spec, ListExact
=============================================================================
