-------------------------- MODULE FlashConfigProofs --------------------------
(***************************************************************************)
(* What airspyhf_open restores and airspyhf_flash_configuration writes,    *)
(* for every set of values of the fields.  FlashInv adds to the three      *)
(* properties what holds inside airspyhf_open_init, between its transfers. *)
(***************************************************************************)
EXTENDS FlashConfig, TLAPS

Opening == {"vctcxo", "options", "open"}

(* The fields that the library has from flash memory. *)
Known ==
  IF step = "vctcxo" THEN {"ppb"}
  ELSE IF step = "options" THEN {"ppb", "vctcxo"}
  ELSE IF step = "open" THEN Fields \ touched ELSE {}

(* The registers that were set from the library. *)
Followed ==
  IF step = "options" THEN {"vctcxo"}
  ELSE IF step = "open" THEN Registers ELSE {}

RestoredInv ==
  /\ step = "read" => ~restored
  /\ (restored /\ step \in Opening) =>
       /\ flash # Blank
       /\ \A f \in Known : library[f] = flash[f]
  /\ (restored /\ step \in {"vctcxo", "options"}) => config = flash

FollowedInv == (restored /\ agreed) => \A f \in Followed : register[f] = library[f]

FlashInv == TypeOK /\ RestoredInv /\ FollowedInv

LEMMA FlashInit == Init => FlashInv
  BY ValuesAssumption
     DEF Init, FlashInv, TypeOK, RestoredInv, FollowedInv, Opening, Followed, Known,
         Configs, Zeros, Steps

LEMMA FieldsDef == Fields = {"vctcxo", "options", "ppb"} /\ Registers = {"vctcxo", "options"}
  BY DEF Fields, Registers

(* Types. *)
LEMMA TypeStep == TypeOK /\ [Next]_vars => TypeOK'
<1> SUFFICES ASSUME TypeOK, [Next]_vars PROVE TypeOK'
  OBVIOUS
<1> USE ValuesAssumption DEF TypeOK, Steps, device, call, ghosts
<1>0. Zeros \in Configs
  BY DEF Zeros, Configs
<1>1. CASE Open
  BY <1>0, <1>1 DEF Open
<1>2. ASSUME NEW o \in Outcomes, Read(o) PROVE TypeOK'
  <2>1. PICK found \in ReadBuffer(o) :
          \/ found = Blank /\ step' = "open" /\ library' = Zeros /\ UNCHANGED config
          \/ /\ found # Blank
             /\ step' = "vctcxo"
             /\ config' = found
             /\ library' = [f \in Fields |-> IF f \in {"ppb"} THEN found[f] ELSE Zero]
    BY <1>2 DEF Read, ReadWith
  <2>2. ReadBuffer(o) \subseteq Configs \union {Blank}
    BY DEF ReadBuffer
  <2>3. library' \in Configs /\ config' \in Configs /\ step' \in Steps
    BY <1>0, <2>1, <2>2 DEF Configs
  <2>4. UNCHANGED <<device, streaming, touched, agreed>> /\ restored' \in BOOLEAN
    BY <1>2 DEF Read, ReadWith
  <2> QED
    BY <2>3, <2>4
<1>3. ASSUME NEW f \in Registers, NEW v \in Values, NEW o \in Outcomes, SetRegister(f, v, o)
      PROVE /\ library' \in Configs /\ register' \in [Registers -> Values]
            /\ agreed' \in BOOLEAN /\ UNCHANGED <<flash, streaming, config, restored>>
  BY <1>3 DEF SetRegister, Configs, Fields
<1>4. ASSUME NEW o \in Outcomes, Restore(o) PROVE TypeOK'
  <2>1. step \in Registers /\ config[step] \in Values
    BY <1>4 DEF Restore, Registers, Fields, Configs
  <2>2. step' \in Steps /\ SetRegister(step, config[step], o) /\ UNCHANGED touched
    BY <1>4 DEF Restore
  <2> QED
    BY <1>3, <2>1, <2>2
<1>5. ASSUME NEW f \in Registers, NEW v \in Values, NEW o \in Outcomes, Set(f, v, o)
      PROVE TypeOK'
  BY <1>3, <1>5 DEF Set, Fields
<1>6. ASSUME NEW v \in Values, SetCalibration(v) PROVE TypeOK'
  BY <1>6 DEF SetCalibration, Configs, Fields
<1>7. ASSUME NEW o \in Outcomes, Flash(o) PROVE TypeOK'
  BY <1>7 DEF Flash, Write
<1>8. CASE Start \/ SessionEnds \/ Stop \/ Close
  BY <1>8 DEF Start, SessionEnds, Stop, Close
<1>9. CASE PowerCycle
  BY <1>9 DEF PowerCycle
<1>10. CASE UNCHANGED vars
  BY <1>10 DEF vars
<1> QED
  BY <1>1, <1>2, <1>4, <1>5, <1>6, <1>7, <1>8, <1>9, <1>10 DEF Next

(* Between the transfers of airspyhf_open, and after it, the library has   *)
(* the fields of flash memory that it has read and nobody has set.         *)
LEMMA RestoredStep == FlashInv /\ TypeOK' /\ [Next]_vars => RestoredInv'
<1> SUFFICES ASSUME FlashInv, TypeOK', [Next]_vars PROVE RestoredInv'
  OBVIOUS
<1> USE DEF FlashInv, RestoredInv, Opening, Known, device, call, ghosts
<1>1. CASE Open
  BY <1>1 DEF Open
<1>2. ASSUME NEW o \in Outcomes, Read(o) PROVE RestoredInv'
  <2>1. CASE ~restored'
    BY <2>1
  <2>2. CASE restored'
    <3>1. o = "ok" /\ flash # Blank /\ ReadBuffer(o) = {flash}
      BY <1>2, <2>2 DEF Read, ReadWith, ReadBuffer, IsError, Below
    <3>2. /\ step' = "vctcxo" /\ config' = flash /\ flash' = flash
          /\ library' = [f \in Fields |-> IF f \in {"ppb"} THEN flash[f] ELSE Zero]
      BY <1>2, <3>1 DEF Read, ReadWith
    <3> QED
      BY <3>1, <3>2, FieldsDef
  <2> QED
    BY <2>1, <2>2
<1>3. ASSUME NEW o \in Outcomes, Restore(o) PROVE RestoredInv'
  <2>1. /\ <<step, step'>> \in {<<"vctcxo", "options">>, <<"options", "open">>}
        /\ library' = [library EXCEPT ![step] = config[step]]
        /\ UNCHANGED <<flash, config, restored, touched>>
    BY <1>3 DEF Restore, SetRegister
  <2>2. library \in [Fields -> Values]
    BY DEF TypeOK, Configs
  <2> QED
    BY <2>1, <2>2, FieldsDef
<1>4. ASSUME NEW f \in Registers, NEW v \in Values, NEW o \in Outcomes, Set(f, v, o)
      PROVE RestoredInv'
  <2>1. /\ step = "open" /\ step' = "open"
        /\ library' = [library EXCEPT ![f] = v]
        /\ touched' = touched \union {f}
        /\ UNCHANGED <<flash, config, restored>>
    BY <1>4 DEF Set, SetRegister
  <2>2. library \in [Fields -> Values]
    BY DEF TypeOK, Configs
  <2> QED
    BY <2>1, <2>2
<1>5. ASSUME NEW v \in Values, SetCalibration(v) PROVE RestoredInv'
  <2>1. library \in [Fields -> Values]
    BY DEF TypeOK, Configs
  <2> QED
    BY <1>5, <2>1 DEF SetCalibration
<1>6. ASSUME NEW o \in Outcomes, Flash(o) PROVE RestoredInv'
  <2>1. library # Blank
    BY BlankAssumption DEF TypeOK
  <2> QED
    BY <1>6, <2>1 DEF Flash, Write
<1>7. CASE Start \/ SessionEnds \/ Stop
  BY <1>7 DEF Start, SessionEnds, Stop
<1>8. CASE Close \/ PowerCycle
  BY <1>8 DEF Close, PowerCycle
<1>9. CASE UNCHANGED vars
  BY <1>9 DEF vars
<1> QED
  BY <1>1, <1>2, <1>3, <1>4, <1>5, <1>6, <1>7, <1>8, <1>9 DEF Next

(* The registers that were set have the library's values. *)
LEMMA FollowedStep == FlashInv /\ TypeOK' /\ [Next]_vars => FollowedInv'
<1> SUFFICES ASSUME FlashInv, TypeOK', [Next]_vars PROVE FollowedInv'
  OBVIOUS
<1> USE DEF FlashInv, FollowedInv, Followed, device, call, ghosts
<1>0. library \in [Fields -> Values] /\ register \in [Registers -> Values]
  BY DEF TypeOK, Configs
<1>1. CASE Open
  BY <1>1 DEF Open
<1>2. ASSUME NEW o \in Outcomes, Read(o) PROVE FollowedInv'
  <2>1. restored' => flash # Blank /\ ReadBuffer(o) = {flash}
    BY <1>2 DEF Read, ReadWith, ReadBuffer, IsError, Below
  <2>2. restored' => step' = "vctcxo"
    BY <1>2, <2>1 DEF Read, ReadWith
  <2> QED
    BY <2>2
<1>3. ASSUME NEW f \in Registers, NEW v \in Values, NEW o \in Outcomes, SetRegister(f, v, o)
      PROVE agreed' => /\ agreed
                       /\ library' = [library EXCEPT ![f] = v]
                       /\ register' = [register EXCEPT ![f] = v]
                       /\ restored' = restored
  BY <1>3 DEF SetRegister, Acted
<1>4. ASSUME NEW o \in Outcomes, Restore(o) PROVE FollowedInv'
  <2>1. step \in Registers /\ config[step] \in Values
    BY <1>4 DEF Restore, Registers, Fields, Configs, TypeOK
  <2>2. /\ <<step, step'>> \in {<<"vctcxo", "options">>, <<"options", "open">>}
        /\ SetRegister(step, config[step], o)
    BY <1>4 DEF Restore
  <2>3. ASSUME restored', agreed', NEW f \in Followed' PROVE register'[f] = library'[f]
    <3>1. /\ restored /\ agreed
          /\ library' = [library EXCEPT ![step] = config[step]]
          /\ register' = [register EXCEPT ![step] = config[step]]
      BY <1>3, <2>1, <2>2, <2>3
    <3>2. (f = step \/ f \in Followed) /\ f \in Registers
      BY <2>2, <2>3, FieldsDef
    <3> QED
      BY <1>0, <2>1, <3>1, <3>2, FieldsDef
  <2> QED
    BY <2>3
<1>5. ASSUME NEW f \in Registers, NEW v \in Values, NEW o \in Outcomes, Set(f, v, o)
      PROVE FollowedInv'
  <2>1. step = "open" /\ step' = "open" /\ SetRegister(f, v, o)
    BY <1>5 DEF Set
  <2>2. ASSUME restored', agreed', NEW g \in Followed' PROVE register'[g] = library'[g]
    <3>1. /\ restored /\ agreed
          /\ library' = [library EXCEPT ![f] = v]
          /\ register' = [register EXCEPT ![f] = v]
      BY <1>3, <2>1, <2>2
    <3>2. (g = f \/ g \in Followed) /\ g \in Registers
      BY <2>1, <2>2, FieldsDef
    <3> QED
      BY <1>0, <3>1, <3>2, FieldsDef
  <2> QED
    BY <2>2
<1>6. ASSUME NEW v \in Values, SetCalibration(v) PROVE FollowedInv'
  BY <1>0, <1>6, FieldsDef DEF SetCalibration
<1>7. ASSUME NEW o \in Outcomes, Flash(o) PROVE FollowedInv'
  BY <1>7 DEF Flash, Write
<1>8. CASE Start \/ SessionEnds \/ Stop
  BY <1>8 DEF Start, SessionEnds, Stop
<1>9. CASE Close \/ PowerCycle
  BY <1>9 DEF Close, PowerCycle
<1>10. CASE UNCHANGED vars
  BY <1>10 DEF vars
<1> QED
  BY <1>1, <1>2, <1>4, <1>5, <1>6, <1>7, <1>8, <1>9, <1>10 DEF Next

LEMMA FlashInductive == FlashInv /\ [Next]_vars => FlashInv'
  BY TypeStep, RestoredStep, FollowedStep DEF FlashInv

(* The types, and what holds between any two transfers of any calls.       *)
THEOREM FlashInvariant == Spec => []FlashInv
<1>1. Init => FlashInv
  BY FlashInit
<1>2. FlashInv /\ [Next]_vars => FlashInv'
  BY FlashInductive
<1> QED
  BY <1>1, <1>2, PTL DEF Spec

(* A field that the application has not set has the value that a later     *)
(* airspyhf_open will restore.                                             *)
THEOREM FlashedRestored == Spec => []FlashedIsRestored
<1>1. FlashInv => FlashedIsRestored
  BY DEF FlashInv, RestoredInv, FlashedIsRestored, Opening, Known
<1> QED
  BY <1>1, FlashInvariant, PTL

(* The device runs with the options that the library tells.                *)
THEOREM DeviceFollowsLibrary == Spec => []DeviceFollows
<1>1. FlashInv => DeviceFollows
  BY DEF FlashInv, FollowedInv, DeviceFollows, Followed
<1> QED
  BY <1>1, FlashInvariant, PTL

(* Writing the configuration keeps the fields that nobody has set.         *)
THEOREM OtherFieldsKept == Spec => OthersKept
<1> DEFINE Keeps == (flash' # flash /\ restored) =>
                      \A f \in Fields \ touched : flash'[f] = flash[f]
<1>1. FlashInv /\ [Next]_vars => Keeps
  <2> SUFFICES ASSUME FlashInv, [Next]_vars, flash' # flash, restored
               PROVE \A f \in Fields \ touched : flash'[f] = flash[f]
    OBVIOUS
  <2>1. PICK o \in Outcomes : Flash(o)
    BY DEF Next, Open, Read, ReadWith, Restore, Set, SetRegister, SetCalibration, Start,
           SessionEnds, Stop, Close, PowerCycle, vars, device
  <2>2. step = "open" /\ flash' = library
    BY <2>1 DEF Flash, Write
  <2> QED
    BY <2>2 DEF FlashInv, RestoredInv, Opening, Known
<1>2. FlashInv /\ [Next]_vars => [Keeps]_vars
  BY <1>1
<1> QED
  BY <1>2, FlashInvariant, PTL DEF Spec, OthersKept
=============================================================================
