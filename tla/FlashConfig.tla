----------------------------- MODULE FlashConfig -----------------------------
(***************************************************************************)
(* The configuration that an Airspy HF+ keeps in flash memory:             *)
(* airspyhf_open reads it, the setters of calibration, VCTCXO and front    *)
(* end change the library's copy and the device's registers, and           *)
(* airspyhf_flash_configuration writes it back, for one application and    *)
(* one device over many sessions, with control transfers that fail, the    *)
(* application ending at any moment and the device losing power.           *)
(*                                                                         *)
(* airspyhf_set_calibration also tunes the device: see the module Tuning.  *)
(***************************************************************************)
EXTENDS Integers

CONSTANTS
  Values,  \* the values of a field
  Zero,    \* the value 0
  Blank    \* flash contents without CALIBRATION_MAGIC

ASSUME ValuesAssumption == Zero \in Values

(* flash_config_t.  The device has a register for each field but ppb. *)
Registers == {"vctcxo", "options"}
Fields == Registers \union {"ppb"}
Configs == [Fields -> Values]
Zeros == [f \in Fields |-> Zero]

ASSUME BlankAssumption == Blank \notin Configs

VARIABLES
  flash,     \* the device's flash memory
  register,  \* the device's registers
  library,   \* calibration_ppb, calibration_vctcxo, frontend_options
  streaming, \* airspyhf_is_streaming
  step,      \* the next transfer of airspyhf_open_init, or what is open
  config,    \* its local variable
  (* Ghost variables *)
  touched,   \* fields set since the device was opened
  restored,  \* airspyhf_open found a configuration, and without an error
  agreed     \* no register transfer has failed since the device was opened

device == <<flash, register>>
call == <<step, config>>
ghosts == <<touched, restored, agreed>>
vars == <<device, library, streaming, call, ghosts>>

Steps == {"closed", "read", "vctcxo", "options", "open"}

Init ==
  /\ flash \in Configs \union {Blank}
  /\ register \in [Registers -> Values]
  /\ library = Zeros
  /\ streaming = FALSE
  /\ step = "closed"
  /\ config = Zeros
  /\ touched = {}
  /\ restored = FALSE
  /\ agreed = TRUE
-----------------------------------------------------------------------------
(* A control transfer succeeds, or moves fewer bytes, or returns a libusb  *)
(* error after the device did or did not act on it.                        *)
Outcomes == {"ok", "short", "lost", "late"}
Acted(o) == o \in {"ok", "late"}
IsError(o) == o \in {"lost", "late"}

(* result < sizeof(buf): the int is converted to size_t, so that an error, *)
(* which is negative, is not below.                                        *)
Below(o) == o = "short"

(* airspyhf_open starts: a new airspyhf_device. *)
Open ==
  /\ step = "closed"
  /\ step' = "read"
  /\ library' = Zeros
  /\ touched' = {}
  /\ restored' = FALSE
  /\ agreed' = TRUE
  /\ UNCHANGED <<device, streaming, config>>

(* airspyhf_config_read.  After an error, which passes for a success, the  *)
(* buffer is whatever the stack held, with the magic number or without.    *)
ReadBuffer(o) ==
  IF IsError(o) THEN Configs \union {Blank}
  ELSE IF Below(o) THEN {Blank} ELSE {flash}

ReadWith(o, Kept) ==
  /\ step = "read"
  /\ \E found \in ReadBuffer(o) :
       \/ /\ found = Blank
          /\ step' = "open"
          /\ library' = Zeros
          /\ UNCHANGED config
       \/ /\ found # Blank
          /\ step' = "vctcxo"
          /\ config' = found
          /\ library' = [f \in Fields |-> IF f \in Kept THEN found[f] ELSE Zero]
  /\ restored' = (o = "ok" /\ flash # Blank)
  /\ UNCHANGED <<device, streaming, touched, agreed>>

(* Mutant: the calibration is not taken over. *)
ReadForgetful(o) == ReadWith(o, {})
Read(o) == ReadWith(o, {"ppb"})

(* The library's copy is set before the transfer, whose error airspyhf_open*)
(* ignores.  The transfer has no data, so it cannot be short.              *)
SetRegister(f, v, o) ==
  /\ o # "short"
  /\ library' = [library EXCEPT ![f] = v]
  /\ register' = IF Acted(o) THEN [register EXCEPT ![f] = v] ELSE register
  /\ agreed' = (agreed /\ o = "ok")
  /\ UNCHANGED <<flash, streaming, config, restored>>

(* Mutant: the front end options are restored in the library only. *)
RestoreHalf(o) ==
  \/ /\ step = "vctcxo" /\ step' = "options"
     /\ SetRegister("vctcxo", config["vctcxo"], o)
     /\ UNCHANGED touched
  \/ /\ step = "options" /\ step' = "open"
     /\ library' = [library EXCEPT !["options"] = config["options"]]
     /\ UNCHANGED <<device, streaming, config, ghosts>>

Restore(o) ==
  /\ \/ step = "vctcxo" /\ step' = "options"
     \/ step = "options" /\ step' = "open"
  /\ SetRegister(step, config[step], o)
  /\ UNCHANGED touched

(* airspyhf_set_vctcxo_calibration, airspyhf_set_frontend_options *)
Set(f, v, o) ==
  /\ step = "open"
  /\ SetRegister(f, v, o)
  /\ touched' = touched \union {f}
  /\ UNCHANGED step

(* airspyhf_set_calibration *)
SetCalibration(v) ==
  /\ step = "open"
  /\ library' = [library EXCEPT !["ppb"] = v]
  /\ touched' = touched \union {"ppb"}
  /\ UNCHANGED <<device, streaming, call, restored, agreed>>
-----------------------------------------------------------------------------
(* airspyhf_config_write, of a configuration.  What the call returns says  *)
(* nothing more: an error of the transfer passes for success.              *)
Write(new, o) ==
  /\ flash' = IF Acted(o) THEN new ELSE flash
  /\ UNCHANGED <<register, library, streaming, call, ghosts>>

(* Mutant: the options are left out. *)
FlashPartly(o) ==
  /\ step = "open" /\ ~streaming
  /\ Write([library EXCEPT !["options"] = Zero], o)

(* airspyhf_flash_configuration refuses while airspyhf_is_streaming. *)
Flash(o) ==
  /\ step = "open" /\ ~streaming
  /\ Write(library, o)
-----------------------------------------------------------------------------
(* airspyhf_start (see the module Streaming) when it succeeds, the end of  *)
(* a session from inside, airspyhf_stop.                                   *)
Start ==
  /\ step = "open" /\ ~streaming
  /\ streaming' = TRUE
  /\ UNCHANGED <<device, library, call, ghosts>>

SessionEnds ==
  /\ streaming
  /\ streaming' = FALSE
  /\ UNCHANGED <<device, library, call, ghosts>>

Stop ==
  /\ step = "open"
  /\ streaming' = FALSE
  /\ UNCHANGED <<device, library, call, ghosts>>

(* The device is closed, or the application ends without. *)
Close ==
  /\ step # "closed"
  /\ step' = "closed"
  /\ streaming' = FALSE
  /\ UNCHANGED <<device, library, config, ghosts>>

(* The device loses power: its registers start with any value. *)
PowerCycle ==
  /\ step' = "closed"
  /\ streaming' = FALSE
  /\ register' \in [Registers -> Values]
  /\ UNCHANGED <<flash, library, config, ghosts>>

Next ==
  \/ Open
  \/ \E o \in Outcomes : Read(o) \/ Restore(o) \/ Flash(o)
  \/ \E f \in Registers, v \in Values, o \in Outcomes : Set(f, v, o)
  \/ \E v \in Values : SetCalibration(v)
  \/ Start \/ SessionEnds \/ Stop \/ Close \/ PowerCycle

Spec == Init /\ [][Next]_vars
-----------------------------------------------------------------------------
(* Types. *)
TypeOK ==
  /\ flash \in Configs \union {Blank}
  /\ register \in [Registers -> Values]
  /\ {library, config} \subseteq Configs
  /\ {streaming, restored, agreed} \subseteq BOOLEAN
  /\ step \in Steps
  /\ touched \subseteq Fields

(* Whatever is in flash memory airspyhf_open restores, and the library     *)
(* never drifts from it unnoticed: through any number of sessions, failing *)
(* transfers and power cycles, a field that the application has not set    *)
(* since it opened the device has the value that a later airspyhf_open     *)
(* will find, if the device could be read.                                 *)
FlashedIsRestored ==
  (step = "open" /\ restored) =>
    \A f \in Fields \ touched : flash # Blank /\ library[f] = flash[f]

(* The device runs with the options the library tells, at every moment     *)
(* between two calls, once airspyhf_open has found a configuration.  (If   *)
(* flash memory is blank, the library says 0 and the device keeps what an  *)
(* earlier session set.)                                                   *)
DeviceFollows ==
  (step = "open" /\ restored /\ agreed) =>
    \A f \in Registers : register[f] = library[f]

(* Writing the configuration changes only the fields that the application  *)
(* has set since it opened the device, when airspyhf_open could read it;   *)
(* airspyhf_calibrate, which sets one field, keeps the others.             *)
OthersKept ==
  [][(flash' # flash /\ restored) =>
       \A f \in Fields \ touched : flash'[f] = flash[f]]_vars
=============================================================================
