------------------------------- MODULE Tuning -------------------------------
(***************************************************************************)
(* What libairspyhf knows of the device's sample rate, architecture and    *)
(* local oscillator (LO), and what the device really does:                 *)
(* airspyhf_set_samplerate, airspyhf_set_freq_double,                      *)
(* airspyhf_set_calibration and airspyhf_set_lib_dsp, one step per control *)
(* transfer.  A control transfer may fail, before or after the device has  *)
(* acted on it.                                                            *)
(*                                                                         *)
(* The application makes its calls from one thread.  Frequencies are       *)
(* integers of a unit fine enough to tell two of them apart, Khz of them   *)
(* in a kHz; the floating-point correction by calibration_ppb is the       *)
(* operator Adjusted.                                                      *)
(***************************************************************************)
EXTENDS Integers

CONSTANTS
  Rates,            \* indices into supported_samplerates
  LowIf(_),         \* samplerate_architectures: a rate is Low-IF (or Zero-IF)
  NoRate,           \* an index or rate that the device does not support
  Frequencies,      \* the frequencies the application asks for
  Calibrations,     \* the values of calibration_ppb it sets
  Adjusted(_, _),   \* freq_hz * (1.0e9 + calibration_ppb) * 1.0e-9
  Khz,              \* units of frequency in a kHz
  DEFAULT_IF_SHIFT, MIN_ZERO_IF_LO, MIN_LOW_IF_LO,
  Delta(_)          \* the firmware's AIRSPYHF_GET_FREQ_DELTA for an LO

ASSUME RatesAssumption ==
  0 \in Rates /\ NoRate \notin Rates /\ \A r \in Rates : LowIf(r) \in BOOLEAN

ASSUME FrequenciesAssumption ==
  /\ Frequencies \subseteq Nat /\ 0 \in Frequencies
  /\ 0 \in Calibrations
  /\ \A f \in Frequencies, c \in Calibrations : Adjusted(f, c) \in Nat

ASSUME LimitsAssumption ==
  /\ Khz \in Nat \ {0}
  /\ DEFAULT_IF_SHIFT \in Nat
  /\ MIN_ZERO_IF_LO \in Nat \ {0}
  /\ MIN_LOW_IF_LO \in 1 .. MIN_ZERO_IF_LO

RoundKhz(x) == (x + Khz \div 2) \div Khz
Higher(a, b) == IF a > b THEN a ELSE b
LowestLo(low_if) == IF low_if THEN MIN_LOW_IF_LO ELSE MIN_ZERO_IF_LO
IfShift(dsp, low_if) == IF dsp /\ ~low_if THEN DEFAULT_IF_SHIFT ELSE 0

(* The LO for frequency f, and the shift that is left to the library.      *)
Lo(f, ppb, dsp, low_if) ==
  Higher(LowestLo(low_if), RoundKhz(Adjusted(f, ppb) + IfShift(dsp, low_if)))
Shift(f, ppb, khz, delta) == Adjusted(f, ppb) - khz * Khz + delta

(* The LOs a device may be tuned to. *)
Los == {MIN_ZERO_IF_LO} \union
       {Lo(f, ppb, dsp, low_if) : f \in Frequencies, ppb \in Calibrations,
                                  dsp \in BOOLEAN, low_if \in BOOLEAN}

ASSUME DeltaAssumption == \A khz \in Los : Delta(khz) \in Int

VARIABLES
  (* The library. *)
  current_samplerate,  \* as an index
  is_low_if,
  filter_gain,         \* the rate whose gain it is, or NoRate for 1.0
  freq_hz,
  freq_khz,            \* the LO, 0 before the first tuning
  freq_delta_hz,
  freq_shift,
  calibration_ppb,
  enable_dsp,
  (* The call in progress. *)
  step,                \* its next control transfer, or "idle"
  caller,              \* which call it is
  wanted,              \* parameter freq_hz of airspyhf_set_freq_double
  lo,                  \* its local freq_khz
  result,              \* what the last call with control transfers returned
  (* The device. *)
  fw_samplerate,
  fw_khz,
  (* Ghost variable *)
  failed               \* some control transfer has failed

rate == <<current_samplerate, is_low_if, filter_gain>>
tune == <<freq_hz, freq_khz, freq_delta_hz, freq_shift>>
options == <<calibration_ppb, enable_dsp>>
call == <<step, caller, wanted, lo, result>>
fw == <<fw_samplerate, fw_khz>>
vars == <<rate, tune, options, call, fw, failed>>

Steps == {"idle", "clamp", "samplerate", "gain", "freq", "delta"}
Callers == {"airspyhf_set_samplerate", "airspyhf_set_freq"}
Results == {"success", "error"}

(* airspyhf_open leaves the device as it is: at its first sample rate, with*)
(* an LO that rate can have.                                               *)
Init ==
  /\ current_samplerate = 0
  /\ is_low_if = LowIf(0)
  /\ filter_gain = NoRate
  /\ freq_hz = 0
  /\ freq_khz = 0
  /\ freq_delta_hz = 0
  /\ freq_shift = 0
  /\ calibration_ppb \in Calibrations
  /\ enable_dsp = TRUE
  /\ step = "idle"
  /\ caller = "airspyhf_set_freq"
  /\ wanted = 0
  /\ lo = 0
  /\ result = "success"
  /\ fw_samplerate = 0
  /\ fw_khz = MIN_ZERO_IF_LO
  /\ failed = FALSE
-----------------------------------------------------------------------------
(* A control transfer of size bytes succeeds, or moves fewer bytes, or     *)
(* returns a negative libusb error; then the device may have acted or not. *)
Outcomes == {"ok", "short", "lost", "late"}
Acted(o) == o \in {"ok", "late"}
Returned(o, size) ==
  CASE o = "ok" -> size
    [] o = "short" -> size - 1
    [] o \in {"lost", "late"} -> -1

Fails(o) == failed' = (failed \/ o # "ok")

(* result < sizeof(buf): an int compared with a size_t, whose width stands *)
(* for any width that an error code and sizeof(buf) fit in.                *)
SizeMax == 2 ^ 16
Below(n, size) == n % SizeMax < size

Return(value) == step' = "idle" /\ result' = value

(* airspyhf_set_freq_double up to its first control transfer, which it     *)
(* needs only for another LO.                                              *)
Tune(f, ppb) ==
  LET khz == Lo(f, ppb, enable_dsp, is_low_if) IN
  \/ /\ freq_khz # khz
     /\ step' = "freq"
     /\ wanted' = f
     /\ lo' = khz
     /\ UNCHANGED <<tune, result>>
  \/ /\ freq_khz = khz
     /\ freq_hz' = f
     /\ freq_shift' = Shift(f, ppb, khz, freq_delta_hz)
     /\ Return("success")
     /\ UNCHANGED <<freq_khz, freq_delta_hz, wanted, lo>>

SetFreq(f) ==
  /\ step = "idle"
  /\ caller' = "airspyhf_set_freq"
  /\ Tune(f, calibration_ppb)
  /\ UNCHANGED <<rate, options, fw, failed>>

(* Mutant: the new calibration is recorded only. *)
SetCalibrationUntuned(ppb) ==
  /\ step = "idle"
  /\ calibration_ppb' = ppb
  /\ UNCHANGED <<rate, tune, enable_dsp, call, fw, failed>>

SetCalibration(ppb) ==
  /\ step = "idle"
  /\ caller' = "airspyhf_set_freq"
  /\ calibration_ppb' = ppb
  /\ Tune(freq_hz, ppb)
  /\ UNCHANGED <<rate, enable_dsp, fw, failed>>

(* AIRSPYHF_SET_FREQ.  airspyhf_set_samplerate ignores its failure. *)
SendFreq(o) ==
  /\ step = "freq"
  /\ fw_khz' = IF Acted(o) THEN lo ELSE fw_khz
  /\ \/ /\ Below(Returned(o, 4), 4)
        /\ Return(IF caller = "airspyhf_set_freq" THEN "error" ELSE "success")
        /\ UNCHANGED freq_khz
     \/ /\ ~Below(Returned(o, 4), 4)
        /\ freq_khz' = lo
        /\ step' = "delta"
        /\ UNCHANGED result
  /\ Fails(o)
  /\ UNCHANGED <<rate, freq_hz, freq_delta_hz, freq_shift, options, caller,
                 wanted, lo, fw_samplerate>>

(* AIRSPYHF_GET_FREQ_DELTA, and the end of airspyhf_set_freq_double. *)
ReadDelta(o) ==
  /\ step = "delta"
  /\ freq_delta_hz' = IF Returned(o, 4) = 4 THEN Delta(fw_khz) ELSE freq_delta_hz
  /\ freq_hz' = wanted
  /\ freq_shift' = Shift(wanted, calibration_ppb, lo, freq_delta_hz')
  /\ Return("success")
  /\ Fails(o)
  /\ UNCHANGED <<rate, freq_khz, options, caller, wanted, lo, fw>>
-----------------------------------------------------------------------------
(* airspyhf_set_samplerate up to its first control transfer, which is the *)
(* one to clamp the LO or the one to set the rate.                         *)
SelectRate(i, low_if, clamp) ==
  /\ step = "idle"
  /\ caller' = "airspyhf_set_samplerate"
  /\ current_samplerate' = i
  /\ is_low_if' = low_if
  /\ step' = IF clamp THEN "clamp" ELSE "samplerate"
  /\ UNCHANGED <<filter_gain, tune, options, wanted, lo, result, fw, failed>>

RejectRate ==
  /\ step = "idle"
  /\ caller' = "airspyhf_set_samplerate"
  /\ Return("error")
  /\ UNCHANGED <<rate, tune, options, wanted, lo, fw, failed>>

(* Mutants: an unsupported rate is not rejected; the LO is not clamped     *)
(* first; the architecture is not updated.                                 *)
SetSamplerateAny(i) == SelectRate(i, LowIf(i), freq_khz < MIN_ZERO_IF_LO)
SetSamplerateUnclamped(i) == i # NoRate /\ SelectRate(i, LowIf(i), FALSE)
SetSamplerateOnly(i) ==
  i # NoRate /\ SelectRate(i, is_low_if, ~is_low_if /\ freq_khz < MIN_ZERO_IF_LO)

(* A device that leaves Low-IF must have an LO that Zero-IF can have. *)
SetSamplerate(i) ==
  \/ i = NoRate /\ RejectRate
  \/ i # NoRate /\ SelectRate(i, LowIf(i), ~LowIf(i) /\ freq_khz < MIN_ZERO_IF_LO)

(* AIRSPYHF_SET_FREQ to the lowest LO of Zero-IF. *)
Clamp(o) ==
  /\ step = "clamp"
  /\ fw_khz' = IF Acted(o) THEN MIN_ZERO_IF_LO ELSE fw_khz
  /\ \/ /\ Below(Returned(o, 4), 4)
        /\ Return("error")
        /\ UNCHANGED freq_khz
     \/ /\ ~Below(Returned(o, 4), 4)
        /\ freq_khz' = MIN_ZERO_IF_LO
        /\ step' = "samplerate"
        /\ UNCHANGED result
  /\ Fails(o)
  /\ UNCHANGED <<rate, freq_hz, freq_delta_hz, freq_shift, options, caller,
                 wanted, lo, fw_samplerate>>

(* Mutant: like that of the other transfers, its error goes unnoticed. *)
SendSamplerateUnchecked(o) ==
  /\ step = "samplerate"
  /\ o # "short"
  /\ fw_samplerate' = IF Acted(o) THEN current_samplerate ELSE fw_samplerate
  /\ step' = "gain"
  /\ Fails(o)
  /\ UNCHANGED <<rate, tune, options, caller, wanted, lo, result, fw_khz>>

(* AIRSPYHF_SET_SAMPLERATE has no data: it cannot be short. *)
SendSamplerate(o) ==
  /\ step = "samplerate"
  /\ o # "short"
  /\ fw_samplerate' = IF Acted(o) THEN current_samplerate ELSE fw_samplerate
  /\ \/ Returned(o, 0) # 0 /\ Return("error")
     \/ Returned(o, 0) = 0 /\ step' = "gain" /\ UNCHANGED result
  /\ Fails(o)
  /\ UNCHANGED <<rate, tune, options, caller, wanted, lo, fw_khz>>

(* AIRSPYHF_GET_FILTER_GAIN; then the LO is tuned for the new architecture.*)
ReadGain(o) ==
  /\ step = "gain"
  /\ filter_gain' = IF Returned(o, 1) = 1 THEN fw_samplerate ELSE NoRate
  /\ UNCHANGED <<current_samplerate, is_low_if, options, caller, fw>>
  /\ Tune(freq_hz, calibration_ppb)
  /\ Fails(o)

SetLibDsp(flag) ==
  /\ step = "idle"
  /\ enable_dsp' = flag
  /\ UNCHANGED <<rate, tune, calibration_ppb, call, fw, failed>>
-----------------------------------------------------------------------------
Calls ==
  \/ \E f \in Frequencies : SetFreq(f)
  \/ \E ppb \in Calibrations : SetCalibration(ppb)
  \/ \E i \in Rates \union {NoRate} : SetSamplerate(i)
  \/ \E flag \in BOOLEAN : SetLibDsp(flag)

Transfer(o) ==
  SendFreq(o) \/ ReadDelta(o) \/ Clamp(o) \/ SendSamplerate(o) \/ ReadGain(o)

Next == Calls \/ \E o \in Outcomes : Transfer(o)

Spec == Init /\ [][Next]_vars
-----------------------------------------------------------------------------
(* Types.                                                                  *)
TypeOK ==
  /\ current_samplerate \in Rates
  /\ is_low_if \in BOOLEAN
  /\ filter_gain \in Rates \union {NoRate}
  /\ freq_hz \in Frequencies
  /\ freq_khz \in Los \union {0}
  /\ freq_delta_hz \in Int
  /\ freq_shift \in Int
  /\ calibration_ppb \in Calibrations
  /\ enable_dsp \in BOOLEAN
  /\ step \in Steps
  /\ caller \in Callers
  /\ wanted \in Frequencies
  /\ lo \in Los \union {0}
  /\ result \in Results
  /\ fw_samplerate \in Rates
  /\ fw_khz \in Los
  /\ failed \in BOOLEAN

(* The frequency that the device, tuned to khz, has at the centre. *)
Centre(khz) == khz * Khz - Delta(khz)
Centred == freq_shift = Adjusted(freq_hz, calibration_ppb) - Centre(fw_khz)

(* At no moment, also inside a call, does a device all of whose transfers  *)
(* succeeded run with an LO too low for its architecture: the LO is raised *)
(* before a Zero-IF rate is set, and lowered only after a Low-IF one is.   *)
LoInRange == ~failed => fw_khz >= LowestLo(LowIf(fw_samplerate))

(* Between calls the library knows the device it drives, if no transfer    *)
(* ever failed: rate, architecture, gain and LO.  Each is recorded at a    *)
(* different moment, some before the device has it.                        *)
LibraryKnowsDevice ==
  (step = "idle" /\ ~failed) =>
    /\ current_samplerate = fw_samplerate
    /\ is_low_if = LowIf(fw_samplerate)
    /\ filter_gain \in {fw_samplerate, NoRate}
    /\ freq_khz \in {0, fw_khz}

(* Whatever failed before: when airspyhf_set_samplerate returns success    *)
(* the device has the rate, and the library its rate, architecture and     *)
(* gain, or gain 1.0.                                                      *)
SuccessMeansRate ==
  (step = "idle" /\ caller = "airspyhf_set_samplerate" /\ result = "success") =>
    /\ current_samplerate = fw_samplerate
    /\ is_low_if = LowIf(fw_samplerate)
    /\ filter_gain \in {fw_samplerate, NoRate}

(* What the device's LO and its delta leave of the calibrated frequency is *)
(* the shift that convert_samples corrects, if no transfer ever failed and *)
(* unless the LO is the lowest one of Zero-IF.                             *)
CentredUnlessLowest ==
  (step = "idle" /\ ~failed /\ freq_khz \notin {0, MIN_ZERO_IF_LO}) => Centred

(* What airspyhf_rx relies on: airspyhf_set_freq that does not report an   *)
(* error has tuned the device to the LO the library records.               *)
SuccessMeansTuned ==
  (step = "idle" /\ caller = "airspyhf_set_freq" /\ result = "success") =>
    freq_khz \in {0, fw_khz}

(* The comment in convert_samples: the rotation by freq_shift is "Fine     *)
(* tuning": it brings the wanted frequency to the centre.                  *)
FineTuned ==
  (step = "idle" /\ ~failed /\ enable_dsp /\ freq_khz # 0) => Centred
-----------------------------------------------------------------------------
(* The inductive invariant.  The stages of a call: which call makes which  *)
(* transfer, and when the library's rate is the device's.                  *)
CallStages ==
  /\ is_low_if = LowIf(current_samplerate)
  /\ step \in {"clamp", "samplerate", "gain"} => caller = "airspyhf_set_samplerate"
  /\ step = "clamp" => ~is_low_if
  /\ step = "delta" => lo = freq_khz
  /\ step = "freq" => lo \in Los /\ lo >= LowestLo(is_low_if)

RateStages ==
  /\ (~failed /\ step \notin {"clamp", "samplerate"}) =>
       current_samplerate = fw_samplerate
  /\ (~failed /\ step \in {"idle", "freq", "delta"}) =>
       filter_gain \in {fw_samplerate, NoRate}
  /\ (step \in {"gain", "freq", "delta"} /\ caller = "airspyhf_set_samplerate") =>
       current_samplerate = fw_samplerate
  /\ (step \in {"freq", "delta"} /\ caller = "airspyhf_set_samplerate") =>
       filter_gain \in {fw_samplerate, NoRate}

(* The LO, its delta and the shift, if no transfer failed. *)
LoStages ==
  ~failed =>
    /\ freq_khz \in {0, fw_khz}
    /\ step = "samplerate" => fw_khz >= LowestLo(is_low_if)

ShiftStages ==
  ~failed =>
    /\ (step # "delta" /\ freq_khz \notin {0, MIN_ZERO_IF_LO}) =>
         freq_delta_hz = Delta(freq_khz)
    /\ (step = "idle" /\ freq_khz # 0) =>
         freq_shift = Shift(freq_hz, calibration_ppb, freq_khz, freq_delta_hz)

TInv ==
  /\ TypeOK
  /\ CallStages
  /\ RateStages
  /\ LoStages
  /\ ShiftStages
  /\ LoInRange
  /\ SuccessMeansRate
=============================================================================
