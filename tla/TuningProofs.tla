---------------------------- MODULE TuningProofs ----------------------------
(***************************************************************************)
(* Proofs about Tuning, for all rates, architectures, frequencies,         *)
(* calibrations, limits and frequency deltas: its invariant TInv, and the  *)
(* safety properties that follow from it.                                  *)
(***************************************************************************)
EXTENDS Tuning, TLAPS

USE DEF rate, tune, options, call, fw
-----------------------------------------------------------------------------
(* The LO for a frequency is one the device may be tuned to.               *)
LEMMA LoOfFrequency ==
  ASSUME NEW f \in Frequencies, NEW ppb \in Calibrations,
         NEW dsp \in BOOLEAN, NEW low_if \in BOOLEAN
  PROVE  /\ Lo(f, ppb, dsp, low_if) \in Los
         /\ Lo(f, ppb, dsp, low_if) \in Nat
         /\ Lo(f, ppb, dsp, low_if) >= LowestLo(low_if)
<1>1. Lo(f, ppb, dsp, low_if) \in Los
  BY DEF Los
<1> DEFINE x == Adjusted(f, ppb) + IfShift(dsp, low_if)
<1>2. x \in Nat
  BY FrequenciesAssumption, LimitsAssumption DEF IfShift
<1>3. RoundKhz(x) \in Int
  <2> HIDE DEF x
  <2>1. Khz \div 2 \in Nat
    BY LimitsAssumption
  <2>2. x + (Khz \div 2) \in Nat
    BY <1>2, <2>1
  <2> QED
    BY <2>2, LimitsAssumption DEF RoundKhz
<1>4. LowestLo(low_if) \in Nat
  BY LimitsAssumption DEF LowestLo
<1>5. Lo(f, ppb, dsp, low_if) = Higher(LowestLo(low_if), RoundKhz(x))
  BY DEF Lo
<1> QED
  BY <1>1, <1>3, <1>4, <1>5 DEF Higher

(* Every LO is a number of kHz that Low-IF can have.                       *)
LEMMA LosBounds ==
  /\ MIN_ZERO_IF_LO \in Los
  /\ \A khz \in Los : khz \in Nat /\ khz >= MIN_LOW_IF_LO
<1>1. MIN_ZERO_IF_LO \in Los
  BY DEF Los
<1>2. ASSUME NEW khz \in Los
      PROVE  khz \in Nat /\ khz >= MIN_LOW_IF_LO
  <2>1. CASE khz = MIN_ZERO_IF_LO
    BY <2>1, LimitsAssumption
  <2>2. ASSUME NEW f \in Frequencies, NEW ppb \in Calibrations,
               NEW dsp \in BOOLEAN, NEW low_if \in BOOLEAN,
               khz = Lo(f, ppb, dsp, low_if)
        PROVE  khz \in Nat /\ khz >= MIN_LOW_IF_LO
    <3>1. khz \in Nat /\ khz >= LowestLo(low_if)
      BY <2>2, LoOfFrequency
    <3> QED
      BY <3>1, LimitsAssumption DEF LowestLo
  <2> QED
    BY <2>1, <2>2 DEF Los
<1> QED
  BY <1>1, <1>2

(* The lowest LO of an architecture is a number of kHz.                    *)
LEMMA LowestLoType ==
  ASSUME NEW low_if \in BOOLEAN
  PROVE  /\ LowestLo(low_if) \in Nat
         /\ LowestLo(low_if) <= MIN_ZERO_IF_LO
         /\ low_if => LowestLo(low_if) = MIN_LOW_IF_LO
  BY LimitsAssumption DEF LowestLo

(* A transfer that moved all its 4 bytes is taken for a success.           *)
LEMMA SuccessAccepted == ~Below(Returned("ok", 4), 4)
<1>1. 2 ^ 16 = 65536
  OBVIOUS
<1> QED
  BY <1>1 DEF Below, Returned, SizeMax

(* Without data, only a transfer that did not fail is one.                 *)
LEMMA OnlyZeroAccepted ==
  \A o \in Outcomes : o # "short" => (Returned(o, 0) = 0 <=> o = "ok")
  BY DEF Outcomes, Returned

(* airspyhf_set_freq_double up to its first transfer.                      *)
LEMMA TuneEffect ==
  ASSUME TypeOK, NEW f \in Frequencies, NEW ppb \in Calibrations, Tune(f, ppb)
  PROVE  /\ freq_khz' = freq_khz
         /\ freq_delta_hz' = freq_delta_hz
         /\ freq_hz' \in Frequencies
         /\ wanted' \in Frequencies
         /\ freq_shift' \in Int
         /\ lo' \in Los \union {0}
         /\ \/ /\ step' = "freq"
               /\ result' = result
               /\ lo' \in Los /\ lo' >= LowestLo(is_low_if)
            \/ /\ step' = "idle"
               /\ result' = "success"
               /\ freq_hz' = f
               /\ freq_shift' = Shift(f, ppb, freq_khz, freq_delta_hz)
<1> DEFINE khz == Lo(f, ppb, enable_dsp, is_low_if)
<1>1. khz \in Los /\ khz \in Nat /\ khz >= LowestLo(is_low_if)
  BY LoOfFrequency DEF TypeOK
<1>2. Shift(f, ppb, khz, freq_delta_hz) \in Int
  <2> HIDE DEF khz
  <2> QED
    BY <1>1, FrequenciesAssumption, LimitsAssumption DEF Shift, TypeOK
<1>3. CASE freq_khz # khz
  BY <1>1, <1>3 DEF Tune, TypeOK
<1>4. CASE freq_khz = khz
  BY <1>1, <1>2, <1>4 DEF Tune, TypeOK, Return
<1> QED
  BY <1>3, <1>4
-----------------------------------------------------------------------------
(* airspyhf_open establishes the invariant.                                *)
LEMMA TuningInit ==
  ASSUME Init
  PROVE  TInv
<1> USE DEF Init
<1>1. TypeOK
  <2>1. is_low_if \in BOOLEAN /\ enable_dsp \in BOOLEAN /\ failed \in BOOLEAN
    BY Zenon, RatesAssumption
  <2> QED
    BY <2>1, RatesAssumption, FrequenciesAssumption, LosBounds
    DEF TypeOK, Steps, Callers, Results
<1>2. CallStages /\ RateStages /\ LoStages /\ ShiftStages
  BY DEF CallStages, RateStages, LoStages, ShiftStages
<1>3. LoInRange
  BY LowestLoType, RatesAssumption DEF LoInRange
<1>4. SuccessMeansRate
  BY DEF SuccessMeansRate
<1> QED
  BY <1>1, <1>2, <1>3, <1>4 DEF TInv
-----------------------------------------------------------------------------
(* airspyhf_set_freq_double and airspyhf_set_calibration, first part.      *)
LEMMA TuneInv ==
  ASSUME TInv, NEW f \in Frequencies, NEW ppb \in Calibrations,
         step = "idle", caller' = "airspyhf_set_freq", calibration_ppb' = ppb,
         Tune(f, ppb), UNCHANGED <<rate, enable_dsp, fw, failed>>
  PROVE  TInv'
<1> USE DEF TInv
<1> USE TuneEffect
<1>1. TypeOK'
  <2>1. is_low_if' \in BOOLEAN /\ enable_dsp' \in BOOLEAN /\ failed' \in BOOLEAN
    BY Zenon DEF TypeOK, Fails
  <2> QED
    BY <2>1 DEF TypeOK, Steps, Callers, Results
<1>2. CallStages'
  BY DEF CallStages
<1>3. RateStages'
  BY DEF RateStages
<1>4. LoStages'
  BY DEF LoStages
<1>5. ShiftStages'
  BY DEF ShiftStages
<1>6. LoInRange'
  BY DEF LoInRange
<1>7. SuccessMeansRate'
  BY DEF SuccessMeansRate
<1> QED
  BY <1>1, <1>2, <1>3, <1>4, <1>5, <1>6, <1>7 DEF TInv

(* AIRSPYHF_SET_FREQ: the LO the call computed.                            *)
LEMMA SendFreqInv ==
  ASSUME TInv, NEW o \in Outcomes, SendFreq(o)
  PROVE  TInv'
<1> USE DEF TInv, SendFreq, Return, Fails
<1>1. TypeOK'
  <2>1. is_low_if' \in BOOLEAN /\ enable_dsp' \in BOOLEAN /\ failed' \in BOOLEAN
    BY Zenon DEF TypeOK, Fails
  <2> QED
    BY <2>1 DEF TypeOK, Steps, Callers, Results, CallStages
<1>2. CallStages'
  BY DEF CallStages
<1>3. RateStages'
  BY DEF RateStages
<1>4. LoStages'
  BY SuccessAccepted DEF LoStages, Outcomes, Acted
<1>5. ShiftStages'
  BY SuccessAccepted DEF ShiftStages, Outcomes
<1>6. LoInRange'
  BY SuccessAccepted, LowestLoType DEF LoInRange, TypeOK, CallStages, RateStages, Outcomes, Acted
<1>7. SuccessMeansRate'
  BY DEF SuccessMeansRate, RateStages, CallStages
<1> QED
  BY <1>1, <1>2, <1>3, <1>4, <1>5, <1>6, <1>7 DEF TInv

(* AIRSPYHF_GET_FREQ_DELTA: the delta of that LO.                         *)
LEMMA ReadDeltaInv ==
  ASSUME TInv, NEW o \in Outcomes, ReadDelta(o)
  PROVE  TInv'
<1> USE DEF TInv, ReadDelta, Return, Fails
<1>1. TypeOK'
  <2>1. is_low_if' \in BOOLEAN /\ enable_dsp' \in BOOLEAN /\ failed' \in BOOLEAN
    BY Zenon DEF TypeOK
  <2>2. freq_delta_hz' \in Int
    BY DeltaAssumption DEF TypeOK
  <2>3. freq_shift' \in Int
    BY <2>2, LosBounds, FrequenciesAssumption, LimitsAssumption DEF Shift, TypeOK
  <2> QED
    BY <2>1, <2>2, <2>3 DEF TypeOK, Steps, Callers, Results
<1>2. CallStages'
  BY DEF CallStages
<1>3. RateStages'
  BY DEF RateStages
<1>4. LoStages'
  BY DEF LoStages
<1>5. ShiftStages'
  BY DEF ShiftStages, LoStages, CallStages, Returned, TypeOK
<1>6. LoInRange'
  BY DEF LoInRange
<1>7. SuccessMeansRate'
  BY DEF SuccessMeansRate, RateStages, CallStages
<1> QED
  BY <1>1, <1>2, <1>3, <1>4, <1>5, <1>6, <1>7 DEF TInv

(* airspyhf_set_samplerate records the rate and its architecture.          *)
LEMMA SelectRateInv ==
  ASSUME TInv, NEW i \in Rates,
         SelectRate(i, LowIf(i), ~LowIf(i) /\ freq_khz < MIN_ZERO_IF_LO)
  PROVE  TInv'
<1> USE DEF TInv, SelectRate
<1> USE RatesAssumption
<1>1. TypeOK'
  <2>1. is_low_if' \in BOOLEAN /\ enable_dsp' \in BOOLEAN /\ failed' \in BOOLEAN
    BY Zenon DEF TypeOK, Fails
  <2> QED
    BY <2>1 DEF TypeOK, Steps, Callers, Results
<1>2. CallStages'
  BY DEF CallStages
<1>3. RateStages'
  BY DEF RateStages
<1>4. LoStages'
  BY LosBounds, LowestLoType, LimitsAssumption DEF LoStages, LoInRange, TypeOK, LowestLo
<1>5. ShiftStages'
  BY DEF ShiftStages
<1>6. LoInRange'
  BY DEF LoInRange
<1>7. SuccessMeansRate'
  BY DEF SuccessMeansRate
<1> QED
  BY <1>1, <1>2, <1>3, <1>4, <1>5, <1>6, <1>7 DEF TInv

(* or rejects it.                                                          *)
LEMMA RejectRateInv ==
  ASSUME TInv, RejectRate
  PROVE  TInv'
<1> USE DEF TInv, RejectRate, Return
<1>1. TypeOK'
  <2>1. is_low_if' \in BOOLEAN /\ enable_dsp' \in BOOLEAN /\ failed' \in BOOLEAN
    BY Zenon DEF TypeOK, Fails
  <2> QED
    BY <2>1 DEF TypeOK, Steps, Callers, Results
<1>2. CallStages'
  BY DEF CallStages
<1>3. RateStages'
  BY DEF RateStages
<1>4. LoStages'
  BY DEF LoStages
<1>5. ShiftStages'
  BY DEF ShiftStages
<1>6. LoInRange'
  BY DEF LoInRange
<1>7. SuccessMeansRate'
  BY DEF SuccessMeansRate
<1> QED
  BY <1>1, <1>2, <1>3, <1>4, <1>5, <1>6, <1>7 DEF TInv

(* AIRSPYHF_SET_FREQ: the lowest LO of Zero-IF.                            *)
LEMMA ClampInv ==
  ASSUME TInv, NEW o \in Outcomes, Clamp(o)
  PROVE  TInv'
<1> USE DEF TInv, Clamp, Return, Fails
<1>1. TypeOK'
  <2>1. is_low_if' \in BOOLEAN /\ enable_dsp' \in BOOLEAN /\ failed' \in BOOLEAN
    BY Zenon DEF TypeOK, Fails
  <2> QED
    BY <2>1, LosBounds DEF TypeOK, Steps, Callers, Results
<1>2. CallStages'
  BY DEF CallStages
<1>3. RateStages'
  BY SuccessAccepted DEF RateStages, CallStages, Outcomes
<1>4. LoStages'
  BY SuccessAccepted, LowestLoType, LimitsAssumption DEF LoStages, Outcomes, Acted, TypeOK
<1>5. ShiftStages'
  BY SuccessAccepted DEF ShiftStages, Outcomes
<1>6. LoInRange'
  BY SuccessAccepted, LowestLoType, RatesAssumption, LimitsAssumption DEF LoInRange, TypeOK, Outcomes, Acted
<1>7. SuccessMeansRate'
  BY DEF SuccessMeansRate
<1> QED
  BY <1>1, <1>2, <1>3, <1>4, <1>5, <1>6, <1>7 DEF TInv

(* AIRSPYHF_SET_SAMPLERATE: only 0 is a success, so the device has acted.  *)
LEMMA SendSamplerateInv ==
  ASSUME TInv, NEW o \in Outcomes, SendSamplerate(o)
  PROVE  TInv'
<1> USE DEF TInv, SendSamplerate, Return, Fails
<1>1. TypeOK'
  <2>1. is_low_if' \in BOOLEAN /\ enable_dsp' \in BOOLEAN /\ failed' \in BOOLEAN
    BY Zenon DEF TypeOK, Fails
  <2> QED
    BY <2>1 DEF TypeOK, Steps, Callers, Results
<1>2. CallStages'
  BY DEF CallStages
<1>3. RateStages'
  BY OnlyZeroAccepted DEF RateStages, CallStages, Outcomes, Acted
<1>4. LoStages'
  BY DEF LoStages
<1>5. ShiftStages'
  BY OnlyZeroAccepted DEF ShiftStages, Outcomes
<1>6. LoInRange'
  BY DEF LoInRange, CallStages, LoStages, Outcomes, Acted
<1>7. SuccessMeansRate'
  BY DEF SuccessMeansRate, CallStages
<1> QED
  BY <1>1, <1>2, <1>3, <1>4, <1>5, <1>6, <1>7 DEF TInv

(* AIRSPYHF_GET_FILTER_GAIN, and the retuning.                             *)
LEMMA ReadGainInv ==
  ASSUME TInv, NEW o \in Outcomes, ReadGain(o)
  PROVE  TInv'
<1> USE DEF TInv, ReadGain, Fails
<1>0. freq_hz \in Frequencies /\ calibration_ppb \in Calibrations
  BY DEF TypeOK
<1>1. TypeOK'
  <2>1. is_low_if' \in BOOLEAN /\ enable_dsp' \in BOOLEAN /\ failed' \in BOOLEAN
    BY Zenon DEF TypeOK
  <2> QED
    BY <1>0, <2>1, TuneEffect DEF TypeOK, Steps, Callers, Results
<1>2. CallStages'
  BY <1>0, TuneEffect DEF CallStages
<1>3. RateStages'
  BY <1>0, TuneEffect DEF RateStages
<1>4. LoStages'
  BY <1>0, TuneEffect DEF LoStages
<1>5. ShiftStages'
  BY <1>0, TuneEffect DEF ShiftStages
<1>6. LoInRange'
  BY DEF LoInRange
<1>7. SuccessMeansRate'
  BY <1>0, TuneEffect DEF SuccessMeansRate, RateStages, CallStages
<1> QED
  BY <1>1, <1>2, <1>3, <1>4, <1>5, <1>6, <1>7 DEF TInv

(* airspyhf_set_lib_dsp.                                                   *)
LEMMA SetLibDspInv ==
  ASSUME TInv, NEW flag \in BOOLEAN, SetLibDsp(flag)
  PROVE  TInv'
<1> USE DEF TInv, SetLibDsp
<1>1. TypeOK'
  <2>1. is_low_if' \in BOOLEAN /\ enable_dsp' \in BOOLEAN /\ failed' \in BOOLEAN
    BY Zenon DEF TypeOK, Fails
  <2> QED
    BY <2>1 DEF TypeOK, Steps, Callers, Results
<1>2. CallStages'
  BY DEF CallStages
<1>3. RateStages'
  BY DEF RateStages
<1>4. LoStages'
  BY DEF LoStages
<1>5. ShiftStages'
  BY DEF ShiftStages
<1>6. LoInRange'
  BY DEF LoInRange
<1>7. SuccessMeansRate'
  BY DEF SuccessMeansRate
<1> QED
  BY <1>1, <1>2, <1>3, <1>4, <1>5, <1>6, <1>7 DEF TInv
-----------------------------------------------------------------------------
(* The library's view of the device stays consistent through every call    *)
(* and every transfer, whatever fails.                                     *)
THEOREM TuningInvariance == Spec => []TInv
<1>1. Init => TInv
  BY TuningInit
<1>2. TInv /\ [Next]_vars => TInv'
  <2> SUFFICES ASSUME TInv, [Next]_vars
               PROVE  TInv'
    OBVIOUS
  <2>1. ASSUME NEW f \in Frequencies, SetFreq(f)
        PROVE  TInv'
    <3>1. calibration_ppb \in Calibrations
      BY DEF TInv, TypeOK
    <3> QED
      BY <2>1, <3>1, TuneInv DEF SetFreq
  <2>2. ASSUME NEW ppb \in Calibrations, SetCalibration(ppb)
        PROVE  TInv'
    <3>1. freq_hz \in Frequencies
      BY DEF TInv, TypeOK
    <3> QED
      BY <2>2, <3>1, TuneInv DEF SetCalibration
  <2>3. ASSUME NEW i \in Rates \union {NoRate}, SetSamplerate(i)
        PROVE  TInv'
    BY <2>3, SelectRateInv, RejectRateInv DEF SetSamplerate
  <2>4. ASSUME NEW o \in Outcomes, Transfer(o)
        PROVE  TInv'
    BY <2>4, SendFreqInv, ReadDeltaInv, ClampInv, SendSamplerateInv, ReadGainInv
    DEF Transfer
  <2>5. CASE UNCHANGED vars
    BY <2>5 DEF vars, TInv, TypeOK, CallStages, RateStages, LoStages, ShiftStages,
                LoInRange, SuccessMeansRate
  <2> QED
    BY <2>1, <2>2, <2>3, <2>4, <2>5, SetLibDspInv DEF Next, Calls
<1> QED
  BY <1>1, <1>2, PTL DEF Spec

(* Types.                                                                  *)
THEOREM TuningTypeCorrect == Spec => []TypeOK
<1>1. TInv => TypeOK
  BY DEF TInv
<1> QED
  BY <1>1, TuningInvariance, PTL

(* The LO of a device is never too low for its architecture, also between  *)
(* the transfers of one call.                                              *)
THEOREM LoAlwaysInRange == Spec => []LoInRange
<1>1. TInv => LoInRange
  BY DEF TInv
<1> QED
  BY <1>1, TuningInvariance, PTL

(* Between calls the library knows the rate, architecture, gain and LO of  *)
(* a device all of whose transfers succeeded.                              *)
THEOREM DeviceKnown == Spec => []LibraryKnowsDevice
<1>1. TInv => LibraryKnowsDevice
  BY DEF TInv, CallStages, RateStages, LoStages, LibraryKnowsDevice
<1> QED
  BY <1>1, TuningInvariance, PTL

(* airspyhf_set_samplerate returns success only when the device has the    *)
(* rate, whatever failed before.                                           *)
THEOREM RateOnSuccess == Spec => []SuccessMeansRate
<1>1. TInv => SuccessMeansRate
  BY DEF TInv
<1> QED
  BY <1>1, TuningInvariance, PTL

(* The shift that convert_samples corrects is what LO and delta leave of   *)
(* the calibrated frequency, unless the LO is the lowest of Zero-IF.       *)
THEOREM ShiftExact == Spec => []CentredUnlessLowest
<1>1. TInv => CentredUnlessLowest
  <2> SUFFICES ASSUME TInv, step = "idle", ~failed,
                      freq_khz \notin {0, MIN_ZERO_IF_LO}
               PROVE  Centred
    BY DEF CentredUnlessLowest
  <2>1. freq_khz = fw_khz /\ fw_khz \in Nat /\ Delta(fw_khz) \in Int
    BY LosBounds, DeltaAssumption DEF TInv, LoStages, TypeOK
  <2>2. freq_delta_hz = Delta(fw_khz)
    BY <2>1 DEF TInv, ShiftStages
  <2>3. freq_shift = Shift(freq_hz, calibration_ppb, fw_khz, Delta(fw_khz))
    BY <2>1, <2>2 DEF TInv, ShiftStages
  <2>4. Adjusted(freq_hz, calibration_ppb) \in Nat /\ fw_khz * Khz \in Nat
    BY <2>1, FrequenciesAssumption, LimitsAssumption DEF TInv, TypeOK
  <2> QED
    BY <2>1, <2>3, <2>4 DEF Shift, Centred, Centre
<1> QED
  BY <1>1, TuningInvariance, PTL
=============================================================================
