-------------------------- MODULE IqBalancerProofs --------------------------
(***************************************************************************)
(* The IQ balancer for any buffer sizes, integrations and optimal points:  *)
(* no reset asked for is lost, both passes over the working buffer take    *)
(* the same windows, and the correction is the mean of the latest of the   *)
(* estimates in the ring.                                                  *)
(***************************************************************************)
EXTENDS IqBalancer, FiniteSetTheorems, TLAPS

(* Nothing that the application asked for is still to come. *)
Quiet == ~reset_flag /\ app # "reset_flag"

(* What was gathered for an earlier point is cleared before it is used. *)
ResetInv ==
  /\ consumer = "reset" => reset_flag
  /\ Quiet => \/ gathered \subseteq {optimal_bin}
              \/ no_of_avg <= 0 /\ consumer \in {"process", "reset?", "begin"}
  /\ Quiet => maximum_image_power \subseteq {optimal_bin}
  /\ (consumer = "measure" /\ count # 0) => gathered # {}
  /\ consumer \in {"correlate", "threshold", "update"} => gathered # {}

(* Outside of iq_balancer_configure there is a flag for each window. *)
Working == consumer # "process" /\ ~disturbed
FlagsInv ==
  /\ app # "power_flag" => power_flag \in Flags(fft_integration)
  /\ Working => app # "power_flag"

(* The windows from lo to below hi that the flags remember. *)
Strong(flags, lo, hi) == {m \in lo .. hi - 1 : flags[m]}
AllWindows == IF WorkingWindows < fft_integration THEN WorkingWindows ELSE fft_integration
PassInv ==
  /\ (Working /\ consumer = "measure") =>
       window <= AllWindows /\ count = Cardinality(Strong(power_flag, 0, window))
  /\ (Working /\ consumer = "correlate") =>
       window <= AllWindows /\ count = Cardinality(Strong(power_flag, window, AllWindows))
  /\ (Working /\ consumer = "threshold") => count = 0

IqInv == TypeOK /\ ResetInv /\ FlagsInv /\ PassInv

LEMMA Constants ==
  /\ WorkingBlocks \in Nat \ {0} /\ WorkingWindows \in Nat \ {0} /\ MaxLookback \in Nat \ {0}
  /\ Integrations \subseteq Nat \ {0}
  /\ BuffersToSkip \in Nat /\ BuffersToSkipOnReset \in Nat /\ CorrelationIntegration \in Nat
  BY BalancerAssumption

LEMMA Remainder ==
  ASSUME NEW a \in Nat, NEW b \in Nat \ {0} PROVE a % b \in 0 .. b - 1
  OBVIOUS

LEMMA IqInit == Init => IqInv
<1> SUFFICES ASSUME Init PROVE IqInv
  OBVIOUS
<1>1. TypeOK
  <2>1. /\ 0 \in 0 .. WorkingBlocks - 1 /\ 0 \in 0 .. BuffersToSkip /\ 0 \in 0 .. WorkingWindows
        /\ 0 \in 0 .. MaxLookback /\ 0 \in 0 .. MaxLookback - 1 /\ 0 \in 0 .. 2 * MaxLookback - 1
    BY Constants
  <2>2. raw \in [0 .. MaxLookback - 1 -> Nat]
    BY DEF Init
  <2>3. \E n \in Integrations : power_flag \in Flags(n)
    BY DEF Init
  <2>4. /\ working_buffer_pos \in 0 .. WorkingBlocks - 1 /\ skipped_buffers \in 0 .. BuffersToSkip
        /\ window \in 0 .. WorkingWindows /\ no_of_raw \in 0 .. MaxLookback
        /\ raw_ptr \in 0 .. MaxLookback - 1 /\ updates \in 0 .. 2 * MaxLookback - 1
    BY <2>1 DEF Init
  <2>5. /\ count \in Int /\ gathered \subseteq Bins /\ phase \subseteq Nat /\ no_of_avg \in Int
    BY DEF Init
  <2>6. {reset_flag, disturbed} \subseteq BOOLEAN
    BY DEF Init
  <2> QED
    BY <2>2, <2>3, <2>4, <2>5, <2>6 DEF Init, TypeOK
<1>2. ResetInv /\ FlagsInv /\ PassInv
  BY DEF Init, ResetInv, FlagsInv, PassInv, Working
<1> QED
  BY <1>1, <1>2 DEF IqInv
-----------------------------------------------------------------------------
(* Types. *)
LEMMA LookbackType ==
  ASSUME NEW n \in 0 .. MaxLookback - 1, NEW k \in 0 .. MaxLookback
  PROVE  Lookback(n, k) \subseteq 0 .. MaxLookback - 1
<1> SUFFICES ASSUME NEW j \in 0 .. k - 1
             PROVE  (n + MaxLookback - j) % MaxLookback \in 0 .. MaxLookback - 1
  BY DEF Lookback
<1>1. n + MaxLookback - j \in Nat
  BY Constants
<1> QED
  BY <1>1, Remainder, Constants

LEMMA UpdateType == TypeOK /\ Update => TypeOK'
<1> SUFFICES ASSUME TypeOK, Update PROVE TypeOK'
  OBVIOUS
<1> USE DEF Update, UpdateWith, ConsumerGoes
<1>1. /\ raw \in [0 .. MaxLookback - 1 -> Nat] /\ raw_ptr \in 0 .. MaxLookback - 1
      /\ updates \in 0 .. 2 * MaxLookback - 1 /\ no_of_raw \in 0 .. MaxLookback
  BY DEF TypeOK
<1>2. no_of_raw' \in 0 .. MaxLookback
  BY <1>1, Constants
<1>3. raw' \in [0 .. MaxLookback - 1 -> Nat]
  BY <1>1, Constants
<1>4. raw_ptr' \in 0 .. MaxLookback - 1
  <2>1. raw_ptr + 1 \in Nat
    BY <1>1
  <2> QED
    BY <2>1, Remainder, Constants
<1>5. updates' \in 0 .. 2 * MaxLookback - 1
  <2>1. updates + 1 \in Nat /\ 2 * MaxLookback \in Nat \ {0}
    BY <1>1, Constants
  <2> QED
    BY <2>1, Remainder
<1>6. phase' \subseteq Nat
  BY <1>1, <1>2, <1>3, LookbackType
<1>7. consumer' = "process"
      /\ UNCHANGED <<shared, buffering, no_of_avg, windows, maximum_image_power, disturbed>>
  OBVIOUS
<1> QED
  BY <1>2, <1>3, <1>4, <1>5, <1>6, <1>7 DEF TypeOK, shared, buffering, windows

LEMMA TypeStep == TypeOK /\ [Next]_vars => TypeOK'
<1> SUFFICES ASSUME TypeOK, [Next]_vars PROVE TypeOK'
  OBVIOUS
<1> USE DEF shared, buffering, windows, raws, consumed, unshared, AppGoes, ConsumerGoes
<1>1. ASSUME NEW b \in Bins, SetOptimalPoint(b) PROVE TypeOK'
  BY <1>1 DEF SetOptimalPoint, TypeOK
<1>2. ASSUME NEW n \in Integrations, Configure(n) PROVE TypeOK'
  BY <1>2 DEF Configure, TypeOK
<1>3. CASE ConfigureFlags
  <2>1. power_flag' \in Flags(fft_integration) /\ disturbed' \in BOOLEAN
    BY <1>3 DEF ConfigureFlags, ConfigureFlagsWith, Flags
  <2> QED
    BY <1>3, <2>1 DEF ConfigureFlags, ConfigureFlagsWith, TypeOK
<1>4. CASE AskReset
  BY <1>4 DEF AskReset, TypeOK
<1>5. CASE Process
  <2>1. working_buffer_pos' \in 0 .. WorkingBlocks - 1
    BY <1>5, Constants DEF Process, TypeOK
  <2>2. skipped_buffers' \in 0 .. BuffersToSkip
    BY <1>5, Constants DEF Process, TypeOK
  <2>3. consumer' \in {"process", "reset?"} /\ disturbed' \in BOOLEAN
    BY <1>5 DEF Process, TypeOK
  <2> QED
    BY <1>5, <2>1, <2>2, <2>3 DEF Process, TypeOK
<1>6. CASE TestReset \/ Reset
  <2>1. CASE TestReset
    BY <2>1 DEF TestReset, TypeOK
  <2>2. CASE Reset
    <3>1. no_of_avg' \in Int
      BY <2>2, Constants DEF Reset
    <3> QED
      BY <2>2, <3>1 DEF Reset, TypeOK
  <2> QED
    BY <1>6, <2>1, <2>2
<1>7. CASE Begin
  <2>1. /\ no_of_avg' \in Int /\ count' \in Int
        /\ window' \in 0 .. WorkingWindows /\ gathered' \subseteq Bins
        /\ consumer' \in {"process", "measure"}
    BY <1>7, Constants DEF Begin, TypeOK
  <2> QED
    BY <1>7, <2>1 DEF Begin, TypeOK
<1>8. CASE Measure
  <2>1. window \in 0 .. WorkingWindows /\ window' = window + 1 /\ window < WorkingWindows
    BY <1>8 DEF Measure, MoreWindows, TypeOK
  <2>2. window' \in 0 .. WorkingWindows
    BY <2>1, Constants
  <2>3. PICK n \in Integrations : power_flag \in Flags(n)
    BY DEF TypeOK
  <2>4. power_flag' \in Flags(n)
    BY <1>8, <2>3 DEF Measure, SetFlag, Flags
  <2>5. count' \in Int /\ gathered' \subseteq Bins
    <3>1. count \in Int /\ gathered \subseteq Bins /\ optimal_bin \in Bins
      BY DEF TypeOK
    <3>2. \/ count' = count + 1 /\ gathered' = gathered \union {optimal_bin}
          \/ count' = count /\ gathered' = gathered
      BY <1>8 DEF Measure
    <3> QED
      BY <3>1, <3>2
  <2> QED
    BY <1>8, <2>2, <2>4, <2>5 DEF Measure, TypeOK
<1>9. CASE Measured
  BY <1>9, Constants DEF Measured, TypeOK
<1>10. CASE Correlate
  BY <1>10, Constants DEF Correlate, MoreWindows, TypeOK
<1>11. CASE Correlated \/ Threshold
  <2>1. CASE Correlated
    BY <2>1 DEF Correlated, TypeOK
  <2>2. CASE Threshold
    <3>1. maximum_image_power' \subseteq Bins /\ consumer' \in {"process", "update"}
      BY <2>2 DEF Threshold, TypeOK
    <3> QED
      BY <2>2, <3>1 DEF Threshold, TypeOK
  <2> QED
    BY <1>11, <2>1, <2>2
<1>12. CASE Update
  BY <1>12, UpdateType
<1>13. CASE UNCHANGED vars
  BY <1>13 DEF vars, TypeOK
<1> QED
  BY <1>1, <1>2, <1>3, <1>4, <1>5, <1>6, <1>7, <1>8, <1>9, <1>10, <1>11, <1>12, <1>13
     DEF Next, Consumer

(* A reset asked for comes before the next use of what was gathered. *)
LEMMA ResetStep == TypeOK /\ ResetInv /\ [Next]_vars => ResetInv'
<1> SUFFICES ASSUME TypeOK, ResetInv, [Next]_vars PROVE ResetInv'
  OBVIOUS
<1> USE DEF ResetInv, Quiet, shared, buffering, windows, raws, consumed, unshared, AppGoes,
            ConsumerGoes
<1>1. ASSUME NEW b \in Bins, SetOptimalPoint(b) PROVE ResetInv'
  BY <1>1 DEF SetOptimalPoint
<1>2. ASSUME NEW n \in Integrations, Configure(n) PROVE ResetInv'
  BY <1>2 DEF Configure
<1>3. CASE ConfigureFlags \/ AskReset
  BY <1>3 DEF ConfigureFlags, ConfigureFlagsWith, AskReset
<1>4. CASE Process
  BY <1>4 DEF Process
<1>5. CASE TestReset
  BY <1>5 DEF TestReset
<1>6. CASE Reset
  BY <1>6, Constants DEF Reset
<1>7. CASE Begin
  BY <1>7 DEF Begin, TypeOK
<1>8. CASE Measure
  BY <1>8 DEF Measure
<1>9. CASE Measured
  BY <1>9 DEF Measured
<1>10. CASE Correlate
  BY <1>10 DEF Correlate
<1>11. CASE Correlated
  BY <1>11 DEF Correlated
<1>12. CASE Threshold \/ Update
  BY <1>12 DEF Threshold, Update, UpdateWith
<1>13. CASE UNCHANGED vars
  BY <1>13 DEF vars
<1> QED
  BY <1>1, <1>2, <1>3, <1>4, <1>5, <1>6, <1>7, <1>8, <1>9, <1>10, <1>11, <1>12, <1>13
     DEF Next, Consumer

(* The flags are as many as the windows asked for. *)
LEMMA FlagsStep == TypeOK /\ FlagsInv /\ [Next]_vars => FlagsInv'
<1> SUFFICES ASSUME TypeOK, FlagsInv, [Next]_vars PROVE FlagsInv'
  OBVIOUS
<1> USE DEF FlagsInv, Working, shared, buffering, windows, raws, consumed, unshared,
            AppGoes, ConsumerGoes
<1>1. ASSUME NEW b \in Bins, SetOptimalPoint(b) PROVE FlagsInv'
  BY <1>1 DEF SetOptimalPoint
<1>2. ASSUME NEW n \in Integrations, Configure(n) PROVE FlagsInv'
  BY <1>2 DEF Configure
<1>3. CASE ConfigureFlags
  BY <1>3 DEF ConfigureFlags, ConfigureFlagsWith, Flags
<1>4. CASE AskReset
  BY <1>4 DEF AskReset
<1>5. CASE Process
  BY <1>5 DEF Process
<1>6. CASE TestReset \/ Reset \/ Begin
  BY <1>6 DEF TestReset, Reset, Begin
<1>7. CASE Measure
  <2>1. power_flag \in Flags(fft_integration) => power_flag' \in Flags(fft_integration)
    BY <1>7 DEF Measure, SetFlag, Flags
  <2> QED
    BY <1>7, <2>1 DEF Measure
<1>8. CASE Measured \/ Correlate \/ Correlated \/ Threshold \/ Update
  BY <1>8 DEF Measured, Correlate, Correlated, Threshold, Update, UpdateWith
<1>9. CASE UNCHANGED vars
  BY <1>9 DEF vars
<1> QED
  BY <1>1, <1>2, <1>3, <1>4, <1>5, <1>6, <1>7, <1>8, <1>9 DEF Next, Consumer

LEMMA WindowBounds ==
  ASSUME TypeOK
  PROVE  /\ AllWindows \in Nat /\ fft_integration \in Nat /\ WorkingWindows \in Nat
         /\ AllWindows <= WorkingWindows /\ AllWindows <= fft_integration
         /\ MoreWindows <=> window < AllWindows
  BY Constants DEF TypeOK, AllWindows, MoreWindows

LEMMA StrongFinite ==
  ASSUME NEW flags, NEW lo \in Int, NEW hi \in Int
  PROVE  IsFiniteSet(Strong(flags, lo, hi)) /\ Cardinality(Strong(flags, lo, hi)) \in Nat
<1>1. hi - 1 \in Int
  OBVIOUS
<1>2. IsFiniteSet(lo .. hi - 1)
  BY <1>1, FS_Interval
<1>3. Strong(flags, lo, hi) \subseteq lo .. hi - 1
  BY DEF Strong
<1>4. IsFiniteSet(Strong(flags, lo, hi))
  BY <1>2, <1>3, FS_Subset
<1> QED
  BY <1>4, FS_CardinalityType

(* Both passes count the same windows. *)
LEMMA PassStep == TypeOK /\ FlagsInv /\ PassInv /\ [Next]_vars => PassInv'
<1> SUFFICES ASSUME TypeOK, FlagsInv, PassInv, [Next]_vars PROVE PassInv'
  OBVIOUS
<1> USE DEF Working, shared, buffering, windows, raws, consumed, unshared, AppGoes,
            ConsumerGoes
<1>0. ASSUME UNCHANGED <<consumer, disturbed, window, count, power_flag, fft_integration>>
      PROVE  PassInv'
  BY <1>0 DEF PassInv, Strong, AllWindows
<1>1. ASSUME NEW b \in Bins, SetOptimalPoint(b) PROVE PassInv'
  BY <1>0, <1>1 DEF SetOptimalPoint
<1>2. CASE consumer' = "process" \/ disturbed'
  BY <1>2 DEF PassInv
<1>3. ASSUME NEW n \in Integrations, Configure(n) PROVE PassInv'
  BY <1>2, <1>3 DEF Configure
<1>4. CASE ConfigureFlags
  BY <1>2, <1>4 DEF ConfigureFlags, ConfigureFlagsWith
<1>5. CASE AskReset
  BY <1>0, <1>5 DEF AskReset
<1>6. CASE Process \/ TestReset \/ Reset \/ Threshold \/ Update
  BY <1>6 DEF PassInv, Process, TestReset, Reset, Threshold, Update, UpdateWith
<1>7. CASE Begin
  <2>1. CASE consumer' = "measure" /\ window' = 0 /\ count' = 0
    <3>1. Strong(power_flag', 0, 0) = {}
      BY DEF Strong
    <3>2. Cardinality({}) = 0
      BY FS_EmptySet
    <3>3. 0 <= AllWindows'
      BY <1>7, WindowBounds DEF Begin, AllWindows
    <3> QED
      BY <2>1, <3>1, <3>2, <3>3 DEF PassInv
  <2> QED
    BY <1>2, <1>7, <2>1 DEF Begin
<1>8. CASE Measure
  <2>1. CASE disturbed
    BY <1>2, <1>8, <2>1 DEF Measure
  <2>2. CASE ~disturbed
    <3>1. /\ window < AllWindows /\ count = Cardinality(Strong(power_flag, 0, window))
          /\ power_flag \in Flags(fft_integration) /\ window \in Nat
      BY <1>8, <2>2, WindowBounds DEF Measure, FlagsInv, PassInv, TypeOK
    <3>2. window \in DOMAIN power_flag
      BY <3>1, WindowBounds DEF Flags
    <3>3. window' = window + 1 /\ AllWindows' = AllWindows /\ consumer' = "measure"
      BY <1>8 DEF Measure, AllWindows
    <3>4. IsFiniteSet(Strong(power_flag, 0, window)) /\ window \notin Strong(power_flag, 0, window)
      BY <3>1, StrongFinite DEF Strong
    <3>5. CASE SetFlag(window, TRUE) /\ count' = count + 1
      <4>1. Strong(power_flag', 0, window + 1) = Strong(power_flag, 0, window) \union {window}
        <5>1. DOMAIN power_flag = 0 .. fft_integration - 1
          BY <3>1 DEF Flags
        <5>2. \A m \in 0 .. window : power_flag'[m] = IF m = window THEN TRUE ELSE power_flag[m]
          <6>1. power_flag' = [m \in 0 .. fft_integration - 1 |->
                                IF m = window THEN TRUE ELSE power_flag[m]]
            BY <3>5, <5>1 DEF SetFlag
          <6>2. 0 .. window \subseteq 0 .. fft_integration - 1
            BY <3>1, WindowBounds
          <6> QED
            BY <6>1, <6>2
        <5> QED
          <6>1. 0 .. (window + 1) - 1 = 0 .. window /\ 0 .. window = (0 .. window - 1) \union {window}
            BY <3>1
          <6> QED
            BY <3>1, <5>2, <6>1 DEF Strong
      <4>2. Cardinality(Strong(power_flag', 0, window + 1)) = Cardinality(Strong(power_flag, 0, window)) + 1
        BY <3>4, <4>1, FS_AddElement
      <4> QED
        <5>1. window + 1 <= AllWindows
          BY <3>1, WindowBounds
        <5> QED
          BY <3>1, <3>3, <3>5, <4>2, <5>1 DEF PassInv
    <3>6. CASE SetFlag(window, FALSE) /\ count' = count
      <4>1. Strong(power_flag', 0, window + 1) = Strong(power_flag, 0, window)
        <5>1. DOMAIN power_flag = 0 .. fft_integration - 1
          BY <3>1 DEF Flags
        <5>2. \A m \in 0 .. window : power_flag'[m] = IF m = window THEN FALSE ELSE power_flag[m]
          <6>1. power_flag' = [m \in 0 .. fft_integration - 1 |->
                                IF m = window THEN FALSE ELSE power_flag[m]]
            BY <3>6, <5>1 DEF SetFlag
          <6>2. 0 .. window \subseteq 0 .. fft_integration - 1
            BY <3>1, WindowBounds
          <6> QED
            BY <6>1, <6>2
        <5> QED
          <6>1. 0 .. (window + 1) - 1 = 0 .. window /\ 0 .. window = (0 .. window - 1) \union {window}
            BY <3>1
          <6> QED
            <7>1. Strong(power_flag', 0, window + 1) = {m \in 0 .. window : power_flag'[m]}
              BY <6>1 DEF Strong
            <7>2. Strong(power_flag, 0, window) = {m \in 0 .. window - 1 : power_flag[m]}
              BY DEF Strong
            <7>3. ASSUME NEW m \in 0 .. window
                  PROVE  power_flag'[m] <=> m \in 0 .. window - 1 /\ power_flag[m]
              <8>1. CASE m = window
                <9>1. power_flag'[m] = FALSE
                  BY <5>2, <8>1, Zenon
                <9>2. m \notin 0 .. window - 1
                  BY <3>1, <8>1
                <9> QED
                  BY <9>1, <9>2, Zenon
              <8>2. CASE m # window
                <9>1. power_flag'[m] = power_flag[m]
                  BY <5>2, <8>2, Zenon
                <9>2. m \in 0 .. window - 1
                  BY <3>1, <8>2
                <9> QED
                  BY <9>1, <9>2, Zenon
              <8> QED
                BY <8>1, <8>2
            <7> QED
              BY <6>1, <7>1, <7>2, <7>3
      <4> QED
        <5>1. window + 1 <= AllWindows
          BY <3>1, WindowBounds
        <5> QED
          BY <3>1, <3>3, <3>6, <4>1, <5>1 DEF PassInv
    <3> QED
      BY <1>8, <3>5, <3>6 DEF Measure
  <2> QED
    BY <2>1, <2>2
<1>9. CASE Measured
  <2>1. CASE consumer' = "correlate" /\ ~disturbed
    <3>1. /\ window <= AllWindows /\ ~(window < AllWindows) /\ window \in Nat
          /\ count = Cardinality(Strong(power_flag, 0, window))
      BY <1>9, <2>1, WindowBounds DEF Measured, PassInv, TypeOK
    <3>2. window = AllWindows
      BY <3>1, WindowBounds
    <3>3. /\ window' = 0 /\ count' = count /\ AllWindows' = AllWindows
          /\ Strong(power_flag', 0, AllWindows) = Strong(power_flag, 0, AllWindows)
      BY <1>9 DEF Measured, AllWindows, Strong
    <3> QED
      BY <2>1, <3>1, <3>2, <3>3, WindowBounds DEF PassInv
  <2> QED
    BY <1>2, <1>9, <2>1 DEF Measured
<1>10. CASE Correlate
  <2>1. CASE disturbed
    BY <1>2, <1>10, <2>1 DEF Correlate
  <2>2. CASE ~disturbed
    <3>1. /\ window < AllWindows /\ count = Cardinality(Strong(power_flag, window, AllWindows))
          /\ power_flag \in Flags(fft_integration) /\ window \in Nat
      BY <1>10, <2>2, WindowBounds DEF Correlate, FlagsInv, PassInv, TypeOK
    <3>2. window \in DOMAIN power_flag
      BY <3>1, WindowBounds DEF Flags
    <3>3. /\ window' = window + 1 /\ AllWindows' = AllWindows /\ consumer' = "correlate"
          /\ Strong(power_flag', window + 1, AllWindows) = Strong(power_flag, window + 1, AllWindows)
      BY <1>10 DEF Correlate, AllWindows, Strong
    <3>4. IsFiniteSet(Strong(power_flag, window, AllWindows)) /\ Cardinality(Strong(power_flag, window, AllWindows)) \in Nat
      BY <3>1, StrongFinite, WindowBounds
    <3>5. CASE power_flag[window]
      <4>1. /\ Strong(power_flag, window + 1, AllWindows) = Strong(power_flag, window, AllWindows) \ {window}
            /\ window \in Strong(power_flag, window, AllWindows)
        BY <3>1, <3>5, WindowBounds DEF Strong
      <4>2. Cardinality(Strong(power_flag, window + 1, AllWindows)) = Cardinality(Strong(power_flag, window, AllWindows)) - 1
        BY <3>4, <4>1, FS_RemoveElement
      <4>3. count' = count - 1
        BY <1>10, <3>2, <3>5 DEF Correlate, FlagRead
      <4> QED
        <5>1. window + 1 <= AllWindows
          BY <3>1, WindowBounds
        <5> QED
          BY <3>1, <3>3, <4>2, <4>3, <5>1 DEF PassInv
    <3>6. CASE ~power_flag[window]
      <4>1. Strong(power_flag, window + 1, AllWindows) = Strong(power_flag, window, AllWindows)
        BY <3>1, <3>6, WindowBounds DEF Strong
      <4>2. count' = count
        BY <1>10, <3>6 DEF Correlate, FlagRead
      <4> QED
        <5>1. window + 1 <= AllWindows
          BY <3>1, WindowBounds
        <5> QED
          BY <3>1, <3>3, <4>1, <4>2, <5>1 DEF PassInv
    <3> QED
      BY <3>5, <3>6
  <2> QED
    BY <2>1, <2>2
<1>11. CASE Correlated
  <2>1. CASE consumer' = "threshold" /\ ~disturbed
    <3>1. /\ window <= AllWindows /\ ~(window < AllWindows) /\ window \in Nat
          /\ count = Cardinality(Strong(power_flag, window, AllWindows))
      BY <1>11, <2>1, WindowBounds DEF Correlated, PassInv, TypeOK
    <3>2. Strong(power_flag, window, AllWindows) = {}
      BY <3>1, WindowBounds DEF Strong
    <3>3. count = 0
      BY <3>1, <3>2, FS_EmptySet
    <3> QED
      BY <1>11, <2>1, <3>3 DEF Correlated, PassInv
  <2> QED
    BY <1>2, <1>11, <2>1 DEF Correlated
<1>12. CASE UNCHANGED vars
  BY <1>0, <1>12 DEF vars
<1> QED
  BY <1>1, <1>3, <1>4, <1>5, <1>6, <1>7, <1>8, <1>9, <1>10, <1>11, <1>12 DEF Next, Consumer
-----------------------------------------------------------------------------
(* The invariant of the balancer's control.                                *)
THEOREM IqInvariant == Spec => []IqInv
<1>1. Init => IqInv
  BY IqInit
<1>2. IqInv /\ [Next]_vars => IqInv'
  BY TypeStep, ResetStep, FlagsStep, PassStep DEF IqInv
<1> QED
  BY <1>1, <1>2, PTL DEF Spec

(* No reset is lost: an update is made from windows for the point in force,*)
(* or the reset that will discard it is still to come.                     *)
THEOREM NoResetLost == Spec => []MixedOnlyBeforeReset
<1>1. IqInv => MixedOnlyBeforeReset
  BY DEF IqInv, ResetInv, Quiet, MixedOnlyBeforeReset
<1> QED
  BY <1>1, IqInvariant, PTL

(* Both passes over the working buffer take the same windows.              *)
THEOREM BothPassesAgree == Spec => []PassesAgree
<1>1. IqInv => PassesAgree
  BY DEF IqInv, PassInv, Working, PassesAgree
<1> QED
  BY <1>1, IqInvariant, PTL

(* There is a flag for each window measured or correlated.                 *)
THEOREM EachWindowFlagged == Spec => []FlagsAllocated
<1>1. IqInv => FlagsAllocated
  <2> SUFFICES ASSUME IqInv, consumer \in {"measure", "correlate"}, MoreWindows, ~disturbed
               PROVE  window \in DOMAIN power_flag
    BY DEF FlagsAllocated
  <2>1. power_flag \in Flags(fft_integration)
    BY DEF IqInv, FlagsInv, Working
  <2>2. window \in Nat /\ fft_integration \in Nat /\ window < fft_integration
    BY Constants DEF IqInv, TypeOK, MoreWindows
  <2> QED
    BY <2>1, <2>2 DEF Flags
<1> QED
  BY <1>1, IqInvariant, PTL
-----------------------------------------------------------------------------
(* The ring of the last estimates.  Stepping around a ring of k places and *)
(* looking j back is looking j - 1 back from before the step.              *)
LEMMA Around ==
  ASSUME NEW k \in Nat \ {0}, NEW a \in Nat
  PROVE  /\ a < k => a % k = a
         /\ (k <= a /\ a < 2 * k) => a % k = a - k
  OBVIOUS

LEMMA LookBack ==
  ASSUME NEW k \in Nat \ {0}, NEW a \in 0 .. k - 1, NEW j \in 1 .. k
  PROVE  (((a + 1) % k) + k - j) % k = (a + k - (j - 1)) % k
<1>1. CASE a + 1 < k
  <2>1. (a + 1) % k = a + 1
    <3>1. a + 1 \in Nat
      OBVIOUS
    <3> QED
      BY <1>1, <3>1, Around
  <2>2. a + 1 + k - j = a + k - (j - 1)
    OBVIOUS
  <2> QED
    BY <2>1, <2>2
<1>2. CASE a + 1 = k
  <2>1. (a + 1) % k = 0
    <3>1. k % k = k - k
      <4>1. k \in Nat /\ k <= k /\ k < 2 * k
        OBVIOUS
      <4> QED
        BY <4>1, Around
    <3> QED
      BY <1>2, <3>1
  <2>2. k - j \in Nat /\ k - j < k
    OBVIOUS
  <2>3. (0 + k - j) % k = k - j
    <3>1. 0 + k - j = k - j
      OBVIOUS
    <3>2. (k - j) % k = k - j
      BY <2>2, Around
    <3> QED
      BY <3>1, <3>2
  <2>4. a + k - (j - 1) = 2 * k - j
    BY <1>2
  <2>5. 2 * k - j \in Nat /\ k <= 2 * k - j /\ 2 * k - j < 2 * k
    OBVIOUS
  <2>6. (2 * k - j) % k = 2 * k - j - k
    BY <2>5, Around
  <2> QED
    BY <2>1, <2>3, <2>4, <2>6
<1> QED
  BY <1>1, <1>2

(* Looking less than k places back, but not 0, leads to another place.     *)
LEMMA LookElsewhere ==
  ASSUME NEW k \in Nat \ {0}, NEW a \in 0 .. k - 1, NEW j \in 0 .. k - 1
  PROVE  /\ (a + k - j) % k \in 0 .. k - 1
         /\ (a + k - j) % k = a <=> j = 0
<1>1. a + k - j \in Nat /\ a + k - j < 2 * k
  OBVIOUS
<1>2. (a + k - j) % k \in 0 .. k - 1
  BY <1>1, Remainder
<1>3. CASE a < j
  <2>1. (a + k - j) % k = a + k - j
    BY <1>1, <1>3, Around
  <2> QED
    BY <1>2, <1>3, <2>1
<1>4. CASE j <= a
  <2>1. (a + k - j) % k = a + k - j - k
    BY <1>1, <1>4, Around
  <2> QED
    BY <1>2, <1>4, <2>1
<1> QED
  BY <1>3, <1>4

(* The place j back from the next one holds the number of the j-th last    *)
(* estimate.                                                               *)
RingAt(j) == raw[(raw_ptr + MaxLookback - j) % MaxLookback]
NumberAgo(j) == (updates + 2 * MaxLookback - j) % (2 * MaxLookback)
RingInv == \A j \in 1 .. no_of_raw : RingAt(j) = NumberAgo(j)

LEMMA RingStep == TypeOK /\ RingInv /\ MeanOfLatest /\ [Next]_vars => RingInv' /\ MeanOfLatest'
<1> SUFFICES ASSUME TypeOK, RingInv, MeanOfLatest, [Next]_vars
             PROVE  RingInv' /\ MeanOfLatest'
  OBVIOUS
<1>1. CASE UNCHANGED raws
  BY <1>1 DEF raws, RingInv, RingAt, NumberAgo, MeanOfLatest
<1>2. CASE Update
  <2> DEFINE M == MaxLookback
             n == no_of_raw'
             number(i) == (updates + 2 * M - i) % (2 * M)
  <2>1. /\ raw' = [raw EXCEPT ![raw_ptr] = updates]
        /\ phase' = {raw'[p] : p \in Lookback(raw_ptr, n)}
        /\ raw_ptr' = (raw_ptr + 1) % M /\ updates' = (updates + 1) % (2 * M)
    BY <1>2 DEF Update, UpdateWith
  <2>2. /\ M \in Nat \ {0} /\ 2 * M \in Nat \ {0} /\ M < 2 * M
        /\ raw_ptr \in 0 .. M - 1 /\ updates \in 0 .. 2 * M - 1
        /\ raw \in [0 .. M - 1 -> Nat]
    BY Constants DEF TypeOK
  <2>3. n \in 1 .. M /\ no_of_raw \in Nat /\ n <= no_of_raw + 1
    <3>1. no_of_raw \in 0 .. M
      BY DEF TypeOK
    <3>2. n = IF no_of_raw < M THEN no_of_raw + 1 ELSE no_of_raw
      BY <1>2 DEF Update, UpdateWith
    <3> HIDE DEF n
    <3> QED
      BY <2>2, <3>1, <3>2
  <2>4. ASSUME NEW i \in 0 .. n - 1
        PROVE  raw'[(raw_ptr + M - i) % M] = number(i)
    <3>1. i \in 0 .. M - 1 /\ i \in 0 .. 2 * M - 1
      <4> HIDE DEF n, M
      <4> QED
        BY <2>2, <2>3
    <3>2. CASE i = 0
      <4>1. (raw_ptr + M - i) % M = raw_ptr
        BY <2>2, <3>1, <3>2, LookElsewhere
      <4>2. number(i) = updates
        BY <2>2, <3>1, <3>2, LookElsewhere
      <4>3. raw'[raw_ptr] = updates
        BY <2>1, <2>2
      <4> QED
        BY <4>1, <4>2, <4>3
    <3>3. CASE i # 0
      <4>1. /\ (raw_ptr + M - i) % M # raw_ptr
            /\ (raw_ptr + M - i) % M \in 0 .. M - 1
        BY <2>2, <3>1, <3>3, LookElsewhere
      <4>2. i \in 1 .. no_of_raw
        <5> HIDE DEF n, M
        <5> QED
          BY <2>3, <3>1, <3>3
      <4>3. raw[(raw_ptr + M - i) % M] = number(i)
        BY <4>2 DEF RingInv, RingAt, NumberAgo
      <4> QED
        BY <2>1, <2>2, <4>1, <4>3
    <3> QED
      BY <3>2, <3>3
  <2>5. ASSUME NEW j \in 1 .. n
        PROVE  /\ j - 1 \in 0 .. n - 1
               /\ RingAt(j)' = raw'[(raw_ptr + M - (j - 1)) % M]
               /\ NumberAgo(j)' = number(j - 1)
    <3>1. j \in 1 .. M /\ j \in 1 .. 2 * M /\ j - 1 \in 0 .. n - 1
      <4> HIDE DEF n, M
      <4> QED
        BY <2>2, <2>3
    <3>2. (raw_ptr' + M - j) % M = (raw_ptr + M - (j - 1)) % M
      BY <2>1, <2>2, <3>1, LookBack
    <3>3. (updates' + 2 * M - j) % (2 * M) = number(j - 1)
      BY <2>1, <2>2, <3>1, LookBack
    <3> QED
      BY <3>1, <3>2, <3>3 DEF RingAt, NumberAgo
  <2>6. RingInv'
    BY <2>4, <2>5 DEF RingInv
  <2>7. phase' = {number(i) : i \in 0 .. n - 1}
    BY <2>1, <2>4 DEF Lookback
  <2>8. \A i \in 0 .. n - 1 : i + 1 \in 1 .. n /\ (i + 1) - 1 = i
    <3> HIDE DEF n, M
    <3> QED
      BY <2>3
  <2>9. {number(i) : i \in 0 .. n - 1} = {NumberAgo(j)' : j \in 1 .. n}
    <3> HIDE DEF number, n, M
    <3> QED
      BY <2>5, <2>8
  <2>10. MeanOfLatest'
    BY <2>7, <2>9 DEF MeanOfLatest, NumberAgo
  <2> QED
    BY <2>6, <2>10
<1> QED
  BY <1>1, <1>2 DEF Next, Consumer, SetOptimalPoint, Configure, ConfigureFlags,
     ConfigureFlagsWith, AskReset, Process, TestReset, Reset, Begin, Measure, Measured,
     Correlate, Correlated, Threshold, consumed, vars

(* The correction is the mean of the latest estimates, across every wrap.  *)
THEOREM MeanIsOfLatest == Spec => []MeanOfLatest
<1>1. Init => RingInv /\ MeanOfLatest
  BY DEF Init, RingInv, MeanOfLatest
<1>2. IqInv /\ RingInv /\ MeanOfLatest /\ [Next]_vars => RingInv' /\ MeanOfLatest'
  BY RingStep DEF IqInv
<1> QED
  BY <1>1, <1>2, IqInvariant, PTL DEF Spec
=============================================================================
