----------------------------- MODULE IqBalancer -----------------------------
(***************************************************************************)
(* The control of the IQ balancer (iqbalancer.c): the consumer thread      *)
(* gathers blocks, measures and correlates windows of them, and now and    *)
(* then updates the correction, while the application moves the optimal    *)
(* point or configures the balancer.  Nothing locks what the two share:    *)
(* optimal_bin, reset_flag, fft_integration and power_flag.                *)
(*                                                                         *)
(* The arithmetic is left out.  Of a window it matters whether its power   *)
(* passes MinimumPower and for which optimal_bin it was weighted, of an    *)
(* update whether the image power passes its threshold, of the maximum     *)
(* which optimal_bin it depends on.  The stores of the application take    *)
(* effect in the order of the code.                                        *)
(***************************************************************************)
EXTENDS Integers, FiniteSets

CONSTANTS
  Bins,              \* values of optimal_bin
  WorkingBlocks,     \* WorkingBufferLength in blocks
  WorkingWindows,    \* overlapping windows that fit into it
  Integrations,      \* values of fft_integration
  BuffersToSkip, BuffersToSkipOnReset, CorrelationIntegration,
  MaxLookback

ASSUME BalancerAssumption ==
  /\ {WorkingBlocks, WorkingWindows, MaxLookback} \subseteq Nat \ {0}
  /\ Integrations \subseteq Nat \ {0}
  /\ {BuffersToSkip, BuffersToSkipOnReset, CorrelationIntegration} \subseteq Nat

VARIABLES
  (* Written by the application. *)
  optimal_bin, fft_integration,
  power_flag,          \* the flags allocated
  reset_flag,          \* also cleared by the consumer
  app,                 \* the application's next store
  (* The consumer's own. *)
  consumer,            \* its next step in estimate_imbalance, or "process"
  working_buffer_pos, skipped_buffers, no_of_avg,
  window,              \* m in compute_corr
  count,               \* windows measured and not yet correlated
  maximum_image_power, \* the values of optimal_bin it depends on, none if 0
  raw,                 \* raw_phases: the numbers of updates
  no_of_raw, raw_ptr,
  phase,               \* the updates whose mean it is
  (* Ghost variables *)
  updates,             \* number of the next update, modulo 2 * MaxLookback
  gathered,            \* values of optimal_bin of the windows gathered
  disturbed            \* iq_balancer_configure ran during this estimate

shared == <<optimal_bin, fft_integration, power_flag, reset_flag, app>>
buffering == <<working_buffer_pos, skipped_buffers>>
windows == <<window, count, gathered>>
raws == <<raw, no_of_raw, raw_ptr, phase, updates>>
vars == <<shared, consumer, buffering, no_of_avg, windows, maximum_image_power,
          raws, disturbed>>

Flags(n) == [0 .. n - 1 -> BOOLEAN]

Init ==
  /\ optimal_bin \in Bins
  /\ fft_integration \in Integrations
  /\ power_flag \in Flags(fft_integration)
  /\ reset_flag = FALSE
  /\ app = "idle"
  /\ consumer = "process"
  /\ working_buffer_pos = 0 /\ skipped_buffers = 0
  /\ no_of_avg = 0
  /\ window = 0 /\ count = 0 /\ gathered = {}
  /\ maximum_image_power = {}
  /\ raw = [n \in 0 .. MaxLookback - 1 |-> 0]
  /\ no_of_raw = 0 /\ raw_ptr = 0
  /\ phase = {}
  /\ updates = 0
  /\ disturbed = FALSE
-----------------------------------------------------------------------------
(* iq_balancer_set_optimal_point.  airspyhf_set_freq and                   *)
(* airspyhf_set_optimal_iq_correction_point call it while streaming.       *)
AppGoes(from, to) == app = from /\ app' = to
consumed == <<buffering, no_of_avg, windows, maximum_image_power, raws, consumer>>

SetOptimalPoint(b) ==
  /\ AppGoes("idle", "reset_flag")
  /\ optimal_bin' = b
  /\ UNCHANGED <<fft_integration, power_flag, reset_flag, consumed, disturbed>>

(* iq_balancer_configure: the parameters, then the flags, then the reset.  *)
Configure(n) ==
  /\ AppGoes("idle", "power_flag")
  /\ fft_integration' = n
  /\ disturbed' = (consumer # "process")
  /\ UNCHANGED <<optimal_bin, power_flag, reset_flag, consumed>>

ConfigureFlagsWith(size) ==
  /\ AppGoes("power_flag", "reset_flag")
  /\ power_flag' = [n \in 0 .. size - 1 |-> FALSE]
  /\ disturbed' = (consumer # "process")
  /\ UNCHANGED <<optimal_bin, fft_integration, reset_flag, consumed>>

(* Mutant: the flags are allocated as many as before. *)
ConfigureFlagsSame == ConfigureFlagsWith(Cardinality(DOMAIN power_flag))
ConfigureFlags == ConfigureFlagsWith(fft_integration)

AskReset ==
  /\ AppGoes("reset_flag", "idle")
  /\ reset_flag' = TRUE
  /\ UNCHANGED <<optimal_bin, fft_integration, power_flag, consumed, disturbed>>
-----------------------------------------------------------------------------
ConsumerGoes(from, to) == consumer = from /\ consumer' = to
unshared == <<optimal_bin, fft_integration, power_flag, app>>

(* iq_balancer_process: a block more; when the working buffer is full it   *)
(* is skipped or estimated from.                                           *)
Process ==
  /\ consumer = "process"
  /\ \/ /\ working_buffer_pos + 1 < WorkingBlocks
        /\ working_buffer_pos' = working_buffer_pos + 1
        /\ UNCHANGED <<skipped_buffers, consumer, disturbed>>
     \/ /\ working_buffer_pos + 1 = WorkingBlocks
        /\ skipped_buffers < BuffersToSkip
        /\ working_buffer_pos' = 0
        /\ skipped_buffers' = skipped_buffers + 1
        /\ UNCHANGED <<consumer, disturbed>>
     \/ /\ working_buffer_pos + 1 = WorkingBlocks
        /\ skipped_buffers >= BuffersToSkip
        /\ working_buffer_pos' = 0
        /\ skipped_buffers' = 0
        /\ consumer' = "reset?"
        /\ disturbed' = (app = "power_flag")
  /\ UNCHANGED <<shared, no_of_avg, windows, maximum_image_power, raws>>

TestReset ==
  /\ ConsumerGoes("reset?", IF reset_flag THEN "reset" ELSE "begin")
  /\ UNCHANGED <<shared, buffering, no_of_avg, windows, maximum_image_power,
                 raws, disturbed>>

(* Mutant: the maximum stays that of the point before. *)
ResetKeepsMaximum ==
  /\ ConsumerGoes("reset", "begin")
  /\ reset_flag' = FALSE
  /\ no_of_avg' = -BuffersToSkipOnReset
  /\ UNCHANGED <<unshared, buffering, windows, maximum_image_power, raws, disturbed>>

Reset ==
  /\ ConsumerGoes("reset", "begin")
  /\ reset_flag' = FALSE
  /\ no_of_avg' = -BuffersToSkipOnReset
  /\ maximum_image_power' = {}
  /\ UNCHANGED <<unshared, buffering, windows, raws, disturbed>>

(* Mutant: the last skipped estimate leaves the counter where it was. *)
BeginStuck ==
  /\ \/ /\ no_of_avg < 0
        /\ ConsumerGoes("begin", "process")
        /\ no_of_avg' = IF no_of_avg < -1 THEN no_of_avg + 1 ELSE no_of_avg
        /\ UNCHANGED windows
     \/ /\ no_of_avg >= 0
        /\ ConsumerGoes("begin", "measure")
        /\ window' = 0 /\ count' = 0
        /\ gathered' = IF no_of_avg = 0 THEN {} ELSE gathered
        /\ UNCHANGED no_of_avg
  /\ UNCHANGED <<shared, buffering, maximum_image_power, raws, disturbed>>

(* Estimates are skipped after a reset; the sums are cleared for a new one.*)
Begin ==
  /\ \/ /\ no_of_avg < 0
        /\ ConsumerGoes("begin", "process")
        /\ no_of_avg' = no_of_avg + 1
        /\ UNCHANGED windows
     \/ /\ no_of_avg >= 0
        /\ ConsumerGoes("begin", "measure")
        /\ window' = 0 /\ count' = 0
        /\ gathered' = IF no_of_avg = 0 THEN {} ELSE gathered
        /\ UNCHANGED no_of_avg
  /\ UNCHANGED <<shared, buffering, maximum_image_power, raws, disturbed>>

(* compute_corr, for step = 0: the power of each window. *)
MoreWindows == window < WorkingWindows /\ window < fft_integration
SetFlag(m, strong) ==
  power_flag' = [n \in DOMAIN power_flag |-> IF n = m THEN strong ELSE power_flag[n]]

(* Mutant: the flag of a weak window is left as it is. *)
MeasureKeeps ==
  /\ consumer = "measure" /\ MoreWindows
  /\ window' = window + 1
  /\ \/ /\ SetFlag(window, TRUE)
        /\ count' = count + 1
        /\ gathered' = gathered \union {optimal_bin}
     \/ UNCHANGED <<power_flag, count, gathered>>
  /\ UNCHANGED <<optimal_bin, fft_integration, reset_flag, app, consumer, buffering,
                 no_of_avg, maximum_image_power, raws, disturbed>>

Measure ==
  /\ consumer = "measure" /\ MoreWindows
  /\ window' = window + 1
  /\ \/ /\ SetFlag(window, TRUE)
        /\ count' = count + 1
        /\ gathered' = gathered \union {optimal_bin}
     \/ SetFlag(window, FALSE) /\ UNCHANGED <<count, gathered>>
  /\ UNCHANGED <<optimal_bin, fft_integration, reset_flag, app, consumer, buffering,
                 no_of_avg, maximum_image_power, raws, disturbed>>

(* No window passed, or those that did are correlated again with step = 1. *)
Measured ==
  /\ ~MoreWindows
  /\ ConsumerGoes("measure", IF count = 0 THEN "process" ELSE "correlate")
  /\ no_of_avg' = no_of_avg + count
  /\ window' = 0
  /\ UNCHANGED <<shared, buffering, count, gathered, maximum_image_power, raws, disturbed>>

FlagRead(m) == m \in DOMAIN power_flag /\ power_flag[m]

Correlate ==
  /\ consumer = "correlate" /\ MoreWindows
  /\ window' = window + 1
  /\ count' = IF FlagRead(window) THEN count - 1 ELSE count
  /\ UNCHANGED <<shared, consumer, buffering, no_of_avg, gathered,
                 maximum_image_power, raws, disturbed>>

Correlated ==
  /\ consumer = "correlate" /\ ~MoreWindows
  /\ \/ /\ no_of_avg <= CorrelationIntegration * fft_integration
        /\ consumer' = "process"
        /\ UNCHANGED no_of_avg
     \/ /\ no_of_avg > CorrelationIntegration * fft_integration
        /\ consumer' = "threshold"
        /\ no_of_avg' = 0
  /\ UNCHANGED <<shared, buffering, windows, maximum_image_power, raws, disturbed>>

(* The power of the windows gathered, one of two as optimal_bin says, is   *)
(* compared with its decaying maximum, and may become the new one.         *)
Threshold ==
  /\ \/ ConsumerGoes("threshold", "process") /\ UNCHANGED maximum_image_power
     \/ /\ ConsumerGoes("threshold", "update")
        /\ maximum_image_power' = gathered \union {optimal_bin}
  /\ UNCHANGED <<shared, buffering, no_of_avg, windows, raws, disturbed>>

(* The estimate joins the last ones, whose mean is the correction.         *)
Lookback(n, k) == {(n + MaxLookback - j) % MaxLookback : j \in 0 .. k - 1}
UpdateWith(used) ==
  /\ ConsumerGoes("update", "process")
  /\ no_of_raw' = IF no_of_raw < MaxLookback THEN no_of_raw + 1 ELSE no_of_raw
  /\ raw' = [raw EXCEPT ![raw_ptr] = updates]
  /\ phase' = {raw'[n] : n \in Lookback(raw_ptr, used)}
  /\ raw_ptr' = (raw_ptr + 1) % MaxLookback
  /\ updates' = (updates + 1) % (2 * MaxLookback)
  /\ UNCHANGED <<shared, buffering, no_of_avg, windows, maximum_image_power, disturbed>>

(* Mutant: one estimate too few. *)
UpdateFew == UpdateWith(no_of_raw)
Update == UpdateWith(no_of_raw')

Consumer ==
  \/ Process \/ TestReset \/ Reset \/ Begin \/ Measure \/ Measured
  \/ Correlate \/ Correlated \/ Threshold \/ Update

Next ==
  \/ \E b \in Bins : SetOptimalPoint(b)
  \/ \E n \in Integrations : Configure(n)
  \/ ConfigureFlags \/ AskReset \/ Consumer

(* The stream goes on, and the application's calls return. *)
Fairness == WF_vars(Consumer) /\ WF_vars(AskReset) /\ WF_vars(ConfigureFlags)

Spec == Init /\ [][Next]_vars
LiveSpec == Spec /\ Fairness
-----------------------------------------------------------------------------
(* Types. *)
TypeOK ==
  /\ optimal_bin \in Bins
  /\ fft_integration \in Integrations
  /\ \E n \in Integrations : power_flag \in Flags(n)
  /\ {reset_flag, disturbed} \subseteq BOOLEAN
  /\ app \in {"idle", "power_flag", "reset_flag"}
  /\ consumer \in {"process", "reset?", "reset", "begin", "measure", "correlate",
                   "threshold", "update"}
  /\ working_buffer_pos \in 0 .. WorkingBlocks - 1
  /\ skipped_buffers \in 0 .. BuffersToSkip
  /\ no_of_avg \in Int
  /\ window \in 0 .. WorkingWindows
  /\ count \in Int
  /\ gathered \subseteq Bins
  /\ maximum_image_power \subseteq Bins
  /\ raw \in [0 .. MaxLookback - 1 -> Nat]
  /\ no_of_raw \in 0 .. MaxLookback
  /\ raw_ptr \in 0 .. MaxLookback - 1
  /\ phase \subseteq Nat
  /\ updates \in 0 .. 2 * MaxLookback - 1

(* No reset is lost: the windows whose power is compared with the maximum  *)
(* of the powers before it, and that then update the correction, were      *)
(* gathered for one optimal point, the one in force, and that maximum is   *)
(* of no other, unless iq_balancer_set_optimal_point is still running or   *)
(* the reset it asked for is still to come.                                *)
MixedOnlyBeforeReset ==
  consumer \in {"threshold", "update"} =>
    \/ gathered = {optimal_bin} /\ maximum_image_power \subseteq {optimal_bin}
    \/ reset_flag \/ app = "reset_flag"

(* Both passes over the working buffer take the same windows, those that   *)
(* power_flag remembers, unless iq_balancer_configure changes the flags    *)
(* meanwhile.                                                              *)
PassesAgree ==
  (consumer = "threshold" /\ ~disturbed) => count = 0

(* The flag of each window measured or correlated is one of those that are *)
(* allocated, unless iq_balancer_configure runs meanwhile.                 *)
FlagsAllocated ==
  (consumer \in {"measure", "correlate"} /\ MoreWindows /\ ~disturbed) =>
    window \in DOMAIN power_flag

(* The correction is the mean of the latest estimates, MaxLookback of them *)
(* once there are as many, across every wrap of the ring.                  *)
MeanOfLatest ==
  phase = {(updates + 2 * MaxLookback - j) % (2 * MaxLookback) : j \in 1 .. no_of_raw}

(* If the application at last leaves the balancer alone, and the signal    *)
(* stays strong, estimates are completed for ever: neither skipping nor    *)
(* the averaging counters get stuck.                                       *)
EstimatesGoOn ==
  (<>[](app = "idle") /\ <>[][Measure => count' > count]_vars)
    => []<>(consumer = "threshold")
=============================================================================
