# libairspyhf in TLA+

Specifications of libairspyhf, the user-space driver of the Airspy HF+ radio
receivers, and of its command line tools: models that TLC checks on small
instances, and proofs that TLAPS checks for every value of the constants.
Line numbers refer to `src/libairspyhf/src/airspyhf.c` unless another file is
named.

## 1. The system

libairspyhf is a C library of one file plus an IQ balancer. It talks to the
device with libusb: synchronous control transfers for settings, and 16
asynchronous bulk transfers for samples. Between `airspyhf_start` and
`airspyhf_stop` two threads of its own run beside the application's.

| Component | State | Operations | Interacts with |
| --- | --- | --- | --- |
| Sample queue | `received_samples_queue`, `dropped_buffers_queue`, head, tail, `received_buffer_count`, `dropped_buffers`, the `buffer` of each transfer | callback queues or drops a block, consumer takes and gives back a slot, start clears it | shared by the USB callback and the consumer thread under `consumer_mp`, by start without it |
| Streaming session | `streaming`, `stop_requested`, `transfer_live`, the two thread handles, the USB transfers | `airspyhf_start`, `airspyhf_stop`, `airspyhf_is_streaming`, `consumer_threadproc`, `transfer_threadproc`, the transfer callback | the sample queue, libusb's event handling, the application's sample callback |
| Open, close, enumeration | libusb context and handle, allocated tables, transfers and buffers | `airspyhf_open*`, `airspyhf_close`, `airspyhf_list_devices` | everything above, at close |
| Tuning | `freq_hz`, `freq_khz`, `freq_delta_hz`, `freq_shift`, `current_samplerate`, `is_low_if`, `filter_gain`, `enable_dsp`, `calibration_ppb` | `airspyhf_set_samplerate`, `airspyhf_set_freq*`, `airspyhf_set_calibration`, `airspyhf_set_lib_dsp` | the firmware by control transfers, `convert_samples` in the consumer thread |
| Stored configuration | `calibration_ppb`, `calibration_vctcxo`, `frontend_options`, the 256 bytes in flash | set/get, `airspyhf_flash_configuration`, reading them at open | the firmware, `airspyhf_calibrate` |
| Sample conversion | `vec`, `output_buffer` | `convert_samples` | tuning state, IQ balancer |
| IQ balancer (`iqbalancer.c`) | working buffer, averages, correlation, `reset_flag`, `power_flag` | process, set optimal point, configure | consumer thread and application, no lock |
| `airspyhf_rx` | sample limit, `do_exit`, output file | options, session, `rx_callback`, WAV header | the library |
| `airspyhf_info`, `_calibrate`, `_gpio`, `_lib_version` | none of their own | open, a few calls, print | the library |

What makes each correct:

* Sample queue: every buffer has one owner; the block the consumer reads with
  the lock released is nobody else's; the count stays within the ring; what is
  lost is reported once, with the right block. The code has the last three
  until `airspyhf_stop` has cleared `stop_requested`: see `stale_block` below.
* Streaming session: `airspyhf_stop` always returns and leaves nothing behind;
  transfers at libusb are counted; no wakeup is lost; errors and failing calls
  lead to a state from which stop recovers.
* Open and close: what was acquired is released once on every path; each open
  device has one owner; the search and the listing visit every candidate.
* Tuning: the library's idea of rate, architecture and frequency is the
  device's, or the call failed.
* Stored configuration: a power cycle brings back what was stored; library,
  registers and flash memory do not drift apart unnoticed.
* IQ balancer: indices stay inside the arrays; a reset asked for by another
  thread is not lost; estimates do not stop.
* airspyhf_rx: exactly the requested number of samples is written, and the file
  is not touched after its last callback.
* The small tools: they report and set the devices they say they do.

The hard behaviours are in the session: flags that no lock protects, a
callback that runs in whichever thread handles USB events, cancellation that
races a callback, condition-variable wakeups, failing system calls half way
through start, and transfers that outlive a session. `PROJECT.json` lists the
hazards with their lines.

## 2. Modules

| Module | Contents |
| --- | --- |
| `LossyFifo` | abstract specification: what the application is promised about the stream of blocks |
| `SampleQueue` | the ring and the buffers, one action per critical section; its protocol; its properties and inductive invariant; `ImplementsLossyFifo` |
| `Streaming` | a session: application, threads, callback, device; extends `SampleQueue` and uses its actions |
| `Tuning` | rate, architecture and LO in the library and in the device; one action per control transfer |
| `Session` | abstract specification: what a session promises the application about callbacks, `airspyhf_is_streaming` and `airspyhf_stop`; `Streaming` implements it |
| `DeviceOpen` | finding, opening, listing and closing devices; every resource acquired and given back |
| `FlashConfig` | the configuration in flash memory, in the library and in the device's registers |
| `IqBalancer` | the control of `iqbalancer.c` beside an application that changes its parameters |
| `Fft` | the transform of `iqbalancer.c` against its definition |
| `RxTool` | `airspyhf_rx`: main thread and sample callback on a `Session` |
| `Tools` | `airspyhf_info`, `airspyhf_gpio`, `airspyhf_calibrate` beside devices that come and go |
| `MC...` | each module's instance for TLC |
| `...Proofs` | each module's theorems; those of `SampleQueue` are the first part of `StreamingProofs` |

How they compose:

    LossyFifo <--implements-- SampleQueue <--uses, implements-- Streaming
                              Session     <--implements-------- Streaming
                              Session     <--uses-------------- RxTool

`Streaming` takes the sample queue's actions as its critical sections and is
shown to keep both the queue's protocol (`ImplementsSampleQueue`) and the
promise of a session (`ImplementsSession`). `RxTool` takes only that promise,
through `INSTANCE Session`, so that its own state space stays small.
`DeviceOpen`, `Tuning`, `FlashConfig`, `IqBalancer` and `Tools` share no
variable with the session; where one's call is a part of another's, a comment
names it.

### LossyFifo

Blocks are numbered as they arrive. At most `Capacity` are held for the
application; one that arrives then is lost. The application is handed the held
blocks in order, each with the exact number of blocks lost before it. This is
`airspyhf_transfer_t` with `dropped_samples` counted in blocks. `promised` says
that the promise is in force: it begins with a session, and ends with it or with
a block taken from an empty queue, never while a block it covers is processed.

### SampleQueue

| Action | Code |
| --- | --- |
| `Enqueue(t)` | callback, 437-450: swap buffers with the head slot, attach the loss, advance |
| `DropBlock` | callback, 451-454 |
| `Take` | consumer, 390-394: read the tail slot, advance tail, unlock |
| `Release` | consumer, 411-412: lock, decrement the count |
| `ClearDrops` | `airspyhf_start`, 1312-1313 |
| `ResetIndices` | `create_io_threads`, 543-545 |

Names are those of the code. `input` and `input_dropped` are the locals
`input_samples` and `dropped_buffers` of the consumer; `input` is `NoBuffer`
when it reads none. A buffer is a model value: of its contents only the number
of the block in it matters. `& (RAW_BUFFER_COUNT - 1)` is `% RawBufferCount`,
the same for the code's 8 and for every other power of two. Counters are
natural numbers: `dropped_buffers` is a `uint32_t` that would need 2^32 lost
blocks (over 200 days) to wrap.

Ghost variables record the history a property needs: `arrived`, `data`
(number of the block in each buffer), `heard` (the position an application
computes by counting blocks and losses), `open` (the session's indices have
been reset).

`Take` has no guard, as the code has none there: what keeps the consumer from
taking a block when none is queued is its loop, and that does not do so always.
The ghost variable `stale` records that it has, since the indices were reset.
`received_buffer_count` then falls below 0, which `== 0` (381) does not notice.

`QNext` states who may do what when: one consumer, reading one block at a
time, and no start before it is gone. The module does not assume that of the
library: `Streaming` has to implement `QSpec`.

### Streaming

Processes and what each variable stands for:

* `app`: the application thread inside `airspyhf_start`, `airspyhf_stop`, or
  any other call that makes a control transfer (`control`).
* `consumer`: `consumer_threadproc`. `ConsumerLocked` are its states with
  `consumer_mp` held; `MutexFree` is the mutex. Each read of `streaming`,
  `stop_requested` and the count is a step: the two flags at 379 (`outer`), the
  count and the flags at 381 (`empty`), and both flags again at 385 (`take`),
  where the inner loop leads whichever of its tests ended it.
* `pump`: `transfer_threadproc`.
* `callback`, `handler`, `usb_transfer`: the transfer callback in progress, the
  thread it runs in, its transfer. libusb's event lock allows one at a time;
  both the transfer thread and an application thread inside libusb
  (`AppHandling`) may run it.
* `transfer[t]`: what libusb has done with the transfer. A transfer completes
  well, or badly (short, stalled, timed out, unplugged), or is cancelled and
  returns badly or well.

| Action | Code |
| --- | --- |
| `CallbackEnter`, `CallbackTest`, `CallbackQueue`, `CallbackSubmit` | 422-469: `transfer_live--` and first flag; second flag and status; critical section; resubmission |
| `ConsumerTest`, `ConsumerWait`, `ConsumerTake`, `ConsumerCallback`, `ConsumerRelease`, `ConsumerLeave` | 363-420 |
| `SpuriousWakeup` | allowed by POSIX |
| `PumpTest`, `PumpReturn`, `PumpLeave` | 471-496 |
| `Start`, `StartReceiverMode` | 1308-1334: either control transfer may fail |
| `CreateIoThreads`, `PrepareTransfers`, `CreateReset`, `CreateThread` | 527-571 and 268-292: submission may fail at any transfer, either thread may not be created |
| `Stop`, `StopReceiverMode`, `KillStopRequested`, `KillStreaming`, `CancelTransfers`, `CancelEvents`, `KillSignal`, `JoinTransfer`, `JoinConsumer`, `StopReturn` | 1341-1357, 498-525, 150-174 |
| `DeviceSends`, `DeviceFails` | libusb and the device |
| `Control` | any other call that makes a control transfer |

The first access to a flag is part of the step before it where nothing else
shared lies between (`transfer_live--` is only touched under libusb's event
lock or with no thread running). `create_io_threads` refuses when either flag
is set (566); `StopQuiesces` shows that it never does for an application that
stops between sessions, so the refusal is not an action.

What the application is assumed to do: it calls `airspyhf_stop` after every
`airspyhf_start` that reached `create_io_threads`, before the next one (as
`airspyhf_rx` does); it makes its calls from one thread; its sample callback
returns and does not call `airspyhf_stop`. `airspyhf_stop` without a session is
allowed.

### Tuning

The library keeps a picture of the device: rate, architecture (Zero-IF or
Low-IF), filter gain and LO. `airspyhf_set_samplerate` and
`airspyhf_set_freq_double` change picture and device in up to five control
transfers; `fw_samplerate` and `fw_khz` are what the device really has. Each
transfer has an outcome: `ok`; `short` (fewer bytes, not carried out); `lost`
(a libusb error, not carried out); `late` (a libusb error, carried out).

| Action | Code |
| --- | --- |
| `SetFreq`, `SetCalibration` (both by `Tune`), `SendFreq`, `ReadDelta` | 1365-1420, 1519-1523: no transfer if the LO stays |
| `SetSamplerate`, `Clamp`, `SendSamplerate`, `ReadGain` (then `Tune`) | 1194-1284 |
| `SetLibDsp` | 1592-1596 |

`step` is the transfer that comes next, `caller` the call it belongs to: a
failed tuning is an error of `airspyhf_set_freq` and
`airspyhf_set_calibration`, and is ignored by `airspyhf_set_samplerate` (1282).
`Below` is the code's `result < sizeof(buf)`, in which an `int` is converted to
`size_t`: a negative error is not below 4 and passes for success.

Rates are their indices; `NoRate` is one the device does not have. Frequencies
are integers, `Khz` units in a kHz. The product with `calibration_ppb` is the
operator `Adjusted` and the firmware's answer to `AIRSPYHF_GET_FREQ_DELTA` is
`Delta`, both arbitrary. `airspyhf_open` sets no rate: `Init` assumes that the
device has its first one. `failed` is a ghost variable.

### Session

`phase` is where the application is: outside a session, in one, or inside
`airspyhf_stop`. `streaming` is what `airspyhf_is_streaming` returns, `calling`
that a sample callback runs, `late` that the consumer had already decided to
take one more block when the session ended by itself. `Streaming` defines these
four from its own state in `Promise`.

### DeviceOpen

`allocated` counts each resource the program has, whoever holds it; `fields` is
what the members of each open device point to. A call proceeds by `step`;
`devices` is what remains of libusb's list. Ghost variables: `seen` and
`refused` devices of a search, and `leaks`.

| Action | Code |
| --- | --- |
| `Open`, `GetDeviceList`, `Scan`, `NotFound` | 939-995, 656-799: a device may refuse to be opened, read or claimed and is then closed; the search goes on |
| `ReadCount`, `ReadRates`, `ReadArchitectures`, `ReadAttSteps` | 996-1056, 585-646: tables of the firmware, in part when the transfer came short, or the defaults |
| `AllocateTransfers`, `OpenReturns` | 1058-1106, 211-266 |
| `Close` | 1139-1163 |
| `List`, `ListVisit`, `ListReturns` | 851-937 |
| `OpenFd` | 801-849: unsupported outside Android |

One thread makes the calls. `airspyhf_open_init` leaks what
`allocate_transfers` got when a buffer cannot be had (1059), and
`airspyhf_list_devices` the libusb context when there is no list (880). Both are
in the model; `leaks` counts them and `MaxLeaks` bounds them.

### FlashConfig

| Action | Code |
| --- | --- |
| `Open`, `Read`, `Restore` | 946-952, 1079-1099, 1483-1506 |
| `Set`, `SetCalibration` | 1433-1454, 1519-1556 |
| `Flash` (by `Write`) | 1456-1481, 1558-1577 |
| `Start`, `SessionEnds`, `Stop`, `Close` | 1308-1357, 403-409, 1139-1163 |
| `PowerCycle` | the device |

Transfers have the outcomes of `Tuning`. Reading has the same comparison of an
`int` with a `size_t` (1500): after an error the configuration is whatever the
stack held, so the model lets it be any. `touched` are the fields the
application has set since it opened the device, `restored` says that the
configuration was found and read, `agreed` that no register transfer failed.

### IqBalancer

The consumer thread runs `iq_balancer_process`, the application
`iq_balancer_set_optimal_point` and `iq_balancer_configure`; no lock protects
what they share. The consumer's steps are those between which a store of the
application makes a difference; each of the application's stores is a step.

| Action | Code (`iqbalancer.c`) |
| --- | --- |
| `SetOptimalPoint`, `Configure`, `ConfigureFlags`, `AskReset` | 502-529 |
| `Process` | 472-500: gather, skip, or estimate |
| `TestReset`, `Reset`, `Begin` | 346-365 |
| `Measure`, `Measured` | 264-311 with `step` 0, 369-373 |
| `Correlate`, `Correlated` | 264-311 with `step` 1, 374-379 |
| `Threshold`, `Update` | 381-446 |

Of the arithmetic there remain two choices: whether a window's power passes
`MinimumPower`, and whether the image power passes its threshold. `gathered` is
the set of optimal points for which the windows of the present estimate were
weighted; `raw` holds the numbers of the estimates, modulo twice `MaxLookback`,
in place of phases; `maximum_image_power` is, in place of a number, the set of
optimal points it depends on, none when it is 0; `disturbed` marks an estimate during which
`iq_balancer_configure` ran. Inside such an estimate `power_flag` may have been
freed under the consumer, and the model says nothing of it.
`buffers_to_skip` and `correlation_integration` stay as created;
`fft_integration` is at least 1, which `airspyhf_iq_balancer_configure` (1586)
does not check.

### Fft

Lines 112-195 of `iqbalancer.c`, one iteration of an innermost loop per step.

| Action | Code (`iqbalancer.c`) |
| --- | --- |
| `Reverse` | 131-140: the exchange of one pair |
| `Carry`, `Carried` | 142-148: one round of `while (k <= j)`, and the addition that ends it |
| `Butterfly`, `NextTwiddle`, `NextStage` | 151-186: the three loops of the stages |
| `Swap` | 188-194: the exchange of the halves |

The algorithm uses of the complex numbers that they are a ring with roots of
unity: the root for 2 is -1, and each other one a square root of the one before
(`RootAssumption`), as exp(-2 pi i / n) is. The integers modulo `Modulus` stand for
them, in which the transform is exact; TLC takes 97, where 28 has order 32. The
result, with its halves exchanged, is compared with the definition of the
discrete Fourier transform.

### RxTool

| Action | Code (`airspyhf_rx.c`) |
| --- | --- |
| `ParseOptions`, `SetUp`, `Start` | 443-575, 596-711, 728-731: each call may fail |
| `StillStreaming`, `StillWanted`, `TestLimit` (64 bits) or `TestLow`, `TestHigh` (32 bits) | 747-761 |
| `Stop`, `EndSession`, `Join`, `WriteHeader` | 780-808 and the library's stop |
| `Receive`, `ApplyLimit`, `Write` | 301-356: `rx_callback` |
| `Interrupt` | 404-408: Ctrl-C |
| `DeviceFails`, `NoneLate` | the session ends by itself |

`Library` is a `Session` whose `calling` is that the consumer is in
`rx_callback`. Numbers keep their widths in smaller units.

### Tools

One process runs `main` of the tool in `tool`; devices are plugged in and out
at any time. `Count` is the first listing, `List` the second, `Each` the loop
that opens a device per number, `OpenWanted` option `-s`, `SetPins` the outputs
of `airspyhf_gpio`. The count is unsigned: an error of the listing is
`UINT_MAX` and passes the test `ndev <= 0`.

## 3. What is checked

| Run | Bounds | States |
| --- | --- | --- |
| `session` (`MCStreaming.cfg`) | 2 slots, 2 transfers, 4 buffers, 5 blocks per session, a count down to -2, any number of sessions | 2 740 887 |
| `session_liveness` (`MCStreamingLive.cfg`) | 2 slots, 1 transfer, 3 buffers, 2 blocks, a count down to -2 | 203 802 |
| `tuning` (`MCTuning.cfg`) | 1 Zero-IF and 1 Low-IF rate, 4 frequencies, 2 calibrations, any number of calls | 963 626 |
| `device_open` (`MCDeviceOpen.cfg`) | 3 devices, one without a serial number; 2 handles; at most 1 leak; any number of calls | 1 699 995 |
| `flash_config` (`MCFlashConfig.cfg`) | 2 values per field; any number of calls, sessions, power cycles | 70 166 |
| `iq_balancer` (`MCIqBalancer.cfg`) | 2 optimal points; 1, 2 or 3 windows asked for of 2 that fit; ring of 3; any number of estimates | 1 787 684 |
| `fft` (`MCFft.cfg`) | lengths 2 to 32, all unit vectors | 8 880 |
| `rx_tool` (`MCRxTool.cfg`) | words of 8 and 4 bits for 64 and 32; samples of 4 bytes, blocks of 8; 7 values of `-n`; 32- and 64-bit builds | 39 272 |
| `tools` (`MCTools.cfg`) | 3 devices, 2 outputs, all three tools and every option | 140 320 |
| `success_means_tuned`, `fine_tuned` | as `tuning` | stop at a violation |
| `stale_block` (`MCStreamingStale.cfg`) | as `session_liveness`, a count down to -1 | stops at a violation |

Properties:

* `TypeOK`: types; the count of blocks is never above `RAW_BUFFER_COUNT`. It is
  not bounded below, as it is not in the code.
* `BufferPartition`: each buffer is in one slot or one transfer, whenever the
  consumer takes a block.
* `ReadingIsolated`: until a block is taken from an empty queue, the block being
  read is attached to no transfer.
* `PositionExact`: until then, while the application is handed a block, the
  position it can compute from `dropped_samples` is the block's true one among
  the blocks that reached the queue.
* `ImplementsLossyFifo`: until then the queue is a `LossyFifo`.
* `StaleOnlyStopping`: a block is taken from an empty queue only in the last
  steps of `airspyhf_stop`, once `stop_requested` is cleared, and what is then
  wrong with the queue is gone before another consumer exists. So the three
  properties above have no proviso while the application leaves a session alone.
* `ImplementsSampleQueue`: a session uses the queue only as `QSpec` allows.
* `NoGapUnlessStopping`: the callback discards a block, uncounted, when it finds
  the session ended. After that no block of the session is queued, so that
  `dropped_samples` stays exact. The exception is real: `kill_io_threads` clears
  `stop_requested` one statement before `streaming` (504-505), and in between a
  callback may queue another block. The consumer may even still take it, or one
  that is not there (`stale_block`).
* `StopQuiesces`: after `airspyhf_stop` no thread, no callback and no read is
  left, and the flags are clear.
* `LiveExact`: `transfer_live` is the number of transfers libusb has.
* `OneStraggler`: a callback that passed its tests may resubmit its transfer
  after `cancel_transfers` has been over it. At most one transfer escapes so;
  it stays at libusb until the device sends or fails it, and the next
  `airspyhf_start` may fail because of it.
* `StopReturns`: `airspyhf_stop` returns.
* `QueuedBlockDelivered`: no queued block waits for ever.
* `NoLostWakeup`: the consumer sleeps on an empty queue only, and never once
  `airspyhf_stop` has sent its signal and joins the threads. It is what the two
  liveness properties above rest on, and supposes no fairness.
* `LoInRange`: also between two transfers of a call, a device whose transfers
  all succeeded never has an LO too low for its architecture.
* `LibraryKnowsDevice`: between calls, if nothing ever failed, the library's
  rate, architecture, gain and LO are the device's.
* `SuccessMeansRate`: whatever failed before, when `airspyhf_set_samplerate`
  returns success the device has that rate.
* `CentredUnlessLowest`: LO, delta and `freq_shift` add up to the calibrated
  frequency, if nothing failed and the LO is not the lowest of Zero-IF.

* `ImplementsSession`: sample callbacks come one at a time and only in a
  session, at most one more after it has ended by itself, none after a callback
  that ended it or after `airspyhf_stop`.
* `NothingElseLeaks`: after every call each open device has all its resources
  and nothing else is allocated, but for what the two calls above forget;
  nothing is given back twice.
* `OneOwner`: no two handles own the same device, also while one is opened.
* `TablesAgree`: count, rates and architectures of an open device belong
  together, whichever of their reads failed. A read that comes short does not
  fail (599, 641): such a table is `partly` the firmware's, the rest of it being
  what `malloc` returned.
* `SearchThorough`, `ListExact`: the search takes the first device asked for
  that does not refuse, and fails only after all did; the listing returns the
  numbers it could read, in order, no more than asked for and no fewer
  (`OutputInOrder` says it by the positions at which they were found).
* `FlashedIsRestored`: a field that the application has not set has the value
  that a later `airspyhf_open` will find.
* `DeviceFollows`: between calls the registers are what the library tells.
* `OthersKept`: writing the configuration changes only the fields set.
* `MixedOnlyBeforeReset`: the windows whose power is compared with the decaying
  maximum, and which then update the correction, were weighted for one optimal
  point, the one in force, and the maximum before them is of no other, unless a
  reset is still to come.
* `PassesAgree`, `FlagsAllocated`: both passes take the same windows, each of
  which has its flag.
* `MeanOfLatest`: the correction is the mean of the latest estimates, across
  every wrap of the ring.
* `EstimatesGoOn`: with a strong signal, and once the application leaves the
  balancer alone, estimates are completed for ever.
* `FftIsDft`: the transform is the discrete Fourier transform.
* `LimitConserved`: written, being written and left to write are what `-n`
  asked for, at every moment.
* `AllWritten`: an end without signal or failure means that `-n` was given and,
  in a 64-bit build, that all of it is in the file.
* `FileQuiet`: no callback runs while the header is completed, or later.
* `ToolEnds`: with `-n`, or after Ctrl-C, `airspyhf_rx` ends.
* `ReportedInOrder`: `airspyhf_info` reports the listed devices in their order,
  each once, if both listings found as many.
* `OutputsSet`: a success of `airspyhf_gpio` means that the device it opened
  last has all the outputs asked for.

Three runs show what the code or its comments say, and is not so:

* `success_means_tuned`: `airspyhf_set_freq` returns success although the
  transfer failed with a libusb error (1391: the signed error is compared as an
  unsigned number). The library then believes in an LO the device does not have
  and will not send it again. The same comparison at 1475 makes
  `airspyhf_flash_configuration`, and `airspyhf_calibrate` with it, report a
  success.
* `fine_tuned`: fine tuning brings the wanted frequency to the centre. Not after
  a change from Low-IF to Zero-IF that raised the LO to its lowest value: its
  delta is never read (1245, 1374). This is the case `CentredUnlessLowest`
  leaves out.
* `stale_block`: the inner loop of the consumer (381) is to keep it from an empty
  queue, and 385 to tell why the loop ended. It reads the flags again for that,
  and `kill_io_threads` clears `stop_requested` (504) before `streaming` (505),
  without the lock. A consumer that read the first as set at 381 and as clear at
  385 takes a block that did not arrive, or several of them; the count falls
  below 0; and since the tail has passed the head, a callback that passed its
  own tests earlier, or passes them in the same window, swaps the buffer being
  read into its transfer and submits it: `InputKept` without the proviso of
  `ReadingIsolated`. The joins of `airspyhf_stop` still wait for that consumer
  (`StopQuiesces`), and the application still gets no callback after the stop
  (`ImplementsSession`).

Other deviations that the models have in them, met while modelling and checked
by no run of their own:

* After `airspyhf_set_samplerate` failed, `airspyhf_is_low_if` tells the
  architecture of the rate that was refused (1217-1218, `airspyhf.h:125`).
* `airspyhf_set_lib_dsp` changes the IF shift at the next tuning only (1594,
  `airspyhf.h:128`).
* `airspyhf_flash_configuration` tests that the library does not stream, while
  the receiver may be on after a session that ended by itself (1566,
  `airspyhf.h:144`).
* `airspyhf_rx -n` from 2^61 samples on counts bytes modulo 2^64
  (`airspyhf_rx.c:529`); a 32-bit build may read half of a new counter and stop
  early (758): `LimitConserved` and `AllWritten` are stated with these limits.
* The tools compare an unsigned count with `<= 0` (`airspyhf_gpio.c:122`), and
  go on after a listing that failed.

Bounds. The ring's behaviour depends on full, empty and wrapped: two slots and
five blocks reach all of them at every offset, and wrap the ring twice. Two
slots and two transfers give a full queue with a block being read, a transfer in
its callback with another in flight, and a straggler. `MaxUnderflow` bounds how
often a consumer takes from an empty queue: at 2 it does so with a count of 0
and with one that is negative already, after which it waits at 379 until
`streaming` is clear. Sessions repeat without bound, so that what one leaves behind meets the
next. The liveness run needs one transfer: its question is about the threads.
Buffers are interchangeable, hence the symmetry; the liveness run uses none.

In `device_open` two handles suffice for a device that refuses because it is
claimed, three devices for a search that passes one and leaves one.
`iq_balancer` asks for fewer, as many and more windows than fit; its ring wraps
without bound. In `fft` the transform is linear, so that unit vectors stand for
all buffers; every length up to 32 passes through each kind of stage, and the theorem of
section 4 does without the bound. In
`rx_tool` the values of `-n` include none, part of a block, several blocks, more
than a low word holds, one whose bytes wrap, and one that is refused. `MaxBytes`
bounds a reception without `-n`.

For tuning the frequencies lie below, at and above the lowest LO of each
architecture, and each LO has a delta unlike its neighbour's; calls and failures repeat without bound.

Deadlock is checked in all runs but `fft`, whose algorithm terminates. The tools
stay where they ended; in the other runs the application may always call
something.

Fairness (`Fairness`): weak fairness for the callback, the consumer, the
transfer thread and the steps inside the application's calls. The operating
system schedules threads; libusb's event handling has a timeout of 500 ms in
the transfer thread (475) and control transfers one of 500 ms (77); the
application's callback is assumed to return. Nothing is assumed of the device,
of which calls the application makes, or of spurious wakeups.
In `rx_tool` the main thread, the callback and the reception of blocks are
weakly fair: threads run, and `ToolEnds` for `-n` needs a device that sends or
fails. In `iq_balancer` the consumer is, and the calls of the application
return; `EstimatesGoOn` itself supposes that they cease.
`QueuedBlockDelivered` is stated for a session whose consumer exists and that
does not end meanwhile.

Every property has a mutant, an operator beside the one it alters, that a
plausible bug would give (`EnqueueKeepsDrops`, `JoinConsumerSkipped`,
`KillSignalUnlocked`, ...), and that breaks it.

## 4. What is proved

For every positive number of slots and transfers, every set of buffers and
every number of blocks; for every set of rates, frequencies and calibrations,
all limits of the LO and all deltas of the firmware. The only assumptions are those named in the modules:
`RawBufferCountAssumption`, `TransferCountAssumption`, `NoBufferAssumption`,
`MaxBlocksAssumption`, `MaxUnderflowAssumption`, and for tuning `RatesAssumption`, `FrequenciesAssumption`,
`LimitsAssumption` (Low-IF reaches at least as low as Zero-IF, as 84 and 180 do)
and `DeltaAssumption`.

`StreamingProofs`, the sample queue. `QInv` is inductive (`Invariance`). Types
and `BufferPartition` hold always, of every take. The rest, `Sound`, holds until
a block is taken from an empty queue (`~stale`), with which it ends.
`PositionExact` is not by itself inductive: the position of the block being read
follows from those of the blocks queued before, so `Sound` adds the shape of the
ring (`RingShape`: head is `Queued` places behind tail), that the block being
read is still in the slot it was taken from (`HeldInSlot`), and `Books`: each
queued block's number is that of its predecessor plus one plus the loss recorded
for it, and what arrived after the last one is `dropped_buffers`. From it:
`NoBufferShared`, `ReadIsolation`, `ExactPosition`, and `Refinement`: each step
maps to a step of `LossyFifo` or to none; a take of an empty queue is its `End`.

`StreamingProofs`, the session. `SInv` says, for each stage of the application's calls,
what holds of the flags (`FlagStages`), the threads (`ThreadStages`), the
callback (`CallbackStages`), the queue (`ClearedStages`), discarded blocks
(`GapStages`) and transfers in flight (`StragglerStages`). One lemma per action
shows that it is kept; `SessionStep` that each step is one of the queue's
protocol. From these: `SessionInvariance`, `SessionTypeCorrect`,
`QuiescentAfterStop`, `OneStragglerAtMost`, `GapOnlyWhenStopping`,
`SessionKeepsProtocol`, and through the last everything proved of the queue,
for sessions, with its proviso: `SessionPositionExact`, `SessionReadIsolation`,
`SessionIsLossyStream`.

How far the proviso reaches is `StaleWhenStoppingOnly`. It needs `StaleStages`: a
consumer about to take from an empty queue has seen a flag say stop at 381, so
that the session has ended or `airspyhf_stop` is running, and, past its test of
`streaming`, that it is `airspyhf_stop` which will clear `stop_requested` under
it. `SoundUntilKilled` puts both together: while a consumer exists and
`kill_io_threads` has not cleared `stop_requested`, the count is within the ring,
no transfer has the block being read, and its position is exact (`RunsSound`),
without any proviso.

Three theorems more use `SInv`. `LiveCountExact`: `LiveExact` is inductive beside
it; each step adds to the set `Live` as many transfers as it adds to
`transfer_live`, for `prepare_transfers` an interval of them, none of which was
live since a transfer that libusb has is not submitted. `WakeupsNeverLost`: needs
`SleepStages`, that the queue stays empty from the consumer's test of it to its
sleep, which is one critical section, and that past its signal `airspyhf_stop`
meets no consumer between its last test and its sleep: the signal is sent with
the lock, and then `streaming` is clear for the next test. `SessionKeepsPromise`:
under the mapping of `Promise` (`phase` from where the application is, `late` for
a consumer that has passed its test of `streaming`) each step is one of
`Session`'s or leaves its variables as they are (`Unseen`), by process:
`WorkersPromise`, `ConsumerPromise`, `AppPromise`; whoever clears `streaming`
under a consumer about to take a block makes that block the late one.

`TuningProofs`. `TInv` adds to the properties what holds between the transfers
of a call: `CallStages` (the recorded architecture is always that of the
recorded rate; the LO being sent is one that architecture can have),
`RateStages` (where in a call the recorded rate is the device's), `LoStages`
and `ShiftStages` (LO, delta and shift while nothing failed). It is needed
because the properties speak of the device between calls, or of its LO only: a
rate is safe to send because the LO was raised a transfer earlier. From it
`TuningTypeCorrect`, `LoAlwaysInRange`, `DeviceKnown`, `RateOnSuccess`,
`ShiftExact`.

`DeviceOpenProofs`. `OpenInv` adds what the call in progress knows: the handle
being opened is not yet open (`CallInv`), everything visited that was asked for
has refused (`SearchInv`), and which tables were read (`TablesInv`);
`TablesAgree` speaks of open devices only and is not inductive without the
last. Theorems: `OpenInvariant`, `OneOwnerEach`, `TablesBelongTogether`,
`SearchIsThorough`.

`NoOtherLeaks` keeps accounts. `HeldInv` says which resources the device being
opened has at each step (`Held`) and that every other has all or none; `LeakInv`
that what is allocated beyond the owners (`Surplus`) is at most what the leaking
calls forgot. Between the steps of a call the property says nothing, so neither
part can be missed. Owners are counted with `OwnersGain` and `OwnersLose`; that
they are finitely many is part of `LeakInv`, and nothing is assumed of the set of
handles. `ListIsExact` rests on `ListInv`: libusb lists no device twice, hence
what was found out of a visited device is not changed by a later visit, and the
positions of the numbers found extend by one (`ListVisitStep`).

`FlashConfigProofs`. `FlashInv` says at each transfer of `airspyhf_open_init`
which fields the library already has (`Known`) and which registers follow it
(`Followed`). Theorems: `FlashInvariant`, `FlashedRestored`,
`DeviceFollowsLibrary`, `OtherFieldsKept`.

`IqBalancerProofs`. `IqInv` relates what was gathered, and the point of the
maximum it will be compared with, to the resets still to come (`ResetInv`), the flags allocated to the application's place (`FlagsInv`),
and the count of windows to the flags of the rest of the pass (`PassInv`, with
cardinalities). Theorems: `IqInvariant`, `NoResetLost`, `BothPassesAgree`,
`EachWindowFlagged`. `MeanIsOfLatest` needs to know the whole ring: `RingInv`,
the place `j` back from the next one holds the `j`-th last estimate. Its numbers
and places wrap at different moduli, which `Around`, `LookBack` and
`LookElsewhere` deal with.

`RxToolProofs`. `RxInv` says where in `main` there is a session
(`SessionInv`), and that `main` leaves its loop, and a session ends, for a
reason (`ReasonInv`): without it `AllWritten` would not survive the steps
between the limit and the end. Theorems: `RxInvariant`, `LimitIsConserved`,
`LimitIsWritten`, `FileIsQuiet`, for all word sizes, blocks and limits, since
the session is used through `Session` alone.

`ToolsProofs`. `ToolInv` adds to the properties how far the loops have come: as
many devices reported as visited (`ListInv`), the outputs set so far
(`PinsInv`). Theorems: `ToolInvariant`, `OutputsAreSet`, `ReportedInListOrder`.

The further assumptions are those named in these modules: `BoundsAssumption`,
`ValuesAssumption`, `BlankAssumption`, `BalancerAssumption`, `SizesAssumption`,
`ToolsAssumption`; and for the transform `LengthsAssumption` (the lengths are
powers of two), `ModulusAssumption`, `RootAssumption` and `InputsAssumption`.

`FftProofs`. `TransformIsDft`: for every length that is a power of two, every
modulus with such roots and every buffer, `fft` ends with the discrete Fourier
transform. The run shows it for lengths up to 32; the theorem covers the 4096
(`FFTBins`) of the code. Its parts:

* Induction. The theorems of the library for it take operators, which the
  provers cannot instantiate. `Induction` is for sets of numbers instead, from
  the library's `WFMin`: a set that holds 0 and each successor is `Nat`.
  `PowerInduction` is the same for powers of two. `Iteration` and `Agree` say that
  a function on 0..n that follows from value to value exists and is unique, hence
  what the recursive functions in `Power` and `Sum` compute.
* Arithmetic modulo `Modulus`, powers (`PowerSum`, `PowerSquare`), sums by even and
  odd places (`SumSplit`), and roots: -1 at half the length (`RootAtHalf`), 1 at
  the length (`RootAtWhole`).
* Bit reversal. `IsReversal` says for each factorisation n = 2 * s * t that
  the bit of s becomes that of t. Such a permutation exists for each power of
  two (`ReversalExists`) and undoes itself (`ReversalTwice`). `CarryBits`: the
  loop over `k` finds the lowest clear bit from the top.
* Blocks. `Block(x, s, t, o, q)` is the transform of s samples t apart.
  `BlockMerge` and `BlockHigh` make a block of 2 * s of two of s, which is what a
  butterfly computes.
* `FftInv`, which is inductive (`FftInvariant`): in the reversal, the pairs of the
  indices below `i` are exchanged and `j` is the reversal of `i` (`ReverseInv`;
  inside the loop over `k`, `CarryInv`); in a stage, each element is that of a
  block before or after it is joined, by the indices reached (`ButterflyInv`); at
  the end, the first `i` of each half are exchanged (`SwapInv`).

Model-checked only: liveness (`StopReturns`, `QueuedBlockDelivered`,
`EstimatesGoOn`, `ToolEnds`), which the provers do not handle. Every other
property of a passing run is a theorem.

The inductive invariants of the queue, the session, tuning and the transform, and
`SleepStages`, `StaleStages`, `HeldInv`, `LeakInv` and `RingInv`, were checked with TLC before they were proved;
the others are proved directly, and their properties checked.

## 5. What is not modelled, and the plan

Not modelled:

* `airspyhf_start` without `airspyhf_stop`: after a session that ended itself it
  starts two consumers whose handles overwrite those of the first, during one it
  fails after side effects (1312-1316). No comment, document or test says what
  should then hold.
* `convert_samples`, `cancel_dc`, `utility`, `adjust_phase_amplitude`, the
  phase and gain of the balancer: floating-point arithmetic, out of TLC's reach.
  What `convert_samples` reads of a tuning in progress are floats whose mixture
  lasts for a block.
* The front end's switches and attenuation, which send one request each and keep
  nothing, the getters, the version and name strings.
* Parsing of options, messages, statistics and the contents of the WAV header
  (its sizes are those of a `uint32_t` position, which wraps at 2^32 bytes);
  a `fclose` that fails.
* `airspyhf_lib_version`, the vendored `getopt`, build files.
* What libusb does when a transfer still in flight is freed (190).

Plan: the attenuator index and the switches of the front end beside
`FlashConfig`.
