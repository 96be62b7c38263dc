----------------------------- MODULE Streaming -----------------------------
(***************************************************************************)
(* A streaming session of libairspyhf: airspyhf_start, airspyhf_stop, the  *)
(* consumer and transfer threads they create and join, the USB transfers,  *)
(* and the transfer callback, on the sample queue of the module            *)
(* SampleQueue.                                                            *)
(*                                                                         *)
(* Processes: one application thread ("app") that calls the library, the   *)
(* transfer thread ("xfer"), the consumer thread, and the USB device with  *)
(* libusb.  The transfer callback runs in whichever of app and xfer is     *)
(* inside libusb handling events; libusb's event lock lets only one of     *)
(* them be there, so at most one callback is in progress.                  *)
(*                                                                         *)
(* streaming and stop_requested are plain bools that no lock protects:     *)
(* every read and every write of one is a step of its own, in the order of *)
(* the code.  The application calls airspyhf_stop between two calls of     *)
(* airspyhf_start that got as far as create_io_threads, as airspyhf_rx     *)
(* does, and its sample callback does not call airspyhf_stop.              *)
(***************************************************************************)
EXTENDS SampleQueue, FiniteSets

CONSTANTS
  MaxBlocks,    \* bound: good blocks the device sends in a session
  MaxUnderflow  \* bound: how far received_buffer_count falls below 0

ASSUME MaxBlocksAssumption == MaxBlocks \in Nat
ASSUME MaxUnderflowAssumption == MaxUnderflow \in Nat \ {0}

VARIABLES
  streaming,       \* device->streaming
  stop_requested,  \* device->stop_requested
  transfer_live,   \* device->transfer_live
  transfer,        \* state of each USB transfer in libusb
  callback,        \* how far the transfer callback in progress is, or "none"
  handler,         \* the thread it runs in
  usb_transfer,    \* its transfer
  app,             \* where the application thread is
  consumer,        \* where the consumer thread is
  pump,            \* where the transfer thread is
  (* Ghost variables *)
  armed,           \* create_io_threads was entered since the last stop
  cut              \* a good block of this session was silently discarded

svars == <<streaming, stop_requested, transfer_live, transfer, callback,
           handler, usb_transfer, app, consumer, pump, armed, cut>>
vars == <<qvars, svars>>

flags == <<streaming, stop_requested>>
calling == <<callback, handler, usb_transfer>>
usb == <<transfer_live, transfer, calling>>
threads == <<app, consumer, pump>>
ghosts == <<armed, cut>>

Threads == {"app", "xfer"}

(* A transfer is idle (owned by the program), or submitted and flying,     *)
(* cancelled but not yet returned, or returned by the device, done or bad, *)
(* and waiting for its callback.                                           *)
TransferStates == {"idle", "flying", "cancelling", "done", "bad"}

(* airspyhf_libusb_transfer_callback: about to read stop_requested, about  *)
(* to lock consumer_mp, about to resubmit.                                 *)
CallbackStates == {"none", "stop?", "queue", "submit"}

(* The transfer thread reads the two flags, then handles events. *)
PumpStates == {"none", "streaming?", "stop?", "handling", "leaving", "exited"}

(* The consumer holds consumer_mp while it is in one of these. *)
ConsumerLocked ==
  {"outer streaming?", "outer stop?", "empty?", "empty streaming?",
   "empty stop?", "take streaming?", "take stop?", "leaving"}
ConsumerStates ==
  ConsumerLocked \union {"none", "start", "waiting", "woken", "busy",
                         "returned", "exited"}
MutexFree == consumer \notin ConsumerLocked

(* The steps of airspyhf_start, airspyhf_stop, and any other call that     *)
(* makes a control transfer.  The application handles USB events in those  *)
(* of AppHandling.                                                         *)
Stopping == {"stop off", "kill stop_requested", "kill streaming", "cancel",
             "cancel events", "signal", "join transfer", "join consumer",
             "last events"}
Starting == {"start off", "start on", "create", "prepare", "reset",
             "create consumer", "create transfer"}
AppStates == {"idle", "control"} \union Starting \union Stopping
AppHandling == {"control", "start off", "start on", "stop off",
                "cancel events", "last events"}

Init ==
  /\ QInit
  /\ streaming = FALSE
  /\ stop_requested = FALSE
  /\ transfer_live = 0
  /\ transfer = [t \in Transfers |-> "idle"]
  /\ callback = "none"
  /\ handler = "xfer"
  /\ usb_transfer = 0
  /\ app = "idle"
  /\ consumer = "none"
  /\ pump = "none"
  /\ armed = FALSE
  /\ cut = FALSE
-----------------------------------------------------------------------------
(* pthread_cond_signal(&device->consumer_cv) *)
Signal == consumer' = IF consumer = "waiting" THEN "woken" ELSE consumer

(* thread is inside libusb's event handling. *)
Handles(thread) ==
  IF thread = "xfer" THEN pump = "handling"
  ELSE app \in AppHandling /\ (app = "cancel events" => transfer_live > 0)

(* No callback is in progress any more. *)
NoCallback == callback' = "none" /\ handler' = "xfer" /\ usb_transfer' = 0

(* The callback returns at once; the transfer is not submitted again. *)
Discard(t) ==
  /\ transfer' = [transfer EXCEPT ![t] = "idle"]
  /\ NoCallback
  /\ IF open /\ transfer[t] = "done" THEN cut' = TRUE ELSE UNCHANGED cut

(* libusb calls the callback of a returned transfer, which goes on if told *)
(* so.                                                                     *)
CallbackBegins(thread, t, proceeds) ==
  /\ callback = "none"
  /\ Handles(thread)
  /\ transfer[t] \in {"done", "bad"}
  /\ transfer_live' = transfer_live - 1
  /\ \/ /\ proceeds
        /\ callback' = "stop?"
        /\ handler' = thread
        /\ usb_transfer' = t
        /\ UNCHANGED <<transfer, cut>>
     \/ ~proceeds /\ Discard(t)
  /\ UNCHANGED <<qvars, flags, threads, armed>>

(* Mutants: the callback trusts stop_requested alone; it returns at once   *)
(* when the queue is full.                                                 *)
CallbackEnterUntested(thread, t) == CallbackBegins(thread, t, TRUE)
CallbackEnterUnlessFull(thread, t) ==
  CallbackBegins(thread, t, streaming /\ received_buffer_count < RawBufferCount)

(* It reads streaming first. *)
CallbackEnter(thread, t) == CallbackBegins(thread, t, streaming)

(* It reads stop_requested, and looks at the status of the transfer. *)
CallbackTest ==
  LET t == usb_transfer IN
  /\ callback = "stop?"
  /\ \/ /\ stop_requested
        /\ Discard(t)
        /\ UNCHANGED streaming
     \/ /\ ~stop_requested
        /\ transfer[t] = "done"
        /\ callback' = "queue"
        /\ UNCHANGED <<streaming, transfer, handler, usb_transfer, cut>>
     \/ /\ ~stop_requested
        /\ transfer[t] = "bad"
        /\ streaming' = FALSE
        /\ Discard(t)
  /\ UNCHANGED <<qvars, stop_requested, transfer_live, threads, armed>>

(* Mutant: the block is queued, but the consumer not woken. *)
CallbackQueueSilently ==
  /\ callback = "queue"
  /\ MutexFree
  /\ Enqueue(usb_transfer) \/ DropBlock
  /\ callback' = "submit"
  /\ UNCHANGED <<flags, transfer_live, transfer, handler, usb_transfer, threads,
                 ghosts>>

(* The critical section: queue the block and signal, or count it dropped. *)
CallbackQueue ==
  /\ callback = "queue"
  /\ MutexFree
  /\ \/ Enqueue(usb_transfer) /\ Signal
     \/ DropBlock /\ UNCHANGED consumer
  /\ callback' = "submit"
  /\ UNCHANGED <<flags, transfer_live, transfer, handler, usb_transfer, app, pump,
                 ghosts>>

(* Mutant: the transfer submitted again is not counted. *)
CallbackSubmitUncounted ==
  LET t == usb_transfer IN
  /\ callback = "submit"
  /\ NoCallback
  /\ \/ transfer' = [transfer EXCEPT ![t] = "flying"] /\ UNCHANGED streaming
     \/ transfer' = [transfer EXCEPT ![t] = "idle"] /\ streaming' = FALSE
  /\ UNCHANGED <<qvars, stop_requested, transfer_live, threads, ghosts>>

(* It submits the transfer again; an error ends the session. *)
CallbackSubmit ==
  LET t == usb_transfer IN
  /\ callback = "submit"
  /\ NoCallback
  /\ \/ /\ transfer' = [transfer EXCEPT ![t] = "flying"]
        /\ transfer_live' = transfer_live + 1
        /\ UNCHANGED streaming
     \/ /\ transfer' = [transfer EXCEPT ![t] = "idle"]
        /\ streaming' = FALSE
        /\ UNCHANGED transfer_live
  /\ UNCHANGED <<qvars, stop_requested, threads, ghosts>>

CallbackStep == CallbackTest \/ CallbackQueue \/ CallbackSubmit
-----------------------------------------------------------------------------
(* consumer_threadproc.  It reads one flag at a time, and goes where the   *)
(* flag says.                                                              *)
ConsumerGoes(from, to) == consumer = from /\ consumer' = to

ConsumerReads(from, flag, yes, no) ==
  ConsumerGoes(from, IF flag THEN yes ELSE no)

(* Its tests, where a consumer that was woken goes on at "next".           *)
ConsumerTestThen(next) ==
  /\ \/ ConsumerGoes("start", "outer streaming?")
     \/ /\ streaming => received_buffer_count > - MaxUnderflow
        /\ ConsumerReads("outer streaming?", streaming, "outer stop?", "leaving")
     \/ ConsumerReads("outer stop?", stop_requested, "leaving", "empty?")
     \/ ConsumerReads("empty?", received_buffer_count = 0,
                      "empty streaming?", "take streaming?")
     \/ ConsumerGoes("woken", next)
     \/ ConsumerReads("take streaming?", streaming, "take stop?", "leaving")
     \/ stop_requested /\ ConsumerGoes("take stop?", "leaving")
  /\ UNCHANGED <<qvars, flags, usb, app, pump, ghosts>>

(* Mutant: it does not test again, as an if for the inner while would.     *)
ConsumerTestOnce == ConsumerTestThen("take streaming?")

ConsumerTest == ConsumerTestThen("empty?")

(* Queue empty and both flags read: it waits, which releases the mutex.  A *)
(* flag that says stop only ends the inner loop; what the consumer does    *)
(* then is decided by reading both again, which may say otherwise now.     *)
ConsumerWait ==
  /\ \/ ConsumerReads("empty streaming?", streaming, "empty stop?", "take streaming?")
     \/ ConsumerReads("empty stop?", stop_requested, "take streaming?", "waiting")
  /\ UNCHANGED <<qvars, flags, usb, app, pump, ghosts>>

ConsumerTake ==
  /\ ~stop_requested
  /\ Take
  /\ ConsumerGoes("take stop?", "busy")
  /\ UNCHANGED <<flags, usb, app, pump, ghosts>>

(* The block is converted and handed to the application's callback, which  *)
(* may end the session by returning a value other than 0.                  *)
ConsumerCallback ==
  /\ ConsumerGoes("busy", "returned")
  /\ streaming' = FALSE \/ UNCHANGED streaming
  /\ UNCHANGED <<qvars, stop_requested, usb, app, pump, ghosts>>

ConsumerRelease ==
  /\ ConsumerGoes("returned", "outer streaming?")
  /\ Release
  /\ UNCHANGED <<flags, usb, app, pump, ghosts>>

ConsumerLeave ==
  /\ ConsumerGoes("leaving", "exited")
  /\ streaming' = FALSE
  /\ UNCHANGED <<qvars, stop_requested, usb, app, pump, ghosts>>

ConsumerStep == ConsumerTest \/ ConsumerWait \/ ConsumerTake
                \/ ConsumerCallback \/ ConsumerRelease \/ ConsumerLeave

(* pthread_cond_wait may return without a signal. *)
SpuriousWakeup ==
  /\ ConsumerGoes("waiting", "woken")
  /\ UNCHANGED <<qvars, flags, usb, app, pump, ghosts>>
-----------------------------------------------------------------------------
(* transfer_threadproc *)
PumpTest ==
  /\ \/ /\ pump = "streaming?"
        /\ pump' = IF streaming THEN "stop?" ELSE "leaving"
     \/ /\ pump = "stop?"
        /\ pump' = IF stop_requested THEN "leaving" ELSE "handling"
  /\ UNCHANGED <<qvars, flags, usb, app, consumer, ghosts>>

(* libusb_handle_events_timeout_completed returns: after an event, after   *)
(* its timeout, or with an error that ends the session.                    *)
PumpReturn ==
  /\ pump = "handling"
  /\ ~(callback # "none" /\ handler = "xfer")
  /\ pump' = "streaming?"
  /\ streaming' = FALSE \/ UNCHANGED streaming
  /\ UNCHANGED <<qvars, stop_requested, usb, app, consumer, ghosts>>

PumpLeave ==
  /\ pump = "leaving"
  /\ pump' = "exited"
  /\ streaming' = FALSE
  /\ UNCHANGED <<qvars, stop_requested, usb, app, consumer, ghosts>>

PumpStep == PumpTest \/ PumpReturn \/ PumpLeave
-----------------------------------------------------------------------------
(* The device and libusb.  A transfer completes with a full good block, or *)
(* fails (short, stalled, timed out, device gone), or is cancelled, though *)
(* a cancellation may come too late.                                       *)
DeviceSends(t) ==
  /\ transfer[t] \in {"flying", "cancelling"}
  /\ arrived + Cardinality({u \in Transfers : transfer[u] = "done"}) < MaxBlocks
  /\ transfer' = [transfer EXCEPT ![t] = "done"]
  /\ UNCHANGED <<qvars, flags, transfer_live, calling, threads, ghosts>>

DeviceFails(t) ==
  /\ transfer[t] \in {"flying", "cancelling"}
  /\ transfer' = [transfer EXCEPT ![t] = "bad"]
  /\ UNCHANGED <<qvars, flags, transfer_live, calling, threads, ghosts>>

DeviceStep == \E t \in Transfers : DeviceSends(t) \/ DeviceFails(t)
-----------------------------------------------------------------------------
(* The application thread leaves a step once no callback runs inside it.   *)
AppGoes(from, to) ==
  /\ app = from
  /\ ~(callback # "none" /\ handler = "app")
  /\ app' = to

(* Any call that only makes a control transfer. *)
Control ==
  /\ AppGoes("idle", "control") \/ AppGoes("control", "idle")
  /\ UNCHANGED <<qvars, flags, usb, consumer, pump, ghosts>>

(* airspyhf_start *)
Start ==
  /\ ~armed
  /\ AppGoes("idle", "start off")
  /\ ClearDrops
  /\ cut' = FALSE
  /\ UNCHANGED <<flags, usb, consumer, pump, armed>>

(* Its two airspyhf_set_receiver_mode; when one fails it returns. *)
StartReceiverMode ==
  /\ \/ AppGoes("start off", "start on") \/ AppGoes("start on", "create")
     \/ AppGoes("start off", "idle") \/ AppGoes("start on", "idle")
  /\ UNCHANGED <<qvars, flags, usb, consumer, pump, ghosts>>

(* create_io_threads *)
CreateIoThreads ==
  /\ AppGoes("create", "prepare")
  /\ ~streaming
  /\ ~stop_requested
  /\ streaming' = TRUE
  /\ armed' = TRUE
  /\ UNCHANGED <<qvars, stop_requested, usb, consumer, pump, cut>>

(* prepare_transfers submits the transfers in order up to the first that   *)
(* fails, as one that libusb still has does.                               *)
PrepareTransfers ==
  \E n \in 0 .. TransferCount :
    /\ \A t \in Transfers : t < n => transfer[t] = "idle"
    /\ transfer' = [t \in Transfers |-> IF t < n THEN "flying" ELSE transfer[t]]
    /\ transfer_live' = transfer_live + n
    /\ AppGoes("prepare", IF n = TransferCount THEN "reset" ELSE "idle")
    /\ UNCHANGED <<qvars, flags, calling, consumer, pump, ghosts>>

CreateReset ==
  /\ AppGoes("reset", "create consumer")
  /\ ResetIndices
  /\ UNCHANGED <<flags, usb, consumer, pump, ghosts>>

(* pthread_create of the two threads; when one fails nothing is undone. *)
CreateThread ==
  /\ \/ AppGoes("create consumer", "create transfer")
        /\ consumer' = "start" /\ UNCHANGED pump
     \/ AppGoes("create transfer", "idle")
        /\ pump' = "streaming?" /\ UNCHANGED consumer
     \/ \E from \in {"create consumer", "create transfer"} : AppGoes(from, "idle")
        /\ UNCHANGED <<consumer, pump>>
  /\ UNCHANGED <<qvars, flags, usb, ghosts>>

(* airspyhf_stop, then kill_io_threads.  The result of the control         *)
(* transfer is only remembered for the return value.                       *)
Stop ==
  /\ AppGoes("idle", "stop off")
  /\ stop_requested' = TRUE
  /\ UNCHANGED <<qvars, streaming, usb, consumer, pump, ghosts>>

StopReceiverMode ==
  /\ AppGoes("stop off", "kill stop_requested")
  /\ UNCHANGED <<qvars, flags, usb, consumer, pump, ghosts>>

KillStopRequested ==
  /\ AppGoes("kill stop_requested", "kill streaming")
  /\ stop_requested' = FALSE
  /\ UNCHANGED <<qvars, streaming, usb, consumer, pump, ghosts>>

KillStreaming ==
  /\ AppGoes("kill streaming", "cancel")
  /\ streaming' = FALSE
  /\ UNCHANGED <<qvars, stop_requested, usb, consumer, pump, ghosts>>

(* cancel_transfers: one pass of libusb_cancel_transfer over all of them,  *)
(* then it handles events for a bounded time.                              *)
CancelTransfers ==
  /\ AppGoes("cancel", "cancel events")
  /\ transfer' = [t \in Transfers |->
                   IF transfer[t] = "flying" THEN "cancelling" ELSE transfer[t]]
  /\ UNCHANGED <<qvars, flags, transfer_live, calling, consumer, pump, ghosts>>

CancelEvents ==
  /\ AppGoes("cancel events", "signal")
  /\ UNCHANGED <<qvars, flags, usb, consumer, pump, ghosts>>

(* Mutant: the signal is sent without the lock. *)
KillSignalUnlocked ==
  /\ AppGoes("signal", "join transfer")
  /\ Signal
  /\ UNCHANGED <<qvars, flags, usb, pump, ghosts>>

KillSignal ==
  /\ AppGoes("signal", "join transfer")
  /\ MutexFree
  /\ Signal
  /\ UNCHANGED <<qvars, flags, usb, pump, ghosts>>

JoinTransfer ==
  /\ AppGoes("join transfer", "join consumer")
  /\ pump \in {"none", "exited"}
  /\ pump' = "none"
  /\ UNCHANGED <<qvars, flags, usb, consumer, ghosts>>

(* Mutant: the consumer is not joined. *)
JoinConsumerSkipped ==
  /\ AppGoes("join consumer", "last events")
  /\ UNCHANGED <<qvars, flags, usb, consumer, pump, ghosts>>

JoinConsumer ==
  /\ AppGoes("join consumer", "last events")
  /\ consumer \in {"none", "exited"}
  /\ consumer' = "none"
  /\ UNCHANGED <<qvars, flags, usb, pump, ghosts>>

StopReturn ==
  /\ AppGoes("last events", "idle")
  /\ armed' = FALSE
  /\ UNCHANGED <<qvars, flags, usb, consumer, pump, cut>>

(* The calls the application chooses to make, and the rest of each. *)
AppCalls == app = "idle" /\ (Control \/ Start \/ Stop)
AppStep ==
  \/ app # "idle" /\ Control
  \/ StartReceiverMode \/ CreateIoThreads \/ PrepareTransfers \/ CreateReset
  \/ CreateThread \/ StopReceiverMode \/ KillStopRequested \/ KillStreaming
  \/ CancelTransfers \/ CancelEvents \/ KillSignal \/ JoinTransfer
  \/ JoinConsumer \/ StopReturn
-----------------------------------------------------------------------------
Next ==
  \/ \E thread \in Threads, t \in Transfers : CallbackEnter(thread, t)
  \/ CallbackStep \/ ConsumerStep \/ SpuriousWakeup \/ PumpStep \/ DeviceStep
  \/ AppCalls \/ AppStep

Spec == Init /\ [][Next]_vars

(* Threads that can run do, libusb's event handling and control transfers  *)
(* return within their timeouts, and the application's callback returns.   *)
(* Nothing is assumed of the device, of the calls the application makes,   *)
(* or of spurious wakeups.                                                 *)
Fairness ==
  /\ WF_vars(CallbackStep)
  /\ WF_vars(ConsumerStep)
  /\ WF_vars(PumpStep)
  /\ WF_vars(AppStep)

FairSpec == Spec /\ Fairness
-----------------------------------------------------------------------------
FlagsTypeOK ==
  /\ streaming \in BOOLEAN
  /\ stop_requested \in BOOLEAN
  /\ armed \in BOOLEAN
  /\ cut \in BOOLEAN

CountTypeOK == transfer_live \in Int

StatesTypeOK ==
  /\ transfer \in [Transfers -> TransferStates]
  /\ callback \in CallbackStates
  /\ handler \in Threads
  /\ usb_transfer \in Transfers
  /\ app \in AppStates
  /\ consumer \in ConsumerStates
  /\ pump \in PumpStates

(* Types. *)
TypeOK == QTypeOK /\ FlagsTypeOK /\ CountTypeOK /\ StatesTypeOK

(* Between airspyhf_stop's return and the next create_io_threads (and      *)
(* before the first) nothing of the session is left running: both threads  *)
(* are joined, no callback is in progress or will get past its first test, *)
(* no buffer is being read, and both flags are clear, so that              *)
(* create_io_threads does not refuse.                                      *)
StopQuiesces ==
  (~armed /\ app \notin Stopping) =>
    /\ consumer = "none"
    /\ pump = "none"
    /\ callback = "none"
    /\ input = NoBuffer
    /\ ~streaming
    /\ ~stop_requested

(* A transfer is in the hands of libusb, or returned and not yet called    *)
(* back.                                                                   *)
Live == {t \in Transfers :
           transfer[t] # "idle" /\ (callback = "none" \/ usb_transfer # t)}

(* transfer_live counts the transfers libusb has, whatever the order of    *)
(* completions, failures and cancellations: when cancel_transfers stops    *)
(* waiting because it is 0, all of them are back.                          *)
LiveExact == transfer_live = Cardinality(Live)

(* The callback tests the flags, and submits its transfer again much       *)
(* later: a stop may cancel everything in between.  That leaves at most    *)
(* one transfer that no one cancels, from then until the next submission.  *)
OneStraggler ==
  \/ app \in {"cancel events", "signal", "join transfer", "join consumer",
               "last events"}
  \/ ~armed /\ app \notin Stopping
  => Cardinality({t \in Transfers : transfer[t] = "flying"})
       + (IF callback = "none" THEN 0 ELSE 1) <= 1

(* The consumer never sleeps where nobody will wake it: with a block in    *)
(* the queue that was signalled before it waited, or after the one signal  *)
(* of airspyhf_stop, which then joins it.                                  *)
NoLostWakeup ==
  consumer = "waiting" =>
    received_buffer_count = 0 /\ app \notin {"join transfer", "join consumer"}

(* A callback that finds the session ended discards its block uncounted.   *)
(* No later block of that session is queued, or its dropped_samples would  *)
(* be wrong, except once airspyhf_stop has cleared stop_requested with     *)
(* streaming still set.                                                    *)
NoGapUnlessStopping ==
  [][(cut /\ arrived' > arrived) =>
       app \in Stopping \ {"stop off", "kill stop_requested"}]_vars

(* A consumer never takes a block from an empty queue while the session    *)
(* runs, nor while airspyhf_stop makes its control transfer: only once     *)
(* kill_io_threads has cleared stop_requested, and what is then wrong with *)
(* the queue is gone before the next consumer exists.                      *)
StaleOnlyStopping ==
  stale => app \in Stopping \ {"stop off", "kill stop_requested"}
             \/ consumer = "none"

(* The threads keep the protocol of the sample queue: all its properties,  *)
(* the lossy stream it implements included, hold of a streaming session.   *)
ImplementsSampleQueue == QSpec

(* What an application may rely on, whatever the threads do: one sample    *)
(* callback at a time, only in a session, none after one that ended it, at *)
(* most one after the session ended otherwise, none after airspyhf_stop.   *)
Promise ==
  INSTANCE Session WITH
    phase <- IF app \in Stopping THEN "stopping" ELSE IF armed THEN "on" ELSE "off",
    calling <- consumer = "busy",
    late <- consumer = "take stop?" /\ ~streaming
ImplementsSession == Promise!Spec

(* airspyhf_stop returns: it never waits for a consumer that sleeps on an  *)
(* empty queue, or for a transfer thread that waits for the device.        *)
StopReturns == app = "stop off" ~> app = "idle"

(* A queued block is handed to the application, the wakeup never lost,     *)
(* unless the session ends or its consumer could not be created.           *)
QueuedBlockDelivered ==
  \A n \in 0 .. MaxBlocks :
    (consumer # "none" /\ Queued > 0 /\ heard = n)
      ~> (heard # n \/ ~streaming \/ stop_requested)
-----------------------------------------------------------------------------
(* The inductive invariant, part by part: what each stage of the           *)
(* application's calls says of the flags, the threads, the callback, the   *)
(* queue and the transfers.                                                *)
Killing == Stopping \ {"stop off", "kill stop_requested"}
Killed == Killing \ {"kill streaming"}
AfterCancel == Killed \ {"cancel"}
Cleared == {"start off", "start on", "create", "prepare", "reset"}
Creating == {"prepare", "reset", "create consumer", "create transfer"}

FlagStages ==
  /\ app \in {"stop off", "kill stop_requested"} => stop_requested
  /\ app \notin {"stop off", "kill stop_requested"} => ~stop_requested
  /\ app \in Killed => ~streaming

ThreadStages ==
  /\ app \in {"start off", "start on", "create"} => ~armed
  /\ app \in Creating => armed
  /\ app \in Creating \union {"join consumer", "last events"} => pump = "none"
  /\ app \in (Creating \ {"create transfer"}) \union {"last events"}
       => consumer = "none"
  /\ consumer # "none" \/ app = "create consumer" => open
  /\ input # NoBuffer <=> consumer \in {"busy", "returned"}

CallbackStages ==
  callback # "none" =>
    IF handler = "xfer" THEN pump = "handling"
    ELSE app \in {"control", "stop off"}

ClearedStages ==
  app \in Cleared => ~open /\ dropped_buffers = 0 /\ ~cut

GapStages ==
  (cut /\ app \notin Killing) =>
    /\ streaming => stop_requested
    /\ callback = "stop?" => stop_requested
    /\ callback # "queue"

StragglerStages ==
  (app \in AfterCancel \/ (~armed /\ app \notin Stopping)) =>
    /\ \A t, u \in Transfers :
         transfer[t] = "flying" /\ transfer[u] = "flying" => t = u
    /\ callback # "none" => \A t \in Transfers : transfer[t] # "flying"

(* The queue stays empty from the consumer's test to its sleep.  At its    *)
(* signal airspyhf_stop has the lock, and the session has ended.           *)
SleepStages ==
  /\ consumer \in {"empty streaming?", "empty stop?", "waiting"}
       => received_buffer_count = 0
  /\ app \in {"join transfer", "join consumer"}
       => consumer \notin {"empty stop?", "waiting"}

(* A consumer about to take from an empty queue has seen a flag say stop   *)
(* at its first test.                                                      *)
StaleStages ==
  /\ received_buffer_count <= 0 =>
       /\ consumer = "take streaming?" => ~streaming \/ app \in Stopping
       /\ consumer = "take stop?" => app \in Stopping
  /\ app = "create consumer" => ~stale
  /\ StaleOnlyStopping

SInv ==
  /\ FlagsTypeOK
  /\ CountTypeOK
  /\ StatesTypeOK
  /\ StopQuiesces
  /\ FlagStages
  /\ ThreadStages
  /\ CallbackStages
  /\ ClearedStages
  /\ GapStages
  /\ StragglerStages
=============================================================================
