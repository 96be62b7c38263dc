---------------------------- MODULE SampleQueue ----------------------------
(***************************************************************************)
(* The queue of raw sample blocks between the USB transfer callback and    *)
(* the consumer thread: airspyhf_device's received_samples_queue,          *)
(* dropped_buffers_queue, head, tail and received_buffer_count, and the    *)
(* buffers that the queue's slots and the USB transfers exchange.          *)
(*                                                                         *)
(* One action is one critical section of consumer_mp (or one group of      *)
(* assignments of airspyhf_start, which takes no lock).  The consumer      *)
(* reads the block it took with the lock released: from Take to Release    *)
(* its buffer, "input", is being read while any other action may happen.   *)
(*                                                                         *)
(* Who runs these actions, and when, is the business of the module         *)
(* Streaming, which EXTENDS this one and implements QSpec.                 *)
(***************************************************************************)
EXTENDS Integers

CONSTANTS
  RawBufferCount,  \* RAW_BUFFER_COUNT, 8
  TransferCount,   \* device->transfer_count, 16
  Buffers,         \* the buffers allocate_transfers has malloc'ed
  NoBuffer         \* not one of them

ASSUME RawBufferCountAssumption == RawBufferCount \in Nat \ {0}
ASSUME TransferCountAssumption == TransferCount \in Nat \ {0}
ASSUME NoBufferAssumption == NoBuffer \notin Buffers

Slots == 0 .. RawBufferCount - 1
Transfers == 0 .. TransferCount - 1

VARIABLES
  received_samples_queue,       \* the buffer in each slot
  dropped_buffers_queue,        \* blocks lost just before the one in each slot
  received_samples_queue_head,  \* slot the callback fills next
  received_samples_queue_tail,  \* slot the consumer empties next
  received_buffer_count,        \* blocks queued or being read by the consumer
  dropped_buffers,              \* blocks lost since the last one queued
  buffer,                       \* usb_transfer->buffer of each transfer
  input,                        \* input_samples of consumer_threadproc, or NoBuffer
  input_dropped,                \* dropped_buffers of consumer_threadproc
  (* Ghost variables: no counterpart in the code, they only record what    *)
  (* happened.                                                             *)
  open,      \* airspyhf_start has reset the indices, no later one has begun
  arrived,   \* blocks that reached the critical section of the callback
  data,      \* number, in this session, of the block in each buffer
  heard,     \* stream position the application computes: each block it is
             \* handed counts for one plus the lost blocks reported with it
  stale      \* since the indices were reset, the consumer has taken a block
             \* from an empty queue

qvars == <<received_samples_queue, dropped_buffers_queue,
           received_samples_queue_head, received_samples_queue_tail,
           received_buffer_count, dropped_buffers, buffer, input,
           input_dropped, open, arrived, data, heard, stale>>

(* (i + 1) & (RAW_BUFFER_COUNT - 1): for the power of two in the code, %. *)
NextSlot(i) == (i + 1) % RawBufferCount

(* Every slot and every transfer has a buffer of its own: swapping buffers *)
(* between them never leaks or duplicates one, and free_transfers frees    *)
(* each exactly once.                                                      *)
BufferPartition ==
  /\ \A i, j \in Slots :
       received_samples_queue[i] = received_samples_queue[j] => i = j
  /\ \A t, u \in Transfers : buffer[t] = buffer[u] => t = u
  /\ \A i \in Slots, t \in Transfers : received_samples_queue[i] # buffer[t]

(* allocate_transfers gives one to each. *)
QInit ==
  /\ received_samples_queue \in [Slots -> Buffers]
  /\ buffer \in [Transfers -> Buffers]
  /\ BufferPartition
  /\ dropped_buffers_queue = [i \in Slots |-> 0]
  /\ received_samples_queue_head = 0
  /\ received_samples_queue_tail = 0
  /\ received_buffer_count = 0
  /\ dropped_buffers = 0
  /\ input = NoBuffer
  /\ input_dropped = 0
  /\ open = FALSE
  /\ arrived = 0
  /\ data = [b \in Buffers |-> 0]
  /\ heard = 0
  /\ stale = FALSE
-----------------------------------------------------------------------------
(* The full buffer of transfer t goes into the head slot, the buffer spare *)
(* to the transfer; uncounted is what remains in dropped_buffers.          *)
Fill(t, spare, uncounted) ==
  LET head == received_samples_queue_head IN
  /\ received_samples_queue' = [received_samples_queue EXCEPT ![head] = buffer[t]]
  /\ buffer' = [buffer EXCEPT ![t] = spare]
  /\ dropped_buffers_queue' = [dropped_buffers_queue EXCEPT ![head] = dropped_buffers]
  /\ dropped_buffers' = uncounted
  /\ received_samples_queue_head' = NextSlot(head)
  /\ received_buffer_count' = received_buffer_count + 1
  /\ arrived' = arrived + 1
  /\ data' = [data EXCEPT ![buffer[t]] = arrived + 1]
  /\ UNCHANGED <<received_samples_queue_tail, input, input_dropped, open, heard,
                 stale>>

HeadBuffer == received_samples_queue[received_samples_queue_head]

(* Mutants: one block too many is queued; the transfer keeps the buffer it *)
(* has queued; the loss is reported again with the next block.             *)
EnqueueOverfull(t) ==
  received_buffer_count <= RawBufferCount /\ Fill(t, HeadBuffer, 0)
EnqueueKeepsBuffer(t) ==
  received_buffer_count < RawBufferCount /\ Fill(t, buffer[t], 0)
EnqueueKeepsDrops(t) ==
  received_buffer_count < RawBufferCount /\ Fill(t, HeadBuffer, dropped_buffers)

(* The callback queues the block transfer t received, which gets the old   *)
(* buffer of the slot.                                                     *)
Enqueue(t) ==
  received_buffer_count < RawBufferCount /\ Fill(t, HeadBuffer, 0)

(* The callback finds the queue full and loses the block. *)
DropBlock ==
  /\ ~ (received_buffer_count < RawBufferCount)
  /\ dropped_buffers' = dropped_buffers + 1
  /\ arrived' = arrived + 1
  /\ UNCHANGED <<received_samples_queue, dropped_buffers_queue,
                 received_samples_queue_head, received_samples_queue_tail,
                 received_buffer_count, buffer, input, input_dropped, open,
                 data, heard, stale>>

(* The consumer takes the block in the tail slot, whether or not there is  *)
(* one.  received_buffer_count still counts it.                            *)
Take ==
  LET tail == received_samples_queue_tail IN
  /\ input' = received_samples_queue[tail]
  /\ input_dropped' = dropped_buffers_queue[tail]
  /\ received_samples_queue_tail' = NextSlot(tail)
  /\ heard' = heard + 1 + dropped_buffers_queue[tail]
  /\ stale' = (stale \/ received_buffer_count <= 0)
  /\ UNCHANGED <<received_samples_queue, dropped_buffers_queue,
                 received_samples_queue_head, received_buffer_count,
                 dropped_buffers, buffer, open, arrived, data>>

(* The consumer, its callback having returned, gives the slot back. *)
Release ==
  /\ input' = NoBuffer
  /\ received_buffer_count' = received_buffer_count - 1
  /\ UNCHANGED <<received_samples_queue, dropped_buffers_queue,
                 received_samples_queue_head, received_samples_queue_tail,
                 dropped_buffers, buffer, input_dropped, open, arrived, data,
                 heard, stale>>

(* airspyhf_start clears the loss counters before anything else ...        *)
ClearDrops ==
  /\ dropped_buffers_queue' = [i \in Slots |-> 0]
  /\ dropped_buffers' = 0
  /\ open' = FALSE
  /\ UNCHANGED <<received_samples_queue, received_samples_queue_head,
                 received_samples_queue_tail, received_buffer_count, buffer,
                 input, input_dropped, arrived, data, heard, stale>>

(* ... and the indices much later, after the transfers are submitted.      *)
ResetIndices ==
  /\ received_samples_queue_head' = 0
  /\ received_samples_queue_tail' = 0
  /\ received_buffer_count' = 0
  /\ input_dropped' = 0
  /\ open' = TRUE
  /\ arrived' = 0
  /\ data' = [b \in Buffers |-> 0]
  /\ heard' = 0
  /\ stale' = FALSE
  /\ UNCHANGED <<received_samples_queue, dropped_buffers_queue,
                 dropped_buffers, buffer, input>>
-----------------------------------------------------------------------------
(* The protocol the rest of the library keeps: one consumer, alive only    *)
(* while the queue is open and reading one block at a time, and no start   *)
(* before it is gone.  No block may be lost in the callback between        *)
(* ClearDrops and ResetIndices, or the new session would begin in debt.    *)
(* Nothing keeps the consumer from taking a block when none is queued.     *)
QNext ==
  \/ \E t \in Transfers : Enqueue(t)
  \/ DropBlock
  \/ open /\ input = NoBuffer /\ Take
  \/ input # NoBuffer /\ Release
  \/ input = NoBuffer /\ ClearDrops
  \/ ~open /\ input = NoBuffer /\ dropped_buffers = 0 /\ ResetIndices

QSpec == QInit /\ [][QNext]_qvars
-----------------------------------------------------------------------------
(* Types.  The callback's test before it queues keeps the count at         *)
(* RAW_BUFFER_COUNT or less, but nothing keeps it from falling below 0.    *)
QTypeOK ==
  /\ received_samples_queue \in [Slots -> Buffers]
  /\ dropped_buffers_queue \in [Slots -> Nat]
  /\ received_samples_queue_head \in Slots
  /\ received_samples_queue_tail \in Slots
  /\ received_buffer_count \in Int
  /\ received_buffer_count <= RawBufferCount
  /\ dropped_buffers \in Nat
  /\ buffer \in [Transfers -> Buffers]
  /\ input \in Buffers \union {NoBuffer}
  /\ input_dropped \in Nat
  /\ open \in BOOLEAN
  /\ arrived \in Nat
  /\ data \in [Buffers -> Nat]
  /\ heard \in Nat
  /\ stale \in BOOLEAN

(* The buffer the consumer converts and hands to the application with the  *)
(* lock released is attached to no USB transfer: the device cannot         *)
(* overwrite it.                                                           *)
InputKept == input # NoBuffer => \A t \in Transfers : buffer[t] # input

(* Until a block was taken from an empty queue, the block being read is    *)
(* out of the device's reach, however many blocks arrive meanwhile.        *)
ReadingIsolated == ~stale => InputKept

(* While the application is handed a block, the stream position it can     *)
(* compute from the blocks and the dropped_samples it was given so far is  *)
(* that block's true position: no loss is unreported, reported twice or    *)
(* reported with the wrong block, and no block is overtaken - until one    *)
(* was taken from an empty queue.                                          *)
PositionExact ==
  (open /\ ~stale /\ input # NoBuffer) => data[input] = heard
-----------------------------------------------------------------------------
(* The inductive invariant.                                                *)
Held == IF input = NoBuffer THEN 0 ELSE 1

(* Blocks waiting in the queue, the one being read not counted. *)
Queued == received_buffer_count - Held

(* The slot i places behind the tail. *)
SlotAt(i) ==
  IF received_samples_queue_tail + i < RawBufferCount
  THEN received_samples_queue_tail + i
  ELSE received_samples_queue_tail + i - RawBufferCount

(* The slot the consumer emptied last. *)
LastSlot ==
  IF received_samples_queue_tail = 0
  THEN RawBufferCount - 1
  ELSE received_samples_queue_tail - 1

RingShape ==
  /\ Queued >= 0
  /\ received_samples_queue_head = SlotAt(Queued)

(* The block being read stays in its slot, out of the callback's reach. *)
HeldInSlot ==
  input # NoBuffer => received_samples_queue[LastSlot] = input

(* Number of the block in the slot i places behind the tail; the slot one  *)
(* place before it stands for the position reached.                        *)
NumberAt(i) == data[received_samples_queue[SlotAt(i)]]
NumberBefore(i) == IF i = 0 THEN heard ELSE NumberAt(i - 1)

(* Each queued block is preceded by the loss recorded for it, and the      *)
(* blocks that arrived after the last one are those counted as dropped.    *)
Books ==
  open =>
    /\ \A i \in 0 .. Queued - 1 :
         NumberAt(i) = NumberBefore(i) + 1 + dropped_buffers_queue[SlotAt(i)]
    /\ arrived = NumberBefore(Queued) + dropped_buffers

Sound ==
  /\ RingShape
  /\ HeldInSlot
  /\ Books
  /\ PositionExact

(* A block taken from an empty queue ends all but the first two parts.     *)
QInv ==
  /\ QTypeOK
  /\ BufferPartition
  /\ ~stale => Sound
-----------------------------------------------------------------------------
(* The queue implements the abstract stream.  It promises nothing while it *)
(* is closed, nor once a block was taken from it when it was empty.        *)
WaitingBlocks == [i \in 1 .. Queued |-> NumberAt(i - 1)]
Promised == open /\ ~stale

Fifo == INSTANCE LossyFifo WITH
  Capacity <- RawBufferCount,
  promised <- Promised,
  arrived  <- IF Promised THEN arrived ELSE 0,
  queue    <- IF Promised THEN WaitingBlocks ELSE <<>>,
  position <- IF Promised THEN heard ELSE 0,
  reported <- IF Promised THEN input_dropped ELSE 0,
  holding  <- Promised /\ input # NoBuffer

(* Every behaviour of the queue is a behaviour of the lossy stream: a      *)
(* block is lost only when RAW_BUFFER_COUNT are held, and the loss         *)
(* reported with a block is the true one, until the promise ends.          *)
ImplementsLossyFifo == Fifo!Spec
=============================================================================
