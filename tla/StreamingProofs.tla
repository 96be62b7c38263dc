-------------------------- MODULE StreamingProofs --------------------------
(***************************************************************************)
(* Proofs about the sample queue and about a streaming session, for every  *)
(* number of slots, transfers, buffers and blocks.  First the sample       *)
(* queue, of itself.  Then the invariant of the threads and of the calls,  *)
(* and that they drive the sample queue only as SampleQueue allows, so     *)
(* that what is proved of the queue holds of every session.  From that     *)
(* invariant: transfer_live counts what libusb has, no wakeup is lost, and *)
(* a block is taken from an empty queue only while airspyhf_stop runs, so  *)
(* that until then the queue is sound.  Last, the session keeps the        *)
(* promise of the module Session.                                          *)
(***************************************************************************)
EXTENDS Streaming, Sequences, FiniteSetTheorems, TLAPS

USE RawBufferCountAssumption, TransferCountAssumption, NoBufferAssumption
-----------------------------------------------------------------------------
(* Arithmetic of the ring.  NextSlot is one step around it; the slots up   *)
(* to RAW_BUFFER_COUNT places behind the tail are slots, all different,    *)
(* and the one farthest behind is the one the consumer emptied last.       *)
LEMMA NextSlotValue ==
  ASSUME NEW i \in Slots
  PROVE  /\ NextSlot(i) = IF i = RawBufferCount - 1 THEN 0 ELSE i + 1
         /\ NextSlot(i) \in Slots
  BY SMT DEF NextSlot, Slots

LEMMA SlotAtValues ==
  ASSUME received_samples_queue_tail \in Slots
  PROVE  /\ \A i \in 0 .. RawBufferCount : SlotAt(i) \in Slots
         /\ \A i, j \in 0 .. RawBufferCount - 1 : SlotAt(i) = SlotAt(j) => i = j
         /\ SlotAt(RawBufferCount - 1) = LastSlot
         /\ SlotAt(0) = received_samples_queue_tail
  BY SMT DEF SlotAt, LastSlot, Slots

LEMMA SlotAtNext ==
  ASSUME received_samples_queue_tail \in Slots,
         NEW i \in 0 .. RawBufferCount - 1
  PROVE  SlotAt(i + 1) = NextSlot(SlotAt(i))
  BY NextSlotValue, SlotAtValues, SMT DEF SlotAt, Slots

LEMMA TailMoves ==
  ASSUME received_samples_queue_tail \in Slots,
         received_samples_queue_tail' = NextSlot(received_samples_queue_tail)
  PROVE  /\ \A i \in 0 .. RawBufferCount - 1 : SlotAt(i)' = SlotAt(i + 1)
         /\ LastSlot' = received_samples_queue_tail
  BY NextSlotValue, SMT DEF SlotAt, LastSlot, Slots
-----------------------------------------------------------------------------
LEMMA InitInv ==
  ASSUME QInit
  PROVE  QInv
<1>1. QTypeOK
  <2>1. 0 \in Slots /\ 0 \in Int /\ 0 <= RawBufferCount /\ 0 \in Nat
    BY DEF Slots
  <2>2. open \in BOOLEAN /\ stale \in BOOLEAN
    BY DEF QInit
  <2> QED
    BY <2>1, <2>2 DEF QInit, QTypeOK
<1>2. BufferPartition
  BY DEF QInit
<1>3. Held = 0 /\ Queued = 0
  BY <1>1 DEF QInit, Held, Queued
<1>4. RingShape
  BY <1>1, <1>3, SlotAtValues DEF QInit, QTypeOK, RingShape
<1>5. HeldInSlot /\ Books /\ PositionExact
  BY DEF QInit, HeldInSlot, Books, PositionExact
<1> QED
  BY <1>1, <1>2, <1>4, <1>5 DEF QInv, Sound

(* The callback queues a block: the slot it fills is not among the queued  *)
(* ones, nor the one being read, and the buffer it fills it with is in no  *)
(* slot, so that the blocks queued before keep their numbers.              *)
LEMMA EnqueueNumbers ==
  ASSUME QInv, ~stale, NEW t \in Transfers, Enqueue(t)
  PROVE  \E q \in 0 .. RawBufferCount - 1 :
           /\ Queued = q
           /\ Queued' = q + 1
           /\ received_samples_queue_head = SlotAt(q)
           /\ input # NoBuffer => received_samples_queue_head # LastSlot
           /\ \A i \in 0 .. q - 1 :
                /\ NumberAt(i)' = NumberAt(i)
                /\ dropped_buffers_queue'[SlotAt(i)']
                      = dropped_buffers_queue[SlotAt(i)]
           /\ NumberAt(q)' = arrived + 1
           /\ dropped_buffers_queue'[SlotAt(q)'] = dropped_buffers
<1> DEFINE head == received_samples_queue_head
<1> USE DEF QInv, Sound
<1>1. PICK q \in 0 .. RawBufferCount - 1 :
        /\ Queued = q
        /\ Queued' = q + 1
        /\ input # NoBuffer => q < RawBufferCount - 1
  BY DEF QTypeOK, RingShape, Held, Queued, Enqueue, Fill
<1>2. head = SlotAt(q) /\ head \in Slots
  BY <1>1 DEF RingShape, QTypeOK
<1>3. \A i \in 0 .. RawBufferCount : SlotAt(i)' = SlotAt(i)
  BY DEF Enqueue, Fill, SlotAt
<1>4. input # NoBuffer => head # LastSlot
  BY <1>1, <1>2, SlotAtValues DEF QTypeOK
<1>5. \A i \in Slots : received_samples_queue[i] # buffer[t]
  BY DEF BufferPartition
<1>6. ASSUME NEW i \in 0 .. q - 1
      PROVE  SlotAt(i) \in Slots /\ SlotAt(i) # head
  BY <1>1, <1>2, SlotAtValues DEF QTypeOK
<1>7. ASSUME NEW i \in 0 .. q - 1
      PROVE  /\ NumberAt(i)' = NumberAt(i)
             /\ dropped_buffers_queue'[SlotAt(i)'] = dropped_buffers_queue[SlotAt(i)]
  BY <1>6, <1>1, <1>3, <1>5 DEF QTypeOK, NumberAt, Enqueue, Fill
<1>8. /\ NumberAt(q)' = arrived + 1
      /\ dropped_buffers_queue'[SlotAt(q)'] = dropped_buffers
  BY <1>1, <1>2, <1>3 DEF QTypeOK, NumberAt, Enqueue, Fill
<1> QED
  BY <1>1, <1>2, <1>4, <1>7, <1>8

LEMMA EnqueueSound ==
  ASSUME QInv, ~stale, NEW t \in Transfers, Enqueue(t)
  PROVE  Sound'
<1> DEFINE head == received_samples_queue_head
<1> USE DEF QInv, Sound
<1>1. PICK q \in 0 .. RawBufferCount - 1 :
           /\ Queued = q
           /\ Queued' = q + 1
           /\ head = SlotAt(q)
           /\ input # NoBuffer => head # LastSlot
           /\ \A i \in 0 .. q - 1 :
                /\ NumberAt(i)' = NumberAt(i)
                /\ dropped_buffers_queue'[SlotAt(i)']
                      = dropped_buffers_queue[SlotAt(i)]
           /\ NumberAt(q)' = arrived + 1
           /\ dropped_buffers_queue'[SlotAt(q)'] = dropped_buffers
  BY EnqueueNumbers
<1>2. \A i \in 0 .. RawBufferCount : SlotAt(i)' = SlotAt(i)
  BY DEF Enqueue, Fill, SlotAt
<1>3. LastSlot' = LastSlot /\ LastSlot \in Slots
  BY DEF QTypeOK, Enqueue, Fill, LastSlot, Slots
<1>4. input # NoBuffer => input # buffer[t]
  BY <1>3 DEF HeldInSlot, BufferPartition
<1>7. RingShape'
  BY <1>1, <1>2, SlotAtNext DEF RingShape, QTypeOK, Enqueue, Fill
<1>8. HeldInSlot'
  BY <1>1, <1>3 DEF HeldInSlot, QTypeOK, Enqueue, Fill
<1>9. /\ \A i \in 0 .. q : NumberBefore(i)' = NumberBefore(i)
      /\ NumberBefore(q + 1)' = arrived + 1
  BY <1>1 DEF NumberBefore, Enqueue, Fill
<1>10. NumberBefore(q) \in Nat
  BY <1>1, SlotAtValues DEF NumberBefore, NumberAt, QTypeOK
<1>11. Books'
  <2> SUFFICES ASSUME open
               PROVE  /\ \A i \in 0 .. q :
                           NumberAt(i)' = NumberBefore(i)' + 1
                                            + dropped_buffers_queue'[SlotAt(i)']
                      /\ arrived' = NumberBefore(q + 1)' + dropped_buffers'
    BY <1>1 DEF Books, Enqueue, Fill
  <2>1. arrived = NumberBefore(q) + dropped_buffers
    BY <1>1 DEF Books
  <2>2. NumberAt(q)' = NumberBefore(q)' + 1 + dropped_buffers_queue'[SlotAt(q)']
    BY <1>10, <2>1, <1>1, <1>9 DEF QTypeOK
  <2>3. ASSUME NEW i \in 0 .. q - 1
        PROVE  NumberAt(i)' = NumberBefore(i)' + 1
                                + dropped_buffers_queue'[SlotAt(i)']
    BY <1>1, <1>9 DEF Books
  <2> QED
    BY <1>1, <1>9, <2>2, <2>3 DEF QTypeOK, Enqueue, Fill
<1>12. PositionExact'
  BY <1>4 DEF PositionExact, QTypeOK, Enqueue, Fill
<1> QED
  BY <1>7, <1>8, <1>11, <1>12

LEMMA EnqueueInv ==
  ASSUME QInv, NEW t \in Transfers, Enqueue(t)
  PROVE  QInv'
<1> DEFINE head == received_samples_queue_head
<1> USE DEF QInv
<1>1. QTypeOK'
  <2>1. HeadBuffer \in Buffers /\ NextSlot(head) \in Slots
    BY NextSlotValue DEF QTypeOK, HeadBuffer
  <2> QED
    BY <2>1 DEF QTypeOK, Enqueue, Fill
<1>2. BufferPartition'
  BY DEF BufferPartition, QTypeOK, Enqueue, Fill, HeadBuffer
<1>3. stale' = stale
  BY DEF Enqueue, Fill
<1> QED
  BY <1>1, <1>2, <1>3, EnqueueSound

(* A lost block: the ring is untouched, and the block is on the books.     *)
LEMMA DropBlockSound ==
  ASSUME QInv, ~stale, DropBlock
  PROVE  Sound'
<1> USE DEF QInv, Sound
<1>1. /\ \A i \in 0 .. RawBufferCount : SlotAt(i)' = SlotAt(i)
      /\ LastSlot' = LastSlot
  BY DEF DropBlock, SlotAt, LastSlot
<1>2. PICK q \in Nat : Queued = q /\ Queued' = q /\ q <= RawBufferCount
  BY DEF QTypeOK, RingShape, Held, Queued, DropBlock
<1>4. HeldInSlot' /\ PositionExact'
  BY <1>1 DEF HeldInSlot, PositionExact, DropBlock
<1>5. RingShape'
  BY <1>1, <1>2 DEF RingShape, DropBlock
<1>6. \A i \in 0 .. q - 1 : NumberAt(i)' = NumberAt(i)
  BY <1>1, <1>2 DEF NumberAt, DropBlock
<1>7. \A i \in 0 .. q : NumberBefore(i)' = NumberBefore(i)
  BY <1>2, <1>6 DEF NumberBefore, DropBlock
<1>8. NumberBefore(q) \in Nat
  BY <1>2, SlotAtValues DEF NumberBefore, NumberAt, QTypeOK
<1>9. Books'
  BY <1>1, <1>2, <1>6, <1>7, <1>8 DEF Books, QTypeOK, DropBlock
<1> QED
  BY <1>4, <1>5, <1>9

LEMMA DropBlockInv ==
  ASSUME QInv, DropBlock
  PROVE  QInv'
<1>1. QTypeOK' /\ BufferPartition' /\ stale' = stale
  BY DEF QInv, QTypeOK, BufferPartition, DropBlock
<1> QED
  BY <1>1, DropBlockSound DEF QInv

(* The consumer takes a block, of a queue that has one: every other queued *)
(* block moves one place closer to the tail, and the position it computes  *)
(* is the block's number.                                                  *)
LEMMA TakeNumbers ==
  ASSUME QInv, ~stale', open, input = NoBuffer, Take
  PROVE  \E q \in 1 .. RawBufferCount :
           /\ Queued = q
           /\ Queued' = q - 1
           /\ NumberAt(0) = heard'
           /\ \A i \in 0 .. q - 2 : NumberAt(i)' = NumberAt(i + 1)
<1> USE DEF QInv, Sound
<1>0. ~stale /\ received_buffer_count > 0
  <2>1. ~(stale \/ received_buffer_count <= 0)
    BY Zenon DEF Take
  <2>2. received_buffer_count \in Int
    BY DEF QTypeOK
  <2> QED
    BY <2>1, <2>2
<1>1. PICK q \in 1 .. RawBufferCount : Queued = q /\ Queued' = q - 1
  <2>1. received_samples_queue[received_samples_queue_tail] \in Buffers
    BY DEF QTypeOK
  <2> QED
    BY <1>0, <2>1 DEF QTypeOK, Held, Queued, Take
<1>2. \A i \in 0 .. RawBufferCount - 1 : SlotAt(i)' = SlotAt(i + 1)
  BY TailMoves DEF QTypeOK, Take
<1>3. NumberAt(0) = heard'
  BY <1>0, <1>1, SlotAtValues DEF Books, NumberBefore, QTypeOK, Take
<1>4. \A i \in 0 .. q - 2 : NumberAt(i)' = NumberAt(i + 1)
  BY <1>1, <1>2 DEF NumberAt, Take
<1> QED
  BY <1>1, <1>3, <1>4

LEMMA TakeSound ==
  ASSUME QInv, ~stale', open, input = NoBuffer, Take
  PROVE  Sound'
<1> USE DEF QInv, Sound
<1>1. PICK q \in 1 .. RawBufferCount :
           /\ Queued = q
           /\ Queued' = q - 1
           /\ NumberAt(0) = heard'
           /\ \A i \in 0 .. q - 2 : NumberAt(i)' = NumberAt(i + 1)
  BY TakeNumbers
<1>2. /\ \A i \in 0 .. RawBufferCount - 1 : SlotAt(i)' = SlotAt(i + 1)
      /\ LastSlot' = received_samples_queue_tail
      /\ SlotAt(0) = received_samples_queue_tail
  BY TailMoves, SlotAtValues DEF QTypeOK, Take
<1>3. ~stale
  BY DEF Take
<1>6. RingShape'
  BY <1>1, <1>2, <1>3 DEF RingShape, Take
<1>7. HeldInSlot'
  BY <1>2 DEF HeldInSlot, Take
<1>8. PositionExact'
  BY <1>1, <1>2 DEF PositionExact, NumberAt, Take
<1>9. ASSUME NEW i \in 0 .. q - 1
      PROVE  NumberBefore(i)' = NumberBefore(i + 1)
  BY <1>1 DEF NumberBefore
<1>10. Books'
  <2>1. ASSUME NEW i \in 0 .. q - 2
        PROVE  NumberAt(i)' = NumberBefore(i)' + 1
                                + dropped_buffers_queue'[SlotAt(i)']
    <3>1. /\ i \in 0 .. q - 1
          /\ i + 1 \in 0 .. q - 1
          /\ i \in 0 .. RawBufferCount - 1
      BY <1>1
    <3> QED
      BY <3>1, <1>1, <1>2, <1>3, <1>9 DEF Books, Take
  <2> QED
    BY <2>1, <1>1, <1>3, <1>9 DEF Books, Take
<1> QED
  BY <1>6, <1>7, <1>8, <1>10

LEMMA TakeInv ==
  ASSUME QInv, open, input = NoBuffer, Take
  PROVE  QInv'
<1> USE DEF QInv
<1>1. heard' \in Nat /\ stale' \in BOOLEAN
  BY DEF QTypeOK, Take
<1>2. QTypeOK'
  BY <1>1, NextSlotValue DEF QTypeOK, Take
<1>3. BufferPartition'
  BY DEF BufferPartition, Take
<1> QED
  BY <1>2, <1>3, TakeSound

(* The slot just emptied is free again; what is queued does not change.    *)
LEMMA ReleaseSound ==
  ASSUME QInv, ~stale, input # NoBuffer, Release
  PROVE  Sound'
<1> USE DEF QInv, Sound
<1>1. /\ Queued' = Queued
      /\ Queued \in 0 .. RawBufferCount - 1
  BY DEF QTypeOK, RingShape, Held, Queued, Release
<1>2. /\ \A i \in 0 .. RawBufferCount : SlotAt(i)' = SlotAt(i)
      /\ \A i \in 0 .. RawBufferCount : NumberAt(i)' = NumberAt(i)
      /\ \A i \in 0 .. RawBufferCount : NumberBefore(i)' = NumberBefore(i)
  BY DEF Release, SlotAt, NumberAt, NumberBefore
<1>3. HeldInSlot' /\ PositionExact'
  BY DEF HeldInSlot, PositionExact, Release
<1>4. RingShape'
  BY <1>1, <1>2 DEF RingShape, Release
<1>5. Books'
  BY <1>1, <1>2 DEF Books, Release
<1> QED
  BY <1>3, <1>4, <1>5

LEMMA ReleaseInv ==
  ASSUME QInv, input # NoBuffer, Release
  PROVE  QInv'
<1>1. QTypeOK' /\ BufferPartition' /\ stale' = stale
  BY DEF QInv, QTypeOK, BufferPartition, Release
<1> QED
  BY <1>1, ReleaseSound DEF QInv

(* airspyhf_start's assignments, while nothing is being read.              *)
LEMMA ClearDropsInv ==
  ASSUME QInv, input = NoBuffer, ClearDrops
  PROVE  QInv'
<1> USE DEF QInv, Sound
<1>1. QTypeOK' /\ BufferPartition' /\ stale' = stale
  BY DEF QTypeOK, BufferPartition, ClearDrops
<1>2. HeldInSlot' /\ PositionExact' /\ Books'
  BY DEF HeldInSlot, PositionExact, Books, ClearDrops
<1>3. Queued' = Queued /\ SlotAt(Queued)' = SlotAt(Queued)
  BY DEF Queued, Held, SlotAt, ClearDrops
<1>4. ~stale => RingShape'
  BY <1>3 DEF RingShape, ClearDrops
<1> QED
  BY <1>1, <1>2, <1>4

(* The new indices make good whatever a stale block had left.              *)
LEMMA ResetIndicesInv ==
  ASSUME QInv, input = NoBuffer, dropped_buffers = 0, ResetIndices
  PROVE  QInv'
<1> USE DEF QInv, Sound
<1>1. 0 \in Slots /\ 0 \in Int /\ 0 \in Nat /\ 0 <= RawBufferCount
  BY DEF Slots
<1>2. QTypeOK'
  <2>1. open' \in BOOLEAN /\ stale' \in BOOLEAN
    BY Zenon DEF ResetIndices
  <2>2. data' \in [Buffers -> Nat]
    BY <1>1 DEF ResetIndices
  <2> QED
    BY <1>1, <2>1, <2>2, Zenon DEF QTypeOK, ResetIndices
<1>3. BufferPartition' /\ HeldInSlot' /\ PositionExact'
  BY DEF BufferPartition, HeldInSlot, PositionExact, ResetIndices
<1>4. Queued' = 0
  BY DEF Queued, Held, ResetIndices
<1>5. RingShape'
  BY <1>4 DEF RingShape, SlotAt, ResetIndices
<1>6. Books'
  BY <1>4 DEF Books, NumberBefore, ResetIndices
<1> QED
  BY <1>2, <1>3, <1>5, <1>6

LEMMA StutterInv ==
  ASSUME QInv, UNCHANGED qvars
  PROVE  QInv'
<1> USE DEF qvars
<1>1. QTypeOK' /\ BufferPartition' /\ stale' = stale
  BY DEF QInv, QTypeOK, BufferPartition
<1>2. /\ Queued' = Queued
      /\ ~stale => RingShape' /\ HeldInSlot' /\ PositionExact'
  BY DEF QInv, Sound, RingShape, HeldInSlot, PositionExact, Held, Queued, SlotAt, LastSlot
<1>3. ~stale => Books'
  BY <1>2 DEF QInv, Sound, Books, NumberAt, NumberBefore, SlotAt
<1> QED
  BY <1>1, <1>2, <1>3 DEF QInv, Sound
-----------------------------------------------------------------------------
LEMMA NextInv ==
  ASSUME QInv, [QNext]_qvars
  PROVE  QInv'
  BY EnqueueInv, DropBlockInv, TakeInv, ReleaseInv, ClearDropsInv,
     ResetIndicesInv, StutterInv DEF QNext

(* The invariant holds in every reachable state.                           *)
THEOREM Invariance == QSpec => []QInv
  BY InitInv, NextInv, PTL DEF QSpec

(* Types: the indices stay within the ring and received_buffer_count at    *)
(* RAW_BUFFER_COUNT or less.                                               *)
THEOREM TypeCorrect == QSpec => []QTypeOK
  BY Invariance, PTL DEF QInv

(* No buffer is leaked, shared, or freed twice, not even after a block was *)
(* taken from an empty queue.                                              *)
THEOREM NoBufferShared == QSpec => []BufferPartition
  BY Invariance, PTL DEF QInv

LEMMA SoundCount ==
  ASSUME QTypeOK, Sound
  PROVE  received_buffer_count \in 0 .. RawBufferCount
  BY DEF QTypeOK, Sound, RingShape, Queued, Held

LEMMA SoundInput ==
  ASSUME QTypeOK, BufferPartition, Sound
  PROVE  InputKept
<1>1. LastSlot \in Slots
  BY DEF QTypeOK, LastSlot, Slots
<1> QED
  BY <1>1 DEF Sound, HeldInSlot, BufferPartition, InputKept

(* Until a block was taken from an empty queue, received_buffer_count does *)
(* not underflow, and no USB transfer can overwrite the block the consumer *)
(* is reading with the lock released.                                      *)
THEOREM ReadIsolation ==
  QSpec => [](ReadingIsolated /\ (~stale => received_buffer_count >= 0))
<1>1. QInv => ReadingIsolated
  BY SoundInput DEF QInv, ReadingIsolated
<1>2. QInv => (~stale => received_buffer_count >= 0)
  BY SoundCount DEF QInv
<1> QED
  BY <1>1, <1>2, Invariance, PTL

(* The loss reported with the blocks is exact, until a block was taken     *)
(* from an empty queue.                                                    *)
THEOREM ExactPosition == QSpec => []PositionExact
<1>1. QInv => PositionExact
  BY DEF QInv, Sound, PositionExact
<1> QED
  BY <1>1, Invariance, PTL
-----------------------------------------------------------------------------
(* The queue implements the lossy stream.                                  *)
LEMMA WaitingLength ==
  ASSUME QInv, ~stale
  PROVE  /\ Queued \in 0 .. RawBufferCount
         /\ WaitingBlocks \in Seq(Nat)
         /\ Len(WaitingBlocks) = Queued
         /\ \A i \in 1 .. Queued : WaitingBlocks[i] = NumberAt(i - 1)
<1>1. Queued \in 0 .. RawBufferCount
  BY DEF QInv, Sound, QTypeOK, RingShape, Held, Queued
<1>2. ASSUME NEW i \in 1 .. Queued
      PROVE  NumberAt(i - 1) \in Nat
  BY <1>1, SlotAtValues DEF NumberAt, QInv, QTypeOK
<1> QED
  BY <1>1, <1>2 DEF WaitingBlocks

LEMMA HeldCount ==
  ASSUME QInv, ~stale
  PROVE  /\ Len(WaitingBlocks) + (IF input # NoBuffer THEN 1 ELSE 0)
              = received_buffer_count
<1>1. Queued \in Int /\ Queued = received_buffer_count - Held
  BY DEF QInv, QTypeOK, Queued, Held
<1>2. Held = IF input # NoBuffer THEN 1 ELSE 0
  BY DEF Held
<1> QED
  BY <1>1, <1>2, WaitingLength DEF QInv, QTypeOK

(* While nothing is promised, the abstract stream stands still.            *)
LEMMA BothUnpromised ==
  ASSUME ~Promised, ~Promised'
  PROVE  UNCHANGED Fifo!vars
<1>1. Promised = FALSE /\ Promised' = FALSE
  BY Zenon DEF Promised
<1>2. (Promised /\ input # NoBuffer)' = (Promised /\ input # NoBuffer)
  BY <1>1
<1> QED
  BY <1>1, <1>2 DEF Fifo!vars

LEMMA EnqueueArrives ==
  ASSUME QInv, QInv', NEW t \in Transfers, Enqueue(t)
  PROVE  Fifo!Arrive \/ UNCHANGED Fifo!vars
<1>1. CASE ~Promised
  BY <1>1 DEF Promised, Enqueue, Fill, Fifo!vars
<1>2. CASE Promised
  <2>0. open /\ ~stale
    BY <1>2 DEF Promised
  <2>1. PICK q \in 0 .. RawBufferCount - 1 :
             /\ Queued = q
             /\ Queued' = q + 1
             /\ \A i \in 0 .. q - 1 : NumberAt(i)' = NumberAt(i)
             /\ NumberAt(q)' = arrived + 1
    BY <2>0, EnqueueNumbers
  <2>2. WaitingBlocks' = Append(WaitingBlocks, arrived + 1)
    BY <2>0, <2>1, WaitingLength DEF WaitingBlocks
  <2>3. Len(WaitingBlocks) + (IF input # NoBuffer THEN 1 ELSE 0) < RawBufferCount
    BY <2>0, HeldCount DEF Enqueue
  <2> QED
    BY <1>2, <2>2, <2>3 DEF Promised, Fifo!Arrive, Fifo!Held, Enqueue, Fill
<1> QED
  BY <1>1, <1>2

LEMMA DropBlockArrives ==
  ASSUME QInv, QInv', DropBlock
  PROVE  Fifo!Arrive \/ UNCHANGED Fifo!vars
<1>1. CASE ~Promised
  BY <1>1 DEF Promised, DropBlock, Fifo!vars
<1>2. CASE Promised
  <2>0. open /\ ~stale
    BY <1>2 DEF Promised
  <2>1. WaitingBlocks' = WaitingBlocks
    BY DEF DropBlock, WaitingBlocks, Queued, Held, NumberAt, SlotAt
  <2>2. ~(Len(WaitingBlocks) + (IF input # NoBuffer THEN 1 ELSE 0) < RawBufferCount)
    BY <2>0, HeldCount DEF DropBlock
  <2> QED
    BY <1>2, <2>1, <2>2 DEF Promised, Fifo!Arrive, Fifo!Held, DropBlock
<1> QED
  BY <1>1, <1>2

(* A block of a queue that has one is handed over; with one of an empty    *)
(* queue the promise ends.                                                 *)
LEMMA TakeHandsOver ==
  ASSUME QInv, QInv', ~stale', open, input = NoBuffer, Take
  PROVE  Fifo!HandOver
<1>0. ~stale /\ Promised /\ Promised'
  BY DEF Take, Promised
<1>1. PICK q \in 1 .. RawBufferCount :
           /\ Queued = q
           /\ Queued' = q - 1
           /\ NumberAt(0) = heard'
           /\ \A i \in 0 .. q - 2 : NumberAt(i)' = NumberAt(i + 1)
  BY TakeNumbers
<1>2. /\ WaitingBlocks # <<>>
      /\ Head(WaitingBlocks) = heard'
  BY <1>0, <1>1, WaitingLength
<1>3. WaitingBlocks' = Tail(WaitingBlocks)
  BY <1>0, <1>1, WaitingLength DEF WaitingBlocks
<1>4. input' # NoBuffer
  BY DEF QInv, QTypeOK, Take
<1>5. input_dropped' = heard' - heard - 1
  BY DEF QInv, QTypeOK, Take
<1> QED
  BY <1>0, <1>2, <1>3, <1>4, <1>5 DEF Fifo!HandOver, Take

LEMMA StaleTakeEnds ==
  ASSUME QInv, stale', open, input = NoBuffer, Take
  PROVE  Fifo!End \/ UNCHANGED Fifo!vars
<1>1. ~Promised'
  BY DEF Promised
<1>2. CASE Promised
  BY <1>1, <1>2 DEF Fifo!End, Fifo!Nothing
<1>3. CASE ~Promised
  BY <1>1, <1>3, BothUnpromised
<1> QED
  BY <1>2, <1>3

LEMMA ReleaseReturns ==
  ASSUME QInv, QInv', input # NoBuffer, Release
  PROVE  Fifo!Return \/ UNCHANGED Fifo!vars
<1>1. CASE ~Promised
  BY <1>1 DEF Promised, Release, Fifo!vars
<1>2. CASE Promised
  <2>0. open /\ ~stale
    BY <1>2 DEF Promised
  <2>1. Queued' = Queued
    BY DEF QInv, QTypeOK, Queued, Held, Release
  <2>2. WaitingBlocks' = WaitingBlocks
    BY <2>1 DEF Release, WaitingBlocks, NumberAt, SlotAt
  <2> QED
    BY <1>2, <2>2 DEF Promised, Fifo!Return, Release
<1> QED
  BY <1>1, <1>2

LEMMA ClearDropsEnds ==
  ASSUME QInv, input = NoBuffer, ClearDrops
  PROVE  Fifo!End \/ UNCHANGED Fifo!vars
<1>1. ~Promised'
  BY DEF Promised, ClearDrops
<1>2. CASE Promised
  BY <1>1, <1>2 DEF Fifo!End, Fifo!Nothing
<1>3. CASE ~Promised
  BY <1>1, <1>3, BothUnpromised
<1> QED
  BY <1>2, <1>3

LEMMA ResetIndicesBegins ==
  ASSUME QInv, ~open, input = NoBuffer, ResetIndices
  PROVE  Fifo!Begin
<1>1. Queued' = 0
  BY DEF Queued, Held, ResetIndices
<1>2. WaitingBlocks' = <<>>
  BY <1>1 DEF WaitingBlocks
<1> QED
  BY <1>2 DEF Fifo!Begin, Fifo!Nothing, Promised, ResetIndices

(* Every behaviour of the ring, its buffers and its counters is one of the *)
(* lossy stream: in order, lost only when RAW_BUFFER_COUNT blocks are      *)
(* held, and with the loss reported exactly.  The promise ends with the    *)
(* session or with a block taken from an empty queue.                      *)
THEOREM Refinement == QSpec => ImplementsLossyFifo
<1>1. QInit => Fifo!Init
  BY DEF QInit, Promised, Fifo!Init, Fifo!Nothing
<1>2. QInv /\ QInv' /\ [QNext]_qvars => [Fifo!Next]_(Fifo!vars)
  <2> SUFFICES ASSUME QInv, QInv', [QNext]_qvars
               PROVE  [Fifo!Next]_(Fifo!vars)
    OBVIOUS
  <2>1. CASE UNCHANGED qvars
    <3>1. WaitingBlocks' = WaitingBlocks
      BY <2>1 DEF qvars, WaitingBlocks, Queued, Held, NumberAt, SlotAt
    <3> QED
      BY <2>1, <3>1 DEF qvars, Promised, Fifo!vars
  <2>2. CASE QNext
    BY <2>2, EnqueueArrives, DropBlockArrives, TakeHandsOver, StaleTakeEnds,
       ReleaseReturns, ClearDropsEnds, ResetIndicesBegins DEF QNext, Fifo!Next
  <2> QED
    BY <2>1, <2>2
<1> QED
  BY <1>1, <1>2, Invariance, PTL DEF QSpec, ImplementsLossyFifo, Fifo!Spec
-----------------------------------------------------------------------------
USE DEF flags, calling, usb, threads, ghosts, qvars, NoCallback, Threads,
        TransferStates, CallbackStates, PumpStates, ConsumerStates, ConsumerLocked,
        AppStates, AppHandling, Starting, Stopping,
        Killing, Killed, AfterCancel, Cleared, Creating
-----------------------------------------------------------------------------
(* There is a transfer 0, the value usb_transfer has between callbacks.    *)
LEMMA ZeroTransfer == 0 \in Transfers
  BY TransferCountAssumption DEF Transfers

(* One transfer at a time changes its state.                               *)
LEMMA TransferSet ==
  ASSUME StatesTypeOK, NEW t \in Transfers, NEW s \in TransferStates
  PROVE  [transfer EXCEPT ![t] = s] \in [Transfers -> TransferStates]
<1> HIDE DEF TransferStates
<1>1. transfer \in [Transfers -> TransferStates]
  BY Zenon DEF StatesTypeOK
<1> QED
  BY <1>1

(* A step of a callback leaves the threads where they are ...              *)
LEMMA CallingTyped ==
  ASSUME StatesTypeOK, UNCHANGED <<app, consumer, pump>>,
         transfer' \in [Transfers -> TransferStates],
         callback' \in CallbackStates, handler' \in Threads,
         usb_transfer' \in Transfers
  PROVE  StatesTypeOK'
<1> HIDE DEF TransferStates, CallbackStates, Threads, AppStates, ConsumerStates,
             PumpStates
<1>1. app \in AppStates /\ consumer \in ConsumerStates /\ pump \in PumpStates
  BY Zenon DEF StatesTypeOK
<1>2. app' \in AppStates /\ consumer' \in ConsumerStates /\ pump' \in PumpStates
  BY <1>1
<1> QED
  BY <1>2, Zenon DEF StatesTypeOK

(* ... and a step of a thread the callback where it is.                    *)
LEMMA ThreadsTyped ==
  ASSUME StatesTypeOK, UNCHANGED <<callback, handler, usb_transfer>>,
         transfer' \in [Transfers -> TransferStates],
         app' \in AppStates, consumer' \in ConsumerStates, pump' \in PumpStates
  PROVE  StatesTypeOK'
<1> HIDE DEF TransferStates, CallbackStates, Threads, AppStates, ConsumerStates,
             PumpStates
<1>1. /\ callback \in CallbackStates
      /\ handler \in Threads
      /\ usb_transfer \in Transfers
  BY Zenon DEF StatesTypeOK
<1>2. /\ callback' \in CallbackStates
      /\ handler' \in Threads
      /\ usb_transfer' \in Transfers
  BY <1>1
<1> QED
  BY <1>2, Zenon DEF StatesTypeOK

(* A device that was just opened satisfies the invariant.                  *)
LEMMA StreamingInit ==
  ASSUME Init
  PROVE  SInv
<1>0. FlagsTypeOK /\ CountTypeOK
  <2>1. FlagsTypeOK
    BY Zenon DEF Init, FlagsTypeOK
  <2>2. CountTypeOK
    BY DEF Init, CountTypeOK
  <2> QED
    BY <2>1, <2>2
<1>1. StatesTypeOK
  BY ZeroTransfer DEF Init, StatesTypeOK
<1>2. StopQuiesces /\ FlagStages /\ ThreadStages /\ CallbackStages
  BY DEF Init, QInit, StopQuiesces, FlagStages, ThreadStages, CallbackStages
<1>3. ClearedStages /\ GapStages /\ StragglerStages
  BY DEF Init, QInit, ClearedStages, GapStages, StragglerStages
<1> QED
  BY <1>0, <1>1, <1>2, <1>3 DEF SInv
-----------------------------------------------------------------------------
(* The transfer callback reads streaming ...                               *)
LEMMA CallbackEnterInv ==
  ASSUME SInv, NEW thread \in Threads, NEW t \in Transfers,
         CallbackEnter(thread, t)
  PROVE  SInv'
<1> USE DEF SInv, CallbackEnter, CallbackBegins, Discard
<1>0. FlagsTypeOK' /\ CountTypeOK'
  <2>1. FlagsTypeOK'
    BY Zenon DEF FlagsTypeOK
  <2>2. CountTypeOK'
    BY DEF CountTypeOK
  <2> QED
    BY <2>1, <2>2
<1>1. StatesTypeOK'
  <2>1. StatesTypeOK /\ UNCHANGED <<app, consumer, pump>>
    OBVIOUS
  <2>2. [transfer EXCEPT ![t] = "idle"] \in [Transfers -> TransferStates]
    BY <2>1, TransferSet
  <2>3. /\ transfer' = transfer \/ transfer' = [transfer EXCEPT ![t] = "idle"]
        /\ callback' \in CallbackStates /\ handler' \in Threads
        /\ usb_transfer' = 0 \/ usb_transfer' = t
    OBVIOUS
  <2> HIDE DEF SInv, CallbackEnter
  <2>4. transfer' \in [Transfers -> TransferStates]
    BY <2>1, <2>2, <2>3 DEF StatesTypeOK
  <2> QED
    BY <2>1, <2>3, <2>4, ZeroTransfer, CallingTyped
<1>2. StopQuiesces' /\ FlagStages' /\ ThreadStages'
  <2>1. StopQuiesces'
    BY DEF StopQuiesces
  <2>2. FlagStages'
    BY DEF FlagStages
  <2>3. ThreadStages'
    BY DEF ThreadStages
  <2> QED
    BY <2>1, <2>2, <2>3
<1>3. CallbackStages'
  BY DEF CallbackStages, StopQuiesces, FlagStages, ThreadStages, Handles,
         StatesTypeOK
<1>4. ClearedStages'
  BY DEF ClearedStages
<1>5. GapStages'
  BY DEF GapStages
<1>6. StragglerStages'
  BY DEF StragglerStages, StopQuiesces, FlagStages, StatesTypeOK
<1> QED
  BY <1>0, <1>1, <1>2, <1>3, <1>4, <1>5, <1>6

(* ... reads stop_requested and the status ...                             *)
LEMMA CallbackTestInv ==
  ASSUME SInv, CallbackTest
  PROVE  SInv'
<1> USE DEF SInv, CallbackTest, Discard
<1>0. FlagsTypeOK' /\ CountTypeOK'
  <2>1. FlagsTypeOK'
    BY Zenon DEF FlagsTypeOK
  <2>2. CountTypeOK'
    BY DEF CountTypeOK
  <2> QED
    BY <2>1, <2>2
<1>1. StatesTypeOK'
  <2>1. StatesTypeOK /\ UNCHANGED <<app, consumer, pump>>
    OBVIOUS
  <2>2. usb_transfer \in Transfers /\ transfer \in [Transfers -> TransferStates]
    BY <2>1, Zenon DEF StatesTypeOK
  <2>3. [transfer EXCEPT ![usb_transfer] = "idle"] \in [Transfers -> TransferStates]
    BY <2>1, <2>2, TransferSet
  <2>4. \/ /\ transfer' = [transfer EXCEPT ![usb_transfer] = "idle"]
           /\ callback' = "none" /\ handler' = "xfer" /\ usb_transfer' = 0
        \/ callback' = "queue" /\ UNCHANGED <<transfer, handler, usb_transfer>>
    OBVIOUS
  <2> HIDE DEF SInv, CallbackTest
  <2>5. handler \in Threads
    BY <2>1, Zenon DEF StatesTypeOK
  <2>6. transfer' \in [Transfers -> TransferStates]
    BY <2>2, <2>3, <2>4
  <2>7. callback' \in CallbackStates /\ handler' \in Threads
    BY <2>4, <2>5
  <2>8. usb_transfer' \in Transfers
    BY <2>2, <2>4, ZeroTransfer
  <2> QED
    BY <2>1, <2>6, <2>7, <2>8, CallingTyped
<1>2. StopQuiesces' /\ FlagStages' /\ ThreadStages'
  <2>1. StopQuiesces'
    BY DEF StopQuiesces
  <2>2. FlagStages'
    <3>1. UNCHANGED <<app, stop_requested>> /\ (streaming' => streaming)
      OBVIOUS
    <3> HIDE DEF SInv, CallbackTest
    <3> QED
      BY <3>1 DEF SInv, FlagStages
  <2>3. ThreadStages'
    BY DEF ThreadStages
  <2> QED
    BY <2>1, <2>2, <2>3
<1>3. CallbackStages' /\ ClearedStages'
  BY DEF CallbackStages, ClearedStages, ThreadStages, StatesTypeOK
<1>4. GapStages'
  BY DEF GapStages, FlagStages, StatesTypeOK
<1>5. StragglerStages'
  BY DEF StragglerStages, StatesTypeOK
<1> QED
  BY <1>0, <1>1, <1>2, <1>3, <1>4, <1>5

(* ... queues the block or counts it dropped ...                           *)
LEMMA CallbackQueueInv ==
  ASSUME SInv, CallbackQueue
  PROVE  SInv'
<1> USE DEF SInv, CallbackQueue, Enqueue, Fill, DropBlock, Signal
<1>0. FlagsTypeOK' /\ CountTypeOK'
  <2>1. FlagsTypeOK'
    BY Zenon DEF FlagsTypeOK
  <2>2. CountTypeOK'
    BY DEF CountTypeOK
  <2> QED
    BY <2>1, <2>2
<1>1. StatesTypeOK'
  <2>1. /\ transfer' \in [Transfers -> TransferStates] /\ handler' \in Threads
        /\ usb_transfer' \in Transfers /\ app' \in AppStates /\ pump' \in PumpStates
    BY Zenon DEF StatesTypeOK
  <2>2. callback' \in CallbackStates
    OBVIOUS
  <2>3. consumer' \in ConsumerStates
    BY DEF StatesTypeOK
  <2> QED
    BY <2>1, <2>2, <2>3 DEF StatesTypeOK
<1>2. StopQuiesces' /\ FlagStages' /\ ThreadStages'
  <2>1. StopQuiesces'
    BY DEF StopQuiesces
  <2>2. FlagStages'
    BY DEF FlagStages
  <2>3. ThreadStages'
    <3>1. /\ UNCHANGED <<open, input, pump, app, armed>>
          /\ consumer' = consumer \/ (consumer = "waiting" /\ consumer' = "woken")
      OBVIOUS
    <3> HIDE DEF SInv, CallbackQueue
    <3> QED
      BY <3>1 DEF SInv, ThreadStages
  <2> QED
    BY <2>1, <2>2, <2>3
<1>3. CallbackStages'
  BY DEF CallbackStages, StatesTypeOK
<1>4. ClearedStages'
  BY DEF ClearedStages, CallbackStages, StopQuiesces, ThreadStages
<1>5. GapStages'
  BY DEF GapStages, StatesTypeOK
<1>6. StragglerStages'
  BY DEF StragglerStages, StatesTypeOK
<1> QED
  BY <1>0, <1>1, <1>2, <1>3, <1>4, <1>5, <1>6

(* ... and submits the transfer again.                                     *)
LEMMA CallbackSubmitInv ==
  ASSUME SInv, CallbackSubmit
  PROVE  SInv'
<1> USE DEF SInv, CallbackSubmit
<1>0. FlagsTypeOK' /\ CountTypeOK'
  <2>1. FlagsTypeOK'
    BY Zenon DEF FlagsTypeOK
  <2>2. CountTypeOK'
    BY DEF CountTypeOK
  <2> QED
    BY <2>1, <2>2
<1>1. StatesTypeOK'
  <2>1. StatesTypeOK /\ UNCHANGED <<app, consumer, pump>>
    OBVIOUS
  <2>2. usb_transfer \in Transfers
    BY <2>1, Zenon DEF StatesTypeOK
  <2>3. \A r \in {"idle", "flying"} :
          [transfer EXCEPT ![usb_transfer] = r] \in [Transfers -> TransferStates]
    BY <2>1, <2>2, TransferSet
  <2>4. /\ \E r \in {"idle", "flying"} :
             transfer' = [transfer EXCEPT ![usb_transfer] = r]
        /\ callback' = "none" /\ handler' = "xfer" /\ usb_transfer' = 0
    OBVIOUS
  <2> HIDE DEF SInv, CallbackSubmit
  <2>5. transfer' \in [Transfers -> TransferStates]
    BY <2>3, <2>4
  <2> QED
    BY <2>1, <2>4, <2>5, ZeroTransfer, CallingTyped
<1>2. StopQuiesces' /\ FlagStages' /\ ThreadStages'
  <2>1. StopQuiesces'
    BY DEF StopQuiesces
  <2>2. FlagStages'
    <3>1. UNCHANGED <<app, stop_requested>> /\ (streaming' => streaming)
      OBVIOUS
    <3> HIDE DEF SInv, CallbackSubmit
    <3> QED
      BY <3>1 DEF SInv, FlagStages
  <2>3. ThreadStages'
    BY DEF ThreadStages
  <2> QED
    BY <2>1, <2>2, <2>3
<1>3. CallbackStages' /\ ClearedStages'
  BY DEF CallbackStages, ClearedStages
<1>4. GapStages'
  BY DEF GapStages
<1>5. StragglerStages'
  BY DEF StragglerStages, StatesTypeOK
<1> QED
  BY <1>0, <1>1, <1>2, <1>3, <1>4, <1>5
-----------------------------------------------------------------------------
(* The threads and the device.  A step of the consumer moves it from one   *)
(* state of its life to another and may end the session, no more.          *)
LEMMA ConsumerMoves ==
  ASSUME SInv,
         UNCHANGED <<open, dropped_buffers, stop_requested, usb, app, pump, ghosts>>,
         streaming' => streaming, streaming' \in BOOLEAN,
         consumer # "none", consumer' \in ConsumerStates \ {"none"},
         input' # NoBuffer <=> consumer' \in {"busy", "returned"}
  PROVE  SInv'
<1> USE DEF SInv
<1>1. FlagsTypeOK' /\ CountTypeOK'
  BY DEF FlagsTypeOK, CountTypeOK
<1>2. StatesTypeOK'
  <2> HIDE DEF SInv
  <2>1. StatesTypeOK /\ consumer' \in ConsumerStates
    BY DEF SInv
  <2>2. /\ transfer' \in [Transfers -> TransferStates]
        /\ app' \in AppStates
        /\ pump' \in PumpStates
    <3> HIDE DEF TransferStates, AppStates, PumpStates
    <3> QED
      BY <2>1 DEF StatesTypeOK
  <2> QED
    BY <2>1, <2>2, ThreadsTyped
<1>3. StopQuiesces' /\ FlagStages'
  BY DEF StopQuiesces, FlagStages
<1>4. ThreadStages'
  BY DEF ThreadStages
<1>5. CallbackStages' /\ ClearedStages'
  BY DEF CallbackStages, ClearedStages
<1>6. GapStages'
  BY DEF GapStages
<1>7. StragglerStages'
  BY DEF StragglerStages
<1> QED
  BY <1>1, <1>2, <1>3, <1>4, <1>5, <1>6, <1>7

(* So every step of the consumer keeps the invariant.                      *)
LEMMA ConsumerStepInv ==
  ASSUME QTypeOK, SInv, ConsumerStep \/ SpuriousWakeup
  PROVE  SInv'
<1> USE DEF ConsumerGoes, ConsumerReads
<1>1. streaming \in BOOLEAN /\ FALSE \in BOOLEAN
  BY Zenon DEF SInv, FlagsTypeOK
<1>2. input # NoBuffer <=> consumer \in {"busy", "returned"}
  BY DEF SInv, ThreadStages
<1>3. CASE ConsumerTest
  BY <1>1, <1>2, <1>3, ConsumerMoves DEF ConsumerTest, ConsumerTestThen
<1>4. CASE ConsumerWait
  BY <1>1, <1>2, <1>4, ConsumerMoves DEF ConsumerWait
<1>5. CASE ConsumerTake
  <2>1. input' # NoBuffer
    BY <1>5, NoBufferAssumption DEF ConsumerTake, Take, QTypeOK
  <2> QED
    BY <1>1, <1>5, <2>1, ConsumerMoves DEF ConsumerTake, Take
<1>6. CASE ConsumerCallback
  <2>1. streaming' => streaming
    BY <1>6 DEF ConsumerCallback
  <2>2. streaming' \in BOOLEAN
    BY <1>1, <1>6, Zenon DEF ConsumerCallback
  <2> QED
    BY <1>2, <1>6, <2>1, <2>2, ConsumerMoves DEF ConsumerCallback
<1>7. CASE ConsumerRelease
  BY <1>1, <1>7, ConsumerMoves DEF ConsumerRelease, Release
<1>8. CASE ConsumerLeave
  <2>1. (streaming' => streaming) /\ streaming' \in BOOLEAN
    BY <1>8, Zenon DEF ConsumerLeave
  <2> QED
    BY <1>2, <1>8, <2>1, ConsumerMoves DEF ConsumerLeave
<1>9. CASE SpuriousWakeup
  BY <1>1, <1>2, <1>9, ConsumerMoves DEF SpuriousWakeup
<1> QED
  BY <1>3, <1>4, <1>5, <1>6, <1>7, <1>8, <1>9 DEF ConsumerStep

(* The transfer thread only moves, and only ever ends the session.         *)
LEMMA PumpStepInv ==
  ASSUME SInv, PumpStep
  PROVE  SInv'
<1>1. /\ UNCHANGED <<qvars, stop_requested, usb, app, consumer, ghosts>>
      /\ pump # "none" /\ pump' \in PumpStates \ {"none"}
      /\ callback = "none" \/ handler # "xfer" \/ pump # "handling"
  BY DEF PumpStep, PumpTest, PumpReturn, PumpLeave
<1>2. (streaming' => streaming)
  BY DEF PumpStep, PumpTest, PumpReturn, PumpLeave
<1>3. streaming' \in BOOLEAN
  BY Zenon DEF SInv, FlagsTypeOK, PumpStep, PumpTest, PumpReturn, PumpLeave
<1> USE DEF SInv
<1>4. FlagsTypeOK' /\ CountTypeOK'
  BY <1>1, <1>3 DEF FlagsTypeOK, CountTypeOK
<1>5. StatesTypeOK'
  <2> HIDE DEF SInv
  <2>1. StatesTypeOK /\ pump' \in PumpStates
    BY <1>1 DEF SInv
  <2>2. /\ transfer' \in [Transfers -> TransferStates]
        /\ app' \in AppStates
        /\ consumer' \in ConsumerStates
    <3> HIDE DEF TransferStates, AppStates, ConsumerStates
    <3> QED
      BY <1>1, <2>1 DEF StatesTypeOK
  <2> QED
    BY <1>1, <2>1, <2>2, ThreadsTyped
<1>6. StopQuiesces' /\ FlagStages'
  BY <1>1, <1>2 DEF StopQuiesces, FlagStages
<1>7. ThreadStages'
  BY <1>1 DEF ThreadStages
<1>8. CallbackStages' /\ ClearedStages'
  BY <1>1 DEF CallbackStages, ClearedStages
<1>9. GapStages'
  BY <1>1, <1>2 DEF GapStages
<1>10. StragglerStages'
  BY <1>1 DEF StragglerStages
<1> QED
  BY <1>4, <1>5, <1>6, <1>7, <1>8, <1>9, <1>10

(* The device and libusb submit nothing.                                   *)
LEMMA DeviceStepInv ==
  ASSUME SInv, DeviceStep
  PROVE  SInv'
<1>1. /\ UNCHANGED <<qvars, flags, transfer_live, calling, threads, ghosts>>
      /\ \A t \in Transfers : transfer'[t] = "flying" => transfer[t] = "flying"
  BY DEF DeviceStep, DeviceSends, DeviceFails, SInv, StatesTypeOK
<1>7. transfer' \in [Transfers -> TransferStates]
  BY DEF DeviceStep, DeviceSends, DeviceFails, SInv, StatesTypeOK
<1> USE DEF SInv
<1>2. FlagsTypeOK' /\ CountTypeOK'
  BY <1>1 DEF FlagsTypeOK, CountTypeOK
<1>3. StatesTypeOK'
  <2>1. /\ callback' \in CallbackStates
        /\ handler' \in Threads
        /\ usb_transfer' \in Transfers
    BY <1>1 DEF StatesTypeOK
  <2>2. /\ app' \in AppStates
        /\ consumer' \in ConsumerStates
        /\ pump' \in PumpStates
    BY <1>1 DEF StatesTypeOK
  <2> HIDE DEF TransferStates, CallbackStates, Threads, AppStates, ConsumerStates,
               PumpStates
  <2> QED
    BY <1>7, <2>1, <2>2 DEF StatesTypeOK
<1>4. StopQuiesces' /\ FlagStages' /\ ThreadStages'
  BY <1>1 DEF StopQuiesces, FlagStages, ThreadStages
<1>5. CallbackStages' /\ ClearedStages' /\ GapStages'
  BY <1>1 DEF CallbackStages, ClearedStages, GapStages
<1>6. StragglerStages'
  BY <1>1 DEF StragglerStages
<1> QED
  BY <1>2, <1>3, <1>4, <1>5, <1>6
-----------------------------------------------------------------------------
(* The application.  No callback runs inside it when it takes a step; most *)
(* steps leave the flags and the transfers as they are, and submit, cancel *)
(* or clear nothing.                                                       *)
LEMMA AppMoves ==
  ASSUME SInv,
         UNCHANGED <<open, input, dropped_buffers, flags, usb, ghosts>>,
         callback # "none" => handler = "xfer" /\ pump' = pump,
         app' \in AppStates, consumer' \in ConsumerStates, pump' \in PumpStates,
         FlagStages', ThreadStages', ClearedStages',
         app \in Stopping <=> app' \in Stopping,
         app \in Killing <=> app' \in Killing,
         app' \in AfterCancel => app \in AfterCancel,
         ~armed /\ app' \notin Stopping => consumer' = consumer /\ pump' = pump
  PROVE  SInv'
<1> USE DEF SInv
<1>1. FlagsTypeOK' /\ CountTypeOK'
  BY DEF FlagsTypeOK, CountTypeOK
<1>2. StatesTypeOK'
  <2> HIDE DEF SInv
  <2>1. StatesTypeOK
    BY DEF SInv
  <2>2. transfer' \in [Transfers -> TransferStates]
    BY <2>1 DEF StatesTypeOK
  <2> QED
    BY <2>1, <2>2, ThreadsTyped
<1>3. StopQuiesces'
  BY DEF StopQuiesces
<1>4. CallbackStages'
  BY DEF CallbackStages, StatesTypeOK
<1>5. GapStages'
  BY DEF GapStages
<1>6. StragglerStages'
  BY DEF StragglerStages
<1> QED
  BY <1>1, <1>2, <1>3, <1>4, <1>5, <1>6

(* The steps of the application that only move it on.                      *)
LEMMA AppMovesInv ==
  ASSUME SInv,
         Control \/ StartReceiverMode \/ CreateThread \/ StopReceiverMode
           \/ CancelEvents \/ KillSignal \/ JoinTransfer \/ JoinConsumer
  PROVE  SInv'
<1> USE DEF AppGoes
<1>1. StatesTypeOK /\ FlagStages /\ ThreadStages /\ CallbackStages /\ ClearedStages
  BY DEF SInv
<1>2. callback # "none" => handler \in {"app", "xfer"}
  BY <1>1 DEF StatesTypeOK
<1>3. CASE Control
  <2>1. FlagStages' /\ ThreadStages' /\ ClearedStages'
    BY <1>1, <1>3 DEF Control, FlagStages, ThreadStages, ClearedStages
  <2> QED
    BY <1>1, <1>2, <1>3, <2>1, AppMoves DEF Control, StatesTypeOK
<1>4. CASE StartReceiverMode
  <2>1. FlagStages' /\ ThreadStages' /\ ClearedStages'
    BY <1>1, <1>4 DEF StartReceiverMode, FlagStages, ThreadStages, ClearedStages
  <2> QED
    <3>1. /\ app \in {"start off", "start on"} /\ app' \in {"start on", "create", "idle"}
          /\ UNCHANGED <<qvars, flags, usb, consumer, pump, ghosts>>
          /\ callback # "none" => handler # "app"
      BY <1>4 DEF StartReceiverMode
    <3>2. consumer' \in ConsumerStates /\ pump' \in PumpStates
      BY <1>1, <3>1 DEF StatesTypeOK
    <3> QED
      BY <1>2, <2>1, <3>1, <3>2, AppMoves
<1>5. CASE CreateThread
  <2>1. FlagStages' /\ ThreadStages' /\ ClearedStages'
    BY <1>1, <1>5 DEF CreateThread, FlagStages, ThreadStages, ClearedStages
  <2> QED
    BY <1>1, <1>2, <1>5, <2>1, AppMoves
    DEF CreateThread, StatesTypeOK, ThreadStages, CallbackStages
<1>6. CASE StopReceiverMode
  <2>1. FlagStages' /\ ThreadStages' /\ ClearedStages'
    BY <1>1, <1>6 DEF StopReceiverMode, FlagStages, ThreadStages, ClearedStages
  <2> QED
    BY <1>1, <1>2, <1>6, <2>1, AppMoves DEF StopReceiverMode, StatesTypeOK
<1>7. CASE CancelEvents
  <2>1. FlagStages' /\ ThreadStages' /\ ClearedStages'
    BY <1>1, <1>7 DEF CancelEvents, FlagStages, ThreadStages, ClearedStages
  <2> QED
    BY <1>1, <1>2, <1>7, <2>1, AppMoves DEF CancelEvents, StatesTypeOK
<1>8. CASE KillSignal
  <2>1. FlagStages' /\ ThreadStages' /\ ClearedStages'
    BY <1>1, <1>8 DEF KillSignal, Signal, FlagStages, ThreadStages, ClearedStages
  <2> QED
    BY <1>1, <1>2, <1>8, <2>1, AppMoves DEF KillSignal, Signal, StatesTypeOK
<1>9. CASE JoinTransfer
  <2>1. FlagStages' /\ ThreadStages' /\ ClearedStages'
    BY <1>1, <1>9 DEF JoinTransfer, FlagStages, ThreadStages, ClearedStages
  <2> QED
    BY <1>1, <1>2, <1>9, <2>1, AppMoves
    DEF JoinTransfer, StatesTypeOK, CallbackStages
<1>10. CASE JoinConsumer
  <2>1. FlagStages' /\ ThreadStages' /\ ClearedStages'
    BY <1>1, <1>10 DEF JoinConsumer, FlagStages, ThreadStages, ClearedStages
  <2> QED
    BY <1>1, <1>2, <1>10, <2>1, AppMoves DEF JoinConsumer, StatesTypeOK
<1> QED
  BY <1>3, <1>4, <1>5, <1>6, <1>7, <1>8, <1>9, <1>10

(* airspyhf_start begins a session that is not open yet.                   *)
LEMMA StartInv ==
  ASSUME SInv, Start
  PROVE  SInv'
<1> USE DEF SInv, AppGoes, Start, ClearDrops
<1>1. FlagsTypeOK' /\ CountTypeOK'
  <2>1. FlagsTypeOK'
    BY Zenon DEF FlagsTypeOK
  <2>2. CountTypeOK'
    BY DEF CountTypeOK
  <2> QED
    BY <2>1, <2>2
<1>2. StatesTypeOK'
  BY DEF StatesTypeOK
<1>3. StopQuiesces' /\ FlagStages'
  BY DEF StopQuiesces, FlagStages
<1>4. ThreadStages'
  BY DEF ThreadStages, StopQuiesces
<1>5. CallbackStages'
  BY DEF CallbackStages, StopQuiesces, StatesTypeOK
<1>6. ClearedStages'
  BY DEF ClearedStages
<1>7. GapStages'
  BY DEF GapStages
<1>8. StragglerStages'
  BY DEF StragglerStages
<1> QED
  BY <1>1, <1>2, <1>3, <1>4, <1>5, <1>6, <1>7, <1>8

(* create_io_threads sets streaming; nothing of the last session runs.     *)
LEMMA CreateIoThreadsInv ==
  ASSUME SInv, CreateIoThreads
  PROVE  SInv'
<1> USE DEF SInv, AppGoes, CreateIoThreads
<1>1. FlagsTypeOK' /\ CountTypeOK'
  <2>1. FlagsTypeOK'
    BY Zenon DEF FlagsTypeOK
  <2>2. CountTypeOK'
    BY DEF CountTypeOK
  <2> QED
    BY <2>1, <2>2
<1>2. StatesTypeOK'
  BY DEF StatesTypeOK
<1>3. StopQuiesces' /\ FlagStages'
  BY DEF StopQuiesces, FlagStages
<1>4. ThreadStages'
  BY DEF ThreadStages, StopQuiesces
<1>5. CallbackStages'
  BY DEF CallbackStages, StopQuiesces, StatesTypeOK, ThreadStages
<1>6. ClearedStages'
  BY DEF ClearedStages
<1>7. GapStages'
  BY DEF GapStages, ClearedStages
<1>8. StragglerStages'
  BY DEF StragglerStages
<1> QED
  BY <1>1, <1>2, <1>3, <1>4, <1>5, <1>6, <1>7, <1>8

(* The transfers are submitted before any thread runs.                     *)
LEMMA PrepareTransfersInv ==
  ASSUME SInv, PrepareTransfers
  PROVE  SInv'
<1> USE DEF SInv, AppGoes, PrepareTransfers
<1>1. FlagsTypeOK' /\ CountTypeOK'
  <2>1. FlagsTypeOK'
    BY Zenon DEF FlagsTypeOK
  <2>2. CountTypeOK'
    BY DEF CountTypeOK, Transfers
  <2> QED
    BY <2>1, <2>2
<1>2. StatesTypeOK'
  <2>1. StatesTypeOK
    OBVIOUS
  <2>2. transfer' \in [Transfers -> TransferStates]
    BY DEF StatesTypeOK
  <2>3. app' \in AppStates /\ UNCHANGED <<callback, handler, usb_transfer, consumer, pump>>
    OBVIOUS
  <2>4. consumer' \in ConsumerStates /\ pump' \in PumpStates
    BY <2>1, <2>3 DEF StatesTypeOK
  <2> HIDE DEF SInv, PrepareTransfers
  <2> QED
    BY <2>1, <2>2, <2>3, <2>4, ThreadsTyped
<1>3. StopQuiesces' /\ FlagStages'
  BY DEF StopQuiesces, FlagStages
<1>4. ThreadStages'
  BY DEF ThreadStages, StopQuiesces
<1>5. CallbackStages'
  BY DEF CallbackStages, StopQuiesces, StatesTypeOK, ThreadStages
<1>6. ClearedStages'
  BY DEF ClearedStages
<1>7. GapStages'
  BY DEF GapStages
<1>8. StragglerStages'
  BY DEF StragglerStages, ThreadStages
<1> QED
  BY <1>1, <1>2, <1>3, <1>4, <1>5, <1>6, <1>7, <1>8

(* The indices are reset before any thread runs.                           *)
LEMMA CreateResetInv ==
  ASSUME SInv, CreateReset
  PROVE  SInv'
<1> USE DEF SInv, AppGoes, CreateReset, ResetIndices
<1>1. FlagsTypeOK' /\ CountTypeOK'
  <2>1. FlagsTypeOK'
    BY Zenon DEF FlagsTypeOK
  <2>2. CountTypeOK'
    BY DEF CountTypeOK
  <2> QED
    BY <2>1, <2>2
<1>2. StatesTypeOK'
  BY DEF StatesTypeOK
<1>3. StopQuiesces' /\ FlagStages'
  BY DEF StopQuiesces, FlagStages
<1>4. ThreadStages'
  BY DEF ThreadStages, StopQuiesces
<1>5. CallbackStages'
  BY DEF CallbackStages, StopQuiesces, StatesTypeOK
<1>6. ClearedStages'
  BY DEF ClearedStages
<1>7. GapStages'
  BY DEF GapStages
<1>8. StragglerStages'
  BY DEF StragglerStages, ThreadStages
<1> QED
  BY <1>1, <1>2, <1>3, <1>4, <1>5, <1>6, <1>7, <1>8

(* airspyhf_stop raises stop_requested: from here no callback queues ...   *)
LEMMA StopInv ==
  ASSUME SInv, Stop
  PROVE  SInv'
<1> USE DEF SInv, AppGoes, Stop
<1>1. FlagsTypeOK' /\ CountTypeOK'
  <2>1. FlagsTypeOK'
    BY Zenon DEF FlagsTypeOK
  <2>2. CountTypeOK'
    BY DEF CountTypeOK
  <2> QED
    BY <2>1, <2>2
<1>2. StatesTypeOK'
  BY DEF StatesTypeOK
<1>3. StopQuiesces' /\ FlagStages'
  BY DEF StopQuiesces, FlagStages
<1>4. ThreadStages'
  BY DEF ThreadStages, StopQuiesces
<1>5. CallbackStages'
  BY DEF CallbackStages, StopQuiesces, StatesTypeOK
<1>6. ClearedStages'
  BY DEF ClearedStages
<1>7. GapStages'
  BY DEF GapStages
<1>8. StragglerStages'
  BY DEF StragglerStages
<1> QED
  BY <1>1, <1>2, <1>3, <1>4, <1>5, <1>6, <1>7, <1>8

(* ... until kill_io_threads clears it again ...                           *)
LEMMA KillStopRequestedInv ==
  ASSUME SInv, KillStopRequested
  PROVE  SInv'
<1> USE DEF SInv, AppGoes, KillStopRequested
<1>1. FlagsTypeOK' /\ CountTypeOK'
  <2>1. FlagsTypeOK'
    BY Zenon DEF FlagsTypeOK
  <2>2. CountTypeOK'
    BY DEF CountTypeOK
  <2> QED
    BY <2>1, <2>2
<1>2. StatesTypeOK'
  BY DEF StatesTypeOK
<1>3. StopQuiesces' /\ FlagStages'
  BY DEF StopQuiesces, FlagStages
<1>4. ThreadStages'
  BY DEF ThreadStages, StopQuiesces
<1>5. CallbackStages'
  BY DEF CallbackStages, StopQuiesces, StatesTypeOK
<1>6. ClearedStages'
  BY DEF ClearedStages
<1>7. GapStages'
  BY DEF GapStages
<1>8. StragglerStages'
  BY DEF StragglerStages
<1> QED
  BY <1>1, <1>2, <1>3, <1>4, <1>5, <1>6, <1>7, <1>8

(* ... and clears streaming for good.                                      *)
LEMMA KillStreamingInv ==
  ASSUME SInv, KillStreaming
  PROVE  SInv'
<1> USE DEF SInv, AppGoes, KillStreaming
<1>1. FlagsTypeOK' /\ CountTypeOK'
  <2>1. FlagsTypeOK'
    BY Zenon DEF FlagsTypeOK
  <2>2. CountTypeOK'
    BY DEF CountTypeOK
  <2> QED
    BY <2>1, <2>2
<1>2. StatesTypeOK'
  BY DEF StatesTypeOK
<1>3. StopQuiesces' /\ FlagStages'
  BY DEF StopQuiesces, FlagStages
<1>4. ThreadStages'
  BY DEF ThreadStages, StopQuiesces
<1>5. CallbackStages'
  BY DEF CallbackStages, StopQuiesces, StatesTypeOK
<1>6. ClearedStages'
  BY DEF ClearedStages
<1>7. GapStages'
  BY DEF GapStages
<1>8. StragglerStages'
  BY DEF StragglerStages
<1> QED
  BY <1>1, <1>2, <1>3, <1>4, <1>5, <1>6, <1>7, <1>8

(* Every transfer in flight is cancelled.                                  *)
LEMMA CancelTransfersInv ==
  ASSUME SInv, CancelTransfers
  PROVE  SInv'
<1> USE DEF SInv, AppGoes, CancelTransfers
<1>1. FlagsTypeOK' /\ CountTypeOK'
  <2>1. FlagsTypeOK'
    BY Zenon DEF FlagsTypeOK
  <2>2. CountTypeOK'
    BY DEF CountTypeOK
  <2> QED
    BY <2>1, <2>2
<1>2. StatesTypeOK'
  BY DEF StatesTypeOK
<1>3. StopQuiesces' /\ FlagStages'
  BY DEF StopQuiesces, FlagStages
<1>4. ThreadStages'
  BY DEF ThreadStages, StopQuiesces
<1>5. CallbackStages'
  BY DEF CallbackStages, StopQuiesces, StatesTypeOK
<1>6. ClearedStages'
  BY DEF ClearedStages
<1>7. GapStages'
  BY DEF GapStages
<1>8. StragglerStages'
  BY DEF StragglerStages, StatesTypeOK
<1> QED
  BY <1>1, <1>2, <1>3, <1>4, <1>5, <1>6, <1>7, <1>8

(* At the end of airspyhf_stop its threads and their callbacks are gone.   *)
LEMMA StopReturnInv ==
  ASSUME SInv, StopReturn
  PROVE  SInv'
<1> USE DEF SInv, AppGoes, StopReturn
<1>1. FlagsTypeOK' /\ CountTypeOK'
  <2>1. FlagsTypeOK'
    BY Zenon DEF FlagsTypeOK
  <2>2. CountTypeOK'
    BY DEF CountTypeOK
  <2> QED
    BY <2>1, <2>2
<1>2. StatesTypeOK'
  BY DEF StatesTypeOK
<1>3. StopQuiesces' /\ FlagStages'
  BY DEF StopQuiesces, FlagStages, ThreadStages, CallbackStages, StatesTypeOK
<1>4. ThreadStages'
  BY DEF ThreadStages, StopQuiesces
<1>5. CallbackStages'
  BY DEF CallbackStages, StopQuiesces, StatesTypeOK
<1>6. ClearedStages'
  BY DEF ClearedStages
<1>7. GapStages'
  BY DEF GapStages, FlagStages, CallbackStages, ThreadStages, StatesTypeOK
<1>8. StragglerStages'
  BY DEF StragglerStages
<1> QED
  BY <1>1, <1>2, <1>3, <1>4, <1>5, <1>6, <1>7, <1>8
-----------------------------------------------------------------------------
(* Both invariants together: the sample queue's, and the session's.        *)
LEMMA SessionStutter ==
  ASSUME SInv, UNCHANGED vars
  PROVE  SInv'
<1> USE DEF SInv, vars, svars
<1>0. FlagsTypeOK'
  BY Zenon DEF FlagsTypeOK
<1>1. CountTypeOK' /\ StatesTypeOK'
  <2>1. CountTypeOK'
    BY DEF CountTypeOK
  <2>2. UNCHANGED <<transfer, callback, handler, usb_transfer, app, consumer, pump>>
    OBVIOUS
  <2>3. StatesTypeOK
    OBVIOUS
  <2>4. StatesTypeOK'
    <3> HIDE DEF SInv, TransferStates, CallbackStates, Threads, AppStates,
                 ConsumerStates, PumpStates
    <3> QED
      BY <2>2, <2>3, Zenon DEF StatesTypeOK
  <2> QED
    BY <2>1, <2>4
<1>2. StopQuiesces' /\ FlagStages' /\ ThreadStages'
  BY DEF StopQuiesces, FlagStages, ThreadStages
<1>3. CallbackStages' /\ ClearedStages' /\ GapStages' /\ StragglerStages'
  BY DEF CallbackStages, ClearedStages, GapStages, StragglerStages
<1> QED
  BY <1>0, <1>1, <1>2, <1>3

(* Every step of the session keeps its invariant.                          *)
LEMMA SessionNext ==
  ASSUME QTypeOK, SInv, [Next]_vars
  PROVE  SInv'
  BY CallbackEnterInv, CallbackTestInv, CallbackQueueInv, CallbackSubmitInv,
     ConsumerStepInv, PumpStepInv, DeviceStepInv, AppMovesInv, StartInv,
     CreateIoThreadsInv, PrepareTransfersInv, CreateResetInv, StopInv,
     KillStopRequestedInv, KillStreamingInv, CancelTransfersInv, StopReturnInv,
     SessionStutter
  DEF Next, CallbackStep, AppCalls, AppStep

(* The steps that touch the sample queue.                                  *)
LEMMA SessionQueueSteps ==
  ASSUME [Next]_vars, ~UNCHANGED qvars
  PROVE  CallbackQueue \/ ConsumerTake \/ ConsumerRelease \/ Start \/ CreateReset
  BY DEF Next, vars, svars, CallbackStep, AppCalls, AppStep, ConsumerStep, PumpStep,
         DeviceStep, CallbackEnter, CallbackBegins, CallbackTest, CallbackSubmit,
         ConsumerTest, ConsumerTestThen, ConsumerWait, ConsumerCallback, ConsumerLeave,
         SpuriousWakeup, PumpTest, PumpReturn, PumpLeave, DeviceSends,
         DeviceFails, Control, StartReceiverMode, CreateIoThreads,
         PrepareTransfers, CreateThread, Stop, StopReceiverMode,
         KillStopRequested, KillStreaming, CancelTransfers, CancelEvents,
         KillSignal, JoinTransfer, JoinConsumer, StopReturn

(* Every step of the session is a step of the sample queue's protocol, or  *)
(* leaves the queue alone.                                                 *)
LEMMA SessionStep ==
  ASSUME SInv, [Next]_vars
  PROVE  [QNext]_qvars
<1> SUFFICES ASSUME ~UNCHANGED qvars
             PROVE  QNext
  OBVIOUS
<1>1. CASE CallbackQueue
  <2>1. usb_transfer \in Transfers
    BY DEF SInv, StatesTypeOK
  <2> QED
    BY <1>1, <2>1 DEF CallbackQueue, QNext
<1>2. CASE ConsumerTake
  BY <1>2 DEF ConsumerTake, ConsumerGoes, SInv, ThreadStages, QNext
<1>3. CASE ConsumerRelease
  BY <1>3 DEF ConsumerRelease, ConsumerGoes, SInv, ThreadStages, QNext
<1>4. CASE Start
  BY <1>4 DEF Start, AppGoes, SInv, StopQuiesces, QNext
<1>5. CASE CreateReset
  BY <1>5 DEF CreateReset, AppGoes, SInv, ThreadStages, ClearedStages, QNext
<1>6. CallbackQueue \/ ConsumerTake \/ ConsumerRelease \/ Start \/ CreateReset
  BY SessionQueueSteps
<1> QED
  BY <1>1, <1>2, <1>3, <1>4, <1>5, <1>6

(* The invariants hold in every reachable state.                           *)
THEOREM SessionInvariance == Spec => [](QInv /\ SInv)
<1>1. Init => QInv /\ SInv
  BY InitInv, StreamingInit DEF Init
<1>2. QInv /\ SInv /\ [Next]_vars => (QInv /\ SInv)'
  BY SessionNext, SessionStep, NextInv DEF QInv
<1> QED
  BY <1>1, <1>2, PTL DEF Spec

(* The threads and calls keep the protocol of the sample queue.            *)
THEOREM SessionKeepsProtocol == Spec => ImplementsSampleQueue
<1>1. Init => QInit
  BY DEF Init
<1>2. SInv /\ [Next]_vars => [QNext]_qvars
  BY SessionStep
<1> QED
  BY <1>1, <1>2, SessionInvariance, PTL DEF Spec, ImplementsSampleQueue, QSpec

(* Types.                                                                  *)
THEOREM SessionTypeCorrect == Spec => []TypeOK
<1>1. QInv /\ SInv => TypeOK
  BY DEF QInv, SInv, TypeOK
<1> QED
  BY <1>1, SessionInvariance, PTL

(* When airspyhf_stop has returned, nothing of the session is running.     *)
THEOREM QuiescentAfterStop == Spec => []StopQuiesces
<1>1. SInv => StopQuiesces
  BY DEF SInv
<1> QED
  BY <1>1, SessionInvariance, PTL

(* A set without two elements, and a stray callback only when it is empty. *)
LEMMA AtMostOne ==
  ASSUME NEW S, \A x, y \in S : x = y, NEW n \in {0, 1}, n # 0 => S = {}
  PROVE  Cardinality(S) + n <= 1
<1>1. CASE S = {}
  <2>1. Cardinality(S) = 0
    BY <1>1, FS_EmptySet
  <2> QED
    BY <2>1
<1>2. CASE S # {}
  <2>1. PICK x : S = {x}
    BY <1>2
  <2>2. Cardinality(S) = 1
    BY <2>1, FS_Singleton
  <2> QED
    BY <1>2, <2>2
<1> QED
  BY <1>1, <1>2

(* airspyhf_stop leaves at most one transfer in flight that no one cancels.*)
THEOREM OneStragglerAtMost == Spec => []OneStraggler
<1>1. SInv => OneStraggler
  <2> DEFINE Flying == {t \in Transfers : transfer[t] = "flying"}
             Strays == IF callback = "none" THEN 0 ELSE 1
  <2> SUFFICES ASSUME SInv,
                      app \in AfterCancel \/ (~armed /\ app \notin Stopping)
               PROVE  Cardinality(Flying) + Strays <= 1
    BY DEF OneStraggler
  <2>1. /\ \A t, u \in Flying : t = u
        /\ callback # "none" => Flying = {}
    BY DEF SInv, StragglerStages
  <2>2. Strays \in {0, 1} /\ (Strays # 0 => callback # "none")
    <3>1. CASE callback = "none"
      BY <3>1, Zenon
    <3>2. CASE callback # "none"
      BY <3>2, Zenon
    <3> QED
      BY <3>1, <3>2
  <2> HIDE DEF Flying, Strays
  <2> QED
    BY <2>1, <2>2, AtMostOne
<1> QED
  BY <1>1, SessionInvariance, PTL

(* The transfers that libusb has are finitely many.                        *)
LEMMA LiveFinite == IsFiniteSet(Live)
<1>1. TransferCount - 1 \in Int
  BY TransferCountAssumption
<1>2. IsFiniteSet(Transfers)
  BY <1>1, FS_Interval DEF Transfers
<1>3. Live \subseteq Transfers
  BY DEF Live
<1> QED
  BY <1>2, <1>3, FS_Subset

(* Which transfers are live does not change by a step that keeps the       *)
(* callback where it is and neither submits nor takes back a transfer.     *)
LEMMA LiveKept ==
  ASSUME LiveExact, UNCHANGED <<transfer_live, usb_transfer>>,
         callback' = "none" <=> callback = "none",
         \A t \in Transfers : transfer'[t] = "idle" <=> transfer[t] = "idle"
  PROVE  LiveExact'
<1>1. Live' = Live
  BY DEF Live
<1> QED
  BY <1>1 DEF LiveExact

(* The callback takes its transfer from libusb, and may submit it again.   *)
LEMMA CallbackEnterLive ==
  ASSUME SInv, LiveExact, NEW thread \in Threads, NEW t \in Transfers,
         CallbackEnter(thread, t)
  PROVE  LiveExact'
<1>1. /\ callback = "none" /\ transfer[t] \in {"done", "bad"}
      /\ transfer_live' = transfer_live - 1
      /\ \/ callback' = "stop?" /\ usb_transfer' = t /\ transfer' = transfer
         \/ callback' = "none" /\ transfer' = [transfer EXCEPT ![t] = "idle"]
  BY DEF CallbackEnter, CallbackBegins, Discard
<1>2. transfer \in [Transfers -> TransferStates]
  BY DEF SInv, StatesTypeOK
<1>3. t \in Live
  BY <1>1 DEF Live
<1>4. Live' = Live \ {t}
  BY <1>1, <1>2 DEF Live
<1>5. Cardinality(Live \ {t}) = Cardinality(Live) - 1
  BY <1>3, LiveFinite, FS_RemoveElement
<1> QED
  BY <1>1, <1>4, <1>5 DEF LiveExact

LEMMA CallbackTestLive ==
  ASSUME SInv, LiveExact, CallbackTest
  PROVE  LiveExact'
<1>1. /\ callback = "stop?" /\ UNCHANGED transfer_live
      /\ \/ callback' = "queue" /\ UNCHANGED <<transfer, usb_transfer>>
         \/ callback' = "none" /\ transfer' = [transfer EXCEPT ![usb_transfer] = "idle"]
  BY DEF CallbackTest, Discard
<1>2. transfer \in [Transfers -> TransferStates] /\ usb_transfer \in Transfers
  BY DEF SInv, StatesTypeOK
<1>3. Live' = Live
  BY <1>1, <1>2 DEF Live
<1> QED
  BY <1>1, <1>3 DEF LiveExact

LEMMA CallbackSubmitLive ==
  ASSUME SInv, LiveExact, CallbackSubmit
  PROVE  LiveExact'
<1>1. /\ callback = "submit" /\ callback' = "none"
      /\ \/ /\ transfer' = [transfer EXCEPT ![usb_transfer] = "flying"]
            /\ transfer_live' = transfer_live + 1
         \/ /\ transfer' = [transfer EXCEPT ![usb_transfer] = "idle"]
            /\ transfer_live' = transfer_live
  BY DEF CallbackSubmit
<1>2. transfer \in [Transfers -> TransferStates] /\ usb_transfer \in Transfers
  BY DEF SInv, StatesTypeOK
<1>3. CASE transfer' = [transfer EXCEPT ![usb_transfer] = "flying"]
  <2>1. Live' = Live \union {usb_transfer} /\ usb_transfer \notin Live
    BY <1>1, <1>2, <1>3 DEF Live
  <2>2. Cardinality(Live') = Cardinality(Live) + 1
    BY <2>1, LiveFinite, FS_AddElement
  <2>3. transfer'[usb_transfer] = "flying"
    BY <1>2, <1>3
  <2>4. transfer_live' = transfer_live + 1
    BY <1>1, <1>2, <2>3
  <2> QED
    BY <2>2, <2>4 DEF LiveExact
<1>4. CASE transfer' = [transfer EXCEPT ![usb_transfer] = "idle"]
  <2>1. Live' = Live
    BY <1>1, <1>2, <1>4 DEF Live
  <2>2. transfer'[usb_transfer] = "idle"
    BY <1>2, <1>4
  <2>3. transfer_live' = transfer_live
    BY <1>1, <1>2, <2>2
  <2> QED
    BY <2>1, <2>3 DEF LiveExact
<1> QED
  BY <1>1, <1>3, <1>4

(* prepare_transfers counts those it submits, none of which was live.      *)
LEMMA PrepareTransfersLive ==
  ASSUME SInv, LiveExact, PrepareTransfers
  PROVE  LiveExact'
<1>1. PICK n \in 0 .. TransferCount :
        /\ \A t \in Transfers : t < n => transfer[t] = "idle"
        /\ transfer' = [t \in Transfers |-> IF t < n THEN "flying" ELSE transfer[t]]
        /\ transfer_live' = transfer_live + n
        /\ app = "prepare" /\ UNCHANGED calling
  BY DEF PrepareTransfers, AppGoes
<1>2. callback = "none"
  BY <1>1 DEF SInv, CallbackStages, ThreadStages
<1>3. n - 1 \in Int /\ n \in Nat
  BY TransferCountAssumption
<1>4. /\ IsFiniteSet(0 .. n - 1)
      /\ Cardinality(0 .. n - 1) = n
  BY <1>3, FS_Interval
<1>5. \A t \in Transfers : t \in 0 .. n - 1 <=> t < n
  BY <1>3 DEF Transfers
<1>6. 0 .. n - 1 \subseteq Transfers
  BY TransferCountAssumption DEF Transfers
<1>7. \A t \in Transfers : transfer'[t] # "idle" <=> t \in 0 .. n - 1 \/ transfer[t] # "idle"
  BY <1>1, <1>5
<1>8. Live' = (0 .. n - 1) \union Live
  BY <1>1, <1>2, <1>6, <1>7 DEF Live
<1>9. (0 .. n - 1) \cap Live = {}
  BY <1>1, <1>5 DEF Live
<1>10. Cardinality(Live') = n + Cardinality(Live)
  <2>1. Cardinality({}) = 0
    BY FS_EmptySet
  <2>2. Cardinality(Live) \in Nat
    BY LiveFinite, FS_CardinalityType
  <2>3. Cardinality((0 .. n - 1) \union Live)
          = Cardinality(0 .. n - 1) + Cardinality(Live) - Cardinality((0 .. n - 1) \cap Live)
    BY <1>4, LiveFinite, FS_Union
  <2>4. Cardinality((0 .. n - 1) \union Live) = n + Cardinality(Live) - 0
    BY <1>4, <1>9, <2>1, <2>3
  <2>5. n + Cardinality(Live) - 0 = n + Cardinality(Live)
    BY <1>3, <2>2
  <2> QED
    BY <1>8, <2>4, <2>5
<1> QED
  <2>1. Cardinality(Live) \in Nat
    BY LiveFinite, FS_CardinalityType
  <2> QED
    BY <1>1, <1>3, <1>10, <2>1 DEF LiveExact

(* The other steps, among them those of the device and cancel_transfers,   *)
(* keep each transfer on its side.                                         *)
LEMMA LiveNext ==
  ASSUME SInv, LiveExact, [Next]_vars
  PROVE  LiveExact'
<1>0. transfer \in [Transfers -> TransferStates]
  BY DEF SInv, StatesTypeOK
<1>1. CASE DeviceStep
  BY <1>0, <1>1, LiveKept DEF DeviceStep, DeviceSends, DeviceFails
<1>2. CASE CancelTransfers
  BY <1>2, LiveKept DEF CancelTransfers
<1>3. CASE CallbackQueue
  BY <1>3, LiveKept DEF CallbackQueue
<1>4. CASE UNCHANGED usb
  BY <1>4, LiveKept
<1>5. CASE PumpStep \/ ConsumerStep \/ SpuriousWakeup
  BY <1>4, <1>5 DEF PumpStep, PumpTest, PumpReturn, PumpLeave, ConsumerStep,
     ConsumerTest, ConsumerTestThen, ConsumerWait, ConsumerTake, ConsumerCallback, ConsumerRelease,
     ConsumerLeave, SpuriousWakeup
<1>6. CASE AppCalls
  BY <1>4, <1>6 DEF AppCalls, Control, Start, Stop
<1>7. CASE AppStep
  BY <1>2, <1>4, <1>7, PrepareTransfersLive
     DEF AppStep, Control, StartReceiverMode, CreateIoThreads, CreateReset,
         CreateThread, StopReceiverMode, KillStopRequested, KillStreaming,
         CancelEvents, KillSignal, JoinTransfer, JoinConsumer, StopReturn
<1>8. CASE UNCHANGED vars
  BY <1>4, <1>8 DEF vars, svars
<1> QED
  BY <1>1, <1>3, <1>5, <1>6, <1>7, <1>8, CallbackEnterLive, CallbackTestLive,
     CallbackSubmitLive
  DEF Next, CallbackStep

(* transfer_live is the number of transfers that libusb has.               *)
THEOREM LiveCountExact == Spec => []LiveExact
<1>1. Init => LiveExact
  <2> SUFFICES ASSUME Init PROVE LiveExact
    OBVIOUS
  <2>1. Live = {}
    BY DEF Init, Live
  <2> QED
    BY <2>1, FS_EmptySet DEF Init, LiveExact
<1>2. SInv /\ LiveExact /\ [Next]_vars => LiveExact'
  BY LiveNext
<1> QED
  BY <1>1, <1>2, SessionInvariance, PTL DEF Spec

(* A step that leaves the queue's count, and puts neither the consumer to  *)
(* sleep nor airspyhf_stop past its signal.                                *)
LEMMA SleepKept ==
  ASSUME SleepStages, UNCHANGED received_buffer_count,
         consumer' \in {"empty streaming?", "empty stop?", "waiting"} => consumer' = consumer,
         app' \in {"join transfer", "join consumer"} => app \in {"join transfer", "join consumer"}
  PROVE  SleepStages'
  BY DEF SleepStages

LEMMA ConsumerSleeps ==
  ASSUME SInv, SleepStages, ConsumerStep \/ SpuriousWakeup
  PROVE  SleepStages'
<1>1. app' = app /\ (app \in {"join transfer", "join consumer"} => ~streaming)
  BY DEF SInv, FlagStages, ConsumerStep, ConsumerTest, ConsumerTestThen, ConsumerWait, ConsumerTake,
         ConsumerCallback, ConsumerRelease, ConsumerLeave, SpuriousWakeup
<1>2. CASE ConsumerTest
  <2>1. UNCHANGED received_buffer_count
    BY <1>2 DEF ConsumerTest, ConsumerTestThen
  <2>2. consumer' \notin {"empty stop?", "waiting"}
    BY <1>2 DEF ConsumerTest, ConsumerTestThen, ConsumerReads, ConsumerGoes
  <2>3. consumer' = "empty streaming?" => received_buffer_count = 0
    BY <1>2 DEF ConsumerTest, ConsumerTestThen, ConsumerReads, ConsumerGoes
  <2> QED
    BY <2>1, <2>2, <2>3 DEF SleepStages
<1>3. CASE ConsumerWait
  <2>1. UNCHANGED received_buffer_count /\ consumer \in {"empty streaming?", "empty stop?"}
    BY <1>3 DEF ConsumerWait, ConsumerReads, ConsumerGoes
  <2>2. app \in {"join transfer", "join consumer"} => consumer' = "take streaming?"
    BY <1>1, <1>3 DEF ConsumerWait, ConsumerReads, ConsumerGoes, SleepStages
  <2> QED
    BY <1>1, <2>1, <2>2 DEF SleepStages
<1>4. CASE ConsumerTake \/ ConsumerCallback \/ ConsumerRelease \/ ConsumerLeave \/ SpuriousWakeup
  <2>1. consumer' \in {"busy", "returned", "outer streaming?", "exited", "woken"}
    BY <1>4 DEF ConsumerTake, ConsumerCallback, ConsumerRelease, ConsumerLeave,
                SpuriousWakeup, ConsumerGoes
  <2> QED
    BY <2>1 DEF SleepStages
<1> QED
  BY <1>2, <1>3, <1>4 DEF ConsumerStep

(* Both signals are sent with the lock, which the consumer has from its    *)
(* test to its sleep.                                                      *)
LEMMA SignalsWake ==
  ASSUME SInv, SleepStages, CallbackQueue \/ KillSignal
  PROVE  SleepStages'
<1>1. consumer \notin {"empty streaming?", "empty stop?"}
  BY DEF CallbackQueue, KillSignal, MutexFree
<1>2. CASE Signal
  <2>1. consumer' \notin {"empty streaming?", "empty stop?", "waiting"}
    BY <1>1, <1>2 DEF Signal
  <2> QED
    BY <2>1 DEF SleepStages
<1>3. CASE CallbackQueue /\ DropBlock
  <2>1. UNCHANGED <<app, consumer, received_buffer_count>>
    BY <1>3 DEF CallbackQueue, DropBlock, Enqueue
  <2> QED
    BY <2>1, SleepKept
<1> QED
  BY <1>2, <1>3 DEF CallbackQueue, KillSignal

LEMMA AppSleeps ==
  ASSUME SInv, SleepStages, AppCalls \/ AppStep
  PROVE  SleepStages'
<1> USE DEF AppGoes
<1>1. CASE AppCalls
  BY <1>1, SleepKept DEF AppCalls, Control, Start, ClearDrops, Stop
<1>2. CASE Control \/ StartReceiverMode \/ CreateIoThreads \/ StopReceiverMode
             \/ KillStopRequested \/ KillStreaming \/ CancelTransfers
             \/ CancelEvents \/ StopReturn
  BY <1>2, SleepKept
  DEF Control, StartReceiverMode, CreateIoThreads, StopReceiverMode, KillStopRequested,
      KillStreaming, CancelTransfers, CancelEvents, StopReturn
<1>3. CASE PrepareTransfers
  BY <1>3, SleepKept DEF PrepareTransfers
<1>4. CASE CreateReset
  <2>1. consumer' = "none"
    BY <1>4 DEF CreateReset, SInv, ThreadStages
  <2> QED
    BY <2>1 DEF SleepStages
<1>5. CASE CreateThread
  BY <1>5, SleepKept DEF CreateThread
<1>6. CASE JoinTransfer \/ JoinConsumer
  BY <1>6, SleepKept DEF JoinTransfer, JoinConsumer
<1> QED
  BY <1>1, <1>2, <1>3, <1>4, <1>5, <1>6, SignalsWake DEF AppStep

LEMMA SleepNext ==
  ASSUME SInv, SleepStages, [Next]_vars
  PROVE  SleepStages'
<1>1. CASE UNCHANGED <<received_buffer_count, app, consumer>>
  BY <1>1, SleepKept
<1>2. CASE \E thread \in Threads, t \in Transfers : CallbackEnter(thread, t)
  BY <1>1, <1>2 DEF CallbackEnter, CallbackBegins
<1>3. CASE CallbackTest \/ CallbackSubmit
  BY <1>1, <1>3 DEF CallbackTest, CallbackSubmit
<1>4. CASE PumpStep \/ DeviceStep
  BY <1>1, <1>4 DEF PumpStep, PumpTest, PumpReturn, PumpLeave, DeviceStep, DeviceSends,
                    DeviceFails
<1>5. CASE UNCHANGED vars
  BY <1>1, <1>5 DEF vars, svars
<1> QED
  BY <1>2, <1>3, <1>4, <1>5, ConsumerSleeps, SignalsWake, AppSleeps
  DEF Next, CallbackStep

(* No wakeup is lost: the consumer sleeps on an empty queue only, and      *)
(* never when airspyhf_stop has sent its signal and joins the threads.     *)
THEOREM WakeupsNeverLost == Spec => []NoLostWakeup
<1>1. Init => SleepStages
  BY DEF Init, SleepStages
<1>2. SInv /\ SleepStages /\ [Next]_vars => SleepStages'
  BY SleepNext
<1>3. SleepStages => NoLostWakeup
  BY DEF SleepStages, NoLostWakeup
<1> QED
  BY <1>1, <1>2, <1>3, SessionInvariance, PTL DEF Spec

(* A block silently discarded is the last of its session, except in the    *)
(* last steps of airspyhf_stop.                                            *)
THEOREM GapOnlyWhenStopping == Spec => NoGapUnlessStopping
<1>1. QInv /\ SInv /\ [Next]_vars =>
        [(cut /\ arrived' > arrived) =>
           app \in Stopping \ {"stop off", "kill stop_requested"}]_vars
  <2> SUFFICES ASSUME QInv, SInv, Next, cut, arrived' > arrived
               PROVE  app \in Killing
    BY DEF vars, svars
  <2>1. arrived' # arrived /\ arrived' # 0
    <3>1. arrived \in Nat
      BY DEF QInv, QTypeOK
    <3> QED
      BY <3>1
  <2>2. ~UNCHANGED qvars
    BY <2>1
  <2>3. CASE CallbackQueue
    BY <2>3 DEF CallbackQueue, SInv, GapStages
  <2>4. CASE CreateReset
    BY <2>1, <2>4 DEF CreateReset, ResetIndices
  <2>5. CASE Start
    BY <2>1, <2>5 DEF Start, ClearDrops
  <2>6. CASE ConsumerTake \/ ConsumerRelease
    BY <2>1, <2>6 DEF ConsumerTake, ConsumerRelease, Take, Release
  <2> QED
    BY <2>2, <2>3, <2>4, <2>5, <2>6, SessionQueueSteps
<1> QED
  BY <1>1, SessionInvariance, PTL DEF Spec, NoGapUnlessStopping

(* The consumer's steps.  It reaches "take streaming?" with an empty queue *)
(* when a flag said stop at its first test, and goes past it only if       *)
(* streaming is set, past "take stop?" only if stop_requested is clear.    *)
LEMMA ConsumerStale ==
  ASSUME QInv, SInv, StaleStages, ConsumerStep \/ SpuriousWakeup
  PROVE  StaleStages'
<1> USE DEF ConsumerGoes, ConsumerReads
<1>0. FlagStages /\ ThreadStages
  BY DEF SInv
<1>1. app' = app /\ (streaming' => streaming)
  <2>1. app' = app
    BY DEF ConsumerStep, ConsumerTest, ConsumerTestThen, ConsumerWait, ConsumerTake,
           ConsumerCallback, ConsumerRelease, ConsumerLeave, SpuriousWakeup
  <2>2. streaming' = streaming \/ streaming' = FALSE
    BY DEF ConsumerStep, ConsumerTest, ConsumerTestThen, ConsumerWait, ConsumerTake,
           ConsumerCallback, ConsumerRelease, ConsumerLeave, SpuriousWakeup
  <2>3. streaming' => streaming
    BY <2>2
  <2> QED
    BY <2>1, <2>3
<1>2. consumer # "none" /\ consumer' # "none" /\ app # "create consumer"
  BY <1>0 DEF ThreadStages, ConsumerStep, ConsumerTest, ConsumerTestThen, ConsumerWait,
              ConsumerTake, ConsumerCallback, ConsumerRelease, ConsumerLeave,
              SpuriousWakeup
<1>3. received_buffer_count < 0 => app \in Stopping
  <2>1. received_buffer_count < 0 => stale
    BY DEF QInv, QTypeOK, Sound, RingShape, Queued, Held
  <2>2. stale => app \in Stopping
    BY <1>2 DEF StaleStages, StaleOnlyStopping
  <2> QED
    BY <2>1, <2>2, Zenon
<1>4. CASE ConsumerTake
  <2>1. consumer = "take stop?" /\ consumer' = "busy" /\ ~stop_requested
    BY <1>4 DEF ConsumerTake
  <2>2. received_buffer_count <= 0 => app \in Killing
    BY <1>0, <2>1 DEF StaleStages, FlagStages, Killing
  <2>3. stale' => app \in Killing
    <3>1. stale' => stale \/ received_buffer_count <= 0
      BY <1>4 DEF ConsumerTake, Take
    <3>2. stale => app \in Killing
      BY <1>2 DEF StaleStages, StaleOnlyStopping, Killing
    <3> QED
      BY <2>2, <3>1, <3>2
  <2> QED
    BY <1>1, <1>2, <2>1, <2>3 DEF StaleStages, StaleOnlyStopping, Killing
<1>5. CASE ConsumerTest \/ ConsumerWait
  <2>1. UNCHANGED <<received_buffer_count, stale, streaming, stop_requested>>
    BY <1>5 DEF ConsumerTest, ConsumerTestThen, ConsumerWait
  <2>2. \/ consumer' # "take streaming?"
        \/ received_buffer_count # 0
        \/ ~streaming
        \/ stop_requested
    BY <1>5 DEF ConsumerTest, ConsumerTestThen, ConsumerWait
  <2>3. received_buffer_count <= 0 /\ consumer' = "take streaming?"
          => ~streaming \/ app \in Stopping
    <3>1. stop_requested => app \in Stopping
      BY <1>0 DEF FlagStages
    <3>2. received_buffer_count \in Int
      BY DEF QInv, QTypeOK
    <3>3. received_buffer_count <= 0 => received_buffer_count = 0 \/ received_buffer_count < 0
      BY <3>2
    <3> QED
      BY <1>3, <2>2, <3>1, <3>3, Zenon
  <2>4. received_buffer_count <= 0 /\ consumer' = "take stop?" => app \in Stopping
    BY <1>5
    DEF ConsumerTest, ConsumerTestThen, ConsumerWait,
        StaleStages
  <2>5. stale' => app' \in Killing
    BY <1>1, <1>2, <2>1 DEF StaleStages, StaleOnlyStopping, Killing
  <2> QED
    BY <1>1, <1>2, <2>1, <2>3, <2>4, <2>5 DEF StaleStages, StaleOnlyStopping, Killing
<1>6. CASE ConsumerCallback \/ ConsumerRelease \/ ConsumerLeave \/ SpuriousWakeup
  <2>1. consumer' \in {"returned", "outer streaming?", "exited", "woken"}
    BY <1>6 DEF ConsumerCallback, ConsumerRelease, ConsumerLeave, SpuriousWakeup
  <2>2. UNCHANGED stale
    BY <1>6 DEF ConsumerCallback, ConsumerRelease, Release, ConsumerLeave, SpuriousWakeup
  <2> QED
    BY <1>1, <1>2, <2>1, <2>2 DEF StaleStages, StaleOnlyStopping
<1> QED
  BY <1>4, <1>5, <1>6 DEF ConsumerStep

(* The other threads queue blocks, and only ever end the session.          *)
LEMMA WorkersStale ==
  ASSUME QInv, SInv, StaleStages,
         \/ \E thread \in Threads, t \in Transfers : CallbackEnter(thread, t)
         \/ CallbackStep \/ PumpStep \/ DeviceStep
  PROVE  StaleStages'
<1>1. app' = app /\ stale' = stale
  BY DEF CallbackEnter, CallbackBegins, CallbackStep, CallbackTest, CallbackQueue,
     Enqueue, Fill, DropBlock, CallbackSubmit, PumpStep, PumpTest, PumpReturn, PumpLeave,
     DeviceStep, DeviceSends, DeviceFails
<1>2. streaming' => streaming
  BY DEF CallbackEnter, CallbackBegins, CallbackStep, CallbackTest, CallbackQueue,
     CallbackSubmit, PumpStep, PumpTest, PumpReturn, PumpLeave, DeviceStep,
     DeviceSends, DeviceFails
<1>3. consumer' = consumer \/ (consumer = "waiting" /\ consumer' = "woken")
  BY DEF CallbackEnter, CallbackBegins, CallbackStep, CallbackTest, CallbackQueue, Signal,
     CallbackSubmit, PumpStep, PumpTest, PumpReturn, PumpLeave, DeviceStep,
     DeviceSends, DeviceFails
<1>4. received_buffer_count' <= 0 => received_buffer_count <= 0
  <2>1. received_buffer_count \in Int
    BY DEF QInv, QTypeOK
  <2>2. received_buffer_count' \in {received_buffer_count, received_buffer_count + 1}
    BY DEF CallbackEnter, CallbackBegins, CallbackStep, CallbackTest, CallbackQueue,
       Enqueue, Fill, DropBlock, CallbackSubmit, PumpStep, PumpTest, PumpReturn,
       PumpLeave, DeviceStep, DeviceSends, DeviceFails
  <2> QED
    BY <2>1, <2>2
<1> QED
  BY <1>1, <1>2, <1>3, <1>4 DEF StaleStages, StaleOnlyStopping

(* The application: the queue is as new when it creates a consumer, and    *)
(* airspyhf_stop does not return before that consumer is gone.             *)
LEMMA AppStale ==
  ASSUME SInv, StaleStages, AppCalls \/ AppStep
  PROVE  StaleStages'
<1> USE DEF AppGoes
<1>0. FlagStages /\ ThreadStages /\ StopQuiesces
  BY DEF SInv
<1>1. CASE CreateIoThreads \/ StopReturn
  <2>1. consumer' = "none" /\ app' # "create consumer"
    BY <1>0, <1>1 DEF CreateIoThreads, StopReturn, ThreadStages, StopQuiesces
  <2> QED
    BY <2>1 DEF StaleStages, StaleOnlyStopping
<1>2. CASE CreateReset
  BY <1>0, <1>2 DEF CreateReset, ResetIndices, ThreadStages, StaleStages, StaleOnlyStopping
<1>3. CASE CreateThread
  <2>1. UNCHANGED <<stale, received_buffer_count, streaming>> /\ app' # "create consumer"
    BY <1>3 DEF CreateThread
  <2>2. \/ UNCHANGED consumer /\ app \notin Stopping
        \/ app = "create consumer" /\ consumer' = "start"
    BY <1>3 DEF CreateThread
  <2> QED
    BY <2>1, <2>2 DEF StaleStages, StaleOnlyStopping
<1>4. CASE /\ UNCHANGED <<stale, received_buffer_count>>
           /\ streaming' => streaming
           /\ consumer' = consumer \/ consumer' \in {"none", "woken"}
           /\ consumer' # "none" => consumer # "none"
           /\ app' # "create consumer"
           /\ app \in Stopping => app' \in Stopping
           /\ app \in Killing => app' \in Killing
  BY <1>4 DEF StaleStages, StaleOnlyStopping, Killing
<1>5. CASE Control \/ Start \/ StartReceiverMode \/ PrepareTransfers \/ Stop
  BY <1>4, <1>5 DEF Control, Start, ClearDrops, StartReceiverMode, PrepareTransfers, Stop
<1>6. CASE StopReceiverMode \/ KillStopRequested \/ KillStreaming \/ CancelTransfers
             \/ CancelEvents
  BY <1>4, <1>6 DEF StopReceiverMode, KillStopRequested, KillStreaming, CancelTransfers,
                    CancelEvents
<1>7. CASE KillSignal \/ JoinTransfer \/ JoinConsumer
  BY <1>4, <1>7 DEF KillSignal, Signal, JoinTransfer, JoinConsumer
<1> QED
  BY <1>1, <1>2, <1>3, <1>5, <1>6, <1>7 DEF AppCalls, AppStep

(* The consumer takes a block from an empty queue, through the second      *)
(* reading of the two flags, only in kill_io_threads: never while the      *)
(* application leaves the session alone.                                   *)
THEOREM StaleWhenStoppingOnly == Spec => []StaleOnlyStopping
<1>1. Init => StaleStages
  BY DEF Init, QInit, StaleStages, StaleOnlyStopping
<1>2. QInv /\ SInv /\ StaleStages /\ [Next]_vars => StaleStages'
  <2>1. ASSUME StaleStages, UNCHANGED vars PROVE StaleStages'
    BY <2>1 DEF vars, svars, StaleStages, StaleOnlyStopping
  <2> QED
    BY <2>1, ConsumerStale, WorkersStale, AppStale DEF Next
<1>3. StaleStages => StaleOnlyStopping
  BY DEF StaleStages
<1> QED
  BY <1>1, <1>2, <1>3, SessionInvariance, PTL DEF Spec

(* While the consumer runs, and until airspyhf_stop has cleared            *)
(* stop_requested, the queue is sound without any proviso: its count is    *)
(* within the ring, no USB transfer has the block being read, and the      *)
(* position the application computes is the true one.                      *)
RunsSound ==
  (consumer # "none" /\ app \notin Killing) =>
    /\ received_buffer_count \in 0 .. RawBufferCount
    /\ InputKept
    /\ input # NoBuffer => data[input] = heard

THEOREM SoundUntilKilled == Spec => []RunsSound
<1>1. QInv /\ SInv /\ StaleOnlyStopping => RunsSound
  <2> SUFFICES ASSUME QInv, SInv, StaleOnlyStopping, consumer # "none", app \notin Killing
               PROVE  /\ received_buffer_count \in 0 .. RawBufferCount
                      /\ InputKept
                      /\ input # NoBuffer => data[input] = heard
    BY DEF RunsSound
  <2>1. ~stale
    BY DEF StaleOnlyStopping, Killing
  <2>2. open
    BY DEF SInv, ThreadStages
  <2>3. QTypeOK /\ BufferPartition /\ Sound
    BY <2>1 DEF QInv
  <2>4. received_buffer_count \in 0 .. RawBufferCount
    BY <2>3, SoundCount
  <2>5. InputKept
    BY <2>3, SoundInput
  <2>6. input # NoBuffer => data[input] = heard
    BY <2>1, <2>2, <2>3 DEF Sound, PositionExact
  <2> QED
    BY <2>4, <2>5, <2>6
<1> QED
  BY <1>1, StaleWhenStoppingOnly, SessionInvariance, PTL

(* While the application is handed a block, the position it can compute    *)
(* from its dropped_samples is the true one in every streaming session,    *)
(* until a block was taken from an empty queue.                            *)
THEOREM SessionPositionExact == Spec => []PositionExact
<1>1. QInv => PositionExact
  BY DEF QInv, Sound, PositionExact
<1> QED
  BY <1>1, SessionInvariance, PTL

(* No USB transfer writes into the block the consumer is reading, until    *)
(* one was taken from an empty queue.                                      *)
THEOREM SessionReadIsolation == Spec => []ReadingIsolated
  BY SessionKeepsProtocol, ReadIsolation, PTL DEF ImplementsSampleQueue

(* A session hands the application a lossy stream with exact positions,    *)
(* which ends with the session, or with a block taken from an empty queue. *)
THEOREM SessionIsLossyStream == Spec => ImplementsLossyFifo
  BY SessionKeepsProtocol, Refinement DEF ImplementsSampleQueue

-----------------------------------------------------------------------------
(* What the application is promised (the module Session).  Most steps are  *)
(* not seen by it: they start and end no phase, no sample callback and no  *)
(* session, and no block that was already taken is given up.               *)
Unseen ==
  /\ UNCHANGED <<streaming, armed>>
  /\ app' \in Stopping <=> app \in Stopping
  /\ consumer' = "busy" <=> consumer = "busy"
  /\ ~streaming => (consumer' = "take stop?" <=> consumer = "take stop?")

LEMMA UnseenStutters ==
  ASSUME Unseen
  PROVE  UNCHANGED Promise!svars
<1>1. (IF app \in Stopping THEN "stopping" ELSE IF armed THEN "on" ELSE "off")'
        = IF app \in Stopping THEN "stopping" ELSE IF armed THEN "on" ELSE "off"
  BY Zenon DEF Unseen
<1>2. streaming' = streaming
  BY DEF Unseen
<1>3. (consumer = "busy")' = (consumer = "busy")
  BY Zenon DEF Unseen
<1>4. (consumer = "take stop?" /\ ~streaming)' = (consumer = "take stop?" /\ ~streaming)
  BY Zenon DEF Unseen
<1> QED
  BY <1>1, <1>2, <1>3, <1>4, Zenon DEF Promise!svars

(* The session may end by itself at any time.                              *)
LEMMA EndsOrUnseen ==
  ASSUME SInv, streaming' = streaming \/ streaming' = FALSE,
         UNCHANGED armed,
         app' \in Stopping <=> app \in Stopping,
         consumer' = "busy" <=> consumer = "busy",
         consumer' = "take stop?" <=> consumer = "take stop?"
  PROVE  [Promise!Next]_(Promise!svars)
<1>1. streaming \in BOOLEAN
  BY Zenon DEF SInv, FlagsTypeOK
<1>2. CASE streaming' = streaming
  <2>1. Unseen
    BY <1>2, Zenon DEF Unseen
  <2> QED
    BY <2>1, UnseenStutters
<1>3. CASE streaming = FALSE /\ streaming' = FALSE
  BY <1>2, <1>3
<1>4. CASE streaming = TRUE /\ streaming' = FALSE
  <2>1. (IF app \in Stopping THEN "stopping" ELSE IF armed THEN "on" ELSE "off")'
          = IF app \in Stopping THEN "stopping" ELSE IF armed THEN "on" ELSE "off"
    OBVIOUS
  <2>2. (consumer = "busy")' = (consumer = "busy")
    BY Zenon
  <2>3. (consumer = "take stop?" /\ ~streaming)' \in {FALSE, ~(consumer = "busy")}
    BY <1>4
  <2> QED
    BY <1>4, <2>1, <2>2, <2>3, Zenon DEF Promise!Fails, Promise!Next
<1> QED
  BY <1>1, <1>2, <1>3, <1>4

(* The steps of the callback, of the transfer thread and of the device.    *)
LEMMA WorkersPromise ==
  ASSUME SInv,
         \/ \E thread \in Threads, t \in Transfers : CallbackEnter(thread, t)
         \/ CallbackStep \/ SpuriousWakeup \/ PumpStep \/ DeviceStep
  PROVE  [Promise!Next]_(Promise!svars)
<1>1. streaming' = streaming \/ streaming' = FALSE
  BY DEF CallbackEnter, CallbackBegins, CallbackStep, CallbackTest, CallbackQueue,
     CallbackSubmit, SpuriousWakeup, PumpStep, PumpTest, PumpReturn, PumpLeave,
     DeviceStep, DeviceSends, DeviceFails
<1>2. UNCHANGED <<armed, app>>
  BY DEF CallbackEnter, CallbackBegins, CallbackStep, CallbackTest, CallbackQueue,
     CallbackSubmit, SpuriousWakeup, PumpStep, PumpTest, PumpReturn, PumpLeave,
     DeviceStep, DeviceSends, DeviceFails
<1>3. consumer' = consumer \/ (consumer = "waiting" /\ consumer' = "woken")
  BY DEF CallbackEnter, CallbackBegins, CallbackStep, CallbackTest, CallbackQueue, Signal,
     CallbackSubmit, SpuriousWakeup, ConsumerGoes, PumpStep, PumpTest, PumpReturn,
     PumpLeave, DeviceStep, DeviceSends, DeviceFails
<1> QED
  BY <1>1, <1>2, <1>3, EndsOrUnseen

(* The consumer takes a block only when it has just seen streaming set, so *)
(* that at most one sample callback comes after the session ended.         *)
LEMMA ConsumerPromise ==
  ASSUME SInv, ConsumerStep
  PROVE  [Promise!Next]_(Promise!svars)
<1> USE DEF ConsumerGoes, ConsumerReads
<1>0. streaming \in BOOLEAN
  BY Zenon DEF SInv, FlagsTypeOK
<1>1. CASE ConsumerTest
  <2>1. UNCHANGED <<streaming, armed, app>>
    BY <1>1 DEF ConsumerTest, ConsumerTestThen
  <2>2. CASE consumer = "take streaming?" /\ consumer' = IF streaming THEN "take stop?" ELSE "leaving"
    <3>1. Unseen
      BY <1>0, <2>1, <2>2 DEF Unseen
    <3> QED
      BY <3>1, UnseenStutters
  <2>3. CASE consumer = "take stop?" /\ consumer' = "leaving"
    <3>1. CASE streaming
      <4>1. Unseen
        BY <2>1, <2>3, <3>1 DEF Unseen
      <4> QED
        BY <4>1, UnseenStutters
    <3>2. CASE ~streaming
      <4>1. (IF app \in Stopping THEN "stopping" ELSE IF armed THEN "on" ELSE "off")'
              = IF app \in Stopping THEN "stopping" ELSE IF armed THEN "on" ELSE "off"
        BY <2>1
      <4>2. (consumer = "busy")' = (consumer = "busy")
        BY <2>3
      <4>3. /\ consumer = "take stop?" /\ ~streaming
            /\ (consumer = "take stop?" /\ ~streaming)' = FALSE
        BY <2>3, <3>2
      <4> QED
        BY <2>1, <4>1, <4>2, <4>3, Zenon DEF Promise!NoneLate, Promise!Next
    <3> QED
      BY <3>1, <3>2
  <2>4. CASE /\ consumer \notin {"busy", "take stop?"}
             /\ consumer' \notin {"busy", "take stop?"}
    BY <2>1, <2>4, EndsOrUnseen
  <2> QED
    BY <1>1, <2>2, <2>3, <2>4 DEF ConsumerTest, ConsumerTestThen
<1>2. CASE ConsumerWait \/ ConsumerRelease \/ ConsumerLeave
  <2>1. /\ streaming' = streaming \/ streaming' = FALSE
        /\ UNCHANGED <<armed, app>>
        /\ consumer \notin {"busy", "take stop?"}
        /\ consumer' \notin {"busy", "take stop?"}
    BY <1>2 DEF ConsumerWait, ConsumerRelease, ConsumerLeave
  <2> QED
    BY <2>1, EndsOrUnseen
<1>3. CASE ConsumerTake
  <2>1. /\ consumer = "take stop?" /\ consumer' = "busy"
        /\ UNCHANGED <<streaming, armed, app>>
    BY <1>3 DEF ConsumerTake
  <2>2. armed \/ app \in Stopping
    BY <2>1 DEF SInv, StopQuiesces
  <2>3. /\ (IF app \in Stopping THEN "stopping" ELSE IF armed THEN "on" ELSE "off") # "off"
        /\ (IF app \in Stopping THEN "stopping" ELSE IF armed THEN "on" ELSE "off")'
             = IF app \in Stopping THEN "stopping" ELSE IF armed THEN "on" ELSE "off"
    BY <2>1, <2>2
  <2>4. ~(consumer = "busy") /\ (consumer = "busy")' = TRUE
    BY <2>1
  <2>5. /\ streaming \/ (consumer = "take stop?" /\ ~streaming)
        /\ (consumer = "take stop?" /\ ~streaming)' = FALSE
    BY <2>1
  <2> QED
    BY <2>1, <2>3, <2>4, <2>5, Zenon DEF Promise!CallbackBegins, Promise!Next
<1>4. CASE ConsumerCallback
  <2>1. /\ consumer = "busy" /\ consumer' = "returned" /\ UNCHANGED <<armed, app>>
        /\ streaming' = FALSE \/ streaming' = streaming
    BY <1>4 DEF ConsumerCallback
  <2>2. (IF app \in Stopping THEN "stopping" ELSE IF armed THEN "on" ELSE "off")'
          = IF app \in Stopping THEN "stopping" ELSE IF armed THEN "on" ELSE "off"
    BY <2>1
  <2>3. consumer = "busy" /\ (consumer = "busy")' = FALSE
    BY <2>1
  <2>4. (consumer = "take stop?" /\ ~streaming)' = (consumer = "take stop?" /\ ~streaming)
    BY <2>1
  <2>5. \E zero \in BOOLEAN : streaming' = (streaming /\ zero)
    <3>1. CASE streaming' = FALSE
      <4>1. streaming' = (streaming /\ FALSE)
        BY <3>1, Zenon
      <4> QED
        BY <4>1, Zenon
    <3>2. CASE streaming' = streaming
      <4>1. streaming' = (streaming /\ TRUE)
        BY <1>0, <3>2, Zenon
      <4> QED
        BY <4>1, Zenon
    <3> QED
      BY <2>1, <3>1, <3>2
  <2> QED
    BY <2>2, <2>3, <2>4, <2>5, Zenon DEF Promise!CallbackEnds, Promise!Next
<1> QED
  BY <1>1, <1>2, <1>3, <1>4 DEF ConsumerStep

(* The calls of the application: airspyhf_start begins a session only when *)
(* nothing of the last one is left, and airspyhf_stop returns only then.   *)
LEMMA AppPromise ==
  ASSUME SInv, AppCalls \/ AppStep
  PROVE  [Promise!Next]_(Promise!svars)
<1> USE DEF AppGoes
<1>1. CASE CreateIoThreads
  <2>1. /\ app = "create" /\ app' = "prepare" /\ streaming' = TRUE /\ armed' = TRUE
        /\ UNCHANGED consumer
    BY <1>1 DEF CreateIoThreads
  <2>2. ~armed /\ consumer = "none"
    BY <2>1 DEF SInv, ThreadStages, StopQuiesces
  <2>3. /\ (IF app \in Stopping THEN "stopping" ELSE IF armed THEN "on" ELSE "off") = "off"
        /\ (IF app \in Stopping THEN "stopping" ELSE IF armed THEN "on" ELSE "off")' = "on"
    BY <2>1, <2>2
  <2>4. (consumer = "busy")' = (consumer = "busy")
    BY <2>1
  <2>5. (consumer = "take stop?" /\ ~streaming)' = (consumer = "take stop?" /\ ~streaming)
    BY <2>1, <2>2
  <2> QED
    BY <2>1, <2>3, <2>4, <2>5, Zenon DEF Promise!Start, Promise!Next
<1>2. CASE Stop
  <2>1. app = "idle" /\ app' = "stop off" /\ UNCHANGED <<streaming, armed, consumer>>
    BY <1>2 DEF Stop
  <2>2. /\ (IF app \in Stopping THEN "stopping" ELSE IF armed THEN "on" ELSE "off") # "stopping"
        /\ (IF app \in Stopping THEN "stopping" ELSE IF armed THEN "on" ELSE "off")' = "stopping"
    BY <2>1
  <2>3. (consumer = "busy")' = (consumer = "busy")
    BY <2>1
  <2>4. (consumer = "take stop?" /\ ~streaming)' = (consumer = "take stop?" /\ ~streaming)
    BY <2>1
  <2> QED
    BY <2>1, <2>2, <2>3, <2>4, Zenon DEF Promise!StopBegins, Promise!Next
<1>3. CASE StopReturn
  <2>1. /\ app = "last events" /\ app' = "idle" /\ armed' = FALSE
        /\ UNCHANGED <<streaming, consumer>>
    BY <1>3 DEF StopReturn
  <2>2. ~streaming /\ consumer = "none"
    BY <2>1 DEF SInv, ThreadStages, FlagStages
  <2>3. /\ (IF app \in Stopping THEN "stopping" ELSE IF armed THEN "on" ELSE "off") = "stopping"
        /\ (IF app \in Stopping THEN "stopping" ELSE IF armed THEN "on" ELSE "off")' = "off"
    BY <2>1
  <2>4. ~(consumer = "busy") /\ (consumer = "busy")' = (consumer = "busy")
    BY <2>1, <2>2
  <2>5. /\ ~(consumer = "take stop?" /\ ~streaming)
        /\ (consumer = "take stop?" /\ ~streaming)' = (consumer = "take stop?" /\ ~streaming)
    BY <2>1, <2>2
  <2> QED
    BY <2>1, <2>2, <2>3, <2>4, <2>5, Zenon DEF Promise!StopReturns, Promise!Next
<1>4. CASE KillStreaming
  BY <1>4, EndsOrUnseen DEF KillStreaming
<1>5. CASE /\ UNCHANGED <<streaming, armed>>
           /\ app' \in Stopping <=> app \in Stopping
           /\ \/ consumer' = consumer
              \/ {consumer, consumer'} \cap {"busy", "take stop?"} = {}
  BY <1>5, EndsOrUnseen
<1>6. CASE Control \/ Start \/ StartReceiverMode \/ PrepareTransfers \/ CreateReset
  BY <1>5, <1>6 DEF Control, Start, StartReceiverMode, PrepareTransfers, CreateReset
<1>7. CASE CreateThread
  BY <1>5, <1>7 DEF CreateThread, SInv, ThreadStages
<1>8. CASE StopReceiverMode \/ KillStopRequested \/ CancelTransfers \/ CancelEvents
  BY <1>5, <1>8 DEF StopReceiverMode, KillStopRequested, CancelTransfers, CancelEvents
<1>9. CASE KillSignal \/ JoinTransfer \/ JoinConsumer
  BY <1>5, <1>9 DEF KillSignal, Signal, JoinTransfer, JoinConsumer
<1> QED
  BY <1>1, <1>2, <1>3, <1>4, <1>6, <1>7, <1>8, <1>9 DEF AppCalls, AppStep

(* A streaming session keeps what the application is promised.             *)
THEOREM SessionKeepsPromise == Spec => ImplementsSession
<1>1. Init => Promise!Init
  BY DEF Init, Promise!Init
<1>2. SInv /\ [Next]_vars => [Promise!Next]_(Promise!svars)
  <2>1. ASSUME UNCHANGED vars PROVE UNCHANGED Promise!svars
    <3>1. Unseen
      BY <2>1, Zenon DEF vars, svars, Unseen
    <3> QED
      BY <3>1, UnseenStutters
  <2> QED
    BY <2>1, WorkersPromise, ConsumerPromise, AppPromise DEF Next
<1> QED
  BY <1>1, <1>2, SessionInvariance, PTL DEF Spec, ImplementsSession, Promise!Spec
=============================================================================
