----------------------------- MODULE LossyFifo -----------------------------
(***************************************************************************)
(* What libairspyhf promises about the stream of sample blocks, with no    *)
(* ring, buffers, threads or locks.  The blocks of a session are numbered  *)
(* 1, 2, 3, ... as they arrive.  At most Capacity of them are held for the *)
(* application (waiting or being processed by its callback); a block that  *)
(* arrives when that many are held is lost.  The application is handed the *)
(* held blocks in the order of arrival, each with the exact number of      *)
(* blocks lost since the one it was handed before, so that it always knows *)
(* its position in the stream.  The promise begins with a session; when it *)
(* may end is not said here, except that it is not while a block that it   *)
(* covers is being processed.                                              *)
(***************************************************************************)
EXTENDS Integers, Sequences

CONSTANT Capacity

VARIABLES
  promised,  \* the promise is in force
  arrived,   \* number of blocks that have arrived in this session
  queue,     \* numbers of the blocks waiting for the application, oldest first
  position,  \* number of the block the application was handed last
  reported,  \* number of lost blocks it was told of with that block
  holding    \* the application is processing that block

vars == <<promised, arrived, queue, position, reported, holding>>

Held == Len(queue) + (IF holding THEN 1 ELSE 0)

Nothing ==
  /\ arrived = 0
  /\ queue = <<>>
  /\ position = 0
  /\ reported = 0
  /\ holding = FALSE

Init == promised = FALSE /\ Nothing

(* A session begins. *)
Begin ==
  /\ ~promised
  /\ promised' = TRUE
  /\ Nothing'

(* A block arrives: it is kept exactly when there is room. *)
Arrive ==
  /\ promised
  /\ arrived' = arrived + 1
  /\ queue' = IF Held < Capacity THEN Append(queue, arrived + 1) ELSE queue
  /\ UNCHANGED <<promised, position, reported, holding>>

(* The oldest waiting block is handed over with the loss that preceded it. *)
HandOver ==
  /\ promised
  /\ ~holding
  /\ queue # <<>>
  /\ position' = Head(queue)
  /\ reported' = Head(queue) - position - 1
  /\ queue' = Tail(queue)
  /\ holding' = TRUE
  /\ UNCHANGED <<promised, arrived>>

(* The application is done with the block. *)
Return ==
  /\ promised
  /\ holding
  /\ holding' = FALSE
  /\ UNCHANGED <<promised, arrived, queue, position, reported>>

(* The promise ends. *)
End ==
  /\ promised
  /\ ~holding
  /\ promised' = FALSE
  /\ Nothing'

Next == Begin \/ Arrive \/ HandOver \/ Return \/ End

Spec == Init /\ [][Next]_vars
=============================================================================
