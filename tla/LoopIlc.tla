------------------------------ MODULE LoopIlc ------------------------------
(***************************************************************************)
(* Inter-loop communication (src/src/loop.c): any thread hands a loop a    *)
(* message, a struct ilc whose callback the loop's thread will run.  The   *)
(* pointer is written to a FIFO that neither side blocks on; the loop      *)
(* reads as many pointers as its buffer holds, runs their callbacks, and   *)
(* doubles the buffer when a read filled it.  Writes and reads move whole  *)
(* pointers, and each is one step of the kernel.                           *)
(***************************************************************************)
EXTENDS Integers, Sequences

CONSTANTS
  Ilcs,       \* the struct ilc objects
  FifoCap,    \* pointers the FIFO holds (64 KiB / 8 on Linux)
  InitBatch   \* pointers the first buffer holds (a page / 8)

ASSUME IlcAssumption == FifoCap \in Nat \ {0} /\ InitBatch \in Nat \ {0}

VARIABLES
  fifo,      \* the pointers in the FIFO
  batch,     \* the pointers the last read left in loop->ilc; <<>> when done
  current,   \* i + 1 of the callback that runs; 0 when none does
  batchSize  \* loop->ilc_size, in pointers

ilcVars == <<fifo, batch, current, batchSize>>

Least(a, b) == IF a <= b THEN a ELSE b

-----------------------------------------------------------------------------
(* add_ilc returns 0 *)
Post(m) ==
  /\ Len(fifo) < FifoCap
  /\ fifo' = Append(fifo, m)
  /\ UNCHANGED <<batch, current, batchSize>>

(* add_ilc returns -1: the FIFO is full *)
PostRefused ==
  /\ Len(fifo) = FifoCap
  /\ UNCHANGED ilcVars

(* Mutant: what does not fit the buffer is thrown away. *)
ReadBatchDrops ==
  /\ current = 0
  /\ fifo # <<>>
  /\ batch' = SubSeq(fifo, 1, Least(Len(fifo), batchSize))
  /\ fifo' = <<>>
  /\ current' = 1
  /\ UNCHANGED batchSize

(* __ilc_callback reads the FIFO and calls the first callback. *)
ReadBatch ==
  /\ current = 0
  /\ fifo # <<>>
  /\ LET n == Least(Len(fifo), batchSize)
     IN  /\ batch' = SubSeq(fifo, 1, n)
         /\ fifo' = SubSeq(fifo, n + 1, Len(fifo))
  /\ current' = 1
  /\ UNCHANGED batchSize

(* The callback returns and the next one of the batch is called. *)
NextIlc ==
  /\ 0 < current /\ current < Len(batch)
  /\ current' = current + 1
  /\ UNCHANGED <<fifo, batch, batchSize>>

(* Mutant: the buffer is doubled whether it was full or not. *)
LastIlcGrows ==
  /\ 0 < current /\ current = Len(batch)
  /\ current' = 0
  /\ batch' = <<>>
  /\ batchSize' = 2 * batchSize
  /\ UNCHANGED fifo

(* Mutant: the rest of the batch may be left unread. *)
LastIlcTooEarly ==
  /\ 0 < current /\ current <= Len(batch)
  /\ current' = 0
  /\ batch' = <<>>
  /\ batchSize' = IF Len(batch) = batchSize THEN 2 * batchSize ELSE batchSize
  /\ UNCHANGED fifo

(* The last callback returns; a buffer that was full is doubled if realloc *)
(* can.                                                                    *)
LastIlc ==
  /\ 0 < current /\ current = Len(batch)
  /\ current' = 0
  /\ batch' = <<>>
  /\ \/ batchSize' = batchSize
     \/ Len(batch) = batchSize /\ batchSize' = 2 * batchSize
  /\ UNCHANGED fifo

-----------------------------------------------------------------------------
IlcInit ==
  /\ fifo = <<>>
  /\ batch = <<>>
  /\ current = 0
  /\ batchSize = InitBatch

IlcNext ==
  \/ \E m \in Ilcs : Post(m)
  \/ PostRefused
  \/ ReadBatch \/ NextIlc \/ LastIlc

IlcSpec == IlcInit /\ [][IlcNext]_ilcVars

-----------------------------------------------------------------------------
IlcTypeOK ==
  /\ fifo \in Seq(Ilcs) /\ Len(fifo) <= FifoCap
  /\ batch \in Seq(Ilcs) /\ Len(batch) <= FifoCap
  /\ current \in 0..Len(batch)
  /\ batchSize \in Nat \ {0}

(* The batch never is longer than the buffer it was read into, and the     *)
(* doubling stops: the buffer never exceeds twice what the FIFO can hold   *)
(* (or its first size), however long the loop runs under load.             *)
BufferBounded ==
  /\ Len(batch) <= batchSize
  /\ batchSize <= 2 * FifoCap \/ batchSize = InitBatch

(* Between two drains nothing is left in the buffer.  Not a property of    *)
(* interest, but an invariant that the refinement rests on.                *)
BetweenDrains == current = 0 => batch = <<>>

(***************************************************************************)
(* FIFO and buffer together implement one queue, from which messages are   *)
(* run one at a time, each accepted message once and in the order in which *)
(* it was accepted.                                                        *)
(***************************************************************************)
queueOf == SubSeq(batch, current + 1, Len(batch)) \o fifo
runningOf == SubSeq(batch, current, current)

Channel == INSTANCE IlcChannel
             WITH Messages <- Ilcs, queue <- queueOf,
                  running <- IF current = 0 THEN <<>> ELSE runningOf

ImplementsIlcChannel == Channel!ChannelSpec
=============================================================================
