---------------------------- MODULE BoundedFifo ----------------------------
(***************************************************************************)
(* What Dss::Processing::BoundedChannel promises to its callers: a FIFO    *)
(* queue of at most Capacity elements that can be closed and reopened.     *)
(* Blocking, condition variables and the ring buffer are not visible here. *)
(* BoundedChannel is shown to implement this specification, and            *)
(* ImageProcessor uses its actions as the frame channel.                   *)
(***************************************************************************)
EXTENDS Naturals, Sequences

CONSTANTS Values,    \* the elements that are ever put into the channel
          Capacity   \* the template argument Capacity

VARIABLES queue,     \* the elements not taken yet, oldest first
          closed     \* m_closed

fifoVars == <<queue, closed>>

FifoInit == queue = <<>> /\ closed = FALSE

HasRoom == ~closed /\ Len(queue) < Capacity

\* A successful push or tryPush.
Enqueue(v) == /\ HasRoom
              /\ queue' = Append(queue, v)
              /\ UNCHANGED closed

\* A successful pop or tryPop; a closed channel can still be emptied.
Dequeue == /\ queue # <<>>
           /\ queue' = Tail(queue)
           /\ UNCHANGED closed

ClearAll == queue' = <<>> /\ UNCHANGED closed

Close == closed' = TRUE /\ UNCHANGED queue

Open == closed' = FALSE /\ UNCHANGED queue

FifoNext == \/ \E v \in Values : Enqueue(v)
            \/ Dequeue
            \/ ClearAll
            \/ Close
            \/ Open

FifoSpec == FifoInit /\ [][FifoNext]_fifoVars
=============================================================================
