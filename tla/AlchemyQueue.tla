---------------------------- MODULE AlchemyQueue ----------------------------
(***************************************************************************)
(* The part of a Xenomai/Alchemy RT_QUEUE that the audio tasks rely on.    *)
(* The library is not part of the program: it is modelled from how         *)
(* audio_setup.c calls it and from the declarations of alchemy/queue.h.    *)
(*                                                                         *)
(* A queue is a pool of equal message buffers and a list of the messages   *)
(* sent and not received yet.  A handle is "none" before rt_queue_create   *)
(* and "deleted" after rt_queue_delete.                                    *)
(***************************************************************************)
EXTENDS Integers, Sequences

\* The queues that carry messages of the set Msg.
Queues(Msg) == [state : {"none", "open", "deleted"}, msgs : Seq(Msg), free : Nat]

\* The handle in the private data before anybody created the queue.
NoQueue == [state |-> "none", msgs |-> << >>, free |-> 0]

\* rt_queue_create(.., Q_UNLIMITED, Q_FIFO) with a pool of n buffers.
Created(n) == [state |-> "open", msgs |-> << >>, free |-> n]

\* rt_queue_delete: the pool and the pending messages are gone.  (Kept: the
\* call forgotten.)
Kept(q) == q
Delete(q) == [state |-> "deleted", msgs |-> << >>, free |-> 0]

IsOpen(q) == q.state = "open"

\* rt_queue_alloc never blocks: it returns NULL when the pool is empty.
\* (CanAllocUnchecked: the test forgotten; CanAllocTwo: off by one.)
CanAllocUnchecked(q) == IsOpen(q)
CanAllocTwo(q) == IsOpen(q) /\ q.free > 1
CanAlloc(q) == IsOpen(q) /\ q.free > 0
Alloc(q) == [q EXCEPT !.free = @ - 1]

\* rt_queue_send(.., Q_NORMAL) appends to the FIFO; Q_URGENT would jump it.
SendUrgent(q, m) == [q EXCEPT !.msgs = << m >> \o @]
Send(q, m) == [q EXCEPT !.msgs = Append(@, m)]

\* rt_queue_receive hands out the oldest message; its buffer stays taken.
\* (HasTwoMessages: a receive that keeps the last message back.)
HasTwoMessages(q) == IsOpen(q) /\ Len(q.msgs) > 1
HasMessage(q) == IsOpen(q) /\ q.msgs # << >>
Received(q) == [q EXCEPT !.msgs = Tail(@)]

\* rt_queue_free gives a buffer back; on a deleted queue it only fails.
Freed(q) == IF IsOpen(q) THEN [q EXCEPT !.free = @ + 1] ELSE q

=============================================================================
