---------------------------- MODULE BoundedQueue ----------------------------
(***************************************************************************)
(* What fifo.h promises: a byte queue that holds at most Capacity bytes,   *)
(* gives bytes out in the order they were put in, and can also be given    *)
(* bytes back at the front.  moved is what the last operation was given    *)
(* by its caller, or handed out to it.                                     *)
(* Nothing here mentions indices, wrap-around or the array.                *)
(***************************************************************************)
EXTENDS Naturals, Sequences

CONSTANTS Byte,       \* the bytes
          Capacity    \* how many of them fit

VARIABLES queue,      \* the bytes held, oldest first
          moved       \* the bytes the last operation put in or took out

qvars == <<queue, moved>>

\* The blocks that still fit.
Fitting == UNION {[1..n -> Byte] : n \in 0..(Capacity - Len(queue))}

QInit == queue = <<>> /\ moved = <<>>

Put(s) == queue' = queue \o s /\ moved' = s

PutFront(s) == queue' = s \o queue /\ moved' = s

Take(n) == /\ moved' = SubSeq(queue, 1, n)
           /\ queue' = SubSeq(queue, n + 1, Len(queue))

Discard == queue' = <<>> /\ moved' = <<>>

QNext == \/ \E s \in Fitting : Put(s) \/ PutFront(s)
         \/ \E n \in 0..Len(queue) : Take(n)
         \/ Discard

QSpec == QInit /\ [][QNext]_qvars
=============================================================================
