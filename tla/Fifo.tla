-------------------------------- MODULE Fifo --------------------------------
(***************************************************************************)
(* fifo.c: the ring buffer under both of rzh's pipes.  The state is        *)
(* struct fifo (buf, beg, end; size is the constant Size), one action per  *)
(* routine.  The fifo_unsafe_ routines carry the guard their comments ask  *)
(* the caller for ("make sure there's room", "make sure there's data").    *)
(* moved holds the bytes the last routine put in, or took out for its      *)
(* caller or the operating system.                                         *)
(***************************************************************************)
EXTENDS Integers, Sequences

CONSTANTS Byte, Size

ASSUME SizeAssumption == Size \in Nat \ {0}

VARIABLES buf, beg, end, moved

vars == <<buf, beg, end, moved>>

Index == 0..Size - 1

CountOf(b, e) == (Size + e - b) % Size
AvailOf(b, e) == (Size + b - e - 1) % Size

fifo_count == CountOf(beg, end)
fifo_avail == AvailOf(beg, end)

\* The bytes from index b up to, and without, index e, around the ring.
Contents(bf, b, e) == [i \in 1..CountOf(b, e) |-> bf[(b + i - 1) % Size]]

\* n bytes of the array from index at on, without wrapping.
Region(bf, at, n) == [i \in 1..n |-> bf[at + i - 1]]

\* memcpy(bf + at, s, Len(s))
memcpy(bf, at, s) ==
  [j \in DOMAIN bf |-> IF j - at \in 0..Len(s) - 1 THEN s[j - at + 1] ELSE bf[j]]

\* Faulty variant: the piece beyond the end of the array is forgotten.
StoreUnsplit(bf, at, s) == memcpy(bf, at, s)

\* A block is stored from index at on, in two pieces when it meets the end of the array.
Store(bf, at, s) ==
  LET n == Size - at
  IN  IF at + Len(s) > Size
      THEN memcpy(memcpy(bf, at, SubSeq(s, 1, n)), 0, SubSeq(s, n + 1, Len(s)))
      ELSE memcpy(bf, at, s)

\* A block is stored in front of index b, likewise.
StoreBefore(bf, b, s) ==
  LET n == Len(s) - b
  IN  IF b < Len(s)
      THEN memcpy(memcpy(bf, 0, SubSeq(s, n + 1, Len(s))), Size - n, SubSeq(s, 1, n))
      ELSE memcpy(bf, b - Len(s), s)

\* The index n places before b.
Back(b, n) == IF b < n THEN Size - (n - b) ELSE b - n

\* What is copied out of the array from index at on, likewise in up to two pieces.
Load(bf, at, n) ==
  IF at + n > Size
  THEN Region(bf, at, Size - at) \o Region(bf, 0, n - (Size - at))
  ELSE Region(bf, at, n)

-----------------------------------------------------------------------------
fifo_init == /\ buf \in [Index -> Byte]       \* malloc: whatever was there
             /\ beg = 0 /\ end = 0
             /\ moved = <<>>

fifo_clear == /\ beg' = 0 /\ end' = 0
              /\ moved' = <<>>
              /\ UNCHANGED buf

\* Faulty variant: the end of the array is noticed one place too late.
fifo_addchar_late_wrap(c) ==
  /\ fifo_avail > 0
  /\ buf' = [buf EXCEPT ![end] = c]
  /\ end' = IF end = Size THEN 0 ELSE end + 1
  /\ moved' = <<c>>
  /\ UNCHANGED beg

fifo_unsafe_addchar(c) ==
  /\ fifo_avail > 0
  /\ buf' = [buf EXCEPT ![end] = c]
  /\ end' = IF end + 1 = Size THEN 0 ELSE end + 1
  /\ moved' = <<c>>
  /\ UNCHANGED beg

fifo_unsafe_getchar ==
  /\ fifo_count > 0
  /\ moved' = <<buf[beg]>>
  /\ beg' = IF beg + 1 = Size THEN 0 ELSE beg + 1
  /\ UNCHANGED <<buf, end>>

fifo_unsafe_append(s) ==
  /\ Len(s) <= fifo_avail
  /\ buf' = Store(buf, end, s)
  /\ end' = (end + Len(s)) % Size
  /\ moved' = s
  /\ UNCHANGED beg

fifo_unsafe_prepend(s) ==
  /\ Len(s) <= fifo_avail
  /\ buf' = StoreBefore(buf, beg, s)
  /\ beg' = Back(beg, Len(s))
  /\ moved' = s
  /\ UNCHANGED end

fifo_unsafe_unpend(n) ==
  /\ n <= fifo_count
  /\ moved' = Load(buf, beg, n)
  /\ beg' = (beg + n) % Size
  /\ UNCHANGED <<buf, end>>

\* read() delivers a block no longer than the room; without a fifo proc it is appended.
fifo_read(s) == s # <<>> /\ fifo_unsafe_append(s)

(***************************************************************************)
(* write() accepts any part of what it is offered (k = 0 also stands for   *)
(* an error).  The bytes up to the end of the array are offered first;     *)
(* only when all of those go is the wrapped part offered, by a second call.*)
(***************************************************************************)
fifo_write ==
  /\ UNCHANGED <<buf, end>>
  /\ \/ /\ beg < end
        /\ \E k \in 0..end - beg : beg' = beg + k /\ moved' = Region(buf, beg, k)
     \/ /\ beg > end
        /\ \E k \in 0..Size - beg :
             IF beg + k < Size
             THEN beg' = beg + k /\ moved' = Region(buf, beg, k)
             ELSE \E m \in 0..end :
                    beg' = m /\ moved' = Region(buf, beg, k) \o Region(buf, 0, m)
     \/ beg = end /\ UNCHANGED beg /\ moved' = <<>>

-----------------------------------------------------------------------------
\* The blocks the array can hold; the routines' guards select those that fit.
Block == UNION {[1..n -> Byte] : n \in 0..Size - 1}

Init == fifo_init

Next == \/ fifo_clear
        \/ \E c \in Byte : fifo_unsafe_addchar(c)
        \/ fifo_unsafe_getchar
        \/ \E s \in Block : fifo_unsafe_append(s)
        \/ \E s \in Block : fifo_unsafe_prepend(s)
        \/ \E n \in 0..Size - 1 : fifo_unsafe_unpend(n)
        \/ \E s \in Block : fifo_read(s)
        \/ fifo_write

Spec == Init /\ [][Next]_vars

-----------------------------------------------------------------------------
(***************************************************************************)
(* The indices stay inside the array, whatever sequence of routines runs:  *)
(* fifo_unsafe_addchar and getchar wrap by comparison, the block routines  *)
(* by %, fifo_write by assignment, and all of them must agree.             *)
(***************************************************************************)
TypeOK == /\ buf \in [Index -> Byte]
          /\ beg \in Index /\ end \in Index
          /\ moved \in Seq(Byte)

(***************************************************************************)
(* The ring buffer is a queue of Size - 1 bytes: nothing is lost, doubled  *)
(* or reordered where a block crosses the end of the array, where write()  *)
(* takes only part of it, or where the buffer is exactly full or empty.    *)
(***************************************************************************)
Queue == INSTANCE BoundedQueue
           WITH Capacity <- Size - 1, queue <- Contents(buf, beg, end), moved <- moved

ImplementsQueue == Queue!QSpec
=============================================================================
