------------------------------- MODULE Pipes -------------------------------
(***************************************************************************)
(* pipe.c over io_select.c: struct pipes that carry bytes from one         *)
(* descriptor to another through a fifo, driven by the select loop of      *)
(* main().  A pipe reads when its source is readable, writes at once what  *)
(* it read, keeps the rest, asks for IO_WRITE while it keeps something and *)
(* gives up IO_READ (block_read) while it is full.                         *)
(*                                                                         *)
(* An atom (pipe_atom) may read for one pipe and write for another, as the *)
(* master pty does for input_master and master_output.  The fifo is the    *)
(* queue of BoundedQueue, which fifo.c implements (module Fifo).  The      *)
(* bytes that enter a pipe are numbered in the order they enter it.        *)
(*                                                                         *)
(* Each call of a handler is one step; what the operating system answers   *)
(* to its read() and write() is chosen in the step.                        *)
(***************************************************************************)
EXTENDS Integers, Sequences

CONSTANTS
  Pipes, Atoms,
  ReadAtom, WriteAtom,   \* the atom each pipe reads from, and writes to
  Capacity,              \* bytes a fifo holds: its size less one
  NDEBUG,                \* the production build, without asserts
  WriteSizes,            \* lengths of the blocks rzh itself gives to pipe_write
  Hangups,               \* atoms whose peer may end the data it sends
  Breaks,                \* atoms whose peer may stop receiving for good
  MaxBytes,              \* bound: bytes that ever enter one pipe
  MaxRoom                \* bound: bytes the kernel takes before it would block

ASSUME PipesAssumption ==
  /\ ReadAtom \in [Pipes -> Atoms] /\ WriteAtom \in [Pipes -> Atoms]
  /\ \A p, q \in Pipes : p # q => ReadAtom[p] # ReadAtom[q] /\ WriteAtom[p] # WriteAtom[q]
  /\ \A p \in Pipes : ReadAtom[p] # WriteAtom[p]
  /\ Capacity \in Nat \ {0} /\ MaxBytes \in Nat /\ MaxRoom \in Nat
  /\ NDEBUG \in BOOLEAN /\ WriteSizes \subseteq Nat \ {0}
  /\ Hangups \subseteq Atoms /\ Breaks \subseteq Atoms

VARIABLES
  fifo, block_read,      \* struct pipe
  conn,                  \* connections[]: the atoms whose descriptor is open and watched
  fd_read, fd_write,     \* what select is asked to watch
  gfd_read, gfd_write,   \* what it reported and io_dispatch has not handled yet
  inproc,                \* the atom whose pipe_io_proc has still to look at IO_WRITE, if any
  abort,                 \* which assert stopped the program
  inbox, eof,            \* kernel: bytes waiting to be read; peers that closed
  room, broken,          \* kernel: bytes it would take; peers that went away
  accepted, written,     \* history: bytes that entered a pipe, those that left it
  eofs,                  \* history: atoms closed because read() returned 0
  stuffed                \* history: pipes that pipe_write filled to the brim

state   == <<fifo, block_read, conn, fd_read, fd_write>>
kernel  == <<inbox, eof, room, broken>>
history == <<accepted, written, eofs, stuffed>>
vars == <<state, gfd_read, gfd_write, inproc, abort, kernel, history>>

-----------------------------------------------------------------------------
Fail == -1               \* read() or write() failed, with EAGAIN or EBADF
Epipe == -2              \* write() failed with EPIPE

Least(m, n) == IF m < n THEN m ELSE n
Positive(k) == IF k > 0 THEN k ELSE 0

\* Faulty variants, of this definition and below: a slip in the definition that follows.
fifo_avail_size(p) == Capacity + 1 - Len(fifo[p])

fifo_avail(p) == Capacity - Len(fifo[p])

\* The next n bytes to enter p, after skipping m.
Incoming(p, m, n) == [i \in 1..n |-> accepted[p] + m + i]

\* What read(fd, buf, n) may return; read(fd, buf, 0) is 0 like an end of file.
ReadResults(a, n) ==
  IF n = 0 THEN {0}
  ELSE IF inbox[a] > 0 THEN 1..Least(n, inbox[a])
  ELSE IF a \in eof THEN {0} ELSE {Fail}

\* What writing n > 0 bytes may return when the open atoms are c.
WriteResults(c, a, n) ==
  IF a \notin c THEN {Fail}
  ELSE IF a \in broken THEN {Epipe}
  ELSE IF room[a] = 0 THEN {Fail} ELSE 1..Least(n, room[a])

EnableNothing(set, a, c) == set

\* io_enable does nothing on an atom that was closed.
Enable(set, a, c) == IF a \in c THEN set \union {a} ELSE set
Disable(set, a) == set \ {a}

-----------------------------------------------------------------------------
Init ==
  /\ fifo = [p \in Pipes |-> <<>>] /\ block_read = [p \in Pipes |-> FALSE]
  /\ conn = Atoms
  /\ fd_read = {ReadAtom[p] : p \in Pipes} /\ fd_write = {}
  /\ gfd_read = {} /\ gfd_write = {} /\ inproc = {}
  /\ abort = "no"
  /\ inbox = [a \in Atoms |-> 0] /\ eof = {}
  /\ room = [a \in Atoms |-> MaxRoom] /\ broken = {}
  /\ accepted = [p \in Pipes |-> 0] /\ written = [p \in Pipes |-> <<>>]
  /\ eofs = {} /\ stuffed = {}

Waiting == abort = "no" /\ gfd_read = {} /\ gfd_write = {} /\ inproc = {}

Readable(a) == inbox[a] > 0 \/ a \in eof
Writable(a) == room[a] > 0 \/ a \in broken

\* select() returns once something it watches is ready, and reports all that is.
io_wait ==
  /\ Waiting
  /\ gfd_read' = {a \in fd_read : Readable(a)}
  /\ gfd_write' = {a \in fd_write : Writable(a)}
  /\ gfd_read' \union gfd_write' # {}
  /\ UNCHANGED <<state, inproc, abort, kernel, history>>

(***************************************************************************)
(* The fifo of p holds q and is written to its sink; the open atoms are c. *)
(* k is what write() answered.  Sets what pipe_fifo_write sets.            *)
(***************************************************************************)
LeftOfShortWrite(q, k) == IF k > 0 THEN <<>> ELSE q
LeftEverything(q, k) == q

Left(q, k) == SubSeq(q, Positive(k) + 1, Len(q))
StillOpen(p, c, k) == IF k = Epipe THEN c \ {WriteAtom[p]} ELSE c

pipe_fifo_write(p, q, c, k) ==
  /\ fifo' = [fifo EXCEPT ![p] = Left(q, k)]
  /\ written' = [written EXCEPT ![p] = @ \o SubSeq(q, 1, Positive(k))]
  /\ room' = [room EXCEPT ![WriteAtom[p]] = @ - Positive(k)]
  /\ conn' = StillOpen(p, c, k)

\* The program stops at a failed assert.
Abort(why) == abort' = why /\ UNCHANGED <<state, kernel, history>>

\* A full pipe gives up IO_READ on its source; it asks for it again when a write made
\* room, unless the source was closed (the open atoms are c).
StopReadingNothing(set, a) == set
StopReadingAll(set, a) == {}

StopReading(set, a) == Disable(set, a)
ResumesNever(p, c) == FALSE

Resumes(p, c) == block_read[p] /\ ReadAtom[p] \in c

\* p's source is readable, r is what read() returned, c the atoms open after it.
AfterRead(p, r) ==
  LET a == ReadAtom[p]
      w == WriteAtom[p]
      q == fifo[p] \o Incoming(p, 0, Positive(r))
      c == IF r = 0 THEN conn \ {a} ELSE conn
  IN  /\ inbox' = [inbox EXCEPT ![a] = @ - Positive(r)]
      /\ accepted' = [accepted EXCEPT ![p] = @ + Positive(r)]
      /\ eofs' = IF r = 0 THEN eofs \union {a} ELSE eofs
      /\ \/ /\ q = <<>>
            /\ conn' = c
            /\ fd_read' = fd_read \intersect c /\ fd_write' = fd_write \intersect c
            /\ UNCHANGED <<fifo, block_read, written, room>>
         \/ /\ q # <<>>
            /\ \E k \in WriteResults(c, w, Len(q)) :
                 LET full == Len(Left(q, k)) = Capacity
                 IN  /\ pipe_fifo_write(p, q, c, k)
                     /\ fd_write' = (IF Left(q, k) = <<>> THEN fd_write ELSE Enable(fd_write, w, c))
                                    \intersect conn'
                     /\ fd_read' = (IF full THEN StopReading(fd_read, a) ELSE fd_read) \intersect conn'
                     /\ block_read' = [block_read EXCEPT ![p] = @ \/ full]

pipe_auto_read_unchecked(p) ==
  /\ \E r \in ReadResults(ReadAtom[p], fifo_avail(p)) : AfterRead(p, r)
  /\ UNCHANGED <<abort, eof, broken, stuffed>>

pipe_auto_read(p) ==
  \/ /\ ~NDEBUG /\ fifo_avail(p) = 0
     /\ Abort("full before read")
  \/ /\ NDEBUG \/ fifo_avail(p) > 0
     /\ \E r \in ReadResults(ReadAtom[p], fifo_avail(p)) : AfterRead(p, r)
     /\ UNCHANGED <<abort, eof, broken, stuffed>>

pipe_auto_write(p) ==
  LET a == ReadAtom[p]
      w == WriteAtom[p]
      q == fifo[p]
  IN  \E k \in IF q = <<>> THEN {0} ELSE WriteResults(conn, w, Len(q)) :
        LET full == Len(Left(q, k)) = Capacity
            resume == Resumes(p, StillOpen(p, conn, k))
        IN  \/ ~NDEBUG /\ full /\ Abort("full after write")
            \/ /\ NDEBUG \/ ~full
               /\ pipe_fifo_write(p, q, conn, k)
               /\ block_read' = [block_read EXCEPT ![p] = @ /\ ~resume]
               /\ fd_read' = (IF resume THEN Enable(fd_read, a, conn) ELSE fd_read) \intersect conn'
               /\ fd_write' = (IF Left(q, k) = <<>> THEN Disable(fd_write, w) ELSE fd_write)
                              \intersect conn'
               /\ UNCHANGED <<abort, inbox, eof, broken, accepted, eofs, stuffed>>

-----------------------------------------------------------------------------
(***************************************************************************)
(* io_dispatch calls pipe_io_proc once for an atom, and that looks at      *)
(* IO_READ, then at IO_WRITE.  Only before the call is the atom known to   *)
(* be connected.                                                           *)
(***************************************************************************)
DispatchRead(a) ==
  /\ abort = "no" /\ inproc = {}
  /\ a \in gfd_read /\ a \in conn
  /\ gfd_read' = gfd_read \ {a}
  /\ inproc' = gfd_write \intersect {a}
  /\ \E p \in Pipes : ReadAtom[p] = a /\ pipe_auto_read(p)
  /\ UNCHANGED gfd_write

DispatchWrite(a) ==
  /\ abort = "no"
  /\ a \in gfd_write
  /\ inproc = {a} \/ (inproc = {} /\ a \in conn /\ a \notin gfd_read)
  /\ gfd_write' = gfd_write \ {a}
  /\ inproc' = {}
  /\ \E p \in Pipes : WriteAtom[p] = a /\ pipe_auto_write(p)
  /\ UNCHANGED gfd_read

\* "got an event on an unknown connection"
DispatchStale(a) ==
  /\ abort = "no" /\ inproc = {}
  /\ a \in gfd_read \union gfd_write /\ a \notin conn
  /\ gfd_read' = gfd_read \ {a} /\ gfd_write' = gfd_write \ {a}
  /\ UNCHANGED <<state, inproc, abort, kernel, history>>

(***************************************************************************)
(* rzh puts a block of n bytes into p itself (the progress line, the bytes *)
(* saved after a ZFIN), between two rounds of the loop.  What does not fit *)
(* is dropped.                                                             *)
(***************************************************************************)
pipe_write(p, n) ==
  LET w == WriteAtom[p]
  IN  /\ Waiting
      /\ accepted[p] + n <= MaxBytes
      /\ \E k \in IF fifo[p] = <<>> THEN WriteResults(conn, w, n) ELSE {0} :
           LET sent == Positive(k)
               kept == Least(n - sent, fifo_avail(p))
           IN  /\ fifo' = [fifo EXCEPT ![p] = @ \o Incoming(p, sent, kept)]
               /\ written' = [written EXCEPT ![p] = @ \o Incoming(p, 0, sent)]
               /\ accepted' = [accepted EXCEPT ![p] = @ + sent + kept]
               /\ room' = [room EXCEPT ![w] = @ - sent]
               /\ fd_write' = IF n = sent THEN Disable(fd_write, w) ELSE Enable(fd_write, w, conn)
               /\ stuffed' = IF kept = fifo_avail(p) THEN stuffed \union {p} ELSE stuffed
      /\ UNCHANGED <<block_read, conn, fd_read, gfd_read, gfd_write, inproc, abort,
                     inbox, eof, broken, eofs>>

-----------------------------------------------------------------------------
\* The other ends of the descriptors.
Arrive(a) ==
  /\ a \notin eof
  /\ \E p \in Pipes : ReadAtom[p] = a /\ accepted[p] + inbox[a] < MaxBytes
  /\ inbox' = [inbox EXCEPT ![a] = @ + 1]
  /\ UNCHANGED <<state, gfd_read, gfd_write, inproc, abort, eof, room, broken, history>>

Consume(a) ==
  /\ room[a] < MaxRoom
  /\ room' = [room EXCEPT ![a] = @ + 1]
  /\ UNCHANGED <<state, gfd_read, gfd_write, inproc, abort, inbox, eof, broken, history>>

HangUp(a) ==
  /\ a \in Hangups \ eof
  /\ eof' = eof \union {a}
  /\ UNCHANGED <<state, gfd_read, gfd_write, inproc, abort, inbox, room, broken, history>>

Break(a) ==
  /\ a \in Breaks \ broken
  /\ broken' = broken \union {a}
  /\ UNCHANGED <<state, gfd_read, gfd_write, inproc, abort, inbox, eof, room, history>>

Dispatch == \E a \in Atoms : DispatchRead(a) \/ DispatchWrite(a) \/ DispatchStale(a)
Loop == io_wait \/ Dispatch
Environment == \E a \in Atoms : Arrive(a) \/ Consume(a) \/ HangUp(a) \/ Break(a)

Next == \/ Loop
        \/ \E p \in Pipes, n \in WriteSizes : pipe_write(p, n)
        \/ Environment

Spec == Init /\ [][Next]_vars

-----------------------------------------------------------------------------
(***************************************************************************)
(* Fairness: the loop of main() never stops by itself, and the terminal,   *)
(* the shell and rz take the bytes the kernel holds for them.              *)
(***************************************************************************)
FairSpec == Spec /\ WF_vars(Loop) /\ \A a \in Atoms : WF_vars(Consume(a))

-----------------------------------------------------------------------------
TypeOK ==
  /\ fifo \in [Pipes -> Seq(Nat)] /\ \A p \in Pipes : Len(fifo[p]) <= Capacity
  /\ block_read \in [Pipes -> BOOLEAN]
  /\ conn \subseteq Atoms
  /\ fd_read \subseteq conn /\ fd_write \subseteq conn
  /\ gfd_read \subseteq Atoms /\ gfd_write \subseteq Atoms /\ inproc \subseteq gfd_write
  /\ abort \in {"no", "full before read", "full after write"}
  /\ inbox \in [Atoms -> Nat] /\ room \in [Atoms -> Nat]
  /\ eof \subseteq Atoms /\ broken \subseteq Atoms /\ eofs \subseteq Atoms /\ stuffed \subseteq Pipes
  /\ accepted \in [Pipes -> Nat] /\ written \in [Pipes -> Seq(Nat)]

(***************************************************************************)
(* A pipe is a pipe: the bytes its sink got, followed by the bytes it      *)
(* still holds, are the bytes that entered it, in order, none twice, none  *)
(* missing; through partial writes, EAGAIN, EPIPE, EOF and pipe_write.     *)
(***************************************************************************)
Conservation ==
  \A p \in Pipes : written[p] \o fifo[p] = [i \in 1..accepted[p] |-> i]

(***************************************************************************)
(* No byte is forgotten and no reader is: a pipe that holds bytes and has  *)
(* a sink is waiting for IO_WRITE, and it has given up IO_READ on an open  *)
(* source exactly while block_read says so, which it does only when full.  *)
(* Otherwise the transfer would freeze, or spin.                           *)
(***************************************************************************)
FlowControl ==
  \A p \in Pipes :
    /\ fifo[p] # <<>> /\ WriteAtom[p] \in conn => WriteAtom[p] \in fd_write
    /\ ReadAtom[p] \in conn => (ReadAtom[p] \in fd_read <=> ~block_read[p])
    /\ ReadAtom[p] \in conn /\ block_read[p] => Len(fifo[p]) = Capacity

(***************************************************************************)
(* The assert of pipe_auto_read, that there is room when the source is     *)
(* readable, can fail only after pipe_write has filled a fifo: pipe_write  *)
(* does not give up IO_READ as pipe_auto_read does.                        *)
(***************************************************************************)
ReadAssertCause == abort = "full before read" => stuffed # {}

(***************************************************************************)
(* The assert of pipe_auto_write, that a write event makes room, can fail  *)
(* only when the sink is gone: an operating system that reports writable   *)
(* descriptors truthfully is enough for the rest.                          *)
(***************************************************************************)
WriteAssertCause ==
  abort = "full after write" =>
    \E p \in Pipes : /\ Len(fifo[p]) = Capacity
                     /\ WriteAtom[p] \in broken \/ WriteAtom[p] \notin conn

(***************************************************************************)
(* A source is closed for an end of file only when its peer did close and  *)
(* every byte it sent has been read: "the 0-byte read indicates EOF".      *)
(***************************************************************************)
EofIsReal == \A a \in eofs : a \in eof /\ inbox[a] = 0

(***************************************************************************)
(* What the loop relies on between select and the handlers: a source it    *)
(* reported is still watched when its turn comes, and a sink it reported   *)
(* still takes a byte unless the pipe has room anyway.                     *)
(***************************************************************************)
SnapshotHolds ==
  /\ gfd_read \intersect conn \subseteq fd_read
  /\ \A p \in Pipes :
       WriteAtom[p] \in gfd_write \intersect conn =>
         \/ Writable(WriteAtom[p])
         \/ fifo_avail(p) > 0 /\ ReadAtom[p] \notin gfd_read

(***************************************************************************)
(* Every byte the source sends, and every byte pipe_write keeps, reaches   *)
(* the sink, as long as the sink goes on receiving.                        *)
(***************************************************************************)
Delivery ==
  \A p \in Pipes : \A n \in 1..MaxBytes :
    accepted[p] + inbox[ReadAtom[p]] >= n ~> Len(written[p]) >= n
=============================================================================
