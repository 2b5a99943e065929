---------------------------- MODULE PipesProofs ----------------------------
(***************************************************************************)
(* The safety of Pipes for any pipes, atoms and topology, any capacity and *)
(* any sequence of operating system answers.                               *)
(***************************************************************************)
EXTENDS Pipes, SequenceTheorems, TLAPS

\* The numbers of the first n bytes.
Upto(n) == [i \in 1..n |-> i]

-----------------------------------------------------------------------------
\* Bytes numbered n+1, n+2, ... continue the first n.
LEMMA UptoExtends ==
  ASSUME NEW n \in Nat, NEW m \in Nat
  PROVE  /\ Upto(n) \in Seq(Nat)
         /\ Upto(n) \o [i \in 1..m |-> n + i] = Upto(n + m)
<1> DEFINE s == Upto(n)
           t == [i \in 1..m |-> n + i]
           u == Upto(n + m)
<1>1. s \in Seq(Nat) /\ Len(s) = n /\ \A i \in 1..n : s[i] = i
  BY DEF Upto
<1>2. t \in Seq(Nat) /\ Len(t) = m /\ \A i \in 1..m : t[i] = n + i
  OBVIOUS
<1>3. u \in Seq(Nat) /\ Len(u) = n + m /\ \A i \in 1..n + m : u[i] = i
  BY DEF Upto
<1> HIDE DEF s, t, u
<1>4. /\ s \o t \in Seq(Nat) /\ Len(s \o t) = Len(s) + Len(t)
      /\ \A i \in 1..Len(s) + Len(t) : (s \o t)[i] = IF i <= Len(s) THEN s[i] ELSE t[i - Len(s)]
  BY <1>1, <1>2, ConcatProperties
<1>5. ASSUME NEW i \in 1..n + m PROVE (s \o t)[i] = u[i]
  <2>1. CASE i <= n
    BY <2>1, <1>1, <1>2, <1>3, <1>4
  <2>2. CASE ~(i <= n)
    <3>1. i - n \in 1..m
      BY <2>2
    <3> QED BY <3>1, <2>2, <1>1, <1>2, <1>3, <1>4
  <2> QED BY <2>1, <2>2
<1>6. s \o t = u
  BY <1>1, <1>2, <1>3, <1>4, <1>5, SeqEqual
<1> QED BY <1>1, <1>6 DEF s, t, u

\* Cutting a sequence in two loses nothing.
LEMMA Cut ==
  ASSUME NEW q \in Seq(Nat), NEW k \in 0..Len(q)
  PROVE  /\ SubSeq(q, 1, k) \in Seq(Nat) /\ Len(SubSeq(q, 1, k)) = k
         /\ SubSeq(q, k + 1, Len(q)) \in Seq(Nat) /\ Len(SubSeq(q, k + 1, Len(q))) = Len(q) - k
         /\ SubSeq(q, 1, k) \o SubSeq(q, k + 1, Len(q)) = q
<1>0. Len(q) \in Nat /\ k \in Int /\ 1 \in Int /\ k + 1 \in Int /\ Len(q) \in Int
  OBVIOUS
<1>1. /\ SubSeq(q, 1, k) \in Seq(Nat)
      /\ Len(SubSeq(q, 1, k)) = IF 1 <= k THEN k - 1 + 1 ELSE 0
  <2>1. \A i \in 1..k : q[i] \in Nat
    BY <1>0
  <2> QED BY <1>0, <2>1, SubSeqProperties
<1>2. /\ SubSeq(q, k + 1, Len(q)) \in Seq(Nat)
      /\ Len(SubSeq(q, k + 1, Len(q))) = IF k + 1 <= Len(q) THEN Len(q) - (k + 1) + 1 ELSE 0
  <2>1. \A i \in k + 1..Len(q) : q[i] \in Nat
    BY <1>0
  <2> QED BY <1>0, <2>1, SubSeqProperties
<1>3. SubSeq(q, 1, k) \o SubSeq(q, k + 1, Len(q)) = SubSeq(q, 1, Len(q))
  <2>1. 1 \in 1..Len(q) + 1 /\ k \in 1 - 1..Len(q) /\ Len(q) \in k..Len(q)
    BY <1>0
  <2> QED BY <2>1, ConcatAdjacentSubSeq
<1>4. SubSeq(q, 1, Len(q)) = q
  BY SubSeqFull
<1>5. Len(SubSeq(q, 1, k)) = k
  <2>1. CASE k = 0
    BY <2>1, <1>0, <1>1
  <2>2. CASE 1 <= k
    BY <2>2, <1>0, <1>1
  <2> QED BY <2>1, <2>2
<1>6. Len(SubSeq(q, k + 1, Len(q))) = Len(q) - k
  <2>1. CASE k = Len(q)
    BY <2>1, <1>0, <1>2
  <2>2. CASE k + 1 <= Len(q)
    BY <2>2, <1>0, <1>2
  <2> QED BY <2>1, <2>2
<1> QED BY <1>1, <1>2, <1>3, <1>4, <1>5, <1>6

\* Joining two sequences adds their lengths.
LEMMA Joined ==
  ASSUME NEW s \in Seq(Nat), NEW t \in Seq(Nat)
  PROVE  s \o t \in Seq(Nat) /\ Len(s \o t) = Len(s) + Len(t)
BY ConcatProperties

\* It does not matter which two of three pieces of a stream are joined first.
LEMMA Associative ==
  ASSUME NEW w \in Seq(Nat), NEW s \in Seq(Nat), NEW t \in Seq(Nat)
  PROVE  (w \o s) \o t = w \o (s \o t)
BY ConcatAssociative, SMTT(30)

\* What fifo_write leaves is what the sink did not get.
LEMMA WriteKeeps ==
  ASSUME NEW q \in Seq(Nat), NEW w \in Seq(Nat), NEW k \in Int, Positive(k) \in 0..Len(q)
  PROVE  /\ Left(q, k) \in Seq(Nat) /\ Len(Left(q, k)) = Len(q) - Positive(k)
         /\ w \o SubSeq(q, 1, Positive(k)) \in Seq(Nat)
         /\ (w \o SubSeq(q, 1, Positive(k))) \o Left(q, k) = w \o q
<1> DEFINE n == Positive(k)
<1> HIDE DEF n
<1>1. n \in 0..Len(q)
  BY DEF n
<1>2. /\ SubSeq(q, 1, n) \in Seq(Nat) /\ Len(SubSeq(q, 1, n)) = n
      /\ SubSeq(q, n + 1, Len(q)) \in Seq(Nat) /\ Len(SubSeq(q, n + 1, Len(q))) = Len(q) - n
      /\ SubSeq(q, 1, n) \o SubSeq(q, n + 1, Len(q)) = q
  BY <1>1, Cut
<1> DEFINE s == SubSeq(q, 1, n)
           t == SubSeq(q, n + 1, Len(q))
<1> HIDE DEF s, t
<1>3. s \in Seq(Nat) /\ t \in Seq(Nat) /\ s \o t = q /\ Len(t) = Len(q) - n
  BY <1>2 DEF s, t
<1>4. w \o s \in Seq(Nat)
  BY <1>3
<1>5. (w \o s) \o t = w \o (s \o t)
  BY <1>3, Associative
<1>6. Left(q, k) = t
  BY DEF Left, t, n
<1> QED BY <1>3, <1>4, <1>5, <1>6 DEF s, n

\* A write of nothing leaves nothing.
LEMMA NothingLeft == Left(<<>>, 0) = <<>>
<1>1. Positive(0) = 0
  BY DEF Positive
<1>2. SubSeq(<<>>, 1, 0) = <<>>
  OBVIOUS
<1> QED BY <1>1, <1>2 DEF Left

\* What write() may answer.
LEMMA WriteResultsBound ==
  ASSUME NEW c, NEW a \in Atoms, NEW n \in Nat \ {0}, room \in [Atoms -> Nat],
         NEW k \in WriteResults(c, a, n)
  PROVE  k \in Int /\ Positive(k) \in 0..n /\ room[a] - Positive(k) \in Nat
<1>1. room[a] \in Nat
  OBVIOUS
<1>2. CASE k \in {Fail, Epipe}
  BY <1>1, <1>2 DEF Fail, Epipe, Positive
<1>3. CASE k \in 1..Least(n, room[a])
  BY <1>1, <1>3 DEF Least, Positive
<1> QED BY <1>2, <1>3 DEF WriteResults

\* What read() may answer.
LEMMA ReadResultsBound ==
  ASSUME NEW a \in Atoms, NEW n \in Nat, inbox \in [Atoms -> Nat], NEW r \in ReadResults(a, n)
  PROVE  r \in Int /\ Positive(r) \in 0..n /\ inbox[a] - Positive(r) \in Nat
<1>1. inbox[a] \in Nat
  OBVIOUS
<1>2. CASE r \in {0, Fail}
  BY <1>1, <1>2 DEF Fail, Positive
<1>3. CASE r \in 1..Least(n, inbox[a])
  BY <1>1, <1>3 DEF Least, Positive
<1> QED BY <1>2, <1>3 DEF ReadResults

-----------------------------------------------------------------------------
(***************************************************************************)
(* Type correctness and conservation are inductive together: what a sink   *)
(* got and what the fifo holds are two halves of what entered.  TypeOK is  *)
(* split into what the handlers change and what only the loop does.        *)
(***************************************************************************)
Queues ==
  /\ fifo \in [Pipes -> Seq(Nat)] /\ \A p \in Pipes : Len(fifo[p]) <= Capacity
  /\ block_read \in [Pipes -> BOOLEAN]
  /\ conn \subseteq Atoms
  /\ fd_read \subseteq conn /\ fd_write \subseteq conn
  /\ abort \in {"no", "full before read", "full after write"}
  /\ inbox \in [Atoms -> Nat] /\ room \in [Atoms -> Nat]
  /\ eof \subseteq Atoms /\ broken \subseteq Atoms /\ eofs \subseteq Atoms /\ stuffed \subseteq Pipes
  /\ accepted \in [Pipes -> Nat] /\ written \in [Pipes -> Seq(Nat)]

Report == gfd_read \subseteq Atoms /\ gfd_write \subseteq Atoms /\ inproc \subseteq gfd_write

Balanced == \A p \in Pipes : written[p] \o fifo[p] = Upto(accepted[p])

\* Every write of a fifo moves its front to what was written.
LEMMA WriteStep ==
  ASSUME Queues, NEW p \in Pipes, NEW q \in Seq(Nat), Len(q) <= Capacity,
         NEW c, c \subseteq Atoms, NEW k \in Int, Positive(k) \in 0..Len(q),
         room[WriteAtom[p]] - Positive(k) \in Nat, pipe_fifo_write(p, q, c, k)
  PROVE  /\ fifo' \in [Pipes -> Seq(Nat)] /\ \A x \in Pipes : Len(fifo'[x]) <= Capacity
         /\ written' \in [Pipes -> Seq(Nat)] /\ room' \in [Atoms -> Nat]
         /\ conn' \subseteq Atoms
         /\ written'[p] \o fifo'[p] = written[p] \o q
         /\ \A x \in Pipes \ {p} : fifo'[x] = fifo[x] /\ written'[x] = written[x]
<1>1. /\ fifo \in [Pipes -> Seq(Nat)] /\ written \in [Pipes -> Seq(Nat)]
      /\ \A x \in Pipes : Len(fifo[x]) <= Capacity
      /\ room \in [Atoms -> Nat] /\ written[p] \in Seq(Nat)
  BY DEF Queues
<1> DEFINE l == Left(q, k)
           s == written[p] \o SubSeq(q, 1, Positive(k))
<1>2. /\ l \in Seq(Nat) /\ Len(l) = Len(q) - Positive(k)
      /\ s \in Seq(Nat) /\ s \o l = written[p] \o q
  BY <1>1, WriteKeeps
<1>3. /\ fifo' = [fifo EXCEPT ![p] = l] /\ written' = [written EXCEPT ![p] = s]
      /\ room' = [room EXCEPT ![WriteAtom[p]] = @ - Positive(k)]
      /\ conn' = StillOpen(p, c, k)
  BY DEF pipe_fifo_write
<1>4. Len(l) <= Capacity
  <2>1. Len(q) \in Nat /\ Positive(k) \in Nat /\ Capacity \in Nat
    BY PipesAssumption
  <2> QED BY <1>2, <2>1
<1>5. conn' \subseteq Atoms
  BY <1>3 DEF StillOpen
<1> HIDE DEF l, s
<1>6. room' \in [Atoms -> Nat]
  BY <1>1, <1>3
<1>7. fifo' \in [Pipes -> Seq(Nat)] /\ fifo'[p] = l /\ \A x \in Pipes \ {p} : fifo'[x] = fifo[x]
  BY <1>1, <1>2, <1>3
<1>8. written' \in [Pipes -> Seq(Nat)] /\ written'[p] = s
      /\ \A x \in Pipes \ {p} : written'[x] = written[x]
  BY <1>1, <1>2, <1>3
<1>9. \A x \in Pipes : Len(fifo'[x]) <= Capacity
  BY <1>1, <1>4, <1>7
<1> QED BY <1>2, <1>5, <1>6, <1>7, <1>8, <1>9

\* The bytes of a read are the next in number, and fit.
LEMMA ReadAppends ==
  ASSUME Queues, Balanced, NEW p \in Pipes, NEW n \in Nat, n <= fifo_avail(p)
  PROVE  LET q == fifo[p] \o Incoming(p, 0, n)
         IN  /\ q \in Seq(Nat) /\ Len(q) = Len(fifo[p]) + n /\ Len(q) <= Capacity
             /\ written[p] \o q = Upto(accepted[p] + n)
<1>1. /\ fifo[p] \in Seq(Nat) /\ Len(fifo[p]) \in Nat /\ Len(fifo[p]) <= Capacity
      /\ written[p] \in Seq(Nat) /\ accepted[p] \in Nat /\ Capacity \in Nat
  <2>1. /\ fifo \in [Pipes -> Seq(Nat)] /\ Len(fifo[p]) <= Capacity
        /\ written \in [Pipes -> Seq(Nat)] /\ accepted \in [Pipes -> Nat]
    BY DEF Queues
  <2>2. Capacity \in Nat
    BY PipesAssumption
  <2> QED BY <2>1, <2>2
<1> DEFINE t == [i \in 1..n |-> accepted[p] + i]
           f == fifo[p]
           m == accepted[p]
<1>2. Incoming(p, 0, n) = t
  BY <1>1 DEF Incoming
<1>3. t \in Seq(Nat) /\ Len(t) = n
  BY <1>1
<1>4. Upto(m) \o t = Upto(m + n)
  BY <1>1, UptoExtends
<1>5. n <= Capacity - Len(f)
  BY DEF fifo_avail
<1>6. written[p] \o f = Upto(m)
  BY DEF Balanced
<1> HIDE DEF t, f, m
<1>7. f \in Seq(Nat) /\ Len(f) \in Nat
  BY <1>1 DEF f
<1>8. f \o t \in Seq(Nat) /\ Len(f \o t) = Len(f) + n
  BY <1>3, <1>7
<1>9. (written[p] \o f) \o t = written[p] \o (f \o t)
  BY <1>1, <1>3, <1>7, Associative
<1>10. Len(f) + n <= Capacity
  BY <1>1, <1>5, <1>7
<1> QED BY <1>2, <1>4, <1>6, <1>8, <1>9, <1>10 DEF f, m

-----------------------------------------------------------------------------
\* pipe_auto_read keeps every variable within its type and loses no byte.
LEMMA ReadHandler ==
  ASSUME Queues, Balanced, NEW p \in Pipes, pipe_auto_read(p)
  PROVE  Queues' /\ Balanced'
<1>1. CASE Abort("full before read")
  BY <1>1 DEF Abort, state, kernel, history, Queues, Balanced
<1>2. ASSUME NEW r \in ReadResults(ReadAtom[p], fifo_avail(p)), AfterRead(p, r),
             UNCHANGED <<abort, eof, broken, stuffed>>
      PROVE  Queues' /\ Balanced'
  <2> DEFINE a == ReadAtom[p]
             w == WriteAtom[p]
             n == Positive(r)
             q == fifo[p] \o Incoming(p, 0, n)
             c == IF r = 0 THEN conn \ {a} ELSE conn
  <2>1. /\ a \in Atoms /\ w \in Atoms /\ Capacity \in Nat
    BY PipesAssumption
  <2>2. /\ fifo \in [Pipes -> Seq(Nat)] /\ Len(fifo[p]) <= Capacity
        /\ inbox \in [Atoms -> Nat] /\ room \in [Atoms -> Nat] /\ accepted \in [Pipes -> Nat]
        /\ conn \subseteq Atoms /\ eofs \subseteq Atoms /\ block_read \in [Pipes -> BOOLEAN]
        /\ fd_read \subseteq conn /\ fd_write \subseteq conn
    BY DEF Queues
  <2>3. fifo_avail(p) \in Nat
    BY <2>1, <2>2 DEF fifo_avail
  <2>4. n \in Nat /\ n <= fifo_avail(p) /\ inbox[a] - n \in Nat
    BY <1>2, <2>1, <2>2, <2>3, ReadResultsBound
  <2>5. /\ q \in Seq(Nat) /\ Len(q) = Len(fifo[p]) + n /\ Len(q) <= Capacity
        /\ written[p] \o q = Upto(accepted[p] + n)
    BY <2>4, ReadAppends
  <2>6. /\ inbox' = [inbox EXCEPT ![a] = @ - n] /\ accepted' = [accepted EXCEPT ![p] = @ + n]
        /\ eofs' = IF r = 0 THEN eofs \union {a} ELSE eofs
    BY <1>2 DEF AfterRead
  <2>7. /\ inbox' \in [Atoms -> Nat] /\ accepted' \in [Pipes -> Nat] /\ eofs' \subseteq Atoms
        /\ accepted'[p] = accepted[p] + n /\ \A x \in Pipes \ {p} : accepted'[x] = accepted[x]
    <3> HIDE DEF a, n
    <3> QED BY <2>1, <2>2, <2>4, <2>6
  <2>8. /\ abort' = abort /\ eof' = eof /\ broken' = broken /\ stuffed' = stuffed
    BY <1>2
  <2>9. CASE /\ q = <<>> /\ conn' = c
             /\ fd_read' = fd_read \intersect c /\ fd_write' = fd_write \intersect c
             /\ UNCHANGED <<fifo, block_read, written, room>>
    <3>1. n = 0
      <4>1. Len(q) = 0 /\ Len(fifo[p]) \in Nat
        BY <2>2, <2>9
      <4> QED BY <2>4, <2>5, <4>1
    <3>2. Balanced'
      <4>1. \A x \in Pipes : accepted'[x] = accepted[x]
        BY <2>2, <2>7, <3>1
      <4> QED BY <4>1, <2>9 DEF Balanced
    <3>3. Queues'
      BY <2>2, <2>7, <2>8, <2>9 DEF Queues
    <3> QED BY <3>2, <3>3
  <2>10. ASSUME q # <<>>, NEW k \in WriteResults(c, w, Len(q)), pipe_fifo_write(p, q, c, k),
                fd_write' = (IF Left(q, k) = <<>> THEN fd_write ELSE Enable(fd_write, w, c))
                            \intersect conn',
                fd_read' = (IF Len(Left(q, k)) = Capacity THEN StopReading(fd_read, a) ELSE fd_read)
                           \intersect conn',
                block_read' = [block_read EXCEPT ![p] = @ \/ Len(Left(q, k)) = Capacity]
         PROVE  Queues' /\ Balanced'
    <3>1. Len(q) \in Nat \ {0}
      BY <2>5, <2>10
    <3>2. k \in Int /\ Positive(k) \in 0..Len(q) /\ room[w] - Positive(k) \in Nat
      BY <2>1, <2>2, <2>10, <3>1, WriteResultsBound
    <3>3. c \subseteq Atoms
      BY <2>2
    <3>4. /\ fifo' \in [Pipes -> Seq(Nat)] /\ \A x \in Pipes : Len(fifo'[x]) <= Capacity
          /\ written' \in [Pipes -> Seq(Nat)] /\ room' \in [Atoms -> Nat]
          /\ conn' \subseteq Atoms
          /\ written'[p] \o fifo'[p] = written[p] \o q
          /\ \A x \in Pipes \ {p} : fifo'[x] = fifo[x] /\ written'[x] = written[x]
      <4> HIDE DEF q, c
      <4> QED BY <2>5, <2>10, <3>2, <3>3, WriteStep
    <3>5. fd_read' \subseteq conn' /\ fd_write' \subseteq conn'
      BY <2>10
    <3>6. block_read' \in [Pipes -> BOOLEAN]
      BY <2>2, <2>10
    <3>7. Queues'
      BY <2>7, <2>8, <3>4, <3>5, <3>6 DEF Queues
    <3>8. Balanced'
      <4> SUFFICES ASSUME NEW x \in Pipes PROVE written'[x] \o fifo'[x] = Upto(accepted'[x])
        BY DEF Balanced, Upto
      <4>1. CASE x = p
        BY <4>1, <2>5, <2>7, <3>4
      <4>2. CASE x # p
        BY <4>2, <2>7, <3>4 DEF Balanced
      <4> QED BY <4>1, <4>2
    <3> QED BY <3>7, <3>8
  <2> QED BY <1>2, <2>9, <2>10 DEF AfterRead
<1> QED BY <1>1, <1>2 DEF pipe_auto_read

\* pipe_auto_write keeps every variable within its type and loses no byte.
LEMMA WriteHandler ==
  ASSUME Queues, Balanced, NEW p \in Pipes, pipe_auto_write(p)
  PROVE  Queues' /\ Balanced'
<1> DEFINE a == ReadAtom[p]
           w == WriteAtom[p]
           q == fifo[p]
<1>1. /\ a \in Atoms /\ w \in Atoms
  BY PipesAssumption
<1>2. /\ fifo \in [Pipes -> Seq(Nat)] /\ Len(fifo[p]) <= Capacity
      /\ room \in [Atoms -> Nat] /\ accepted \in [Pipes -> Nat]
      /\ conn \subseteq Atoms /\ block_read \in [Pipes -> BOOLEAN]
      /\ fd_read \subseteq conn /\ fd_write \subseteq conn
  BY DEF Queues
<1>3. CASE Abort("full after write")
  BY <1>3 DEF Abort, state, kernel, history, Queues, Balanced
<1>4. ASSUME NEW k \in IF q = <<>> THEN {0} ELSE WriteResults(conn, w, Len(q)),
             NEW resume \in BOOLEAN,
             pipe_fifo_write(p, q, conn, k),
             block_read' = [block_read EXCEPT ![p] = @ /\ ~resume],
             fd_read' = (IF resume THEN Enable(fd_read, a, conn) ELSE fd_read) \intersect conn',
             fd_write' = (IF Left(q, k) = <<>> THEN Disable(fd_write, w) ELSE fd_write)
                         \intersect conn',
             UNCHANGED <<abort, inbox, eof, broken, accepted, eofs, stuffed>>
      PROVE  Queues' /\ Balanced'
  <2>1. k \in Int /\ Positive(k) \in 0..Len(q) /\ room[w] - Positive(k) \in Nat
    <3>1. CASE q = <<>>
      BY <3>1, <1>1, <1>2, <1>4 DEF Positive
    <3>2. CASE q # <<>>
      <4>1. Len(q) \in Nat \ {0}
        BY <1>2, <3>2
      <4> QED BY <3>2, <4>1, <1>1, <1>2, <1>4, WriteResultsBound
    <3> QED BY <3>1, <3>2
  <2>2. /\ fifo' \in [Pipes -> Seq(Nat)] /\ \A x \in Pipes : Len(fifo'[x]) <= Capacity
        /\ written' \in [Pipes -> Seq(Nat)] /\ room' \in [Atoms -> Nat]
        /\ conn' \subseteq Atoms
        /\ written'[p] \o fifo'[p] = written[p] \o q
        /\ \A x \in Pipes \ {p} : fifo'[x] = fifo[x] /\ written'[x] = written[x]
    <3>1. q \in Seq(Nat) /\ Len(q) <= Capacity /\ conn \subseteq Atoms
      BY <1>2
    <3> HIDE DEF q
    <3> QED BY <3>1, <1>4, <2>1, WriteStep
  <2>3. fd_read' \subseteq conn' /\ fd_write' \subseteq conn'
    BY <1>4
  <2>4. block_read' \in [Pipes -> BOOLEAN]
    BY <1>2, <1>4
  <2>5. Queues'
    BY <1>4, <2>2, <2>3, <2>4 DEF Queues
  <2>6. Balanced'
    <3> SUFFICES ASSUME NEW x \in Pipes PROVE written'[x] \o fifo'[x] = Upto(accepted'[x])
      BY DEF Balanced, Upto
    <3>1. accepted' = accepted
      BY <1>4
    <3>2. CASE x = p
      BY <3>1, <3>2, <2>2 DEF Balanced
    <3>3. CASE x # p
      BY <3>1, <3>3, <2>2 DEF Balanced
    <3> QED BY <3>2, <3>3
  <2> QED BY <2>5, <2>6
<1>5. PICK k \in IF q = <<>> THEN {0} ELSE WriteResults(conn, w, Len(q)) :
        LET full == Len(Left(q, k)) = Capacity
            resume == Resumes(p, StillOpen(p, conn, k))
        IN  \/ ~NDEBUG /\ full /\ Abort("full after write")
            \/ /\ NDEBUG \/ ~full
               /\ pipe_fifo_write(p, q, conn, k)
               /\ block_read' = [block_read EXCEPT ![p] = @ /\ ~resume]
               /\ fd_read' = (IF resume THEN Enable(fd_read, a, conn) ELSE fd_read) \intersect conn'
               /\ fd_write' = (IF Left(q, k) = <<>> THEN Disable(fd_write, w) ELSE fd_write)
                              \intersect conn'
               /\ UNCHANGED <<abort, inbox, eof, broken, accepted, eofs, stuffed>>
  BY DEF pipe_auto_write
<1>6. Resumes(p, StillOpen(p, conn, k)) \in BOOLEAN
  BY <1>2 DEF Resumes
<1> HIDE DEF q
<1> QED BY <1>3, <1>4, <1>5, <1>6

\* pipe_write: what write() takes at once, then what the fifo has room for.
LEMMA StuffHandler ==
  ASSUME Queues, Balanced, NEW p \in Pipes, NEW n \in WriteSizes, pipe_write(p, n)
  PROVE  Queues' /\ Balanced'
<1> DEFINE w == WriteAtom[p]
           f == fifo[p]
           m == accepted[p]
<1>1. w \in Atoms /\ n \in Nat \ {0} /\ Capacity \in Nat
  BY PipesAssumption
<1>2. /\ fifo \in [Pipes -> Seq(Nat)] /\ Len(f) <= Capacity /\ f \in Seq(Nat) /\ Len(f) \in Nat
      /\ room \in [Atoms -> Nat] /\ accepted \in [Pipes -> Nat] /\ m \in Nat
      /\ written \in [Pipes -> Seq(Nat)] /\ written[p] \in Seq(Nat)
      /\ conn \subseteq Atoms /\ fd_write \subseteq conn
      /\ \A x \in Pipes : Len(fifo[x]) <= Capacity
  <2>1. /\ fifo \in [Pipes -> Seq(Nat)] /\ \A x \in Pipes : Len(fifo[x]) <= Capacity
        /\ room \in [Atoms -> Nat] /\ accepted \in [Pipes -> Nat]
        /\ written \in [Pipes -> Seq(Nat)]
        /\ conn \subseteq Atoms /\ fd_read \subseteq conn /\ fd_write \subseteq conn
    BY DEF Queues
  <2>2. f \in Seq(Nat) /\ m \in Nat /\ written[p] \in Seq(Nat) /\ Len(f) <= Capacity
    BY <2>1
  <2>3. Len(f) \in Nat
    BY <2>2
  <2> HIDE DEF f, m
  <2> QED BY <2>1, <2>2, <2>3
<1>3. PICK k \in IF f = <<>> THEN WriteResults(conn, w, n) ELSE {0} :
        LET sent == Positive(k)
            kept == Least(n - sent, fifo_avail(p))
        IN  /\ fifo' = [fifo EXCEPT ![p] = @ \o Incoming(p, sent, kept)]
            /\ written' = [written EXCEPT ![p] = @ \o Incoming(p, 0, sent)]
            /\ accepted' = [accepted EXCEPT ![p] = @ + sent + kept]
            /\ room' = [room EXCEPT ![w] = @ - sent]
            /\ fd_write' = IF n = sent THEN Disable(fd_write, w) ELSE Enable(fd_write, w, conn)
            /\ stuffed' = IF kept = fifo_avail(p) THEN stuffed \union {p} ELSE stuffed
  BY DEF pipe_write
<1> DEFINE sent == Positive(k)
           kept == Least(n - sent, fifo_avail(p))
           s == [i \in 1..sent |-> m + i]
           t == [i \in 1..kept |-> m + sent + i]
<1>4. sent \in 0..n /\ room[w] - sent \in Nat /\ (f # <<>> => sent = 0)
  <2>1. CASE f = <<>>
    <3>1. k \in WriteResults(conn, w, n)
      BY <1>3, <2>1
    <3> QED BY <3>1, <1>1, <1>2, <2>1, WriteResultsBound
  <2>2. CASE f # <<>>
    BY <1>1, <1>2, <1>3, <2>2 DEF Positive
  <2> QED BY <2>1, <2>2
<1>5. kept \in Nat /\ kept <= Capacity - Len(f)
  <2>1. fifo_avail(p) \in Nat /\ fifo_avail(p) = Capacity - Len(f)
    BY <1>1, <1>2 DEF fifo_avail
  <2>2. n - sent \in Nat
    BY <1>1, <1>4
  <2> HIDE DEF sent
  <2> QED BY <2>1, <2>2 DEF Least
<1>6. /\ fifo' = [fifo EXCEPT ![p] = f \o t] /\ written' = [written EXCEPT ![p] = written[p] \o s]
      /\ accepted' = [accepted EXCEPT ![p] = m + sent + kept]
      /\ room' = [room EXCEPT ![w] = room[w] - sent]
      /\ fd_write' = IF n = sent THEN Disable(fd_write, w) ELSE Enable(fd_write, w, conn)
      /\ stuffed' = IF kept = fifo_avail(p) THEN stuffed \union {p} ELSE stuffed
  <2>1. Incoming(p, sent, kept) = t
    BY DEF Incoming
  <2>2. Incoming(p, 0, sent) = s
    <3>1. m + 0 = m
      BY <1>2
    <3> QED BY <3>1 DEF Incoming
  <2> HIDE DEF sent, kept, s, t
  <2> QED BY <1>3, <2>1, <2>2 DEF sent, kept
<1>7. /\ block_read' = block_read /\ conn' = conn /\ fd_read' = fd_read /\ abort' = abort
      /\ inbox' = inbox /\ eof' = eof /\ broken' = broken /\ eofs' = eofs
  BY DEF pipe_write
<1>8. fd_write' \subseteq conn /\ stuffed' \subseteq Pipes
  BY <1>2, <1>6 DEF Enable, Disable, Queues
<1> HIDE DEF sent, kept
<1>9. /\ s \in Seq(Nat) /\ Len(s) = sent /\ t \in Seq(Nat) /\ Len(t) = kept
      /\ sent \in Nat /\ kept \in Nat /\ m + sent \in Nat
  BY SMTT(30), <1>1, <1>2, <1>4, <1>5
<1>10. Upto(m) \o s = Upto(m + sent) /\ Upto(m + sent) \o t = Upto((m + sent) + kept)
  BY <1>2, <1>9, UptoExtends
<1> HIDE DEF s, t, m
<1>11. f \o t \in Seq(Nat) /\ Len(f \o t) = Len(f) + kept /\ Len(f \o t) <= Capacity
  <2> HIDE DEF f
  <2>0. f \in Seq(Nat) /\ t \in Seq(Nat) /\ Len(t) = kept /\ kept \in Nat /\ Len(f) \in Nat
    BY <1>2, <1>9
  <2>1. f \o t \in Seq(Nat) /\ Len(f \o t) = Len(f) + kept
    BY <2>0, Joined
  <2>2. Len(f) \in Nat /\ Capacity \in Nat /\ kept \in Nat /\ kept <= Capacity - Len(f)
    BY <1>1, <1>2, <1>5
  <2>3. Len(f) + kept <= Capacity
    BY <2>2
  <2> QED BY <2>1, <2>3
<1>12. written[p] \o s \in Seq(Nat)
  BY <1>2, <1>9
<1>13. (written[p] \o s) \o (f \o t) = Upto((m + sent) + kept)
  <2>1. written[p] \o f = Upto(m)
    BY DEF Balanced, m
  <2>2. CASE f = <<>>
    <3>1. written[p] = Upto(m) /\ f \o t = t
      BY <2>1, <2>2, <1>2, <1>9
    <3> QED BY <3>1, <1>10
  <2>3. CASE f # <<>>
    <3>1. s = <<>> /\ m + sent = m
      BY <2>3, <1>2, <1>4, <1>9
    <3>2. written[p] \o s = written[p]
      BY <3>1, <1>2
    <3>3. written[p] \o (f \o t) = (written[p] \o f) \o t
      <4> HIDE DEF f
      <4> QED BY <1>2, <1>9, Associative
    <3> QED BY <3>1, <3>2, <3>3, <2>1, <1>10
  <2> QED BY <2>2, <2>3
<1>14. Queues'
  <2> HIDE DEF f, w
  <2>1. fifo' \in [Pipes -> Seq(Nat)] /\ \A x \in Pipes : Len(fifo'[x]) <= Capacity
    BY <1>2, <1>6, <1>11
  <2>2. written' \in [Pipes -> Seq(Nat)]
    BY <1>2, <1>6, <1>12
  <2>3. accepted' \in [Pipes -> Nat]
    BY <1>2, <1>6, <1>9
  <2>4. room' \in [Atoms -> Nat]
    BY <1>1, <1>2, <1>4, <1>6
  <2> QED BY <1>7, <1>8, <2>1, <2>2, <2>3, <2>4 DEF Queues
<1>15. Balanced'
  <2> SUFFICES ASSUME NEW x \in Pipes PROVE written'[x] \o fifo'[x] = Upto(accepted'[x])
    BY DEF Balanced, Upto
  <2> HIDE DEF f, w
  <2>1. CASE x = p
    <3>1. /\ fifo'[p] = f \o t /\ written'[p] = written[p] \o s
          /\ accepted'[p] = (m + sent) + kept
      BY <1>2, <1>6
    <3> QED BY <2>1, <3>1, <1>13
  <2>2. CASE x # p
    <3>1. fifo'[x] = fifo[x] /\ written'[x] = written[x] /\ accepted'[x] = accepted[x]
      BY <2>2, <1>2, <1>6
    <3> QED BY <3>1 DEF Balanced
  <2> QED BY <2>1, <2>2
<1> QED BY <1>14, <1>15

Stored == Queues /\ Report /\ Balanced

\* The pipes start empty.
LEMMA StoredInit == Init => Stored
<1> SUFFICES ASSUME Init PROVE Stored
  OBVIOUS
<1>1. Queues
  BY PipesAssumption DEF Init, Queues
<1>2. Report
  BY DEF Init, Report
<1>3. Balanced
  <2> SUFFICES ASSUME NEW p \in Pipes PROVE written[p] \o fifo[p] = Upto(accepted[p])
    BY DEF Balanced
  <2>1. written[p] \o fifo[p] = <<>> /\ accepted[p] = 0
    BY DEF Init
  <2>2. Upto(0) = <<>>
    BY DEF Upto
  <2> QED BY <2>1, <2>2
<1> QED BY <1>1, <1>2, <1>3 DEF Stored

\* No step of a handler, of the loop or of another process loses a byte.
LEMMA StoredStep == Stored /\ [Next]_vars => Stored'
<1> SUFFICES ASSUME Stored, [Next]_vars PROVE Stored'
  OBVIOUS
<1> USE DEF Stored
<1>1. CASE io_wait
  <2>1. Queues' /\ Balanced'
    BY <1>1 DEF io_wait, state, kernel, history, Queues, Balanced
  <2>2. Report'
    BY <1>1 DEF io_wait, Waiting, Queues, Report
  <2> QED BY <2>1, <2>2
<1>2. ASSUME NEW a \in Atoms, DispatchRead(a) PROVE Stored'
  <2>1. PICK p \in Pipes : pipe_auto_read(p)
    BY <1>2 DEF DispatchRead
  <2>2. Queues' /\ Balanced'
    BY <2>1, ReadHandler
  <2>3. Report'
    BY <1>2 DEF DispatchRead, Report
  <2> QED BY <2>2, <2>3
<1>3. ASSUME NEW a \in Atoms, DispatchWrite(a) PROVE Stored'
  <2>1. PICK p \in Pipes : pipe_auto_write(p)
    BY <1>3 DEF DispatchWrite
  <2>2. Queues' /\ Balanced'
    BY <2>1, WriteHandler
  <2>3. Report'
    BY <1>3 DEF DispatchWrite, Report
  <2> QED BY <2>2, <2>3
<1>4. ASSUME NEW a \in Atoms, DispatchStale(a) PROVE Stored'
  <2>1. Queues' /\ Balanced'
    BY <1>4 DEF DispatchStale, state, kernel, history, Queues, Balanced
  <2>2. Report'
    BY <1>4 DEF DispatchStale, Report
  <2> QED BY <2>1, <2>2
<1>5. ASSUME NEW p \in Pipes, NEW n \in WriteSizes, pipe_write(p, n) PROVE Stored'
  <2>1. Queues' /\ Balanced'
    BY <1>5, StuffHandler
  <2>2. Report'
    BY <1>5 DEF pipe_write, Report
  <2> QED BY <2>1, <2>2
<1>6. ASSUME NEW a \in Atoms, Arrive(a) \/ Consume(a) \/ HangUp(a) \/ Break(a) PROVE Stored'
  <2>1. Balanced' /\ Report'
    BY <1>6 DEF Arrive, Consume, HangUp, Break, state, history, Balanced, Report
  <2>2. CASE Arrive(a)
    <3>1. inbox' \in [Atoms -> Nat]
      <4>1. inbox \in [Atoms -> Nat] /\ inbox' = [inbox EXCEPT ![a] = inbox[a] + 1]
        BY <2>2 DEF Arrive, Queues
      <4>2. inbox[a] + 1 \in Nat
        BY <4>1
      <4> QED BY <4>1, <4>2
    <3> QED BY <2>1, <2>2, <3>1 DEF Arrive, state, history, Queues
  <2>3. CASE Consume(a)
    <3>1. room' \in [Atoms -> Nat]
      <4>1. room \in [Atoms -> Nat] /\ room' = [room EXCEPT ![a] = room[a] + 1]
        BY <2>3 DEF Consume, Queues
      <4>2. room[a] + 1 \in Nat
        BY <4>1
      <4> QED BY <4>1, <4>2
    <3> QED BY <2>1, <2>3, <3>1 DEF Consume, state, history, Queues
  <2>4. CASE HangUp(a) \/ Break(a)
    BY <2>1, <2>4 DEF HangUp, Break, state, history, Queues
  <2> QED BY <1>6, <2>2, <2>3, <2>4
<1>7. CASE UNCHANGED vars
  BY <1>7 DEF vars, state, kernel, history, Queues, Report, Balanced
<1> QED BY <1>1, <1>2, <1>3, <1>4, <1>5, <1>6, <1>7 DEF Next, Loop, Dispatch, Environment

\* Stored is an invariant.
LEMMA StoredAlways == Spec => []Stored
BY StoredInit, StoredStep, PTL DEF Spec

\* Fifos keep within their capacity and every variable within its type, for
\* any pipes and any capacity: pipe.c never appends more than there is room for.
THEOREM PipesTypeOK == Spec => []TypeOK
<1>1. Stored => TypeOK
  BY DEF Stored, Queues, Report, TypeOK
<1> QED BY <1>1, StoredAlways, PTL

\* What left a pipe and what is in it are what entered it, in order, whatever
\* read() and write() answer and however the handlers of the pipes interleave.
THEOREM PipesConservation == Spec => []Conservation
<1>1. Stored => Conservation
  BY DEF Stored, Balanced, Upto, Conservation
<1> QED BY <1>1, StoredAlways, PTL

-----------------------------------------------------------------------------
(***************************************************************************)
(* The rest is about who waits for what.  Each handler leaves the other    *)
(* pipes alone, since no two pipes share a source or a sink (Untouched),   *)
(* and a lemma says what it does to its own.                               *)
(***************************************************************************)
Untouched(p) ==
  \A x \in Pipes \ {p} :
    /\ fifo'[x] = fifo[x] /\ (block_read'[x] <=> block_read[x])
    /\ room'[WriteAtom[x]] = room[WriteAtom[x]]
    /\ WriteAtom[x] \in fd_write \intersect conn' => WriteAtom[x] \in fd_write'
    /\ ReadAtom[x] \in conn' => (ReadAtom[x] \in fd_read' <=> ReadAtom[x] \in fd_read)

\* No two pipes share a source, or a sink.
LEMMA Apart ==
  ASSUME NEW p \in Pipes, NEW x \in Pipes \ {p}
  PROVE  ReadAtom[x] # ReadAtom[p] /\ WriteAtom[x] # WriteAtom[p]
BY PipesAssumption

\* pipe_auto_read asks for IO_WRITE while it keeps bytes, and blocks and gives up
\* IO_READ when it leaves the pipe full, which takes a sink that takes nothing.
LEMMA ReadEffect ==
  ASSUME Stored, NEW p \in Pipes, ReadAtom[p] \in conn,
         NEW r \in ReadResults(ReadAtom[p], fifo_avail(p)), AfterRead(p, r)
  PROVE  /\ conn' \subseteq conn /\ fd_read' \subseteq fd_read
         /\ Untouched(p)
         /\ fifo'[p] # <<>> /\ WriteAtom[p] \in conn' => WriteAtom[p] \in fd_write'
         /\ Len(fifo'[p]) = Capacity => ReadAtom[p] \notin fd_read' /\ block_read'[p]
         /\ Len(fifo'[p]) # Capacity =>
              /\ block_read'[p] <=> block_read[p]
              /\ ReadAtom[p] \in conn' => (ReadAtom[p] \in fd_read' <=> ReadAtom[p] \in fd_read)
         /\ \/ Len(fifo'[p]) < Capacity
            \/ WriteAtom[p] \notin conn'
            \/ room[WriteAtom[p]] = 0 /\ WriteAtom[p] \notin broken
<1> DEFINE a == ReadAtom[p]
           w == WriteAtom[p]
           n == Positive(r)
           q == fifo[p] \o Incoming(p, 0, n)
           c == IF r = 0 THEN conn \ {a} ELSE conn
<1>1. a \in Atoms /\ w \in Atoms /\ a # w /\ Capacity \in Nat \ {0}
  BY PipesAssumption
<1>2. /\ fifo \in [Pipes -> Seq(Nat)] /\ Len(fifo[p]) <= Capacity
      /\ inbox \in [Atoms -> Nat] /\ room \in [Atoms -> Nat]
      /\ conn \subseteq Atoms /\ block_read \in [Pipes -> BOOLEAN]
      /\ fd_read \subseteq conn /\ fd_write \subseteq conn
  BY DEF Stored, Queues
<1>3. fifo_avail(p) \in Nat
  BY <1>1, <1>2 DEF fifo_avail
<1>4. n \in Nat /\ n <= fifo_avail(p)
  BY <1>1, <1>2, <1>3, ReadResultsBound
<1>5. q \in Seq(Nat) /\ Len(q) = Len(fifo[p]) + n /\ Len(q) <= Capacity
  BY <1>4, ReadAppends DEF Stored
<1>6. c \subseteq conn /\ (w \in conn <=> w \in c)
  BY <1>1
<1>7. CASE /\ q = <<>> /\ conn' = c
           /\ fd_read' = fd_read \intersect c /\ fd_write' = fd_write \intersect c
           /\ UNCHANGED <<fifo, block_read, written, room>>
  <2>1. fifo'[p] = fifo[p] /\ Len(fifo[p]) = 0
    <3>1. Len(q) = 0 /\ Len(fifo[p]) \in Nat
      BY <1>2, <1>7
    <3> QED BY <3>1, <1>4, <1>5, <1>7
  <2>2. fifo[p] = <<>>
    BY <2>1, <1>2
  <2>3. Len(fifo'[p]) < Capacity /\ Len(fifo'[p]) # Capacity
    BY <2>1, <1>1
  <2>4. Untouched(p)
    BY <1>7, <1>6 DEF Untouched
  <2> QED BY <1>6, <1>7, <2>1, <2>2, <2>3, <2>4
<1>8. ASSUME q # <<>>, NEW k \in WriteResults(c, w, Len(q)), pipe_fifo_write(p, q, c, k),
             fd_write' = (IF Left(q, k) = <<>> THEN fd_write ELSE Enable(fd_write, w, c))
                         \intersect conn',
             fd_read' = (IF Len(Left(q, k)) = Capacity THEN StopReading(fd_read, a) ELSE fd_read)
                        \intersect conn',
             block_read' = [block_read EXCEPT ![p] = @ \/ Len(Left(q, k)) = Capacity]
      PROVE  /\ conn' \subseteq conn /\ fd_read' \subseteq fd_read
             /\ Untouched(p)
             /\ fifo'[p] # <<>> /\ w \in conn' => w \in fd_write'
             /\ Len(fifo'[p]) = Capacity => a \notin fd_read' /\ block_read'[p]
             /\ Len(fifo'[p]) # Capacity =>
                  /\ block_read'[p] <=> block_read[p]
                  /\ a \in conn' => (a \in fd_read' <=> a \in fd_read)
             /\ \/ Len(fifo'[p]) < Capacity
                \/ w \notin conn'
                \/ room[w] = 0 /\ w \notin broken
  <2> DEFINE l == Left(q, k)
  <2>1. Len(q) \in Nat \ {0}
    BY <1>5, <1>8
  <2>2. k \in Int /\ Positive(k) \in 0..Len(q) /\ room[w] - Positive(k) \in Nat
    BY <1>1, <1>2, <1>8, <2>1, WriteResultsBound
  <2>3. l \in Seq(Nat) /\ Len(l) = Len(q) - Positive(k)
    <3>1. <<>> \in Seq(Nat)
      OBVIOUS
    <3> HIDE DEF q
    <3> QED BY <1>5, <2>2, <3>1, WriteKeeps
  <2>4. /\ fifo' = [fifo EXCEPT ![p] = l] /\ conn' = StillOpen(p, c, k)
        /\ room' = [room EXCEPT ![w] = @ - Positive(k)]
    BY <1>8 DEF pipe_fifo_write
  <2> HIDE DEF l, q, c
  <2>5. fifo'[p] = l
    BY <1>2, <2>4
  <2>6. conn' \subseteq c /\ conn' \subseteq conn
    BY <1>6, <2>4 DEF StillOpen
  <2>7. fd_write \intersect conn' \subseteq fd_write' /\ (l # <<>> /\ w \in conn' => w \in fd_write')
    BY <1>8, <2>6 DEF Enable, l
  <2>8. /\ fd_read' \subseteq fd_read
        /\ Len(l) = Capacity => a \notin fd_read'
        /\ Len(l) # Capacity => fd_read' = fd_read \intersect conn'
        /\ \A b \in conn' : b # a => (b \in fd_read' <=> b \in fd_read)
    BY <1>8 DEF StopReading, Disable, l
  <2>9. /\ block_read'[p] <=> (block_read[p] \/ Len(l) = Capacity)
        /\ \A x \in Pipes \ {p} : block_read'[x] <=> block_read[x]
    BY <1>2, <1>8, Zenon DEF l
  <2>10. Untouched(p)
    <3> SUFFICES ASSUME NEW x \in Pipes \ {p}
                 PROVE  /\ fifo'[x] = fifo[x] /\ (block_read'[x] <=> block_read[x])
                        /\ room'[WriteAtom[x]] = room[WriteAtom[x]]
                        /\ WriteAtom[x] \in fd_write \intersect conn' => WriteAtom[x] \in fd_write'
                        /\ ReadAtom[x] \in conn' => (ReadAtom[x] \in fd_read' <=> ReadAtom[x] \in fd_read)
      BY DEF Untouched
    <3>1. ReadAtom[x] # a /\ WriteAtom[x] # w
      BY Apart
    <3>2. WriteAtom[x] \in Atoms
      BY PipesAssumption
    <3>3. fifo'[x] = fifo[x] /\ room'[WriteAtom[x]] = room[WriteAtom[x]]
      BY <1>2, <2>4, <3>1, <3>2
    <3> QED BY <2>7, <2>8, <2>9, <3>1, <3>3
  <2>11. \/ Len(l) < Capacity
         \/ w \notin conn'
         \/ room[w] = 0 /\ w \notin broken
    <3>1. CASE k = Epipe
      BY <2>4, <3>1 DEF StillOpen
    <3>2. CASE k \in 1..Least(Len(q), room[w])
      <4>1. Positive(k) \in Nat \ {0}
        BY <2>2, <3>2 DEF Positive
      <4> QED BY <1>1, <1>5, <2>1, <2>3, <4>1
    <3>3. CASE k = Fail
      <4>1. k # Epipe /\ k \notin 1..Least(Len(q), room[w])
        BY <3>3 DEF Fail, Epipe
      <4>2. w \notin c \/ (w \notin broken /\ room[w] = 0)
        BY <1>8, <4>1 DEF WriteResults, l
      <4> QED BY <4>2, <2>6
    <3> QED BY <1>8, <3>1, <3>2, <3>3 DEF WriteResults
  <2> QED BY <2>5, <2>6, <2>7, <2>8, <2>9, <2>10, <2>11
<1> HIDE DEF q, c
<1> QED BY <1>7, <1>8 DEF AfterRead, q, c

\* pipe_auto_write gives up IO_WRITE only when the pipe is empty, unblocks a pipe
\* with an open source, and leaves a pipe full only without asserts.
LEMMA WriteEffect ==
  ASSUME Stored, NEW p \in Pipes, pipe_auto_write(p), ~Abort("full after write")
  PROVE  /\ conn' \subseteq conn /\ fd_read \intersect conn' \subseteq fd_read'
         /\ Untouched(p)
         /\ fifo'[p] # <<>> => fifo[p] # <<>>
         /\ fifo'[p] # <<>> /\ WriteAtom[p] \in fd_write \intersect conn' => WriteAtom[p] \in fd_write'
         /\ ReadAtom[p] \in conn' =>
              ~block_read'[p] /\ (block_read[p] => ReadAtom[p] \in fd_read')
         /\ NDEBUG \/ Len(fifo'[p]) # Capacity
<1> DEFINE a == ReadAtom[p]
           w == WriteAtom[p]
           q == fifo[p]
<1>1. a \in Atoms /\ w \in Atoms /\ a # w
  BY PipesAssumption
<1>2. /\ fifo \in [Pipes -> Seq(Nat)] /\ room \in [Atoms -> Nat]
      /\ conn \subseteq Atoms /\ block_read \in [Pipes -> BOOLEAN]
      /\ fd_read \subseteq conn /\ fd_write \subseteq conn
  BY DEF Stored, Queues
<1>3. PICK k \in IF q = <<>> THEN {0} ELSE WriteResults(conn, w, Len(q)) :
        LET full == Len(Left(q, k)) = Capacity
            resume == Resumes(p, StillOpen(p, conn, k))
        IN  /\ NDEBUG \/ ~full
            /\ pipe_fifo_write(p, q, conn, k)
            /\ block_read' = [block_read EXCEPT ![p] = @ /\ ~resume]
            /\ fd_read' = (IF resume THEN Enable(fd_read, a, conn) ELSE fd_read) \intersect conn'
            /\ fd_write' = (IF Left(q, k) = <<>> THEN Disable(fd_write, w) ELSE fd_write)
                           \intersect conn'
  BY DEF pipe_auto_write
<1> DEFINE l == Left(q, k)
           resume == Resumes(p, StillOpen(p, conn, k))
<1>4. /\ fifo' = [fifo EXCEPT ![p] = l] /\ conn' = StillOpen(p, conn, k)
      /\ room' = [room EXCEPT ![w] = @ - Positive(k)]
  BY <1>3 DEF pipe_fifo_write
<1>5. /\ NDEBUG \/ Len(l) # Capacity
      /\ fd_read' = (IF resume THEN Enable(fd_read, a, conn) ELSE fd_read) \intersect conn'
      /\ fd_write' = (IF l = <<>> THEN Disable(fd_write, w) ELSE fd_write) \intersect conn'
  BY <1>3
<1>6. resume <=> block_read[p] /\ a \in conn'
  BY <1>4 DEF Resumes
<1>7. q = <<>> => l = <<>>
  <2>1. q = <<>> => k = 0
    BY <1>3
  <2>2. Left(<<>>, 0) = <<>>
    BY NothingLeft
  <2> QED BY <2>1, <2>2
<1>8. /\ block_read'[p] <=> (block_read[p] /\ ~resume)
      /\ \A x \in Pipes \ {p} : block_read'[x] <=> block_read[x]
  BY <1>2, <1>3, Zenon
<1> HIDE DEF l, resume
<1>9. fifo'[p] = l
  BY <1>2, <1>4
<1>10. conn' \subseteq conn
  BY <1>4 DEF StillOpen
<1>11. /\ fd_read \intersect conn' \subseteq fd_read'
       /\ resume => a \in fd_read'
       /\ \A b \in conn' : b # a => (b \in fd_read' <=> b \in fd_read)
  BY <1>5, <1>6, <1>10 DEF Enable
<1>12. /\ l # <<>> => fd_write \intersect conn' \subseteq fd_write'
       /\ \A b \in fd_write \intersect conn' : b # w => b \in fd_write'
  BY <1>5 DEF Disable
<1>13. Untouched(p)
  <2> SUFFICES ASSUME NEW x \in Pipes \ {p}
               PROVE  /\ fifo'[x] = fifo[x] /\ (block_read'[x] <=> block_read[x])
                      /\ room'[WriteAtom[x]] = room[WriteAtom[x]]
                      /\ WriteAtom[x] \in fd_write \intersect conn' => WriteAtom[x] \in fd_write'
                      /\ ReadAtom[x] \in conn' => (ReadAtom[x] \in fd_read' <=> ReadAtom[x] \in fd_read)
    BY DEF Untouched
  <2>1. ReadAtom[x] # a /\ WriteAtom[x] # w
    BY Apart
  <2>2. WriteAtom[x] \in Atoms
    BY PipesAssumption
  <2>3. fifo'[x] = fifo[x] /\ room'[WriteAtom[x]] = room[WriteAtom[x]]
    BY <1>2, <1>4, <2>1, <2>2
  <2> QED BY <1>8, <1>11, <1>12, <2>1, <2>3
<1> QED BY <1>5, <1>6, <1>7, <1>8, <1>9, <1>10, <1>11, <1>12, <1>13

\* pipe_write asks for IO_WRITE when it keeps bytes, and is on record for filling
\* the pipe when it leaves it full.
LEMMA StuffEffect ==
  ASSUME Stored, NEW p \in Pipes, NEW n \in WriteSizes, pipe_write(p, n)
  PROVE  /\ UNCHANGED <<block_read, conn, fd_read>> /\ stuffed \subseteq stuffed'
         /\ \A x \in Pipes \ {p} :
              /\ fifo'[x] = fifo[x]
              /\ WriteAtom[x] \in fd_write => WriteAtom[x] \in fd_write'
         /\ fifo'[p] # <<>> /\ WriteAtom[p] \in conn => WriteAtom[p] \in fd_write'
         /\ Len(fifo[p]) = Capacity => Len(fifo'[p]) = Capacity
         /\ Len(fifo'[p]) = Capacity => p \in stuffed'
<1> DEFINE w == WriteAtom[p]
           f == fifo[p]
<1>1. w \in Atoms /\ Capacity \in Nat \ {0} /\ n \in Nat \ {0}
  BY PipesAssumption
<1>2. /\ fifo \in [Pipes -> Seq(Nat)] /\ f \in Seq(Nat) /\ Len(f) \in Nat /\ Len(f) <= Capacity
      /\ room \in [Atoms -> Nat] /\ accepted \in [Pipes -> Nat]
  <2>1. /\ fifo \in [Pipes -> Seq(Nat)] /\ Len(fifo[p]) <= Capacity
        /\ room \in [Atoms -> Nat] /\ accepted \in [Pipes -> Nat]
    BY DEF Stored, Queues
  <2> QED BY <2>1
<1>3. PICK k \in IF f = <<>> THEN WriteResults(conn, w, n) ELSE {0} :
        LET sent == Positive(k)
            kept == Least(n - sent, fifo_avail(p))
        IN  /\ fifo' = [fifo EXCEPT ![p] = @ \o Incoming(p, sent, kept)]
            /\ fd_write' = IF n = sent THEN Disable(fd_write, w) ELSE Enable(fd_write, w, conn)
            /\ stuffed' = IF kept = fifo_avail(p) THEN stuffed \union {p} ELSE stuffed
  BY DEF pipe_write
<1> DEFINE sent == Positive(k)
           kept == Least(n - sent, fifo_avail(p))
           t == Incoming(p, sent, kept)
<1>4. sent \in 0..n /\ (f # <<>> => sent = 0)
  <2>1. CASE f = <<>>
    <3>1. k \in WriteResults(conn, w, n)
      BY <1>3, <2>1
    <3> QED BY <3>1, <1>1, <1>2, <2>1, WriteResultsBound
  <2>2. CASE f # <<>>
    BY <1>1, <1>2, <1>3, <2>2 DEF Positive
  <2> QED BY <2>1, <2>2
<1>5. /\ fifo' = [fifo EXCEPT ![p] = f \o t]
      /\ fd_write' = IF n = sent THEN Disable(fd_write, w) ELSE Enable(fd_write, w, conn)
      /\ stuffed' = IF kept = fifo_avail(p) THEN stuffed \union {p} ELSE stuffed
  BY <1>3
<1>6. fifo_avail(p) = Capacity - Len(f) /\ fifo_avail(p) \in Nat
  BY <1>1, <1>2 DEF fifo_avail
<1>7. kept \in Nat /\ kept <= fifo_avail(p) /\ (n = sent => kept = 0)
  <2>1. n - sent \in Nat /\ (n = sent => n - sent = 0)
    BY <1>1, <1>4
  <2> HIDE DEF sent
  <2> QED BY <1>6, <2>1 DEF Least
<1> HIDE DEF sent, kept
<1>8. t \in Seq(Nat) /\ Len(t) = kept
  <2>1. accepted[p] \in Nat /\ sent \in Nat
    BY <1>2, <1>1, <1>4
  <2> QED BY <1>7, <2>1 DEF Incoming
<1> HIDE DEF t, f
<1>9. f \o t \in Seq(Nat) /\ Len(f \o t) = Len(f) + kept
  <2>1. Len(f \o t) = Len(f) + Len(t) /\ f \o t \in Seq(Nat)
    BY <1>2, <1>8, Joined
  <2> QED BY <1>8, <2>1
<1>10. fifo'[p] = f \o t /\ \A x \in Pipes \ {p} : fifo'[x] = fifo[x]
  BY <1>2, <1>5
<1>11. n = sent => f \o t = <<>>
  <2> SUFFICES ASSUME n = sent PROVE f \o t = <<>>
    OBVIOUS
  <2>1. f = <<>>
    BY <1>1, <1>4
  <2>2. Len(f) = 0 /\ kept = 0
    BY <1>7, <2>1
  <2>3. Len(f \o t) = 0
    BY <1>9, <2>2
  <2> QED BY <1>9, <2>3
<1>12. f \o t # <<>> /\ w \in conn => w \in fd_write'
  BY <1>5, <1>11 DEF Enable
<1>13. Len(f) = Capacity => Len(f \o t) = Capacity
  <2> SUFFICES ASSUME Len(f) = Capacity PROVE Len(f \o t) = Capacity
    OBVIOUS
  <2>1. kept = 0
    BY <1>2, <1>6, <1>7
  <2> QED BY <1>2, <1>9, <2>1
<1>14. Len(f \o t) = Capacity => kept = fifo_avail(p)
  BY <1>1, <1>2, <1>6, <1>7, <1>9
<1>15. stuffed \subseteq stuffed' /\ (Len(f \o t) = Capacity => p \in stuffed')
  BY <1>5, <1>14
<1>16. ASSUME NEW x \in Pipes \ {p}, WriteAtom[x] \in fd_write PROVE WriteAtom[x] \in fd_write'
  <2>1. WriteAtom[x] # w
    BY Apart
  <2> QED BY <1>5, <1>16, <2>1 DEF Enable, Disable
<1>17. UNCHANGED <<block_read, conn, fd_read>>
  BY DEF pipe_write
<1> QED BY <1>10, <1>12, <1>13, <1>15, <1>16, <1>17 DEF f

-----------------------------------------------------------------------------
(***************************************************************************)
(* The loop's discipline, pipe by pipe: who is watched, what the report of *)
(* select still promises, and who may be full while its source is watched. *)
(* Each is inductive only beside the others.                               *)
(***************************************************************************)
Watched(p) ==
  /\ fifo[p] # <<>> /\ WriteAtom[p] \in conn => WriteAtom[p] \in fd_write
  /\ ReadAtom[p] \in conn => (ReadAtom[p] \in fd_read <=> ~block_read[p])
  /\ ReadAtom[p] \in conn /\ block_read[p] => Len(fifo[p]) = Capacity

Promised(p) ==
  WriteAtom[p] \in gfd_write \intersect conn =>
    \/ Writable(WriteAtom[p])
    \/ fifo_avail(p) > 0 /\ ReadAtom[p] \notin gfd_read

\* With asserts, a full pipe whose source is still watched was filled by pipe_write.
Excused(p) == fifo_avail(p) = 0 /\ ReadAtom[p] \in fd_read => NDEBUG \/ p \in stuffed

Discipline ==
  /\ gfd_read \intersect conn \subseteq fd_read
  /\ \A p \in Pipes : Watched(p) /\ Promised(p) /\ Excused(p)

\* A pipe is full when it has no room.
LEMMA FullMeansNoRoom ==
  ASSUME NEW q \in Seq(Nat), Len(q) <= Capacity
  PROVE  /\ Capacity - Len(q) = 0 <=> Len(q) = Capacity
         /\ Capacity - Len(q) > 0 <=> Len(q) < Capacity
<1>1. Len(q) \in Nat /\ Capacity \in Nat
  BY PipesAssumption
<1> QED BY <1>1

\* A handler that leaves a pipe alone leaves its discipline alone.
LEMMA UntouchedKeeps ==
  ASSUME Stored, Discipline, NEW p \in Pipes, NEW x \in Pipes \ {p}, Untouched(p),
         conn' \subseteq conn, fd_read' \subseteq conn', broken' = broken, stuffed' = stuffed,
         gfd_read' \subseteq gfd_read, gfd_write' \subseteq gfd_write
  PROVE  Watched(x)' /\ Promised(x)' /\ Excused(x)'
<1>1. /\ fifo'[x] = fifo[x] /\ (block_read'[x] <=> block_read[x])
      /\ room'[WriteAtom[x]] = room[WriteAtom[x]]
      /\ WriteAtom[x] \in fd_write \intersect conn' => WriteAtom[x] \in fd_write'
      /\ ReadAtom[x] \in conn' => (ReadAtom[x] \in fd_read' <=> ReadAtom[x] \in fd_read)
  BY DEF Untouched
<1>2. Watched(x) /\ Promised(x) /\ Excused(x)
  BY DEF Discipline
<1>3. Watched(x)'
  BY <1>1, <1>2 DEF Watched
<1>4. Promised(x)'
  BY <1>1, <1>2 DEF Promised, Writable, fifo_avail
<1>5. Excused(x)'
  BY <1>1, <1>2 DEF Excused, fifo_avail
<1> QED BY <1>3, <1>4, <1>5

\* Every source is watched at the start, and every pipe has room.
LEMMA DisciplineInit == Init => Discipline
<1> SUFFICES ASSUME Init PROVE Discipline
  OBVIOUS
<1>1. gfd_read \intersect conn \subseteq fd_read
  BY DEF Init
<1>2. ASSUME NEW p \in Pipes PROVE Watched(p) /\ Promised(p) /\ Excused(p)
  <2>1. /\ fifo[p] = <<>> /\ block_read[p] = FALSE /\ ReadAtom[p] \in fd_read /\ gfd_write = {}
    BY DEF Init
  <2>2. Len(fifo[p]) = 0 /\ Capacity \in Nat \ {0}
    BY <2>1, PipesAssumption
  <2>3. fifo_avail(p) # 0
    BY <2>2 DEF fifo_avail
  <2> QED BY <2>1, <2>3 DEF Watched, Promised, Excused
<1> QED BY <1>1, <1>2 DEF Discipline

\* A read that stops at its assert, or not.
LEMMA DisciplineRead ==
  ASSUME Stored, Stored', Discipline, NEW a \in Atoms, DispatchRead(a)
  PROVE  Discipline'
<1>1. PICK p \in Pipes : ReadAtom[p] = a /\ pipe_auto_read(p)
  BY DEF DispatchRead
<1>2. /\ a \in gfd_read \intersect conn /\ gfd_read' = gfd_read \ {a} /\ gfd_write' = gfd_write
  BY DEF DispatchRead
<1>3. CASE Abort("full before read")
  <2>1. UNCHANGED <<state, kernel, history>>
    BY <1>3 DEF Abort
  <2>2. gfd_read' \intersect conn' \subseteq fd_read'
    BY <1>2, <2>1 DEF Discipline, state
  <2>3. ASSUME NEW x \in Pipes PROVE Watched(x)' /\ Promised(x)' /\ Excused(x)'
    BY <1>2, <2>1 DEF Discipline, Watched, Promised, Excused, Writable, fifo_avail,
                      state, kernel, history
  <2> QED BY <2>2, <2>3 DEF Discipline
<1>4. ASSUME NEW r \in ReadResults(a, fifo_avail(p)), AfterRead(p, r),
             UNCHANGED <<abort, eof, broken, stuffed>>
      PROVE  Discipline'
  <2>1. /\ conn' \subseteq conn /\ fd_read' \subseteq fd_read
        /\ Untouched(p)
        /\ fifo'[p] # <<>> /\ WriteAtom[p] \in conn' => WriteAtom[p] \in fd_write'
        /\ Len(fifo'[p]) = Capacity => a \notin fd_read' /\ block_read'[p]
        /\ Len(fifo'[p]) # Capacity =>
             /\ block_read'[p] <=> block_read[p]
             /\ a \in conn' => (a \in fd_read' <=> a \in fd_read)
        /\ \/ Len(fifo'[p]) < Capacity
           \/ WriteAtom[p] \notin conn'
           \/ room[WriteAtom[p]] = 0 /\ WriteAtom[p] \notin broken
    BY <1>1, <1>2, <1>4, ReadEffect
  <2>2. /\ fd_read' \subseteq conn'
        /\ (fifo_avail(p) = 0)' <=> Len(fifo'[p]) = Capacity
        /\ (fifo_avail(p) > 0)' <=> Len(fifo'[p]) < Capacity
    <3>1. /\ fd_read' \subseteq conn' /\ fifo' \in [Pipes -> Seq(Nat)]
          /\ Len(fifo'[p]) <= Capacity
      BY DEF Stored, Queues
    <3>2. fifo'[p] \in Seq(Nat)
      BY <3>1
    <3> QED BY <3>1, <3>2, FullMeansNoRoom DEF fifo_avail
  <2>3. Watched(p) /\ Promised(p) /\ a \in fd_read
    BY <1>2 DEF Discipline
  <2>4. ~block_read[p]
    BY <1>1, <1>2, <2>3 DEF Watched
  <2>5. Watched(p)'
    BY <1>1, <2>1, <2>3, <2>4 DEF Watched
  <2>6. Promised(p)'
    <3>1. CASE Len(fifo'[p]) < Capacity
      <4>1. (fifo_avail(p) > 0)'
        BY <3>1, <2>2
      <4> QED BY <4>1, <1>1, <1>2 DEF Promised
    <3>2. CASE WriteAtom[p] \notin conn'
      BY <3>2 DEF Promised
    <3>3. CASE room[WriteAtom[p]] = 0 /\ WriteAtom[p] \notin broken
      <4>1. ~Writable(WriteAtom[p])
        BY <3>3 DEF Writable
      <4> QED BY <4>1, <1>1, <1>2, <2>1, <2>3 DEF Promised
    <3> QED BY <2>1, <3>1, <3>2, <3>3
  <2>7. Excused(p)'
    BY <1>1, <2>1, <2>2 DEF Excused
  <2>8. gfd_read' \intersect conn' \subseteq fd_read'
    <3> SUFFICES ASSUME NEW b \in gfd_read' \intersect conn' PROVE b \in fd_read'
      OBVIOUS
    <3>1. b # a /\ b \in fd_read /\ b \in conn
      BY <1>2, <2>1 DEF Discipline
    <3> QED BY <3>1, <1>1, <1>4 DEF AfterRead, StopReading, Disable
  <2>9. ASSUME NEW x \in Pipes PROVE Watched(x)' /\ Promised(x)' /\ Excused(x)'
    <3>1. CASE x = p
      BY <3>1, <2>5, <2>6, <2>7
    <3>2. CASE x # p
      BY <3>2, <1>2, <1>4, <2>1, <2>2, UntouchedKeeps
    <3> QED BY <3>1, <3>2
  <2> QED BY <2>8, <2>9 DEF Discipline
<1> QED BY <1>1, <1>3, <1>4 DEF pipe_auto_read

\* A write that stops at its assert, or not.
LEMMA DisciplineWrite ==
  ASSUME Stored, Stored', Discipline, NEW a \in Atoms, DispatchWrite(a)
  PROVE  Discipline'
<1>1. PICK p \in Pipes : WriteAtom[p] = a /\ pipe_auto_write(p)
  BY DEF DispatchWrite
<1>2. gfd_write' = gfd_write \ {a} /\ gfd_read' = gfd_read
  BY DEF DispatchWrite
<1>3. CASE Abort("full after write")
  <2>1. UNCHANGED <<state, kernel, history>>
    BY <1>3 DEF Abort
  <2>2. gfd_read' \intersect conn' \subseteq fd_read'
    BY <1>2, <2>1 DEF Discipline, state
  <2>3. ASSUME NEW x \in Pipes PROVE Watched(x)' /\ Promised(x)' /\ Excused(x)'
    BY <1>2, <2>1 DEF Discipline, Watched, Promised, Excused, Writable, fifo_avail,
                      state, kernel, history
  <2> QED BY <2>2, <2>3 DEF Discipline
<1>4. CASE ~Abort("full after write")
  <2>1. /\ conn' \subseteq conn /\ fd_read \intersect conn' \subseteq fd_read'
        /\ Untouched(p)
        /\ fifo'[p] # <<>> => fifo[p] # <<>>
        /\ fifo'[p] # <<>> /\ a \in fd_write \intersect conn' => a \in fd_write'
        /\ ReadAtom[p] \in conn' =>
             ~block_read'[p] /\ (block_read[p] => ReadAtom[p] \in fd_read')
        /\ NDEBUG \/ Len(fifo'[p]) # Capacity
    BY <1>1, <1>4, WriteEffect
  <2>2. /\ fd_read' \subseteq conn'
        /\ (fifo_avail(p) = 0)' <=> Len(fifo'[p]) = Capacity
    <3>1. /\ fd_read' \subseteq conn' /\ fifo' \in [Pipes -> Seq(Nat)]
          /\ Len(fifo'[p]) <= Capacity
      BY DEF Stored, Queues
    <3>2. fifo'[p] \in Seq(Nat)
      BY <3>1
    <3> QED BY <3>1, <3>2, FullMeansNoRoom DEF fifo_avail
  <2>3. broken' = broken /\ stuffed' = stuffed
    BY <1>1, <1>4 DEF pipe_auto_write
  <2>4. Watched(p)
    BY DEF Discipline
  <2>5. Watched(p)'
    BY <1>1, <2>1, <2>4 DEF Watched
  <2>6. Promised(p)'
    BY <1>1, <1>2 DEF Promised
  <2>7. Excused(p)'
    BY <2>1, <2>2 DEF Excused
  <2>8. gfd_read' \intersect conn' \subseteq fd_read'
    BY <1>2, <2>1 DEF Discipline
  <2>9. ASSUME NEW x \in Pipes PROVE Watched(x)' /\ Promised(x)' /\ Excused(x)'
    <3>1. CASE x = p
      BY <3>1, <2>5, <2>6, <2>7
    <3>2. CASE x # p
      BY <3>2, <1>2, <2>1, <2>2, <2>3, UntouchedKeeps
    <3> QED BY <3>1, <3>2
  <2> QED BY <2>8, <2>9 DEF Discipline
<1> QED BY <1>3, <1>4

\* rzh's own writes happen between two rounds, when nothing is promised.
LEMMA DisciplineStuff ==
  ASSUME Stored, Stored', Discipline, NEW p \in Pipes, NEW n \in WriteSizes, pipe_write(p, n)
  PROVE  Discipline'
<1>1. /\ UNCHANGED <<block_read, conn, fd_read>> /\ stuffed \subseteq stuffed'
      /\ \A x \in Pipes \ {p} :
           /\ fifo'[x] = fifo[x]
           /\ WriteAtom[x] \in fd_write => WriteAtom[x] \in fd_write'
      /\ fifo'[p] # <<>> /\ WriteAtom[p] \in conn => WriteAtom[p] \in fd_write'
      /\ Len(fifo[p]) = Capacity => Len(fifo'[p]) = Capacity
      /\ Len(fifo'[p]) = Capacity => p \in stuffed'
  BY StuffEffect
<1>2. gfd_read' = {} /\ gfd_write' = {}
  BY DEF pipe_write, Waiting
<1>3. gfd_read' \intersect conn' \subseteq fd_read'
  BY <1>2
<1>4. ASSUME NEW x \in Pipes PROVE Watched(x)' /\ Promised(x)' /\ Excused(x)'
  <2>1. Watched(x) /\ Excused(x)
    BY DEF Discipline
  <2>2. Promised(x)'
    BY <1>2 DEF Promised
  <2>3. CASE x # p
    <3>1. Watched(x)'
      BY <1>1, <2>1, <2>3 DEF Watched
    <3>2. Excused(x)'
      BY <1>1, <2>1, <2>3 DEF Excused, fifo_avail
    <3> QED BY <2>2, <3>1, <3>2
  <2>4. CASE x = p
    <3>1. Watched(x)'
      BY <1>1, <2>1, <2>4 DEF Watched
    <3>2. (fifo_avail(p) = 0)' <=> Len(fifo'[p]) = Capacity
      <4>1. fifo' \in [Pipes -> Seq(Nat)] /\ Len(fifo'[p]) <= Capacity
        BY DEF Stored, Queues
      <4>2. fifo'[p] \in Seq(Nat)
        BY <4>1
      <4> QED BY <4>1, <4>2, FullMeansNoRoom DEF fifo_avail
    <3>3. Excused(x)'
      BY <1>1, <2>4, <3>2 DEF Excused
    <3> QED BY <2>2, <3>1, <3>3
  <2> QED BY <2>3, <2>4
<1> QED BY <1>3, <1>4 DEF Discipline

\* The report of select is true when it is made, and the other ends of the
\* descriptors can only make it truer.
LEMMA DisciplineStep == Stored /\ Stored' /\ Discipline /\ [Next]_vars => Discipline'
<1> SUFFICES ASSUME Stored, Stored', Discipline, [Next]_vars PROVE Discipline'
  OBVIOUS
<1>1. CASE io_wait
  <2>1. /\ gfd_read' = {a \in fd_read : Readable(a)} /\ gfd_write' = {a \in fd_write : Writable(a)}
        /\ UNCHANGED <<state, kernel, history>>
    BY <1>1 DEF io_wait
  <2>2. gfd_read' \intersect conn' \subseteq fd_read'
    BY <2>1 DEF state
  <2>3. ASSUME NEW x \in Pipes PROVE Watched(x)' /\ Promised(x)' /\ Excused(x)'
    <3>1. Watched(x)' /\ Excused(x)'
      BY <2>1 DEF Discipline, Watched, Excused, fifo_avail, state, history
    <3>2. Promised(x)'
      BY <2>1 DEF Promised, Writable, kernel
    <3> QED BY <3>1, <3>2
  <2> QED BY <2>2, <2>3 DEF Discipline
<1>2. ASSUME NEW a \in Atoms, DispatchStale(a) PROVE Discipline'
  <2>1. /\ gfd_read' = gfd_read \ {a} /\ gfd_write' = gfd_write \ {a}
        /\ UNCHANGED <<state, kernel, history>>
    BY <1>2 DEF DispatchStale
  <2>2. gfd_read' \intersect conn' \subseteq fd_read'
    BY <2>1 DEF Discipline, state
  <2>3. ASSUME NEW x \in Pipes PROVE Watched(x)' /\ Promised(x)' /\ Excused(x)'
    BY <2>1 DEF Discipline, Watched, Promised, Excused, Writable, fifo_avail,
                state, kernel, history
  <2> QED BY <2>2, <2>3 DEF Discipline
<1>3. ASSUME NEW a \in Atoms, Arrive(a) \/ Consume(a) \/ HangUp(a) \/ Break(a)
      PROVE  Discipline'
  <2>1. /\ UNCHANGED <<state, gfd_read, gfd_write, history>>
    BY <1>3 DEF Arrive, Consume, HangUp, Break
  <2>2. gfd_read' \intersect conn' \subseteq fd_read'
    BY <2>1 DEF Discipline, state
  <2>3. ASSUME NEW b \in Atoms, Writable(b) PROVE Writable(b)'
    <3>1. CASE room' = room /\ broken \subseteq broken'
      BY <3>1, <2>3 DEF Writable
    <3>2. CASE Consume(a)
      <4>1. room \in [Atoms -> Nat] /\ room' = [room EXCEPT ![a] = room[a] + 1]
        BY <3>2 DEF Consume, Stored, Queues
      <4>2. room[b] \in Nat /\ room'[b] = IF b = a THEN room[b] + 1 ELSE room[b]
        BY <4>1
      <4>3. room[b] > 0 => room'[b] > 0
        BY <4>2
      <4>4. broken' = broken
        BY <3>2 DEF Consume
      <4> QED BY <2>3, <4>3, <4>4 DEF Writable
    <3> QED BY <1>3, <3>1, <3>2 DEF Arrive, HangUp, Break
  <2>4. ASSUME NEW x \in Pipes PROVE Watched(x)' /\ Promised(x)' /\ Excused(x)'
    <3>1. Watched(x)' /\ Excused(x)'
      BY <2>1 DEF Discipline, Watched, Excused, fifo_avail, state, history
    <3>2. Promised(x)'
      <4>1. WriteAtom[x] \in Atoms
        BY PipesAssumption
      <4>2. Promised(x)
        BY DEF Discipline
      <4>3. Writable(WriteAtom[x]) => Writable(WriteAtom[x])'
        BY <2>3, <4>1
      <4> QED BY <2>1, <4>2, <4>3 DEF Promised, fifo_avail, state
    <3> QED BY <3>1, <3>2
  <2> QED BY <2>2, <2>4 DEF Discipline
<1>4. CASE UNCHANGED vars
  BY <1>4 DEF vars, state, kernel, history, Discipline, Watched, Promised, Excused, Writable,
              fifo_avail
<1> QED BY <1>1, <1>2, <1>3, <1>4, DisciplineRead, DisciplineWrite, DisciplineStuff
        DEF Next, Loop, Dispatch, Environment

\* The discipline of the loop is an invariant.
LEMMA DisciplineAlways == Spec => [](Stored /\ Discipline)
BY StoredInit, StoredStep, DisciplineInit, DisciplineStep, PTL DEF Spec

\* Bytes in a pipe with a sink always have IO_WRITE asked for them, and IO_READ
\* is given up on an open source exactly while the pipe is blocked, which is only
\* when it is full: for any pipes sharing atoms in any way the program allows.
THEOREM PipesFlowControl == Spec => []FlowControl
<1>1. Discipline => FlowControl
  BY DEF Discipline, Watched, FlowControl
<1> QED BY <1>1, DisciplineAlways, PTL

\* What select reported still holds when its turn comes, for any other handlers
\* dispatched in between.
THEOREM PipesSnapshotHolds == Spec => []SnapshotHolds
<1>1. Discipline => SnapshotHolds
  BY DEF Discipline, Promised, SnapshotHolds
<1> QED BY <1>1, DisciplineAlways, PTL

-----------------------------------------------------------------------------
(***************************************************************************)
(* What an abort proves.  An assert fires in a state of the Discipline, and*)
(* nothing but the environment moves after it.                             *)
(***************************************************************************)
Causes == ReadAssertCause /\ WriteAssertCause

\* The assert of pipe_auto_read finds a pipe that is full and watched.
LEMMA ReadAbort ==
  ASSUME Stored, Discipline, NEW a \in Atoms, DispatchRead(a), abort' # "no"
  PROVE  abort' = "full before read" /\ stuffed' # {}
<1>1. PICK p \in Pipes : ReadAtom[p] = a /\ pipe_auto_read(p)
  BY DEF DispatchRead
<1>2. abort = "no" /\ a \in fd_read
  BY DEF DispatchRead, Discipline
<1>3. ~NDEBUG /\ fifo_avail(p) = 0 /\ Abort("full before read")
  BY <1>1, <1>2 DEF pipe_auto_read
<1>4. p \in stuffed
  BY <1>1, <1>2, <1>3 DEF Discipline, Excused
<1> QED BY <1>3, <1>4 DEF Abort, history

\* The assert of pipe_auto_write finds a sink that is gone.
LEMMA WriteAbort ==
  ASSUME Stored, Discipline, NEW a \in Atoms, DispatchWrite(a), abort' # "no"
  PROVE  /\ abort' = "full after write"
         /\ \E p \in Pipes : /\ Len(fifo'[p]) = Capacity
                             /\ WriteAtom[p] \in broken' \/ WriteAtom[p] \notin conn'
<1>1. PICK p \in Pipes : WriteAtom[p] = a /\ pipe_auto_write(p)
  BY DEF DispatchWrite
<1> DEFINE q == fifo[p]
<1>2. abort = "no" /\ a \in gfd_write
  BY DEF DispatchWrite
<1>3. PICK k \in IF q = <<>> THEN {0} ELSE WriteResults(conn, a, Len(q)) :
        Len(Left(q, k)) = Capacity /\ Abort("full after write")
  BY <1>1, <1>2 DEF pipe_auto_write
<1>4. q \in Seq(Nat) /\ Len(q) \in Nat /\ Len(q) <= Capacity /\ room \in [Atoms -> Nat]
  <2>1. fifo \in [Pipes -> Seq(Nat)] /\ Len(fifo[p]) <= Capacity /\ room \in [Atoms -> Nat]
    BY DEF Stored, Queues
  <2> QED BY <2>1
<1>5. Capacity \in Nat \ {0}
  BY PipesAssumption
<1> HIDE DEF q
<1>6. q # <<>>
  <2> SUFFICES ASSUME q = <<>> PROVE FALSE
    OBVIOUS
  <2>1. k = 0
    BY <1>3
  <2>2. Len(<<>>) = Capacity
    BY <1>3, <2>1, NothingLeft
  <2> QED BY <2>2, <1>5
<1>7. Len(q) \in Nat \ {0}
  BY <1>4, <1>6
<1>8. k \in Int /\ Positive(k) \in 0..Len(q)
  BY <1>3, <1>4, <1>6, <1>7, WriteResultsBound
<1>9. Len(Left(q, k)) = Len(q) - Positive(k)
  <2>1. <<>> \in Seq(Nat)
    OBVIOUS
  <2> QED BY <1>4, <1>8, <2>1, WriteKeeps
<1>10. Positive(k) = 0 /\ Len(q) = Capacity
  <2>1. Len(q) - Positive(k) = Capacity
    BY <1>3, <1>9
  <2>2. Positive(k) \in Nat
    BY <1>8
  <2> QED BY <1>4, <1>5, <2>1, <2>2
<1>11. a \in broken \/ a \notin conn
  <2>1. k \in WriteResults(conn, a, Len(q))
    BY <1>3, <1>6
  <2>2. k \notin 1..Least(Len(q), room[a])
    BY <1>8, <1>10 DEF Positive
  <2>3. a \notin conn \/ a \in broken \/ room[a] = 0
    BY <2>1, <2>2 DEF WriteResults
  <2>4. Promised(p)
    BY DEF Discipline
  <2>5. ~(fifo_avail(p) > 0)
    BY <1>5, <1>10 DEF fifo_avail, q
  <2> QED BY <1>1, <1>2, <2>3, <2>4, <2>5 DEF Promised, Writable
<1>12. Len(fifo[p]) = Capacity /\ fifo' = fifo /\ conn' = conn /\ broken' = broken
  BY <1>3, <1>10 DEF Abort, state, kernel, q
<1> QED BY <1>1, <1>3, <1>11, <1>12 DEF Abort

\* An abort has its cause when it happens, and nothing undoes it.
LEMMA CausesStep == Stored /\ Discipline /\ Causes /\ [Next]_vars => Causes'
<1> SUFFICES ASSUME Stored, Discipline, Causes, [Next]_vars PROVE Causes'
  OBVIOUS
<1> USE DEF Causes
<1>1. CASE abort' = "no"
  BY <1>1 DEF ReadAssertCause, WriteAssertCause
<1>2. ASSUME NEW a \in Atoms, DispatchRead(a), abort' # "no" PROVE Causes'
  BY <1>2, ReadAbort DEF ReadAssertCause, WriteAssertCause
<1>3. ASSUME NEW a \in Atoms, DispatchWrite(a), abort' # "no" PROVE Causes'
  BY <1>3, WriteAbort DEF ReadAssertCause, WriteAssertCause
<1>4. ASSUME \/ io_wait
             \/ \E a \in Atoms : DispatchStale(a)
             \/ \E p \in Pipes, n \in WriteSizes : pipe_write(p, n)
      PROVE  abort' = "no"
  BY <1>4 DEF io_wait, Waiting, DispatchStale, pipe_write
<1>5. ASSUME NEW a \in Atoms, Arrive(a) \/ Consume(a) \/ HangUp(a) \/ Break(a) PROVE Causes'
  <2>1. UNCHANGED <<fifo, conn, abort, stuffed>> /\ broken \subseteq broken'
    BY <1>5 DEF Arrive, Consume, HangUp, Break, state, history
  <2> QED BY <2>1 DEF ReadAssertCause, WriteAssertCause
<1>6. CASE UNCHANGED vars
  BY <1>6 DEF vars, state, kernel, history, ReadAssertCause, WriteAssertCause
<1> QED BY <1>1, <1>2, <1>3, <1>4, <1>5, <1>6 DEF Next, Loop, Dispatch, Environment

\* Every abort has its cause.
LEMMA CausesAlways == Spec => []Causes
<1>1. Init => Causes
  BY DEF Init, Causes, ReadAssertCause, WriteAssertCause
<1> QED BY <1>1, CausesStep, DisciplineAlways, PTL DEF Spec

\* The assert that opens pipe_auto_read can fire only after a pipe_write filled
\* a fifo, however large the fifo and whatever the operating system answers.
THEOREM PipesReadAssertCause == Spec => []ReadAssertCause
BY CausesAlways, PTL DEF Causes

\* The assert that closes pipe_auto_write can fire only with the sink gone.
THEOREM PipesWriteAssertCause == Spec => []WriteAssertCause
BY CausesAlways, PTL DEF Causes

-----------------------------------------------------------------------------
\* What has been read to its end stays at its end.
LEMMA EofStep ==
  ~NDEBUG /\ Stored /\ EofIsReal /\ [Next]_vars => EofIsReal'
<1> SUFFICES ASSUME ~NDEBUG, Stored, EofIsReal, [Next]_vars PROVE EofIsReal'
  OBVIOUS
<1>1. CASE eofs' = eofs /\ eof \subseteq eof' /\ \A b \in eofs : inbox'[b] = inbox[b]
  BY <1>1 DEF EofIsReal
<1>2. ASSUME NEW a \in Atoms, DispatchRead(a) PROVE EofIsReal'
  <2>1. PICK p \in Pipes : ReadAtom[p] = a /\ pipe_auto_read(p)
    BY <1>2 DEF DispatchRead
  <2>2. CASE Abort("full before read")
    BY <2>2, <1>1 DEF Abort, kernel, history
  <2>3. ASSUME fifo_avail(p) > 0, NEW r \in ReadResults(a, fifo_avail(p)), AfterRead(p, r), eof' = eof
        PROVE  EofIsReal'
    <3>1. inbox \in [Atoms -> Nat]
      BY DEF Stored, Queues
    <3>2. inbox' = [inbox EXCEPT ![a] = @ - Positive(r)]
          /\ eofs' = IF r = 0 THEN eofs \union {a} ELSE eofs
      BY <2>1, <2>3 DEF AfterRead
    <3>3. \A b \in Atoms : b # a => inbox'[b] = inbox[b]
      BY <3>1, <3>2
    <3>4. inbox'[a] = inbox[a] - Positive(r)
      BY <3>1, <3>2
    <3>5. inbox[a] \in Nat /\ fifo_avail(p) # 0
      BY <3>1, <2>3
    <3>6. inbox[a] = 0 => Positive(r) = 0
      BY <2>3, <3>5 DEF ReadResults, Positive, Fail
    <3>7. r = 0 => inbox[a] = 0 /\ a \in eof
      BY <2>3, <3>5 DEF ReadResults, Fail
    <3>8. inbox[a] = 0 => inbox'[a] = 0
      BY <3>4, <3>6
    <3>9. eofs \subseteq Atoms
      BY DEF Stored, Queues
    <3> QED BY <2>3, <3>2, <3>3, <3>7, <3>8, <3>9 DEF EofIsReal
  <2> QED BY <2>1, <2>2, <2>3 DEF pipe_auto_read
<1>3. ASSUME NEW a \in Atoms, DispatchWrite(a) PROVE EofIsReal'
  <2>1. PICK p \in Pipes : pipe_auto_write(p)
    BY <1>3 DEF DispatchWrite
  <2>2. eofs' = eofs /\ eof' = eof /\ inbox' = inbox
    BY <2>1 DEF pipe_auto_write, Abort, kernel, history
  <2> QED BY <2>2, <1>1
<1>4. ASSUME NEW a \in Atoms, Arrive(a) PROVE EofIsReal'
  <2>1. inbox' = [inbox EXCEPT ![a] = @ + 1] /\ a \notin eof /\ eofs' = eofs /\ eof' = eof
    BY <1>4 DEF Arrive, history
  <2>2. inbox \in [Atoms -> Nat] /\ eofs \subseteq Atoms /\ eofs \subseteq eof
    BY DEF Stored, Queues, EofIsReal
  <2>3. \A b \in eofs : inbox'[b] = inbox[b]
    BY <2>1, <2>2
  <2> QED BY <1>1, <2>1, <2>3
<1>5. ASSUME \/ io_wait
             \/ \E a \in Atoms : DispatchStale(a) \/ Consume(a) \/ HangUp(a) \/ Break(a)
             \/ \E p \in Pipes, n \in WriteSizes : pipe_write(p, n)
             \/ UNCHANGED vars
      PROVE  eofs' = eofs /\ eof \subseteq eof' /\ inbox' = inbox
  BY <1>5 DEF io_wait, DispatchStale, Consume, HangUp, Break, pipe_write, vars, kernel, history
<1> QED BY <1>1, <1>2, <1>3, <1>4, <1>5 DEF Next, Loop, Dispatch, Environment

\* With asserts, a source is closed for an end of file only at the end of its
\* data: pipe_auto_read never asks read() for 0 bytes.
THEOREM PipesEofIsReal == ASSUME ~NDEBUG PROVE Spec => []EofIsReal
<1>1. Init => EofIsReal
  BY DEF Init, EofIsReal
<1>2. Stored /\ EofIsReal /\ [Next]_vars => EofIsReal'
  BY EofStep
<1> QED BY <1>1, <1>2, StoredAlways, PTL DEF Spec
=============================================================================
