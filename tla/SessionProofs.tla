--------------------------- MODULE SessionProofs ---------------------------
(***************************************************************************)
(* The life of a session, for any script of one transfer, fifos and room   *)
(* of any size, any typing, and children that end at any time: nothing of  *)
(* the transfer reaches the terminal, no text rz, and no late packet the   *)
(* shell.                                                                  *)
(***************************************************************************)
EXTENDS Session, SequenceTheorems, TLAPS

\* TypeOK is inductive but for this: the terminal's output is never closed.
Typed == TypeOK /\ "stdout" \in conn

(***************************************************************************)
(* What rz said and rzh did not read yet: rz speaks of the end only when it*)
(* has ended, and its ZFIN is in front of anything late until the proc of  *)
(* its pipe has seen it.                                                   *)
(***************************************************************************)
Speech(said, z, pr) ==
  /\ z = "running" => Elements(said) \intersect {"rzfin", "late"} = {}
  /\ \A i, j \in DOMAIN said : said[i] = "rzfin" /\ said[j] = "late" => i < j
  /\ pr = "zfin_scan" => (z = "finished" \/ "late" \in Elements(said) => "rzfin" \in Elements(said))

LateLast ==
  /\ head = "echo" => /\ proc = Procs("echo") /\ rz = "none"
                      /\ inbox["rzread"] = <<>> /\ rzin = <<>>
  /\ head = "rz" => \A p \in Pipe : proc[p] \in {"zfin_scan", Found(p)}
  /\ Elements(inbox["stdin"]) \subseteq {"key", "cancel"}
  /\ Speech(inbox["rzread"], rz, proc["input_master"])
  /\ NoLatePacket

-----------------------------------------------------------------------------
\* What is yet to be read of the script, how much of it was read, and whether that ends
\* within the transfer.
Rest == inbox["master"] \o script
At == Len(Script) - Len(Rest)
Within(n) == \E j \in 1..n : Script[j] = "start" /\ \A k \in j..n : Script[k] # "fin"
Past(n) == \E f \in 1..n : Script[f] = "fin" /\ Within(f - 1)

Follows(rest) == /\ Len(rest) <= Len(Script)
                 /\ \A i \in 1..Len(rest) : rest[i] = Script[Len(Script) - Len(rest) + i]

Followed ==
  /\ Follows(Rest)
  /\ proc["master_output"] = "zfin_scan" => Within(At)
  /\ proc["master_output"] = "zfin_save" => Past(At)
  /\ pc \in {"idle_end", "restore"} => head = "echo"
  /\ NoTextToRz

(***************************************************************************)
(* As long as rz has not crashed, it ended because it had its ZFIN, the    *)
(* last of what it got.  What is in the pipe when all tasks are removed is *)
(* never written.                                                          *)
(***************************************************************************)
LastFin(q, pr) == /\ \A i \in 1..Len(q) - 1 : q[i] # "fin"
                  /\ pr = "zfin_scan" => "fin" \notin Elements(q)

FinLast == LastFin(rzin \o fifo["master_output"], proc["master_output"])

Leaving == Ending /\ pc \in {"idle_end", "restore", "exited"}

Children ==
  /\ pc = "reap" => rz = "zombie"
  /\ pc = "remove" => rz = "zombie" \/ Ending
  /\ head = "rz" => rz # "none"
  /\ killed = "zfin" => rz \in {"finished", "zombie"}

Clean ==
  /\ Elements(shown) \subseteq Text \union {"status"}
  /\ Elements(savebuf) \subseteq Text
  /\ head = "echo" /\ ~Leaving =>
       Elements(fifo["master_output"]) \subseteq Text \union {"status"} /\ ~Within(At)
  /\ head = "rz" => FinLast
  /\ rz \in {"finished", "zombie"} => /\ fifo["master_output"] = <<>> /\ rzin = <<>>
                                     /\ proc["master_output"] = "zfin_save"

Cleanly == Children /\ (~crashed => Clean)

-----------------------------------------------------------------------------
(***************************************************************************)
(* Sequences: their parts, and what is in them.                            *)
(***************************************************************************)
LEMMA Parts ==
  ASSUME NEW S, NEW s \in Seq(S), NEW n \in 0..Len(s)
  PROVE  /\ SubSeq(s, 1, n) \in Seq(S) /\ Len(SubSeq(s, 1, n)) = n
         /\ Suffix(s, n) \in Seq(S) /\ Len(Suffix(s, n)) = Len(s) - n
         /\ \A i \in 1..n : SubSeq(s, 1, n)[i] = s[i]
         /\ \A i \in 1..Len(s) - n : Suffix(s, n)[i] = s[n + i]
<1>1. Len(s) \in Nat /\ \A i \in 1..Len(s) : s[i] \in S
  BY ElementOfSeq, LenProperties
<1>2. /\ SubSeq(s, 1, n) \in Seq(S) /\ Len(SubSeq(s, 1, n)) = n
      /\ \A i \in 1..n : SubSeq(s, 1, n)[i] = s[i]
  <2>1. \A i \in 1..n : s[i] \in S
    BY <1>1
  <2>2. /\ SubSeq(s, 1, n) \in Seq(S)
        /\ Len(SubSeq(s, 1, n)) = IF 1 <= n THEN n - 1 + 1 ELSE 0
        /\ \A i \in 1..n - 1 + 1 : SubSeq(s, 1, n)[i] = s[1 + i - 1]
    BY <2>1, SubSeqProperties
  <2> QED BY <1>1, <2>2
<1>3. /\ Suffix(s, n) \in Seq(S) /\ Len(Suffix(s, n)) = Len(s) - n
      /\ \A i \in 1..Len(s) - n : Suffix(s, n)[i] = s[n + i]
  <2>1. \A i \in n + 1..Len(s) : s[i] \in S
    BY <1>1
  <2>2. n + 1 \in Int /\ Len(s) \in Int
    BY <1>1
  <2> DEFINE t == SubSeq(s, n + 1, Len(s))
  <2>3. /\ t \in Seq(S) /\ Len(t) = IF n + 1 <= Len(s) THEN Len(s) - (n + 1) + 1 ELSE 0
        /\ \A i \in 1..Len(s) - (n + 1) + 1 : t[i] = s[(n + 1) + i - 1]
    BY <2>1, <2>2, SubSeqProperties
  <2>4. t = Suffix(s, n)
    BY DEF Suffix
  <2> HIDE DEF t
  <2>5. Len(s) - (n + 1) + 1 = Len(s) - n
    BY <1>1
  <2>6. Len(t) = Len(s) - n
    BY <1>1, <2>3
  <2>7. ASSUME NEW i \in 1..Len(s) - n PROVE t[i] = s[n + i]
    <3>1. (n + 1) + i - 1 = n + i
      BY <1>1
    <3> QED BY <2>3, <2>5, <3>1
  <2> QED BY <2>3, <2>4, <2>6, <2>7
<1> QED BY <1>2, <1>3

LEMMA Joined ==
  ASSUME NEW S, NEW s \in Seq(S), NEW t \in Seq(S)
  PROVE  /\ s \o t \in Seq(S) /\ Len(s \o t) = Len(s) + Len(t)
         /\ \A i \in 1..Len(s) : (s \o t)[i] = s[i]
         /\ \A i \in 1..Len(t) : (s \o t)[Len(s) + i] = t[i]
<1>1. Len(s) \in Nat /\ Len(t) \in Nat
  OBVIOUS
<1>2. /\ s \o t \in Seq(S) /\ Len(s \o t) = Len(s) + Len(t)
      /\ \A i \in 1..Len(s) + Len(t) :
           (s \o t)[i] = IF i <= Len(s) THEN s[i] ELSE t[i - Len(s)]
  BY ConcatProperties
<1> QED BY <1>1, <1>2

LEMMA Regrouped ==
  ASSUME NEW a \in Seq(Tokens), NEW b \in Seq(Tokens), NEW c \in Seq(Tokens)
  PROVE  (a \o b) \o c = a \o (b \o c)
BY ConcatAssociative

LEMMA ElementsAre ==
  ASSUME NEW S, NEW s \in Seq(S)
  PROVE  /\ Len(s) \in Nat /\ DOMAIN s = 1..Len(s) /\ Elements(s) \subseteq S
         /\ \A x : x \in Elements(s) <=> \E i \in 1..Len(s) : s[i] = x
         /\ Elements(s) = {} <=> s = <<>>
<1>1. Len(s) \in Nat /\ DOMAIN s = 1..Len(s) /\ \A i \in 1..Len(s) : s[i] \in S
  BY ElementOfSeq, LenProperties
<1>2. s = <<>> <=> Len(s) = 0
  BY EmptySeq
<1>3. \A x : x \in Elements(s) <=> \E i \in 1..Len(s) : s[i] = x
  BY <1>1 DEF Elements
<1>4. Elements(s) = {} <=> Len(s) = 0
  <2>1. Len(s) > 0 => s[1] \in Elements(s)
    BY <1>1, <1>3
  <2>2. Len(s) = 0 => Elements(s) = {}
    BY <1>1 DEF Elements
  <2> QED BY <1>1, <2>1, <2>2
<1> QED BY <1>1, <1>2, <1>3, <1>4

LEMMA PartElements ==
  ASSUME NEW S, NEW s \in Seq(S), NEW n \in 0..Len(s)
  PROVE  Elements(s) = Elements(SubSeq(s, 1, n)) \union Elements(Suffix(s, n))
<1> DEFINE a == SubSeq(s, 1, n)
           b == Suffix(s, n)
<1>1. /\ a \in Seq(S) /\ Len(a) = n /\ b \in Seq(S) /\ Len(b) = Len(s) - n
      /\ \A i \in 1..n : a[i] = s[i]
      /\ \A i \in 1..Len(s) - n : b[i] = s[n + i]
  BY Parts
<1> HIDE DEF a, b
<1>2. \A x : /\ x \in Elements(a) <=> \E i \in 1..n : a[i] = x
             /\ x \in Elements(b) <=> \E i \in 1..Len(s) - n : b[i] = x
             /\ x \in Elements(s) <=> \E i \in 1..Len(s) : s[i] = x
  BY <1>1, ElementsAre
<1>3. Len(s) \in Nat
  BY ElementsAre
<1>4. ASSUME NEW x \in Elements(s) PROVE x \in Elements(a) \union Elements(b)
  <2>1. PICK i \in 1..Len(s) : s[i] = x
    BY <1>2, <1>4
  <2>2. CASE i <= n
    BY <1>1, <1>2, <2>1, <2>2
  <2>3. CASE i > n
    <3>1. i - n \in 1..Len(s) - n /\ n + (i - n) = i
      BY <1>3, <2>1, <2>3
    <3>2. b[i - n] = x
      BY <1>1, <2>1, <3>1
    <3> QED BY <1>2, <3>1, <3>2
  <2> QED BY <2>2, <2>3
<1>5. ASSUME NEW x \in Elements(a) \union Elements(b) PROVE x \in Elements(s)
  <2>1. CASE x \in Elements(a)
    <3>1. PICK i \in 1..n : a[i] = x
      BY <1>2, <2>1
    <3> QED BY <1>1, <1>2, <1>3, <3>1
  <2>2. CASE x \in Elements(b)
    <3>1. PICK i \in 1..Len(s) - n : b[i] = x
      BY <1>2, <2>2
    <3>2. n + i \in 1..Len(s) /\ s[n + i] = x
      BY <1>1, <1>3, <3>1
    <3> QED BY <1>2, <3>2
  <2> QED BY <1>5, <2>1, <2>2
<1> QED BY <1>4, <1>5 DEF a, b

LEMMA PartsJoined ==
  ASSUME NEW S, NEW q \in Seq(S), NEW n \in 0..Len(q)
  PROVE  SubSeq(q, 1, n) \o Suffix(q, n) = q
<1> DEFINE s == SubSeq(q, 1, n)
           t == Suffix(q, n)
<1>1. /\ s \in Seq(S) /\ Len(s) = n /\ t \in Seq(S) /\ Len(t) = Len(q) - n
      /\ \A i \in 1..n : s[i] = q[i]
      /\ \A i \in 1..Len(q) - n : t[i] = q[n + i]
  BY Parts
<1> HIDE DEF s, t
<1>2. /\ s \o t \in Seq(S) /\ Len(s \o t) = n + Len(t)
      /\ \A i \in 1..n : (s \o t)[i] = s[i]
      /\ \A i \in 1..Len(t) : (s \o t)[n + i] = t[i]
  BY <1>1, Joined
<1> DEFINE u == s \o t
<1> HIDE DEF u
<1>3. u \in Seq(S) /\ Len(u) = Len(q) /\ Len(q) \in Nat
  BY <1>1, <1>2, ElementsAre DEF u
<1>4. ASSUME NEW i \in 1..Len(q) PROVE u[i] = q[i]
  <2>1. CASE i <= n
    BY <1>1, <1>2, <2>1 DEF u
  <2>2. CASE i > n
    <3>1. i - n \in 1..Len(t) /\ n + (i - n) = i
      BY <1>1, <1>3, <2>2
    <3>2. u[n + (i - n)] = t[i - n] /\ t[i - n] = q[n + (i - n)]
      BY <1>1, <1>2, <3>1 DEF u
    <3> QED BY <3>1, <3>2
  <2> QED BY <1>3, <2>1, <2>2
<1>5. u = q
  BY <1>3, <1>4, SeqEqual
<1> QED BY <1>5 DEF u, s, t

LEMMA JoinedElements ==
  ASSUME NEW S, NEW s \in Seq(S), NEW t \in Seq(S)
  PROVE  Elements(s \o t) = Elements(s) \union Elements(t)
<1> DEFINE u == s \o t
<1>1. /\ u \in Seq(S) /\ Len(u) = Len(s) + Len(t)
      /\ \A i \in 1..Len(s) : u[i] = s[i]
      /\ \A i \in 1..Len(t) : u[Len(s) + i] = t[i]
  BY Joined
<1> HIDE DEF u
<1>2. Len(s) \in Nat /\ Len(t) \in Nat
  BY ElementsAre
<1>3. Len(s) \in 0..Len(u) /\ Len(u) - Len(s) = Len(t)
  BY <1>1, <1>2
<1>4. SubSeq(u, 1, Len(s)) = s
  <2> DEFINE a == SubSeq(u, 1, Len(s))
  <2>1. a \in Seq(S) /\ Len(a) = Len(s) /\ \A i \in 1..Len(s) : a[i] = u[i]
    BY <1>1, <1>3, Parts
  <2> HIDE DEF a
  <2>2. a = s
    BY <1>1, <2>1, SeqEqual
  <2> QED BY <2>2 DEF a
<1>5. Suffix(u, Len(s)) = t
  <2> DEFINE b == Suffix(u, Len(s))
  <2>1. b \in Seq(S) /\ Len(b) = Len(t) /\ \A i \in 1..Len(t) : b[i] = u[Len(s) + i]
    BY ZenonT(60), <1>1, <1>3, Parts
  <2> HIDE DEF b
  <2>2. b = t
    BY <1>1, <2>1, SeqEqual
  <2> QED BY <2>2 DEF b
<1>6. Elements(u) = Elements(SubSeq(u, 1, Len(s))) \union Elements(Suffix(u, Len(s)))
  BY <1>1, <1>3, PartElements
<1> QED BY <1>4, <1>5, <1>6 DEF u

LEMMA OneElement == \A x : <<x>> \in Seq({x}) /\ Len(<<x>>) = 1 /\ <<x>>[1] = x /\ Elements(<<x>>) = {x}
<1> TAKE x
<1>1. DOMAIN <<x>> = {1} /\ <<x>>[1] = x
  OBVIOUS
<1> QED BY <1>1 DEF Elements

LEMMA PlaceIs ==
  ASSUME NEW S, NEW s \in Seq(S), NEW t
  PROVE  /\ Place(s, t) \in 0..Len(s)
         /\ Place(s, t) > 0 <=> t \in Elements(s)
         /\ Place(s, t) > 0 => s[Place(s, t)] = t
<1>1. Len(s) \in Nat /\ DOMAIN s = 1..Len(s)
  BY ElementsAre
<1>2. CASE t \in Elements(s)
  <2>1. \E i \in DOMAIN s : s[i] = t
    BY <1>2 DEF Elements
  <2>2. Place(s, t) \in DOMAIN s /\ s[Place(s, t)] = t
    BY <1>2, <2>1 DEF Place
  <2> QED BY <1>1, <1>2, <2>2
<1>3. CASE t \notin Elements(s)
  BY <1>1, <1>3 DEF Place
<1> QED BY <1>2, <1>3

LEMMA CutIs ==
  ASSUME NEW S, NEW s \in Seq(S), NEW p, NEW pr
  PROVE  Cut(p, pr, s) \in 0..Len(s)
<1>1. Len(s) \in Nat /\ Place(s, Zfin(p)) \in 0..Len(s)
  BY ElementsAre, PlaceIs
<1> QED BY <1>1 DEF Cut

-----------------------------------------------------------------------------
(***************************************************************************)
(* What a handler does: it takes something in front of a pipe's data,      *)
(* writes a part of it to the sink and keeps the rest.                     *)
(***************************************************************************)
Sinks == {"stdout", "master", "rzwrite"}

Moved(p, q, h, c) ==
  /\ \E n \in 0..Len(q) : /\ fifo' = [fifo EXCEPT ![p] = Suffix(q, n)]
                          /\ Deliver(Sink(h, p), SubSeq(q, 1, n))
                          /\ n <= RoomIn(Sink(h, p))
  /\ conn' \subseteq c /\ c \ {"rzwrite"} \subseteq conn'
  /\ fd_read' \subseteq conn' /\ fd_write' \subseteq conn'
  /\ block_read' \in [Pipe -> BOOLEAN]

LEMMA EndsAre ==
  ASSUME NEW h, NEW p \in Pipe
  PROVE  Sink(h, p) \in Sinks /\ Source(h, p) \in {"stdin", "master", "rzread"}
BY DEF Pipe, Sinks, Sink, Source

LEMMA EndsDiffer ==
  ASSUME NEW h, NEW p \in Pipe, NEW o \in Pipe, o # p
  PROVE  Sink(h, o) # Sink(h, p) /\ Source(h, o) # Source(h, p)
<1>1. CASE p = "input_master" /\ o = "master_output"
  BY <1>1 DEF Sink, Source
<1>2. CASE p = "master_output" /\ o = "input_master"
  BY <1>2 DEF Sink, Source
<1> QED BY <1>1, <1>2 DEF Pipe

LEMMA RoomIs ==
  ASSUME TypeOK, NEW a \in Sinks
  PROVE  RoomIn(a) \in Nat
<1>1. Len(rzin) \in Nat /\ MaxRoom \in Nat
  BY ElementsAre, SessionAssumption DEF TypeOK
<1> QED BY <1>1 DEF TypeOK, Sinks, RoomIn

LEMMA WriteResultsAre ==
  ASSUME NEW c, NEW a, NEW n \in Nat \ {0}, RoomIn(a) \in Nat, NEW k \in WriteResults(c, a, n)
  PROVE  /\ k \in Int /\ Positive(k) \in 0..n /\ Positive(k) <= RoomIn(a)
         /\ k = Epipe => a = "rzwrite"
<1>1. CASE k \in {Fail, Epipe}
  <2>1. k = Epipe => Broken(a)
    <3>1. Least(n, RoomIn(a)) \in Int /\ Epipe \notin 1..Least(n, RoomIn(a)) /\ Epipe # Fail
      BY DEF Least, Epipe, Fail
    <3> QED BY <3>1 DEF WriteResults
  <2> QED BY <1>1, <2>1 DEF Fail, Epipe, Positive, Broken
<1>2. CASE k \in 1..Least(n, RoomIn(a))
  BY <1>2 DEF Least, Positive, Epipe
<1> QED BY <1>1, <1>2 DEF WriteResults

\* What the handlers write is of the right kind.
LEMMA DeliverTyped ==
  ASSUME TypeOK, NEW a \in Sinks, NEW s \in Seq(Tokens), Len(s) <= RoomIn(a), Deliver(a, s)
  PROVE  /\ room' \in [{"stdout", "master"} -> 0..MaxRoom]
         /\ rzin' \in Seq(Tokens) /\ Len(rzin') <= MaxRoom
         /\ shown' \in Seq(Tokens) /\ late' \in BOOLEAN
<1>1. Len(s) \in Nat /\ Len(rzin) \in Nat /\ MaxRoom \in Nat
  BY ElementsAre, SessionAssumption DEF TypeOK
<1>2. rzin \o s \in Seq(Tokens) /\ Len(rzin \o s) = Len(rzin) + Len(s) /\ shown \o s \in Seq(Tokens)
  BY Joined DEF TypeOK
<1>3. room' \in [{"stdout", "master"} -> 0..MaxRoom]
  BY SMTT(30), <1>1 DEF Deliver, TypeOK, RoomIn, Sinks
<1>4. rzin' \in Seq(Tokens) /\ Len(rzin') <= MaxRoom
  BY <1>1, <1>2 DEF Deliver, TypeOK, RoomIn
<1> QED BY <1>2, <1>3, <1>4 DEF Deliver, TypeOK

\* The answers to a write of q, which is not made for nothing.
Answers(c, a, q) == IF q = <<>> THEN {0} ELSE WriteResults(c, a, Len(q))

LEMMA WrittenIs ==
  ASSUME NEW S, NEW q \in Seq(S), NEW c, NEW a, RoomIn(a) \in Nat, NEW k \in Answers(c, a, q)
  PROVE  Positive(k) \in 0..Len(q) /\ Positive(k) <= RoomIn(a) /\ (k = Epipe => a = "rzwrite")
<1>1. CASE q = <<>>
  BY <1>1 DEF Positive, Epipe, Answers
<1>2. CASE q # <<>>
  <2>1. Len(q) \in Nat \ {0} /\ k \in WriteResults(c, a, Len(q))
    BY <1>2, EmptySeq DEF Answers
  <2> QED BY <2>1, WriteResultsAre
<1> QED BY <1>1, <1>2

LEMMA AfterReadMoves ==
  ASSUME TypeOK, NEW p \in Pipe, NEW q \in Seq(Tokens), NEW h, NEW c, NEW fr,
         NEW b \in [Pipe -> BOOLEAN], AfterRead(p, q, h, c, fr, b)
  PROVE  Moved(p, q, h, c)
<1> DEFINE a == Sink(h, p)
<1>1. a \in Sinks /\ RoomIn(a) \in Nat /\ Len(q) \in Nat
  BY EndsAre, RoomIs, ElementsAre
<1>2. PICK k \in IF q = <<>> THEN {0} ELSE WriteResults(c, a, Len(q)) :
        LET left == Suffix(q, Positive(k))
            full == Full(left)
        IN  /\ fifo' = [fifo EXCEPT ![p] = left]
            /\ Deliver(a, SubSeq(q, 1, Positive(k)))
            /\ conn' = IF k = Epipe THEN c \ {a} ELSE c
            /\ fd_write' = (IF left = <<>> THEN fd_write ELSE fd_write \union {a}) \intersect conn'
            /\ fd_read' = (IF full THEN fr \ {Source(h, p)} ELSE fr) \intersect conn'
            /\ block_read' = [b EXCEPT ![p] = @ \/ full]
  BY DEF AfterRead
<1>3. Positive(k) \in 0..Len(q) /\ Positive(k) <= RoomIn(a) /\ (k = Epipe => a = "rzwrite")
  <2>1. k \in Answers(c, a, q)
    BY DEF Answers
  <2> HIDE DEF a
  <2> QED BY <1>1, <2>1, WrittenIs
<1>4. block_read' \in [Pipe -> BOOLEAN]
  <2>1. Full(Suffix(q, Positive(k))) \in BOOLEAN
    BY DEF Full
  <2>2. (b[p] \/ Full(Suffix(q, Positive(k)))) \in BOOLEAN
    OBVIOUS
  <2> QED BY <1>2, <2>2
<1>5. conn' \subseteq c /\ c \ {"rzwrite"} \subseteq conn' /\ fd_read' \subseteq conn' /\ fd_write' \subseteq conn'
  BY <1>2, <1>3
<1> QED BY <1>2, <1>3, <1>4, <1>5 DEF Moved

LEMMA WriteMoves ==
  ASSUME TypeOK, NEW p \in Pipe, pipe_auto_write(p)
  PROVE  \/ End("full after write")
         \/ /\ Moved(p, fifo[p], head, conn)
            /\ UNCHANGED <<head, proc, savebuf, pc, children, script, typed, inbox,
                           astray, dropped, crashed>>
<1> DEFINE a == Sink(head, p)
           q == fifo[p]
<1>1. a \in Sinks /\ RoomIn(a) \in Nat /\ q \in Seq(Tokens) /\ Len(q) \in Nat
  BY EndsAre, RoomIs, ElementsAre DEF TypeOK
<1>2. PICK k \in IF q = <<>> THEN {0} ELSE WriteResults(conn, a, Len(q)) :
        LET left == Suffix(q, Positive(k))
            src == Source(head, p)
            resume == block_read[p] /\ src \in (IF k = Epipe THEN conn \ {a} ELSE conn)
        IN  \/ ~NDEBUG /\ AssertFails(q, left) /\ End("full after write")
            \/ /\ NDEBUG \/ ~AssertFails(q, left)
               /\ fifo' = [fifo EXCEPT ![p] = left]
               /\ Deliver(a, SubSeq(q, 1, Positive(k)))
               /\ conn' = IF k = Epipe THEN conn \ {a} ELSE conn
               /\ block_read' = [block_read EXCEPT ![p] = @ /\ ~resume]
               /\ fd_read' = (IF resume THEN fd_read \union {src} ELSE fd_read) \intersect conn'
               /\ fd_write' = (IF left = <<>> THEN fd_write \ {a} ELSE fd_write) \intersect conn'
               /\ UNCHANGED <<head, proc, savebuf, pc, children, script, typed, inbox,
                              astray, dropped, crashed>>
  BY DEF pipe_auto_write
<1>3. Positive(k) \in 0..Len(q) /\ Positive(k) <= RoomIn(a) /\ (k = Epipe => a = "rzwrite")
  <2>1. k \in Answers(conn, a, q)
    BY DEF Answers
  <2> HIDE DEF a, q
  <2> QED BY <1>1, <2>1, WrittenIs
<1>4. CASE End("full after write")
  BY <1>4
<1>5. CASE ~End("full after write")
  <2>1. block_read' \in [Pipe -> BOOLEAN]
    <3> DEFINE r == block_read[p] /\ Source(head, p) \in (IF k = Epipe THEN conn \ {a} ELSE conn)
    <3>1. block_read' = [block_read EXCEPT ![p] = block_read[p] /\ ~r]
      BY <1>2, <1>5
    <3>2. (block_read[p] /\ ~r) \in BOOLEAN
      OBVIOUS
    <3> HIDE DEF r
    <3> QED BY <3>1, <3>2 DEF TypeOK
  <2>2. /\ fifo' = [fifo EXCEPT ![p] = Suffix(q, Positive(k))]
        /\ Deliver(a, SubSeq(q, 1, Positive(k)))
    BY <1>2, <1>5
  <2>3. conn' \subseteq conn /\ conn \ {"rzwrite"} \subseteq conn'
        /\ fd_read' \subseteq conn' /\ fd_write' \subseteq conn'
    BY <1>2, <1>3, <1>5
  <2> QED BY <1>2, <1>3, <1>5, <2>1, <2>2, <2>3 DEF Moved
<1> QED BY <1>4, <1>5

-----------------------------------------------------------------------------
\* A read of r tokens that announces no transfer.
Reads(p, r) ==
  LET a == Source(head, p)
      s == SubSeq(inbox[a], 1, r)
      n == Cut(p, proc[p], s)
  IN  /\ r \in 0..Len(inbox[a]) /\ Len(fifo[p]) + r <= Capacity
      /\ ~(proc[p] = "zrq_scan" /\ "start" \in Elements(s))
      /\ Took(a, r)
      /\ proc' = [proc EXCEPT ![p] = NextProc(p, @, s)]
      /\ savebuf' = IF p = "master_output" THEN savebuf \o Suffix(s, n) ELSE savebuf
      /\ killed' = IF Terminates(p, s) THEN KilledFor("zfin") ELSE killed
      /\ \E c \in {conn, conn \ {a}} : Moved(p, fifo[p] \o SubSeq(s, 1, n), head, c)
      /\ UNCHANGED <<head, pc, sigchild_received, rz, shell, script, typed, astray, dropped, crashed>>

\* One that does, with the header at i.
Starts(r, i) ==
  LET p == "master_output"
      s == SubSeq(inbox["master"], 1, r)
      rest == Suffix(s, i)
      n == Cut(p, "zfin_scan", rest)
  IN  /\ r \in 1..Len(inbox["master"]) /\ Len(fifo[p]) + r <= Capacity
      /\ proc[p] = "zrq_scan" /\ i \in 1..r /\ s[i] = "start"
      /\ Took("master", r)
      /\ astray' = astray \o (fifo[p] \o SubSeq(s, 1, i - 1))
      /\ head' = "rz" /\ rz' = "running"
      /\ proc' = [Procs("rz") EXCEPT ![p] = NextProc(p, @, rest)]
      /\ savebuf' = Suffix(rest, n)
      /\ Moved(p, <<"start">> \o SubSeq(rest, 1, n), "rz", conn \union RzAtoms)
      /\ UNCHANGED <<pc, killed, sigchild_received, shell, script, typed, dropped, crashed>>

LEMMA ReadResultsAre ==
  ASSUME TypeOK, NEW a \in {"stdin", "master", "rzread"}, NEW n \in Nat, NEW r \in ReadResults(a, n)
  PROVE  Positive(r) \in 0..Len(inbox[a]) /\ Positive(r) <= n
<1>1. Len(inbox[a]) \in Nat /\ (inbox[a] # <<>> => Len(inbox[a]) > 0)
  BY ElementsAre, EmptySeq DEF TypeOK
<1>2. CASE r \in {0, Fail}
  BY <1>1, <1>2 DEF Fail, Positive
<1>3. CASE r \in 1..Least(n, Len(inbox[a]))
  BY <1>1, <1>3 DEF Least, Positive
<1>4. CASE r \in PtyEnd
  <2>1. r \in {0, -1}
    BY <1>4, SessionAssumption
  <2> QED BY <1>1, <2>1 DEF Positive
<1> QED BY <1>2, <1>3, <1>4 DEF ReadResults

LEMMA AvailIs ==
  ASSUME TypeOK, NEW p \in Pipe
  PROVE  fifo_avail(p) \in Nat /\ fifo_avail(p) = Capacity - Len(fifo[p]) /\ Len(fifo[p]) \in Nat
         /\ Capacity \in Nat \ {0}
BY ElementsAre, SessionAssumption DEF TypeOK, fifo_avail

LEMMA ReadDataIs ==
  ASSUME TypeOK, NEW p \in Pipe, ReadData(p)
  PROVE  \E r \in Nat : Reads(p, r)
<1> DEFINE a == Source(head, p)
<1>1. a \in {"stdin", "master", "rzread"} /\ fifo_avail(p) \in Nat /\ Len(fifo[p]) \in Nat
      /\ fifo_avail(p) = Capacity - Len(fifo[p])
  BY EndsAre, AvailIs
<1>2. PICK r \in ReadResults(a, fifo_avail(p)) :
        LET s == SubSeq(inbox[a], 1, Positive(r))
            n == Cut(p, proc[p], s)
        IN  /\ ~(proc[p] = "zrq_scan" /\ "start" \in Elements(s))
            /\ Took(a, Positive(r))
            /\ proc' = [proc EXCEPT ![p] = NextProc(p, @, s)]
            /\ savebuf' = IF p = "master_output" THEN savebuf \o Suffix(s, n) ELSE savebuf
            /\ killed' = IF Terminates(p, s) THEN KilledFor("zfin") ELSE killed
            /\ AfterRead(p, fifo[p] \o SubSeq(s, 1, n), head,
                         IF r = 0 THEN conn \ {a} ELSE conn, fd_read, block_read)
            /\ UNCHANGED <<head, pc, sigchild_received, rz, shell, script, typed, astray, dropped,
                           crashed>>
  BY DEF ReadData
<1> DEFINE k == Positive(r)
           s == SubSeq(inbox[a], 1, k)
           n == Cut(p, proc[p], s)
           q == fifo[p] \o SubSeq(s, 1, n)
           c == IF r = 0 THEN conn \ {a} ELSE conn
<1>3. k \in 0..Len(inbox[a]) /\ k <= fifo_avail(p)
  BY <1>1, ReadResultsAre
<1>4. k \in Nat /\ Len(fifo[p]) + k <= Capacity
  <2>1. Len(inbox[a]) \in Nat /\ Capacity \in Nat
    BY <1>1, ElementsAre, SessionAssumption DEF TypeOK
  <2> HIDE DEF k, a
  <2> QED BY <1>1, <1>3, <2>1
<1>5. q \in Seq(Tokens)
  <2>1. s \in Seq(Tokens)
    BY <1>1, <1>3, Parts DEF TypeOK
  <2>2. n \in 0..Len(s)
    BY <2>1, CutIs
  <2>3. SubSeq(s, 1, n) \in Seq(Tokens)
    BY <2>1, <2>2, Parts
  <2> QED BY <2>3, Joined DEF TypeOK
<1>6. Moved(p, q, head, c)
  <2>1. AfterRead(p, q, head, c, fd_read, block_read)
    BY <1>2
  <2>2. block_read \in [Pipe -> BOOLEAN]
    BY DEF TypeOK
  <2> HIDE DEF q, c
  <2> QED BY <1>5, <2>1, <2>2, AfterReadMoves
<1>7. c \in {conn, conn \ {a}}
  OBVIOUS
<1>8. Reads(p, k)
  BY <1>2, <1>3, <1>4, <1>6, <1>7 DEF Reads
<1> QED BY <1>4, <1>8

LEMMA ReadStartIs ==
  ASSUME TypeOK, ReadStart
  PROVE  End("bailed") \/ \E r, i \in Nat : Starts(r, i)
<1> DEFINE p == "master_output"
<1>1. p \in Pipe /\ fifo_avail(p) \in Nat /\ Len(fifo[p]) \in Nat
      /\ fifo_avail(p) = Capacity - Len(fifo[p])
  BY AvailIs DEF Pipe
<1>2. PICK r \in 1..Least(fifo_avail(p), Len(inbox["master"])) :
        LET s == SubSeq(inbox["master"], 1, r)
            i == Place(s, "start")
            ahead == fifo[p] \o SubSeq(s, 1, i - 1)
            rest == Suffix(s, i)
            n == Cut(p, "zfin_scan", rest)
        IN  /\ proc[p] = "zrq_scan" /\ i > 0
            /\ \/ ahead # <<>> /\ End("bailed")
               \/ /\ Took("master", r)
                  /\ astray' = astray \o ahead
                  /\ head' = "rz" /\ rz' = "running"
                  /\ proc' = [Procs("rz") EXCEPT ![p] = NextProc(p, @, rest)]
                  /\ savebuf' = Suffix(rest, n)
                  /\ AfterRead(p, <<"start">> \o SubSeq(rest, 1, n), "rz", conn \union RzAtoms,
                               fd_read \union {"rzread"} \union StdinOpen,
                               [block_read EXCEPT !["input_master"] = FALSE])
                  /\ UNCHANGED <<pc, killed, sigchild_received, shell, script, typed, dropped,
                                 crashed>>
  BY DEF ReadStart
<1>3. CASE End("bailed")
  BY <1>3
<1>4. CASE ~End("bailed")
  <2> DEFINE s == SubSeq(inbox["master"], 1, r)
             i == Place(s, "start")
             rest == Suffix(s, i)
             n == Cut(p, "zfin_scan", rest)
             q == <<"start">> \o SubSeq(rest, 1, n)
             c == conn \union RzAtoms
             fr == fd_read \union {"rzread"} \union StdinOpen
             b == [block_read EXCEPT !["input_master"] = FALSE]
  <2>1. inbox["master"] \in Seq(Tokens) /\ Len(inbox["master"]) \in Nat
    BY ElementsAre DEF TypeOK
  <2>2. r \in 1..Len(inbox["master"]) /\ Len(fifo[p]) + r <= Capacity /\ r \in Nat
    <3>1. Capacity \in Nat
      BY SessionAssumption
    <3> HIDE DEF p
    <3> QED BY <1>1, <2>1, <3>1 DEF Least
  <2>3. s \in Seq(Tokens) /\ Len(s) = r
    BY <2>1, <2>2, Parts
  <2>4. i \in 1..r /\ i \in Nat /\ s[i] = "start" /\ "start" \in Elements(s)
    <3>1. i > 0
      BY <1>2
    <3> HIDE DEF s
    <3> QED BY <2>2, <2>3, <3>1, PlaceIs
  <2>5. q \in Seq(Tokens)
    <3>1. rest \in Seq(Tokens)
      <4>1. i \in 0..Len(s)
        BY <2>2, <2>3, <2>4
      <4> HIDE DEF s, i
      <4> QED BY <2>3, <4>1, Parts
    <3>2. n \in 0..Len(rest)
      BY <3>1, CutIs
    <3>3. SubSeq(rest, 1, n) \in Seq(Tokens)
      BY <3>1, <3>2, Parts
    <3>4. "start" \in Tokens
      BY <2>3, <2>4, ElementsAre
    <3>5. <<"start">> \in Seq(Tokens)
      BY <3>4
    <3> QED BY <3>3, <3>5, Joined
  <2>6. AfterRead(p, q, "rz", c, fr, b) /\ b \in [Pipe -> BOOLEAN]
    BY <1>2, <1>4 DEF TypeOK
  <2>7. Moved(p, q, "rz", c)
    <3> HIDE DEF q, c, fr, b
    <3> QED BY <1>1, <2>5, <2>6, AfterReadMoves
  <2>8. Starts(r, i)
    BY <1>2, <1>4, <2>2, <2>4, <2>7 DEF Starts
  <2> QED BY <2>2, <2>4, <2>8
<1> QED BY <1>3, <1>4

LEMMA AutoReadIs ==
  ASSUME TypeOK, NEW p \in Pipe, pipe_auto_read(p)
  PROVE  \/ \E how \in {"full before read", "bailed"} : End(how)
         \/ \E r \in Nat : Reads(p, r)
         \/ p = "master_output" /\ \E r, i \in Nat : Starts(r, i)
BY ReadDataIs, ReadStartIs DEF pipe_auto_read

-----------------------------------------------------------------------------
(***************************************************************************)
(* Types.                                                                  *)
(***************************************************************************)
LEMMA MovedTyped ==
  ASSUME TypeOK, NEW p \in Pipe, NEW q \in Seq(Tokens), Len(q) <= Capacity, NEW h,
         NEW c \in SUBSET Atom, "stdout" \in c, Moved(p, q, h, c)
  PROVE  /\ fifo' \in [Pipe -> Seq(Tokens)] /\ \A o \in Pipe : Len(fifo'[o]) <= Capacity
         /\ room' \in [{"stdout", "master"} -> 0..MaxRoom]
         /\ rzin' \in Seq(Tokens) /\ Len(rzin') <= MaxRoom
         /\ shown' \in Seq(Tokens) /\ late' \in BOOLEAN
         /\ conn' \subseteq Atom /\ "stdout" \in conn'
         /\ fd_read' \subseteq conn' /\ fd_write' \subseteq conn'
         /\ block_read' \in [Pipe -> BOOLEAN]
<1>1. PICK n \in 0..Len(q) : /\ fifo' = [fifo EXCEPT ![p] = Suffix(q, n)]
                             /\ Deliver(Sink(h, p), SubSeq(q, 1, n))
                             /\ n <= RoomIn(Sink(h, p))
  BY DEF Moved
<1>2. /\ SubSeq(q, 1, n) \in Seq(Tokens) /\ Len(SubSeq(q, 1, n)) = n
      /\ Suffix(q, n) \in Seq(Tokens) /\ Len(Suffix(q, n)) = Len(q) - n
  BY Parts
<1>3. /\ room' \in [{"stdout", "master"} -> 0..MaxRoom]
      /\ rzin' \in Seq(Tokens) /\ Len(rzin') <= MaxRoom
      /\ shown' \in Seq(Tokens) /\ late' \in BOOLEAN
  BY <1>1, <1>2, EndsAre, DeliverTyped
<1>4. fifo' \in [Pipe -> Seq(Tokens)] /\ \A o \in Pipe : Len(fifo'[o]) <= Capacity
  <2>1. Len(q) \in Nat /\ Capacity \in Nat
    BY ElementsAre, SessionAssumption
  <2>2. Len(Suffix(q, n)) <= Capacity
    BY <1>2, <2>1
  <2> QED BY <1>1, <1>2, <2>2 DEF TypeOK
<1>5. /\ conn' \subseteq Atom /\ "stdout" \in conn'
      /\ fd_read' \subseteq conn' /\ fd_write' \subseteq conn'
      /\ block_read' \in [Pipe -> BOOLEAN]
  BY DEF Moved
<1> QED BY <1>3, <1>4, <1>5

LEMMA TookTyped ==
  ASSUME TypeOK, NEW a \in {"stdin", "master", "rzread"}, NEW r \in 0..Len(inbox[a]), Took(a, r)
  PROVE  inbox' \in [{"stdin", "master", "rzread"} -> Seq(Tokens)]
<1>1. Suffix(inbox[a], r) \in Seq(Tokens)
  BY Parts DEF TypeOK
<1> QED BY <1>1 DEF Took, TypeOK

\* What is read and goes to the fifo fits.
LEMMA ReadFits ==
  ASSUME TypeOK, NEW p \in Pipe, NEW r, Reads(p, r)
  PROVE  LET a == Source(head, p)
             s == SubSeq(inbox[a], 1, r)
             n == Cut(p, proc[p], s)
             q == fifo[p] \o SubSeq(s, 1, n)
         IN  /\ a \in {"stdin", "master", "rzread"} /\ r \in 0..Len(inbox[a]) /\ r \in Nat
             /\ s \in Seq(Tokens) /\ Len(s) = r /\ n \in 0..r
             /\ SubSeq(s, 1, n) \in Seq(Tokens) /\ Len(SubSeq(s, 1, n)) = n
             /\ Suffix(s, n) \in Seq(Tokens) /\ Len(Suffix(s, n)) = r - n
             /\ q \in Seq(Tokens) /\ Len(q) <= Capacity
<1> DEFINE a == Source(head, p)
           s == SubSeq(inbox[a], 1, r)
           n == Cut(p, proc[p], s)
           q == fifo[p] \o SubSeq(s, 1, n)
<1>1. /\ a \in {"stdin", "master", "rzread"} /\ inbox[a] \in Seq(Tokens)
      /\ r \in 0..Len(inbox[a]) /\ Len(fifo[p]) + r <= Capacity
  BY EndsAre DEF Reads, TypeOK
<1>2. Len(inbox[a]) \in Nat /\ Len(fifo[p]) \in Nat /\ Capacity \in Nat
  BY <1>1, ElementsAre, AvailIs
<1> HIDE DEF a
<1>3. s \in Seq(Tokens) /\ Len(s) = r /\ r \in Nat
  BY <1>1, <1>2, Parts
<1> HIDE DEF s
<1>4. n \in 0..r
  BY <1>3, CutIs
<1> HIDE DEF n
<1>5. /\ SubSeq(s, 1, n) \in Seq(Tokens) /\ Len(SubSeq(s, 1, n)) = n
      /\ Suffix(s, n) \in Seq(Tokens) /\ Len(Suffix(s, n)) = r - n
  BY <1>3, <1>4, Parts
<1>6. q \in Seq(Tokens) /\ Len(q) = Len(fifo[p]) + n
  BY SMTT(30), <1>5, Joined DEF TypeOK
<1> HIDE DEF q
<1>7. Len(q) <= Capacity
  BY <1>1, <1>2, <1>3, <1>4, <1>6
<1> QED BY <1>1, <1>3, <1>4, <1>5, <1>6, <1>7 DEF a, s, n, q

LEMMA StartFits ==
  ASSUME TypeOK, NEW r, NEW i, Starts(r, i)
  PROVE  LET p == "master_output"
             s == SubSeq(inbox["master"], 1, r)
             rest == Suffix(s, i)
             n == Cut(p, "zfin_scan", rest)
             q == <<"start">> \o SubSeq(rest, 1, n)
             ahead == SubSeq(s, 1, i - 1)
         IN  /\ r \in 0..Len(inbox["master"]) /\ r \in Nat /\ i \in 1..r
             /\ s \in Seq(Tokens) /\ Len(s) = r
             /\ ahead \in Seq(Tokens) /\ Len(ahead) = i - 1
             /\ rest \in Seq(Tokens) /\ Len(rest) = r - i /\ n \in 0..r - i
             /\ SubSeq(rest, 1, n) \in Seq(Tokens) /\ Len(SubSeq(rest, 1, n)) = n
             /\ Suffix(rest, n) \in Seq(Tokens) /\ Len(Suffix(rest, n)) = r - i - n
             /\ <<"start">> \in Seq(Tokens) /\ q \in Seq(Tokens) /\ Len(q) <= Capacity
<1> DEFINE p == "master_output"
           s == SubSeq(inbox["master"], 1, r)
           rest == Suffix(s, i)
           n == Cut(p, "zfin_scan", rest)
           q == <<"start">> \o SubSeq(rest, 1, n)
           ahead == SubSeq(s, 1, i - 1)
<1>1. /\ p \in Pipe /\ inbox["master"] \in Seq(Tokens)
      /\ r \in 1..Len(inbox["master"]) /\ Len(fifo[p]) + r <= Capacity /\ i \in 1..r /\ s[i] = "start"
  BY DEF Starts, TypeOK, Pipe
<1>2. Len(inbox["master"]) \in Nat /\ Len(fifo[p]) \in Nat /\ Capacity \in Nat
  BY <1>1, ElementsAre, AvailIs
<1> HIDE DEF p
<1>3. r \in 0..Len(inbox["master"]) /\ r \in Nat
  BY <1>1, <1>2
<1>4. s \in Seq(Tokens) /\ Len(s) = r
  BY <1>1, <1>3, Parts
<1> HIDE DEF s
<1>5. i \in 0..Len(s) /\ i - 1 \in 0..Len(s)
  BY <1>1, <1>3, <1>4
<1>6. ahead \in Seq(Tokens) /\ Len(ahead) = i - 1 /\ rest \in Seq(Tokens) /\ Len(rest) = r - i
  BY <1>4, <1>5, Parts
<1> HIDE DEF rest, ahead
<1>7. n \in 0..r - i
  BY <1>6, CutIs
<1> HIDE DEF n
<1>8. /\ SubSeq(rest, 1, n) \in Seq(Tokens) /\ Len(SubSeq(rest, 1, n)) = n
      /\ Suffix(rest, n) \in Seq(Tokens) /\ Len(Suffix(rest, n)) = r - i - n
  BY <1>6, <1>7, Parts
<1>9. <<"start">> \in Seq(Tokens) /\ Len(<<"start">>) = 1
  <2>1. "start" \in Tokens
    BY <1>1, <1>4, ElementOfSeq
  <2> QED BY <2>1
<1>10. q \in Seq(Tokens) /\ Len(q) = 1 + n
  BY <1>8, <1>9, Joined
<1>11. Len(q) <= Capacity
  BY <1>1, <1>2, <1>3, <1>7, <1>10
<1> QED BY <1>1, <1>3, <1>4, <1>6, <1>7, <1>8, <1>9, <1>10, <1>11 DEF p, s, rest, n, ahead

\* What a read or a write changes, of TypeOK.
MemTyped ==
  /\ fifo \in [Pipe -> Seq(Tokens)] /\ \A p \in Pipe : Len(fifo[p]) <= Capacity
  /\ proc \in [Pipe -> {"none", "zrq_scan", "zfin_scan", "zfin_save", "zfin_drop"}]
  /\ block_read \in [Pipe -> BOOLEAN]
  /\ conn \subseteq Atom /\ fd_read \subseteq conn /\ fd_write \subseteq conn /\ "stdout" \in conn
  /\ late \in BOOLEAN /\ killed \in {"no", "user", "zfin"}
  /\ \A s \in {savebuf, rzin, shown, astray, dropped} : s \in Seq(Tokens)
  /\ inbox \in [{"stdin", "master", "rzread"} -> Seq(Tokens)]
  /\ room \in [{"stdout", "master"} -> 0..MaxRoom]
  /\ Len(rzin) <= MaxRoom

LEMMA ReadTyped ==
  ASSUME Typed, NEW p \in Pipe, NEW r, Reads(p, r)
  PROVE  /\ MemTyped' /\ UNCHANGED <<head, pc, sigchild_received, rz, shell, script, typed, crashed>>
<1> DEFINE a == Source(head, p)
           s == SubSeq(inbox[a], 1, r)
           n == Cut(p, proc[p], s)
           q == fifo[p] \o SubSeq(s, 1, n)
<1>1. /\ a \in {"stdin", "master", "rzread"} /\ r \in 0..Len(inbox[a]) /\ r \in Nat
      /\ s \in Seq(Tokens) /\ Len(s) = r /\ n \in 0..r
      /\ SubSeq(s, 1, n) \in Seq(Tokens) /\ Len(SubSeq(s, 1, n)) = n
      /\ Suffix(s, n) \in Seq(Tokens) /\ Len(Suffix(s, n)) = r - n
      /\ q \in Seq(Tokens) /\ Len(q) <= Capacity
  BY ReadFits DEF Typed
<1>2. /\ Took(a, r)
      /\ proc' = [proc EXCEPT ![p] = NextProc(p, @, s)]
      /\ savebuf' = IF p = "master_output" THEN savebuf \o Suffix(s, n) ELSE savebuf
      /\ killed' = IF Terminates(p, s) THEN KilledFor("zfin") ELSE killed
      /\ \E c \in {conn, conn \ {a}} : Moved(p, q, head, c)
      /\ UNCHANGED <<head, pc, sigchild_received, rz, shell, script, typed, astray, dropped, crashed>>
  BY DEF Reads
<1> HIDE DEF a, s, n, q
<1>3. PICK c \in {conn, conn \ {a}} : Moved(p, q, head, c)
  BY <1>2
<1>4. c \in SUBSET Atom /\ "stdout" \in c
  BY <1>1, <1>3 DEF Typed, TypeOK
<1>5. /\ fifo' \in [Pipe -> Seq(Tokens)] /\ \A o \in Pipe : Len(fifo'[o]) <= Capacity
      /\ room' \in [{"stdout", "master"} -> 0..MaxRoom]
      /\ rzin' \in Seq(Tokens) /\ Len(rzin') <= MaxRoom
      /\ shown' \in Seq(Tokens) /\ late' \in BOOLEAN
      /\ conn' \subseteq Atom /\ "stdout" \in conn'
      /\ fd_read' \subseteq conn' /\ fd_write' \subseteq conn'
      /\ block_read' \in [Pipe -> BOOLEAN]
  BY <1>1, <1>3, <1>4, MovedTyped DEF Typed
<1>6. inbox' \in [{"stdin", "master", "rzread"} -> Seq(Tokens)]
  BY <1>1, <1>2, TookTyped DEF Typed
<1>7. proc' \in [Pipe -> {"none", "zrq_scan", "zfin_scan", "zfin_save", "zfin_drop"}]
  <2>1. NextProc(p, proc[p], s) \in {proc[p], "zfin_save", "zfin_drop"}
    BY DEF NextProc, Found
  <2> QED BY <1>2, <2>1 DEF Typed, TypeOK
<1>8. savebuf' \in Seq(Tokens)
  <2>1. savebuf \in Seq(Tokens)
    BY DEF Typed, TypeOK
  <2>2. savebuf \o Suffix(s, n) \in Seq(Tokens)
    BY <1>1, <2>1, Joined
  <2> QED BY <1>2, <2>1, <2>2
<1>9. killed' \in {"no", "user", "zfin"}
  BY <1>2 DEF KilledFor, Typed, TypeOK
<1>10. astray' \in Seq(Tokens) /\ dropped' \in Seq(Tokens)
  BY <1>2 DEF Typed, TypeOK
<1> QED BY <1>2, <1>5, <1>6, <1>7, <1>8, <1>9, <1>10 DEF MemTyped

LEMMA StartTyped ==
  ASSUME Typed, NEW r, NEW i, Starts(r, i)
  PROVE  /\ MemTyped' /\ head' = "rz" /\ rz' = "running"
         /\ UNCHANGED <<pc, sigchild_received, shell, script, typed, crashed>>
<1> DEFINE p == "master_output"
           s == SubSeq(inbox["master"], 1, r)
           rest == Suffix(s, i)
           n == Cut(p, "zfin_scan", rest)
           q == <<"start">> \o SubSeq(rest, 1, n)
           ahead == SubSeq(s, 1, i - 1)
<1>1. /\ r \in 0..Len(inbox["master"]) /\ r \in Nat /\ i \in 1..r
      /\ s \in Seq(Tokens) /\ Len(s) = r
      /\ ahead \in Seq(Tokens) /\ Len(ahead) = i - 1
      /\ rest \in Seq(Tokens) /\ Len(rest) = r - i /\ n \in 0..r - i
      /\ SubSeq(rest, 1, n) \in Seq(Tokens) /\ Len(SubSeq(rest, 1, n)) = n
      /\ Suffix(rest, n) \in Seq(Tokens) /\ Len(Suffix(rest, n)) = r - i - n
      /\ <<"start">> \in Seq(Tokens) /\ q \in Seq(Tokens) /\ Len(q) <= Capacity
  BY StartFits DEF Typed
<1>2. /\ Took("master", r)
      /\ astray' = astray \o (fifo[p] \o ahead)
      /\ head' = "rz" /\ rz' = "running"
      /\ proc' = [Procs("rz") EXCEPT ![p] = NextProc(p, @, rest)]
      /\ savebuf' = Suffix(rest, n)
      /\ Moved(p, q, "rz", conn \union RzAtoms)
      /\ UNCHANGED <<pc, killed, sigchild_received, shell, script, typed, dropped, crashed>>
  BY DEF Starts
<1> HIDE DEF s, rest, n, q, ahead
<1>3. p \in Pipe /\ conn \union RzAtoms \in SUBSET Atom /\ "stdout" \in conn \union RzAtoms
  BY DEF Typed, TypeOK, Pipe, Atom
<1>4. /\ fifo' \in [Pipe -> Seq(Tokens)] /\ \A o \in Pipe : Len(fifo'[o]) <= Capacity
      /\ room' \in [{"stdout", "master"} -> 0..MaxRoom]
      /\ rzin' \in Seq(Tokens) /\ Len(rzin') <= MaxRoom
      /\ shown' \in Seq(Tokens) /\ late' \in BOOLEAN
      /\ conn' \subseteq Atom /\ "stdout" \in conn'
      /\ fd_read' \subseteq conn' /\ fd_write' \subseteq conn'
      /\ block_read' \in [Pipe -> BOOLEAN]
  BY <1>1, <1>2, <1>3, MovedTyped DEF Typed
<1>5. inbox' \in [{"stdin", "master", "rzread"} -> Seq(Tokens)]
  BY <1>1, <1>2, TookTyped DEF Typed
<1>6. proc' \in [Pipe -> {"none", "zrq_scan", "zfin_scan", "zfin_save", "zfin_drop"}]
  <2>1. Procs("rz") = [o \in Pipe |-> "zfin_scan"]
    BY DEF Procs
  <2>2. NextProc(p, "zfin_scan", rest) \in {"zfin_scan", "zfin_save", "zfin_drop"}
    BY DEF NextProc, Found
  <2> QED BY <1>2, <1>3, <2>1, <2>2
<1>7. astray' \in Seq(Tokens)
  <2>1. fifo[p] \in Seq(Tokens) /\ astray \in Seq(Tokens)
    BY <1>3 DEF Typed, TypeOK
  <2>2. fifo[p] \o ahead \in Seq(Tokens)
    BY <1>1, <2>1, Joined
  <2> QED BY <1>2, <2>1, <2>2, Joined
<1>8. savebuf' \in Seq(Tokens) /\ killed' \in {"no", "user", "zfin"} /\ dropped' \in Seq(Tokens)
  BY <1>1, <1>2 DEF Typed, TypeOK
<1> QED BY <1>2, <1>4, <1>5, <1>6, <1>7, <1>8 DEF MemTyped

\* Both kinds of read.
LEMMA AutoReadTyped ==
  ASSUME Typed, NEW p \in Pipe, pipe_auto_read(p), gfd_read' \subseteq Atom, gfd_write' \subseteq Atom
  PROVE  Typed'
<1>1. ASSUME NEW how \in {"full before read", "bailed"}, End(how) PROVE Typed'
  <2>1. UNCHANGED <<structs, select, children, outside, history>> /\ pc' = how
    BY <1>1 DEF End
  <2> QED BY <1>1, <2>1 DEF Typed, TypeOK, Asserts, structs, select, children, outside, history
<1>2. ASSUME NEW r \in Nat, Reads(p, r) PROVE Typed'
  <2>1. MemTyped' /\ UNCHANGED <<head, pc, sigchild_received, rz, shell, script, typed, crashed>>
    BY <1>2, ReadTyped
  <2> QED BY <2>1 DEF Typed, TypeOK, MemTyped, Running
<1>3. ASSUME NEW r \in Nat, NEW i \in Nat, Starts(r, i) PROVE Typed'
  <2>1. MemTyped' /\ head' = "rz" /\ rz' = "running"
        /\ UNCHANGED <<pc, sigchild_received, shell, script, typed, crashed>>
    BY <1>3, StartTyped
  <2> QED BY <2>1 DEF Typed, TypeOK, MemTyped, Running
<1> QED BY <1>1, <1>2, <1>3, AutoReadIs DEF Typed

LEMMA AutoWriteTyped ==
  ASSUME Typed, NEW p \in Pipe, pipe_auto_write(p), gfd_read' \subseteq Atom, gfd_write' \subseteq Atom
  PROVE  Typed'
<1>1. ASSUME End("full after write") PROVE Typed'
  <2>1. UNCHANGED <<structs, select, children, outside, history>> /\ pc' = "full after write"
    BY <1>1 DEF End
  <2> QED BY <2>1 DEF Typed, TypeOK, Asserts, structs, select, children, outside, history
<1>2. ASSUME Moved(p, fifo[p], head, conn),
             UNCHANGED <<head, proc, savebuf, pc, children, script, typed, inbox,
                         astray, dropped, crashed>>
      PROVE  Typed'
  <2>1. /\ fifo' \in [Pipe -> Seq(Tokens)] /\ \A o \in Pipe : Len(fifo'[o]) <= Capacity
        /\ room' \in [{"stdout", "master"} -> 0..MaxRoom]
        /\ rzin' \in Seq(Tokens) /\ Len(rzin') <= MaxRoom
        /\ shown' \in Seq(Tokens) /\ late' \in BOOLEAN
        /\ conn' \subseteq Atom /\ "stdout" \in conn'
        /\ fd_read' \subseteq conn' /\ fd_write' \subseteq conn'
        /\ block_read' \in [Pipe -> BOOLEAN]
    BY <1>2, MovedTyped DEF Typed, TypeOK
  <2> QED BY SMTT(30), <1>2, <2>1 DEF Typed, TypeOK, children, Running
<1> QED BY <1>1, <1>2, WriteMoves DEF Typed

LEMMA MiddleIs ==
  ASSUME NEW S, NEW s \in Seq(S), NEW n \in 0..Len(s), NEW m \in 0..Len(s) - n
  PROVE  /\ SubSeq(s, n + 1, n + m) \in Seq(S) /\ Len(SubSeq(s, n + 1, n + m)) = m
         /\ \A i \in 1..m : SubSeq(s, n + 1, n + m)[i] = s[n + i]
         /\ Elements(SubSeq(s, n + 1, n + m)) \subseteq Elements(s)
<1>1. Len(s) \in Nat /\ \A i \in 1..Len(s) : s[i] \in S
  BY ElementOfSeq, LenProperties
<1> DEFINE t == SubSeq(s, n + 1, n + m)
<1>2. \A i \in n + 1..n + m : s[i] \in S
  BY <1>1
<1>3. n + 1 \in Int /\ n + m \in Int
  BY <1>1
<1>4. /\ t \in Seq(S) /\ Len(t) = IF n + 1 <= n + m THEN n + m - (n + 1) + 1 ELSE 0
      /\ \A i \in 1..n + m - (n + 1) + 1 : t[i] = s[(n + 1) + i - 1]
  BY <1>2, <1>3, SubSeqProperties
<1> HIDE DEF t
<1>5. Len(t) = m
  BY <1>1, <1>4
<1>6. ASSUME NEW i \in 1..m PROVE t[i] = s[n + i]
  <2>1. (n + 1) + i - 1 = n + i /\ i \in 1..n + m - (n + 1) + 1
    BY <1>1
  <2> QED BY <1>4, <2>1
<1>7. ASSUME NEW x \in Elements(t) PROVE x \in Elements(s)
  <2>1. PICK i \in 1..Len(t) : t[i] = x
    BY <1>4, <1>7, ElementsAre
  <2>2. n + i \in 1..Len(s) /\ s[n + i] = x
    BY <1>1, <1>5, <1>6, <2>1
  <2> QED BY <2>2, ElementsAre
<1> QED BY <1>4, <1>5, <1>6, <1>7 DEF t

\* What pipe_write does with s: the first n are shown, m are kept, the others dropped.
Puts(s, n, m) ==
  /\ n \in 0..Len(s) /\ m \in 0..Len(s) - n /\ n <= room["stdout"]
  /\ fifo["master_output"] = <<>> \/ n = 0
  /\ fifo' = [fifo EXCEPT !["master_output"] = @ \o SubSeq(s, n + 1, n + m)]
  /\ Len(fifo["master_output"]) + m <= Capacity
  /\ Deliver("stdout", SubSeq(s, 1, n))
  /\ dropped' = dropped \o Suffix(s, n + m)
  /\ fd_write' \in {fd_write \ {"stdout"}, fd_write \union {"stdout"}}

LEMMA PipeWriteIs ==
  ASSUME TypeOK, NEW s \in Seq(Tokens), s # <<>>, pipe_write(s)
  PROVE  \E n, m \in Nat : Puts(s, n, m)
<1> DEFINE p == "master_output"
           q == fifo[p]
<1>1. PICK k \in IF q = <<>> THEN WriteResults(conn, "stdout", Len(s)) ELSE {0} :
        LET sent == Positive(k)
            kept == Least(Len(s) - sent, fifo_avail(p))
        IN  /\ fifo' = [fifo EXCEPT ![p] = @ \o SubSeq(s, sent + 1, sent + kept)]
            /\ Deliver("stdout", SubSeq(s, 1, sent))
            /\ dropped' = dropped \o Suffix(s, sent + kept)
            /\ fd_write' = IF sent = Len(s) THEN fd_write \ {"stdout"}
                           ELSE fd_write \union {"stdout"}
  BY DEF pipe_write
<1>2. /\ Len(s) \in Nat \ {0} /\ p \in Pipe /\ fifo_avail(p) \in Nat /\ Len(q) \in Nat
      /\ fifo_avail(p) = Capacity - Len(q) /\ Capacity \in Nat
  BY ElementsAre, EmptySeq, AvailIs DEF Pipe
<1>3. RoomIn("stdout") \in Nat /\ RoomIn("stdout") = room["stdout"]
  BY RoomIs DEF Sinks, RoomIn
<1> DEFINE n == Positive(k)
           m == Least(Len(s) - n, fifo_avail(p))
<1>4. n \in 0..Len(s) /\ n <= room["stdout"]
  <2>1. CASE q = <<>>
    <3>1. k \in WriteResults(conn, "stdout", Len(s))
      BY <1>1, <2>1
    <3> QED BY <1>2, <1>3, <3>1, WriteResultsAre
  <2>2. CASE q # <<>>
    BY <1>1, <1>2, <1>3, <2>2 DEF Positive
  <2> QED BY <2>1, <2>2
<1>5. m \in 0..Len(s) - n /\ Len(q) + m <= Capacity
  <2> HIDE DEF n, q, p
  <2> QED BY <1>2, <1>4 DEF Least
<1>6. n \in Nat /\ m \in Nat
  <2> HIDE DEF n, m
  <2> QED BY <1>2, <1>4, <1>5
<1>7. q = <<>> \/ n = 0
  BY <1>1 DEF Positive
<1>8. Puts(s, n, m)
  BY <1>1, <1>4, <1>5, <1>7 DEF Puts
<1> QED BY <1>6, <1>8

LEMMA PutsTyped ==
  ASSUME Typed, NEW s \in Seq(Tokens), NEW n \in Nat, NEW m \in Nat, Puts(s, n, m)
  PROVE  /\ fifo' \in [Pipe -> Seq(Tokens)] /\ \A p \in Pipe : Len(fifo'[p]) <= Capacity
         /\ room' \in [{"stdout", "master"} -> 0..MaxRoom]
         /\ rzin' \in Seq(Tokens) /\ Len(rzin') <= MaxRoom
         /\ shown' \in Seq(Tokens) /\ late' \in BOOLEAN /\ dropped' \in Seq(Tokens)
         /\ fd_write' \subseteq fd_write \union {"stdout"}
<1> DEFINE p == "master_output"
           q == fifo[p]
<1>1. Len(s) \in Nat /\ n \in 0..Len(s) /\ m \in 0..Len(s) - n /\ n + m \in 0..Len(s)
  BY ElementsAre DEF Puts
<1>2. SubSeq(s, 1, n) \in Seq(Tokens) /\ Len(SubSeq(s, 1, n)) = n /\ Suffix(s, n + m) \in Seq(Tokens)
  BY <1>1, Parts
<1>3. SubSeq(s, n + 1, n + m) \in Seq(Tokens) /\ Len(SubSeq(s, n + 1, n + m)) = m
  BY <1>1, MiddleIs
<1>4. q \in Seq(Tokens) /\ dropped \in Seq(Tokens)
  BY DEF Typed, TypeOK, Pipe
<1>5. q \o SubSeq(s, n + 1, n + m) \in Seq(Tokens) /\ Len(q \o SubSeq(s, n + 1, n + m)) = Len(q) + m
  <2> DEFINE t == SubSeq(s, n + 1, n + m)
  <2>1. t \in Seq(Tokens) /\ Len(t) = m
    BY <1>3
  <2> HIDE DEF q, t
  <2>2. q \o t \in Seq(Tokens) /\ Len(q \o t) = Len(q) + m
    BY <1>4, <2>1, Joined
  <2> QED BY <2>2 DEF t
<1>6. dropped' \in Seq(Tokens)
  BY <1>2, <1>4, Joined DEF Puts
<1>7. fifo' \in [Pipe -> Seq(Tokens)] /\ \A o \in Pipe : Len(fifo'[o]) <= Capacity
  <2> DEFINE t == q \o SubSeq(s, n + 1, n + m)
  <2>1. t \in Seq(Tokens) /\ Len(t) <= Capacity /\ fifo' = [fifo EXCEPT ![p] = t]
    BY <1>5 DEF Puts
  <2> HIDE DEF t
  <2> QED BY <2>1 DEF Typed, TypeOK
<1>8. /\ room' \in [{"stdout", "master"} -> 0..MaxRoom]
      /\ rzin' \in Seq(Tokens) /\ Len(rzin') <= MaxRoom
      /\ shown' \in Seq(Tokens) /\ late' \in BOOLEAN
  <2>1. n <= RoomIn("stdout") /\ "stdout" \in Sinks /\ Deliver("stdout", SubSeq(s, 1, n)) /\ TypeOK
    BY DEF RoomIn, Sinks, Puts, Typed
  <2> QED BY <1>2, <2>1, DeliverTyped
<1> QED BY <1>6, <1>7, <1>8 DEF Puts

-----------------------------------------------------------------------------
LEMMA InitTyped == Init => Typed
<1> SUFFICES ASSUME Init PROVE Typed
  OBVIOUS
<1>1. Script \in Seq(Tokens)
  <2>1. Script \in Seq(STRING)
    BY SessionAssumption
  <2>2. Len(Script) \in Nat /\ DOMAIN Script = 1..Len(Script) /\ \A i \in 1..Len(Script) : Script[i] \in Tokens
    BY <2>1, ElementsAre DEF Tokens
  <2> QED BY <2>1, <2>2, SeqDef
<1>2. fifo \in [Pipe -> Seq(Tokens)] /\ \A p \in Pipe : Len(fifo[p]) <= Capacity
  <2>1. <<>> \in Seq(Tokens) /\ Len(<<>>) = 0 /\ Capacity \in Nat
    BY SessionAssumption
  <2> QED BY <2>1 DEF Init
<1>3. proc \in [Pipe -> {"none", "zrq_scan", "zfin_scan", "zfin_save", "zfin_drop"}]
  BY DEF Init, Procs, Pipe
<1>4. inbox \in [{"stdin", "master", "rzread"} -> Seq(Tokens)]
      /\ \A s \in {script, savebuf, rzin, shown, astray, dropped} : s \in Seq(Tokens)
  <2>1. <<>> \in Seq(Tokens)
    OBVIOUS
  <2> QED BY <1>1, <2>1 DEF Init
<1>5. room \in [{"stdout", "master"} -> 0..MaxRoom] /\ Len(rzin) <= MaxRoom /\ typed \in 0..MaxTyped
  BY SessionAssumption DEF Init
<1>6. /\ conn \subseteq Atom /\ fd_read \subseteq conn /\ fd_write \subseteq conn /\ "stdout" \in conn
      /\ gfd_read \subseteq Atom /\ gfd_write \subseteq Atom
  BY DEF Init, Atom, Echo
<1> QED BY <1>2, <1>3, <1>4, <1>5, <1>6 DEF Init, Typed, TypeOK, Running

LEMMA AppendIs ==
  ASSUME NEW S, NEW s \in Seq(S), NEW x \in S
  PROVE  /\ Append(s, x) \in Seq(S) /\ Len(Append(s, x)) = Len(s) + 1
         /\ \A i \in 1..Len(s) : Append(s, x)[i] = s[i]
         /\ Append(s, x)[Len(s) + 1] = x
         /\ Elements(Append(s, x)) = Elements(s) \union {x}
<1> DEFINE t == Append(s, x)
<1>1. /\ t \in Seq(S) /\ Len(t) = Len(s) + 1 /\ Len(s) \in Nat
      /\ \A i \in 1..Len(s) : t[i] = s[i]
      /\ t[Len(s) + 1] = x
  BY AppendProperties, ElementsAre
<1> HIDE DEF t
<1>2. \A y : /\ y \in Elements(s) <=> \E i \in 1..Len(s) : s[i] = y
             /\ y \in Elements(t) <=> \E i \in 1..Len(t) : t[i] = y
  BY <1>1, ElementsAre
<1>3. ASSUME NEW y \in Elements(t) PROVE y \in Elements(s) \union {x}
  BY <1>1, <1>2, <1>3
<1>4. ASSUME NEW y \in Elements(s) \union {x} PROVE y \in Elements(t)
  <2>1. CASE y = x
    BY <1>1, <1>2, <2>1
  <2>2. CASE y \in Elements(s)
    <3>1. PICK i \in 1..Len(s) : s[i] = y
      BY <1>2, <2>2
    <3>2. i \in 1..Len(t) /\ t[i] = y
      BY <1>1, <3>1
    <3> QED BY <1>2, <3>2
  <2> QED BY <1>4, <2>1, <2>2
<1> QED BY <1>1, <1>3, <1>4 DEF t

LEMMA HeadTailAre ==
  ASSUME NEW S, NEW s \in Seq(S), s # <<>>
  PROVE  /\ Len(s) \in Nat \ {0} /\ Head(s) = s[1] /\ Head(s) \in S
         /\ Tail(s) \in Seq(S) /\ Len(Tail(s)) = Len(s) - 1
         /\ \A i \in 1..Len(s) - 1 : Tail(s)[i] = s[i + 1]
         /\ Elements(s) = {Head(s)} \union Elements(Tail(s))
<1> DEFINE t == Tail(s)
<1>1. /\ Len(s) \in Nat /\ Len(s) # 0 /\ Head(s) = s[1] /\ Head(s) \in S
      /\ t \in Seq(S) /\ Len(t) = Len(s) - 1
      /\ \A i \in 1..Len(t) : t[i] = s[i + 1]
  BY HeadTailProperties, ElementsAre, EmptySeq
<1> HIDE DEF t
<1>2. \A y : /\ y \in Elements(s) <=> \E i \in 1..Len(s) : s[i] = y
             /\ y \in Elements(t) <=> \E i \in 1..Len(t) : t[i] = y
  BY <1>1, ElementsAre
<1>3. ASSUME NEW y \in Elements(s) PROVE y \in {s[1]} \union Elements(t)
  <2>1. PICK i \in 1..Len(s) : s[i] = y
    BY <1>2, <1>3
  <2>2. CASE i = 1
    BY <2>1, <2>2
  <2>3. CASE i # 1
    <3>1. i - 1 \in 1..Len(t) /\ (i - 1) + 1 = i
      BY <1>1, <2>1, <2>3
    <3>2. t[i - 1] = y
      BY <1>1, <2>1, <3>1
    <3> QED BY <1>2, <3>1, <3>2
  <2> QED BY <2>2, <2>3
<1>4. ASSUME NEW y \in {s[1]} \union Elements(t) PROVE y \in Elements(s)
  <2>1. CASE y = s[1]
    BY <1>1, <1>2, <2>1
  <2>2. CASE y \in Elements(t)
    <3>1. PICK i \in 1..Len(t) : t[i] = y
      BY <1>2, <2>2
    <3>2. i + 1 \in 1..Len(s) /\ s[i + 1] = y
      BY <1>1, <3>1
    <3> QED BY <1>2, <3>2
  <2> QED BY <1>4, <2>1, <2>2
<1> QED BY <1>1, <1>3, <1>4 DEF t

LEMMA ReapWriteIs ==
  ASSUME TypeOK, fifo_write
  PROVE  \E n \in 0..Len(fifo["input_master"]) :
           /\ n <= RoomIn("master")
           /\ fifo' = [fifo EXCEPT !["input_master"] = Suffix(fifo["input_master"], n)]
           /\ Deliver("master", SubSeq(fifo["input_master"], 1, n))
<1> DEFINE q == fifo["input_master"]
<1>1. PICK k \in IF q = <<>> THEN {0} ELSE WriteResults(conn, "master", Len(q)) :
        /\ fifo' = [fifo EXCEPT !["input_master"] = Suffix(q, Positive(k))]
        /\ Deliver("master", SubSeq(q, 1, Positive(k)))
  BY DEF fifo_write
<1>2. q \in Seq(Tokens) /\ RoomIn("master") \in Nat
  BY RoomIs DEF TypeOK, Pipe, Sinks
<1>3. k \in Answers(conn, "master", q)
  BY <1>1 DEF Answers
<1> HIDE DEF q
<1>4. Positive(k) \in 0..Len(q) /\ Positive(k) <= RoomIn("master")
  BY <1>2, <1>3, WrittenIs
<1> QED BY <1>1, <1>4 DEF q

LEMMA ReapWriteTyped ==
  ASSUME Typed, fifo_write
  PROVE  Typed'
<1> DEFINE q == fifo["input_master"]
<1>1. PICK n \in 0..Len(q) :
        /\ n <= RoomIn("master")
        /\ fifo' = [fifo EXCEPT !["input_master"] = Suffix(q, n)]
        /\ Deliver("master", SubSeq(q, 1, n))
  BY ReapWriteIs DEF Typed
<1>2. q \in Seq(Tokens) /\ Len(q) \in Nat /\ Len(q) <= Capacity /\ Capacity \in Nat
  BY ElementsAre, SessionAssumption DEF Typed, TypeOK, Pipe
<1> HIDE DEF q
<1>3. /\ SubSeq(q, 1, n) \in Seq(Tokens) /\ Len(SubSeq(q, 1, n)) = n
      /\ Suffix(q, n) \in Seq(Tokens) /\ Len(Suffix(q, n)) = Len(q) - n
  BY <1>2, Parts
<1>4. /\ room' \in [{"stdout", "master"} -> 0..MaxRoom]
      /\ rzin' \in Seq(Tokens) /\ Len(rzin') <= MaxRoom
      /\ shown' \in Seq(Tokens) /\ late' \in BOOLEAN
  BY <1>1, <1>3, DeliverTyped DEF Typed, Sinks
<1>5. Len(Suffix(q, n)) <= Capacity
  BY <1>2, <1>3
<1>6. fifo' \in [Pipe -> Seq(Tokens)] /\ \A o \in Pipe : Len(fifo'[o]) <= Capacity
  BY <1>1, <1>3, <1>5 DEF Typed, TypeOK
<1>7. pc' = "remove" /\ UNCHANGED <<head, proc, block_read, savebuf, select, events, children, script,
                                    typed, inbox, astray, dropped, crashed>>
  BY DEF fifo_write
<1> QED BY <1>4, <1>6, <1>7 DEF Typed, TypeOK, Running, select, events, children

LEMMA RemoveTyped ==
  ASSUME Typed, task_remove
  PROVE  Typed'
<1>1. proc' \in [Pipe -> {"none", "zrq_scan", "zfin_scan", "zfin_save", "zfin_drop"}]
  BY DEF task_remove, Procs, Pipe
<1>2. inbox' \in [{"stdin", "master", "rzread"} -> Seq(Tokens)] /\ rzin' \in Seq(Tokens) /\ Len(rzin') <= MaxRoom
  <2>1. <<>> \in Seq(Tokens) /\ Len(<<>>) = 0 /\ MaxRoom \in Nat
    BY SessionAssumption
  <2> QED BY <2>1 DEF task_remove, Typed, TypeOK
<1>3. /\ conn' \subseteq Atom /\ fd_read' \subseteq conn' /\ fd_write' \subseteq conn' /\ "stdout" \in conn'
  BY DEF task_remove, Typed, TypeOK, StdinOpen, RzAtoms
<1>4. block_read' \in [Pipe -> BOOLEAN] /\ Running'
  BY DEF task_remove, AfterRemove, Typed, TypeOK, Running
<1> QED BY <1>1, <1>2, <1>3, <1>4 DEF task_remove, Typed, TypeOK, events, history

LEMMA StatusTyped ==
  ASSUME Typed, idle_end
  PROVE  Typed'
<1>1. <<"status">> \in Seq(Tokens) /\ <<"status">> # <<>>
  BY DEF Tokens
<1>2. PICK n \in Nat, m \in Nat : Puts(<<"status">>, n, m)
  BY <1>1, PipeWriteIs DEF idle_end, Typed
<1>3. /\ fifo' \in [Pipe -> Seq(Tokens)] /\ \A p \in Pipe : Len(fifo'[p]) <= Capacity
      /\ room' \in [{"stdout", "master"} -> 0..MaxRoom]
      /\ rzin' \in Seq(Tokens) /\ Len(rzin') <= MaxRoom
      /\ shown' \in Seq(Tokens) /\ late' \in BOOLEAN /\ dropped' \in Seq(Tokens)
      /\ fd_write' \subseteq fd_write \union {"stdout"}
  BY <1>1, <1>2, PutsTyped
<1>4. pc' = "restore" /\ UNCHANGED <<head, proc, block_read, savebuf, conn, fd_read, events, children,
                                     script, typed, inbox, astray, crashed>>
  BY DEF idle_end
<1> QED BY <1>3, <1>4 DEF Typed, TypeOK, Running, events, children

LEMMA RestoreTyped ==
  ASSUME Typed, rzt_destructor_proc
  PROVE  Typed'
<1>1. /\ fifo' \in [Pipe -> Seq(Tokens)] /\ \A p \in Pipe : Len(fifo'[p]) <= Capacity
      /\ room' \in [{"stdout", "master"} -> 0..MaxRoom]
      /\ rzin' \in Seq(Tokens) /\ Len(rzin') <= MaxRoom
      /\ shown' \in Seq(Tokens) /\ late' \in BOOLEAN /\ dropped' \in Seq(Tokens)
      /\ fd_write' \subseteq fd_write \union {"stdout"}
  <2>1. CASE savebuf = <<>>
    <3>1. UNCHANGED <<fifo, room, rzin, shown, late, dropped, fd_write>>
      BY <2>1 DEF rzt_destructor_proc
    <3> QED BY <3>1 DEF Typed, TypeOK
  <2>2. CASE savebuf # <<>>
    <3>1. savebuf \in Seq(Tokens)
      BY DEF Typed, TypeOK
    <3>2. PICK n \in Nat, m \in Nat : Puts(savebuf, n, m)
      BY <2>2, <3>1, PipeWriteIs DEF rzt_destructor_proc, Typed
    <3> QED BY <3>1, <3>2, PutsTyped
  <2> QED BY <2>1, <2>2
<1>2. /\ savebuf' = <<>> /\ pc' \in {"exited", "wait"} /\ sigchild_received' \in BOOLEAN
      /\ UNCHANGED <<head, proc, block_read, conn, fd_read, events, rz, shell, killed, script, typed,
                     inbox, astray, crashed>>
  BY DEF rzt_destructor_proc
<1>3. savebuf' \in Seq(Tokens)
  BY <1>2
<1> QED BY <1>1, <1>2, <1>3 DEF Typed, TypeOK, Running, events

LEMMA LoopTyped ==
  ASSUME Typed, Loop
  PROVE  Typed'
<1>1. CASE master_idle
  BY <1>1 DEF master_idle, RemoveAll, Typed, TypeOK, Running, structs, select, events, children,
              outside, history
<1>2. CASE io_wait
  BY <1>2 DEF io_wait, Typed, TypeOK, Running, structs, select, children, outside, history
<1>3. ASSUME NEW a \in Atom, DispatchRead(a) PROVE Typed'
  <2>1. (IF a = "master" THEN "master_output" ELSE "input_master") \in Pipe
    BY DEF Pipe
  <2>2. gfd_read' \subseteq Atom /\ gfd_write' \subseteq Atom
    BY <1>3 DEF DispatchRead, Typed, TypeOK
  <2> QED BY <1>3, <2>1, <2>2, AutoReadTyped DEF DispatchRead
<1>4. ASSUME NEW a \in Atom, DispatchWrite(a) PROVE Typed'
  <2>1. (IF a = "master" THEN "input_master" ELSE "master_output") \in Pipe
    BY DEF Pipe
  <2>2. gfd_read' \subseteq Atom /\ gfd_write' \subseteq Atom
    BY <1>4 DEF DispatchWrite, Typed, TypeOK
  <2> QED BY <1>4, <2>1, <2>2, AutoWriteTyped DEF DispatchWrite
<1>5. ASSUME NEW a \in Atom, DispatchStale(a) PROVE Typed'
  BY <1>5 DEF DispatchStale, Typed, TypeOK, Running, structs, select, children, outside, history
<1>6. CASE typing_io_proc
  <2>1. PICK r \in 1..Len(inbox["stdin"]) :
          /\ Took("stdin", r)
          /\ killed' = IF "cancel" \in Elements(SubSeq(inbox["stdin"], 1, r))
                       THEN KilledFor("user") ELSE killed
    BY <1>6 DEF typing_io_proc
  <2>2. Len(inbox["stdin"]) \in Nat
    BY ElementsAre DEF Typed, TypeOK
  <2>3. inbox' \in [{"stdin", "master", "rzread"} -> Seq(Tokens)]
    BY <2>1, <2>2, TookTyped DEF Typed
  <2>4. killed' \in {"no", "user", "zfin"}
    BY <2>1 DEF KilledFor, Typed, TypeOK
  <2> QED BY <1>6, <2>3, <2>4 DEF typing_io_proc, Typed, TypeOK, Running, structs, select, history
<1>7. CASE master_check_sigchild
  BY <1>7 DEF master_check_sigchild, RemoveAll, Typed, TypeOK, Running, structs, select, events,
              outside, history
<1>8. CASE task_default_sigchild
  <2>1. "input_master" \in Pipe /\ gfd_read' \subseteq Atom /\ gfd_write' \subseteq Atom
    BY <1>8 DEF task_default_sigchild, events, Typed, TypeOK, Pipe
  <2> QED BY <1>8, <2>1, AutoReadTyped DEF task_default_sigchild
<1> QED BY <1>1, <1>2, <1>3, <1>4, <1>5, <1>6, <1>7, <1>8, ReapWriteTyped, RemoveTyped, StatusTyped,
           RestoreTyped DEF Loop, Dispatch

LEMMA EnvironmentTyped ==
  ASSUME Typed, Environment
  PROVE  Typed'
<1>1. CASE ShellPrint
  <2>1. script # <<>> /\ script \in Seq(Tokens) /\ inbox["master"] \in Seq(Tokens)
    BY <1>1 DEF ShellPrint, Typed, TypeOK
  <2>2. Head(script) \in Tokens /\ Tail(script) \in Seq(Tokens)
    BY <2>1, HeadTailAre
  <2>3. Append(inbox["master"], Head(script)) \in Seq(Tokens)
    BY <2>1, <2>2, AppendIs
  <2>4. inbox' \in [{"stdin", "master", "rzread"} -> Seq(Tokens)] /\ script' \in Seq(Tokens)
    BY <1>1, <2>2, <2>3 DEF ShellPrint, Typed, TypeOK
  <2> QED BY SMTT(30), <1>1, <2>4 DEF ShellPrint, Typed, TypeOK, Running, structs, select, events, children,
                            history
<1>2. CASE ShellExit
  BY <1>2 DEF ShellExit, Typed, TypeOK, Running, structs, select, events, outside, history
<1>3. CASE RzRead
  <2>1. rzin # <<>> /\ rzin \in Seq(Tokens) /\ inbox["rzread"] \in Seq(Tokens)
    BY <1>3 DEF RzRead, Typed, TypeOK
  <2>2. Tail(rzin) \in Seq(Tokens) /\ Len(Tail(rzin)) = Len(rzin) - 1 /\ Len(rzin) \in Nat
    BY <2>1, HeadTailAre
  <2>3. Append(inbox["rzread"], IF Head(rzin) = "fin" THEN "rzfin" ELSE "ack") \in Seq(Tokens)
    <3>1. (IF Head(rzin) = "fin" THEN "rzfin" ELSE "ack") \in Tokens
      BY DEF Tokens
    <3> QED BY <2>1, <3>1, AppendIs
  <2>4. inbox' \in [{"stdin", "master", "rzread"} -> Seq(Tokens)]
    BY <1>3, <2>3 DEF RzRead, Typed, TypeOK
  <2>5. rzin' \in Seq(Tokens) /\ Len(rzin') <= MaxRoom
    BY <1>3, <2>2, SessionAssumption DEF RzRead, Typed, TypeOK
  <2> QED BY <1>3, <2>4, <2>5 DEF RzRead, Typed, TypeOK, Running, structs, select, events, history
<1>4. CASE RzSpeaks
  <2>1. inbox["rzread"] \in Seq(Tokens) /\ "late" \in Tokens
    BY DEF Typed, TypeOK, Tokens
  <2>2. Append(inbox["rzread"], "late") \in Seq(Tokens)
    BY <2>1, AppendIs
  <2>3. inbox' \in [{"stdin", "master", "rzread"} -> Seq(Tokens)]
    BY <1>4, <2>2 DEF RzSpeaks, Typed, TypeOK
  <2> QED BY <1>4, <2>3 DEF RzSpeaks, Typed, TypeOK, Running, structs, select, events, children,
                            history
<1>5. CASE RzExit
  BY <1>5 DEF RzExit, Typed, TypeOK, Running, structs, select, events, outside
<1>6. CASE UserTypes
  <2>1. PICK key \in {"key", "cancel"} : inbox' = [inbox EXCEPT !["stdin"] = Append(@, key)]
    BY <1>6 DEF UserTypes
  <2>2. inbox["stdin"] \in Seq(Tokens) /\ key \in Tokens
    BY DEF Typed, TypeOK, Tokens
  <2>3. Append(inbox["stdin"], key) \in Seq(Tokens)
    BY <2>2, AppendIs
  <2>4. inbox' \in [{"stdin", "master", "rzread"} -> Seq(Tokens)]
    BY <2>1, <2>3 DEF Typed, TypeOK
  <2>5. typed' \in 0..MaxTyped
    BY <1>6, SessionAssumption DEF UserTypes, Typed, TypeOK
  <2> QED BY <1>6, <2>4, <2>5 DEF UserTypes, Typed, TypeOK, Running, structs, select, events, children,
                                  history
<1>7. ASSUME NEW a \in {"stdout", "master"}, Consume(a) PROVE Typed'
  <2>1. room' \in [{"stdout", "master"} -> 0..MaxRoom]
    BY SMTT(30), <1>7, SessionAssumption DEF Consume, Typed, TypeOK
  <2> QED BY <1>7, <2>1 DEF Consume, Typed, TypeOK, Running, structs, select, events, children,
                            history
<1> QED BY <1>1, <1>2, <1>3, <1>4, <1>5, <1>6, <1>7 DEF Environment

LEMMA NextTyped == Typed /\ [Next]_vars => Typed'
<1> SUFFICES ASSUME Typed, [Next]_vars PROVE Typed'
  OBVIOUS
<1>1. CASE UNCHANGED vars
  BY <1>1 DEF vars, structs, select, events, children, outside, history, Typed, TypeOK, Running
<1> QED BY <1>1, LoopTyped, EnvironmentTyped DEF Next

(***************************************************************************)
(* Every variable keeps its type, and the terminal's output is never       *)
(* closed: pipe_atom_destroy is for the end of rz's stdin or of a source.  *)
(***************************************************************************)
THEOREM SessionTypeOK == Spec => []TypeOK
<1>1. Spec => []Typed
  BY InitTyped, NextTyped, PTL DEF Spec
<1>2. Typed => TypeOK
  BY DEF Typed
<1> QED BY <1>1, <1>2, PTL

-----------------------------------------------------------------------------
(***************************************************************************)
(* Late packets.                                                           *)
(***************************************************************************)
\* What a handler writes and keeps is what it had.
LEMMA MovedElements ==
  ASSUME TypeOK, NEW p \in Pipe, NEW q \in Seq(Tokens), NEW h, NEW c, Moved(p, q, h, c)
  PROVE  /\ fifo' \in [Pipe -> Seq(Tokens)]
         /\ Elements(fifo'[p]) \subseteq Elements(q)
         /\ \A o \in Pipe : o # p => fifo'[o] = fifo[o]
         /\ late' => late \/ (Sink(h, p) = "master" /\ "late" \in Elements(q))
         /\ Sink(h, p) # "rzwrite" => rzin' = rzin
         /\ Sink(h, p) = "rzwrite" => rzin' \o fifo'[p] = rzin \o q
                                      /\ Elements(rzin') \subseteq Elements(rzin) \union Elements(q)
         /\ Sink(h, p) # "stdout" => shown' = shown
         /\ Sink(h, p) = "stdout" => Elements(shown') \subseteq Elements(shown) \union Elements(q)
<1> DEFINE a == Sink(h, p)
<1>1. PICK n \in 0..Len(q) : /\ fifo' = [fifo EXCEPT ![p] = Suffix(q, n)]
                             /\ Deliver(a, SubSeq(q, 1, n))
                             /\ n <= RoomIn(a)
  BY DEF Moved
<1> DEFINE s == SubSeq(q, 1, n)
           t == Suffix(q, n)
<1>2. /\ s \in Seq(Tokens) /\ Len(s) = n /\ t \in Seq(Tokens) /\ Len(t) = Len(q) - n
      /\ \A i \in 1..n : s[i] = q[i]
      /\ \A i \in 1..Len(q) - n : t[i] = q[n + i]
  BY Parts
<1>3. Elements(q) = Elements(s) \union Elements(t)
  BY PartElements
<1>4. s \o t = q
  BY PartsJoined
<1>5. fifo' \in [Pipe -> Seq(Tokens)] /\ fifo'[p] = t /\ \A o \in Pipe : o # p => fifo'[o] = fifo[o]
  BY <1>1, <1>2 DEF TypeOK
<1> HIDE DEF s, t, a
<1>6. /\ rzin' = IF a = "rzwrite" THEN rzin \o s ELSE rzin
      /\ shown' = IF a = "stdout" THEN shown \o s ELSE shown
      /\ late' = (late \/ (a = "master" /\ "late" \in Elements(s)))
  BY <1>1 DEF Deliver, s
<1>7. rzin \in Seq(Tokens) /\ shown \in Seq(Tokens)
  BY DEF TypeOK
<1>8. Elements(rzin \o s) = Elements(rzin) \union Elements(s)
      /\ Elements(shown \o s) = Elements(shown) \union Elements(s)
  BY <1>2, <1>7, JoinedElements
<1>9. (rzin \o s) \o t = rzin \o (s \o t)
  <2>1. s \in Seq(Tokens) /\ t \in Seq(Tokens) /\ rzin \in Seq(Tokens)
    BY <1>2, <1>7
  <2> QED BY <2>1, Regrouped
<1>10. /\ late' => late \/ (a = "master" /\ "late" \in Elements(q))
       /\ a # "rzwrite" => rzin' = rzin
       /\ a # "stdout" => shown' = shown
       /\ a = "stdout" => Elements(shown') \subseteq Elements(shown) \union Elements(q)
       /\ a = "rzwrite" => Elements(rzin') \subseteq Elements(rzin) \union Elements(q)
  BY <1>3, <1>6, <1>8
<1>11. a = "rzwrite" => rzin' \o fifo'[p] = rzin \o q
  BY <1>4, <1>5, <1>6, <1>9
<1> QED BY <1>3, <1>5, <1>10, <1>11 DEF a

LEMMA SpeechTaken ==
  ASSUME NEW said \in Seq(Tokens), NEW z, NEW pr \in {"zfin_scan", "zfin_drop"},
         Speech(said, z, pr), NEW r \in 0..Len(said)
  PROVE  LET s == SubSeq(said, 1, r)
             n == Cut("input_master", pr, s)
         IN  /\ "late" \notin Elements(SubSeq(s, 1, n))
             /\ Speech(Suffix(said, r), z, NextProc("input_master", pr, s))
             /\ NextProc("input_master", pr, s) \in {"zfin_scan", "zfin_drop"}
<1> DEFINE s == SubSeq(said, 1, r)
           t == Suffix(said, r)
           n == Cut("input_master", pr, s)
           pr2 == NextProc("input_master", pr, s)
<1>1. /\ s \in Seq(Tokens) /\ Len(s) = r /\ t \in Seq(Tokens) /\ Len(t) = Len(said) - r
      /\ \A i \in 1..r : s[i] = said[i]
      /\ \A i \in 1..Len(said) - r : t[i] = said[r + i]
  BY Parts
<1>2. Elements(said) = Elements(s) \union Elements(t)
  BY PartElements
<1>3. Zfin("input_master") = "rzfin" /\ Found("input_master") = "zfin_drop"
  BY DEF Zfin, Found
<1>4. n = (IF Finds("input_master", pr, s) THEN Place(s, "rzfin")
           ELSE IF pr = "zfin_drop" THEN 0 ELSE Len(s))
  BY <1>3 DEF Cut
<1>5. Finds("input_master", pr, s) <=> pr = "zfin_scan" /\ "rzfin" \in Elements(s)
  BY <1>3 DEF Finds
<1>6. pr2 = IF Finds("input_master", pr, s) THEN "zfin_drop" ELSE pr
  BY <1>3 DEF NextProc
<1> HIDE DEF s, t, n, pr2
<1>7. /\ Len(said) \in Nat /\ DOMAIN said = 1..Len(said) /\ r \in Nat
      /\ DOMAIN t = 1..Len(t)
      /\ \A x : x \in Elements(s) <=> \E i \in 1..r : s[i] = x
  BY <1>1, ElementsAre
<1>8. n \in 0..r
  <2>1. Place(s, "rzfin") \in 0..r
    BY <1>1, PlaceIs
  <2> QED BY <1>1, <1>4, <1>7, <2>1
<1>9. "late" \notin Elements(SubSeq(s, 1, n))
  <2>1. /\ SubSeq(s, 1, n) \in Seq(Tokens) /\ Len(SubSeq(s, 1, n)) = n
        /\ \A i \in 1..n : SubSeq(s, 1, n)[i] = s[i]
    BY <1>1, <1>8, Parts
  <2> SUFFICES ASSUME "late" \in Elements(SubSeq(s, 1, n)) PROVE FALSE
    OBVIOUS
  <2> DEFINE u == SubSeq(s, 1, n)
  <2>2. u \in Seq(Tokens) /\ Len(u) = n /\ \A i \in 1..n : u[i] = s[i]
    BY <2>1
  <2>3. "late" \in Elements(u)
    OBVIOUS
  <2> HIDE DEF u
  <2>4. PICK j \in 1..n : u[j] = "late"
    BY <2>2, <2>3, ElementsAre
  <2>5. j \in 1..r /\ said[j] = "late" /\ s[j] = "late" /\ j <= n
    BY <1>1, <1>7, <1>8, <2>2, <2>4
  <2>6. CASE Finds("input_master", pr, s)
    <3>1. n = Place(s, "rzfin") /\ s[n] = "rzfin" /\ n > 0
      BY <1>1, <1>4, <1>5, <2>6, PlaceIs
    <3>2. n \in 1..Len(said) /\ said[n] = "rzfin" /\ j \in 1..Len(said)
      BY <1>1, <1>7, <1>8, <2>5, <3>1
    <3>3. n < j
      BY <1>7, <2>5, <3>2 DEF Speech
    <3> QED BY <1>7, <1>8, <2>5, <3>3
  <2>7. CASE ~Finds("input_master", pr, s) /\ pr = "zfin_drop"
    BY <1>4, <1>7, <2>4, <2>7
  <2>8. CASE ~Finds("input_master", pr, s) /\ pr = "zfin_scan"
    <3>1. "rzfin" \notin Elements(s)
      BY <1>5, <2>8
    <3>2. "late" \in Elements(said)
      BY <1>2, <1>7, <2>5
    <3>3. "rzfin" \in Elements(said)
      BY <2>8, <3>2 DEF Speech
    <3>4. PICK i \in 1..Len(said) : said[i] = "rzfin"
      BY <3>3, ElementsAre
    <3>5. i < j
      BY <1>7, <2>5, <3>4 DEF Speech
    <3>6. i \in 1..r /\ s[i] = "rzfin"
      BY <1>1, <1>7, <2>5, <3>4, <3>5
    <3> QED BY <1>7, <3>1, <3>6
  <2> QED BY <2>6, <2>7, <2>8
<1>10. Speech(t, z, pr2)
  <2>1. ASSUME z = "running" PROVE Elements(t) \intersect {"rzfin", "late"} = {}
    BY <1>2, <2>1 DEF Speech
  <2>2. ASSUME NEW i \in DOMAIN t, NEW j \in DOMAIN t, t[i] = "rzfin", t[j] = "late" PROVE i < j
    <3>1. i \in 1..Len(said) - r /\ j \in 1..Len(said) - r
      BY <1>1, <1>7
    <3>2. r + i \in DOMAIN said /\ r + j \in DOMAIN said
      BY <1>7, <3>1
    <3>4. said[r + i] = "rzfin" /\ said[r + j] = "late"
      BY <1>1, <2>2, <3>1
    <3>5. r + i < r + j
      BY <3>2, <3>4 DEF Speech
    <3> QED BY <1>7, <3>1, <3>5
  <2>3. ASSUME pr2 = "zfin_scan", z = "finished" \/ "late" \in Elements(t)
        PROVE  "rzfin" \in Elements(t)
    <3>1. pr = "zfin_scan" /\ "rzfin" \notin Elements(s)
      BY <1>5, <1>6, <2>3
    <3>2. "rzfin" \in Elements(said)
      BY <1>2, <2>3, <3>1 DEF Speech
    <3> QED BY <1>2, <3>1, <3>2
  <2> QED BY <2>1, <2>2, <2>3 DEF Speech
<1>11. pr2 \in {"zfin_scan", "zfin_drop"}
  BY <1>6
<1> QED BY <1>9, <1>10, <1>11 DEF s, t, n, pr2

LEMMA ReadLate ==
  ASSUME Typed, LateLast, NEW p \in Pipe, NEW r, Reads(p, r)
  PROVE  LateLast'
<1> DEFINE a == Source(head, p)
           s == SubSeq(inbox[a], 1, r)
           n == Cut(p, proc[p], s)
           q == fifo[p] \o SubSeq(s, 1, n)
<1>1. /\ a \in {"stdin", "master", "rzread"} /\ r \in 0..Len(inbox[a]) /\ r \in Nat
      /\ s \in Seq(Tokens) /\ Len(s) = r /\ n \in 0..r
      /\ SubSeq(s, 1, n) \in Seq(Tokens) /\ q \in Seq(Tokens)
  BY ReadFits DEF Typed
<1>2. /\ inbox' = [inbox EXCEPT ![a] = Suffix(inbox[a], r)]
      /\ proc' = [proc EXCEPT ![p] = NextProc(p, proc[p], s)]
      /\ UNCHANGED <<head, rz>>
  BY DEF Reads, Took
<1>3. PICK c \in {conn, conn \ {a}} : Moved(p, q, head, c)
  BY DEF Reads
<1>4. /\ inbox \in [{"stdin", "master", "rzread"} -> Seq(Tokens)] /\ inbox[a] \in Seq(Tokens)
      /\ proc \in [Pipe -> {"none", "zrq_scan", "zfin_scan", "zfin_save", "zfin_drop"}]
      /\ fifo[p] \in Seq(Tokens) /\ TypeOK /\ head \in {"echo", "rz"}
      /\ p \in {"input_master", "master_output"} /\ "input_master" # "master_output"
  BY <1>1 DEF Typed, TypeOK, Pipe
<1>5. /\ Elements(inbox[a]) = Elements(s) \union Elements(Suffix(inbox[a], r))
      /\ Elements(s) = Elements(SubSeq(s, 1, n)) \union Elements(Suffix(s, n))
      /\ Elements(q) = Elements(fifo[p]) \union Elements(SubSeq(s, 1, n))
  <2>1. Elements(inbox[a]) = Elements(s) \union Elements(Suffix(inbox[a], r))
    BY <1>1, <1>4, PartElements
  <2>2. Elements(s) = Elements(SubSeq(s, 1, n)) \union Elements(Suffix(s, n))
    <3> HIDE DEF s, n
    <3> QED BY <1>1, PartElements
  <2>3. Elements(q) = Elements(fifo[p]) \union Elements(SubSeq(s, 1, n))
    <3> DEFINE w == SubSeq(s, 1, n)
    <3>1. w \in Seq(Tokens) /\ fifo[p] \in Seq(Tokens)
      BY <1>1, <1>4
    <3> HIDE DEF w
    <3>2. Elements(fifo[p] \o w) = Elements(fifo[p]) \union Elements(w)
      BY <3>1, JoinedElements
    <3> QED BY <3>2 DEF w
  <2> QED BY <2>1, <2>2, <2>3
<1>6. a = IF p = "master_output" THEN "master" ELSE IF head = "rz" THEN "rzread" ELSE "stdin"
  BY DEF Source
<1>7. Sink(head, p) = IF p = "input_master" THEN "master" ELSE IF head = "rz" THEN "rzwrite" ELSE "stdout"
  BY DEF Sink
<1>8. NextProc(p, proc[p], s) \in {proc[p], Found(p)} /\ (proc[p] # "zfin_scan" => NextProc(p, proc[p], s) = proc[p])
  BY DEF NextProc, Finds
<1>9. a = "rzread" => /\ p = "input_master" /\ proc[p] \in {"zfin_scan", "zfin_drop"}
                      /\ "late" \notin Elements(SubSeq(s, 1, n))
                      /\ Speech(Suffix(inbox[a], r), rz, NextProc(p, proc[p], s))
  <2>1. Found("input_master") = "zfin_drop"
    BY DEF Found
  <2>2. SUFFICES ASSUME a = "rzread"
                 PROVE  /\ p = "input_master" /\ proc[p] \in {"zfin_scan", "zfin_drop"}
                        /\ "late" \notin Elements(SubSeq(s, 1, n))
                        /\ Speech(Suffix(inbox[a], r), rz, NextProc(p, proc[p], s))
    OBVIOUS
  <2>3. p = "input_master" /\ head = "rz"
    BY <1>4, <1>6, <2>2
  <2>4. proc[p] \in {"zfin_scan", "zfin_drop"} /\ Speech(inbox[a], rz, proc[p])
    BY <2>1, <2>2, <2>3 DEF LateLast
  <2> QED BY <1>1, <1>4, <2>3, <2>4, SpeechTaken
<1>10. /\ fifo' \in [Pipe -> Seq(Tokens)]
       /\ Elements(fifo'[p]) \subseteq Elements(q)
       /\ \A o \in Pipe : o # p => fifo'[o] = fifo[o]
       /\ late' => late \/ (Sink(head, p) = "master" /\ "late" \in Elements(q))
       /\ Sink(head, p) # "rzwrite" => rzin' = rzin
  <2> HIDE DEF q
  <2> QED BY <1>1, <1>3, <1>4, MovedElements
<1> HIDE DEF a, s, n, q
<1>11. "input_master" \in Pipe /\ Speech(inbox["rzread"], rz, proc["input_master"])
       /\ ~late /\ "late" \notin Elements(fifo["input_master"])
       /\ Elements(inbox["stdin"]) \subseteq {"key", "cancel"}
  BY DEF LateLast, NoLatePacket, Pipe
<1>12. p = "input_master" => "late" \notin Elements(q)
  <2>1. a = "stdin" => "late" \notin Elements(SubSeq(s, 1, n))
    BY <1>5, <1>11
  <2> QED BY <1>4, <1>5, <1>6, <1>9, <1>11, <2>1
<1>13. ~late' /\ "late" \notin Elements(fifo'["input_master"])
  BY <1>4, <1>7, <1>10, <1>11, <1>12
<1>14. Speech(inbox'["rzread"], rz', proc'["input_master"])
  <2>1. CASE a = "rzread"
    BY <1>2, <1>4, <1>9, <2>1
  <2>2. CASE a # "rzread"
    <3>1. inbox'["rzread"] = inbox["rzread"]
      BY <1>2, <1>4, <2>2
    <3>2. proc'["input_master"] = proc["input_master"]
      <4>1. p = "input_master" => head = "echo"
        BY <1>4, <1>6, <2>2
      <4>2. head = "echo" => proc["input_master"] = "none"
        BY <1>11 DEF LateLast, Procs
      <4> QED BY <1>2, <1>4, <1>8, <1>11, <4>1, <4>2
    <3> QED BY <1>2, <1>11, <3>1, <3>2
  <2> QED BY <2>1, <2>2
<1>15. Elements(inbox'["stdin"]) \subseteq {"key", "cancel"}
  BY <1>2, <1>4, <1>5, <1>11
<1>16. head' = "rz" => \A o \in Pipe : proc'[o] \in {"zfin_scan", Found(o)}
  BY <1>2, <1>4, <1>8 DEF LateLast
<1>17. ASSUME head' = "echo"
       PROVE  proc' = Procs("echo") /\ rz' = "none" /\ inbox'["rzread"] = <<>> /\ rzin' = <<>>
  <2>1. head = "echo" /\ proc = Procs("echo") /\ rz = "none" /\ inbox["rzread"] = <<>> /\ rzin = <<>>
    BY <1>2, <1>17 DEF LateLast
  <2>2. proc[p] # "zfin_scan"
    BY <2>1, <1>4 DEF Procs
  <2>3. proc' = proc
    BY <1>2, <1>4, <1>8, <2>2
  <2>4. rzin' = rzin /\ inbox'["rzread"] = inbox["rzread"]
    BY <1>2, <1>4, <1>6, <1>7, <1>10, <2>1
  <2> QED BY <1>2, <2>1, <2>3, <2>4
<1> QED BY <1>13, <1>14, <1>15, <1>16, <1>17 DEF LateLast, NoLatePacket

LEMMA StartLate ==
  ASSUME Typed, LateLast, NEW r, NEW i, Starts(r, i)
  PROVE  LateLast'
<1> DEFINE p == "master_output"
           s == SubSeq(inbox["master"], 1, r)
           rest == Suffix(s, i)
           n == Cut(p, "zfin_scan", rest)
           q == <<"start">> \o SubSeq(rest, 1, n)
<1>1. q \in Seq(Tokens)
  BY StartFits DEF Typed
<1>2. /\ inbox' = [inbox EXCEPT !["master"] = Suffix(inbox["master"], r)]
      /\ proc[p] = "zrq_scan" /\ head' = "rz" /\ rz' = "running"
      /\ proc' = [Procs("rz") EXCEPT ![p] = NextProc(p, Procs("rz")[p], rest)]
      /\ Moved(p, q, "rz", conn \union RzAtoms)
  BY DEF Starts, Took
<1>3. TypeOK /\ p \in Pipe /\ head \in {"echo", "rz"} /\ "input_master" \in Pipe
      /\ inbox \in [{"stdin", "master", "rzread"} -> Seq(Tokens)]
  BY DEF Typed, TypeOK, Pipe
<1>4. Procs("rz") = [o \in Pipe |-> "zfin_scan"] /\ NextProc(p, "zfin_scan", rest) \in {"zfin_scan", Found(p)}
  BY DEF Procs, NextProc
<1> HIDE DEF rest, q
<1>5. fifo'["input_master"] = fifo["input_master"] /\ (late' => late)
  <2>1. Sink("rz", p) = "rzwrite"
    BY DEF Sink
  <2>2. /\ \A o \in Pipe : o # p => fifo'[o] = fifo[o]
        /\ late' => late \/ (Sink("rz", p) = "master" /\ "late" \in Elements(q))
    BY <1>1, <1>2, <1>3, MovedElements
  <2> QED BY <1>3, <2>1, <2>2
<1>6. head = "echo"
  <2>1. Found(p) # "zrq_scan"
    BY DEF Found
  <2> QED BY <1>2, <1>3, <2>1 DEF LateLast
<1>7. inbox'["rzread"] = <<>> /\ inbox'["stdin"] = inbox["stdin"]
  BY <1>2, <1>3, <1>6 DEF LateLast
<1>8. proc'["input_master"] = "zfin_scan" /\ \A o \in Pipe : proc'[o] \in {"zfin_scan", Found(o)}
  BY <1>2, <1>3, <1>4
<1>9. Speech(<<>>, "running", "zfin_scan")
  <2>1. DOMAIN <<>> = {} /\ Elements(<<>>) = {}
    BY DEF Elements
  <2> QED BY <2>1 DEF Speech
<1>10. Speech(inbox'["rzread"], rz', proc'["input_master"])
  BY <1>2, <1>7, <1>8, <1>9
<1> QED BY <1>2, <1>5, <1>7, <1>8, <1>10 DEF LateLast, NoLatePacket

LEMMA WriteLate ==
  ASSUME Typed, LateLast, NEW p \in Pipe, Moved(p, fifo[p], head, conn),
         UNCHANGED <<head, proc, rz, inbox>>
  PROVE  LateLast'
<1>1. fifo[p] \in Seq(Tokens) /\ TypeOK /\ head \in {"echo", "rz"} /\ "input_master" \in Pipe
      /\ p \in {"input_master", "master_output"}
  BY DEF Typed, TypeOK, Pipe
<1>2. /\ Elements(fifo'[p]) \subseteq Elements(fifo[p])
      /\ \A o \in Pipe : o # p => fifo'[o] = fifo[o]
      /\ late' => late \/ (Sink(head, p) = "master" /\ "late" \in Elements(fifo[p]))
      /\ Sink(head, p) # "rzwrite" => rzin' = rzin
  BY <1>1, MovedElements
<1>3. ~late' /\ "late" \notin Elements(fifo'["input_master"])
  BY <1>1, <1>2 DEF LateLast, NoLatePacket, Sink
<1>4. head = "echo" => rzin' = rzin
  BY <1>2 DEF Sink
<1> QED BY <1>3, <1>4 DEF LateLast, NoLatePacket

LEMMA AutoReadLate ==
  ASSUME Typed, LateLast, NEW p \in Pipe, pipe_auto_read(p)
  PROVE  LateLast'
<1>1. ASSUME NEW how \in {"full before read", "bailed"}, End(how) PROVE LateLast'
  BY <1>1 DEF End, structs, select, children, outside, history, LateLast, NoLatePacket
<1> QED BY <1>1, AutoReadIs, ReadLate, StartLate DEF Typed

LEMMA AutoWriteLate ==
  ASSUME Typed, LateLast, NEW p \in Pipe, pipe_auto_write(p)
  PROVE  LateLast'
<1>1. ASSUME End("full after write") PROVE LateLast'
  BY <1>1 DEF End, structs, select, children, outside, history, LateLast, NoLatePacket
<1>2. ASSUME Moved(p, fifo[p], head, conn),
             UNCHANGED <<head, proc, savebuf, pc, children, script, typed, inbox,
                         astray, dropped, crashed>>
      PROVE  LateLast'
  BY <1>2, WriteLate DEF children
<1> QED BY <1>1, <1>2, WriteMoves DEF Typed

LEMMA PutsLate ==
  ASSUME Typed, NEW s, NEW n, NEW m, Puts(s, n, m)
  PROVE  rzin' = rzin /\ late' = late /\ fifo'["input_master"] = fifo["input_master"]
<1>1. rzin' = rzin /\ (late' <=> late)
  BY DEF Puts, Deliver
<1>2. late \in BOOLEAN /\ late' \in BOOLEAN
  BY DEF Puts, Deliver, Typed, TypeOK
<1>3. fifo'["input_master"] = fifo["input_master"]
  BY DEF Puts, Typed, TypeOK, Pipe
<1> QED BY <1>1, <1>2, <1>3

-----------------------------------------------------------------------------
LEMMA InitLate == Init => LateLast
<1> SUFFICES ASSUME Init PROVE LateLast
  OBVIOUS
<1>1. DOMAIN <<>> = {} /\ Elements(<<>>) = {}
  BY DEF Elements
<1>2. inbox["rzread"] = <<>> /\ inbox["stdin"] = <<>> /\ fifo["input_master"] = <<>>
  BY DEF Init, Pipe
<1>3. Speech(<<>>, rz, proc["input_master"])
  BY <1>1 DEF Speech, Init, Procs
<1> QED BY <1>1, <1>2, <1>3 DEF Init, LateLast, NoLatePacket

LEMMA LoopLate ==
  ASSUME Typed, LateLast, Loop
  PROVE  LateLast'
<1>1. CASE master_idle
  BY <1>1 DEF master_idle, structs, children, outside, history, LateLast, NoLatePacket
<1>2. CASE io_wait
  BY <1>2 DEF io_wait, structs, children, outside, history, LateLast, NoLatePacket
<1>3. ASSUME NEW a \in Atom, DispatchRead(a) PROVE LateLast'
  <2>1. (IF a = "master" THEN "master_output" ELSE "input_master") \in Pipe
    BY DEF Pipe
  <2> QED BY <1>3, <2>1, AutoReadLate DEF DispatchRead
<1>4. ASSUME NEW a \in Atom, DispatchWrite(a) PROVE LateLast'
  <2>1. (IF a = "master" THEN "input_master" ELSE "master_output") \in Pipe
    BY DEF Pipe
  <2> QED BY <1>4, <2>1, AutoWriteLate DEF DispatchWrite
<1>5. ASSUME NEW a \in Atom, DispatchStale(a) PROVE LateLast'
  BY <1>5 DEF DispatchStale, structs, children, outside, history, LateLast, NoLatePacket
<1>6. CASE typing_io_proc
  <2>1. PICK r \in 1..Len(inbox["stdin"]) : Took("stdin", r)
    BY <1>6 DEF typing_io_proc
  <2>2. inbox["stdin"] \in Seq(Tokens) /\ r \in 0..Len(inbox["stdin"])
        /\ inbox \in [{"stdin", "master", "rzread"} -> Seq(Tokens)]
    BY ElementsAre DEF Typed, TypeOK
  <2>3. Elements(inbox["stdin"]) = Elements(SubSeq(inbox["stdin"], 1, r))
                                     \union Elements(Suffix(inbox["stdin"], r))
    BY <2>2, PartElements
  <2>4. inbox'["stdin"] = Suffix(inbox["stdin"], r) /\ inbox'["rzread"] = inbox["rzread"]
    BY <2>1, <2>2 DEF Took
  <2>5. UNCHANGED <<head, proc, rz, rzin, fifo, late>>
    BY <1>6 DEF typing_io_proc, structs, history
  <2> QED BY <2>3, <2>4, <2>5 DEF LateLast, NoLatePacket
<1>7. CASE master_check_sigchild
  BY <1>7 DEF master_check_sigchild, structs, outside, history, LateLast, NoLatePacket
<1>8. CASE task_default_sigchild
  <2>1. "input_master" \in Pipe
    BY DEF Pipe
  <2> QED BY <1>8, <2>1, AutoReadLate DEF task_default_sigchild
<1>9. CASE fifo_write
  <2> DEFINE q == fifo["input_master"]
  <2>1. PICK n \in 0..Len(q) :
          /\ fifo' = [fifo EXCEPT !["input_master"] = Suffix(q, n)]
          /\ Deliver("master", SubSeq(q, 1, n))
    BY <1>9, ReapWriteIs DEF Typed
  <2>2. q \in Seq(Tokens) /\ fifo \in [Pipe -> Seq(Tokens)] /\ "input_master" \in Pipe
    BY DEF Typed, TypeOK, Pipe
  <2>3. Elements(q) = Elements(SubSeq(q, 1, n)) \union Elements(Suffix(q, n))
    BY <2>2, PartElements
  <2>4. fifo'["input_master"] = Suffix(q, n)
    BY <2>1, <2>2
  <2>5. rzin' = rzin /\ (late' => late \/ "late" \in Elements(SubSeq(q, 1, n)))
    BY <2>1 DEF Deliver
  <2>6. UNCHANGED <<head, proc, rz, inbox>>
    BY <1>9 DEF fifo_write, children
  <2> QED BY <2>3, <2>4, <2>5, <2>6 DEF LateLast, NoLatePacket
<1>10. CASE task_remove
  <2>1. /\ head' = "echo" /\ proc' = Procs("echo") /\ rz' = "none" /\ rzin' = <<>>
        /\ inbox'["rzread"] = <<>> /\ inbox'["stdin"] = inbox["stdin"] /\ UNCHANGED <<fifo, late>>
    BY <1>10 DEF task_remove, history, Typed, TypeOK
  <2>2. DOMAIN <<>> = {} /\ Elements(<<>>) = {} /\ Procs("echo")["input_master"] = "none"
    BY DEF Elements, Procs
  <2>3. Speech(<<>>, "none", "none")
    BY <2>2 DEF Speech
  <2> QED BY <2>1, <2>2, <2>3 DEF LateLast, NoLatePacket
<1>11. CASE idle_end
  <2>1. <<"status">> \in Seq(Tokens) /\ <<"status">> # <<>>
    BY DEF Tokens
  <2>2. PICK n \in Nat, m \in Nat : Puts(<<"status">>, n, m)
    BY <1>11, <2>1, PipeWriteIs DEF idle_end, Typed
  <2>3. rzin' = rzin /\ late' = late /\ fifo'["input_master"] = fifo["input_master"]
    BY <2>2, PutsLate
  <2> QED BY <1>11, <2>3 DEF idle_end, children, LateLast, NoLatePacket
<1>12. CASE rzt_destructor_proc
  <2>1. rzin' = rzin /\ late' = late /\ fifo'["input_master"] = fifo["input_master"]
    <3>1. CASE savebuf = <<>>
      BY <1>12, <3>1 DEF rzt_destructor_proc
    <3>2. CASE savebuf # <<>>
      <4>1. savebuf \in Seq(Tokens)
        BY DEF Typed, TypeOK
      <4>2. PICK n \in Nat, m \in Nat : Puts(savebuf, n, m)
        BY <1>12, <3>2, <4>1, PipeWriteIs DEF rzt_destructor_proc, Typed
      <4> QED BY <4>2, PutsLate
    <3> QED BY <3>1, <3>2
  <2> QED BY <1>12, <2>1 DEF rzt_destructor_proc, LateLast, NoLatePacket
<1> QED BY <1>1, <1>2, <1>3, <1>4, <1>5, <1>6, <1>7, <1>8, <1>9, <1>10, <1>11, <1>12
        DEF Loop, Dispatch

\* rz says t.
LEMMA SpeechSaid ==
  ASSUME NEW said \in Seq(Tokens), NEW z, NEW pr, Speech(said, z, pr), NEW t \in Tokens, NEW y,
         \/ z = "running" /\ t = "ack" /\ y = "running"
         \/ z = "running" /\ t = "rzfin" /\ y = "finished"
         \/ z = "finished" /\ t = "late" /\ y = "finished"
  PROVE  Speech(Append(said, t), y, pr)
<1> DEFINE u == Append(said, t)
<1>1. /\ u \in Seq(Tokens) /\ Len(u) = Len(said) + 1
      /\ \A i \in 1..Len(said) : u[i] = said[i]
      /\ u[Len(said) + 1] = t
      /\ Elements(u) = Elements(said) \union {t}
  BY AppendIs
<1> HIDE DEF u
<1>2. /\ Len(said) \in Nat /\ DOMAIN said = 1..Len(said) /\ DOMAIN u = 1..Len(said) + 1
      /\ \A x : x \in Elements(said) <=> \E i \in 1..Len(said) : said[i] = x
  BY <1>1, ElementsAre
<1>3. y = "running" => Elements(u) \intersect {"rzfin", "late"} = {}
  BY <1>1 DEF Speech
<1>4. pr = "zfin_scan" => (y = "finished" \/ "late" \in Elements(u) => "rzfin" \in Elements(u))
  BY <1>1 DEF Speech
<1>5. ASSUME NEW i \in DOMAIN u, NEW j \in DOMAIN u, u[i] = "rzfin", u[j] = "late" PROVE i < j
  <2>1. i \in 1..Len(said) + 1 /\ j \in 1..Len(said) + 1
    BY <1>2
  <2>2. CASE t = "late"
    <3>1. i \in 1..Len(said) /\ said[i] = "rzfin"
      BY <1>1, <1>2, <1>5, <2>1, <2>2
    <3>2. CASE j = Len(said) + 1
      BY <1>2, <3>1, <3>2
    <3>3. CASE j # Len(said) + 1
      <4>1. j \in 1..Len(said) /\ said[j] = "late"
        BY <1>1, <1>2, <1>5, <2>1, <3>3
      <4> QED BY <1>2, <3>1, <4>1 DEF Speech
    <3> QED BY <3>2, <3>3
  <2>3. CASE t # "late"
    <3>1. j \in 1..Len(said) /\ said[j] = "late"
      BY <1>1, <1>2, <1>5, <2>1, <2>3
    <3>2. "late" \notin Elements(said)
      BY <2>3 DEF Speech
    <3> QED BY <1>2, <3>1, <3>2
  <2> QED BY <2>2, <2>3
<1> QED BY <1>3, <1>4, <1>5 DEF Speech, u

LEMMA EnvironmentLate ==
  ASSUME Typed, LateLast, Environment
  PROVE  LateLast'
<1>1. CASE ShellPrint
  <2>1. inbox'["rzread"] = inbox["rzread"] /\ inbox'["stdin"] = inbox["stdin"]
    BY <1>1 DEF ShellPrint, Typed, TypeOK
  <2> QED BY <1>1, <2>1 DEF ShellPrint, structs, children, history, LateLast, NoLatePacket
<1>2. CASE ShellExit
  BY <1>2 DEF ShellExit, structs, outside, history, LateLast, NoLatePacket
<1>3. CASE RzRead
  <2> DEFINE t == IF Head(rzin) = "fin" THEN "rzfin" ELSE "ack"
             said == inbox["rzread"]
  <2>1. /\ rz = "running" /\ said \in Seq(Tokens) /\ t \in Tokens
        /\ inbox'["rzread"] = Append(said, t) /\ inbox'["stdin"] = inbox["stdin"]
        /\ rz' = IF t = "rzfin" THEN "finished" ELSE rz
        /\ UNCHANGED <<head, proc, fifo, late>>
    BY <1>3 DEF RzRead, structs, history, Typed, TypeOK, Tokens
  <2>2. Speech(said, rz, proc["input_master"]) /\ head = "rz"
    BY <2>1 DEF LateLast, Typed, TypeOK
  <2>3. (t = "ack" /\ rz' = "running") \/ (t = "rzfin" /\ rz' = "finished")
    BY <2>1
  <2> HIDE DEF t, said
  <2>4. Speech(Append(said, t), rz', proc["input_master"])
    BY <2>1, <2>2, <2>3, SpeechSaid
  <2> QED BY <2>1, <2>2, <2>4 DEF LateLast, NoLatePacket
<1>4. CASE RzSpeaks
  <2> DEFINE said == inbox["rzread"]
  <2>1. /\ rz = "finished" /\ said \in Seq(Tokens) /\ "late" \in Tokens
        /\ inbox'["rzread"] = Append(said, "late") /\ inbox'["stdin"] = inbox["stdin"]
        /\ UNCHANGED <<head, proc, fifo, late, rz, rzin>>
    BY <1>4 DEF RzSpeaks, structs, history, children, Typed, TypeOK, Tokens
  <2>2. Speech(said, rz, proc["input_master"]) /\ head = "rz"
    BY <2>1 DEF LateLast, Typed, TypeOK
  <2> HIDE DEF said
  <2>3. Speech(Append(said, "late"), rz, proc["input_master"])
    BY <2>1, <2>2, SpeechSaid
  <2> QED BY <2>1, <2>2, <2>3 DEF LateLast, NoLatePacket
<1>5. CASE RzExit
  <2>1. rz' = "zombie" /\ rz # "none" /\ UNCHANGED <<head, proc, fifo, late, inbox, rzin>>
    BY <1>5 DEF RzExit, structs, outside
  <2>2. Speech(inbox["rzread"], rz', proc["input_master"])
    BY <2>1 DEF LateLast, Speech
  <2> QED BY <2>1, <2>2 DEF LateLast, NoLatePacket
<1>6. CASE UserTypes
  <2>1. PICK key \in {"key", "cancel"} : inbox' = [inbox EXCEPT !["stdin"] = Append(@, key)]
    BY <1>6 DEF UserTypes
  <2>2. inbox["stdin"] \in Seq(Tokens) /\ key \in Tokens
    BY DEF Typed, TypeOK, Tokens
  <2>3. Elements(Append(inbox["stdin"], key)) = Elements(inbox["stdin"]) \union {key}
    BY <2>2, AppendIs
  <2>4. inbox'["stdin"] = Append(inbox["stdin"], key) /\ inbox'["rzread"] = inbox["rzread"]
    BY <2>1 DEF Typed, TypeOK
  <2> QED BY <1>6, <2>3, <2>4 DEF UserTypes, structs, children, history, LateLast, NoLatePacket
<1>7. ASSUME NEW a \in {"stdout", "master"}, Consume(a) PROVE LateLast'
  BY <1>7 DEF Consume, structs, children, history, LateLast, NoLatePacket
<1> QED BY <1>1, <1>2, <1>3, <1>4, <1>5, <1>6, <1>7 DEF Environment

LEMMA NextLate == Typed /\ LateLast /\ [Next]_vars => LateLast'
<1> SUFFICES ASSUME Typed, LateLast, [Next]_vars PROVE LateLast'
  OBVIOUS
<1>1. CASE UNCHANGED vars
  BY <1>1 DEF vars, structs, children, outside, history, LateLast, NoLatePacket
<1> QED BY <1>1, LoopLate, EnvironmentLate DEF Next

(***************************************************************************)
(* The shell gets nothing that rz says after its ZFIN, whether the pipe    *)
(* is spliced to rz, is being drained by task_default_sigchild or is the   *)
(* user's again (zfin.c:22).                                               *)
(***************************************************************************)
THEOREM SessionNoLatePacket == Spec => []NoLatePacket
<1>1. Spec => [](Typed /\ LateLast)
  BY InitTyped, NextTyped, InitLate, NextLate, PTL DEF Spec
<1>2. LateLast => NoLatePacket
  BY DEF LateLast
<1> QED BY <1>1, <1>2, PTL

-----------------------------------------------------------------------------
(***************************************************************************)
(* The text around the transfer.                                           *)
(***************************************************************************)
LEMMA ScriptIs == Script \in Seq(Tokens) /\ Len(Script) \in Nat /\ DOMAIN Script = 1..Len(Script)
<1>1. Script \in Seq(STRING)
  BY SessionAssumption
<1>2. Len(Script) \in Nat /\ DOMAIN Script = 1..Len(Script) /\ \A i \in 1..Len(Script) : Script[i] \in Tokens
  BY <1>1, ElementsAre DEF Tokens
<1> QED BY <1>1, <1>2, SeqDef

LEMMA RestIs ==
  ASSUME TypeOK, Follows(Rest)
  PROVE  /\ Len(inbox["master"]) \in Nat /\ Len(script) \in Nat /\ At \in Nat
         /\ inbox["master"] \in Seq(Tokens) /\ script \in Seq(Tokens)
         /\ Len(Rest) = Len(inbox["master"]) + Len(script) /\ At + Len(Rest) = Len(Script)
         /\ \A k \in 1..Len(inbox["master"]) : inbox["master"][k] = Script[At + k]
         /\ \A k \in 1..Len(script) : script[k] = Script[At + Len(inbox["master"]) + k]
<1> DEFINE s == inbox["master"]
           t == script
<1>1. s \in Seq(Tokens) /\ t \in Seq(Tokens) /\ Len(s) \in Nat /\ Len(t) \in Nat /\ Len(Script) \in Nat
  BY ElementsAre, ScriptIs DEF TypeOK
<1>2. Rest = s \o t
  BY DEF Rest
<1> HIDE DEF s, t
<1>3. /\ Len(Rest) = Len(s) + Len(t)
      /\ \A i \in 1..Len(s) : Rest[i] = s[i]
      /\ \A i \in 1..Len(t) : Rest[Len(s) + i] = t[i]
  BY <1>1, <1>2, Joined
<1>4. /\ Len(Rest) <= Len(Script) /\ At = Len(Script) - Len(Rest)
      /\ \A i \in 1..Len(Rest) : Rest[i] = Script[At + i]
  BY DEF Follows, At
<1>5. At \in Nat /\ At + Len(Rest) = Len(Script)
  BY <1>1, <1>3, <1>4
<1>6. ASSUME NEW k \in 1..Len(s) PROVE s[k] = Script[At + k]
  BY <1>1, <1>3, <1>4
<1>7. ASSUME NEW k \in 1..Len(t) PROVE t[k] = Script[At + Len(s) + k]
  <2>1. Len(s) + k \in 1..Len(Rest) /\ At + (Len(s) + k) = At + Len(s) + k
    BY <1>1, <1>3, <1>5
  <2> QED BY <1>3, <1>4, <2>1
<1> QED BY <1>1, <1>3, <1>5, <1>6, <1>7 DEF s, t

LEMMA RestSame ==
  ASSUME inbox'["master"] = inbox["master"], script' = script
  PROVE  Rest' = Rest /\ At' = At
BY DEF Rest, At

LEMMA RestPrinted ==
  ASSUME Typed, ShellPrint
  PROVE  Rest' = Rest /\ At' = At
<1> DEFINE s == inbox["master"]
           t == script
<1>1. /\ s \in Seq(Tokens) /\ t \in Seq(Tokens) /\ t # <<>>
      /\ inbox'["master"] = Append(s, Head(t)) /\ script' = Tail(t)
  BY DEF ShellPrint, Typed, TypeOK
<1> HIDE DEF s, t
<1>2. /\ Len(t) \in Nat \ {0} /\ Head(t) = t[1] /\ Head(t) \in Tokens
      /\ Tail(t) \in Seq(Tokens) /\ Len(Tail(t)) = Len(t) - 1
      /\ \A i \in 1..Len(t) - 1 : Tail(t)[i] = t[i + 1]
  BY <1>1, HeadTailAre
<1> DEFINE u == Append(s, Head(t))
<1>3. /\ u \in Seq(Tokens) /\ Len(u) = Len(s) + 1 /\ Len(s) \in Nat
      /\ \A i \in 1..Len(s) : u[i] = s[i]
      /\ u[Len(s) + 1] = t[1]
  BY <1>1, <1>2, AppendIs, ElementsAre
<1> DEFINE v == Tail(t)
<1> HIDE DEF u, v
<1> DEFINE x == u \o v
           y == s \o t
<1>4. /\ v \in Seq(Tokens) /\ Len(v) = Len(t) - 1 /\ \A i \in 1..Len(t) - 1 : v[i] = t[i + 1]
  BY <1>2 DEF v
<1>5. /\ x \in Seq(Tokens) /\ Len(x) = Len(u) + Len(v)
      /\ \A i \in 1..Len(u) : x[i] = u[i]
      /\ \A i \in 1..Len(v) : x[Len(u) + i] = v[i]
  <2>1. u \in Seq(Tokens) /\ v \in Seq(Tokens)
    BY <1>3, <1>4
  <2> QED BY <2>1, Joined
<1>6. /\ y \in Seq(Tokens) /\ Len(y) = Len(s) + Len(t)
      /\ \A i \in 1..Len(s) : y[i] = s[i]
      /\ \A i \in 1..Len(t) : y[Len(s) + i] = t[i]
  BY <1>1, Joined
<1> HIDE DEF x, y
<1>7. Len(x) = Len(y) /\ Len(y) \in Nat
  BY <1>2, <1>3, <1>4, <1>5, <1>6
<1>8. ASSUME NEW i \in 1..Len(y) PROVE x[i] = y[i]
  <2>1. CASE i <= Len(s)
    BY <1>3, <1>5, <1>6, <2>1
  <2>2. CASE i = Len(s) + 1
    BY <1>2, <1>3, <1>5, <1>6, <2>2
  <2>3. CASE i > Len(s) + 1
    <3>1. /\ i - Len(u) \in 1..Len(v) /\ Len(u) + (i - Len(u)) = i
          /\ (i - Len(u)) + 1 \in 1..Len(t) /\ Len(s) + ((i - Len(u)) + 1) = i
      BY <1>2, <1>3, <1>4, <1>6, <2>3
    <3>2. x[i] = v[i - Len(u)] /\ y[i] = t[(i - Len(u)) + 1]
      BY <1>5, <1>6, <3>1
    <3>3. v[i - Len(u)] = t[(i - Len(u)) + 1]
      BY <1>4, <3>1
    <3> QED BY <3>2, <3>3
  <2> QED BY <1>3, <2>1, <2>2, <2>3
<1>9. x = y
  BY <1>5, <1>6, <1>7, <1>8, SeqEqual
<1>10. Rest' = x /\ Rest = y
  BY <1>1 DEF Rest, x, y, u, v, s, t
<1> QED BY <1>9, <1>10 DEF At

LEMMA RestTaken ==
  ASSUME Typed, Follows(Rest), NEW r \in 0..Len(inbox["master"]), Took("master", r), script' = script
  PROVE  /\ Follows(Rest') /\ At' = At + r /\ At \in Nat /\ At + r <= Len(Script)
         /\ \A k \in 1..r : SubSeq(inbox["master"], 1, r)[k] = Script[At + k]
<1> DEFINE s == inbox["master"]
           t == script
           u == Suffix(s, r)
<1>1. /\ Len(s) \in Nat /\ Len(t) \in Nat /\ At \in Nat /\ s \in Seq(Tokens) /\ t \in Seq(Tokens)
      /\ Len(Rest) = Len(s) + Len(t) /\ At + Len(Rest) = Len(Script)
      /\ \A k \in 1..Len(s) : s[k] = Script[At + k]
      /\ \A k \in 1..Len(t) : t[k] = Script[At + Len(s) + k]
  BY RestIs DEF Typed
<1>2. inbox'["master"] = u
  BY DEF Took, Typed, TypeOK
<1>3. /\ u \in Seq(Tokens) /\ Len(u) = Len(s) - r
      /\ \A i \in 1..r : SubSeq(s, 1, r)[i] = s[i]
      /\ \A i \in 1..Len(s) - r : u[i] = s[r + i]
  BY ZenonT(60), <1>1, Parts
<1>4. Rest' = u \o t
  BY <1>2 DEF Rest
<1> HIDE DEF s, t, u
<1> DEFINE x == u \o t
<1>5. /\ x \in Seq(Tokens) /\ Len(x) = Len(u) + Len(t)
      /\ \A i \in 1..Len(u) : x[i] = u[i]
      /\ \A i \in 1..Len(t) : x[Len(u) + i] = t[i]
  <2>1. u \in Seq(Tokens) /\ t \in Seq(Tokens)
    BY <1>1, <1>3
  <2> QED BY <2>1, Joined
<1> HIDE DEF x
<1>6. r \in Nat /\ Len(s) \in Nat /\ r <= Len(s) /\ Len(Script) \in Nat
  <2>1. r \in 0..Len(s) /\ Len(s) \in Nat
    BY <1>1 DEF s
  <2>2. Len(Script) \in Nat
    BY ScriptIs
  <2> QED BY <2>1, <2>2
<1> HIDE DEF Rest, At
<1>7. Len(x) = Len(Rest) - r /\ Len(Script) - Len(x) = At + r /\ Len(x) <= Len(Script) /\ At + r <= Len(Script)
  <2>1. Len(x) = Len(s) - r + Len(t) /\ Len(Rest) = Len(s) + Len(t) /\ At + Len(Rest) = Len(Script)
    BY <1>1, <1>3, <1>5
  <2>2. Len(s) \in Nat /\ Len(t) \in Nat /\ At \in Nat /\ r \in Nat /\ Len(Script) \in Nat /\ r <= Len(s)
    BY <1>1, <1>6
  <2> QED BY <2>1, <2>2
<1>8. ASSUME NEW i \in 1..Len(x) PROVE x[i] = Script[At + r + i]
  <2>1. CASE i <= Len(u)
    <3>1. x[i] = u[i] /\ u[i] = s[r + i]
      BY <1>3, <1>5, <1>6, <2>1
    <3>2. r + i \in 1..Len(s) /\ At + (r + i) = At + r + i
      BY <1>1, <1>3, <1>6, <2>1
    <3> QED BY <1>1, <3>1, <3>2
  <2>2. CASE i > Len(u)
    <3>1. i - Len(u) \in 1..Len(t) /\ Len(u) + (i - Len(u)) = i
          /\ At + Len(s) + (i - Len(u)) = At + r + i
      BY <1>1, <1>3, <1>5, <1>6, <2>2
    <3>2. x[i] = t[i - Len(u)]
      BY <1>5, <3>1
    <3> QED BY <1>1, <3>1, <3>2
  <2> QED BY <1>1, <1>3, <1>6, <2>1, <2>2
<1>9. Follows(x)
  BY <1>7, <1>8 DEF Follows
<1>10. At' = Len(Script) - Len(x)
  BY <1>4 DEF At, x
<1>11. Follows(Rest')
  BY <1>4, <1>9 DEF x
<1>12. ASSUME NEW k \in 1..r PROVE SubSeq(s, 1, r)[k] = Script[At + k]
  BY <1>1, <1>3, <1>6
<1> QED BY <1>1, <1>7, <1>10, <1>11, <1>12 DEF s

LEMMA OneStart ==
  ASSUME NEW i \in 1..Len(Script), NEW j \in 1..Len(Script), Script[i] = Script[j]
  PROVE  i = j
BY ScriptIs, ScriptAssumption

LEMMA TextAfter ==
  ASSUME NEW n \in 0..Len(Script), Past(n)
  PROVE  /\ ~Within(n)
         /\ \A m \in n + 1..Len(Script) : Script[m] \in Text
<1>1. Len(Script) \in Nat /\ DOMAIN Script = 1..Len(Script)
  BY ScriptIs
<1>2. PICK f \in 1..n : Script[f] = "fin" /\ Within(f - 1)
  BY DEF Past
<1>3. PICK h \in 1..f - 1 : Script[h] = "start"
  BY <1>2 DEF Within
<1>4. f \in 1..Len(Script) /\ h \in 1..Len(Script) /\ h < f /\ f <= n /\ n \in Nat /\ f \in Nat
  BY <1>1, <1>2, <1>3
<1>5. ASSUME Within(n) PROVE FALSE
  <2>1. PICK j \in 1..n : Script[j] = "start" /\ \A k \in j..n : Script[k] # "fin"
    BY <1>5 DEF Within
  <2>2. j = h
    <3>1. j \in 1..Len(Script) /\ Script[j] = Script[h]
      BY <1>1, <1>3, <1>4, <2>1
    <3> QED BY <1>4, <3>1, OneStart
  <2>3. f \in j..n
    BY <1>4, <2>2
  <2> QED BY <1>2, <2>1, <2>3
<1>6. ASSUME NEW m \in n + 1..Len(Script) PROVE Script[m] \in Text
  <2>1. m \in DOMAIN Script /\ m \in Nat /\ n < m
    BY <1>1, <1>4
  <2>2. ASSUME InTransfer(m) PROVE FALSE
    <3>1. PICK j \in 1..m : Script[j] = "start" /\ \A k \in j..m - 1 : Script[k] # "fin"
      BY <2>2 DEF InTransfer
    <3>2. j = h
      <4>1. j \in 1..Len(Script) /\ Script[j] = Script[h]
        BY <1>1, <1>3, <1>4, <2>1, <3>1
      <4> QED BY <1>4, <4>1, OneStart
    <3>3. f \in j..m - 1
      BY <1>4, <2>1, <3>2
    <3> QED BY <1>2, <3>1, <3>3
  <2> QED BY <2>1, <2>2, ScriptAssumption
<1> QED BY <1>5, <1>6

LEMMA DataWithin ==
  ASSUME NEW b \in Nat, NEW m \in 1..Len(Script), b < m, Within(b),
         \A k \in b + 1..m - 1 : Script[k] # "fin"
  PROVE  /\ Script[m] \notin Text
         /\ Script[m] # "fin" => Within(m)
         /\ Script[m] = "fin" => Past(m)
<1>1. Len(Script) \in Nat /\ DOMAIN Script = 1..Len(Script)
  BY ScriptIs
<1>2. PICK j \in 1..b : Script[j] = "start" /\ \A k \in j..b : Script[k] # "fin"
  BY DEF Within
<1>3. m \in Nat /\ j \in Nat /\ j <= b /\ j \in 1..m /\ j \in 1..m - 1
  BY <1>1, <1>2
<1>4. \A k \in j..m - 1 : Script[k] # "fin"
  <2> TAKE k \in j..m - 1
  <2>1. CASE k <= b
    BY <1>2, <1>3, <2>1
  <2>2. CASE k > b
    <3>1. k \in b + 1..m - 1
      BY <1>3, <2>2
    <3> QED BY <3>1
  <2> QED BY <1>3, <2>1, <2>2
<1>5. InTransfer(m)
  BY <1>2, <1>3, <1>4 DEF InTransfer
<1>6. Script[m] \notin Text
  BY <1>1, <1>5, ScriptAssumption
<1>7. ASSUME Script[m] # "fin" PROVE Within(m)
  <2>1. \A k \in j..m : Script[k] # "fin"
    BY <1>3, <1>4, <1>7
  <2> QED BY <1>2, <1>3, <2>1 DEF Within
<1>8. Within(m - 1)
  BY <1>2, <1>3, <1>4 DEF Within
<1>9. Script[m] = "fin" => Past(m)
  BY <1>3, <1>8 DEF Past
<1> QED BY <1>6, <1>7, <1>9

LEMMA TextOutside ==
  ASSUME NEW b \in Nat, NEW m \in 1..Len(Script), b < m, ~Within(b),
         \A k \in b + 1..m : Script[k] # "start"
  PROVE  Script[m] \in Text /\ ~Within(m)
<1>1. Len(Script) \in Nat /\ DOMAIN Script = 1..Len(Script)
  BY ScriptIs
<1>2. ASSUME NEW j \in 1..m, Script[j] = "start" PROVE j \in 1..b
  <2>1. j \in Nat /\ m \in Nat
    BY <1>1
  <2>2. ~(j \in b + 1..m)
    BY <1>2
  <2> QED BY <2>1, <2>2
<1>3. ASSUME InTransfer(m) PROVE FALSE
  <2>1. PICK j \in 1..m : Script[j] = "start" /\ \A k \in j..m - 1 : Script[k] # "fin"
    BY <1>3 DEF InTransfer
  <2>2. j \in 1..b /\ \A k \in j..b : k \in j..m - 1
    BY <1>1, <1>2, <2>1
  <2>3. Within(b)
    BY <2>1, <2>2 DEF Within
  <2> QED BY <2>3
<1>4. ASSUME Within(m) PROVE FALSE
  <2>1. PICK j \in 1..m : Script[j] = "start" /\ \A k \in j..m : Script[k] # "fin"
    BY <1>4 DEF Within
  <2>2. j \in 1..b /\ \A k \in j..b : k \in j..m
    BY <1>1, <1>2, <2>1
  <2>3. Within(b)
    BY <2>1, <2>2 DEF Within
  <2> QED BY <2>3
<1> QED BY <1>1, <1>3, <1>4, ScriptAssumption

\* What zfin_scan makes of the tokens t that follow the b-th.
LEMMA ScriptCut ==
  ASSUME NEW b \in Nat, NEW t \in Seq(Tokens), b + Len(t) <= Len(Script),
         \A k \in 1..Len(t) : t[k] = Script[b + k], Within(b)
  PROVE  LET n == Cut("master_output", "zfin_scan", t)
             pr == NextProc("master_output", "zfin_scan", t)
         IN  /\ n \in 0..Len(t)
             /\ \A k \in 1..n : t[k] \notin Text
             /\ \A k \in 1..n - 1 : t[k] # "fin"
             /\ \/ /\ pr = "zfin_scan" /\ n = Len(t) /\ "fin" \notin Elements(t)
                   /\ Within(b + Len(t))
                \/ pr = "zfin_save" /\ n > 0 /\ t[n] = "fin" /\ Past(b + n)
<1> DEFINE n == Cut("master_output", "zfin_scan", t)
           pr == NextProc("master_output", "zfin_scan", t)
<1>1. /\ Len(t) \in Nat /\ Len(Script) \in Nat
      /\ \A x : x \in Elements(t) <=> \E i \in 1..Len(t) : t[i] = x
  BY ScriptIs, ElementsAre
<1>2. /\ Place(t, "fin") \in 0..Len(t)
      /\ Place(t, "fin") > 0 <=> "fin" \in Elements(t)
      /\ Place(t, "fin") > 0 => t[Place(t, "fin")] = "fin"
  BY PlaceIs
<1>3. Zfin("master_output") = "fin" /\ Found("master_output") = "zfin_save"
  BY DEF Zfin, Found
<1>4. IF "fin" \in Elements(t) THEN n = Place(t, "fin") /\ pr = "zfin_save"
      ELSE n = Len(t) /\ pr = "zfin_scan"
  BY <1>3 DEF Cut, NextProc, Finds
<1> HIDE DEF n, pr
<1>5. n \in 0..Len(t)
  BY <1>1, <1>2, <1>4
<1>6. \A k \in 1..n - 1 : t[k] # "fin"
  <2> SUFFICES ASSUME NEW k \in 1..n - 1, t[k] = "fin" PROVE FALSE
    OBVIOUS
  <2>1. k \in 1..Len(t) /\ n \in 1..Len(t) /\ k < n
    BY <1>1, <1>5
  <2>2. "fin" \in Elements(t)
    BY <1>1, <2>1
  <2>3. t[n] = "fin"
    BY <1>2, <1>4, <2>2
  <2>4. b + k \in 1..Len(Script) /\ b + n \in 1..Len(Script) /\ Script[b + k] = Script[b + n]
    BY <1>1, <2>1, <2>3
  <2>5. b + k = b + n
    BY <2>4, OneStart
  <2> QED BY <1>1, <2>1, <2>5
<1>7. ASSUME NEW k \in 1..n
      PROVE  /\ t[k] \notin Text /\ t[k] = Script[b + k]
             /\ t[k] # "fin" => Within(b + k)
             /\ t[k] = "fin" => Past(b + k)
  <2>1. k \in 1..Len(t) /\ b + k \in 1..Len(Script) /\ b < b + k
    BY <1>1, <1>5
  <2>2. ASSUME NEW l \in b + 1..b + k - 1 PROVE Script[l] # "fin"
    <3>1. l - b \in 1..n - 1 /\ b + (l - b) = l /\ l - b \in 1..Len(t)
      BY <1>1, <1>5
    <3> QED BY <1>6, <3>1
  <2> QED BY <2>1, <2>2, DataWithin
<1>8. ASSUME "fin" \in Elements(t) PROVE pr = "zfin_save" /\ n > 0 /\ t[n] = "fin" /\ Past(b + n)
  <2>1. pr = "zfin_save" /\ n > 0 /\ t[n] = "fin"
    BY <1>2, <1>4, <1>8
  <2>2. n \in 1..n
    BY <1>1, <1>5, <2>1
  <2> QED BY <1>7, <2>1, <2>2
<1>9. ASSUME "fin" \notin Elements(t) PROVE pr = "zfin_scan" /\ n = Len(t) /\ Within(b + Len(t))
  <2>1. pr = "zfin_scan" /\ n = Len(t)
    BY <1>4, <1>9
  <2>2. CASE n = 0
    BY <2>1, <2>2
  <2>3. CASE n > 0
    <3>1. n \in 1..n /\ n \in 1..Len(t)
      BY <1>1, <1>5, <2>3
    <3>2. t[n] # "fin"
      BY <1>1, <1>9, <3>1
    <3> QED BY <1>7, <2>1, <3>1, <3>2
  <2> QED BY <1>1, <1>5, <2>2, <2>3
<1> QED BY <1>5, <1>6, <1>7, <1>8, <1>9 DEF n, pr

LEMMA PastGrows ==
  ASSUME NEW n \in Nat, NEW m \in Nat, n <= m, Past(n)
  PROVE  Past(m)
BY DEF Past

\* What becomes of a read of t from there: data for rz, then perhaps text to be saved.
Splits(t, n, pr, b) ==
  /\ n \in 0..Len(t)
  /\ Elements(SubSeq(t, 1, n)) \intersect Text = {}
  /\ \A k \in 1..n - 1 : t[k] # "fin"
  /\ \/ pr = "zfin_scan" /\ n = Len(t) /\ "fin" \notin Elements(t) /\ Within(b + Len(t))
     \/ pr = "zfin_save" /\ n > 0 /\ Past(b + Len(t)) /\ Elements(Suffix(t, n)) \subseteq Text

LEMMA CutSplits ==
  ASSUME NEW b \in Nat, NEW t \in Seq(Tokens), b + Len(t) <= Len(Script),
         \A k \in 1..Len(t) : t[k] = Script[b + k], Within(b)
  PROVE  Splits(t, Cut("master_output", "zfin_scan", t), NextProc("master_output", "zfin_scan", t), b)
<1> DEFINE n == Cut("master_output", "zfin_scan", t)
           pr == NextProc("master_output", "zfin_scan", t)
           s == SubSeq(t, 1, n)
           u == Suffix(t, n)
<1>1. /\ n \in 0..Len(t)
      /\ \A k \in 1..n : t[k] \notin Text
      /\ \A k \in 1..n - 1 : t[k] # "fin"
      /\ \/ /\ pr = "zfin_scan" /\ n = Len(t) /\ "fin" \notin Elements(t)
            /\ Within(b + Len(t))
         \/ pr = "zfin_save" /\ n > 0 /\ t[n] = "fin" /\ Past(b + n)
  BY ScriptCut
<1> HIDE DEF n, pr
<1>2. /\ s \in Seq(Tokens) /\ Len(s) = n /\ u \in Seq(Tokens) /\ Len(u) = Len(t) - n
      /\ \A i \in 1..n : s[i] = t[i]
      /\ \A i \in 1..Len(t) - n : u[i] = t[n + i]
  <2>1. n \in 0..Len(t)
    BY <1>1
  <2> QED BY <2>1, Parts
<1>3. Len(t) \in Nat /\ Len(Script) \in Nat /\ n \in Nat /\ n <= Len(t)
  BY <1>1, ScriptIs, ElementsAre
<1> HIDE DEF s, u
<1>4. Elements(s) \intersect Text = {}
  <2>1. \A x : x \in Elements(s) <=> \E i \in 1..n : s[i] = x
    BY <1>2, ElementsAre
  <2> QED BY <1>1, <1>2, <2>1
<1>5. ASSUME Past(b + n) PROVE Past(b + Len(t)) /\ Elements(u) \subseteq Text
  <2>1. b + n \in 0..Len(Script) /\ b + n \in Nat /\ b + Len(t) \in Nat /\ b + n <= b + Len(t)
    BY <1>3
  <2>2. \A m \in b + n + 1..Len(Script) : Script[m] \in Text
    BY <1>5, <2>1, TextAfter
  <2>3. ASSUME NEW x \in Elements(u) PROVE x \in Text
    <3>1. PICK i \in 1..Len(t) - n : u[i] = x
      BY <1>2, <2>3, ElementsAre
    <3>2. n + i \in 1..Len(t) /\ b + (n + i) \in b + n + 1..Len(Script)
      BY <1>3, <3>1
    <3>3. x = Script[b + (n + i)]
      BY <1>2, <3>1, <3>2
    <3> QED BY <2>2, <3>2, <3>3
  <2> QED BY <1>5, <2>1, <2>3, PastGrows
<1>6. Splits(t, n, pr, b)
  BY <1>1, <1>4, <1>5 DEF Splits, s, u
<1> QED BY <1>6 DEF n, pr

LEMMA ReadText ==
  ASSUME Typed, LateLast, Followed, NEW r, Reads("master_output", r)
  PROVE  LET s == SubSeq(inbox["master"], 1, r)
             n == Cut("master_output", proc["master_output"], s)
         IN  /\ Follows(Rest') /\ At' = At + r /\ At \in Nat /\ At + r \in 0..Len(Script)
             /\ Len(s) = r
             /\ \/ /\ proc["master_output"] = "zrq_scan" /\ proc' = proc /\ head = "echo" /\ n = r
                   /\ ~Within(At) => Elements(s) \subseteq Text /\ ~Within(At')
                \/ /\ proc["master_output"] = "zfin_scan" /\ head = "rz"
                   /\ Splits(s, n, proc'["master_output"], At)
                \/ /\ proc["master_output"] = "zfin_save" /\ proc' = proc /\ head = "rz" /\ n = 0
                   /\ Past(At') /\ Elements(s) \subseteq Text
<1> DEFINE p == "master_output"
           s == SubSeq(inbox["master"], 1, r)
           n == Cut(p, proc[p], s)
           pr == NextProc(p, proc[p], s)
<1>1. p \in Pipe /\ Source(head, p) = "master" /\ proc \in [Pipe -> {"none", "zrq_scan", "zfin_scan", "zfin_save", "zfin_drop"}]
      /\ head \in {"echo", "rz"} /\ Follows(Rest)
  BY DEF Pipe, Source, Typed, TypeOK, Followed
<1>2. /\ r \in 0..Len(inbox["master"]) /\ r \in Nat /\ s \in Seq(Tokens) /\ Len(s) = r
  <2>1. Reads(p, r)
    OBVIOUS
  <2> HIDE DEF p
  <2> QED BY <1>1, <2>1, ReadFits DEF Typed
<1>3. /\ Took("master", r) /\ script' = script
      /\ proc' = [proc EXCEPT ![p] = pr]
      /\ ~(proc[p] = "zrq_scan" /\ "start" \in Elements(s))
  BY <1>1 DEF Reads
<1>4. /\ Follows(Rest') /\ At' = At + r /\ At \in Nat /\ At + r <= Len(Script)
      /\ \A k \in 1..r : s[k] = Script[At + k]
  BY <1>1, <1>2, <1>3, RestTaken
<1>5. At + r \in 0..Len(Script) /\ Len(Script) \in Nat
  BY <1>2, <1>4, ScriptIs
<1>6. proc'[p] = pr
  BY <1>1, <1>3
<1> HIDE DEF p, s
<1>7. \A x : x \in Elements(s) <=> \E i \in 1..r : s[i] = x
  BY <1>2, ElementsAre
<1>8. CASE head = "echo"
  <2>1. proc[p] = "zrq_scan"
    BY <1>8 DEF LateLast, Procs, p
  <2>2. n = r /\ pr = proc[p]
    BY <1>2, <2>1 DEF Cut, NextProc, Finds, Found
  <2>3. proc' = proc
    BY <1>1, <1>3, <2>2
  <2>4. ASSUME ~Within(At) PROVE Elements(s) \subseteq Text /\ ~Within(At')
    <3>1. \A k \in At + 1..At + r : Script[k] # "start"
      <4> SUFFICES ASSUME NEW k \in At + 1..At + r, Script[k] = "start" PROVE FALSE
        OBVIOUS
      <4>1. k - At \in 1..r /\ At + (k - At) = k
        BY <1>2, <1>4
      <4>2. s[k - At] = "start"
        BY <1>4, <4>1
      <4> QED BY <1>3, <1>7, <2>1, <4>1, <4>2
    <3>2. ASSUME NEW k \in 1..r PROVE Script[At + k] \in Text /\ ~Within(At + k)
      <4>1. At + k \in 1..Len(Script) /\ At < At + k
        BY <1>2, <1>4, <1>5
      <4>2. \A l \in At + 1..At + k : Script[l] # "start"
        <5> TAKE l \in At + 1..At + k
        <5>1. l \in At + 1..At + r
          BY <1>2, <1>4
        <5> QED BY <3>1, <5>1
      <4> QED BY <1>4, <2>4, <4>1, <4>2, TextOutside
    <3>3. Elements(s) \subseteq Text
      BY <1>4, <1>7, <3>2
    <3>4. CASE r = 0
      BY <1>4, <2>4, <3>3, <3>4
    <3>5. CASE r > 0
      <4>1. r \in 1..r
        BY <1>2, <3>5
      <4> QED BY <1>4, <3>2, <3>3, <4>1
    <3> QED BY <1>2, <3>4, <3>5
  <2> QED BY <1>2, <1>4, <1>5, <1>8, <2>1, <2>2, <2>3, <2>4 DEF p, s
<1>9. CASE head = "rz"
  <2>1. proc[p] \in {"zfin_scan", "zfin_save"}
    BY <1>1, <1>9 DEF LateLast, Found, p
  <2>2. CASE proc[p] = "zfin_scan"
    <3>1. Within(At)
      BY <2>2 DEF Followed, p
    <3>2. Splits(s, Cut("master_output", "zfin_scan", s), NextProc("master_output", "zfin_scan", s), At)
      BY <1>2, <1>4, <3>1, CutSplits
    <3>3. Splits(s, n, proc'[p], At)
      BY <1>6, <2>2, <3>2 DEF p
    <3> QED BY <1>2, <1>4, <1>5, <1>9, <2>2, <3>3 DEF p, s
  <2>3. CASE proc[p] = "zfin_save"
    <3>1. Past(At)
      BY <2>3 DEF Followed, p
    <3>2. n = 0 /\ pr = proc[p]
      BY <2>3 DEF Cut, NextProc, Finds, Found, p
    <3>3. proc' = proc
      BY <1>1, <1>3, <3>2
    <3>4. Past(At')
      BY <1>2, <1>4, <3>1, PastGrows
    <3>5. \A m \in At + 1..Len(Script) : Script[m] \in Text
      <4>1. At \in 0..Len(Script)
        BY <1>2, <1>4, <1>5
      <4> QED BY <3>1, <4>1, TextAfter
    <3>6. \A k \in 1..r : s[k] \in Text
      <4> TAKE k \in 1..r
      <4>1. At + k \in At + 1..Len(Script)
        BY <1>2, <1>4, <1>5
      <4> QED BY <1>4, <3>5, <4>1
    <3>7. Elements(s) \subseteq Text
      BY <1>7, <3>6
    <3> QED BY <1>2, <1>4, <1>5, <1>9, <2>3, <3>2, <3>3, <3>4, <3>7 DEF p, s
  <2> QED BY <2>1, <2>2, <2>3
<1> QED BY <1>1, <1>8, <1>9

LEMMA StartText ==
  ASSUME Typed, Followed, NEW r, NEW i, Starts(r, i)
  PROVE  LET s == SubSeq(inbox["master"], 1, r)
             rest == Suffix(s, i)
             n == Cut("master_output", "zfin_scan", rest)
         IN  /\ Follows(Rest') /\ At' = At + r /\ At \in Nat /\ At + i \in Nat
             /\ At' = At + i + Len(rest) /\ "start" \notin Text
             /\ proc'["input_master"] = "zfin_scan"
             /\ Splits(rest, n, proc'["master_output"], At + i)
<1> DEFINE p == "master_output"
           s == SubSeq(inbox["master"], 1, r)
           rest == Suffix(s, i)
<1>1. /\ r \in 0..Len(inbox["master"]) /\ r \in Nat /\ i \in 1..r
      /\ s \in Seq(Tokens) /\ Len(s) = r /\ rest \in Seq(Tokens) /\ Len(rest) = r - i
  BY StartFits DEF Typed
<1>2. /\ Took("master", r) /\ script' = script /\ s[i] = "start"
      /\ proc' = [Procs("rz") EXCEPT ![p] = NextProc(p, Procs("rz")[p], rest)]
  BY DEF Starts
<1>3. Procs("rz") = [o \in Pipe |-> "zfin_scan"] /\ Follows(Rest)
  BY DEF Procs, Followed
<1>4. proc'["input_master"] = "zfin_scan" /\ proc'[p] = NextProc(p, "zfin_scan", rest)
  BY <1>2, <1>3 DEF Pipe
<1>5. /\ Follows(Rest') /\ At' = At + r /\ At \in Nat /\ At + r <= Len(Script)
      /\ \A k \in 1..r : s[k] = Script[At + k]
  BY <1>1, <1>2, <1>3, RestTaken
<1>6. i \in 0..Len(s) /\ i \in Nat
  BY <1>1
<1> HIDE DEF s
<1>7. \A k \in 1..Len(s) - i : rest[k] = s[i + k]
  BY <1>1, <1>6, Parts
<1> HIDE DEF rest
<1>8. At + i \in 1..Len(Script) /\ Script[At + i] = "start" /\ Len(Script) \in Nat
  BY <1>1, <1>2, <1>5, ScriptIs
<1>9. Within(At + i)
  <2>1. \A k \in At + i..At + i : Script[k] # "fin"
    BY <1>8
  <2> QED BY <1>8, <2>1 DEF Within
<1>10. "start" \notin Text
  <2>1. \A k \in At + i..At + i - 1 : FALSE
    BY <1>5, <1>6
  <2>2. InTransfer(At + i)
    BY <1>8, <2>1 DEF InTransfer
  <2> QED BY <1>8, <2>2, ScriptIs, ScriptAssumption
<1>11. \A k \in 1..Len(rest) : rest[k] = Script[At + i + k]
  <2> TAKE k \in 1..Len(rest)
  <2>1. k \in 1..Len(s) - i /\ i + k \in 1..r /\ At + (i + k) = At + i + k
    BY <1>1, <1>5, <1>6
  <2> QED BY <1>5, <1>7, <2>1
<1>12. At + i \in Nat /\ At + i + Len(rest) <= Len(Script) /\ At' = At + i + Len(rest)
  BY <1>1, <1>5, <1>6
<1>13. Splits(rest, Cut(p, "zfin_scan", rest), NextProc(p, "zfin_scan", rest), At + i)
  BY <1>1, <1>9, <1>11, <1>12, CutSplits
<1> QED BY <1>4, <1>5, <1>10, <1>12, <1>13 DEF s, rest

LEMMA ReadFollowed ==
  ASSUME Typed, LateLast, Followed, NEW p \in Pipe, NEW r, Reads(p, r), pc \in {"dispatch", "reap"}
  PROVE  Followed'
<1> DEFINE a == Source(head, p)
           s == SubSeq(inbox[a], 1, r)
           n == Cut(p, proc[p], s)
           w == SubSeq(s, 1, n)
           q == fifo[p] \o w
<1>1. /\ a \in {"stdin", "master", "rzread"} /\ w \in Seq(Tokens) /\ q \in Seq(Tokens) /\ s \in Seq(Tokens)
  BY ReadFits DEF Typed
<1>2. /\ UNCHANGED <<head, pc, script>> /\ Took(a, r)
      /\ proc' = [proc EXCEPT ![p] = NextProc(p, proc[p], s)]
  BY DEF Reads
<1>3. PICK c \in {conn, conn \ {a}} : Moved(p, q, head, c)
  BY DEF Reads
<1>4. /\ TypeOK /\ fifo[p] \in Seq(Tokens) /\ p \in {"input_master", "master_output"}
      /\ "master_output" \in Pipe /\ head \in {"echo", "rz"}
      /\ inbox \in [{"stdin", "master", "rzread"} -> Seq(Tokens)]
      /\ proc \in [Pipe -> {"none", "zrq_scan", "zfin_scan", "zfin_save", "zfin_drop"}]
  BY DEF Typed, TypeOK, Pipe
<1> HIDE DEF w
<1>5. Elements(q) = Elements(fifo[p]) \union Elements(w)
  BY <1>1, <1>4, JoinedElements
<1> HIDE DEF q
<1>6. /\ Elements(fifo'[p]) \subseteq Elements(q)
      /\ \A o \in Pipe : o # p => fifo'[o] = fifo[o]
      /\ Sink(head, p) # "rzwrite" => rzin' = rzin
      /\ Sink(head, p) = "rzwrite" => Elements(rzin') \subseteq Elements(rzin) \union Elements(q)
  BY <1>1, <1>3, <1>4, MovedElements
<1>7. pc' \notin {"idle_end", "restore"}
  BY <1>2
<1>8. CASE p = "input_master"
  <2>1. a # "master" /\ Sink(head, p) = "master"
    BY <1>8 DEF Source, Sink
  <2>2. inbox'["master"] = inbox["master"] /\ proc'["master_output"] = proc["master_output"]
    BY <1>2, <1>4, <1>8, <2>1 DEF Took
  <2>3. Rest' = Rest /\ At' = At
    BY <1>2, <2>2, RestSame
  <2>4. rzin' = rzin /\ fifo'["master_output"] = fifo["master_output"]
    BY <1>4, <1>6, <1>8, <2>1
  <2> QED BY <1>2, <1>7, <2>2, <2>3, <2>4 DEF Followed, NoTextToRz
<1>9. CASE p = "master_output"
  <2>1. a = "master"
    BY <1>9 DEF Source
  <2>2. /\ Follows(Rest') /\ At' = At + r /\ Len(s) = r
        /\ \/ proc["master_output"] = "zrq_scan" /\ proc' = proc /\ head = "echo"
           \/ /\ proc["master_output"] = "zfin_scan" /\ head = "rz"
              /\ Splits(s, n, proc'["master_output"], At)
           \/ /\ proc["master_output"] = "zfin_save" /\ proc' = proc /\ head = "rz" /\ n = 0
              /\ Past(At')
    BY <1>9, <2>1, ReadText
  <2> HIDE DEF a, s, n
  <2>3. /\ proc'["master_output"] = "zfin_scan" => Within(At')
        /\ proc'["master_output"] = "zfin_save" => Past(At')
    BY <2>2 DEF Splits
  <2>4. head = "rz" => Elements(w) \intersect Text = {}
    <3>1. ASSUME n = 0 PROVE Elements(w) = {}
      <4>1. s \in Seq(Tokens) /\ n \in 0..Len(s)
        BY <1>1, <3>1, ElementsAre
      <4>2. Len(w) = 0
        BY <3>1, <4>1, Parts DEF w
      <4>3. w = <<>>
        BY <1>1, <4>2, EmptySeq
      <4> QED BY <1>1, <4>3, ElementsAre
    <3> QED BY <2>2, <3>1 DEF Splits, w
  <2>5. NoTextToRz'
    BY <1>2, <1>4, <1>5, <1>6, <1>9, <2>4 DEF Followed, NoTextToRz, Sink
  <2> QED BY <1>7, <2>2, <2>3, <2>5 DEF Followed
<1> QED BY <1>4, <1>8, <1>9

LEMMA StartFollowed ==
  ASSUME Typed, LateLast, Followed, NEW r, NEW i, Starts(r, i), pc \in {"dispatch", "reap"}
  PROVE  Followed'
<1> DEFINE p == "master_output"
           s == SubSeq(inbox["master"], 1, r)
           rest == Suffix(s, i)
           n == Cut(p, "zfin_scan", rest)
           w == SubSeq(rest, 1, n)
           q == <<"start">> \o w
<1>1. w \in Seq(Tokens) /\ <<"start">> \in Seq(Tokens) /\ q \in Seq(Tokens)
  BY StartFits DEF Typed
<1>2. /\ Follows(Rest') /\ At' = At + i + Len(rest) /\ "start" \notin Text
      /\ Splits(rest, n, proc'[p], At + i)
  BY StartText
<1>3. Moved(p, q, "rz", conn \union RzAtoms) /\ pc' = pc
  BY DEF Starts
<1>4. TypeOK /\ p \in Pipe /\ Elements(<<"start">>) = {"start"}
  BY OneElement DEF Typed, Pipe
<1> HIDE DEF w, rest, n
<1>5. Elements(q) = Elements(<<"start">>) \union Elements(w)
  BY ZenonT(60), <1>1, JoinedElements
<1> HIDE DEF q
<1>6. Elements(fifo'[p]) \subseteq Elements(q) /\ Elements(rzin') \subseteq Elements(rzin) \union Elements(q)
  <2>1. Sink("rz", p) = "rzwrite"
    BY DEF Sink
  <2> QED BY <1>1, <1>3, <1>4, <2>1, MovedElements
<1>7. Elements(w) \intersect Text = {}
  BY <1>2 DEF Splits, w
<1>8. NoTextToRz'
  BY <1>2, <1>4, <1>5, <1>6, <1>7 DEF NoTextToRz, Followed
<1>9. /\ proc'[p] = "zfin_scan" => Within(At')
      /\ proc'[p] = "zfin_save" => Past(At')
  BY <1>2 DEF Splits
<1> QED BY <1>2, <1>3, <1>8, <1>9 DEF Followed

LEMMA WriteFollowed ==
  ASSUME Typed, Followed, NEW p \in Pipe, Moved(p, fifo[p], head, conn),
         UNCHANGED <<head, proc, pc, inbox, script>>
  PROVE  Followed'
<1>1. fifo[p] \in Seq(Tokens) /\ TypeOK /\ "master_output" \in Pipe
      /\ p \in {"input_master", "master_output"}
  BY DEF Typed, TypeOK, Pipe
<1>2. /\ Elements(fifo'[p]) \subseteq Elements(fifo[p])
      /\ \A o \in Pipe : o # p => fifo'[o] = fifo[o]
      /\ Sink(head, p) # "rzwrite" => rzin' = rzin
      /\ Sink(head, p) = "rzwrite" => Elements(rzin') \subseteq Elements(rzin) \union Elements(fifo[p])
  BY <1>1, MovedElements
<1>3. NoTextToRz'
  BY <1>1, <1>2 DEF Followed, NoTextToRz, Sink
<1>4. Rest' = Rest /\ At' = At
  BY RestSame
<1> QED BY <1>3, <1>4 DEF Followed

LEMMA AutoReadFollowed ==
  ASSUME Typed, LateLast, Followed, NEW p \in Pipe, pipe_auto_read(p), pc \in {"dispatch", "reap"}
  PROVE  Followed'
<1>1. ASSUME NEW how \in {"full before read", "bailed"}, End(how) PROVE Followed'
  <2>1. Rest' = Rest /\ At' = At
    BY <1>1, RestSame DEF End, outside
  <2> QED BY <1>1, <2>1 DEF End, structs, outside, Followed, NoTextToRz
<1> QED BY <1>1, AutoReadIs, ReadFollowed, StartFollowed DEF Typed

LEMMA AutoWriteFollowed ==
  ASSUME Typed, Followed, NEW p \in Pipe, pipe_auto_write(p)
  PROVE  Followed'
<1>1. ASSUME End("full after write") PROVE Followed'
  <2>1. Rest' = Rest /\ At' = At
    BY <1>1, RestSame DEF End, outside
  <2> QED BY <1>1, <2>1 DEF End, structs, outside, Followed, NoTextToRz
<1>2. ASSUME Moved(p, fifo[p], head, conn),
             UNCHANGED <<head, proc, savebuf, pc, children, script, typed, inbox,
                         astray, dropped, crashed>>
      PROVE  Followed'
  BY <1>2, WriteFollowed
<1> QED BY <1>1, <1>2, WriteMoves DEF Typed

LEMMA InitFollowed == Init => Followed
<1> SUFFICES ASSUME Init PROVE Followed
  OBVIOUS
<1>1. DOMAIN <<>> = {} /\ Elements(<<>>) = {}
  BY DEF Elements
<1>2. inbox["master"] = <<>> /\ script = Script /\ Script \in Seq(Tokens) /\ Len(Script) \in Nat
  BY ScriptIs DEF Init
<1>3. <<>> \o Script = Script
  BY <1>2
<1>4. Rest = Script
  BY <1>2, <1>3 DEF Rest
<1>5. Follows(Rest)
  BY <1>2, <1>4 DEF Follows
<1> QED BY <1>1, <1>5 DEF Init, Followed, NoTextToRz, Procs

LEMMA LoopFollowed ==
  ASSUME Typed, LateLast, Followed, Loop
  PROVE  Followed'
<1>0. ASSUME inbox'["master"] = inbox["master"], script' = script,
             UNCHANGED <<head, proc, fifo, rzin>>, pc' \notin {"idle_end", "restore"}
      PROVE  Followed'
  <2>1. Rest' = Rest /\ At' = At
    BY <1>0, RestSame
  <2> QED BY <1>0, <2>1 DEF Followed, NoTextToRz
<1>1. CASE master_idle
  BY <1>0, <1>1 DEF master_idle, RemoveAll, structs, outside
<1>2. CASE io_wait
  BY <1>0, <1>2 DEF io_wait, structs, outside
<1>3. ASSUME NEW a \in Atom, DispatchRead(a) PROVE Followed'
  <2>1. (IF a = "master" THEN "master_output" ELSE "input_master") \in Pipe
    BY DEF Pipe
  <2>2. pc \in {"dispatch", "reap"}
    BY <1>3 DEF DispatchRead, Turn
  <2> QED BY <1>3, <2>1, <2>2, AutoReadFollowed DEF DispatchRead
<1>4. ASSUME NEW a \in Atom, DispatchWrite(a) PROVE Followed'
  <2>1. (IF a = "master" THEN "input_master" ELSE "master_output") \in Pipe
    BY DEF Pipe
  <2> QED BY <1>4, <2>1, AutoWriteFollowed DEF DispatchWrite
<1>5. ASSUME NEW a \in Atom, DispatchStale(a) PROVE Followed'
  BY <1>0, <1>5 DEF DispatchStale, Turn, structs, outside
<1>6. CASE typing_io_proc
  <2>1. PICK r \in 1..Len(inbox["stdin"]) : Took("stdin", r)
    BY <1>6 DEF typing_io_proc
  <2>2. inbox'["master"] = inbox["master"]
    BY <2>1 DEF Took, Typed, TypeOK
  <2> QED BY <1>0, <1>6, <2>2 DEF typing_io_proc, Turn, structs
<1>7. CASE master_check_sigchild
  BY <1>0, <1>7 DEF master_check_sigchild, RemoveAll, structs, outside
<1>8. CASE task_default_sigchild
  <2>1. "input_master" \in Pipe /\ pc \in {"dispatch", "reap"}
    BY <1>8 DEF Pipe, task_default_sigchild
  <2> QED BY <1>8, <2>1, AutoReadFollowed DEF task_default_sigchild
<1>9. CASE fifo_write
  <2> DEFINE q == fifo["input_master"]
  <2>1. PICK n \in 0..Len(q) :
          /\ fifo' = [fifo EXCEPT !["input_master"] = Suffix(q, n)]
          /\ Deliver("master", SubSeq(q, 1, n))
    BY <1>9, ReapWriteIs DEF Typed
  <2>2. fifo'["master_output"] = fifo["master_output"] /\ rzin' = rzin
    BY <2>1 DEF Deliver, Typed, TypeOK, Pipe
  <2>3. Rest' = Rest /\ At' = At
    BY <1>9, RestSame DEF fifo_write
  <2> QED BY <1>9, <2>2, <2>3 DEF fifo_write, Followed, NoTextToRz
<1>10. CASE task_remove
  <2>1. /\ head' = "echo" /\ proc' = Procs("echo") /\ rzin' = <<>>
        /\ inbox'["master"] = inbox["master"] /\ UNCHANGED <<script, fifo>>
    BY <1>10 DEF task_remove, Typed, TypeOK
  <2>2. Elements(<<>>) = {} /\ Procs("echo")["master_output"] = "zrq_scan"
    BY DEF Elements, Procs, Pipe
  <2>3. Rest' = Rest /\ At' = At
    BY <2>1, RestSame
  <2> QED BY <2>1, <2>2, <2>3 DEF Followed, NoTextToRz
<1>11. CASE idle_end
  <2>1. <<"status">> \in Seq(Tokens) /\ <<"status">> # <<>>
    BY DEF Tokens
  <2>2. PICK n \in Nat, m \in Nat : Puts(<<"status">>, n, m)
    BY <1>11, <2>1, PipeWriteIs DEF idle_end, Typed
  <2>3. rzin' = rzin
    BY <2>2, PutsLate
  <2>4. Rest' = Rest /\ At' = At /\ head = "echo" /\ UNCHANGED <<head, proc>>
    BY <1>11, RestSame DEF idle_end, Followed
  <2> QED BY <1>11, <2>3, <2>4 DEF idle_end, Followed, NoTextToRz
<1>12. CASE rzt_destructor_proc
  <2>1. rzin' = rzin
    <3>1. CASE savebuf = <<>>
      BY <1>12, <3>1 DEF rzt_destructor_proc
    <3>2. CASE savebuf # <<>>
      <4>1. savebuf \in Seq(Tokens)
        BY DEF Typed, TypeOK
      <4>2. PICK n \in Nat, m \in Nat : Puts(savebuf, n, m)
        BY <1>12, <3>2, <4>1, PipeWriteIs DEF rzt_destructor_proc, Typed
      <4> QED BY <4>2, PutsLate
    <3> QED BY <3>1, <3>2
  <2>2. Rest' = Rest /\ At' = At /\ head = "echo" /\ UNCHANGED <<head, proc>>
    BY <1>12, RestSame DEF rzt_destructor_proc, Followed
  <2> QED BY <1>12, <2>1, <2>2 DEF rzt_destructor_proc, Followed, NoTextToRz
<1> QED BY <1>1, <1>2, <1>3, <1>4, <1>5, <1>6, <1>7, <1>8, <1>9, <1>10, <1>11, <1>12
        DEF Loop, Dispatch

LEMMA EnvironmentFollowed ==
  ASSUME Typed, LateLast, Followed, Environment
  PROVE  Followed'
<1>0. ASSUME Rest' = Rest, At' = At, UNCHANGED <<head, proc, fifo, pc>>,
             Elements(rzin') \subseteq Elements(rzin)
      PROVE  Followed'
  BY <1>0 DEF Followed, NoTextToRz
<1>1. CASE ShellPrint
  <2>1. Rest' = Rest /\ At' = At
    BY <1>1, RestPrinted
  <2> QED BY <1>0, <1>1, <2>1 DEF ShellPrint, structs
<1>2. CASE ShellExit
  BY <1>0, <1>2, RestSame DEF ShellExit, structs, outside
<1>3. CASE RzRead
  <2>1. inbox'["master"] = inbox["master"] /\ script' = script
    BY <1>3 DEF RzRead, Typed, TypeOK
  <2>2. rzin # <<>> /\ rzin \in Seq(Tokens) /\ rzin' = Tail(rzin)
    BY <1>3 DEF RzRead, Typed, TypeOK
  <2>3. Elements(rzin') \subseteq Elements(rzin)
    BY <2>2, HeadTailAre
  <2> QED BY <1>0, <1>3, <2>1, <2>3, RestSame DEF RzRead, structs
<1>4. CASE RzSpeaks
  <2>1. inbox'["master"] = inbox["master"] /\ script' = script
    BY <1>4 DEF RzSpeaks, Typed, TypeOK
  <2> QED BY <1>0, <1>4, <2>1, RestSame DEF RzSpeaks, structs
<1>5. CASE RzExit
  BY <1>0, <1>5, RestSame DEF RzExit, structs, outside
<1>6. CASE UserTypes
  <2>1. inbox'["master"] = inbox["master"] /\ script' = script
    BY <1>6 DEF UserTypes, Typed, TypeOK
  <2> QED BY <1>0, <1>6, <2>1, RestSame DEF UserTypes, structs
<1>7. ASSUME NEW a \in {"stdout", "master"}, Consume(a) PROVE Followed'
  BY <1>0, <1>7, RestSame DEF Consume, structs
<1> QED BY <1>1, <1>2, <1>3, <1>4, <1>5, <1>6, <1>7 DEF Environment

LEMMA NextFollowed == Typed /\ LateLast /\ Followed /\ [Next]_vars => Followed'
<1> SUFFICES ASSUME Typed, LateLast, Followed, [Next]_vars PROVE Followed'
  OBVIOUS
<1>1. CASE UNCHANGED vars
  <2>1. UNCHANGED <<head, proc, fifo, pc, rzin, inbox, script>>
    BY <1>1 DEF vars, structs, outside
  <2>2. Rest' = Rest /\ At' = At
    BY <2>1, RestSame
  <2> QED BY <2>1, <2>2 DEF Followed, NoTextToRz
<1> QED BY <1>1, LoopFollowed, EnvironmentFollowed DEF Next

(***************************************************************************)
(* Nothing the shell prints for the terminal goes to rz, wherever the      *)
(* reads cut what comes before, in and after the transfer.                 *)
(***************************************************************************)
THEOREM SessionNoTextToRz == Spec => []NoTextToRz
<1>1. Spec => [](Typed /\ LateLast /\ Followed)
  BY InitTyped, NextTyped, InitLate, NextLate, InitFollowed, NextFollowed, PTL DEF Spec
<1>2. Followed => NoTextToRz
  BY DEF Followed
<1> QED BY <1>1, <1>2, PTL

-----------------------------------------------------------------------------
(***************************************************************************)
(* What the terminal shows.                                                *)
(***************************************************************************)
LEMMA LastFinAppended ==
  ASSUME NEW q \in Seq(Tokens), LastFin(q, "zfin_scan"), NEW w \in Seq(Tokens),
         \A k \in 1..Len(w) - 1 : w[k] # "fin", NEW pr, pr = "zfin_scan" => "fin" \notin Elements(w)
  PROVE  LastFin(q \o w, pr)
<1> DEFINE u == q \o w
<1>1. /\ u \in Seq(Tokens) /\ Len(u) = Len(q) + Len(w)
      /\ \A i \in 1..Len(q) : u[i] = q[i]
      /\ \A i \in 1..Len(w) : u[Len(q) + i] = w[i]
  BY Joined
<1>2. Elements(u) = Elements(q) \union Elements(w)
  BY JoinedElements
<1> HIDE DEF u
<1>3. /\ Len(q) \in Nat /\ Len(w) \in Nat
      /\ \A x : x \in Elements(q) <=> \E i \in 1..Len(q) : q[i] = x
  BY ElementsAre
<1>4. "fin" \notin Elements(q)
  BY DEF LastFin
<1>5. ASSUME NEW i \in 1..Len(u) - 1 PROVE u[i] # "fin"
  <2>1. CASE i <= Len(q)
    BY <1>1, <1>3, <1>4, <2>1
  <2>2. CASE i > Len(q)
    <3>1. i - Len(q) \in 1..Len(w) - 1 /\ i - Len(q) \in 1..Len(w) /\ Len(q) + (i - Len(q)) = i
      BY <1>1, <1>3, <2>2
    <3>2. u[i] = w[i - Len(q)]
      BY <1>1, <3>1
    <3> QED BY <3>1, <3>2
  <2> QED BY <1>1, <1>3, <2>1, <2>2
<1> QED BY <1>2, <1>4, <1>5 DEF LastFin, u

LEMMA LastFinTail ==
  ASSUME NEW s \in Seq(Tokens), s # <<>>, NEW f \in Seq(Tokens), NEW pr, LastFin(s \o f, pr)
  PROVE  /\ LastFin(Tail(s) \o f, pr)
         /\ Head(s) = "fin" => Tail(s) = <<>> /\ f = <<>> /\ pr # "zfin_scan"
<1> DEFINE u == s \o f
           t == Tail(s)
           v == t \o f
<1>1. /\ Len(s) \in Nat \ {0} /\ Head(s) = s[1] /\ t \in Seq(Tokens) /\ Len(t) = Len(s) - 1
      /\ \A i \in 1..Len(s) - 1 : t[i] = s[i + 1]
      /\ Elements(s) = {Head(s)} \union Elements(t)
  BY HeadTailAre
<1> HIDE DEF t
<1>2. /\ u \in Seq(Tokens) /\ Len(u) = Len(s) + Len(f)
      /\ \A i \in 1..Len(s) : u[i] = s[i]
      /\ \A i \in 1..Len(f) : u[Len(s) + i] = f[i]
      /\ Elements(u) = Elements(s) \union Elements(f)
  BY Joined, JoinedElements
<1>3. /\ v \in Seq(Tokens) /\ Len(v) = Len(t) + Len(f)
      /\ \A i \in 1..Len(t) : v[i] = t[i]
      /\ \A i \in 1..Len(f) : v[Len(t) + i] = f[i]
      /\ Elements(v) = Elements(t) \union Elements(f)
  <2>1. t \in Seq(Tokens) /\ f \in Seq(Tokens)
    BY <1>1
  <2> QED BY <2>1, Joined, JoinedElements
<1>4. LastFin(u, pr) /\ Len(f) \in Nat
  BY ElementsAre
<1> HIDE DEF u, v
<1>5. ASSUME NEW i \in 1..Len(v) - 1 PROVE v[i] # "fin"
  <2>1. i + 1 \in 1..Len(u) - 1
    BY <1>1, <1>2, <1>3, <1>4
  <2>2. u[i + 1] # "fin"
    BY <1>4, <2>1 DEF LastFin
  <2>3. CASE i <= Len(t)
    <3>1. i \in 1..Len(s) - 1 /\ i \in 1..Len(t) /\ i + 1 \in 1..Len(s)
      BY <1>1, <1>3, <1>4, <2>3
    <3>2. v[i] = t[i] /\ t[i] = s[i + 1] /\ s[i + 1] = u[i + 1]
      BY <1>1, <1>2, <1>3, <3>1
    <3> QED BY <2>2, <3>2
  <2>4. CASE i > Len(t)
    <3>1. i - Len(t) \in 1..Len(f) /\ Len(t) + (i - Len(t)) = i /\ Len(s) + (i - Len(t)) = i + 1
      BY <1>1, <1>3, <1>4, <2>4
    <3>2. v[i] = f[i - Len(t)] /\ u[i + 1] = f[i - Len(t)]
      BY <1>2, <1>3, <3>1
    <3> QED BY <2>2, <3>2
  <2> QED BY <1>1, <1>3, <1>4, <2>3, <2>4
<1>6. LastFin(v, pr)
  BY <1>1, <1>2, <1>3, <1>4, <1>5 DEF LastFin
<1>7. ASSUME s[1] = "fin" PROVE t = <<>> /\ f = <<>> /\ pr # "zfin_scan"
  <2>1. u[1] = "fin"
    BY <1>1, <1>2, <1>7
  <2>2. ~(1 \in 1..Len(u) - 1)
    BY <1>4, <2>1 DEF LastFin
  <2>3. Len(t) = 0 /\ Len(f) = 0
    BY <1>1, <1>2, <1>4, <2>2
  <2>4. "fin" \in Elements(u)
    BY <1>1, <1>2, <1>7
  <2> QED BY <1>1, <1>4, <2>3, <2>4, EmptySeq DEF LastFin
<1> QED BY <1>1, <1>6, <1>7 DEF t, u, v

LEMMA WholeParts ==
  ASSUME NEW S, NEW s \in Seq(S)
  PROVE  /\ Elements(SubSeq(s, 1, 0)) = {} /\ SubSeq(s, 1, 0) = <<>>
         /\ Elements(Suffix(s, Len(s))) = {}
<1>1. Len(s) \in Nat /\ 0 \in 0..Len(s) /\ Len(s) \in 0..Len(s)
  BY ElementsAre
<1>2. /\ SubSeq(s, 1, 0) \in Seq(S) /\ Len(SubSeq(s, 1, 0)) = 0
      /\ Suffix(s, Len(s)) \in Seq(S) /\ Len(Suffix(s, Len(s))) = Len(s) - Len(s)
  BY <1>1, Parts
<1>3. Len(s) - Len(s) = 0
  BY <1>1
<1> DEFINE a == SubSeq(s, 1, 0)
           b == Suffix(s, Len(s))
<1> HIDE DEF a, b
<1>4. a \in Seq(S) /\ b \in Seq(S) /\ Len(a) = 0 /\ Len(b) = 0
  BY <1>2, <1>3 DEF a, b
<1>5. a = <<>> /\ b = <<>>
  BY <1>4, EmptySeq
<1>6. Elements(a) = {} /\ Elements(b) = {}
  BY <1>4, <1>5, ElementsAre
<1> QED BY <1>5, <1>6 DEF a, b

LEMMA ReadChildren ==
  ASSUME Typed, LateLast, Children, NEW p \in Pipe, NEW r, Reads(p, r), pc \in {"dispatch", "reap"}
  PROVE  Children'
<1> DEFINE a == Source(head, p)
           s == SubSeq(inbox[a], 1, r)
<1>1. a \in {"stdin", "master", "rzread"} /\ r \in 0..Len(inbox[a]) /\ inbox[a] \in Seq(Tokens)
  BY ReadFits DEF Typed, TypeOK
<1>2. /\ UNCHANGED <<head, pc, rz>>
      /\ killed' = IF Terminates(p, s) THEN KilledFor("zfin") ELSE killed
  BY DEF Reads
<1>3. Elements(s) \subseteq Elements(inbox[a])
  BY <1>1, PartElements
<1> HIDE DEF s
<1>4. ASSUME Terminates(p, s) PROVE rz \in {"finished", "zombie"}
  <2>1. p = "input_master" /\ proc[p] = "zfin_scan" /\ "rzfin" \in Elements(s)
    BY <1>4 DEF Terminates, Finds, Zfin
  <2>2. head = "rz"
    BY <2>1 DEF LateLast, Procs, Typed, TypeOK
  <2>3. a = "rzread"
    BY <2>1, <2>2 DEF Source
  <2>4. rz # "running" /\ rz # "none"
    BY <1>3, <2>1, <2>2, <2>3 DEF LateLast, Speech, Children
  <2> QED BY <2>4 DEF Typed, TypeOK
<1> QED BY <1>2, <1>4 DEF Children, KilledFor

LEMMA ReadClean ==
  ASSUME Typed, LateLast, Followed, Clean, NEW p \in Pipe, NEW r, Reads(p, r),
         pc \in {"dispatch", "reap"}
  PROVE  Clean'
<1> DEFINE a == Source(head, p)
           s == SubSeq(inbox[a], 1, r)
           n == Cut(p, proc[p], s)
           w == SubSeq(s, 1, n)
           z == Suffix(s, n)
           q == fifo[p] \o w
<1>1. /\ a \in {"stdin", "master", "rzread"} /\ s \in Seq(Tokens) /\ Len(s) = r /\ n \in 0..r /\ r \in Nat
      /\ w \in Seq(Tokens) /\ Len(w) = n /\ z \in Seq(Tokens) /\ q \in Seq(Tokens)
  BY ReadFits DEF Typed
<1>2. /\ UNCHANGED <<head, pc, script, rz, shell>> /\ Took(a, r)
      /\ proc' = [proc EXCEPT ![p] = NextProc(p, proc[p], s)]
      /\ savebuf' = IF p = "master_output" THEN savebuf \o z ELSE savebuf
  BY DEF Reads
<1>3. PICK c \in {conn, conn \ {a}} : Moved(p, q, head, c)
  BY DEF Reads
<1>4. /\ TypeOK /\ fifo[p] \in Seq(Tokens) /\ p \in {"input_master", "master_output"}
      /\ "master_output" \in Pipe /\ head \in {"echo", "rz"} /\ savebuf \in Seq(Tokens) /\ rzin \in Seq(Tokens)
      /\ inbox \in [{"stdin", "master", "rzread"} -> Seq(Tokens)]
      /\ proc \in [Pipe -> {"none", "zrq_scan", "zfin_scan", "zfin_save", "zfin_drop"}]
  BY DEF Typed, TypeOK, Pipe
<1>5. Elements(s) = Elements(w) \union Elements(z)
  <2> HIDE DEF s, n
  <2>1. n \in 0..Len(s)
    BY <1>1
  <2> QED BY <1>1, <2>1, PartElements
<1> HIDE DEF w, z
<1>6. Elements(q) = Elements(fifo[p]) \union Elements(w) /\ Elements(savebuf \o z) = Elements(savebuf) \union Elements(z)
  BY <1>1, <1>4, JoinedElements
<1> DEFINE t == q
<1>7. t = fifo[p] \o w
  OBVIOUS
<1> HIDE DEF t, q
<1>8. /\ Elements(fifo'[p]) \subseteq Elements(t)
      /\ \A o \in Pipe : o # p => fifo'[o] = fifo[o]
      /\ Sink(head, p) # "rzwrite" => rzin' = rzin
      /\ Sink(head, p) = "rzwrite" => rzin' \o fifo'[p] = rzin \o t
                                      /\ Elements(rzin') \subseteq Elements(rzin) \union Elements(t)
      /\ Sink(head, p) # "stdout" => shown' = shown
      /\ Sink(head, p) = "stdout" => Elements(shown') \subseteq Elements(shown) \union Elements(t)
  <2>1. t \in Seq(Tokens) /\ Moved(p, t, head, c)
    BY <1>1, <1>3 DEF t
  <2> QED BY <1>4, <2>1, MovedElements
<1>9. ~Leaving
  BY DEF Leaving
<1>10. CASE p = "input_master"
  <2>1. a # "master" /\ Sink(head, p) = "master"
    BY <1>10 DEF Source, Sink
  <2>2. inbox'["master"] = inbox["master"] /\ proc'["master_output"] = proc["master_output"]
    BY <1>2, <1>4, <1>10, <2>1 DEF Took
  <2>3. At' = At
    BY <1>2, <2>2, RestSame
  <2>4. rzin' = rzin /\ fifo'["master_output"] = fifo["master_output"] /\ shown' = shown /\ savebuf' = savebuf
    BY <1>2, <1>4, <1>8, <1>10, <2>1
  <2> QED BY <1>2, <1>9, <2>2, <2>3, <2>4 DEF Clean, FinLast
<1>11. CASE p = "master_output"
  <2>1. a = "master"
    BY <1>11 DEF Source
  <2>2. \/ /\ proc[p] = "zrq_scan" /\ proc' = proc /\ head = "echo" /\ n = r
           /\ ~Within(At) => Elements(s) \subseteq Text /\ ~Within(At')
        \/ proc[p] = "zfin_scan" /\ head = "rz" /\ Splits(s, n, proc'[p], At)
        \/ /\ proc[p] = "zfin_save" /\ proc' = proc /\ head = "rz" /\ n = 0
           /\ Past(At') /\ Elements(s) \subseteq Text
    BY <1>11, <2>1, ReadText
  <2>3. savebuf' = savebuf \o z
    BY <1>2, <1>11
  <2> HIDE DEF a, s, n
  <2>4. n = r => Elements(z) = {}
    BY <1>1, WholeParts DEF z
  <2>5. n = 0 => Elements(w) = {} /\ w = <<>>
    BY <1>1, WholeParts DEF w
  <2>6. CASE head = "echo"
    <3>1. n = r /\ proc' = proc /\ (~Within(At) => Elements(s) \subseteq Text /\ ~Within(At'))
      BY <2>2, <2>6
    <3>2. Elements(fifo[p]) \subseteq Text \union {"status"} /\ ~Within(At)
      BY <1>9, <1>11, <2>6 DEF Clean
    <3>3. Elements(t) \subseteq Text \union {"status"}
      BY <1>5, <1>6, <3>1, <3>2 DEF t
    <3>4. Sink(head, p) = "stdout"
      BY <1>11, <2>6 DEF Sink
    <3>5. rz \notin {"finished", "zombie"}
      BY <2>6 DEF LateLast
    <3> QED BY <1>2, <1>6, <1>8, <1>11, <2>3, <2>4, <2>6, <3>1, <3>2, <3>3, <3>4, <3>5 DEF Clean
  <2>7. CASE head = "rz" /\ proc[p] = "zfin_scan"
    <3>1. Splits(s, n, proc'[p], At)
      BY <2>2, <2>7
    <3>2. rz \notin {"finished", "zombie"}
      BY <1>11, <2>7 DEF Clean
    <3>3. Sink(head, p) = "rzwrite"
      BY <1>11, <2>7 DEF Sink
    <3>4. Elements(savebuf') \subseteq Text
      <4>1. Elements(z) \subseteq Text
        BY <1>1, <2>4, <3>1 DEF Splits, z
      <4> QED BY <1>6, <2>3, <4>1 DEF Clean
    <3>5. FinLast'
      <4>1. LastFin(rzin \o fifo[p], "zfin_scan") /\ rzin \o fifo[p] \in Seq(Tokens)
        BY <1>4, <1>11, <2>7, Joined DEF Clean, FinLast
      <4>2. \A k \in 1..Len(w) - 1 : w[k] # "fin"
        <5>1. n \in 0..Len(s)
          BY <1>1
        <5>2. \A k \in 1..n : w[k] = s[k]
          BY <1>1, <5>1, Parts DEF w
        <5>3. \A k \in 1..n - 1 : k \in 1..n
          BY <1>1
        <5> QED BY <1>1, <3>1, <5>2, <5>3 DEF Splits
      <4>3. proc'[p] = "zfin_scan" => "fin" \notin Elements(w)
        BY <1>5, <3>1 DEF Splits
      <4>4. LastFin((rzin \o fifo[p]) \o w, proc'[p])
        BY <1>1, <4>1, <4>2, <4>3, LastFinAppended
      <4>5. (rzin \o fifo[p]) \o w = rzin \o t
        <5> DEFINE f == fifo[p]
        <5>1. rzin \in Seq(Tokens) /\ f \in Seq(Tokens) /\ w \in Seq(Tokens)
          BY <1>1, <1>4
        <5> HIDE DEF f
        <5>2. (rzin \o f) \o w = rzin \o (f \o w)
          BY <5>1, Regrouped
        <5> QED BY <1>7, <5>2 DEF f
      <4>6. rzin' \o fifo'[p] = rzin \o t
        BY <1>8, <3>3
      <4> QED BY <1>11, <4>4, <4>5, <4>6 DEF FinLast
    <3> QED BY <1>2, <1>8, <2>7, <3>2, <3>3, <3>4, <3>5 DEF Clean
  <2>8. CASE head = "rz" /\ proc[p] = "zfin_save"
    <3>1. proc' = proc /\ n = 0 /\ Elements(s) \subseteq Text
      BY <2>2, <2>8
    <3>2. Sink(head, p) = "rzwrite"
      BY <1>11, <2>8 DEF Sink
    <3>3. Elements(savebuf') \subseteq Text
      BY <1>5, <1>6, <2>3, <3>1 DEF Clean
    <3>4. t = fifo[p]
      BY <1>4, <1>7, <2>5, <3>1, ConcatEmptySeq
    <3>5. FinLast'
      BY <1>8, <1>11, <2>8, <3>1, <3>2, <3>4 DEF Clean, FinLast
    <3>6. rz \in {"finished", "zombie"} => fifo'[p] = <<>> /\ rzin' = <<>>
      <4> SUFFICES ASSUME rz \in {"finished", "zombie"} PROVE fifo'[p] = <<>> /\ rzin' = <<>>
        OBVIOUS
      <4>1. fifo[p] = <<>> /\ rzin = <<>>
        BY <1>11 DEF Clean
      <4>3. rzin' \in Seq(Tokens) /\ fifo'[p] \in Seq(Tokens)
        <5>1. MemTyped'
          BY ReadTyped
        <5> QED BY <1>4, <5>1 DEF MemTyped
      <4>4. Elements(<<>>) = {}
        BY DEF Elements
      <4> QED BY <1>8, <3>2, <3>4, <4>1, <4>3, <4>4, ElementsAre
    <3> QED BY <1>2, <1>8, <1>11, <2>8, <3>1, <3>2, <3>3, <3>5, <3>6 DEF Clean
  <2> QED BY <1>4, <2>2, <2>6, <2>7, <2>8
<1> QED BY <1>4, <1>10, <1>11

LEMMA StartClean ==
  ASSUME Typed, LateLast, Followed, Children, NEW r, NEW i, Starts(r, i), pc \in {"dispatch", "reap"}
  PROVE  Children' /\ (Clean => Clean')
<1> DEFINE p == "master_output"
           s == SubSeq(inbox["master"], 1, r)
           rest == Suffix(s, i)
           n == Cut(p, "zfin_scan", rest)
           w == SubSeq(rest, 1, n)
           q == <<"start">> \o w
<1>1. /\ w \in Seq(Tokens) /\ Len(w) = n /\ <<"start">> \in Seq(Tokens) /\ q \in Seq(Tokens)
      /\ rest \in Seq(Tokens) /\ Len(rest) = r - i /\ n \in 0..r - i /\ r \in Nat /\ i \in 1..r
  BY StartFits DEF Typed
<1>2. Splits(rest, n, proc'[p], At + i)
  BY StartText
<1>3. /\ Moved(p, q, "rz", conn \union RzAtoms) /\ UNCHANGED <<pc, killed>>
      /\ head' = "rz" /\ rz' = "running" /\ savebuf' = Suffix(rest, n) /\ proc[p] = "zrq_scan"
  BY DEF Starts
<1>4. TypeOK /\ p \in Pipe /\ head \in {"echo", "rz"}
  BY DEF Typed, TypeOK, Pipe
<1>5. head = "echo" /\ rz = "none" /\ rzin = <<>>
  <2>1. Found(p) # "zrq_scan"
    BY DEF Found
  <2> QED BY <1>3, <1>4, <2>1 DEF LateLast
<1>6. Children'
  BY <1>3, <1>5 DEF Children
<1> HIDE DEF w, rest, n
<1>7. ASSUME Clean PROVE Clean'
  <2>1. Elements(savebuf') \subseteq Text
    <3>1. n = Len(rest) => Elements(Suffix(rest, n)) = {}
      BY <1>1, WholeParts
    <3> QED BY <1>2, <1>3, <3>1 DEF Splits
  <2>2. LastFin(q, proc'[p])
    <3>1. LastFin(<<"start">>, "zfin_scan")
      <4>1. Len(<<"start">>) = 1 /\ Elements(<<"start">>) = {"start"}
        BY OneElement
      <4> QED BY <4>1 DEF LastFin
    <3>2. /\ \A k \in 1..n : w[k] = rest[k]
          /\ Elements(rest) = Elements(w) \union Elements(Suffix(rest, n))
      <4>1. n \in 0..Len(rest)
        BY <1>1
      <4> QED BY <1>1, <4>1, Parts, PartElements DEF w
    <3>3. \A k \in 1..Len(w) - 1 : w[k] # "fin"
      <4>1. \A k \in 1..n - 1 : k \in 1..n
        BY <1>1
      <4> QED BY <1>1, <1>2, <3>2, <4>1 DEF Splits
    <3>4. proc'[p] = "zfin_scan" => "fin" \notin Elements(w)
      BY <1>2, <3>2 DEF Splits
    <3> QED BY <1>1, <3>1, <3>3, <3>4, LastFinAppended
  <2> HIDE DEF q
  <2>3. rzin' \o fifo'[p] = rzin \o q /\ shown' = shown
    <3>1. Sink("rz", p) = "rzwrite"
      BY DEF Sink
    <3> QED BY <1>1, <1>3, <1>4, <3>1, MovedElements
  <2>4. rzin \o q = q
    BY <1>1, <1>5, ConcatEmptySeq
  <2>5. FinLast'
    BY <2>2, <2>3, <2>4 DEF FinLast
  <2> QED BY <1>3, <1>7, <2>1, <2>3, <2>5 DEF Clean
<1> QED BY <1>6, <1>7

LEMMA WriteClean ==
  ASSUME Typed, LateLast, Clean, NEW p \in Pipe, Moved(p, fifo[p], head, conn), pc = "dispatch",
         UNCHANGED <<head, proc, savebuf, pc, rz, inbox, script>>
  PROVE  Clean'
<1> DEFINE m == "master_output"
           f == fifo[p]
<1>1. /\ f \in Seq(Tokens) /\ TypeOK /\ m \in Pipe /\ p \in {"input_master", m}
      /\ head \in {"echo", "rz"} /\ rzin \in Seq(Tokens)
  BY DEF Typed, TypeOK, Pipe
<1> HIDE DEF f
<1>2. /\ fifo' \in [Pipe -> Seq(Tokens)]
      /\ Elements(fifo'[p]) \subseteq Elements(f)
      /\ \A o \in Pipe : o # p => fifo'[o] = fifo[o]
      /\ Sink(head, p) # "rzwrite" => rzin' = rzin
      /\ Sink(head, p) = "rzwrite" => rzin' \o fifo'[p] = rzin \o f
                                      /\ Elements(rzin') \subseteq Elements(rzin) \union Elements(f)
      /\ Sink(head, p) # "stdout" => shown' = shown
      /\ Sink(head, p) = "stdout" => Elements(shown') \subseteq Elements(shown) \union Elements(f)
  <2>1. Moved(p, f, head, conn)
    BY DEF f
  <2> QED BY <1>1, <2>1, MovedElements
<1>3. At' = At /\ ~Leaving
  BY RestSame DEF Leaving
<1>4. CASE p = "input_master"
  <2>1. Sink(head, p) = "master"
    BY <1>4 DEF Sink
  <2>2. rzin' = rzin /\ fifo'[m] = fifo[m] /\ shown' = shown
    BY <1>1, <1>2, <1>4, <2>1
  <2> QED BY <1>3, <2>2 DEF Clean, FinLast
<1>5. CASE p = m /\ head = "echo"
  <2>1. Sink(head, p) = "stdout" /\ rz \notin {"finished", "zombie"}
    BY <1>5 DEF Sink, LateLast
  <2>2. Elements(f) \subseteq Text \union {"status"} /\ ~Within(At)
    BY <1>3, <1>5 DEF Clean, f
  <2> QED BY <1>2, <1>3, <1>5, <2>1, <2>2 DEF Clean
<1>6. CASE p = m /\ head = "rz"
  <2>1. Sink(head, p) = "rzwrite"
    BY <1>6 DEF Sink
  <2>2. FinLast'
    BY <1>2, <1>6, <2>1 DEF Clean, FinLast, f
  <2>3. rz \in {"finished", "zombie"} => fifo'[m] = <<>> /\ rzin' = <<>>
    <3> SUFFICES ASSUME rz \in {"finished", "zombie"} PROVE fifo'[m] = <<>> /\ rzin' = <<>>
      OBVIOUS
    <3>1. f = <<>> /\ rzin = <<>> /\ Elements(<<>>) = {}
      BY <1>6 DEF Clean, Elements, f
    <3>2. Elements(fifo'[m]) = {} /\ Elements(rzin') = {}
      BY <1>2, <1>6, <2>1, <3>1
    <3>3. fifo'[m] \in Seq(Tokens) /\ rzin' \in Seq(Tokens)
      <4>1. PICK n \in 0..Len(f) : Deliver(Sink(head, p), SubSeq(f, 1, n))
        BY DEF Moved, f
      <4>2. rzin' = rzin \o SubSeq(f, 1, n) /\ SubSeq(f, 1, n) \in Seq(Tokens)
        BY <1>1, <2>1, <4>1, Parts DEF Deliver
      <4> QED BY <1>1, <1>2, <4>2, Joined
    <3> QED BY <3>2, <3>3, ElementsAre
  <2> QED BY <1>2, <1>6, <2>1, <2>2, <2>3 DEF Clean
<1> QED BY <1>1, <1>4, <1>5, <1>6

LEMMA AutoReadCleanly ==
  ASSUME Typed, LateLast, Followed, Cleanly, NEW p \in Pipe, pipe_auto_read(p), pc \in {"dispatch", "reap"}
  PROVE  Cleanly'
<1>1. ASSUME NEW how \in {"full before read", "bailed"}, End(how) PROVE Cleanly'
  <2>1. UNCHANGED <<head, fifo, proc, savebuf, shown, rzin, rz, killed, crashed>> /\ pc' = how /\ At' = At
    BY <1>1, RestSame DEF End, structs, outside, history, children
  <2>2. ~Leaving /\ ~Leaving'
    BY <1>1, <2>1 DEF Leaving
  <2> QED BY <1>1, <2>1, <2>2 DEF Cleanly, Children, Clean, FinLast
<1>2. ASSUME NEW r \in Nat, Reads(p, r) PROVE Cleanly'
  BY <1>2, ReadChildren, ReadClean DEF Cleanly, Reads
<1>3. ASSUME NEW r \in Nat, NEW i \in Nat, Starts(r, i) PROVE Cleanly'
  BY <1>3, StartClean DEF Cleanly, Starts
<1> QED BY <1>1, <1>2, <1>3, AutoReadIs DEF Typed

LEMMA AutoWriteCleanly ==
  ASSUME Typed, LateLast, Cleanly, NEW p \in Pipe, pipe_auto_write(p), pc = "dispatch"
  PROVE  Cleanly'
<1>1. ASSUME End("full after write") PROVE Cleanly'
  <2>1. /\ UNCHANGED <<head, fifo, proc, savebuf, shown, rzin, rz, killed, crashed>>
        /\ pc' = "full after write" /\ At' = At
    BY <1>1, RestSame DEF End, structs, outside, history, children
  <2>2. ~Leaving /\ ~Leaving'
    BY <1>1, <2>1 DEF Leaving
  <2> QED BY <1>1, <2>1, <2>2 DEF Cleanly, Children, Clean, FinLast
<1>2. ASSUME Moved(p, fifo[p], head, conn),
             UNCHANGED <<head, proc, savebuf, pc, children, script, typed, inbox,
                         astray, dropped, crashed>>
      PROVE  Cleanly'
  <2>1. UNCHANGED <<rz, killed>>
    BY <1>2 DEF children
  <2>2. Children'
    BY <1>2, <2>1 DEF Cleanly, Children
  <2>3. Clean => Clean'
    BY <1>2, <2>1, WriteClean
  <2> QED BY <1>2, <2>2, <2>3 DEF Cleanly
<1> QED BY <1>1, <1>2, WriteMoves DEF Typed

LEMMA PutsElements ==
  ASSUME Typed, NEW s \in Seq(Tokens), NEW n \in Nat, NEW m \in Nat, Puts(s, n, m)
  PROVE  /\ Elements(shown') \subseteq Elements(shown) \union Elements(s)
         /\ Elements(fifo'["master_output"]) \subseteq Elements(fifo["master_output"]) \union Elements(s)
<1> DEFINE f == fifo["master_output"]
           a == SubSeq(s, 1, n)
           b == SubSeq(s, n + 1, n + m)
<1>1. n \in 0..Len(s) /\ m \in 0..Len(s) - n
  BY DEF Puts
<1>2. /\ a \in Seq(Tokens) /\ Elements(a) \subseteq Elements(s)
      /\ b \in Seq(Tokens) /\ Elements(b) \subseteq Elements(s)
  <2>1. a \in Seq(Tokens)
    BY <1>1, Parts
  <2>2. Elements(s) = Elements(a) \union Elements(Suffix(s, n))
    BY <1>1, PartElements
  <2>3. b \in Seq(Tokens) /\ Elements(b) \subseteq Elements(s)
    BY <1>1, MiddleIs
  <2> HIDE DEF a, b
  <2> QED BY <2>1, <2>2, <2>3
<1>3. f \in Seq(Tokens) /\ shown \in Seq(Tokens) /\ shown' = shown \o a /\ fifo'["master_output"] = f \o b
  BY DEF Puts, Deliver, Typed, TypeOK, Pipe
<1> HIDE DEF a, b, f
<1>4. /\ Elements(shown \o a) = Elements(shown) \union Elements(a)
      /\ Elements(f \o b) = Elements(f) \union Elements(b)
  BY <1>2, <1>3, JoinedElements
<1> QED BY <1>2, <1>3, <1>4 DEF f

LEMMA InitCleanly == Init => Cleanly
<1> SUFFICES ASSUME Init PROVE Cleanly
  OBVIOUS
<1>1. DOMAIN <<>> = {} /\ Elements(<<>>) = {}
  BY DEF Elements
<1>2. inbox["master"] = <<>> /\ script = Script /\ Script \in Seq(Tokens) /\ Len(Script) \in Nat
  BY ScriptIs DEF Init
<1>3. Rest = Script
  BY <1>2 DEF Rest
<1>4. At = 0
  BY <1>2, <1>3 DEF At
<1>5. ~Within(At)
  BY <1>4 DEF Within
<1>6. fifo["master_output"] = <<>>
  BY DEF Init, Pipe
<1> QED BY <1>1, <1>5, <1>6 DEF Init, Cleanly, Children, Clean

LEMMA LoopCleanly ==
  ASSUME Typed, LateLast, Followed, Cleanly, Loop
  PROVE  Cleanly'
<1>0. ASSUME inbox'["master"] = inbox["master"], script' = script, Leaving => Leaving',
             fifo'["master_output"] = fifo["master_output"],
             UNCHANGED <<head, proc, savebuf, shown, rzin, rz, crashed>>
      PROVE  crashed' = crashed /\ (Clean => Clean')
  <2>1. At' = At
    BY <1>0, RestSame
  <2> QED BY <1>0, <2>1 DEF Clean, FinLast
<1>1. CASE master_idle
  <2>1. Children'
    BY <1>1 DEF master_idle, RemoveAll, structs, children, Cleanly, Children, Ending, select
  <2> QED BY <1>0, <1>1, <2>1 DEF master_idle, structs, outside, history, children, Leaving, Cleanly
<1>2. CASE io_wait
  <2>1. Children'
    BY <1>2 DEF io_wait, structs, children, Cleanly, Children
  <2> QED BY <1>0, <1>2, <2>1 DEF io_wait, structs, outside, history, children, Leaving, Cleanly
<1>3. ASSUME NEW a \in Atom, DispatchRead(a) PROVE Cleanly'
  <2>1. (IF a = "master" THEN "master_output" ELSE "input_master") \in Pipe
    BY DEF Pipe
  <2>2. pc \in {"dispatch", "reap"}
    BY <1>3 DEF DispatchRead, Turn
  <2> QED BY <1>3, <2>1, <2>2, AutoReadCleanly DEF DispatchRead
<1>4. ASSUME NEW a \in Atom, DispatchWrite(a) PROVE Cleanly'
  <2>1. (IF a = "master" THEN "input_master" ELSE "master_output") \in Pipe /\ pc = "dispatch"
    BY <1>4 DEF Pipe, DispatchWrite, Turn
  <2> QED BY <1>4, <2>1, AutoWriteCleanly DEF DispatchWrite
<1>5. ASSUME NEW a \in Atom, DispatchStale(a) PROVE Cleanly'
  <2>1. Children' /\ ~Leaving
    BY <1>5 DEF DispatchStale, Turn, structs, children, Cleanly, Children, Leaving
  <2> QED BY <1>0, <1>5, <2>1 DEF DispatchStale, structs, outside, history, children, Cleanly
<1>6. CASE typing_io_proc
  <2>1. PICK r \in 1..Len(inbox["stdin"]) :
          /\ Took("stdin", r)
          /\ killed' = IF "cancel" \in Elements(SubSeq(inbox["stdin"], 1, r))
                       THEN KilledFor("user") ELSE killed
    BY <1>6 DEF typing_io_proc
  <2>2. inbox'["master"] = inbox["master"]
    BY <2>1 DEF Took, Typed, TypeOK
  <2>3. killed' = "zfin" => killed = "zfin"
    BY <2>1 DEF KilledFor
  <2>4. UNCHANGED <<head, proc, fifo, savebuf, shown, rzin, rz, crashed, script, pc>> /\ pc = "dispatch"
    BY <1>6 DEF typing_io_proc, Turn, structs, history
  <2>5. Children' /\ ~Leaving
    BY <2>3, <2>4 DEF Cleanly, Children, Leaving
  <2> QED BY <1>0, <2>2, <2>4, <2>5 DEF Cleanly
<1>7. CASE master_check_sigchild
  <2>1. Children' /\ ~Leaving
    BY <1>7 DEF master_check_sigchild, RemoveAll, structs, Cleanly, Children, Leaving, Ending
  <2> QED BY <1>0, <1>7, <2>1 DEF master_check_sigchild, structs, outside, history, Cleanly
<1>8. CASE task_default_sigchild
  <2>1. "input_master" \in Pipe /\ pc \in {"dispatch", "reap"}
    BY <1>8 DEF Pipe, task_default_sigchild
  <2> QED BY <1>8, <2>1, AutoReadCleanly DEF task_default_sigchild
<1>9. CASE fifo_write
  <2> DEFINE q == fifo["input_master"]
  <2>1. PICK n \in 0..Len(q) :
          /\ fifo' = [fifo EXCEPT !["input_master"] = Suffix(q, n)]
          /\ Deliver("master", SubSeq(q, 1, n))
    BY <1>9, ReapWriteIs DEF Typed
  <2>2. fifo'["master_output"] = fifo["master_output"] /\ rzin' = rzin /\ shown' = shown
    BY <2>1 DEF Deliver, Typed, TypeOK, Pipe
  <2>3. Children' /\ ~Leaving
    BY <1>9 DEF fifo_write, children, Cleanly, Children, Leaving
  <2> QED BY <1>0, <1>9, <2>2, <2>3 DEF fifo_write, children, Cleanly
<1>10. CASE task_remove
  <2>1. /\ pc = "remove" /\ head' = "echo" /\ rz' = "none" /\ killed' = "no"
        /\ pc' \in {"restore", "idle_end"} /\ UNCHANGED <<fifo, savebuf, shell, script, shown, crashed>>
        /\ inbox'["master"] = inbox["master"] /\ conn' = conn \ RzAtoms
    BY <1>10 DEF task_remove, AfterRemove, history, Typed, TypeOK
  <2>2. Children'
    BY <2>1 DEF Children
  <2>3. At' = At
    BY <2>1, RestSame
  <2>4. ASSUME Clean, ~Leaving'
        PROVE  Elements(fifo["master_output"]) \subseteq Text \union {"status"} /\ ~Within(At)
    <3>1. ~Ending
      <4>1. Ending => Ending'
        BY <2>1 DEF Ending, RzAtoms
      <4> QED BY <2>1, <2>4, <4>1 DEF Leaving
    <3>2. rz = "zombie"
      BY <2>1, <3>1 DEF Cleanly, Children
    <3>3. fifo["master_output"] = <<>> /\ proc["master_output"] = "zfin_save"
      BY <2>4, <3>2 DEF Clean
    <3>4. Past(At)
      BY <3>3 DEF Followed
    <3>5. At \in 0..Len(Script)
      <4>1. At \in Nat /\ Len(Script) \in Nat /\ At + Len(Rest) = Len(Script) /\ Len(Rest) \in Nat
        BY RestIs, ScriptIs DEF Followed, Typed
      <4> QED BY <4>1
    <3>6. ~Within(At)
      BY <3>4, <3>5, TextAfter
    <3>7. Elements(<<>>) = {}
      BY DEF Elements
    <3> QED BY <3>3, <3>6, <3>7
  <2> QED BY <2>1, <2>2, <2>3, <2>4 DEF Cleanly, Clean
<1>11. CASE idle_end
  <2>1. <<"status">> \in Seq(Tokens) /\ <<"status">> # <<>> /\ Elements(<<"status">>) = {"status"}
    BY OneElement DEF Tokens
  <2>2. PICK n \in Nat, m \in Nat : Puts(<<"status">>, n, m)
    BY <1>11, <2>1, PipeWriteIs DEF idle_end, Typed
  <2>3. /\ Elements(shown') \subseteq Elements(shown) \union {"status"}
        /\ Elements(fifo'["master_output"]) \subseteq Elements(fifo["master_output"]) \union {"status"}
    BY <2>1, <2>2, PutsElements
  <2>4. /\ pc = "idle_end" /\ pc' = "restore" /\ head = "echo" /\ At' = At
        /\ UNCHANGED <<head, proc, savebuf, conn, shell, rz, killed, crashed>>
    BY <1>11, RestSame DEF idle_end, children, Followed
  <2>5. rz = "none"
    BY <2>4 DEF LateLast
  <2>6. Leaving => Leaving'
    BY <2>4 DEF Leaving, Ending
  <2>7. Children'
    BY <2>4 DEF Cleanly, Children
  <2> QED BY <2>3, <2>4, <2>5, <2>6, <2>7 DEF Cleanly, Clean
<1>12. CASE rzt_destructor_proc
  <2>1. /\ Elements(shown') \subseteq Elements(shown) \union Elements(savebuf)
        /\ Elements(fifo'["master_output"]) \subseteq Elements(fifo["master_output"]) \union Elements(savebuf)
    <3>1. CASE savebuf = <<>>
      BY <1>12, <3>1 DEF rzt_destructor_proc
    <3>2. CASE savebuf # <<>>
      <4>1. savebuf \in Seq(Tokens)
        BY DEF Typed, TypeOK
      <4>2. PICK n \in Nat, m \in Nat : Puts(savebuf, n, m)
        BY <1>12, <3>2, <4>1, PipeWriteIs DEF rzt_destructor_proc, Typed
      <4> QED BY <4>1, <4>2, PutsElements
    <3> QED BY <3>1, <3>2
  <2>2. /\ pc = "restore" /\ pc' = (IF Ending THEN "exited" ELSE "wait") /\ head = "echo" /\ At' = At
        /\ savebuf' = <<>> /\ UNCHANGED <<head, proc, conn, shell, rz, killed, crashed>>
    BY <1>12, RestSame DEF rzt_destructor_proc, Followed
  <2>3. rz = "none" /\ Elements(<<>>) = {}
    BY <2>2 DEF LateLast, Elements
  <2>4. Leaving => Leaving'
    BY <2>2 DEF Leaving, Ending
  <2>5. Children'
    BY <2>2 DEF Cleanly, Children
  <2> QED BY <2>1, <2>2, <2>3, <2>4, <2>5 DEF Cleanly, Clean
<1> QED BY <1>1, <1>2, <1>3, <1>4, <1>5, <1>6, <1>7, <1>8, <1>9, <1>10, <1>11, <1>12
        DEF Loop, Dispatch

LEMMA EnvironmentCleanly ==
  ASSUME Typed, LateLast, Followed, Cleanly, Environment
  PROVE  Cleanly'
<1>0. ASSUME At' = At, UNCHANGED <<pc, head, proc, fifo, savebuf, shown, rzin, rz, conn, killed, crashed>>,
             shell' = shell \/ (shell = "running" /\ shell' = "zombie")
      PROVE  Cleanly'
  <2>1. Ending' = Ending /\ Leaving' = Leaving
    BY <1>0 DEF Ending, Leaving
  <2> QED BY <1>0, <2>1 DEF Cleanly, Children, Clean, FinLast
<1>1. CASE ShellPrint
  <2>1. At' = At
    BY <1>1, RestPrinted
  <2> QED BY <1>0, <1>1, <2>1 DEF ShellPrint, structs, select, children, history
<1>2. CASE ShellExit
  <2>1. At' = At
    BY <1>2, RestSame DEF ShellExit, outside
  <2> QED BY <1>0, <1>2, <2>1 DEF ShellExit, structs, select, outside, history
<1>3. CASE RzRead
  <2> DEFINE f == fifo["master_output"]
             pr == proc["master_output"]
  <2>1. /\ rz = "running" /\ rzin # <<>> /\ rzin \in Seq(Tokens) /\ rzin' = Tail(rzin)
        /\ rz' = (IF Head(rzin) = "fin" THEN "finished" ELSE rz)
        /\ inbox'["master"] = inbox["master"] /\ f \in Seq(Tokens)
        /\ UNCHANGED <<pc, head, proc, fifo, savebuf, shown, conn, shell, killed, crashed, script>>
    BY <1>3 DEF RzRead, structs, select, history, Typed, TypeOK, Pipe
  <2>2. At' = At /\ head = "rz"
    BY <2>1, RestSame DEF LateLast, Typed, TypeOK
  <2>3. Ending' = Ending /\ Leaving' = Leaving
    BY <2>1 DEF Ending, Leaving
  <2>4. Children'
    BY <2>1, <2>3 DEF Cleanly, Children
  <2>5. ASSUME Clean PROVE Clean'
    <3>1. LastFin(rzin \o f, pr)
      BY <2>2, <2>5 DEF Clean, FinLast
    <3> HIDE DEF f, pr
    <3>2. LastFin(Tail(rzin) \o f, pr) /\ (Head(rzin) = "fin" => Tail(rzin) = <<>> /\ f = <<>> /\ pr # "zfin_scan")
      BY <2>1, <3>1, LastFinTail
    <3>3. FinLast'
      BY <2>1, <3>2 DEF FinLast, f, pr
    <3>4. pr # "zfin_scan" => pr = "zfin_save"
      <4>1. "master_output" \in Pipe /\ Found("master_output") = "zfin_save"
        BY DEF Pipe, Found
      <4> QED BY <2>2, <4>1 DEF LateLast, pr
    <3>5. rz' \in {"finished", "zombie"} => f = <<>> /\ rzin' = <<>> /\ pr = "zfin_save"
      BY <2>1, <3>2, <3>4
    <3> QED BY <2>1, <2>2, <2>5, <3>3, <3>5 DEF Clean, f, pr
  <2> QED BY <2>1, <2>4, <2>5 DEF Cleanly
<1>4. CASE RzSpeaks
  <2>1. inbox'["master"] = inbox["master"] /\ script' = script
    BY <1>4 DEF RzSpeaks, Typed, TypeOK
  <2>2. At' = At
    BY <2>1, RestSame
  <2> QED BY <1>0, <1>4, <2>2 DEF RzSpeaks, structs, select, children, history
<1>5. CASE RzExit
  <2>1. /\ rz' = "zombie" /\ At' = At /\ rz \in {"finished", "running"}
        /\ crashed' = (crashed \/ (rz = "running" /\ killed # "zfin"))
        /\ UNCHANGED <<pc, head, proc, fifo, savebuf, shown, rzin, conn, shell, killed, script>>
    BY <1>5, RestSame DEF RzExit, structs, select, outside
  <2>2. Ending' = Ending /\ Leaving' = Leaving
    BY <2>1 DEF Ending, Leaving
  <2>3. Children'
    BY <2>1, <2>2 DEF Cleanly, Children
  <2>4. ASSUME ~crashed' PROVE Clean'
    <3>1. ~crashed /\ rz = "finished"
      BY <2>1, <2>4 DEF Cleanly, Children
    <3> QED BY <2>1, <2>2, <3>1 DEF Cleanly, Clean, FinLast
  <2> QED BY <2>3, <2>4 DEF Cleanly
<1>6. CASE UserTypes
  <2>1. inbox'["master"] = inbox["master"] /\ script' = script
    BY <1>6 DEF UserTypes, Typed, TypeOK
  <2>2. At' = At
    BY <2>1, RestSame
  <2> QED BY <1>0, <1>6, <2>2 DEF UserTypes, structs, select, children, history
<1>7. ASSUME NEW a \in {"stdout", "master"}, Consume(a) PROVE Cleanly'
  <2>1. At' = At
    BY <1>7, RestSame DEF Consume
  <2> QED BY <1>0, <1>7, <2>1 DEF Consume, structs, select, children, history
<1> QED BY <1>1, <1>2, <1>3, <1>4, <1>5, <1>6, <1>7 DEF Environment

LEMMA NextCleanly == Typed /\ LateLast /\ Followed /\ Cleanly /\ [Next]_vars => Cleanly'
<1> SUFFICES ASSUME Typed, LateLast, Followed, Cleanly, [Next]_vars PROVE Cleanly'
  OBVIOUS
<1>1. CASE UNCHANGED vars
  <2>1. UNCHANGED <<pc, head, proc, fifo, savebuf, shown, rzin, rz, conn, killed, crashed, shell>> /\ At' = At
    BY <1>1, RestSame DEF vars, structs, select, outside, history, children
  <2>2. Ending' = Ending /\ Leaving' = Leaving
    BY <2>1 DEF Ending, Leaving
  <2> QED BY <2>1, <2>2 DEF Cleanly, Children, Clean, FinLast
<1> QED BY <1>1, LoopCleanly, EnvironmentCleanly DEF Next

(***************************************************************************)
(* No part of a transfer is shown to the user, unless rz died or was       *)
(* cancelled before it had its ZFIN: when its task is removed the pipe     *)
(* holds nothing that was meant for it (zfin.c:12).                        *)
(***************************************************************************)
THEOREM SessionCleanTerminal == Spec => []CleanTerminal
<1>1. Spec => [](Typed /\ LateLast /\ Followed /\ Cleanly)
  BY InitTyped, NextTyped, InitLate, NextLate, InitFollowed, NextFollowed, InitCleanly, NextCleanly,
     PTL DEF Spec
<1>2. Cleanly => CleanTerminal
  BY DEF Cleanly, Clean, CleanTerminal
<1> QED BY <1>1, <1>2, PTL

-----------------------------------------------------------------------------
(***************************************************************************)
(* Who is watched: what waits in a fifo is announced for its sink, but for *)
(* the output that the splice left behind when rz's task is removed; a     *)
(* source is not watched only because its fifo is full.                    *)
(***************************************************************************)
Awaits(p) == fifo[p] # <<>> /\ Sink(head, p) \in conn => Sink(head, p) \in fd_write
Resumes(p) == Source(head, p) \in conn \ fd_read => block_read[p] /\ fifo_avail(p) = 0

Notified ==
  Running => /\ \A p \in Pipe : Resumes(p)
             /\ Awaits("input_master")
             /\ (pc = "idle_end" \/ Awaits("master_output"))

\* What AfterRead does to whom is watched, and when it leaves room in the fifo.
LEMMA AfterReadEffect ==
  ASSUME TypeOK, NEW p \in Pipe, NEW q \in Seq(Tokens), Len(q) <= Capacity, NEW h,
         NEW c, NEW fr, NEW b \in [Pipe -> BOOLEAN], AfterRead(p, q, h, c, fr, b)
  PROVE  /\ \A o \in Pipe : o # p => fifo'[o] = fifo[o] /\ block_read'[o] = b[o]
         /\ conn' \subseteq c
         /\ fd_write' \subseteq fd_write \union {Sink(h, p)} /\ fd_write \intersect conn' \subseteq fd_write'
         /\ fifo'[p] # <<>> /\ Sink(h, p) \in conn' => Sink(h, p) \in fd_write'
         /\ fd_read' = (IF Full(fifo'[p]) THEN fr \ {Source(h, p)} ELSE fr) \intersect conn'
         /\ Full(fifo'[p]) => block_read'[p]
         /\ \A o \in Sinks \ {Sink(h, p)} : RoomIn(o)' = RoomIn(o)
         /\ RoomIn(Sink(h, p)) > 0 /\ Sink(h, p) \in c /\ ~Broken(Sink(h, p)) => ~Full(fifo'[p])
<1> DEFINE a == Sink(h, p)
<1>1. a \in Sinks /\ RoomIn(a) \in Nat /\ Len(q) \in Nat /\ Capacity \in Nat \ {0}
  BY EndsAre, RoomIs, ElementsAre, SessionAssumption
<1>2. PICK k \in Answers(c, a, q) :
        LET left == Suffix(q, Positive(k))
            full == Full(left)
        IN  /\ fifo' = [fifo EXCEPT ![p] = left]
            /\ Deliver(a, SubSeq(q, 1, Positive(k)))
            /\ conn' = IF k = Epipe THEN c \ {a} ELSE c
            /\ fd_write' = (IF left = <<>> THEN fd_write ELSE fd_write \union {a}) \intersect conn'
            /\ fd_read' = (IF full THEN fr \ {Source(h, p)} ELSE fr) \intersect conn'
            /\ block_read' = [b EXCEPT ![p] = @ \/ full]
  BY DEF AfterRead, Answers
<1> DEFINE left == Suffix(q, Positive(k))
<1>3. Positive(k) \in 0..Len(q) /\ Positive(k) <= RoomIn(a)
  <2> HIDE DEF a
  <2> QED BY <1>1, <1>2, WrittenIs
<1>4. left \in Seq(Tokens) /\ Len(left) = Len(q) - Positive(k)
  BY <1>3, Parts
<1>5. /\ fifo' = [fifo EXCEPT ![p] = left] /\ fifo'[p] = left
      /\ Deliver(a, SubSeq(q, 1, Positive(k)))
      /\ conn' = IF k = Epipe THEN c \ {a} ELSE c
      /\ fd_write' = (IF left = <<>> THEN fd_write ELSE fd_write \union {a}) \intersect conn'
      /\ fd_read' = (IF Full(left) THEN fr \ {Source(h, p)} ELSE fr) \intersect conn'
      /\ block_read' = [b EXCEPT ![p] = @ \/ Full(left)]
  BY <1>2 DEF TypeOK
<1>6. RoomIn(a) > 0 /\ a \in c /\ ~Broken(a) => ~Full(left)
  <2> SUFFICES ASSUME RoomIn(a) > 0, a \in c, ~Broken(a) PROVE ~Full(left)
    OBVIOUS
  <2>1. CASE q = <<>>
    BY <1>1, <1>4, <1>3, <2>1, EmptySeq DEF Full
  <2>2. CASE q # <<>>
    <3>1. Len(q) > 0
      BY <1>1, <2>2, EmptySeq
    <3>2. k \in 1..Least(Len(q), RoomIn(a))
      BY <1>2, <2>2 DEF Answers, WriteResults
    <3>3. Positive(k) > 0
      BY <3>1, <3>2, <1>1 DEF Positive, Least
    <3> QED BY <1>1, <1>3, <1>4, <3>3 DEF Full
  <2> QED BY <2>1, <2>2
<1>7. \A o \in Sinks \ {a} : RoomIn(o)' = RoomIn(o)
  BY <1>1, <1>5 DEF Deliver, RoomIn, Sinks, TypeOK
<1>8. \A o \in Pipe : o # p => fifo'[o] = fifo[o] /\ block_read'[o] = b[o]
  BY <1>5 DEF TypeOK
<1>9. Full(left) => block_read'[p]
  BY <1>5
<1> HIDE DEF left, a
<1>10. conn' \subseteq c
       /\ fd_write' \subseteq fd_write \union {a} /\ fd_write \intersect conn' \subseteq fd_write'
       /\ (left # <<>> /\ a \in conn' => a \in fd_write')
  BY <1>5
<1> QED BY <1>5, <1>6, <1>7, <1>8, <1>9, <1>10 DEF a

\* What a read leaves to AfterRead: a read that has no room for a byte closes its source.
LEMMA ReadParts ==
  ASSUME TypeOK, NEW p \in Pipe, ReadData(p)
  PROVE  /\ \E q \in Seq(Tokens), c \in {conn, conn \ {Source(head, p)}} :
              /\ Len(q) <= Capacity
              /\ AfterRead(p, q, head, c, fd_read, block_read)
              /\ fifo_avail(p) = 0 => c = conn \ {Source(head, p)}
         /\ UNCHANGED <<head, pc, rz, shell, script, typed>>
<1> DEFINE a == Source(head, p)
<1>1. a \in {"stdin", "master", "rzread"} /\ fifo_avail(p) \in Nat /\ Len(fifo[p]) \in Nat
      /\ fifo_avail(p) = Capacity - Len(fifo[p]) /\ fifo[p] \in Seq(Tokens)
  BY EndsAre, AvailIs DEF TypeOK
<1>2. PICK r \in ReadResults(a, fifo_avail(p)) :
        LET s == SubSeq(inbox[a], 1, Positive(r))
            n == Cut(p, proc[p], s)
        IN  /\ AfterRead(p, fifo[p] \o SubSeq(s, 1, n), head,
                         IF r = 0 THEN conn \ {a} ELSE conn, fd_read, block_read)
            /\ UNCHANGED <<head, pc, rz, shell, script, typed>>
  BY DEF ReadData
<1> DEFINE k == Positive(r)
           s == SubSeq(inbox[a], 1, k)
           n == Cut(p, proc[p], s)
           q == fifo[p] \o SubSeq(s, 1, n)
           c == IF r = 0 THEN conn \ {a} ELSE conn
<1>3. k \in 0..Len(inbox[a]) /\ k <= fifo_avail(p)
  BY <1>1, ReadResultsAre
<1>4. Len(inbox[a]) \in Nat /\ Capacity \in Nat
  BY <1>1, ElementsAre, SessionAssumption DEF TypeOK
<1>5. q \in Seq(Tokens) /\ Len(q) <= Capacity
  <2>1. s \in Seq(Tokens) /\ Len(s) = k
    <3>1. inbox[a] \in Seq(Tokens)
      BY <1>1 DEF TypeOK
    <3> HIDE DEF a, k
    <3> QED BY <1>3, <3>1, Parts
  <2>2. n \in 0..Len(s)
    BY <2>1, CutIs
  <2>3. SubSeq(s, 1, n) \in Seq(Tokens) /\ Len(SubSeq(s, 1, n)) = n
    BY <2>1, <2>2, Parts
  <2>4. q \in Seq(Tokens) /\ Len(q) = Len(fifo[p]) + n
    <3> DEFINE t == SubSeq(s, 1, n)
               f == fifo[p]
    <3>1. t \in Seq(Tokens) /\ f \in Seq(Tokens) /\ Len(t) = n
      BY <1>1, <2>3
    <3> HIDE DEF t, f, n
    <3>2. f \o t \in Seq(Tokens) /\ Len(f \o t) = Len(f) + n
      BY <3>1, Joined
    <3> QED BY <3>2 DEF f, t
  <2> HIDE DEF q, n, s, k, a
  <2> QED BY <1>1, <1>3, <1>4, <2>1, <2>2, <2>4
<1>6. fifo_avail(p) = 0 => c = conn \ {a}
  BY <1>2 DEF ReadResults
<1>7. AfterRead(p, q, head, c, fd_read, block_read) /\ c \in {conn, conn \ {a}}
  BY <1>2
<1> HIDE DEF q, c
<1> QED BY <1>2, <1>5, <1>6, <1>7

LEMMA StartParts ==
  ASSUME TypeOK, ReadStart, ~End("bailed")
  PROVE  /\ \E q \in Seq(Tokens) :
              /\ Len(q) <= Capacity
              /\ AfterRead("master_output", q, "rz", conn \union RzAtoms,
                           fd_read \union {"rzread"} \union StdinOpen,
                           [block_read EXCEPT !["input_master"] = FALSE])
         /\ head' = "rz" /\ rz' = "running" /\ proc["master_output"] = "zrq_scan"
         /\ fifo_avail("master_output") > 0
         /\ UNCHANGED <<pc, shell, script, typed>>
<1>1. PICK r \in 1..Least(fifo_avail("master_output"), Len(inbox["master"])) :
        LET s == SubSeq(inbox["master"], 1, r)
            i == Place(s, "start")
            rest == Suffix(s, i)
            n == Cut("master_output", "zfin_scan", rest)
        IN  /\ proc["master_output"] = "zrq_scan" /\ i > 0
            /\ head' = "rz" /\ rz' = "running"
            /\ AfterRead("master_output", <<"start">> \o SubSeq(rest, 1, n), "rz", conn \union RzAtoms,
                         fd_read \union {"rzread"} \union StdinOpen,
                         [block_read EXCEPT !["input_master"] = FALSE])
            /\ UNCHANGED <<pc, shell, script, typed>>
  BY DEF ReadStart
<1> DEFINE s == SubSeq(inbox["master"], 1, r)
           i == Place(s, "start")
           rest == Suffix(s, i)
           n == Cut("master_output", "zfin_scan", rest)
           q == <<"start">> \o SubSeq(rest, 1, n)
<1>2. /\ fifo_avail("master_output") \in Nat /\ fifo_avail("master_output") <= Capacity /\ Capacity \in Nat
      /\ inbox["master"] \in Seq(Tokens) /\ Len(inbox["master"]) \in Nat
  BY SMTT(30), AvailIs, ElementsAre, SessionAssumption DEF TypeOK, Pipe
<1>3. r \in 1..Len(inbox["master"]) /\ r <= Capacity /\ r \in Nat /\ fifo_avail("master_output") > 0
  BY <1>2 DEF Least
<1>4. s \in Seq(Tokens) /\ Len(s) = r
  BY <1>2, <1>3, Parts
<1>5. i \in 1..r /\ "start" \in Tokens
  <2>1. i > 0
    BY <1>1
  <2> HIDE DEF s
  <2> QED BY <1>3, <1>4, <2>1, PlaceIs, ElementsAre
<1>6. rest \in Seq(Tokens) /\ Len(rest) = r - i
  <2>1. i \in 0..Len(s)
    BY <1>3, <1>4, <1>5
  <2> HIDE DEF s, i
  <2> QED BY <1>4, <2>1, Parts
<1>7. q \in Seq(Tokens) /\ Len(q) <= Capacity
  <2>1. n \in 0..Len(rest)
    BY <1>6, CutIs
  <2>2. SubSeq(rest, 1, n) \in Seq(Tokens) /\ Len(SubSeq(rest, 1, n)) = n
    BY <1>6, <2>1, Parts
  <2>3. <<"start">> \in Seq(Tokens) /\ Len(<<"start">>) = 1
    BY <1>5
  <2>4. q \in Seq(Tokens) /\ Len(q) = 1 + n
    BY <2>2, <2>3, Joined
  <2> HIDE DEF q, n, rest, i, s
  <2> QED BY <1>2, <1>3, <1>5, <1>6, <2>1, <2>4
<1> HIDE DEF s
<1>8. AfterRead("master_output", q, "rz", conn \union RzAtoms, fd_read \union {"rzread"} \union StdinOpen,
                [block_read EXCEPT !["input_master"] = FALSE])
  BY <1>1 DEF s
<1> HIDE DEF q
<1> QED BY <1>1, <1>3, <1>7, <1>8

\* What is left of a fifo that was not full is not full.
LEMMA PartIsShorter ==
  ASSUME NEW q \in Seq(Tokens), Len(q) <= Capacity, NEW n \in 0..Len(q)
  PROVE  (Full(Suffix(q, n)) => Full(q)) /\ (Suffix(q, n) # <<>> => q # <<>>)
<1> DEFINE left == Suffix(q, n)
<1>1. left \in Seq(Tokens) /\ Len(left) = Len(q) - n
  BY Parts
<1> HIDE DEF left
<1>2. Len(q) \in Nat /\ Capacity \in Nat
  BY ElementsAre, SessionAssumption
<1>3. Full(left) => Full(q)
  BY <1>1, <1>2 DEF Full
<1>4. (left = <<>> <=> Len(left) = 0) /\ (q = <<>> <=> Len(q) = 0)
  BY <1>1, EmptySeq
<1>5. left # <<>> => q # <<>>
  BY <1>1, <1>2, <1>4
<1> QED BY <1>3, <1>5 DEF left

\* What a write does to whom is watched, and when it leaves room in the fifo.
LEMMA WriteEffect ==
  ASSUME TypeOK, NEW p \in Pipe, pipe_auto_write(p), pc' # "full after write", pc # "full after write"
  PROVE  /\ \A o \in Pipe : o # p => fifo'[o] = fifo[o] /\ block_read'[o] = block_read[o]
         /\ conn' \subseteq conn
         /\ fd_write' \subseteq fd_write /\ (fd_write \intersect conn') \ {Sink(head, p)} \subseteq fd_write'
         /\ fifo'[p] # <<>> => fifo[p] # <<>> /\ fd_write \intersect conn' \subseteq fd_write'
         /\ fd_read \intersect conn' \subseteq fd_read' /\ fd_read' \subseteq fd_read \union {Source(head, p)}
         /\ Source(head, p) \in conn' /\ block_read[p] => Source(head, p) \in fd_read'
         /\ Source(head, p) \notin fd_read /\ ~block_read[p] => Source(head, p) \notin fd_read'
         /\ \A o \in Sinks \ {Sink(head, p)} : RoomIn(o)' = RoomIn(o)
         /\ Full(fifo'[p]) => NDEBUG /\ Full(fifo[p])
         /\ UNCHANGED <<head, pc, rz, shell, script, typed, inbox>>
<1> DEFINE a == Sink(head, p)
           q == fifo[p]
<1>1. a \in Sinks /\ RoomIn(a) \in Nat /\ q \in Seq(Tokens) /\ Len(q) \in Nat /\ Len(q) <= Capacity
      /\ Capacity \in Nat \ {0}
  BY EndsAre, RoomIs, ElementsAre, SessionAssumption DEF TypeOK
<1>2. PICK k \in Answers(conn, a, q) :
        LET left == Suffix(q, Positive(k))
            src == Source(head, p)
            resume == block_read[p] /\ src \in (IF k = Epipe THEN conn \ {a} ELSE conn)
        IN  /\ NDEBUG \/ ~AssertFails(q, left)
            /\ fifo' = [fifo EXCEPT ![p] = left]
            /\ Deliver(a, SubSeq(q, 1, Positive(k)))
            /\ conn' = IF k = Epipe THEN conn \ {a} ELSE conn
            /\ block_read' = [block_read EXCEPT ![p] = @ /\ ~resume]
            /\ fd_read' = (IF resume THEN fd_read \union {src} ELSE fd_read) \intersect conn'
            /\ fd_write' = (IF left = <<>> THEN fd_write \ {a} ELSE fd_write) \intersect conn'
            /\ UNCHANGED <<head, pc, children, script, typed, inbox>>
  BY DEF pipe_auto_write, Answers, End
<1> DEFINE left == Suffix(q, Positive(k))
<1>3. Positive(k) \in 0..Len(q)
  <2> HIDE DEF a, q
  <2> QED BY <1>1, <1>2, WrittenIs
<1>4. left \in Seq(Tokens) /\ Len(left) = Len(q) - Positive(k)
  <2> HIDE DEF q
  <2> QED BY <1>1, <1>3, Parts
<1>5. fifo'[p] = left /\ \A o \in Pipe : o # p => fifo'[o] = fifo[o] /\ block_read'[o] = block_read[o]
  BY <1>2 DEF TypeOK
<1>6. \A o \in Sinks \ {a} : RoomIn(o)' = RoomIn(o)
  <2>1. Deliver(a, SubSeq(q, 1, Positive(k)))
    BY <1>2
  <2> QED BY <1>1, <2>1 DEF Deliver, RoomIn, Sinks, TypeOK
<1>7. (Full(left) => Full(q)) /\ (left # <<>> => q # <<>>)
  <2> HIDE DEF q
  <2> QED BY <1>1, <1>3, PartIsShorter
<1>8. Full(left) => NDEBUG
  BY <1>2 DEF AssertFails
<1>9. /\ conn' \subseteq conn
      /\ fd_write' = (IF left = <<>> THEN fd_write \ {a} ELSE fd_write) \intersect conn'
      /\ UNCHANGED <<head, pc, rz, shell, script, typed, inbox>>
  BY <1>2 DEF children
<1>10. /\ fd_read \intersect conn' \subseteq fd_read' /\ fd_read' \subseteq fd_read \union {Source(head, p)}
       /\ Source(head, p) \in conn' /\ block_read[p] => Source(head, p) \in fd_read'
       /\ Source(head, p) \notin fd_read /\ ~block_read[p] => Source(head, p) \notin fd_read'
  BY <1>2
<1> HIDE DEF left, a, q
<1> QED BY <1>5, <1>6, <1>7, <1>8, <1>9, <1>10 DEF a, q

Watched == \A p \in Pipe : Awaits(p) /\ Resumes(p)

LEMMA ReadWatched ==
  ASSUME TypeOK, Watched, NEW p \in Pipe, ReadData(p)
  PROVE  Watched' /\ UNCHANGED <<head, pc>>
<1>1. PICK q \in Seq(Tokens), c \in {conn, conn \ {Source(head, p)}} :
        /\ Len(q) <= Capacity
        /\ AfterRead(p, q, head, c, fd_read, block_read)
        /\ fifo_avail(p) = 0 => c = conn \ {Source(head, p)}
  BY ReadParts
<1>2. UNCHANGED <<head, pc>> /\ block_read \in [Pipe -> BOOLEAN]
  BY ReadParts DEF TypeOK
<1>3. /\ \A o \in Pipe : o # p => fifo'[o] = fifo[o] /\ block_read'[o] = block_read[o]
      /\ conn' \subseteq c
      /\ fd_write \intersect conn' \subseteq fd_write'
      /\ fifo'[p] # <<>> /\ Sink(head, p) \in conn' => Sink(head, p) \in fd_write'
      /\ fd_read' = (IF Full(fifo'[p]) THEN fd_read \ {Source(head, p)} ELSE fd_read) \intersect conn'
      /\ Full(fifo'[p]) => block_read'[p]
  BY <1>1, <1>2, AfterReadEffect
<1>4. Awaits(p)' /\ Resumes(p)'
  <2>1. Full(fifo'[p]) => fifo_avail(p)' = 0
    <3>1. Capacity \in Nat
      BY SessionAssumption
    <3> QED BY <3>1 DEF Full, fifo_avail
  <2>2. Source(head, p) \notin fd_read => Source(head, p) \notin conn'
    BY <1>1, <1>3 DEF Watched, Resumes
  <2> QED BY <1>2, <1>3, <2>1, <2>2 DEF Awaits, Resumes
<1>5. ASSUME NEW o \in Pipe, o # p PROVE Awaits(o)' /\ Resumes(o)'
  <2>1. Awaits(o) /\ Resumes(o) /\ fifo'[o] = fifo[o] /\ block_read'[o] = block_read[o] /\ fifo_avail(o)' = fifo_avail(o)
    BY <1>3, <1>5 DEF Watched, fifo_avail
  <2>2. Source(head, o) # Source(head, p) /\ conn' \subseteq conn
    BY <1>1, <1>3, <1>5, EndsDiffer
  <2> QED BY <1>2, <1>3, <2>1, <2>2 DEF Awaits, Resumes
<1> QED BY <1>2, <1>4, <1>5 DEF Watched

LEMMA StartWatched ==
  ASSUME TypeOK, Watched, head = "echo", ReadStart, ~End("bailed")
  PROVE  Watched' /\ head' = "rz" /\ pc' = pc
<1> DEFINE p == "master_output"
           i == "input_master"
           fr == fd_read \union {"rzread"} \union StdinOpen
           b == [block_read EXCEPT !["input_master"] = FALSE]
<1>1. PICK q \in Seq(Tokens) : Len(q) <= Capacity /\ AfterRead(p, q, "rz", conn \union RzAtoms, fr, b)
  BY StartParts
<1>2. head' = "rz" /\ pc' = pc /\ b \in [Pipe -> BOOLEAN] /\ p \in Pipe /\ i \in Pipe /\ fifo_avail(p) > 0
  BY StartParts DEF TypeOK, Pipe
<1>3. /\ Source("rz", p) = "master" /\ Source("rz", i) = "rzread" /\ Source("echo", p) = "master"
      /\ Sink("rz", p) = "rzwrite" /\ Sink("rz", i) = "master" /\ Sink("echo", i) = "master"
  BY DEF Source, Sink
<1>4. "master" \in conn => "master" \in fd_read
  BY <1>2, <1>3 DEF Watched, Resumes
<1> HIDE DEF fr, b
<1>5. /\ fifo'[i] = fifo[i] /\ conn' \subseteq conn \union RzAtoms
      /\ fd_write \intersect conn' \subseteq fd_write'
      /\ fifo'[p] # <<>> /\ "rzwrite" \in conn' => "rzwrite" \in fd_write'
      /\ fd_read' = (IF Full(fifo'[p]) THEN fr \ {"master"} ELSE fr) \intersect conn'
      /\ Full(fifo'[p]) => block_read'[p]
  BY <1>1, <1>2, <1>3, AfterReadEffect
<1>6. Awaits(p)' /\ Resumes(p)'
  <2>1. Full(fifo'[p]) => fifo_avail(p)' = 0
    <3>1. Capacity \in Nat
      BY SessionAssumption
    <3> QED BY <3>1 DEF Full, fifo_avail
  <2>2. "master" \in conn' => "master" \in fr
    BY <1>4, <1>5 DEF RzAtoms, fr
  <2> QED BY <1>2, <1>3, <1>5, <2>1, <2>2 DEF Awaits, Resumes
<1>7. Awaits(i)' /\ Resumes(i)'
  <2>1. "rzread" \in fr
    BY DEF fr
  <2>2. fifo[i] # <<>> /\ "master" \in conn' => "master" \in fd_write
    BY <1>2, <1>3, <1>5 DEF Watched, Awaits, RzAtoms
  <2> QED BY <1>2, <1>3, <1>5, <2>1, <2>2 DEF Awaits, Resumes
<1> QED BY <1>2, <1>6, <1>7 DEF Watched, Pipe

LEMMA WriteWatched ==
  ASSUME TypeOK, Watched, NEW p \in Pipe, pipe_auto_write(p), pc' # "full after write", pc # "full after write"
  PROVE  Watched' /\ UNCHANGED <<head, pc>>
<1> DEFINE a == Sink(head, p)
           src == Source(head, p)
<1>1. /\ \A o \in Pipe : o # p => fifo'[o] = fifo[o] /\ block_read'[o] = block_read[o]
      /\ conn' \subseteq conn
      /\ (fd_write \intersect conn') \ {a} \subseteq fd_write'
      /\ fifo'[p] # <<>> => fifo[p] # <<>> /\ fd_write \intersect conn' \subseteq fd_write'
      /\ fd_read \intersect conn' \subseteq fd_read'
      /\ src \in conn' /\ block_read[p] => src \in fd_read'
      /\ UNCHANGED <<head, pc>>
  BY WriteEffect
<1>2. Awaits(p)' /\ Resumes(p)'
  BY <1>1 DEF Watched, Awaits, Resumes
<1>3. ASSUME NEW o \in Pipe, o # p PROVE Awaits(o)' /\ Resumes(o)'
  <2>1. Awaits(o) /\ Resumes(o) /\ fifo'[o] = fifo[o] /\ block_read'[o] = block_read[o] /\ fifo_avail(o)' = fifo_avail(o)
    BY <1>1, <1>3 DEF Watched, fifo_avail
  <2>2. Sink(head, o) # a
    BY <1>3, EndsDiffer
  <2> HIDE DEF a
  <2> QED BY <1>1, <2>1, <2>2 DEF Awaits, Resumes
<1> QED BY <1>1, <1>2, <1>3 DEF Watched

\* What pipe_write does to whom is watched.
LEMMA StuffEffect ==
  ASSUME TypeOK, NEW s \in Seq(Tokens), s # <<>>, pipe_write(s)
  PROVE  /\ fifo'["input_master"] = fifo["input_master"]
         /\ fd_write \ {"stdout"} \subseteq fd_write' /\ fd_write' \subseteq fd_write \union {"stdout"}
         /\ fifo'["master_output"] # <<>> => "stdout" \in fd_write'
         /\ fifo_avail("master_output") = 0 => fifo_avail("master_output")' = 0
<1> DEFINE p == "master_output"
           q == fifo[p]
<1>1. PICK k \in IF q = <<>> THEN WriteResults(conn, "stdout", Len(s)) ELSE {0} :
        LET sent == Positive(k)
            kept == Least(Len(s) - sent, fifo_avail(p))
        IN  /\ fifo' = [fifo EXCEPT ![p] = @ \o SubSeq(s, sent + 1, sent + kept)]
            /\ fd_write' = IF sent = Len(s) THEN fd_write \ {"stdout"}
                           ELSE fd_write \union {"stdout"}
  BY DEF pipe_write
<1>2. /\ Len(s) \in Nat \ {0} /\ p \in Pipe /\ fifo_avail(p) \in Nat /\ Len(q) \in Nat
      /\ fifo_avail(p) = Capacity - Len(q) /\ Capacity \in Nat /\ q \in Seq(Tokens)
  BY ElementsAre, EmptySeq, AvailIs DEF Pipe, TypeOK
<1>3. RoomIn("stdout") \in Nat
  BY RoomIs DEF Sinks
<1> DEFINE n == Positive(k)
           m == Least(Len(s) - n, fifo_avail(p))
           t == SubSeq(s, n + 1, n + m)
<1>4. n \in 0..Len(s) /\ (n = Len(s) => q = <<>>)
  <2>1. CASE q = <<>>
    <3>1. k \in WriteResults(conn, "stdout", Len(s))
      BY <1>1, <2>1
    <3> QED BY <1>2, <1>3, <2>1, <3>1, WriteResultsAre
  <2>2. CASE q # <<>>
    BY <1>1, <1>2, <1>3, <2>2 DEF Positive
  <2> QED BY <2>1, <2>2
<1>5. m \in 0..Len(s) - n /\ m <= fifo_avail(p)
  <2> HIDE DEF n, q, p
  <2> QED BY <1>2, <1>4 DEF Least
<1>6. t \in Seq(Tokens) /\ Len(t) = m
  <2> HIDE DEF n, m
  <2> QED BY <1>4, <1>5, MiddleIs
<1>7. fifo'[p] = q \o t /\ fifo'["input_master"] = fifo["input_master"]
  BY <1>1, <1>2 DEF TypeOK, Pipe
<1>8. fd_write' = IF n = Len(s) THEN fd_write \ {"stdout"} ELSE fd_write \union {"stdout"}
  BY <1>1
<1> HIDE DEF q, t, m, n
<1>9. q \o t \in Seq(Tokens) /\ Len(q \o t) = Len(q) + m
  BY <1>2, <1>6, Joined
<1>10. fifo_avail(p) = 0 => fifo_avail(p)' = 0
  BY <1>2, <1>4, <1>5, <1>7, <1>9 DEF fifo_avail, q
<1>11. n = Len(s) => fifo'[p] = <<>>
  <2> SUFFICES ASSUME n = Len(s) PROVE fifo'[p] = <<>>
    OBVIOUS
  <2>1. Len(q) = 0 /\ m = 0
    BY <1>2, <1>4, <1>5
  <2>2. Len(q \o t) = 0
    BY <1>9, <2>1
  <2> QED BY <1>7, <1>9, <2>2, EmptySeq
<1> QED BY <1>7, <1>8, <1>10, <1>11

LEMMA StuffWatched ==
  ASSUME TypeOK, NEW s \in Seq(Tokens), s # <<>>, pipe_write(s), head = "echo", Notified, Running,
         UNCHANGED <<head, conn, fd_read, block_read>>
  PROVE  Watched'
<1>1. /\ fifo'["input_master"] = fifo["input_master"]
      /\ fd_write \ {"stdout"} \subseteq fd_write'
      /\ fifo'["master_output"] # <<>> => "stdout" \in fd_write'
      /\ fifo_avail("master_output") = 0 => fifo_avail("master_output")' = 0
  BY StuffEffect
<1>2. /\ Sink("echo", "input_master") = "master" /\ Sink("echo", "master_output") = "stdout"
      /\ "input_master" \in Pipe /\ "master_output" \in Pipe
  BY DEF Sink, Pipe
<1>3. Awaits("input_master")' /\ Resumes("input_master")'
  <2>1. fifo_avail("input_master")' = fifo_avail("input_master")
    BY <1>1 DEF fifo_avail
  <2> QED BY <1>1, <1>2, <2>1 DEF Notified, Awaits, Resumes
<1>4. Awaits("master_output")' /\ Resumes("master_output")'
  BY <1>1, <1>2 DEF Notified, Awaits, Resumes
<1> QED BY <1>3, <1>4 DEF Watched, Pipe

LEMMA AutoReadNotified ==
  ASSUME Typed, LateLast, Notified, pc \in {"dispatch", "reap"}, NEW p \in Pipe, pipe_auto_read(p)
  PROVE  Notified'
<1>1. Watched
  BY DEF Notified, Watched, Running, Pipe
<1>2. ASSUME NEW how \in {"full before read", "bailed"}, End(how) PROVE Notified'
  BY <1>2 DEF End, Notified, Running
<1>3. CASE ReadData(p)
  <2>1. Watched' /\ pc' = pc
    BY <1>1, <1>3, ReadWatched DEF Typed
  <2> QED BY <2>1 DEF Notified, Watched, Pipe
<1>4. CASE ReadStart /\ ~End("bailed")
  <2>1. head = "echo"
    <3>1. proc["master_output"] = "zrq_scan"
      BY <1>4, StartParts DEF Typed
    <3> QED BY <3>1 DEF LateLast, Typed, TypeOK, Found, Pipe
  <2>2. Watched' /\ pc' = pc
    BY <1>1, <1>4, <2>1, StartWatched DEF Typed
  <2> QED BY <2>2 DEF Notified, Watched, Pipe
<1> QED BY <1>2, <1>3, <1>4 DEF pipe_auto_read

LEMMA AutoWriteNotified ==
  ASSUME Typed, Notified, pc = "dispatch", NEW p \in Pipe, pipe_auto_write(p)
  PROVE  Notified'
<1>1. Watched
  BY DEF Notified, Watched, Running, Pipe
<1>2. CASE pc' = "full after write"
  BY <1>2 DEF Notified, Running
<1>3. CASE pc' # "full after write"
  <2>1. Watched' /\ pc' = pc
    BY <1>1, <1>3, WriteWatched DEF Typed
  <2> QED BY <2>1 DEF Notified, Watched, Pipe
<1> QED BY <1>2, <1>3

LEMMA LoopNotified ==
  ASSUME ~opt_quiet, Typed, LateLast, Followed, Children, Notified, Loop
  PROVE  Notified'
<1>0. ASSUME UNCHANGED <<head, fifo, block_read, conn, fd_read, fd_write>>,
             Running, pc # "idle_end"
      PROVE  Notified'
  <2>1. \A p \in Pipe : Awaits(p)' = Awaits(p) /\ Resumes(p)' = Resumes(p)
    BY <1>0 DEF Awaits, Resumes, fifo_avail
  <2> QED BY <1>0, <2>1 DEF Notified, Pipe
<1>1. CASE master_idle
  BY <1>0, <1>1 DEF master_idle, structs, select, Running
<1>2. CASE io_wait
  BY <1>0, <1>2 DEF io_wait, structs, select, Running
<1>3. ASSUME NEW a \in Atom, DispatchRead(a) PROVE Notified'
  <2>1. (IF a = "master" THEN "master_output" ELSE "input_master") \in Pipe
    BY DEF Pipe
  <2> QED BY <1>3, <2>1, AutoReadNotified DEF DispatchRead, Turn
<1>4. ASSUME NEW a \in Atom, DispatchWrite(a) PROVE Notified'
  <2>1. (IF a = "master" THEN "input_master" ELSE "master_output") \in Pipe
    BY DEF Pipe
  <2> QED BY <1>4, <2>1, AutoWriteNotified DEF DispatchWrite, Turn
<1>5. ASSUME NEW a \in Atom, DispatchStale(a) PROVE Notified'
  BY <1>0, <1>5 DEF DispatchStale, Turn, structs, select, Running
<1>6. CASE typing_io_proc
  BY <1>0, <1>6 DEF typing_io_proc, Turn, structs, select, Running
<1>7. CASE master_check_sigchild
  BY <1>0, <1>7 DEF master_check_sigchild, structs, select, Running
<1>8. CASE task_default_sigchild
  <2>1. "input_master" \in Pipe /\ pc = "reap"
    BY <1>8 DEF Pipe, task_default_sigchild
  <2> QED BY <1>8, <2>1, AutoReadNotified DEF task_default_sigchild
<1>9. CASE fifo_write
  <2> DEFINE q == fifo["input_master"]
  <2>1. PICK n \in 0..Len(q) : fifo' = [fifo EXCEPT !["input_master"] = Suffix(q, n)]
    BY <1>9, ReapWriteIs DEF Typed
  <2>2. /\ fifo'["input_master"] = Suffix(q, n) /\ fifo'["master_output"] = fifo["master_output"]
        /\ q \in Seq(Tokens) /\ Len(q) <= Capacity /\ "master_output" \in Pipe /\ "input_master" \in Pipe
    BY <2>1 DEF Typed, TypeOK, Pipe
  <2>3. Suffix(q, n) # <<>> => q # <<>>
    <3> HIDE DEF q
    <3> QED BY <2>2, PartIsShorter
  <2>4. /\ UNCHANGED <<head, block_read, conn, fd_read, fd_write>>
        /\ pc = "reap" /\ pc' = "remove" /\ "rzread" \notin conn
    BY <1>9 DEF fifo_write, select
  <2>5. head = "rz" /\ Source("rz", "input_master") = "rzread"
    BY <2>4 DEF Children, LateLast, Typed, TypeOK, Source
  <2>6. fifo_avail("master_output")' = fifo_avail("master_output")
    BY <2>2 DEF fifo_avail
  <2>7. Awaits("input_master")' /\ Resumes("input_master")'
    BY <2>2, <2>3, <2>4, <2>5 DEF Notified, Running, Awaits, Resumes
  <2>8. Awaits("master_output")' /\ Resumes("master_output")'
    BY <2>2, <2>4, <2>6 DEF Notified, Running, Awaits, Resumes
  <2> QED BY <2>4, <2>7, <2>8 DEF Notified, Pipe
<1>10. CASE task_remove
  <2>1. /\ head' = "echo" /\ pc = "remove" /\ pc' = "idle_end" /\ fifo' = fifo
        /\ block_read' = [block_read EXCEPT !["input_master"] = FALSE]
        /\ conn' = conn \ RzAtoms
        /\ fd_read' = (fd_read \ RzAtoms) \union StdinOpen /\ fd_write' = fd_write \ RzAtoms
    BY <1>10 DEF task_remove, AfterRemove
  <2>2. /\ \A h : Source(h, "master_output") = "master" /\ Sink(h, "input_master") = "master"
        /\ Source("echo", "input_master") = "stdin"
        /\ {"master", "stdin"} \intersect RzAtoms = {}
        /\ "master_output" \in Pipe /\ "input_master" \in Pipe
    BY DEF Source, Sink, RzAtoms, Pipe
  <2>3. block_read'["master_output"] = block_read["master_output"]
        /\ fifo_avail("master_output")' = fifo_avail("master_output")
    BY <2>1 DEF Typed, TypeOK, fifo_avail, Pipe
  <2>4. Awaits("input_master")'
    BY <2>1, <2>2 DEF Notified, Running, Awaits
  <2>5. Resumes("input_master")'
    BY <2>1, <2>2 DEF Resumes, StdinOpen
  <2>6. Resumes("master_output")'
    BY <2>1, <2>2, <2>3 DEF Notified, Running, Resumes, StdinOpen
  <2> QED BY <2>1, <2>4, <2>5, <2>6 DEF Notified, Pipe
<1>11. CASE idle_end
  <2>1. <<"status">> \in Seq(Tokens) /\ <<"status">> # <<>>
    BY DEF Tokens
  <2>2. /\ head = "echo" /\ pipe_write(<<"status">>) /\ Running
        /\ UNCHANGED <<head, conn, fd_read, block_read>>
    BY <1>11 DEF idle_end, Followed, Running
  <2>3. Watched'
    BY <2>1, <2>2, StuffWatched DEF Typed
  <2> QED BY <2>3 DEF Notified, Watched, Pipe
<1>12. CASE rzt_destructor_proc
  <2>1. CASE savebuf = <<>>
    BY <1>0, <1>12, <2>1 DEF rzt_destructor_proc, Running
  <2>2. CASE savebuf # <<>>
    <3>1. savebuf \in Seq(Tokens) /\ head = "echo" /\ pipe_write(savebuf) /\ Running
          /\ UNCHANGED <<head, conn, fd_read, block_read>>
      BY <1>12, <2>2 DEF rzt_destructor_proc, Typed, TypeOK, Followed, Running
    <3>2. Watched'
      BY <2>2, <3>1, StuffWatched DEF Typed
    <3> QED BY <3>2 DEF Notified, Watched, Pipe
  <2> QED BY <2>1, <2>2
<1> QED BY <1>1, <1>2, <1>3, <1>4, <1>5, <1>6, <1>7, <1>8, <1>9, <1>10, <1>11, <1>12
        DEF Loop, Dispatch

LEMMA NextNotified ==
  ASSUME ~opt_quiet, Typed, LateLast, Followed, Cleanly, Notified, [Next]_vars
  PROVE  Notified'
<1>1. ASSUME Environment \/ UNCHANGED vars PROVE Notified'
  <2>1. UNCHANGED <<head, fifo, block_read, conn, fd_read, fd_write, pc>>
    BY <1>1 DEF Environment, ShellPrint, ShellExit, RzRead, RzSpeaks, RzExit, UserTypes, Consume,
                structs, select, vars
  <2>2. \A p \in Pipe : Awaits(p)' = Awaits(p) /\ Resumes(p)' = Resumes(p)
    BY <2>1 DEF Awaits, Resumes, fifo_avail
  <2> QED BY <2>1, <2>2 DEF Notified, Running, Pipe
<1>2. ASSUME Loop PROVE Notified'
  BY <1>2, LoopNotified DEF Cleanly
<1> QED BY <1>1, <1>2 DEF Next

(***************************************************************************)
(* With status lines, a pipe that holds something waits for its sink, and  *)
(* a source is left out only for a full fifo, across every splice          *)
(* (pipe.c:120, task.c:134).                                               *)
(***************************************************************************)
THEOREM SessionWriteNotified == ASSUME ~opt_quiet PROVE Spec => []WriteNotified
<1>1. Init => Notified
  <2> SUFFICES ASSUME Init PROVE Notified
    OBVIOUS
  <2>1. \A p \in Pipe : fifo[p] = <<>> /\ Source("echo", p) \in fd_read
    BY DEF Init, Source, Pipe
  <2> QED BY <2>1 DEF Init, Notified, Awaits, Resumes, Pipe
<1>2. Typed /\ LateLast /\ Followed /\ Cleanly /\ Notified /\ [Next]_vars => Notified'
  BY NextNotified
<1>3. Spec => [](Typed /\ LateLast /\ Followed /\ Cleanly /\ Notified)
  BY <1>1, <1>2, InitTyped, NextTyped, InitLate, NextLate, InitFollowed, NextFollowed, InitCleanly,
     NextCleanly, PTL DEF Spec
<1>4. Notified => WriteNotified
  BY DEF Notified, WriteNotified, Running, Awaits, Resumes, Pipe
<1> QED BY <1>3, <1>4, PTL

(***************************************************************************)
(* With status lines, then, a pipe that has stopped reading waits to write *)
(* and will read again (pipe.c:126), whatever ended the transfer: what is  *)
(* full holds something, as a fifo has room for a token at least.          *)
(***************************************************************************)
THEOREM SessionReadRestarts == ASSUME ~opt_quiet PROVE Spec => []ReadRestarts
<1>1. Spec => []WriteNotified
  BY SessionWriteNotified
<1>2. WriteNotified => ReadRestarts
  <2> SUFFICES ASSUME WriteNotified, pc = "wait", NEW p \in Pipe,
                      Source(head, p) \in conn \ fd_read, Sink(head, p) \in conn
               PROVE  Sink(head, p) \in fd_write
    BY DEF ReadRestarts
  <2>1. fifo_avail(p) = 0
    BY DEF WriteNotified
  <2>2. fifo[p] # <<>>
    <3>1. fifo[p] = <<>> => fifo_avail(p) = Capacity - 0
      BY DEF fifo_avail
    <3> QED BY <2>1, <3>1, SessionAssumption
  <2> QED BY <2>2 DEF WriteNotified
<1> QED BY <1>1, <1>2, PTL

-----------------------------------------------------------------------------
(***************************************************************************)
(* Which atoms are there and may be watched or reported, and that nothing  *)
(* is left of a report when it has been handled.                           *)
(***************************************************************************)
Reported ==
  /\ head = "echo" => conn \intersect RzAtoms = {}
  /\ fd_read \union gfd_read \subseteq {"stdin", "master", "rzread"}
  /\ fd_write \union gfd_write \subseteq Sinks
  /\ Running => /\ pc = "dispatch" \/ gfd_read \union gfd_write = {}
                /\ head = "echo" => "rzwrite" \notin gfd_write
                /\ gfd_read \intersect conn \subseteq fd_read
                /\ "stdout" \in gfd_write => "stdout" \in fd_write

\* Before the transfer nothing is read into a full fifo: its source is not watched.
Begun == \E j \in 1..At : Script[j] = "start"

Unfilled ==
  Running /\ ~Begun =>
    /\ head = "echo" /\ pc \in {"wait", "dispatch"}
    /\ NDEBUG \/ \A p \in Pipe : Source(head, p) \in fd_read => ~Full(fifo[p])

(***************************************************************************)
(* A write that select allowed makes room in the fifo: either nobody wrote *)
(* to the sink since, or the one who did left room in the fifo, and no     *)
(* read of this report fills it.  During a transfer the terminal's event   *)
(* writes to rz as well, and then this does not hold.                      *)
(***************************************************************************)
Allowed ==
  pc = "dispatch" =>
    /\ "master" \in gfd_write \intersect conn =>
         room["master"] > 0 \/ (~Full(fifo["input_master"]) /\ "stdin" \notin gfd_read)
    /\ "stdout" \in gfd_write /\ head = "echo" => room["stdout"] > 0
    /\ "rzwrite" \in gfd_write \intersect conn =>
         \/ rz = "zombie" \/ "stdout" \in fd_write \/ RoomIn("rzwrite") > 0
         \/ ~Full(fifo["master_output"]) /\ "master" \notin gfd_read

Caused == Reported /\ Unfilled /\ Allowed /\ AssertCause

LEMMA StartBefore ==
  ASSUME NEW n \in Nat, Within(n) \/ Past(n)
  PROVE  \E j \in 1..n : Script[j] = "start"
<1>1. CASE Within(n)
  BY <1>1 DEF Within
<1>2. CASE Past(n)
  <2>1. PICK f \in 1..n : Within(f - 1)
    BY <1>2 DEF Past
  <2>2. PICK j \in 1..f - 1 : Script[j] = "start"
    BY <2>1 DEF Within
  <2>3. j \in 1..n
    BY <2>1, <2>2
  <2> QED BY <2>2, <2>3
<1> QED BY <1>1, <1>2

LEMMA BegunGone ==
  ASSUME Typed, Followed, Begun
  PROVE  "start" \notin Elements(Rest)
<1>1. PICK j \in 1..At : Script[j] = "start"
  BY DEF Begun
<1>2. /\ At \in Nat /\ At + Len(Rest) = Len(Script)
      /\ inbox["master"] \in Seq(Tokens) /\ script \in Seq(Tokens)
  BY RestIs DEF Typed, Followed
<1>3. Rest \in Seq(Tokens)
  BY <1>2, Joined DEF Rest
<1>4. Len(Rest) \in Nat /\ Len(Script) \in Nat
        /\ \A x : x \in Elements(Rest) <=> \E i \in 1..Len(Rest) : Rest[i] = x
  BY <1>3, ElementsAre, ScriptIs
<1>5. ASSUME NEW i \in 1..Len(Rest), Rest[i] = "start" PROVE FALSE
  <2>1. Rest[i] = Script[At + i]
    BY <1>5 DEF Followed, Follows, At
  <2>2. At + i \in 1..Len(Script) /\ j \in 1..Len(Script) /\ At + i # j
    BY <1>1, <1>2, <1>4
  <2> QED BY <1>1, <1>5, <2>1, <2>2, OneStart
<1> QED BY <1>4, <1>5

LEMMA ReadBegun ==
  ASSUME Typed, Followed, Begun, NEW p \in Pipe, ReadData(p)
  PROVE  Begun'
<1>1. PICK r \in Nat : Reads(p, r)
  BY ReadDataIs DEF Typed
<1>2. r \in 0..Len(inbox[Source(head, p)]) /\ Took(Source(head, p), r) /\ script' = script
  BY <1>1 DEF Reads
<1>3. CASE p = "master_output"
  <2>1. At' = At + r /\ At \in Nat
    BY <1>2, <1>3, RestTaken DEF Source, Followed
  <2> QED BY <2>1 DEF Begun
<1>4. CASE p = "input_master"
  <2>1. inbox'["master"] = inbox["master"]
    BY <1>2, <1>4 DEF Took, Source, Typed, TypeOK
  <2>2. At' = At
    BY <1>2, <2>1, RestSame
  <2> QED BY <2>2 DEF Begun
<1> QED BY <1>3, <1>4 DEF Pipe

LEMMA BegunSame ==
  ASSUME inbox'["master"] = inbox["master"], script' = script
  PROVE  Begun' = Begun
BY RestSame DEF Begun

LEMMA WriteTakes ==
  ASSUME NEW q \in Seq(Tokens), q # <<>>, NEW c, NEW a \in c, RoomIn(a) \in Nat, RoomIn(a) > 0,
         ~Broken(a), NEW k \in Answers(c, a, q)
  PROVE  Positive(k) # 0
<1>1. Len(q) \in Nat \ {0}
  BY ElementsAre, EmptySeq
<1>2. RoomIn(a) # 0
  OBVIOUS
<1>3. k \in 1..Least(Len(q), RoomIn(a))
  BY <1>2 DEF Answers, WriteResults
<1>4. Least(Len(q), RoomIn(a)) \in Int
  BY <1>1 DEF Least
<1> QED BY <1>3, <1>4 DEF Positive

LEMMA FullAfter ==
  ASSUME NEW q \in Seq(Tokens), Len(q) <= Capacity, NEW n \in 0..Len(q), Full(Suffix(q, n))
  PROVE  Full(q) /\ n = 0 /\ q # <<>>
<1> DEFINE left == Suffix(q, n)
<1>1. Len(left) = Len(q) - n
  BY Parts
<1>2. Full(left)
  OBVIOUS
<1> HIDE DEF left
<1>3. Len(q) \in Nat /\ Capacity \in Nat \ {0}
  BY ElementsAre, SessionAssumption
<1>4. Len(q) = Capacity /\ n = 0
  BY <1>1, <1>2, <1>3 DEF Full
<1>5. q # <<>>
  BY <1>3, <1>4, EmptySeq
<1> QED BY <1>4, <1>5 DEF Full

\* A write that fails its assert was made to a full fifo, and nothing was taken.
LEMMA WriteAborts ==
  ASSUME TypeOK, NEW p \in Pipe, pipe_auto_write(p), pc' = "full after write", pc # "full after write"
  PROVE  /\ UNCHANGED <<structs, select, children, outside, history>>
         /\ Full(fifo[p])
         /\ ~(Sink(head, p) \in conn /\ RoomIn(Sink(head, p)) > 0 /\ ~Broken(Sink(head, p)))
<1> DEFINE a == Sink(head, p)
           q == fifo[p]
<1>1. a \in Sinks /\ RoomIn(a) \in Nat /\ q \in Seq(Tokens) /\ Len(q) <= Capacity
  BY EndsAre, RoomIs DEF TypeOK
<1>2. PICK k \in Answers(conn, a, q) :
        Full(Suffix(q, Positive(k))) /\ End("full after write")
  BY DEF pipe_auto_write, Answers, AssertFails
<1> HIDE DEF a, q
<1>3. Positive(k) \in 0..Len(q)
  BY <1>1, WrittenIs
<1>4. Full(q) /\ Positive(k) = 0 /\ q # <<>>
  BY <1>1, <1>2, <1>3, FullAfter
<1>5. ~(a \in conn /\ RoomIn(a) > 0 /\ ~Broken(a))
  BY <1>1, <1>4, WriteTakes
<1> QED BY <1>2, <1>4, <1>5 DEF End, a, q

\* What a read of p's source does, whatever it found there.
LEMMA ReadEffect ==
  ASSUME TypeOK, NEW p \in Pipe, ReadData(p)
  PROVE  /\ \A o \in Pipe : o # p => fifo'[o] = fifo[o]
         /\ conn' \subseteq conn
         /\ fd_write' \subseteq fd_write \union {Sink(head, p)} /\ fd_write \intersect conn' \subseteq fd_write'
         /\ fd_read' = (IF Full(fifo'[p]) THEN fd_read \ {Source(head, p)} ELSE fd_read) \intersect conn'
         /\ \A o \in Sinks \ {Sink(head, p)} : RoomIn(o)' = RoomIn(o)
         /\ RoomIn(Sink(head, p)) > 0 /\ Sink(head, p) \in conn /\ ~Broken(Sink(head, p)) => ~Full(fifo'[p])
         /\ UNCHANGED <<head, pc, rz>>
<1>1. PICK q \in Seq(Tokens), c \in {conn, conn \ {Source(head, p)}} :
        Len(q) <= Capacity /\ AfterRead(p, q, head, c, fd_read, block_read)
  BY ReadParts
<1>2. UNCHANGED <<head, pc, rz>> /\ block_read \in [Pipe -> BOOLEAN] /\ Sink(head, p) # Source(head, p)
  BY ReadParts DEF TypeOK, Pipe, Sink, Source
<1>3. /\ \A o \in Pipe : o # p => fifo'[o] = fifo[o] /\ block_read'[o] = block_read[o]
      /\ conn' \subseteq c
      /\ fd_write' \subseteq fd_write \union {Sink(head, p)} /\ fd_write \intersect conn' \subseteq fd_write'
      /\ fd_read' = (IF Full(fifo'[p]) THEN fd_read \ {Source(head, p)} ELSE fd_read) \intersect conn'
      /\ \A o \in Sinks \ {Sink(head, p)} : RoomIn(o)' = RoomIn(o)
      /\ RoomIn(Sink(head, p)) > 0 /\ Sink(head, p) \in c /\ ~Broken(Sink(head, p)) => ~Full(fifo'[p])
  BY <1>1, <1>2, AfterReadEffect
<1>4. conn' \subseteq conn /\ (Sink(head, p) \in conn => Sink(head, p) \in c)
  BY <1>1, <1>2, <1>3
<1> QED BY <1>2, <1>3, <1>4

\* What the announced transfer does to the pipe it is read from.
LEMMA StartEffect ==
  ASSUME TypeOK, ReadStart, ~End("bailed")
  PROVE  /\ fifo'["input_master"] = fifo["input_master"]
         /\ conn' \subseteq conn \union RzAtoms
         /\ fd_write' \subseteq fd_write \union {"rzwrite"} /\ fd_write \intersect conn' \subseteq fd_write'
         /\ ((fd_read \union {"rzread"}) \intersect conn') \ {"master"} \subseteq fd_read'
         /\ fd_read' \subseteq fd_read \union {"rzread", "stdin"}
         /\ room' = room
         /\ head' = "rz" /\ pc' = pc /\ proc["master_output"] = "zrq_scan"
<1> DEFINE b == [block_read EXCEPT !["input_master"] = FALSE]
           fr == fd_read \union {"rzread"} \union StdinOpen
<1>1. PICK q \in Seq(Tokens) :
        Len(q) <= Capacity /\ AfterRead("master_output", q, "rz", conn \union RzAtoms, fr, b)
  BY StartParts
<1>2. /\ b \in [Pipe -> BOOLEAN] /\ "master_output" \in Pipe /\ "input_master" \in Pipe
      /\ Sink("rz", "master_output") = "rzwrite" /\ Source("rz", "master_output") = "master"
  BY DEF TypeOK, Pipe, Sink, Source
<1> HIDE DEF b, fr
<1>3. /\ fifo'["input_master"] = fifo["input_master"]
      /\ conn' \subseteq conn \union RzAtoms
      /\ fd_write' \subseteq fd_write \union {"rzwrite"} /\ fd_write \intersect conn' \subseteq fd_write'
      /\ fd_read' = (IF Full(fifo'["master_output"]) THEN fr \ {"master"} ELSE fr) \intersect conn'
  BY <1>1, <1>2, AfterReadEffect
<1>4. room' = room
  BY <1>1, <1>2 DEF AfterRead, Deliver
<1>5. head' = "rz" /\ pc' = pc /\ proc["master_output"] = "zrq_scan"
  BY StartParts
<1> QED BY <1>3, <1>4, <1>5 DEF fr, StdinOpen

LEMMA SourceIs ==
  ASSUME Typed, Reported, NEW a, DispatchRead(a)
  PROVE  /\ a \in {"stdin", "master", "rzread"} /\ Running
         /\ Source(head, IF a = "master" THEN "master_output" ELSE "input_master") = a
<1>1. a \in {"stdin", "master", "rzread"} /\ a \in conn /\ ~Typing(a) /\ pc = "dispatch"
  BY DEF DispatchRead, Turn, Reported
<1>2. a = "rzread" => head = "rz"
  BY <1>1 DEF Reported, RzAtoms, Typed, TypeOK
<1> QED BY <1>1, <1>2 DEF Typing, Source, Running

LEMMA ReadDataCaused ==
  ASSUME Typed, Typed', Followed, Caused, NEW a, Turn(a), a \in gfd_read, a \in conn,
         gfd_read' = gfd_read \ {a}, gfd_write' = gfd_write,
         NEW p \in Pipe, Source(head, p) = a, ReadData(p)
  PROVE  Caused'
<1>1. /\ \A o \in Pipe : o # p => fifo'[o] = fifo[o]
      /\ conn' \subseteq conn
      /\ fd_write' \subseteq fd_write \union {Sink(head, p)} /\ fd_write \intersect conn' \subseteq fd_write'
      /\ fd_read' = (IF Full(fifo'[p]) THEN fd_read \ {a} ELSE fd_read) \intersect conn'
      /\ \A o \in Sinks \ {Sink(head, p)} : RoomIn(o)' = RoomIn(o)
      /\ RoomIn(Sink(head, p)) > 0 /\ Sink(head, p) \in conn /\ ~Broken(Sink(head, p)) => ~Full(fifo'[p])
      /\ UNCHANGED <<head, pc, rz>>
  BY ReadEffect DEF Typed
<1>2. pc = "dispatch" /\ pc' = "dispatch" /\ Running /\ "stdout" \in conn /\ "stdout" \in conn'
  BY <1>1 DEF Turn, Running, Typed
<1>3. Sink(head, p) \in Sinks /\ Sinks = {"stdout", "master", "rzwrite"}
  BY EndsAre DEF Sinks
<1>4. Reported'
  BY <1>1, <1>2, <1>3 DEF Caused, Reported
<1>5. Unfilled'
  <2>1. CASE Begun
    BY <2>1, ReadBegun DEF Unfilled
  <2>2. ASSUME ~Begun, ~NDEBUG, NEW o \in Pipe, Source(head, o) \in fd_read' PROVE ~Full(fifo'[o])
    <3>1. CASE o = p
      BY <1>1, <2>2, <3>1
    <3>2. CASE o # p
      BY <1>1, <1>2, <2>2, <3>2 DEF Caused, Unfilled
    <3> QED BY <3>1, <3>2
  <2>3. ~Begun => head' = "echo" /\ pc' \in {"wait", "dispatch"}
    BY <1>1, <1>2 DEF Caused, Unfilled
  <2> QED BY <1>1, <2>1, <2>2, <2>3 DEF Unfilled
<1>6. Allowed'
  <2>1. CASE p = "input_master"
    <3>1. Sink(head, p) = "master" /\ a # "master"
      BY <2>1 DEF Sink, Source
    <3>2. /\ RoomIn("stdout")' = RoomIn("stdout") /\ RoomIn("rzwrite")' = RoomIn("rzwrite")
          /\ RoomIn("stdout") = room["stdout"] /\ RoomIn("stdout")' = room'["stdout"]
          /\ RoomIn("master") = room["master"] /\ ~Broken("master")
          /\ fifo'["master_output"] = fifo["master_output"]
      BY <1>1, <1>3, <2>1, <3>1 DEF RoomIn, Pipe, Broken
    <3>3. ASSUME "master" \in gfd_write' \intersect conn'
          PROVE  ~Full(fifo'["input_master"]) /\ "stdin" \notin gfd_read'
      <4>1. Rank[a] <= Rank["master"]
        BY <3>3 DEF Turn
      <4>2. a # "rzread"
        BY <4>1 DEF Rank
      <4>3. a = "stdin"
        BY <3>1, <4>2, EndsAre
      <4>4. room["master"] > 0 /\ "master" \in conn
        BY <1>1, <1>2, <3>3, <4>3 DEF Caused, Allowed
      <4> QED BY <1>1, <2>1, <3>1, <3>2, <4>3, <4>4
    <3> QED BY <1>1, <1>2, <3>2, <3>3 DEF Caused, Allowed
  <2>2. CASE p = "master_output"
    <3>1. a = "master" /\ Sink(head, p) # "master"
      BY <2>2 DEF Sink, Source
    <3>2. RoomIn("master") = room["master"] /\ RoomIn("master")' = room'["master"]
          /\ RoomIn("master")' = RoomIn("master") /\ fifo'["input_master"] = fifo["input_master"]
      BY <1>1, <1>3, <2>2, <3>1 DEF RoomIn, Pipe
    <3>3. "stdout" \notin gfd_write'
      <4>1. "stdout" \in gfd_write => Rank["master"] <= Rank["stdout"]
        BY <3>1 DEF Turn
      <4> QED BY <4>1 DEF Rank
    <3>4. ASSUME "rzwrite" \in gfd_write' \intersect conn'
          PROVE  rz' = "zombie" \/ "stdout" \in fd_write' \/ (~Full(fifo'[p]) /\ "master" \notin gfd_read')
      <4>1. head = "rz" /\ "rzwrite" \in conn
        BY <1>1, <3>4 DEF Caused, Reported, RzAtoms, Typed, TypeOK
      <4>2. rz = "zombie" \/ "stdout" \in fd_write \/ RoomIn("rzwrite") > 0
        BY <1>2, <3>1, <3>4, <4>1 DEF Caused, Allowed
      <4>3. Sink(head, p) = "rzwrite" /\ (Broken("rzwrite") => rz = "zombie")
        BY <2>2, <4>1 DEF Sink, Broken
      <4> QED BY <1>1, <1>2, <3>1, <4>1, <4>2, <4>3
    <3> QED BY <1>1, <1>2, <2>2, <3>1, <3>2, <3>3, <3>4 DEF Caused, Allowed
  <2> QED BY <2>1, <2>2 DEF Pipe
<1>7. AssertCause'
  BY <1>2 DEF AssertCause
<1> QED BY <1>4, <1>5, <1>6, <1>7 DEF Caused

LEMMA StartCaused ==
  ASSUME Typed, Typed', LateLast, LateLast', Followed', Caused, Turn("master"),
         gfd_read' = gfd_read \ {"master"}, gfd_write' = gfd_write, ReadStart, ~End("bailed")
  PROVE  Caused'
<1>1. /\ fifo'["input_master"] = fifo["input_master"]
      /\ conn' \subseteq conn \union RzAtoms
      /\ fd_write' \subseteq fd_write \union {"rzwrite"} /\ fd_write \intersect conn' \subseteq fd_write'
      /\ ((fd_read \union {"rzread"}) \intersect conn') \ {"master"} \subseteq fd_read'
      /\ fd_read' \subseteq fd_read \union {"rzread", "stdin"}
      /\ room' = room
      /\ head' = "rz" /\ pc' = pc /\ proc["master_output"] = "zrq_scan"
  BY StartEffect DEF Typed
<1>2. pc = "dispatch" /\ pc' = "dispatch" /\ Running /\ "stdout" \in conn /\ "stdout" \in conn'
  BY <1>1 DEF Turn, Running, Typed
<1>3. head = "echo"
  BY <1>1 DEF LateLast, Typed, TypeOK, Found, Pipe
<1>4. "rzwrite" \notin gfd_write
  BY <1>2, <1>3 DEF Caused, Reported
<1>5. Reported'
  BY <1>1, <1>2, <1>3 DEF Caused, Reported, RzAtoms, Sinks
<1>6. Begun'
  <2>1. inbox'["master"] \in Seq(Tokens) /\ script' \in Seq(Tokens)
    BY DEF Typed, TypeOK
  <2>2. Rest' \in Seq(Tokens)
    BY <2>1, Joined DEF Rest
  <2>3. At' \in Nat
    BY <2>2, ElementsAre, ScriptIs DEF Followed, Follows, At
  <2>4. proc'["master_output"] \in {"zfin_scan", "zfin_save"}
    BY <1>1 DEF LateLast, Found, Pipe
  <2>5. Within(At') \/ Past(At')
    BY <2>4 DEF Followed
  <2> QED BY <2>3, <2>5, StartBefore DEF Begun
<1>7. Unfilled'
  BY <1>6 DEF Unfilled
<1>8. Allowed'
  <2>1. "master" \in conn' => "master" \in conn
    BY <1>1 DEF RzAtoms
  <2> QED BY <1>1, <1>2, <1>4, <2>1 DEF Caused, Allowed
<1>9. AssertCause'
  BY <1>2 DEF AssertCause
<1> QED BY <1>5, <1>7, <1>8, <1>9 DEF Caused

\* The loop has stopped, and the assert that stopped it has its cause.
LEMMA StoppedCaused ==
  ASSUME Caused, Running, ~Running', pc' \notin Asserts, UNCHANGED <<structs, select>>,
         gfd_read' \subseteq gfd_read, gfd_write' \subseteq gfd_write
  PROVE  Caused'
<1>1. Reported'
  BY DEF Caused, Reported, structs, select
<1>2. Unfilled' /\ Allowed'
  BY DEF Unfilled, Allowed, Running
<1>3. AssertCause'
  BY DEF Asserts, AssertCause
<1> QED BY <1>1, <1>2, <1>3 DEF Caused

LEMMA FullReadCaused ==
  ASSUME Typed, Followed, Caused, Begun, End("full before read"), pc = "dispatch" \/ pc = "reap",
         gfd_read' \subseteq gfd_read, gfd_write' \subseteq gfd_write
  PROVE  Caused'
<1>1. pc' = "full before read" /\ UNCHANGED <<structs, select, outside>>
  BY DEF End
<1>2. Reported'
  BY <1>1 DEF Caused, Reported, structs, select, Running
<1>3. Unfilled' /\ Allowed'
  BY <1>1 DEF Unfilled, Allowed, Running
<1>4. "start" \notin Elements(inbox["master"] \o script)
  BY BegunGone DEF Rest
<1>5. AssertCause'
  BY <1>1, <1>4 DEF AssertCause, outside
<1> QED BY <1>2, <1>3, <1>5 DEF Caused

LEMMA NoneAvail ==
  ASSUME TypeOK, NEW p \in Pipe, fifo_avail(p) = 0
  PROVE  Full(fifo[p])
<1> DEFINE n == Len(fifo[p])
<1>1. n \in Nat /\ Capacity \in Nat
  BY SessionAssumption, ElementsAre DEF TypeOK
<1>2. Capacity - n = 0
  BY DEF fifo_avail
<1> HIDE DEF n
<1>3. n = Capacity
  BY <1>1, <1>2
<1> QED BY <1>3 DEF Full, n

LEMMA DispatchReadCaused ==
  ASSUME Typed, Typed', LateLast, LateLast', Followed, Followed', Caused, NEW a \in Atom, DispatchRead(a)
  PROVE  Caused'
<1> DEFINE p == IF a = "master" THEN "master_output" ELSE "input_master"
<1>1. /\ a \in {"stdin", "master", "rzread"} /\ Running /\ Source(head, p) = a /\ p \in Pipe
  BY SourceIs DEF Caused, Pipe
<1>2. /\ Turn(a) /\ a \in gfd_read /\ a \in conn /\ pc = "dispatch"
      /\ gfd_read' = gfd_read \ {a} /\ gfd_write' = gfd_write /\ pipe_auto_read(p)
  BY DEF DispatchRead, Turn
<1>3. a = "master" <=> p = "master_output"
  OBVIOUS
<1> HIDE DEF p
<1>4. CASE ~NDEBUG /\ fifo_avail(p) = 0 /\ End("full before read")
  <2>1. Full(fifo[p])
    BY <1>1, <1>4, NoneAvail DEF Typed
  <2>2. a \in fd_read
    BY <1>1, <1>2 DEF Caused, Reported
  <2>3. Begun
    BY <1>1, <1>4, <2>1, <2>2 DEF Caused, Unfilled
  <2> QED BY <1>2, <1>4, <2>3, FullReadCaused
<1>5. CASE ReadData(p)
  BY <1>1, <1>2, <1>5, ReadDataCaused
<1>6. CASE p = "master_output" /\ ReadStart
  <2>1. CASE End("bailed")
    <3>1. pc' = "bailed" /\ UNCHANGED <<structs, select>>
      BY <2>1 DEF End
    <3>2. ~Running' /\ pc' \notin Asserts
      BY <3>1 DEF Running, Asserts
    <3> QED BY <1>1, <1>2, <3>1, <3>2, StoppedCaused
  <2>2. CASE ~End("bailed")
    BY <1>2, <1>3, <1>6, <2>2, StartCaused
  <2> QED BY <2>1, <2>2
<1> QED BY <1>2, <1>4, <1>5, <1>6 DEF pipe_auto_read

LEMMA ReapReadCaused ==
  ASSUME Typed, Typed', LateLast, Followed, Children, Caused, task_default_sigchild
  PROVE  Caused'
<1>1. /\ pc = "reap" /\ Running /\ "input_master" \in Pipe /\ pipe_auto_read("input_master")
      /\ UNCHANGED <<gfd_read, gfd_write>>
  BY DEF task_default_sigchild, events, Running, Pipe
<1>2. Begun
  BY <1>1 DEF Caused, Unfilled
<1>3. CASE End("full before read")
  BY <1>1, <1>2, <1>3, FullReadCaused
<1>4. CASE ReadData("input_master")
  <2>1. /\ conn' \subseteq conn
        /\ fd_write' \subseteq fd_write \union {Sink(head, "input_master")}
        /\ fd_write \intersect conn' \subseteq fd_write'
        /\ fd_read' \subseteq fd_read
        /\ UNCHANGED <<head, pc, rz>>
    BY <1>1, <1>4, ReadEffect DEF Typed
  <2>2. Sink(head, "input_master") \in Sinks /\ gfd_read = {} /\ gfd_write = {}
    BY <1>1, EndsAre DEF Caused, Reported
  <2>3. Reported'
    BY <1>1, <2>1, <2>2 DEF Caused, Reported
  <2>4. Unfilled'
    BY <1>1, <1>2, <1>4, ReadBegun DEF Unfilled
  <2>5. Allowed' /\ AssertCause'
    BY <1>1, <2>1 DEF Allowed, AssertCause
  <2> QED BY <2>3, <2>4, <2>5 DEF Caused
<1> QED BY <1>1, <1>3, <1>4 DEF pipe_auto_read

LEMMA SinkIs ==
  ASSUME Typed, Reported, NEW a, DispatchWrite(a)
  PROVE  LET p == IF a = "master" THEN "input_master" ELSE "master_output"
         IN  /\ a \in Sinks /\ p \in Pipe
             /\ a = "master" \/ head = "echo" => Sink(head, p) = a
             /\ a # "master" /\ head = "rz" => Sink(head, p) = "rzwrite"
             /\ a = "master" \/ a \in conn
             /\ a = "rzwrite" => head = "rz"
<1>1. a \in Sinks /\ pc = "dispatch" /\ a \in gfd_write /\ (a \in conn \/ a = "master")
  BY DEF DispatchWrite, Turn, Reported
<1>2. a = "rzwrite" => head = "rz"
  BY <1>1 DEF Reported, Running, Typed, TypeOK
<1> QED BY <1>1, <1>2 DEF Sinks, Sink, Pipe

LEMMA FullWriteCaused ==
  ASSUME Typed, Caused, NEW a, DispatchWrite(a), pc' = "full after write"
  PROVE  Caused'
<1> DEFINE p == IF a = "master" THEN "input_master" ELSE "master_output"
<1>1. /\ a \in Sinks /\ p \in Pipe
      /\ a = "master" \/ head = "echo" => Sink(head, p) = a
      /\ a # "master" /\ head = "rz" => Sink(head, p) = "rzwrite"
      /\ a = "master" \/ a \in conn
      /\ a = "rzwrite" => head = "rz"
  BY SinkIs DEF Caused
<1>2. /\ pc = "dispatch" /\ a \in gfd_write /\ a \notin gfd_read /\ Running /\ "stdout" \in conn
      /\ pipe_auto_write(p) /\ gfd_write' = gfd_write \ {a} /\ gfd_read' = gfd_read
      /\ head \in {"echo", "rz"}
  BY DEF DispatchWrite, Turn, Running, Typed, TypeOK
<1>3. a = "master" => p = "input_master"
  OBVIOUS
<1>4. a # "master" => p = "master_output"
  OBVIOUS
<1> HIDE DEF p
<1>5. /\ UNCHANGED <<structs, select, children>>
      /\ Full(fifo[p])
      /\ ~(Sink(head, p) \in conn /\ RoomIn(Sink(head, p)) > 0 /\ ~Broken(Sink(head, p)))
  BY <1>1, <1>2, WriteAborts DEF Typed
<1>6. ASSUME a = "master" PROVE AssertCause'
  <2>1. RoomIn("master") = room["master"] /\ ~Broken("master") /\ Sink(head, p) = "master"
    BY <1>1, <1>6 DEF RoomIn, Broken
  <2>2. "master" \notin conn
    BY <1>2, <1>3, <1>5, <1>6, <2>1 DEF Caused, Allowed
  <2> QED BY <1>5, <2>2 DEF AssertCause, select
<1>7. ASSUME a = "stdout" PROVE AssertCause'
  <2>1. RoomIn("stdout") = room["stdout"] /\ ~Broken("stdout")
    BY DEF RoomIn, Broken
  <2>2. head = "rz"
    BY <1>1, <1>2, <1>5, <1>7, <2>1 DEF Caused, Allowed
  <2>3. "stdout" \in fd_write
    BY <1>2, <1>7 DEF Caused, Reported
  <2> QED BY <1>5, <2>2, <2>3 DEF AssertCause, structs, select
<1>8. ASSUME a = "rzwrite" PROVE AssertCause'
  <2>1. head = "rz" /\ Sink(head, p) = "rzwrite" /\ p = "master_output"
    BY <1>1, <1>4, <1>8
  <2>2. rz = "zombie" \/ "stdout" \in fd_write
    BY <1>1, <1>2, <1>5, <1>8, <2>1 DEF Caused, Allowed, Broken
  <2> QED BY <1>5, <2>1, <2>2 DEF AssertCause, structs, select, children
<1>9. AssertCause'
  BY <1>1, <1>6, <1>7, <1>8 DEF Sinks
<1>10. Reported'
  BY <1>2, <1>5 DEF Caused, Reported, structs, select, Running
<1>11. Unfilled' /\ Allowed'
  BY DEF Unfilled, Allowed, Running
<1> QED BY <1>9, <1>10, <1>11 DEF Caused

LEMMA DispatchWriteCaused ==
  ASSUME Typed, Typed', Caused, NEW a, DispatchWrite(a)
  PROVE  Caused'
<1> DEFINE p == IF a = "master" THEN "input_master" ELSE "master_output"
<1>1. CASE pc' = "full after write"
  BY <1>1, FullWriteCaused
<1>2. CASE pc' # "full after write"
  <2>1. /\ a \in Sinks /\ p \in Pipe
        /\ a = "master" \/ head = "echo" => Sink(head, p) = a
        /\ a # "master" /\ head = "rz" => Sink(head, p) = "rzwrite"
        /\ a = "rzwrite" => head = "rz"
    BY SinkIs DEF Caused
  <2>2. /\ pc = "dispatch" /\ a \in gfd_write /\ Running /\ "stdout" \in conn /\ "stdout" \in conn'
        /\ pipe_auto_write(p) /\ gfd_write' = gfd_write \ {a} /\ gfd_read' = gfd_read
        /\ head \in {"echo", "rz"}
    BY DEF DispatchWrite, Turn, Running, Typed, TypeOK
  <2>3. (a = "master" => p = "input_master") /\ (a # "master" => p = "master_output")
    OBVIOUS
  <2> HIDE DEF p
  <2>4. /\ \A o \in Pipe : o # p => fifo'[o] = fifo[o]
        /\ conn' \subseteq conn
        /\ fd_write' \subseteq fd_write /\ (fd_write \intersect conn') \ {Sink(head, p)} \subseteq fd_write'
        /\ fd_read \intersect conn' \subseteq fd_read' /\ fd_read' \subseteq fd_read \union {Source(head, p)}
        /\ \A o \in Sinks \ {Sink(head, p)} : RoomIn(o)' = RoomIn(o)
        /\ Full(fifo'[p]) => NDEBUG /\ Full(fifo[p])
        /\ UNCHANGED <<head, pc, rz, script, inbox>>
    BY <1>2, <2>1, <2>2, WriteEffect DEF Typed
  <2>5. Source(head, p) \in {"stdin", "master", "rzread"} /\ Sink(head, p) \in Sinks
        /\ Sinks = {"stdout", "master", "rzwrite"}
    BY <2>1, EndsAre DEF Sinks
  <2>6. a # "stdout" => Sink(head, p) # "stdout"
    BY <2>1, <2>2, <2>5
  <2>7. Reported'
    BY <2>2, <2>4, <2>5, <2>6 DEF Caused, Reported, Running
  <2>8. Unfilled'
    <3>1. Begun' = Begun
      BY <2>4, BegunSame
    <3>2. ASSUME ~Begun, ~NDEBUG, NEW o \in Pipe, Source(head, o) \in fd_read' PROVE ~Full(fifo'[o])
      <4>1. CASE o = p
        BY <2>4, <3>2, <4>1
      <4>2. CASE o # p
        BY <2>1, <2>2, <2>4, <3>2, <4>2, EndsDiffer DEF Caused, Unfilled
      <4> QED BY <4>1, <4>2
    <3>3. ~Begun => head' = "echo" /\ pc' \in {"wait", "dispatch"}
      BY <2>2, <2>4 DEF Caused, Unfilled
    <3> QED BY <2>4, <3>1, <3>2, <3>3 DEF Unfilled
  <2>9. Allowed'
    <3>1. /\ RoomIn("master") = room["master"] /\ RoomIn("master")' = room'["master"]
          /\ RoomIn("stdout") = room["stdout"] /\ RoomIn("stdout")' = room'["stdout"]
      BY DEF RoomIn
    <3>2. CASE a = "master"
      <4>1. /\ Sink(head, p) = "master" /\ fifo'["master_output"] = fifo["master_output"]
            /\ RoomIn("stdout")' = RoomIn("stdout") /\ RoomIn("rzwrite")' = RoomIn("rzwrite")
        BY <2>1, <2>3, <2>4, <2>5, <3>2 DEF Pipe
      <4> QED BY <2>2, <2>4, <3>1, <3>2, <4>1 DEF Caused, Allowed
    <3>3. CASE a = "stdout"
      <4>1. /\ fifo'["input_master"] = fifo["input_master"] /\ Sink(head, p) # "master"
            /\ RoomIn("master")' = RoomIn("master")
        BY <2>1, <2>2, <2>3, <2>4, <2>5, <3>3 DEF Pipe
      <4>2. head = "echo" => "rzwrite" \notin gfd_write
        BY <2>2 DEF Caused, Reported
      <4>3. head = "rz" => "stdout" \in fd_write'
        BY <2>1, <2>2, <2>4, <3>3 DEF Caused, Reported
      <4> QED BY <2>2, <2>4, <3>1, <3>3, <4>1, <4>2, <4>3 DEF Caused, Allowed
    <3>4. CASE a = "rzwrite"
      <4>1. /\ fifo'["input_master"] = fifo["input_master"] /\ Sink(head, p) = "rzwrite"
            /\ RoomIn("master")' = RoomIn("master") /\ head = "rz"
        BY <2>1, <2>3, <2>4, <2>5, <3>4 DEF Pipe
      <4> QED BY <2>2, <2>4, <3>1, <3>4, <4>1 DEF Caused, Allowed
    <3> QED BY <2>1, <2>5, <3>2, <3>3, <3>4
  <2>10. AssertCause'
    BY <2>2, <2>4 DEF AssertCause
  <2> QED BY <2>7, <2>8, <2>9, <2>10 DEF Caused
<1> QED BY <1>1, <1>2

\* A step of the loop that leaves the pipes and their ends alone.
LEMMA QuietCaused ==
  ASSUME Caused, Running, Running', pc' \in {"wait", "dispatch"} \/ pc' = pc \/ Begun,
         UNCHANGED <<head, fifo, conn, fd_read, fd_write, rz, room, rzin, script>>,
         inbox'["master"] = inbox["master"],
         gfd_read' \subseteq gfd_read, gfd_write' \subseteq gfd_write,
         pc' = "dispatch" => pc = "dispatch",
         pc' = "dispatch" \/ gfd_read' \union gfd_write' = {}
  PROVE  Caused'
<1>1. Reported'
  BY DEF Caused, Reported
<1>2. Unfilled'
  BY BegunSame DEF Caused, Unfilled
<1>3. \A a : RoomIn(a)' = RoomIn(a)
  BY DEF RoomIn
<1>4. Allowed'
  BY <1>3 DEF Caused, Allowed
<1>5. AssertCause'
  BY DEF AssertCause, Running
<1> QED BY <1>1, <1>2, <1>4, <1>5 DEF Caused

\* What select reports may be written, and so is Allowed.
LEMMA WaitCaused ==
  ASSUME Typed, Caused, io_wait
  PROVE  Caused'
<1>1. /\ pc = "wait" /\ pc' = "dispatch" /\ Running /\ Running'
      /\ UNCHANGED <<head, fifo, conn, fd_read, fd_write, rz, room, rzin, script, inbox>>
      /\ gfd_read' \subseteq fd_read /\ gfd_write' \subseteq fd_write
      /\ \A a \in gfd_write' : RoomIn(a) > 0 \/ Broken(a)
  BY DEF io_wait, structs, select, children, outside, Running, Writable
<1>2. Reported'
  <2>1. "rzwrite" \in fd_write => head # "echo"
    BY DEF Typed, TypeOK, Caused, Reported, RzAtoms
  <2> QED BY <1>1, <2>1 DEF Caused, Reported
<1>3. Unfilled'
  BY <1>1, BegunSame DEF Caused, Unfilled
<1>4. Allowed'
  <2>1. \A a : RoomIn(a)' = RoomIn(a)
    BY <1>1 DEF RoomIn
  <2>2. RoomIn("master") = room["master"] /\ RoomIn("stdout") = room["stdout"]
    BY DEF RoomIn
  <2>3. ~Broken("master") /\ ~Broken("stdout") /\ (Broken("rzwrite") => rz = "zombie")
    BY DEF Broken
  <2> QED BY <1>1, <2>1, <2>2, <2>3 DEF Allowed
<1>5. AssertCause'
  BY <1>1 DEF AssertCause
<1> QED BY <1>2, <1>3, <1>4, <1>5 DEF Caused

\* The steps that follow a transfer, when nothing is reported any more.
LEMMA AfterCaused ==
  ASSUME Caused, Begun, Running, pc # "dispatch", Running' \/ pc' = "exited", pc' # "dispatch",
         UNCHANGED <<gfd_read, gfd_write, script>>, inbox'["master"] = inbox["master"],
         head' = "echo" => conn' \intersect RzAtoms = {},
         fd_read' \subseteq {"stdin", "master", "rzread"}, fd_write' \subseteq Sinks
  PROVE  Caused'
<1>1. gfd_read = {} /\ gfd_write = {}
  BY DEF Caused, Reported
<1>2. Reported'
  BY <1>1 DEF Reported
<1>3. Begun'
  BY BegunSame
<1>4. Unfilled' /\ Allowed'
  BY <1>3 DEF Unfilled, Allowed
<1>5. AssertCause'
  BY DEF AssertCause, Running
<1> QED BY <1>2, <1>4, <1>5 DEF Caused

LEMMA LoopCaused ==
  ASSUME Typed, Typed', LateLast, LateLast', Followed, Followed', Children, Caused, Loop
  PROVE  Caused'
<1>1. CASE master_idle
  <2>1. /\ pc = "wait" /\ pc' = (IF head = "rz" THEN "remove" ELSE "exited")
        /\ UNCHANGED <<head, fifo, conn, fd_read, fd_write, rz, room, rzin, script, inbox, gfd_read, gfd_write>>
        /\ UNCHANGED <<structs, select>>
    BY <1>1 DEF master_idle, RemoveAll, structs, select, events, children, outside
  <2>2. CASE head = "rz"
    <3>1. Begun
      BY <2>1, <2>2 DEF Caused, Unfilled, Running
    <3> QED BY <2>1, <2>2, <3>1, QuietCaused DEF Running, Caused, Reported
  <2>3. CASE head # "rz"
    BY <2>1, <2>3, StoppedCaused DEF Running, Asserts
  <2> QED BY <2>2, <2>3
<1>2. CASE io_wait
  BY <1>2, WaitCaused
<1>3. ASSUME NEW a \in Atom, DispatchRead(a) PROVE Caused'
  BY <1>3, DispatchReadCaused
<1>4. ASSUME NEW a \in Atom, DispatchWrite(a) PROVE Caused'
  BY <1>4, DispatchWriteCaused
<1>5. ASSUME NEW a \in Atom, DispatchStale(a) PROVE Caused'
  <2>1. /\ pc = "dispatch" /\ pc' = pc
        /\ UNCHANGED <<head, fifo, conn, fd_read, fd_write, rz, room, rzin, script, inbox>>
        /\ gfd_read' \subseteq gfd_read /\ gfd_write' \subseteq gfd_write
    BY <1>5 DEF DispatchStale, Turn, structs, select, children, outside
  <2> QED BY <2>1, QuietCaused DEF Running
<1>6. CASE typing_io_proc
  <2>1. /\ pc = "dispatch" /\ pc' = pc
        /\ UNCHANGED <<head, fifo, conn, fd_read, fd_write, rz, room, rzin, script>>
        /\ gfd_read' \subseteq gfd_read /\ gfd_write' \subseteq gfd_write
    BY <1>6 DEF typing_io_proc, Turn, structs, select
  <2>2. inbox'["master"] = inbox["master"]
    BY <1>6 DEF typing_io_proc, Took, Typed, TypeOK
  <2> QED BY <2>1, <2>2, QuietCaused DEF Running
<1>7. CASE master_check_sigchild
  <2>1. /\ pc = "dispatch" /\ gfd_read = {} /\ gfd_write = {}
        /\ UNCHANGED <<head, fifo, conn, fd_read, fd_write, rz, room, rzin, script, inbox, gfd_read, gfd_write>>
        /\ UNCHANGED <<structs, select>>
        /\ \/ pc' = "wait"
           \/ rz = "zombie" /\ pc' \in {"reap", "remove"}
           \/ pc' = (IF head = "rz" THEN "remove" ELSE "exited")
    BY <1>7 DEF master_check_sigchild, RemoveAll, structs, select, events, outside
  <2>2. head = "rz" => Begun
    BY <2>1 DEF Caused, Unfilled, Running
  <2>3. rz = "zombie" => head = "rz"
    BY DEF LateLast, Typed, TypeOK
  <2>4. CASE pc' \in {"wait", "reap", "remove"}
    <3>1. Running /\ Running' /\ (pc' \in {"wait", "dispatch"} \/ Begun)
      BY <2>1, <2>2, <2>3, <2>4 DEF Running
    <3> QED BY <2>1, <2>4, <3>1, QuietCaused
  <2>5. CASE pc' = "exited"
    BY <2>1, <2>5, StoppedCaused DEF Running, Asserts
  <2> QED BY <2>1, <2>4, <2>5
<1>8. CASE task_default_sigchild
  BY <1>8, ReapReadCaused
<1>9. CASE fifo_write
  <2>1. /\ pc = "reap" /\ pc' = "remove"
        /\ UNCHANGED <<head, conn, fd_read, fd_write, script, inbox, gfd_read, gfd_write>>
    BY <1>9 DEF fifo_write, select, events
  <2>2. Begun
    BY <2>1 DEF Caused, Unfilled, Running
  <2> QED BY <2>1, <2>2, AfterCaused DEF Running, Caused, Reported
<1>10. CASE task_remove
  <2>1. /\ pc = "remove" /\ pc' \in {"restore", "idle_end"} /\ conn' = conn \ RzAtoms
        /\ fd_read' = (fd_read \ RzAtoms) \union StdinOpen /\ fd_write' = fd_write \ RzAtoms
        /\ UNCHANGED <<script, gfd_read, gfd_write>> /\ inbox' = [inbox EXCEPT !["rzread"] = <<>>]
    BY <1>10 DEF task_remove, events, AfterRemove
  <2>2. inbox'["master"] = inbox["master"]
    BY <2>1 DEF Typed, TypeOK
  <2>3. Begun
    BY <2>1 DEF Caused, Unfilled, Running
  <2>4. /\ fd_read' \subseteq {"stdin", "master", "rzread"} /\ fd_write' \subseteq Sinks
        /\ conn' \intersect RzAtoms = {}
    BY <2>1 DEF Caused, Reported, StdinOpen
  <2> QED BY <2>1, <2>2, <2>3, <2>4, AfterCaused DEF Running
<1>11. CASE idle_end
  <2>1. /\ pc = "idle_end" /\ pc' = "restore" /\ pipe_write(<<"status">>)
        /\ UNCHANGED <<head, conn, fd_read, script, inbox, gfd_read, gfd_write>>
    BY <1>11 DEF idle_end, events
  <2>2. Begun
    BY <2>1 DEF Caused, Unfilled, Running
  <2>3. fd_write' \subseteq Sinks
    BY <2>1 DEF pipe_write, Caused, Reported, Sinks
  <2> QED BY <2>1, <2>2, <2>3, AfterCaused DEF Running, Caused, Reported
<1>12. CASE rzt_destructor_proc
  <2>1. /\ pc = "restore" /\ pc' \in {"exited", "wait"}
        /\ UNCHANGED <<head, conn, fd_read, script, inbox, gfd_read, gfd_write>>
        /\ fd_write' = fd_write \/ pipe_write(savebuf)
    BY <1>12 DEF rzt_destructor_proc, events
  <2>2. Begun
    BY <2>1 DEF Caused, Unfilled, Running
  <2>3. fd_write' \subseteq Sinks
    BY <2>1 DEF pipe_write, Caused, Reported, Sinks
  <2> QED BY <2>1, <2>2, <2>3, AfterCaused DEF Running, Caused, Reported
<1> QED BY <1>1, <1>2, <1>3, <1>4, <1>5, <1>6, <1>7, <1>8, <1>9, <1>10, <1>11, <1>12
        DEF Loop, Dispatch

LEMMA EnvironmentCaused ==
  ASSUME Typed, Caused, Environment
  PROVE  Caused'
<1>1. /\ UNCHANGED <<head, fifo, conn, fd_read, fd_write, gfd_read, gfd_write, pc>> /\ Running
      /\ rz = "zombie" => rz' = "zombie"
  BY DEF Environment, ShellPrint, ShellExit, RzRead, RzSpeaks, RzExit, UserTypes, Consume,
         structs, select, events, children
<1>2. Begun' = Begun
  <2>1. CASE ShellPrint
    BY <2>1, RestPrinted DEF Begun
  <2>2. CASE ~ShellPrint
    <3>1. script' = script /\ inbox'["master"] = inbox["master"]
      BY <2>2 DEF Environment, ShellExit, RzRead, RzSpeaks, RzExit, UserTypes, Consume, outside, Typed, TypeOK
    <3> QED BY <3>1, BegunSame
  <2> QED BY <2>1, <2>2
<1>3. Reported' /\ AssertCause'
  BY <1>1 DEF Caused, Reported, AssertCause, Running
<1>4. Unfilled'
  BY <1>1, <1>2 DEF Caused, Unfilled, Running
<1>5. /\ room["master"] > 0 => room'["master"] > 0
      /\ room["stdout"] > 0 => room'["stdout"] > 0
      /\ RoomIn("rzwrite") > 0 => RoomIn("rzwrite")' > 0
  <2>1. CASE RzRead
    <3>1. rzin \in Seq(Tokens) /\ rzin # <<>> /\ rzin' = Tail(rzin) /\ room' = room
      BY <2>1 DEF RzRead, Typed, TypeOK
    <3>2. Len(rzin) \in Nat /\ Len(Tail(rzin)) = Len(rzin) - 1 /\ MaxRoom \in Nat
      BY <3>1, HeadTailAre, ElementsAre, SessionAssumption
    <3> QED BY <3>1, <3>2 DEF RoomIn
  <2>2. ASSUME NEW a \in {"stdout", "master"}, Consume(a)
        PROVE  /\ room["master"] > 0 => room'["master"] > 0
               /\ room["stdout"] > 0 => room'["stdout"] > 0
               /\ rzin' = rzin
    <3>1. room' = [room EXCEPT ![a] = @ + 1] /\ rzin' = rzin
          /\ room \in [{"stdout", "master"} -> 0..MaxRoom] /\ MaxRoom \in Nat
      BY <2>2, SessionAssumption DEF Consume, Typed, TypeOK
    <3> QED BY <3>1
  <2>3. CASE ~RzRead /\ ~Consume("stdout") /\ ~Consume("master")
    <3>1. room' = room /\ rzin' = rzin
      BY <2>3 DEF Environment, ShellPrint, ShellExit, RzSpeaks, RzExit, UserTypes, outside
    <3> QED BY <3>1 DEF RoomIn
  <2> QED BY <2>1, <2>2, <2>3 DEF RoomIn
<1>6. Allowed'
  BY <1>1, <1>5 DEF Caused, Allowed
<1> QED BY <1>3, <1>4, <1>6 DEF Caused

(***************************************************************************)
(* The asserts of pipe.c fail only for the causes AssertCause names: a read*)
(* into a full fifo after a transfer has begun, a write to a sink that is  *)
(* gone or to rz on an event of the terminal (pipe.c:161, pipe.c:129).     *)
(***************************************************************************)
THEOREM SessionAssertCause == Spec => []AssertCause
<1>1. Init => Caused
  <2> SUFFICES ASSUME Init PROVE Caused
    OBVIOUS
  <2>1. Reported
    BY DEF Init, Reported, Echo, RzAtoms, Running
  <2>2. Unfilled
    <3>1. \A p \in Pipe : fifo[p] = <<>> /\ ~Full(<<>>)
      BY EmptySeq, SessionAssumption DEF Init, Full
    <3> QED BY <3>1 DEF Init, Unfilled
  <2>3. Allowed /\ AssertCause
    BY DEF Init, Allowed, AssertCause
  <2> QED BY <2>1, <2>2, <2>3 DEF Caused
<1>2. Typed /\ LateLast /\ Followed /\ Cleanly /\ Caused /\ [Next]_vars
        /\ Typed' /\ LateLast' /\ Followed' => Caused'
  <2> SUFFICES ASSUME Typed, LateLast, Followed, Cleanly, Caused, [Next]_vars, Typed', LateLast', Followed'
               PROVE  Caused'
    OBVIOUS
  <2>1. CASE Loop
    BY <2>1, LoopCaused DEF Cleanly
  <2>2. CASE Environment
    BY <2>2, EnvironmentCaused
  <2>3. CASE UNCHANGED vars
    <3>1. Begun' = Begun
      BY <2>3, BegunSame DEF vars, outside
    <3>2. \A a : RoomIn(a)' = RoomIn(a)
      BY <2>3 DEF vars, outside, RoomIn
    <3> QED BY <2>3, <3>1, <3>2 DEF Caused, Reported, Unfilled, Allowed, AssertCause, Running, vars, structs, select,
               events, children, outside
  <2> QED BY <2>1, <2>2, <2>3 DEF Next
<1>3. Spec => [](Typed /\ LateLast /\ Followed /\ Cleanly /\ Caused)
  BY <1>1, <1>2, InitTyped, NextTyped, InitLate, NextLate, InitFollowed, NextFollowed, InitCleanly,
     NextCleanly, PTL DEF Spec
<1>4. Caused => AssertCause
  BY DEF Caused
<1> QED BY <1>3, <1>4, PTL

-----------------------------------------------------------------------------
(***************************************************************************)
(* The order of the text: shown, in the fifo, saved, and yet to be read,   *)
(* and who may be missing of it.                                           *)
(***************************************************************************)
Before(x, y) == \A t \in Elements(x) \intersect Text, u \in Elements(y) \intersect Text :
                  Place(Script, t) < Place(Script, u)

InOrder(a, b, c, r, missing) ==
  /\ Ordered(a) /\ Ordered(b) /\ Ordered(c) /\ Ordered(r)
  /\ Before(a, b) /\ Before(a, c) /\ Before(a, r) /\ Before(b, c) /\ Before(b, r) /\ Before(c, r)
  /\ (Elements(a) \union Elements(b) \union Elements(c) \union Elements(r)) \intersect Text
       = (Elements(Script) \intersect Text) \ missing

NoText(s) == Elements(s) \intersect Text = {}

\* All of it is in order, and something is saved only behind a ZFIN.
Saved ==
  /\ InOrder(shown, fifo["master_output"], savebuf, Rest, Elements(astray) \union Elements(dropped))
  /\ savebuf = <<>> \/ proc["master_output"] = "zfin_save" \/ pc \in {"idle_end", "restore"}

LEMMA OrderedJoined ==
  ASSUME NEW x \in Seq(Tokens), NEW y \in Seq(Tokens)
  PROVE  Ordered(x \o y) <=> Ordered(x) /\ Ordered(y) /\ Before(x, y)
<1> DEFINE s == x \o y
           m == Len(x)
           n == Len(y)
<1>1. /\ m \in Nat /\ n \in Nat /\ DOMAIN x = 1..m /\ DOMAIN y = 1..n /\ DOMAIN s = 1..m + n
      /\ \A i \in 1..m : s[i] = x[i]
      /\ \A i \in 1..n : s[m + i] = y[i]
  <2>1. s \in Seq(Tokens) /\ Len(s) = m + n
    BY Joined
  <2>2. DOMAIN s = 1..Len(s)
    <3> HIDE DEF s
    <3> QED BY <2>1, ElementsAre
  <2> QED BY <2>1, <2>2, Joined, ElementsAre
<1>2. /\ \A t : t \in Elements(x) <=> \E i \in 1..m : x[i] = t
      /\ \A t : t \in Elements(y) <=> \E i \in 1..n : y[i] = t
  BY ElementsAre
<1> HIDE DEF s, m, n
<1>3. ASSUME Ordered(s) PROVE Ordered(x) /\ Ordered(y) /\ Before(x, y)
  <2>1. Ordered(x)
    BY <1>1, <1>3 DEF Ordered
  <2>2. ASSUME NEW i \in 1..n, NEW j \in 1..n, i < j, y[i] \in Text, y[j] \in Text
        PROVE  Place(Script, y[i]) < Place(Script, y[j])
    <3>1. m + i \in 1..m + n /\ m + j \in 1..m + n /\ m + i < m + j
      BY <1>1, <2>2
    <3>2. s[m + i] = y[i] /\ s[m + j] = y[j]
      BY <1>1
    <3> QED BY <1>1, <1>3, <2>2, <3>1, <3>2 DEF Ordered
  <2>3. ASSUME NEW i \in 1..m, NEW j \in 1..n, x[i] \in Text, y[j] \in Text
        PROVE  Place(Script, x[i]) < Place(Script, y[j])
    <3>1. i \in 1..m + n /\ m + j \in 1..m + n /\ i < m + j
      BY <1>1
    <3>2. s[i] = x[i] /\ s[m + j] = y[j]
      BY <1>1
    <3> QED BY <1>1, <1>3, <2>3, <3>1, <3>2 DEF Ordered
  <2>4. Ordered(y)
    BY <1>1, <2>2 DEF Ordered
  <2>5. Before(x, y)
    BY <1>2, <2>3 DEF Before
  <2> QED BY <2>1, <2>4, <2>5
<1>4. ASSUME Ordered(x), Ordered(y), Before(x, y) PROVE Ordered(s)
  <2>1. ASSUME NEW i \in 1..m + n, NEW j \in 1..m + n, i < j, s[i] \in Text, s[j] \in Text
        PROVE  Place(Script, s[i]) < Place(Script, s[j])
    <3>1. CASE j <= m
      <4>1. i \in 1..m /\ j \in 1..m
        BY <1>1, <2>1, <3>1
      <4> QED BY <1>1, <1>4, <2>1, <4>1 DEF Ordered
    <3>2. CASE i > m
      <4>1. i - m \in 1..n /\ j - m \in 1..n /\ i - m < j - m /\ m + (i - m) = i /\ m + (j - m) = j
        BY <1>1, <2>1, <3>2
      <4>2. s[i] = y[i - m] /\ s[j] = y[j - m]
        BY <1>1, <4>1
      <4> QED BY <1>1, <1>4, <2>1, <4>1, <4>2 DEF Ordered
    <3>3. CASE i <= m /\ j > m
      <4>1. i \in 1..m /\ j - m \in 1..n /\ m + (j - m) = j
        BY <1>1, <2>1, <3>3
      <4>2. s[i] = x[i] /\ s[j] = y[j - m]
        BY <1>1, <4>1
      <4>3. s[i] \in Elements(x) /\ s[j] \in Elements(y)
        BY <1>2, <4>1, <4>2
      <4> QED BY <1>4, <2>1, <4>3 DEF Before
    <3> QED BY <1>1, <3>1, <3>2, <3>3
  <2> QED BY <1>1, <2>1 DEF Ordered
<1> QED BY <1>3, <1>4 DEF s

LEMMA BeforeJoined ==
  ASSUME NEW x \in Seq(Tokens), NEW y \in Seq(Tokens), NEW z
  PROVE  /\ Before(x \o y, z) <=> Before(x, z) /\ Before(y, z)
         /\ Before(z, x \o y) <=> Before(z, x) /\ Before(z, y)
<1>1. Elements(x \o y) = Elements(x) \union Elements(y)
  BY JoinedElements
<1> QED BY <1>1 DEF Before

LEMMA NoTextOrdered ==
  ASSUME NEW x \in Seq(Tokens), NoText(x)
  PROVE  Ordered(x) /\ \A y : Before(x, y) /\ Before(y, x)
<1>1. \A i \in DOMAIN x : x[i] \notin Text
  BY DEF NoText, Elements
<1> QED BY <1>1 DEF Ordered, Before, NoText

LEMMA InOrderIs ==
  ASSUME NEW a \in Seq(Tokens), NEW b \in Seq(Tokens), NEW c \in Seq(Tokens), NEW r \in Seq(Tokens), NEW m
  PROVE  InOrder(a, b, c, r, m)
           <=> /\ Ordered(a \o b \o c \o r)
               /\ Elements(a \o b \o c \o r) \intersect Text = (Elements(Script) \intersect Text) \ m
<1>1. a \o b \in Seq(Tokens) /\ a \o b \o c \in Seq(Tokens)
  BY Joined
<1>2. Elements(a \o b \o c \o r) = Elements(a) \union Elements(b) \union Elements(c) \union Elements(r)
  <2> DEFINE ab == a \o b
             abc == ab \o c
  <2>1. Elements(ab) = Elements(a) \union Elements(b) /\ ab \in Seq(Tokens)
    BY <1>1, JoinedElements
  <2> HIDE DEF ab
  <2>2. Elements(abc) = Elements(ab) \union Elements(c) /\ abc \in Seq(Tokens)
    BY <2>1, Joined, JoinedElements
  <2> HIDE DEF abc
  <2>3. Elements(abc \o r) = Elements(abc) \union Elements(r)
    BY <2>2, JoinedElements
  <2> QED BY <2>1, <2>2, <2>3 DEF abc, ab
<1>3. Ordered(a \o b \o c \o r)
        <=> /\ Ordered(a) /\ Ordered(b) /\ Ordered(c) /\ Ordered(r)
            /\ Before(a, b) /\ Before(a, c) /\ Before(a, r) /\ Before(b, c) /\ Before(b, r) /\ Before(c, r)
  <2>1. Ordered(a \o b \o c \o r) <=> Ordered(a \o b \o c) /\ Ordered(r) /\ Before(a \o b \o c, r)
    BY <1>1, OrderedJoined
  <2>2. Ordered(a \o b \o c) <=> Ordered(a \o b) /\ Ordered(c) /\ Before(a \o b, c)
    BY <1>1, OrderedJoined
  <2>3. Ordered(a \o b) <=> Ordered(a) /\ Ordered(b) /\ Before(a, b)
    BY OrderedJoined
  <2>4. Before(a \o b \o c, r) <=> Before(a, r) /\ Before(b, r) /\ Before(c, r)
    BY <1>1, BeforeJoined
  <2>5. Before(a \o b, c) <=> Before(a, c) /\ Before(b, c)
    BY BeforeJoined
  <2> QED BY <2>1, <2>2, <2>3, <2>4, <2>5
<1> QED BY <1>2, <1>3 DEF InOrder

\* Shown what was in the fifo, or given to rz what is no text.
LEMMA FifoOut ==
  ASSUME NEW a \in Seq(Tokens), NEW w \in Seq(Tokens), NEW b \in Seq(Tokens), NEW c, NEW r, NEW m,
         InOrder(a, w \o b, c, r, m)
  PROVE  InOrder(a \o w, b, c, r, m) /\ (NoText(w) => InOrder(a, b, c, r, m))
<1>1. Elements(w \o b) = Elements(w) \union Elements(b) /\ Elements(a \o w) = Elements(a) \union Elements(w)
  BY JoinedElements
<1>2. /\ Ordered(w) /\ Ordered(b) /\ Before(w, b) /\ Before(a, w) /\ Before(a, b)
      /\ Before(w, c) /\ Before(b, c) /\ Before(w, r) /\ Before(b, r)
  BY OrderedJoined, BeforeJoined DEF InOrder
<1>3. InOrder(a \o w, b, c, r, m)
  <2>1. Ordered(a \o w) /\ Before(a \o w, b) /\ Before(a \o w, c) /\ Before(a \o w, r)
    BY <1>2, OrderedJoined, BeforeJoined DEF InOrder
  <2> QED BY <1>1, <1>2, <2>1 DEF InOrder
<1>4. ASSUME NoText(w) PROVE InOrder(a, b, c, r, m)
  BY <1>1, <1>2, <1>4 DEF InOrder, NoText
<1> QED BY <1>3, <1>4

\* Read into the fifo, with nothing saved.
LEMMA FifoIn ==
  ASSUME NEW a \in Seq(Tokens), NEW b \in Seq(Tokens), NEW u \in Seq(Tokens), NEW r \in Seq(Tokens), NEW m,
         InOrder(a, b, <<>>, u \o r, m)
  PROVE  InOrder(a, b \o u, <<>>, r, m)
<1>1. Elements(u \o r) = Elements(u) \union Elements(r) /\ Elements(b \o u) = Elements(b) \union Elements(u)
  BY JoinedElements
<1>2. /\ Ordered(u) /\ Ordered(r) /\ Before(u, r) /\ Before(a, u) /\ Before(a, r)
      /\ Before(b, u) /\ Before(b, r)
  BY OrderedJoined, BeforeJoined DEF InOrder
<1>3. Elements(<<>>) = {}
  BY DEF Elements
<1>4. Ordered(b \o u) /\ Before(a, b \o u) /\ Before(b \o u, r)
  BY <1>2, OrderedJoined, BeforeJoined DEF InOrder
<1> QED BY <1>1, <1>2, <1>3, <1>4 DEF InOrder, Before

\* Saved.
LEMMA SaveIn ==
  ASSUME NEW a, NEW b, NEW c \in Seq(Tokens), NEW v \in Seq(Tokens), NEW r \in Seq(Tokens), NEW m,
         InOrder(a, b, c, v \o r, m)
  PROVE  InOrder(a, b, c \o v, r, m)
<1>1. Elements(v \o r) = Elements(v) \union Elements(r) /\ Elements(c \o v) = Elements(c) \union Elements(v)
  BY JoinedElements
<1>2. /\ Ordered(v) /\ Ordered(r) /\ Before(v, r) /\ Before(a, v) /\ Before(a, r)
      /\ Before(b, v) /\ Before(b, r) /\ Before(c, v) /\ Before(c, r)
  BY OrderedJoined, BeforeJoined DEF InOrder
<1>3. Ordered(c \o v) /\ Before(a, c \o v) /\ Before(b, c \o v) /\ Before(c \o v, r)
  BY <1>2, OrderedJoined, BeforeJoined DEF InOrder
<1> QED BY <1>1, <1>2, <1>3 DEF InOrder

\* Written back: w is shown at once if the fifo b is empty, x waits there, z finds no room.
LEMMA SaveOut ==
  ASSUME NEW a \in Seq(Tokens), NEW b \in Seq(Tokens), NEW w \in Seq(Tokens), NEW x \in Seq(Tokens),
         NEW z \in Seq(Tokens), NEW r, NEW m, b = <<>> \/ w = <<>>, InOrder(a, b, w \o x \o z, r, m)
  PROVE  InOrder(a \o w, b \o x, <<>>, r, m \union Elements(z))
<1>1. w \o x \in Seq(Tokens)
  BY Joined
<1>2. /\ Elements(w \o x \o z) = Elements(w) \union Elements(x) \union Elements(z)
      /\ Elements(a \o w) = Elements(a) \union Elements(w) /\ Elements(b \o x) = Elements(b) \union Elements(x)
      /\ Elements(<<>>) = {}
  <2> DEFINE wx == w \o x
  <2>1. Elements(wx) = Elements(w) \union Elements(x) /\ wx \in Seq(Tokens)
    BY <1>1, JoinedElements
  <2> HIDE DEF wx
  <2>2. Elements(wx \o z) = Elements(wx) \union Elements(z)
    BY <2>1, JoinedElements
  <2>3. Elements(a \o w) = Elements(a) \union Elements(w) /\ Elements(b \o x) = Elements(b) \union Elements(x)
    BY JoinedElements
  <2>4. Elements(<<>>) = {}
    BY DEF Elements
  <2> QED BY <2>1, <2>2, <2>3, <2>4 DEF wx
<1>3. Ordered(w \o x) /\ Ordered(z) /\ Before(w \o x, z)
  BY <1>1, OrderedJoined DEF InOrder
<1>4. Before(a, w \o x) /\ Before(a, z) /\ Before(b, w \o x) /\ Before(b, z) /\ Before(w \o x, r) /\ Before(z, r)
  BY ZenonT(60), <1>1, BeforeJoined DEF InOrder
<1>5. /\ Ordered(w) /\ Ordered(x) /\ Before(w, x) /\ Before(w, z) /\ Before(x, z)
      /\ Before(a, w) /\ Before(a, x) /\ Before(b, w) /\ Before(b, x) /\ Before(w, r) /\ Before(x, r)
  BY <1>3, <1>4, OrderedJoined, BeforeJoined
<1>6. Before(w, b)
  <2>1. Elements(w) = {} \/ Elements(b) = {}
    BY ElementsAre
  <2> QED BY <2>1 DEF Before
<1>7. /\ Ordered(a \o w) /\ Ordered(b \o x)
      /\ Before(a \o w, b \o x) /\ Before(a \o w, r) /\ Before(b \o x, r)
  <2>1. Before(a, b \o x) /\ Before(w, b \o x)
    BY <1>5, <1>6, BeforeJoined DEF InOrder
  <2> QED BY <1>4, <1>5, <2>1, OrderedJoined, BeforeJoined DEF InOrder
<1>8. Ordered(<<>>) /\ \A y : Before(y, <<>>) /\ Before(<<>>, y)
  BY <1>2, NoTextOrdered DEF NoText
<1>9. \A t \in Elements(z) \intersect Text :
        t \notin Elements(a) \union Elements(b) \union Elements(w) \union Elements(x) \union Elements(r)
  <2> SUFFICES ASSUME NEW t \in Elements(z) \intersect Text,
                      t \in Elements(a) \union Elements(b) \union Elements(w) \union Elements(x) \union Elements(r)
               PROVE  FALSE
    OBVIOUS
  <2>1. Place(Script, t) < Place(Script, t)
    BY <1>4, <1>5 DEF Before
  <2>2. Place(Script, t) \in Nat
    BY PlaceIs, ScriptIs
  <2> QED BY <2>1, <2>2
<1>10. (Elements(a \o w) \union Elements(b \o x) \union Elements(<<>>) \union Elements(r)) \intersect Text
         = (Elements(Script) \intersect Text) \ (m \union Elements(z))
  BY <1>2, <1>9 DEF InOrder
<1> QED BY <1>7, <1>8, <1>10 DEF InOrder

\* What is no text changes nothing, in front, in the fifo or missing.
LEMMA NoTextIn ==
  ASSUME NEW a \in Seq(Tokens), NEW b \in Seq(Tokens), NEW w \in Seq(Tokens), NEW x \in Seq(Tokens), NEW z,
         NEW c, NEW r, NEW m, NoText(w), NoText(x), NoText(z), InOrder(a, b, c, r, m)
  PROVE  InOrder(a \o w, b \o x, c, r, m \union Elements(z))
<1>1. Elements(a \o w) = Elements(a) \union Elements(w) /\ Elements(b \o x) = Elements(b) \union Elements(x)
  BY JoinedElements
<1>2. /\ Ordered(w) /\ Ordered(x)
      /\ \A y : Before(w, y) /\ Before(y, w) /\ Before(x, y) /\ Before(y, x)
  BY NoTextOrdered
<1>3. /\ Ordered(a \o w) /\ Ordered(b \o x) /\ Before(a, b \o x) /\ Before(w, b \o x)
      /\ Before(a \o w, c) /\ Before(a \o w, r) /\ Before(b \o x, c) /\ Before(b \o x, r)
  BY <1>2, OrderedJoined, BeforeJoined DEF InOrder
<1>4. Before(a \o w, b \o x)
  BY <1>3, BeforeJoined
<1> QED BY <1>1, <1>3, <1>4 DEF InOrder, NoText

\* The transfer starts: the fifo and what is in front of the header x go to the shell.
LEMMA StartOut ==
  ASSUME NEW a \in Seq(Tokens), NEW b \in Seq(Tokens), NEW x \in Seq(Tokens), NEW y \in Seq(Tokens),
         NEW v \in Seq(Tokens), NEW r \in Seq(Tokens), NEW f \in Seq(Tokens), NEW m,
         InOrder(a, b, <<>>, x \o (y \o (v \o r)), m), NoText(y), NoText(f)
  PROVE  InOrder(a, f, v, r, m \union Elements(b) \union Elements(x))
<1> DEFINE vr == v \o r
           yvr == y \o vr
<1>1. vr \in Seq(Tokens) /\ yvr \in Seq(Tokens) /\ Elements(<<>>) = {}
  BY Joined DEF Elements
<1>2. Elements(vr) = Elements(v) \union Elements(r)
      /\ (Ordered(vr) <=> Ordered(v) /\ Ordered(r) /\ Before(v, r))
      /\ \A s : Before(s, vr) <=> Before(s, v) /\ Before(s, r)
  BY JoinedElements, OrderedJoined, BeforeJoined
<1> HIDE DEF vr
<1>3. Elements(yvr) = Elements(y) \union Elements(vr)
      /\ (Ordered(yvr) <=> Ordered(y) /\ Ordered(vr) /\ Before(y, vr))
      /\ \A s : Before(s, yvr) <=> Before(s, y) /\ Before(s, vr)
  BY <1>1, JoinedElements, OrderedJoined, BeforeJoined
<1> HIDE DEF yvr
<1>4. Elements(x \o yvr) = Elements(x) \union Elements(yvr)
      /\ (Ordered(x \o yvr) <=> Ordered(x) /\ Ordered(yvr) /\ Before(x, yvr))
      /\ \A s : Before(s, x \o yvr) <=> Before(s, x) /\ Before(s, yvr)
  BY <1>1, JoinedElements, OrderedJoined, BeforeJoined
<1>5. /\ Ordered(v) /\ Ordered(r) /\ Before(v, r) /\ Before(x, v) /\ Before(x, r) /\ Before(a, v)
      /\ Before(a, r) /\ Before(b, v) /\ Before(b, r) /\ Before(b, x) /\ Before(a, x)
  <2>1. InOrder(a, b, <<>>, x \o yvr, m)
    BY DEF yvr, vr
  <2> QED BY <1>2, <1>3, <1>4, <2>1 DEF InOrder
<1>6. Ordered(f) /\ \A z : Before(f, z) /\ Before(z, f)
  BY NoTextOrdered
<1>7. \A t \in (Elements(b) \union Elements(x)) \intersect Text :
        t \notin Elements(a) \union Elements(v) \union Elements(r)
  <2> SUFFICES ASSUME NEW t \in (Elements(b) \union Elements(x)) \intersect Text,
                      t \in Elements(a) \union Elements(v) \union Elements(r)
               PROVE  FALSE
    OBVIOUS
  <2>1. Place(Script, t) < Place(Script, t)
    BY <1>5 DEF Before, InOrder
  <2>2. Place(Script, t) \in Nat
    BY PlaceIs, ScriptIs
  <2> QED BY <2>1, <2>2
<1>8. (Elements(a) \union Elements(f) \union Elements(v) \union Elements(r)) \intersect Text
        = (Elements(Script) \intersect Text) \ (m \union Elements(b) \union Elements(x))
  <2>1. InOrder(a, b, <<>>, x \o yvr, m)
    BY DEF yvr, vr
  <2>2. (Elements(a) \union Elements(b) \union Elements(x) \union Elements(y) \union Elements(v)
           \union Elements(r)) \intersect Text = (Elements(Script) \intersect Text) \ m
    BY <1>1, <1>2, <1>3, <1>4, <2>1 DEF InOrder
  <2> QED BY <1>7, <2>2 DEF NoText
<1> QED BY <1>5, <1>6, <1>8 DEF InOrder

LEMMA MovedSplits ==
  ASSUME TypeOK, NEW p \in Pipe, NEW q \in Seq(Tokens), NEW h, NEW c, Moved(p, q, h, c)
  PROVE  \E w \in Seq(Tokens) :
           /\ q = w \o fifo'[p] /\ fifo'[p] \in Seq(Tokens)
           /\ Sink(h, p) = "stdout" => shown' = shown \o w
           /\ Sink(h, p) = "rzwrite" => Elements(w) \subseteq Elements(rzin')
<1> DEFINE a == Sink(h, p)
<1>1. PICK n \in 0..Len(q) : fifo' = [fifo EXCEPT ![p] = Suffix(q, n)] /\ Deliver(a, SubSeq(q, 1, n))
  BY DEF Moved
<1> DEFINE w == SubSeq(q, 1, n)
           b == Suffix(q, n)
<1>2. w \in Seq(Tokens) /\ b \in Seq(Tokens) /\ w \o b = q
  BY Parts, PartsJoined
<1>3. fifo'[p] = b
  BY <1>1 DEF TypeOK
<1> HIDE DEF w, b, a
<1>4. (a = "stdout" => shown' = shown \o w) /\ (a = "rzwrite" => rzin' = rzin \o w)
  BY <1>1 DEF Deliver, w
<1>5. Elements(rzin \o w) = Elements(rzin) \union Elements(w)
  BY <1>2, JoinedElements DEF TypeOK
<1> QED BY <1>2, <1>3, <1>4, <1>5 DEF a

\* What moves on keeps its order, or is no text.
LEMMA MovedInOrder ==
  ASSUME TypeOK, NEW q \in Seq(Tokens), NEW h, NEW c, Moved("master_output", q, h, c),
         NEW s, NEW r, NEW m, InOrder(shown, q, s, r, m), Elements(rzin') \intersect Text = {}
  PROVE  InOrder(shown', fifo'["master_output"], s, r, m)
<1> DEFINE p == "master_output"
<1>1. p \in Pipe /\ shown \in Seq(Tokens) /\ Sink(h, p) \in {"stdout", "rzwrite"}
  BY DEF Pipe, Sink, TypeOK
<1>2. PICK w \in Seq(Tokens) :
        /\ q = w \o fifo'[p] /\ fifo'[p] \in Seq(Tokens)
        /\ Sink(h, p) = "stdout" => shown' = shown \o w
        /\ Sink(h, p) = "rzwrite" => Elements(w) \subseteq Elements(rzin')
  BY <1>1, MovedSplits
<1>3. InOrder(shown \o w, fifo'[p], s, r, m) /\ (NoText(w) => InOrder(shown, fifo'[p], s, r, m))
  <2> DEFINE b == fifo'[p]
  <2>1. InOrder(shown, w \o b, s, r, m) /\ b \in Seq(Tokens)
    BY <1>2
  <2> HIDE DEF b
  <2>2. InOrder(shown \o w, b, s, r, m) /\ (NoText(w) => InOrder(shown, b, s, r, m))
    BY <1>1, <2>1, FifoOut
  <2> QED BY <2>2 DEF b
<1>4. CASE Sink(h, p) = "stdout"
  BY <1>2, <1>3, <1>4
<1>5. CASE Sink(h, p) = "rzwrite"
  <2>1. shown' = shown
    BY <1>1, <1>5, MovedElements
  <2>2. NoText(w)
    BY <1>2, <1>5 DEF NoText
  <2> QED BY <1>3, <2>1, <2>2
<1> QED BY <1>1, <1>4, <1>5

LEMMA RestSplits ==
  ASSUME Typed, NEW r \in 0..Len(inbox["master"]), Took("master", r), script' = script
  PROVE  /\ Rest = SubSeq(inbox["master"], 1, r) \o Rest'
         /\ Rest' \in Seq(Tokens) /\ SubSeq(inbox["master"], 1, r) \in Seq(Tokens)
<1> DEFINE d == inbox["master"]
           s == SubSeq(d, 1, r)
           y == Suffix(d, r)
<1>1. d \in Seq(Tokens) /\ script \in Seq(Tokens)
  BY DEF Typed, TypeOK
<1>2. s \in Seq(Tokens) /\ y \in Seq(Tokens) /\ s \o y = d
  BY <1>1, Parts, PartsJoined
<1>3. inbox'["master"] = y
  BY DEF Took, Typed, TypeOK
<1>4. Rest' = y \o script /\ Rest = d \o script
  BY <1>3 DEF Rest
<1> HIDE DEF d, s, y
<1>5. (s \o y) \o script = s \o (y \o script)
  BY ZenonT(60), <1>1, <1>2, Regrouped
<1>6. y \o script \in Seq(Tokens)
  BY <1>1, <1>2, Joined
<1> QED BY <1>2, <1>4, <1>5, <1>6 DEF d, s

LEMMA CutRest ==
  ASSUME NEW s \in Seq(Tokens), NEW pr
  PROVE  LET p == "master_output"
             n == Cut(p, pr, s)
         IN  /\ n \in 0..Len(s)
             /\ SubSeq(s, 1, n) \in Seq(Tokens) /\ Suffix(s, n) \in Seq(Tokens)
             /\ SubSeq(s, 1, n) \o Suffix(s, n) = s
             /\ pr = "zfin_save" => SubSeq(s, 1, n) = <<>> /\ NextProc(p, pr, s) = "zfin_save"
             /\ Suffix(s, n) = <<>> \/ NextProc(p, pr, s) = "zfin_save"
<1> DEFINE p == "master_output"
           n == Cut(p, pr, s)
<1>1. n \in 0..Len(s)
  BY CutIs
<1>2. Found(p) = "zfin_save" /\ (Finds(p, pr, s) => pr = "zfin_scan")
  BY DEF Found, Finds
<1>3. /\ Finds(p, pr, s) => NextProc(p, pr, s) = "zfin_save"
      /\ pr = "zfin_save" => n = 0 /\ NextProc(p, pr, s) = "zfin_save"
      /\ ~Finds(p, pr, s) /\ pr # "zfin_save" => n = Len(s)
  BY <1>2 DEF NextProc, Cut
<1> HIDE DEF n, p
<1>4. SubSeq(s, 1, n) \in Seq(Tokens) /\ Suffix(s, n) \in Seq(Tokens) /\ SubSeq(s, 1, n) \o Suffix(s, n) = s
  BY <1>1, Parts, PartsJoined
<1>5. n = 0 => SubSeq(s, 1, n) = <<>>
  BY WholeParts
<1>6. n = Len(s) => Suffix(s, n) = <<>>
  <2>1. n = Len(s) => Elements(Suffix(s, n)) = {}
    BY WholeParts
  <2> QED BY <1>4, <2>1, ElementsAre
<1> QED BY <1>1, <1>3, <1>4, <1>5, <1>6 DEF n, p

LEMMA EmptyJoined ==
  ASSUME NEW S, NEW s \in Seq(S)
  PROVE  s \o <<>> = s /\ <<>> \o s = s
BY ConcatEmptySeq

LEMMA ReadSaved ==
  ASSUME Typed, Followed', Saved, pc \in {"dispatch", "reap"}, NEW p \in Pipe, NEW r \in Nat, Reads(p, r)
  PROVE  Saved'
<1> DEFINE a == Source(head, p)
           s == SubSeq(inbox[a], 1, r)
           n == Cut(p, proc[p], s)
           u == SubSeq(s, 1, n)
           v == Suffix(s, n)
           m == Elements(astray) \union Elements(dropped)
<1>1. /\ r \in 0..Len(inbox[a]) /\ Took(a, r)
      /\ proc' = [proc EXCEPT ![p] = NextProc(p, @, s)]
      /\ savebuf' = IF p = "master_output" THEN savebuf \o v ELSE savebuf
      /\ \E c \in {conn, conn \ {a}} : Moved(p, fifo[p] \o u, head, c)
      /\ UNCHANGED <<head, pc, script, astray, dropped>>
  BY DEF Reads
<1>2. /\ shown \in Seq(Tokens) /\ savebuf \in Seq(Tokens) /\ fifo["master_output"] \in Seq(Tokens)
      /\ fifo[p] \in Seq(Tokens) /\ inbox[a] \in Seq(Tokens) /\ Elements(rzin') \intersect Text = {}
  BY EndsAre DEF Typed, TypeOK, Pipe, Followed, NoTextToRz
<1>3. s \in Seq(Tokens) /\ u \in Seq(Tokens)
  <2>1. s \in Seq(Tokens)
    BY <1>1, <1>2, Parts
  <2>2. n \in 0..Len(s)
    BY <2>1, CutIs
  <2> QED BY <2>1, <2>2, Parts
<1>4. m' = m
  BY <1>1
<1>5. CASE p = "input_master"
  <2>1. a # "master" /\ Sink(head, p) = "master"
    BY <1>5 DEF Source, Sink
  <2>2. fifo[p] \o u \in Seq(Tokens)
    BY <1>2, <1>3, Joined
  <2>3. fifo'["master_output"] = fifo["master_output"] /\ shown' = shown
    <3> HIDE DEF u
    <3> QED BY <1>1, <1>5, <2>1, <2>2, MovedElements DEF Typed, Pipe
  <2>4. Rest' = Rest
    <3>1. inbox'["master"] = inbox["master"]
      BY <1>1, <2>1 DEF Took, Typed, TypeOK
    <3> QED BY <1>1, <3>1, RestSame
  <2>5. savebuf' = savebuf /\ proc'["master_output"] = proc["master_output"]
    BY <1>1, <1>5 DEF Typed, TypeOK, Pipe
  <2> QED BY <1>1, <1>4, <2>3, <2>4, <2>5 DEF Saved
<1>6. CASE p = "master_output"
  <2>1. a = "master"
    BY <1>6 DEF Source
  <2>2. Rest = s \o Rest' /\ Rest' \in Seq(Tokens)
    BY <1>1, <2>1, RestSplits
  <2>3. /\ u \in Seq(Tokens) /\ v \in Seq(Tokens) /\ u \o v = s
        /\ proc[p] = "zfin_save" => u = <<>> /\ NextProc(p, proc[p], s) = "zfin_save"
        /\ v = <<>> \/ NextProc(p, proc[p], s) = "zfin_save"
    <3> HIDE DEF s
    <3> QED BY <1>3, <1>6, CutRest
  <2>4. proc'["master_output"] = NextProc(p, proc[p], s)
    BY <1>1, <1>6 DEF Typed, TypeOK
  <2>5. PICK c : Moved("master_output", fifo["master_output"] \o u, head, c)
    BY <1>1, <1>6
  <2>6. savebuf' = savebuf \o v
    BY <1>1, <1>6
  <2> DEFINE b == fifo["master_output"]
             R == Rest'
             t == savebuf
             vR == v \o R
             bu == b \o u
  <2>7. b \in Seq(Tokens) /\ t \in Seq(Tokens) /\ R \in Seq(Tokens)
    BY <1>2, <2>2
  <2>8. t = <<>> \/ proc[p] = "zfin_save"
    BY <1>6 DEF Saved
  <2>9. InOrder(shown, b, t, s \o R, m)
    BY <2>2 DEF Saved
  <2> HIDE DEF s, u, v, b, R, t, m
  <2>10. vR \in Seq(Tokens) /\ bu \in Seq(Tokens)
    BY <2>3, <2>7, Joined
  <2>11. s \o R = u \o vR
    BY <2>3, <2>7, Regrouped
  <2>12. InOrder(shown, bu, t, vR, m)
    <3>1. CASE t = <<>>
      <4> HIDE DEF vR
      <4>1. InOrder(shown, b, <<>>, u \o vR, m)
        BY <2>9, <2>11, <3>1
      <4> QED BY <1>2, <2>3, <2>7, <2>10, <3>1, <4>1, FifoIn
    <3>2. CASE u = <<>>
      <4>1. bu = b /\ u \o vR = vR
        <5> HIDE DEF vR
        <5> QED BY <2>7, <2>10, <3>2, EmptyJoined
      <4> QED BY <2>9, <2>11, <4>1
    <3> QED BY <2>3, <2>8, <3>1, <3>2
  <2>13. InOrder(shown, bu, t \o v, R, m)
    <3> HIDE DEF bu
    <3> QED BY <2>3, <2>7, <2>12, SaveIn
  <2>14. InOrder(shown', fifo'["master_output"], t \o v, R, m)
    <3>1. Moved("master_output", bu, head, c)
      BY <2>5 DEF b
    <3> HIDE DEF bu
    <3> QED BY <1>2, <2>10, <2>13, <3>1, MovedInOrder DEF Typed
  <2>15. InOrder(shown, fifo["master_output"], savebuf, Rest, m)'
    BY <1>4, <2>6, <2>14 DEF t, R
  <2>16. savebuf' = <<>> \/ proc'["master_output"] = "zfin_save"
    <3>1. CASE proc[p] = "zfin_save"
      BY <2>3, <2>4, <3>1
    <3>2. CASE proc[p] # "zfin_save"
      <4>1. t = <<>> /\ (v = <<>> \/ proc'["master_output"] = "zfin_save")
        BY <2>3, <2>4, <2>8, <3>2
      <4>2. v = <<>> => t \o v = <<>>
        BY <4>1, <2>7, EmptyJoined
      <4> QED BY <2>6, <4>1, <4>2 DEF t
    <3> QED BY <3>1, <3>2
  <2> QED BY <2>15, <2>16 DEF Saved, m
<1> QED BY <1>5, <1>6 DEF Pipe

LEMMA PartOfRest ==
  ASSUME NEW S, NEW s \in Seq(S), NEW n \in 0..Len(s), NEW k \in 0..Len(s) - n
  PROVE  /\ SubSeq(Suffix(s, n), 1, k) = SubSeq(s, n + 1, n + k)
         /\ Suffix(Suffix(s, n), k) = Suffix(s, n + k)
<1> DEFINE y == Suffix(s, n)
           x == SubSeq(s, n + 1, n + k)
           z == Suffix(s, n + k)
           x1 == SubSeq(y, 1, k)
           z1 == Suffix(y, k)
<1>1. Len(s) \in Nat /\ n + k \in 0..Len(s)
  BY ElementsAre
<1>2. /\ y \in Seq(S) /\ Len(y) = Len(s) - n
      /\ \A i \in 1..Len(s) - n : y[i] = s[n + i]
  BY Parts
<1>3. x \in Seq(S) /\ Len(x) = k /\ \A i \in 1..k : x[i] = s[n + i]
  BY MiddleIs
<1>4. z \in Seq(S) /\ Len(z) = Len(s) - (n + k) /\ \A i \in 1..Len(s) - (n + k) : z[i] = s[n + k + i]
  BY <1>1, Parts
<1> HIDE DEF y
<1>5. k \in 0..Len(y)
  BY <1>1, <1>2
<1>6. /\ x1 \in Seq(S) /\ Len(x1) = k /\ \A i \in 1..k : x1[i] = y[i]
      /\ z1 \in Seq(S) /\ Len(z1) = Len(y) - k /\ \A i \in 1..Len(y) - k : z1[i] = y[k + i]
  BY <1>2, <1>5, Parts
<1> HIDE DEF x, z, x1, z1
<1>7. x1 = x
  <2>1. ASSUME NEW i \in 1..k PROVE x1[i] = x[i]
    <3>1. i \in 1..Len(s) - n
      BY <1>1
    <3> QED BY <1>2, <1>3, <1>6, <3>1
  <2>2. Len(x1) = Len(x) /\ \A i \in 1..Len(x1) : x1[i] = x[i]
    BY <1>3, <1>6, <2>1
  <2> QED BY <1>3, <1>6, <2>2, SeqEqual
<1>8. z1 = z
  <2>1. Len(z1) = Len(z)
    BY <1>1, <1>2, <1>4, <1>6
  <2>2. ASSUME NEW i \in 1..Len(z1) PROVE z1[i] = z[i]
    <3>1. /\ i \in 1..Len(y) - k /\ k + i \in 1..Len(s) - n /\ i \in 1..Len(s) - (n + k)
          /\ n + (k + i) = n + k + i
      BY <1>1, <1>2, <1>6, <2>2
    <3>2. z1[i] = y[k + i] /\ y[k + i] = s[n + (k + i)] /\ z[i] = s[n + k + i]
      BY <1>2, <1>4, <1>6, <3>1
    <3> QED BY <3>1, <3>2
  <2> QED BY <1>4, <1>6, <2>1, <2>2, SeqEqual
<1> QED BY <1>7, <1>8 DEF x, x1, y, z, z1

LEMMA StartSaved ==
  ASSUME Typed, Followed', Saved, pc \in {"dispatch", "reap"}, NEW r \in Nat, NEW i \in Nat, Starts(r, i)
  PROVE  Saved'
<1> DEFINE p == "master_output"
           s == SubSeq(inbox["master"], 1, r)
           x == SubSeq(s, 1, i - 1)
           z == Suffix(s, i)
           n == Cut(p, "zfin_scan", z)
           u == SubSeq(z, 1, n)
           v == Suffix(z, n)
           y == <<"start">> \o u
           b == fifo[p]
           R == Rest'
           m == Elements(astray) \union Elements(dropped)
<1>1. /\ r \in 1..Len(inbox["master"])
      /\ proc[p] = "zrq_scan" /\ i \in 1..r /\ s[i] = "start"
      /\ Took("master", r) /\ script' = script
      /\ astray' = astray \o (b \o x) /\ dropped' = dropped
      /\ head' = "rz" /\ pc' = pc
      /\ proc' = [Procs("rz") EXCEPT ![p] = NextProc(p, @, z)]
      /\ savebuf' = v
      /\ Moved(p, y, "rz", conn \union RzAtoms)
  BY DEF Starts
<1>2. /\ shown \in Seq(Tokens) /\ savebuf = <<>> /\ b \in Seq(Tokens) /\ astray \in Seq(Tokens)
      /\ inbox["master"] \in Seq(Tokens) /\ r \in 0..Len(inbox["master"]) /\ "start" \in Tokens
  <2>1. inbox["master"] \in Seq(Tokens) /\ shown \in Seq(Tokens) /\ b \in Seq(Tokens) /\ astray \in Seq(Tokens)
    BY DEF Typed, TypeOK, Pipe
  <2>2. Len(inbox["master"]) \in Nat
    BY <2>1, ElementsAre
  <2>3. r \in 0..Len(inbox["master"])
    BY <1>1, <2>2
  <2>4. s \in Seq(Tokens) /\ Len(s) = r
    BY <2>1, <2>3, Parts
  <2>5. "start" \in Tokens
    <3> HIDE DEF s
    <3> QED BY <1>1, <2>4, ElementOfSeq
  <2>6. savebuf = <<>>
    BY <1>1 DEF Saved
  <2> QED BY <2>1, <2>3, <2>5, <2>6
<1>3. Rest = s \o R /\ R \in Seq(Tokens) /\ s \in Seq(Tokens)
  BY <1>1, <1>2, RestSplits
<1>4. i \in 1..Len(s) /\ i - 1 \in 0..Len(s) /\ i \in 0..Len(s)
  <2>1. Len(s) = r
    BY <1>2, Parts
  <2>2. i \in 1..r /\ r \in Nat
    BY <1>1
  <2> HIDE DEF s
  <2> QED BY <2>1, <2>2
<1>5. x \in Seq(Tokens) /\ z \in Seq(Tokens) /\ x \o (<<"start">> \o z) = s
  <2> DEFINE w == Suffix(s, i - 1)
             h == <<"start">>
             g == h \o z
  <2>1. /\ x \in Seq(Tokens) /\ w \in Seq(Tokens) /\ Len(w) = Len(s) - (i - 1) /\ x \o w = s
        /\ \A j \in 1..Len(s) - (i - 1) : w[j] = s[(i - 1) + j]
    <3> DEFINE k == i - 1
    <3>1. k \in 0..Len(s) /\ s \in Seq(Tokens)
      BY <1>3, <1>4
    <3> HIDE DEF s, k
    <3>2. /\ SubSeq(s, 1, k) \in Seq(Tokens) /\ Suffix(s, k) \in Seq(Tokens)
          /\ Len(Suffix(s, k)) = Len(s) - k /\ SubSeq(s, 1, k) \o Suffix(s, k) = s
          /\ \A j \in 1..Len(s) - k : Suffix(s, k)[j] = s[k + j]
      BY <3>1, Parts, PartsJoined
    <3> QED BY <3>2 DEF k
  <2>2. /\ z \in Seq(Tokens) /\ Len(z) = Len(s) - i
        /\ \A j \in 1..Len(s) - i : z[j] = s[i + j]
    <3> HIDE DEF s
    <3> QED BY <1>3, <1>4, Parts
  <2>3. h \in Seq(Tokens) /\ Len(h) = 1 /\ h[1] = "start"
    BY <1>2
  <2> HIDE DEF s, w, h, z
  <2>4. /\ g \in Seq(Tokens) /\ Len(g) = 1 + Len(z)
        /\ \A j \in 1..1 : g[j] = h[j]
        /\ \A j \in 1..Len(z) : g[1 + j] = z[j]
    <3>1. h \in Seq(Tokens) /\ z \in Seq(Tokens)
      BY <2>2, <2>3
    <3>2. /\ g \in Seq(Tokens) /\ Len(g) = Len(h) + Len(z)
          /\ \A j \in 1..Len(h) : g[j] = h[j]
          /\ \A j \in 1..Len(z) : g[Len(h) + j] = z[j]
      BY <3>1, Joined
    <3> HIDE DEF g
    <3> QED BY <2>3, <3>2
  <2> HIDE DEF g
  <2>5. ASSUME NEW j \in 1..Len(w) PROVE w[j] = g[j]
    <3>1. CASE j = 1
      <4>1. 1 \in 1..Len(s) - (i - 1) /\ (i - 1) + 1 = i
        BY <1>4, <2>1, <3>1
      <4>2. w[1] = s[i]
        BY <2>1, <4>1
      <4>3. g[1] = h[1]
        BY <2>4
      <4> QED BY <1>1, <2>3, <3>1, <4>2, <4>3
    <3>2. CASE j # 1
      <4>1. j - 1 \in 1..Len(z) /\ 1 + (j - 1) = j /\ i + (j - 1) = (i - 1) + j /\ j - 1 \in 1..Len(s) - i
        BY <1>4, <2>1, <2>2, <3>2
      <4>2. g[1 + (j - 1)] = z[j - 1] /\ z[j - 1] = s[i + (j - 1)]
        BY <2>2, <2>4, <4>1
      <4>3. w[j] = s[(i - 1) + j]
        BY <2>1
      <4> QED BY <4>1, <4>2, <4>3
    <3> QED BY <3>1, <3>2
  <2>6. Len(w) = Len(g)
    BY <1>4, <2>1, <2>2, <2>4
  <2>7. w = g
    BY <2>1, <2>4, <2>5, <2>6, SeqEqual
  <2> QED BY <2>1, <2>2, <2>7 DEF g, h, z
<1>6. /\ u \in Seq(Tokens) /\ v \in Seq(Tokens) /\ u \o v = z
      /\ v = <<>> \/ NextProc(p, "zfin_scan", z) = "zfin_save"
  <2> HIDE DEF z
  <2> QED BY <1>5, CutRest
<1>7. proc'[p] = NextProc(p, "zfin_scan", z)
  BY <1>1 DEF Procs, Pipe
<1>8. Elements(astray \o (b \o x)) = Elements(astray) \union (Elements(b) \union Elements(x))
  <2>1. b \o x \in Seq(Tokens) /\ Elements(b \o x) = Elements(b) \union Elements(x)
    <3>1. b \in Seq(Tokens) /\ x \in Seq(Tokens)
      BY <1>2, <1>5
    <3> HIDE DEF b, x
    <3> QED BY <3>1, Joined, JoinedElements
  <2> DEFINE bx == b \o x
  <2>2. bx \in Seq(Tokens) /\ astray \in Seq(Tokens)
    BY <1>2, <2>1
  <2> HIDE DEF bx
  <2>3. Elements(astray \o bx) = Elements(astray) \union Elements(bx)
    BY <2>2, JoinedElements
  <2> QED BY <2>1, <2>3 DEF bx
<1>9. InOrder(shown, b, <<>>, s \o R, m)
  <2>1. InOrder(shown, b, savebuf, Rest, m)
    BY DEF Saved
  <2> HIDE DEF s, b, R, m
  <2> QED BY <1>2, <1>3, <2>1
<1>10. Elements(rzin') \intersect Text = {} /\ NoText(fifo'[p])
  BY <1>1 DEF Followed, NoTextToRz, NoText
<1>11. y \in Seq(Tokens)
  <2>1. <<"start">> \in Seq(Tokens)
    BY <1>2
  <2> QED BY <1>6, <2>1, Joined
<1>12. NoText(y) /\ shown' = shown /\ fifo'[p] \in Seq(Tokens)
  <2>1. p \in Pipe /\ Sink("rz", p) = "rzwrite"
    BY DEF Pipe, Sink
  <2> HIDE DEF y, p
  <2>2. shown' = shown
    BY <1>1, <1>11, <2>1, MovedElements DEF Typed
  <2>3. PICK w \in Seq(Tokens) :
          /\ y = w \o fifo'[p] /\ fifo'[p] \in Seq(Tokens) /\ Elements(w) \subseteq Elements(rzin')
    BY <1>1, <1>11, <2>1, MovedSplits DEF Typed
  <2>4. Elements(w \o fifo'[p]) = Elements(w) \union Elements(fifo'[p])
    <3> DEFINE f == fifo'[p]
    <3>1. f \in Seq(Tokens)
      BY <2>3
    <3> HIDE DEF f
    <3>2. Elements(w \o f) = Elements(w) \union Elements(f)
      BY <3>1, JoinedElements
    <3> QED BY <3>2 DEF f
  <2> QED BY <1>10, <2>2, <2>3, <2>4 DEF NoText
<1>13. s \o R = x \o (y \o (v \o R))
  <2> DEFINE h == <<"start">>
             vR == v \o R
             g == h \o z
  <2>1. h \in Seq(Tokens)
    BY <1>2
  <2> HIDE DEF s, x, z, u, v, R, h
  <2>2. vR \in Seq(Tokens) /\ (u \o v) \o R = u \o vR
    BY <1>3, <1>6, Joined, Regrouped
  <2>3. g \in Seq(Tokens) /\ (x \o g) \o R = x \o (g \o R)
    <3>1. g \in Seq(Tokens)
      BY <1>5, <2>1, Joined
    <3> HIDE DEF g
    <3> QED BY ZenonT(60), <1>3, <1>5, <3>1, Regrouped
  <2>4. g \o R = h \o (z \o R)
    BY <1>3, <1>5, <2>1, Regrouped
  <2>5. (h \o u) \o vR = h \o (u \o vR)
    <3> HIDE DEF vR
    <3> QED BY <1>6, <2>1, <2>2, Regrouped
  <2> QED BY <1>5, <1>6, <2>2, <2>3, <2>4, <2>5 DEF h
<1>14. InOrder(shown, fifo'[p], v, R, m \union Elements(b) \union Elements(x))
  <2> DEFINE f == fifo'[p]
  <2>1. /\ InOrder(shown, b, <<>>, x \o (y \o (v \o R)), m)
        /\ f \in Seq(Tokens) /\ NoText(f) /\ NoText(y)
    BY <1>9, <1>10, <1>12, <1>13
  <2> HIDE DEF f, b, x, y, v, R, m
  <2>2. InOrder(shown, f, v, R, m \union Elements(b) \union Elements(x))
    BY <1>2, <1>3, <1>5, <1>6, <1>11, <2>1, StartOut
  <2> QED BY <2>2 DEF f
<1>15. Elements(astray') \union Elements(dropped') = m \union Elements(b) \union Elements(x)
  BY <1>1, <1>8
<1>16. InOrder(shown, fifo[p], savebuf, Rest, Elements(astray) \union Elements(dropped))'
  <2> HIDE DEF s, x, z, u, v, b, m
  <2> QED BY <1>1, <1>12, <1>14, <1>15
<1>17. savebuf' = <<>> \/ proc'[p] = "zfin_save"
  BY <1>1, <1>6, <1>7
<1> QED BY <1>16, <1>17 DEF Saved

LEMMA WriteSaved ==
  ASSUME Typed, Followed', Saved, NEW p \in Pipe, Moved(p, fifo[p], head, conn),
         UNCHANGED <<head, proc, savebuf, pc, script, inbox, astray, dropped>>
  PROVE  Saved'
<1>1. Rest' = Rest /\ fifo[p] \in Seq(Tokens) /\ Elements(rzin') \intersect Text = {}
  BY RestSame DEF Typed, TypeOK, Followed, NoTextToRz
<1>2. InOrder(shown', fifo'["master_output"], savebuf, Rest, Elements(astray) \union Elements(dropped))
  <2>1. CASE p = "input_master"
    <3>1. Sink(head, p) = "master"
      BY <2>1 DEF Sink
    <3>2. fifo'["master_output"] = fifo["master_output"] /\ shown' = shown
      BY <1>1, <2>1, <3>1, MovedElements DEF Typed, Pipe
    <3> QED BY <3>2 DEF Saved
  <2>2. CASE p = "master_output"
    BY <1>1, <2>2, MovedInOrder DEF Typed, Saved
  <2> QED BY <2>1, <2>2 DEF Pipe
<1> QED BY <1>1, <1>2 DEF Saved

\* What the destructor writes back, and a status line, which is no text.
LEMMA StuffSaved ==
  ASSUME Typed, Saved, NEW s \in Seq(Tokens), s # <<>>, pipe_write(s), UNCHANGED <<script, inbox, astray>>,
         \/ s = savebuf /\ savebuf' = <<>>
         \/ NoText(s) /\ savebuf' = savebuf
  PROVE  InOrder(shown, fifo["master_output"], savebuf, Rest, Elements(astray) \union Elements(dropped))'
<1> DEFINE p == "master_output"
           b == fifo[p]
           R == Rest
           M == Elements(astray) \union Elements(dropped)
<1>1. PICK n, k \in Nat : Puts(s, n, k)
  BY PipeWriteIs DEF Typed
<1> DEFINE w == SubSeq(s, 1, n)
           x == SubSeq(s, n + 1, n + k)
           z == Suffix(s, n + k)
<1>2. /\ n \in 0..Len(s) /\ k \in 0..Len(s) - n /\ Len(s) \in Nat /\ (b = <<>> \/ n = 0)
      /\ fifo' = [fifo EXCEPT ![p] = @ \o x] /\ shown' = shown \o w /\ dropped' = dropped \o z
  BY <1>1, ElementsAre DEF Puts, Deliver
<1>3. /\ shown \in Seq(Tokens) /\ b \in Seq(Tokens) /\ R \in Seq(Tokens) /\ dropped \in Seq(Tokens)
      /\ fifo'[p] = b \o x /\ Rest' = R
  <2>1. inbox["master"] \in Seq(Tokens) /\ script \in Seq(Tokens)
    BY DEF Typed, TypeOK
  <2>2. R \in Seq(Tokens)
    BY <2>1, Joined DEF Rest
  <2>3. Rest' = R
    BY RestSame
  <2> QED BY <1>2, <2>2, <2>3 DEF Typed, TypeOK, Pipe
<1>4. /\ w \in Seq(Tokens) /\ x \in Seq(Tokens) /\ z \in Seq(Tokens) /\ w \o x \o z = s
      /\ b = <<>> \/ w = <<>>
  <2> DEFINE y == Suffix(s, n)
  <2>1. w \in Seq(Tokens) /\ y \in Seq(Tokens) /\ Len(y) = Len(s) - n /\ w \o y = s
    BY <1>2, Parts, PartsJoined
  <2>2. SubSeq(y, 1, k) = x /\ Suffix(y, k) = z
    BY <1>2, PartOfRest
  <2>3. k \in 0..Len(y)
    BY <1>2, <2>1
  <2> HIDE DEF y, w, x, z
  <2>4. x \in Seq(Tokens) /\ z \in Seq(Tokens) /\ x \o z = y
    BY <2>1, <2>2, <2>3, Parts, PartsJoined
  <2>5. (w \o x) \o z = w \o (x \o z)
    <3>1. w \in Seq(Tokens) /\ x \in Seq(Tokens) /\ z \in Seq(Tokens)
      BY <2>1, <2>4
    <3> QED BY <3>1, Regrouped
  <2>6. n = 0 => w = <<>>
    BY WholeParts DEF w
  <2> QED BY <1>2, <2>1, <2>4, <2>5, <2>6
<1>5. Elements(dropped \o z) = Elements(dropped) \union Elements(z)
  BY <1>3, <1>4, JoinedElements
<1>6. Elements(astray') \union Elements(dropped') = M \union Elements(z)
  BY <1>2, <1>5
<1>7. InOrder(shown, b, savebuf, R, M)
  BY DEF Saved
<1> HIDE DEF b, R, M, w, x, z
<1>8. InOrder(shown \o w, b \o x, savebuf', R, M \union Elements(z))
  <2>1. CASE s = savebuf /\ savebuf' = <<>>
    <3>1. InOrder(shown, b, w \o x \o z, R, M)
      BY <1>4, <1>7, <2>1
    <3>2. InOrder(shown \o w, b \o x, <<>>, R, M \union Elements(z))
      BY <1>3, <1>4, <3>1, SaveOut
    <3> QED BY <2>1, <3>2
  <2>2. CASE NoText(s) /\ savebuf' = savebuf
    <3>1. Elements(s) = Elements(w) \union Elements(x) \union Elements(z)
      <4> DEFINE wx == w \o x
      <4>1. wx \in Seq(Tokens) /\ Elements(wx) = Elements(w) \union Elements(x)
        BY <1>4, Joined, JoinedElements
      <4> HIDE DEF wx
      <4>2. Elements(wx \o z) = Elements(wx) \union Elements(z)
        BY <1>4, <4>1, JoinedElements
      <4> QED BY <1>4, <4>1, <4>2 DEF wx
    <3>2. NoText(w) /\ NoText(x) /\ NoText(z)
      BY <2>2, <3>1 DEF NoText
    <3> QED BY <1>3, <1>4, <1>7, <2>2, <3>2, NoTextIn
  <2> QED BY <2>1, <2>2
<1> QED BY <1>2, <1>3, <1>6, <1>8 DEF w, p

LEMMA AutoReadSaved ==
  ASSUME Typed, Followed', Saved, pc \in {"dispatch", "reap"}, NEW p \in Pipe, pipe_auto_read(p)
  PROVE  Saved'
<1>1. ASSUME NEW how \in {"full before read", "bailed"}, End(how) PROVE Saved'
  <2>1. /\ UNCHANGED <<fifo, savebuf, proc, script, inbox, shown, astray, dropped>>
        /\ savebuf = <<>> \/ proc["master_output"] = "zfin_save"
    BY <1>1 DEF End, structs, outside, history, Saved
  <2>2. Rest' = Rest
    BY <1>1, RestSame DEF End, outside
  <2> QED BY <2>1, <2>2 DEF Saved
<1>2. ASSUME NEW r \in Nat, Reads(p, r) PROVE Saved'
  BY <1>2, ReadSaved
<1>3. ASSUME NEW r \in Nat, NEW i \in Nat, Starts(r, i) PROVE Saved'
  BY <1>3, StartSaved
<1> QED BY <1>1, <1>2, <1>3, AutoReadIs DEF Typed

LEMMA AutoWriteSaved ==
  ASSUME Typed, Followed', Saved, pc = "dispatch", NEW p \in Pipe, pipe_auto_write(p)
  PROVE  Saved'
<1>1. CASE End("full after write")
  <2>1. Rest' = Rest
    BY <1>1, RestSame DEF End, outside
  <2> QED BY <1>1, <2>1 DEF End, structs, outside, history, Saved
<1>2. CASE ~End("full after write")
  BY <1>2, WriteMoves, WriteSaved DEF Typed
<1> QED BY <1>1, <1>2

LEMMA LoopSaved ==
  ASSUME Typed, LateLast, Followed', Saved, Loop
  PROVE  Saved'
<1>0. ASSUME UNCHANGED <<fifo, savebuf, proc, script, shown, astray, dropped>>, inbox'["master"] = inbox["master"],
             pc \notin {"idle_end", "restore"}
      PROVE  Saved'
  <2>1. Rest' = Rest
    BY <1>0, RestSame
  <2> QED BY <1>0, <2>1 DEF Saved
<1>1. CASE master_idle
  BY <1>0, <1>1 DEF master_idle, structs, outside, history
<1>2. CASE io_wait
  BY <1>0, <1>2 DEF io_wait, structs, outside, history
<1>3. ASSUME NEW a \in Atom, DispatchRead(a) PROVE Saved'
  <2>1. (IF a = "master" THEN "master_output" ELSE "input_master") \in Pipe
    BY DEF Pipe
  <2> QED BY <1>3, <2>1, AutoReadSaved DEF DispatchRead, Turn
<1>4. ASSUME NEW a \in Atom, DispatchWrite(a) PROVE Saved'
  <2>1. (IF a = "master" THEN "input_master" ELSE "master_output") \in Pipe
    BY DEF Pipe
  <2> QED BY <1>4, <2>1, AutoWriteSaved DEF DispatchWrite, Turn
<1>5. ASSUME NEW a \in Atom, DispatchStale(a) PROVE Saved'
  BY <1>0, <1>5 DEF DispatchStale, Turn, structs, outside, history
<1>6. CASE typing_io_proc
  <2>1. inbox'["master"] = inbox["master"]
    BY <1>6 DEF typing_io_proc, Took, Typed, TypeOK
  <2> QED BY <1>0, <1>6, <2>1 DEF typing_io_proc, Turn, structs, history
<1>7. CASE master_check_sigchild
  BY <1>0, <1>7 DEF master_check_sigchild, structs, outside, history
<1>8. CASE task_default_sigchild
  <2>1. "input_master" \in Pipe /\ pc = "reap"
    BY <1>8 DEF Pipe, task_default_sigchild
  <2> QED BY <1>8, <2>1, AutoReadSaved DEF task_default_sigchild
<1>9. CASE fifo_write
  <2>1. PICK n \in 0..Len(fifo["input_master"]) :
          /\ fifo' = [fifo EXCEPT !["input_master"] = Suffix(fifo["input_master"], n)]
          /\ Deliver("master", SubSeq(fifo["input_master"], 1, n))
    BY <1>9, ReapWriteIs DEF Typed
  <2>2. fifo'["master_output"] = fifo["master_output"] /\ shown' = shown
    BY <2>1 DEF Deliver, Typed, TypeOK, Pipe
  <2>3. UNCHANGED <<savebuf, proc, script, inbox, astray, dropped>> /\ pc = "reap"
    BY <1>9 DEF fifo_write
  <2>4. Rest' = Rest
    BY <2>3, RestSame
  <2> QED BY <2>2, <2>3, <2>4 DEF Saved
<1>10. CASE task_remove
  <2>1. /\ UNCHANGED <<fifo, savebuf, script, shown, astray, dropped>>
        /\ pc' \in {"idle_end", "restore"} /\ inbox' = [inbox EXCEPT !["rzread"] = <<>>]
    BY <1>10 DEF task_remove, AfterRemove, history
  <2>2. inbox'["master"] = inbox["master"]
    BY <2>1 DEF Typed, TypeOK
  <2>3. Rest' = Rest
    BY <2>1, <2>2, RestSame
  <2> QED BY <2>1, <2>3 DEF Saved
<1>11. CASE idle_end
  <2> DEFINE s == <<"status">>
  <2>1. s \in Seq(Tokens) /\ s # <<>> /\ NoText(s)
    <3>1. "status" \notin Text
      BY ScriptAssumption
    <3> QED BY <3>1, OneElement DEF Tokens, NoText
  <2>2. pipe_write(s) /\ UNCHANGED <<script, inbox, astray, savebuf>> /\ pc' = "restore"
    BY <1>11 DEF idle_end
  <2> HIDE DEF s
  <2>3. InOrder(shown, fifo["master_output"], savebuf, Rest, Elements(astray) \union Elements(dropped))'
    BY <2>1, <2>2, StuffSaved
  <2> QED BY <2>2, <2>3 DEF Saved
<1>12. CASE rzt_destructor_proc
  <2>1. /\ pc = "restore" /\ savebuf' = <<>> /\ UNCHANGED <<proc, script, inbox, astray>>
        /\ IF savebuf = <<>> THEN UNCHANGED <<fifo, shown, dropped>> ELSE pipe_write(savebuf)
    BY <1>12 DEF rzt_destructor_proc
  <2>2. CASE savebuf = <<>>
    <3>1. Rest' = Rest
      BY <2>1, RestSame
    <3> QED BY <2>1, <2>2, <3>1 DEF Saved
  <2>3. CASE savebuf # <<>>
    <3>1. savebuf \in Seq(Tokens)
      BY DEF Typed, TypeOK
    <3>2. InOrder(shown, fifo["master_output"], savebuf, Rest, Elements(astray) \union Elements(dropped))'
      BY <2>1, <2>3, <3>1, StuffSaved
    <3> QED BY <2>1, <3>2 DEF Saved
  <2> QED BY <2>2, <2>3
<1> QED BY <1>1, <1>2, <1>3, <1>4, <1>5, <1>6, <1>7, <1>8, <1>9, <1>10, <1>11, <1>12
        DEF Loop, Dispatch

LEMMA NextSaved ==
  ASSUME Typed, LateLast, Followed', Saved, [Next]_vars
  PROVE  Saved'
<1>1. ASSUME Environment \/ UNCHANGED vars PROVE Saved'
  <2>1. UNCHANGED <<fifo, savebuf, proc, shown, astray, dropped, pc>>
    BY <1>1 DEF Environment, ShellPrint, ShellExit, RzRead, RzSpeaks, RzExit, UserTypes, Consume,
                structs, history, vars
  <2>2. Rest' = Rest
    <3>1. CASE ShellPrint
      BY <3>1, RestPrinted
    <3>2. CASE ~ShellPrint
      <4>1. script' = script /\ inbox'["master"] = inbox["master"]
        BY <1>1, <3>2 DEF Environment, ShellExit, RzRead, RzSpeaks, RzExit, UserTypes, Consume, outside, vars,
                          Typed, TypeOK
      <4> QED BY <4>1, RestSame
    <3> QED BY <3>1, <3>2
  <2> QED BY <2>1, <2>2 DEF Saved
<1>2. ASSUME Loop PROVE Saved'
  BY <1>2, LoopSaved
<1> QED BY <1>1, <1>2 DEF Next

LEMMA InitSaved == Init => Saved
<1> SUFFICES ASSUME Init PROVE Saved
  OBVIOUS
<1>1. /\ shown = <<>> /\ fifo["master_output"] = <<>> /\ savebuf = <<>> /\ astray = <<>> /\ dropped = <<>>
      /\ inbox["master"] = <<>> /\ script = Script
  BY DEF Init, Pipe
<1>2. Script \in Seq(Tokens) /\ Len(Script) \in Nat /\ DOMAIN Script = 1..Len(Script)
  BY ScriptIs
<1>3. Rest = Script
  BY <1>1, <1>2, EmptyJoined DEF Rest
<1>4. \A i \in DOMAIN Script : Place(Script, Script[i]) = i
  <2> TAKE i \in DOMAIN Script
  <2>1. Script[i] \in Elements(Script)
    BY DEF Elements
  <2> DEFINE k == Place(Script, Script[i])
  <2>2. k \in 0..Len(Script) /\ k > 0 /\ Script[k] = Script[i]
    BY <1>2, <2>1, PlaceIs
  <2> HIDE DEF k
  <2>3. k \in DOMAIN Script
    BY <1>2, <2>2
  <2>4. k = i
    BY <2>2, <2>3, ScriptAssumption
  <2> QED BY <2>4 DEF k
<1>5. Ordered(Script)
  BY <1>4 DEF Ordered
<1>6. <<>> \in Seq(Tokens) /\ NoText(<<>>) /\ Elements(<<>>) = {}
  BY DEF NoText, Elements
<1>7. Ordered(<<>>) /\ \A y : Before(<<>>, y) /\ Before(y, <<>>)
  BY <1>6, NoTextOrdered
<1>8. InOrder(<<>>, <<>>, <<>>, Script, {} \union {})
  BY <1>5, <1>6, <1>7 DEF InOrder
<1> QED BY <1>1, <1>3, <1>6, <1>8 DEF Saved

(***************************************************************************)
(* What the shell prints for the terminal is shown, in the fifo, saved or  *)
(* yet to be read, once and in its order; missing is only what zscan_start *)
(* sent to the shell and what pipe_write had no room for (zrq.c:149,       *)
(* zfin.c:12, rztask.c:133).                                               *)
(***************************************************************************)
THEOREM SessionTextInOrder == Spec => []TextInOrder
<1>1. Typed /\ LateLast /\ Saved /\ [Next]_vars /\ Followed' => Saved'
  BY NextSaved
<1>2. Spec => [](Typed /\ LateLast /\ Followed /\ Saved)
  BY <1>1, InitTyped, NextTyped, InitLate, NextLate, InitFollowed, NextFollowed, InitSaved, PTL DEF Spec
<1>3. Typed /\ Saved => TextInOrder
  <2> SUFFICES ASSUME Typed, Saved PROVE TextInOrder
    OBVIOUS
  <2>1. /\ shown \in Seq(Tokens) /\ fifo["master_output"] \in Seq(Tokens) /\ savebuf \in Seq(Tokens)
        /\ inbox["master"] \in Seq(Tokens) /\ script \in Seq(Tokens)
    BY DEF Typed, TypeOK, Pipe
  <2>2. Rest \in Seq(Tokens)
    BY <2>1, Joined DEF Rest
  <2> DEFINE b == fifo["master_output"]
             m == Elements(astray) \union Elements(dropped)
  <2>3. InOrder(shown, b, savebuf, Rest, m) /\ b \in Seq(Tokens)
    BY <2>1 DEF Saved
  <2> HIDE DEF b, m
  <2>4. /\ Ordered(shown \o b \o savebuf \o Rest)
        /\ Elements(shown \o b \o savebuf \o Rest) \intersect Text = (Elements(Script) \intersect Text) \ m
    BY <2>1, <2>2, <2>3, InOrderIs
  <2> QED BY <2>4 DEF TextInOrder, Rest, b, m
<1> QED BY <1>2, <1>3, PTL
=============================================================================
