---------------------------- MODULE TableProofs ----------------------------
(***************************************************************************)
(* The table of open files and the numbers that rzh remembers of it: no    *)
(* number is used for a file it was not noted for, the children are wired  *)
(* as they should be, and nothing is left open, for any invocations, any   *)
(* size of the tables and any number of transfers; the terminal's mode is  *)
(* given back; the process has its type however it ends; rzh runs out of   *)
(* descriptors only for what it was given; and what was asked for on the   *)
(* command line is what is done.                                           *)
(***************************************************************************)
EXTENDS ProcessProofs

\* The files rzh opens itself.
Ours == {"log", "socket", "ptm", "pts"} \union {RzPipes[k] : k \in 1..6}

\* The number that is remembered for one of them.
Noted(m, file) ==
  CASE file = "log"        -> m.log_fd
    [] file = "socket"     -> m.conn_fd
    [] file = "ptm"        -> m.st_master_fd
    [] file = "pts"        -> m.st_slave_fd
    [] file = "chstdout.r" -> m.spec.infd
    [] file = "chstdin.w"  -> m.spec.outfd
    [] file = "chstderr.r" -> m.spec.errfd
    [] OTHER               -> -1

\* What is open is what was given, or ours, and then only at the number noted.
Known(m) ==
  /\ DOMAIN m.t = Fd
  /\ \A f \in Fd : \/ m.t[f] \in {Closed, Given(f)}
                   \/ m.t[f] \in Ours /\ Noted(m, m.t[f]) = f

\* A number that is still noted for a file is not used for another one.
Holds(m, file) == Noted(m, file) \in Fd => m.t[Noted(m, file)] \in {file, Closed}

\* Where the standard descriptors have not been closed, the others last.
LogKept(m) == m.log_fd \in Fd => m.t[m.log_fd] = "log"
PtyKept(m) == /\ m.st_master_fd \in Fd /\ m.t[m.st_master_fd] = "ptm"
              /\ m.st_slave_fd \in Fd /\ m.t[m.st_slave_fd] = "pts"

\* What find_highest_fd found at the start is still the highest that was given.
Highest(m) ==
  LET g == m.g_highest_fd
  IN  /\ g \in Fd /\ g >= 2 /\ (g > 2 => m.t[g] = "inherited")
      /\ \A f \in Fd \ Standard : m.t[f] = "inherited" => f <= g

Table(m) ==
  /\ Known(m)
  /\ \A file \in {"socket", "chstdout.r", "chstdin.w", "chstderr.r"} : Holds(m, file)
  /\ Plain(m) => LogKept(m) /\ Highest(m)
  /\ ~Pty(m) => m.st_master_fd = 0 /\ m.st_slave_fd = 0

\* An atom is at its file.
Placed(m) ==
  \A a \in Atom : m.fd[a] >= 0 =>
    /\ m.fd[a] \in Fd
    /\ m.t[m.fd[a]] = FileOf(m, a) \/ (a \in {"stdin", "stdout"} /\ ~Plain(m))

Before == {"args", "connect", "preflight", "setup"}

Images ==
  /\ \A image \in {rzat, shellat} \ {None} :
       /\ \A f \in Fd \ Standard : image.t[f] \in {Closed, "inherited"}
       /\ image.plain => image.checked
       /\ Pty(me) /\ image.plain => image.foreign = {}
  /\ shellat # None /\ shellat.plain => Wired(shellat, "pts", "pts", "pts")
  /\ rzat # None => rzat.atoms = {}
  /\ rzat # None /\ rzat.plain /\ Pty(me) =>
       Wired(rzat, "chstdin.r", "chstdout.w", "chstderr.w")

Tables ==
  /\ Running => /\ Table(me) /\ Placed(me)
                /\ head # "rz" => me.spec = NoRz
  /\ pc \in Before => /\ \A f \in Fd : me.t[f] \notin {"ptm", "pts"}
                      /\ me.conn_fd >= 0 => me.conn_fd \in Fd /\ me.t[me.conn_fd] = "socket"
                      /\ me.st_master_fd = 0 /\ me.st_slave_fd = 0
                      /\ rzat = None /\ shellat = None
  /\ pc \in {"args", "connect"} => me.conn_fd = -1
  /\ pc \in Beginning => me.spec = NoRz
  /\ pc = "install" => Pty(me) /\ me.st_master_fd \in Fd /\ me.t[me.st_master_fd] = "ptm"
  /\ Running /\ pc \notin Before /\ Pty(me) /\ Plain(me) => PtyKept(me)
  /\ Pty(me) /\ Plain(me) => me.foreign = {}
  /\ pc = "exited" /\ code = 0 /\ head = None /\ argv = <<>> => Clean(me.t, io_exit_check(me))
  /\ Images

\* The mode of the terminal.
Modes ==
  /\ pc \in Before => termios = "cooked"
  /\ Running /\ pc \notin Before /\ Pty(me) /\ me.t[0] = "in" => st_stdin_ios = "cooked"
  /\ Restored

-----------------------------------------------------------------------------
\* Everything about a process but its atoms and the table of open files.
Alike(m, n) ==
  /\ n.spec = m.spec /\ n.st_master_fd = m.st_master_fd /\ n.st_slave_fd = m.st_slave_fd
  /\ n.conn_fd = m.conn_fd /\ n.log_fd = m.log_fd /\ n.g_highest_fd = m.g_highest_fd

\* The files go where no file was, each to a place of its own.
LEMMA PlaceFacts ==
  ASSUME NEW m, NEW n \in Nat, n <= Room(m)
  PROVE  /\ \A k \in 1..n : Place(m, k) \in Fd /\ m.t[Place(m, k)] = Closed
         /\ \A k, j \in 1..n : Place(m, k) = Place(m, j) => k = j
<1>1. ASSUME NEW k \in 1..n
      PROVE  Place(m, k) \in Free(m) /\ Cardinality({g \in Free(m) : g <= Place(m, k)}) = k
  <2>1. MaxFd \in Nat /\ Free(m) \in SUBSET (0..MaxFd) /\ k <= Cardinality(Free(m))
        /\ k \in Nat \ {0}
    BY MaxFdAssumption, RoomIsNat DEF Room, Free, Fd
  <2>2. \E f \in Free(m) : Cardinality({g \in Free(m) : g <= f}) = k
    BY <2>1, Ranked
  <2> QED BY <2>2 DEF Place
<1> QED BY <1>1 DEF Free

LEMMA OpenEffect ==
  ASSUME NEW m, DOMAIN m = Fields, DOMAIN m.t = Fd, NEW files, NEW n \in Nat, n <= Room(m),
         DOMAIN files = 1..n
  PROVE  LET o == open(m, files)
         IN  /\ DOMAIN o = Fields /\ SameAtoms(m, o) /\ Alike(m, o) /\ o.foreign = m.foreign
             /\ o.err = m.err /\ DOMAIN o.t = Fd
             /\ \A k \in 1..n : o.t[Place(m, k)] = files[k]
             /\ \A f \in Fd : (\A k \in 1..n : Place(m, k) # f) => o.t[f] = m.t[f]
<1> DEFINE o == open(m, files)
           t == [f \in Fd |-> IF \E k \in DOMAIN files : Place(m, k) = f
                              THEN files[CHOOSE k \in DOMAIN files : Place(m, k) = f]
                              ELSE m.t[f]]
<1>1. o = [m EXCEPT !.t = t]
  BY DEF open
<1>2. /\ DOMAIN o = Fields /\ SameAtoms(m, o) /\ Alike(m, o) /\ o.foreign = m.foreign
      /\ o.err = m.err /\ o.t = t
  <2> HIDE DEF o, t
  <2> QED BY <1>1 DEF SameAtoms, Alike, Fields
<1>3. ASSUME NEW k \in 1..n PROVE t[Place(m, k)] = files[k]
  <2>1. Place(m, k) \in Fd /\ \A j \in 1..n : Place(m, j) = Place(m, k) => j = k
    BY PlaceFacts
  <2>2. (CHOOSE j \in DOMAIN files : Place(m, j) = Place(m, k)) = k
    BY <2>1
  <2> QED BY <2>1, <2>2
<1> HIDE DEF o
<1>4. DOMAIN t = Fd /\ \A f \in Fd : (\A k \in 1..n : Place(m, k) # f) => t[f] = m.t[f]
  OBVIOUS
<1> QED BY <1>2, <1>3, <1>4 DEF o

\* Whatever the room, what is open after open() was open before, or is one of the files.
LEMMA OpenKinds ==
  ASSUME NEW m, DOMAIN m = Fields, NEW files
  PROVE  LET o == open(m, files)
         IN  /\ Alike(m, o) /\ o.foreign = m.foreign
             /\ \A f \in Fd : o.t[f] = m.t[f] \/ \E k \in DOMAIN files : o.t[f] = files[k]
<1> DEFINE o == open(m, files)
           t == [f \in Fd |-> IF \E k \in DOMAIN files : Place(m, k) = f
                              THEN files[CHOOSE k \in DOMAIN files : Place(m, k) = f]
                              ELSE m.t[f]]
<1>1. o = [m EXCEPT !.t = t]
  BY DEF open
<1>2. Alike(m, o) /\ o.foreign = m.foreign /\ o.t = t
  <2> HIDE DEF o, t
  <2> QED BY <1>1 DEF Alike, Fields
<1>3. ASSUME NEW f \in Fd PROVE t[f] = m.t[f] \/ \E k \in DOMAIN files : t[f] = files[k]
  <2>1. CASE \E k \in DOMAIN files : Place(m, k) = f
    <3>1. (CHOOSE k \in DOMAIN files : Place(m, k) = f) \in DOMAIN files
      BY <2>1
    <3> QED BY <2>1, <3>1
  <2> QED BY <2>1
<1> QED BY <1>2, <1>3

LEMMA CloseEffect ==
  ASSUME NEW m, DOMAIN m = Fields, NEW pairs
  PROVE  LET n == close(m, pairs)
         IN  /\ DOMAIN n = Fields /\ SameAtoms(m, n) /\ Alike(m, n) /\ n.err = m.err
             /\ DOMAIN n.t = Fd
             /\ \A f \in Fd : n.t[f] = IF \E p \in pairs : p[1] = f THEN Closed ELSE m.t[f]
             /\ (\A p \in pairs : p[1] \in Fd => m.t[p[1]] \in {p[2], Closed})
                  => n.foreign = m.foreign
<1> DEFINE n == close(m, pairs)
           t == [f \in Fd |-> IF \E p \in pairs : p[1] = f THEN Closed ELSE m.t[f]]
           u == m.foreign \union UNION {Misused(m, p[1], p[2]) : p \in pairs}
<1>1. n = [m EXCEPT !.t = t, !.foreign = u]
  BY DEF close
<1>2. /\ DOMAIN n = Fields /\ SameAtoms(m, n) /\ Alike(m, n) /\ n.err = m.err
      /\ n.t = t /\ n.foreign = u
  <2> HIDE DEF n, t, u
  <2> QED BY <1>1 DEF SameAtoms, Alike, Fields
<1>3. ASSUME \A p \in pairs : p[1] \in Fd => m.t[p[1]] \in {p[2], Closed}
      PROVE  u = m.foreign
  <2>1. \A p \in pairs : Misused(m, p[1], p[2]) = {}
    BY <1>3 DEF Misused
  <2> QED BY <2>1
<1> HIDE DEF n, u
<1>4. DOMAIN t = Fd
      /\ \A f \in Fd : t[f] = IF \E p \in pairs : p[1] = f THEN Closed ELSE m.t[f]
  OBVIOUS
<1> HIDE DEF t
<1> QED BY <1>2, <1>3, <1>4 DEF n

\* The registry has nothing to do with the files.
LEMMA DelEffect ==
  ASSUME NEW m, DOMAIN m = Fields, NEW a
  PROVE  LET n == io_del(m, a)
         IN  DOMAIN n = Fields /\ Alike(m, n) /\ n.t = m.t /\ n.foreign = m.foreign
BY DEF io_del, io_del_fd, Alike, Fields

LEMMA AddEffect ==
  ASSUME NEW m, DOMAIN m = Fields, NEW a, NEW f
  PROVE  LET n == io_add(m, a, f)
         IN  DOMAIN n = Fields /\ Alike(m, n) /\ n.t = m.t /\ n.foreign = m.foreign
BY DEF io_add, Alike, Fields

LEMMA Dup2Effect ==
  ASSUME NEW m, DOMAIN m = Fields, DOMAIN m.t = Fd, NEW f, NEW g \in Fd
  PROVE  LET n == dup2(m, f, g)
         IN  /\ DOMAIN n = Fields /\ SameAtoms(m, n) /\ Alike(m, n) /\ n.foreign = m.foreign
             /\ DOMAIN n.t = Fd
             /\ \A h \in Fd : h # g => n.t[h] = m.t[h]
             /\ f \in Fd /\ m.t[f] # Closed => n.t[g] = m.t[f]
             /\ n.t[g] \in {m.t[g], m.t[f]}
BY DEF dup2, SameAtoms, Alike, Fields, Opened, Free

-----------------------------------------------------------------------------
LEMMA StandardIsFd == Standard \subseteq Fd
BY MaxFdAssumption DEF Standard, Fd

LEMMA OursAre ==
  Ours = {"log", "socket", "ptm", "pts", "chstdin.r", "chstdin.w", "chstdout.r", "chstdout.w",
          "chstderr.r", "chstderr.w"}
<1>1. /\ RzPipes[1] = "chstdin.r" /\ RzPipes[2] = "chstdin.w" /\ RzPipes[3] = "chstdout.r"
      /\ RzPipes[4] = "chstdout.w" /\ RzPipes[5] = "chstderr.r" /\ RzPipes[6] = "chstderr.w"
  BY DEF RzPipes
<1>2. 1..6 = {1, 2, 3, 4, 5, 6}
  OBVIOUS
<1> QED BY <1>1, <1>2 DEF Ours

\* None of the files that are opened is one that was given.
LEMMA PlainLess ==
  ASSUME NEW m, NEW n, \A f \in Fd : n.t[f] \in {m.t[f], Closed} \union Ours
  PROVE  /\ Plain(n) => Plain(m)
         /\ \A f \in Standard : n.t[f] = Given(f) => m.t[f] = Given(f)
BY StandardIsFd, OursAre DEF Plain, Standard, Given, Closed

\* What is never closed while the standard descriptors are what they were.
Lasting == {"log", "inherited", "ptm", "pts"}

LEMMA NotedAlike ==
  ASSUME NEW m, NEW n, Alike(m, n), NEW file
  PROVE  Noted(n, file) = Noted(m, file)
BY DEF Alike, Noted

LEMMA CloseTable ==
  ASSUME NEW m, DOMAIN m = Fields, Table(m), NEW pairs,
         \A p \in pairs : p[1] \in Fd /\ Plain(m) => m.t[p[1]] \notin Lasting
  PROVE  LET n == close(m, pairs)
         IN  /\ Table(n)
             /\ Plain(n) => Plain(m) /\ (PtyKept(m) => PtyKept(n))
<1> DEFINE n == close(m, pairs)
<1>1. /\ Alike(m, n) /\ DOMAIN n.t = Fd
      /\ \A f \in Fd : n.t[f] = IF \E p \in pairs : p[1] = f THEN Closed ELSE m.t[f]
  BY CloseEffect
<1> HIDE DEF n
<1>2. \A f \in Fd : n.t[f] \in {m.t[f], Closed}
  BY <1>1
<1>3. \A f \in Fd : Plain(m) /\ m.t[f] \in Lasting => n.t[f] = m.t[f]
  BY <1>1
<1>4. Plain(n) => Plain(m)
  BY <1>2, PlainLess
<1>5. Known(n)
  BY <1>1, <1>2, NotedAlike DEF Table, Known
<1>6. \A file : Holds(m, file) => Holds(n, file)
  BY <1>1, <1>2, NotedAlike DEF Holds
<1>7. Plain(n) => LogKept(n)
  BY <1>1, <1>3, <1>4 DEF Table, LogKept, Alike, Lasting
<1>8. Plain(n) => Highest(n)
  <2>1. SUFFICES ASSUME Plain(n) PROVE Highest(n)
    OBVIOUS
  <2>2. Highest(m) /\ n.g_highest_fd = m.g_highest_fd
    BY <1>1, <1>4, <2>1 DEF Table, Alike
  <2>3. \A f \in Fd : n.t[f] = "inherited" <=> m.t[f] = "inherited"
    BY <1>2, <1>3, <1>4, <2>1 DEF Lasting, Closed
  <2> QED BY <2>2, <2>3 DEF Highest
<1>9. ~Pty(n) => n.st_master_fd = 0 /\ n.st_slave_fd = 0
  BY <1>1 DEF Table, Pty, Alike
<1>10. Plain(n) /\ PtyKept(m) => PtyKept(n)
  BY <1>1, <1>3, <1>4 DEF PtyKept, Alike, Lasting
<1> QED BY <1>4, <1>5, <1>6, <1>7, <1>8, <1>9, <1>10 DEF Table, n

\* What leaves the files and the numbers alone leaves Table alone.
LEMMA SameTable ==
  ASSUME NEW m, NEW n, n.t = m.t, Alike(m, n)
  PROVE  /\ Table(m) => Table(n) /\ (PtyKept(m) => PtyKept(n))
         /\ Plain(n) = Plain(m)
<1>1. Plain(n) = Plain(m)
  BY DEF Plain
<1>2. Known(m) => Known(n)
  BY NotedAlike DEF Known
<1>3. \A file : Holds(m, file) => Holds(n, file)
  BY NotedAlike DEF Holds
<1> QED BY <1>1, <1>2, <1>3 DEF Table, LogKept, Highest, Pty, PtyKept, Alike

-----------------------------------------------------------------------------
\* What the events and the end of a transfer do to the table: they close, and keep its order.
Keeps(m, n) ==
  /\ Registry(n) /\ Table(n) /\ Placed(n)
  /\ n.conn_fd = m.conn_fd /\ n.spec \in {m.spec, NoRz}
  /\ \A f \in Fd : n.t[f] \in {m.t[f], Closed}
  /\ Plain(n) => n.foreign = m.foreign /\ (PtyKept(m) => PtyKept(n))

LEMMA KeepsTrans ==
  ASSUME NEW m, NEW n, NEW k, Keeps(m, n), Keeps(n, k)
  PROVE  Keeps(m, k)
<1>1. Plain(k) => Plain(n)
  BY PlainLess DEF Keeps
<1>2. \A f \in Fd : k.t[f] \in {m.t[f], Closed}
  BY DEF Keeps
<1> QED BY <1>1, <1>2 DEF Keeps

LEMMA EndedTable ==
  ASSUME NEW m, Registry(m), Table(m), Placed(m), NEW a \in Atom, m.fd[a] >= 0,
         a = "master" => ~Pty(m)
  PROVE  Keeps(m, Ended(m, a)) /\ Ended(m, a).spec = m.spec
<1> DEFINE own == {<<m.fd[a], FileOf(m, a)>>}
           k == close(m, own)
           n == Ended(m, a)
<1>1. DOMAIN m = Fields /\ m.fd \in [Atom -> Int] /\ m.conn_fd \in Int
  BY DEF Registry, IsProcess
<1>2. m.fd[a] \in Fd /\ (Plain(m) => m.t[m.fd[a]] = FileOf(m, a))
  BY DEF Placed
<1>3. FileOf(m, a) \notin Lasting
  <2>1. a = "master" => FileOf(m, a) = "socket"
    BY <1>1 DEF FileOf, Pty
  <2>2. a # "master" => FileOf(m, a) \in {"in", "out", "chstdout.r", "chstdin.w", "chstderr.r"}
    BY DEF FileOf, Atom
  <2> QED BY <2>1, <2>2 DEF Lasting
<1>4. \A p \in own : p[1] = m.fd[a] /\ p[2] = FileOf(m, a)
  OBVIOUS
<1>5. Table(k) /\ (Plain(k) => Plain(m) /\ (PtyKept(m) => PtyKept(k)))
  <2> HIDE DEF own
  <2> QED BY <1>1, <1>2, <1>3, <1>4, CloseTable
<1>6. /\ DOMAIN k = Fields /\ SameAtoms(m, k) /\ Alike(m, k)
      /\ \A f \in Fd : k.t[f] = IF f = m.fd[a] THEN Closed ELSE m.t[f]
      /\ Plain(m) => k.foreign = m.foreign
  <2>1. \A f : (\E p \in own : p[1] = f) <=> f = m.fd[a]
    OBVIOUS
  <2> HIDE DEF own
  <2> QED BY <1>1, <1>2, <1>4, <2>1, CloseEffect
<1>7. Registry(k)
  BY CloseKeeps
<1> HIDE DEF k
<1>8. n = io_del(k, a)
  BY DEF Ended, k
<1> HIDE DEF n
<1>9. DOMAIN n = Fields /\ Alike(k, n) /\ n.t = k.t /\ n.foreign = k.foreign
  BY <1>6, <1>8, DelEffect
<1>10. Registry(n) /\ n.fd = [m.fd EXCEPT ![a] = -1]
  BY <1>6, <1>7, <1>8, DelKeeps DEF SameAtoms
<1>11. Table(n) /\ Plain(n) = Plain(k) /\ (PtyKept(k) => PtyKept(n))
  BY <1>5, <1>9, SameTable
<1>12. n.conn_fd = m.conn_fd /\ n.spec = m.spec
  BY <1>6, <1>9 DEF Alike
<1>13. Placed(n)
  <2>1. ASSUME NEW b \in Atom, n.fd[b] >= 0
        PROVE  /\ n.fd[b] \in Fd
               /\ n.t[n.fd[b]] = FileOf(n, b) \/ (b \in {"stdin", "stdout"} /\ ~Plain(n))
    <3>1. b # a /\ n.fd[b] = m.fd[b]
      BY <1>1, <1>10, <2>1
    <3>2. m.fd[b] # m.fd[a]
      BY <2>1, <3>1, RegisteredSlot
    <3>3. /\ m.fd[b] \in Fd
          /\ m.t[m.fd[b]] = FileOf(m, b) \/ (b \in {"stdin", "stdout"} /\ ~Plain(m))
      BY <2>1, <3>1 DEF Placed
    <3>4. CASE b \in {"stdin", "stdout"} /\ ~Plain(m)
      BY <1>5, <1>11, <3>1, <3>3, <3>4
    <3>5. CASE m.t[m.fd[b]] = FileOf(m, b)
      <4>1. FileOf(n, b) = FileOf(m, b)
        BY <1>12 DEF FileOf
      <4> QED BY <1>6, <1>9, <3>1, <3>2, <3>3, <3>5, <4>1
    <3> QED BY <3>3, <3>4, <3>5
  <2> QED BY <2>1 DEF Placed
<1>14. \A f \in Fd : n.t[f] \in {m.t[f], Closed}
  BY <1>6, <1>9
<1>15. Plain(n) => n.foreign = m.foreign /\ (PtyKept(m) => PtyKept(n))
  BY <1>5, <1>6, <1>9, <1>11
<1> QED BY <1>10, <1>11, <1>12, <1>13, <1>14, <1>15 DEF Keeps, n

LEMMA KeepsSelf == ASSUME NEW m, Registry(m), Table(m), Placed(m) PROVE Keeps(m, m)
BY DEF Keeps

LEMMA MayEndTable ==
  ASSUME NEW m, Registry(m), Table(m), Placed(m), NEW a \in Atom, NEW n \in MayEnd(m, a)
  PROVE  Keeps(m, n) /\ n.spec = m.spec
<1>1. CASE n = m
  BY <1>1, KeepsSelf
<1>2. CASE n # m
  <2>1. m.fd[a] >= 0 /\ (a = "master" => ~Pty(m)) /\ n = Ended(m, a)
    BY <1>2 DEF MayEnd
  <2> QED BY <2>1, EndedTable
<1> QED BY <1>1, <1>2

\* An atom is taken out, its file stays open.
LEMMA DelTable ==
  ASSUME NEW m, Registry(m), Table(m), Placed(m), NEW a \in Atom
  PROVE  Keeps(m, io_del(m, a)) /\ io_del(m, a).spec = m.spec /\ io_del(m, a).t = m.t
<1> DEFINE n == io_del(m, a)
<1>1. DOMAIN m = Fields /\ m.fd \in [Atom -> Int]
  BY DEF Registry, IsProcess
<1>2. DOMAIN n = Fields /\ Alike(m, n) /\ n.t = m.t /\ n.foreign = m.foreign
  BY <1>1, DelEffect
<1>3. Registry(n) /\ n.fd = [m.fd EXCEPT ![a] = -1]
  BY DelKeeps
<1> HIDE DEF n
<1>4. Table(n) /\ Plain(n) = Plain(m) /\ (PtyKept(m) => PtyKept(n))
  BY <1>2, SameTable
<1>5. n.conn_fd = m.conn_fd /\ n.spec = m.spec
  BY <1>2 DEF Alike
<1>6. \A b \in Atom : n.fd[b] >= 0 => n.fd[b] = m.fd[b] /\ FileOf(n, b) = FileOf(m, b)
  BY <1>1, <1>3, <1>5 DEF FileOf
<1>7. Placed(n)
  BY <1>2, <1>4, <1>6 DEF Placed
<1> QED BY <1>2, <1>3, <1>4, <1>5, <1>7 DEF Keeps, n

(***************************************************************************)
(* rz's task goes.  A descriptor of the spec that was closed before may be *)
(* free, but nobody else has it: closing it once more does no harm.        *)
(***************************************************************************)
LEMMA RzRemovedTable ==
  ASSUME NEW m, Registry(m), Table(m), Placed(m)
  PROVE  Keeps(m, RzRemoved(m)) /\ RzRemoved(m).spec = NoRz
<1> DEFINE m1 == io_del(m, "rzerr")
           m2 == io_del(m1, "rzwrite")
           m3 == io_del(m2, "rzread")
           pairs == {<<m3.spec.infd, "chstdout.r">>, <<m3.spec.outfd, "chstdin.w">>,
                     <<m3.spec.errfd, "chstderr.r">>}
           k == close(m3, pairs)
           n == RzRemoved(m)
<1>1. Keeps(m, m1) /\ m1.spec = m.spec
  BY DelTable DEF Atom
<1> HIDE DEF m1
<1>2. Keeps(m1, m2) /\ m2.spec = m.spec
  BY <1>1, DelTable DEF Keeps, Atom
<1> HIDE DEF m2
<1>3. Keeps(m2, m3) /\ m3.spec = m.spec
  BY <1>2, DelTable DEF Keeps, Atom
<1>4. /\ m3.fd["rzread"] = -1 /\ m3.fd["rzwrite"] = -1 /\ m3.fd["rzerr"] = -1
  <2>1. Registry(m) /\ Registry(m1) /\ Registry(m2)
    BY <1>1, <1>2 DEF Keeps
  <2>2. {"rzread", "rzwrite", "rzerr"} \subseteq Atom
    BY DEF Atom
  <2>3. /\ m1.fd = [m.fd EXCEPT !["rzerr"] = -1] /\ m2.fd = [m1.fd EXCEPT !["rzwrite"] = -1]
        /\ m3.fd = [m2.fd EXCEPT !["rzread"] = -1] /\ m.fd \in [Atom -> Int]
    BY <2>1, <2>2, DelKeeps DEF Registry, IsProcess, m1, m2
  <2> QED BY <2>2, <2>3
<1> HIDE DEF m3
<1>5. Keeps(m, m3)
  BY <1>1, <1>2, <1>3, KeepsTrans
<1>6. /\ Registry(m3) /\ Table(m3) /\ Placed(m3) /\ DOMAIN m3 = Fields
      /\ m3.fd \in [Atom -> Int] /\ m3.conn_fd \in Int
  BY <1>5 DEF Keeps, Registry, IsProcess
<1>7. \A p \in pairs : p[2] \in {"chstdout.r", "chstdin.w", "chstderr.r"} /\ p[1] = Noted(m3, p[2])
  BY DEF Noted
<1>8. \A p \in pairs : p[1] \in Fd => m3.t[p[1]] \in {p[2], Closed}
  BY <1>6, <1>7 DEF Table, Holds
<1>9. \A f : (\E p \in pairs : p[1] = f)
               <=> f \in {Noted(m3, "chstdout.r"), Noted(m3, "chstdin.w"), Noted(m3, "chstderr.r")}
  BY DEF Noted
<1>10. n = [k EXCEPT !.spec = NoRz]
  BY DEF RzRemoved, task_default_destructor, m1, m2, m3
<1> HIDE DEF pairs
<1>11. Table(k) /\ (Plain(k) => Plain(m3) /\ (PtyKept(m3) => PtyKept(k)))
  BY <1>6, <1>7, <1>8, CloseTable DEF Lasting, Closed
<1>12. /\ DOMAIN k = Fields /\ SameAtoms(m3, k) /\ Alike(m3, k) /\ k.foreign = m3.foreign
       /\ \A f \in Fd : k.t[f] = IF \E p \in pairs : p[1] = f THEN Closed ELSE m3.t[f]
  BY <1>6, <1>8, CloseEffect
<1>13. Registry(k)
  BY <1>6, CloseKeeps
<1>14. \A f \in Fd : k.t[f] \notin {"chstdout.r", "chstdin.w", "chstderr.r"}
  <2>1. SUFFICES ASSUME NEW f \in Fd, k.t[f] \in {"chstdout.r", "chstdin.w", "chstderr.r"}
                 PROVE  FALSE
    OBVIOUS
  <2>2. k.t[f] = m3.t[f]
    BY <1>12, <2>1 DEF Closed
  <2>3. m3.t[f] \in Ours /\ Noted(m3, m3.t[f]) = f
    BY <1>6, <2>1, <2>2 DEF Table, Known, Given, Closed
  <2>4. \E p \in pairs : p[1] = f
    BY <1>9, <2>1, <2>2, <2>3
  <2> QED BY <1>12, <2>1, <2>4 DEF Closed
<1> HIDE DEF k
<1>15. /\ DOMAIN n = Fields /\ SameAtoms(k, n) /\ n.t = k.t /\ n.spec = NoRz
       /\ n.foreign = k.foreign
       /\ n.st_master_fd = k.st_master_fd /\ n.st_slave_fd = k.st_slave_fd
       /\ n.conn_fd = k.conn_fd /\ n.log_fd = k.log_fd /\ n.g_highest_fd = k.g_highest_fd
  BY <1>10, <1>12, <1>13 DEF SameAtoms, Fields
<1> HIDE DEF n
<1>16. Registry(n)
  BY <1>13, <1>15, SameAtomsKeep DEF Registry, IsProcess
<1>17. Plain(n) = Plain(k)
  BY <1>15 DEF Plain
<1>18. Table(n)
  <2>1. \A file : file \notin {"chstdout.r", "chstdin.w", "chstderr.r"}
                    => Noted(n, file) = Noted(k, file)
    BY <1>15 DEF Noted
  <2>2. Known(n)
    BY <1>11, <1>14, <1>15, <2>1 DEF Table, Known
  <2>3. Holds(n, "socket")
    BY <1>11, <1>15, <2>1 DEF Table, Holds
  <2>4. \A file \in {"chstdout.r", "chstdin.w", "chstderr.r"} : Noted(n, file) = -1
    BY <1>15 DEF Noted, NoRz
  <2>5. -1 \notin Fd
    BY DEF Fd
  <2>6. \A file \in {"chstdout.r", "chstdin.w", "chstderr.r"} : Holds(n, file)
    BY <2>4, <2>5 DEF Holds
  <2> QED BY <1>11, <1>15, <1>17, <2>2, <2>3, <2>6 DEF Table, LogKept, Highest, Pty
<1>19. Placed(n)
  <2>1. ASSUME NEW b \in Atom, n.fd[b] >= 0
        PROVE  /\ n.fd[b] \in Fd
               /\ n.t[n.fd[b]] = FileOf(n, b) \/ (b \in {"stdin", "stdout"} /\ ~Plain(n))
    <3>1. n.fd[b] = m3.fd[b] /\ FileOf(n, b) = FileOf(m3, b)
      BY <1>12, <1>15 DEF SameAtoms, Alike, FileOf
    <3>2. b \in {"stdin", "stdout", "master"}
      BY <1>4, <2>1, <3>1 DEF Atom
    <3>3. /\ m3.fd[b] \in Fd
          /\ m3.t[m3.fd[b]] = FileOf(m3, b) \/ (b \in {"stdin", "stdout"} /\ ~Plain(m3))
      BY <1>6, <2>1, <3>1 DEF Placed
    <3>4. CASE b \in {"stdin", "stdout"} /\ ~Plain(m3)
      BY <1>11, <1>17, <3>1, <3>3, <3>4
    <3>5. CASE m3.t[m3.fd[b]] = FileOf(m3, b)
      <4>1. FileOf(m3, b) \in {"in", "out", "socket", "ptm"}
        BY <3>2 DEF FileOf
      <4>2. \A p \in pairs : p[1] # m3.fd[b]
        <5>1. SUFFICES ASSUME NEW p \in pairs, p[1] = m3.fd[b] PROVE FALSE
          OBVIOUS
        <5>2. m3.t[m3.fd[b]] \in {p[2], Closed}
          BY <1>8, <3>3, <5>1
        <5> QED BY <1>7, <3>5, <4>1, <5>2 DEF Closed
      <4>3. k.t[m3.fd[b]] = m3.t[m3.fd[b]]
        BY <1>12, <3>3, <4>2
      <4> QED BY <1>15, <3>1, <3>3, <3>5, <4>3
    <3> QED BY <3>3, <3>4, <3>5
  <2> QED BY <2>1 DEF Placed
<1>20. n.conn_fd = m3.conn_fd /\ n.spec = NoRz /\ \A f \in Fd : n.t[f] \in {m3.t[f], Closed}
  BY <1>12, <1>15 DEF Alike
<1>21. Plain(n) => n.foreign = m3.foreign /\ (PtyKept(m3) => PtyKept(n))
  BY <1>11, <1>12, <1>15, <1>17 DEF PtyKept
<1>22. Keeps(m3, n)
  BY <1>16, <1>18, <1>19, <1>20, <1>21 DEF Keeps
<1>23. Keeps(m, n)
  BY <1>5, <1>22, KeepsTrans
<1> QED BY <1>20, <1>23 DEF n

-----------------------------------------------------------------------------
\* In n are what m has and the first c files, each at the number that is noted for it.
Opens(m, n, files, c) ==
  /\ c <= Room(m) /\ DOMAIN files = 1..c
  /\ n.t = open(m, files).t /\ n.g_highest_fd = m.g_highest_fd
  /\ \A k \in 1..c : files[k] \in Ours /\ Noted(n, files[k]) = Place(m, k)
  /\ \A k \in 1..c, f \in Fd : m.t[f] # files[k]
  /\ \A file : (\A k \in 1..c : file # files[k]) => Noted(n, file) = Noted(m, file)
  /\ \A file \in {"socket", "chstdout.r", "chstdin.w", "chstderr.r"} :
       Noted(m, file) \in Fd => m.t[Noted(m, file)] = file

(***************************************************************************)
(* Files of rzh's own are opened, and their numbers noted.  What is noted  *)
(* already is open, so that no number is taken over.                       *)
(***************************************************************************)
LEMMA OpenTable ==
  ASSUME NEW m, DOMAIN m = Fields, Table(m), NEW n, NEW files, NEW c \in Nat,
         Opens(m, n, files, c)
  PROVE  /\ Known(n)
         /\ \A file \in {"socket", "chstdout.r", "chstdin.w", "chstderr.r"} : Holds(n, file)
         /\ Plain(n) => Plain(m) /\ LogKept(n) /\ Highest(n)
         /\ \A k \in 1..c : Place(m, k) \in Fd /\ n.t[Place(m, k)] = files[k]
         /\ \A f \in Fd : n.t[f] = m.t[f] \/ \E k \in 1..c : n.t[f] = files[k]
<1> USE DEF Opens
<1>1. DOMAIN m.t = Fd
  BY DEF Table, Known
<1>2. /\ DOMAIN n.t = Fd
      /\ \A k \in 1..c : n.t[Place(m, k)] = files[k]
      /\ \A f \in Fd : (\A k \in 1..c : Place(m, k) # f) => n.t[f] = m.t[f]
  BY <1>1, OpenEffect
<1>3. \A k \in 1..c : Place(m, k) \in Fd /\ m.t[Place(m, k)] = Closed
  BY PlaceFacts
<1>4. \A f \in Fd : n.t[f] = m.t[f] \/ \E k \in 1..c : f = Place(m, k) /\ n.t[f] = files[k]
  BY <1>2
<1>5. \A f \in Fd : m.t[f] # Closed => n.t[f] = m.t[f]
  BY <1>2, <1>3
<1>6. Known(n)
  <2>1. ASSUME NEW f \in Fd, n.t[f] \notin {Closed, Given(f)}
        PROVE  n.t[f] \in Ours /\ Noted(n, n.t[f]) = f
    <3>1. CASE \E k \in 1..c : f = Place(m, k) /\ n.t[f] = files[k]
      BY <3>1
    <3>2. CASE n.t[f] = m.t[f]
      <4>1. m.t[f] \in Ours /\ Noted(m, m.t[f]) = f
        BY <2>1, <3>2 DEF Table, Known
      <4> QED BY <3>2, <4>1
    <3> QED BY <1>4, <3>1, <3>2
  <2> QED BY <1>2, <2>1 DEF Known
<1>7. ASSUME NEW file \in {"socket", "chstdout.r", "chstdin.w", "chstderr.r"}
      PROVE  Holds(n, file)
  <2>1. SUFFICES ASSUME Noted(n, file) \in Fd PROVE n.t[Noted(n, file)] = file
    BY DEF Holds
  <2>2. CASE \E k \in 1..c : file = files[k]
    BY <1>2, <2>2
  <2>3. CASE \A k \in 1..c : file # files[k]
    <3>1. Noted(n, file) = Noted(m, file) /\ m.t[Noted(m, file)] = file
      BY <2>1, <2>3
    <3>2. file # Closed
      BY DEF Closed
    <3> QED BY <1>5, <2>1, <3>1, <3>2
  <2> QED BY <2>2, <2>3
<1>8. \A f \in Fd : n.t[f] \in {m.t[f], Closed} \union Ours
  BY <1>4
<1>9. ASSUME Plain(n) PROVE Plain(m) /\ LogKept(n) /\ Highest(n)
  <2>1. Plain(m) /\ LogKept(m) /\ Highest(m)
    BY <1>8, <1>9, PlainLess DEF Table
  <2>2. LogKept(n)
    <3>1. SUFFICES ASSUME Noted(n, "log") \in Fd PROVE n.t[Noted(n, "log")] = "log"
      BY DEF LogKept, Noted
    <3>2. CASE \E k \in 1..c : "log" = files[k]
      BY <1>2, <3>2
    <3>3. CASE \A k \in 1..c : "log" # files[k]
      <4>1. Noted(n, "log") = Noted(m, "log") /\ m.t[Noted(m, "log")] = "log"
        BY <2>1, <3>1, <3>3 DEF LogKept, Noted
      <4> QED BY <1>5, <3>1, <4>1 DEF Closed
    <3> QED BY <3>2, <3>3
  <2>3. \A f \in Fd : n.t[f] = "inherited" <=> m.t[f] = "inherited"
    <3>1. "inherited" \notin Ours
      BY OursAre
    <3> QED BY <1>4, <1>5, <3>1 DEF Closed
  <2> QED BY <2>1, <2>2, <2>3 DEF Highest
<1> QED BY <1>2, <1>3, <1>4, <1>6, <1>7, <1>9

\* No atom, nothing to be placed.
LEMMA NothingPlaced == ASSUME NEW m, \A a \in Atom : m.fd[a] = -1 PROVE Placed(m)
BY DEF Placed

\* At the start.
LEMMA InitTables == Init => Tables
<1> SUFFICES ASSUME Init PROVE Tables
  OBVIOUS
<1>1. PICK i \in Invocations :
        me = Newborn(i.fds) /\ pc = IF me.g_highest_fd = 0 THEN "aborted" ELSE "args"
  BY DEF Init
<1>2. /\ me.t = [f \in Fd |-> IF f \in i.fds THEN Given(f) ELSE Closed] /\ me.foreign = {}
      /\ me.fd = [a \in Atom |-> -1] /\ me.spec = NoRz
      /\ me.st_master_fd = 0 /\ me.st_slave_fd = 0 /\ me.conn_fd = -1 /\ me.log_fd = -1
      /\ me.g_highest_fd = Max({0} \union i.fds)
  BY <1>1 DEF Newborn
<1>3. i.fds \subseteq Fd /\ MaxFd \in Nat /\ MaxFd >= 2
  BY StartupAssumption, MaxFdAssumption
<1>4. \A f \in Fd : me.t[f] = IF f \in i.fds THEN Given(f) ELSE Closed
  BY <1>2
<1>5. \A f \in Fd \ Standard : Given(f) = "inherited"
  BY DEF Given, Fd, Standard
<1>6. \A f \in Fd : Given(f) \notin {"ptm", "pts", Closed}
  BY DEF Given, Closed
<1>7. Known(me)
  BY <1>2, <1>4 DEF Known
<1>8. \A file \in {"socket", "chstdout.r", "chstdin.w", "chstderr.r"} : Holds(me, file)
  <2>1. \A file \in {"socket", "chstdout.r", "chstdin.w", "chstderr.r"} : Noted(me, file) = -1
    BY <1>2 DEF Noted, NoRz
  <2> QED BY <2>1 DEF Holds, Fd
<1>9. Plain(me) => Highest(me)
  <2>1. SUFFICES ASSUME Plain(me) PROVE Highest(me)
    OBVIOUS
  <2>2. Standard \subseteq i.fds
    BY <1>4, <1>6, <2>1, StandardIsFd DEF Plain
  <2> DEFINE S == {0} \union i.fds
             g == Max(S)
  <2>3. S \in SUBSET Int /\ S # {} /\ MaxFd \in Int /\ \A x \in S : x <= MaxFd
    BY <1>3 DEF Fd
  <2>4. g \in S /\ \A y \in S : y <= g
    <3> HIDE DEF S
    <3> QED BY <2>3, Greatest
  <2> HIDE DEF g
  <2>5. 2 \in S /\ 2 \in Standard
    BY <2>2 DEF Standard
  <2>6. g \in Fd /\ g >= 2
    BY <1>3, <2>4, <2>5 DEF Fd
  <2>7. g > 2 => me.t[g] = "inherited"
    BY <1>4, <1>5, <2>4, <2>6 DEF Standard
  <2>8. \A f \in Fd \ Standard : me.t[f] = "inherited" => f <= g
    BY <1>4, <2>4 DEF Closed
  <2> QED BY <1>2, <2>6, <2>7, <2>8 DEF Highest, g
<1>10. Table(me)
  BY <1>2, <1>7, <1>8, <1>9 DEF Table, LogKept, Fd
<1>11. Placed(me)
  BY <1>2, NothingPlaced
<1>12. pc \in {"args", "aborted"} /\ rzat = None /\ shellat = None
  BY <1>1 DEF Init
<1>13. Images
  BY <1>12 DEF Images
<1>14. \A f \in Fd : me.t[f] \notin {"ptm", "pts"}
  BY <1>4, <1>6 DEF Closed
<1> QED BY <1>2, <1>10, <1>11, <1>12, <1>13, <1>14 DEF Tables, Before, Running, Final

-----------------------------------------------------------------------------
\* What the invariant says of the process before the loop.
Early(m) ==
  /\ Table(m) /\ m.spec = NoRz
  /\ \A f \in Fd : m.t[f] \notin {"ptm", "pts"}
  /\ m.conn_fd >= 0 => m.conn_fd \in Fd /\ m.t[m.conn_fd] = "socket"
  /\ m.st_master_fd = 0 /\ m.st_slave_fd = 0
  /\ Pty(m) /\ Plain(m) => m.foreign = {}

LEMMA EarlyHolds ==
  ASSUME Inv, Tables, pc \in Before
  PROVE  /\ Running /\ Early(me) /\ rzat = None /\ shellat = None
         /\ DOMAIN me = Fields /\ me.conn_fd \in Int
         /\ \A a \in Atom : me.fd[a] = -1
         /\ pc \in {"args", "connect"} => me.conn_fd = -1
<1>1. Running /\ pc \in Beginning
  BY DEF Before, Running, Final, Beginning
<1>2. Registry(me) /\ \A a \in Atom : me.fd[a] = -1
  BY <1>1 DEF Inv
<1> QED BY <1>1, <1>2 DEF Tables, Early, Registry, IsProcess

LEMMA EarlyKept ==
  ASSUME Inv', UNCHANGED <<rzat, shellat>>, rzat = None, shellat = None,
         pc' \in Before, Early(me'), pc' \in {"args", "connect"} => me'.conn_fd = -1
  PROVE  Tables'
<1>1. Running' /\ pc' \in Beginning
  BY DEF Before, Running, Final, Beginning
<1>2. Placed(me')
  BY <1>1, NothingPlaced DEF Inv
<1>3. pc' \notin {"exited", "install"}
  BY DEF Before
<1>4. Images'
  BY DEF Images
<1> QED BY <1>1, <1>2, <1>3, <1>4 DEF Tables, Early

\* The end, by an exit that leaves the descriptors alone.
LEMMA FinalTables ==
  ASSUME Tables, pc' \in Final, UNCHANGED <<rzat, shellat>>, me'.conn_fd = me.conn_fd,
         Plain(me') => Plain(me) /\ me'.foreign = me.foreign,
         ~(pc' = "exited" /\ code' = 0 /\ head' = None /\ argv' = <<>>)
  PROVE  Tables'
<1>1. ~Running' /\ pc' \notin Before /\ pc' \notin Beginning /\ pc' \notin {"args", "connect", "install"}
  BY DEF Running, Final, Before, Beginning
<1>2. Pty(me') = Pty(me)
  BY DEF Pty
<1>3. Images'
  BY <1>2 DEF Tables, Images
<1> QED BY <1>1, <1>2, <1>3 DEF Tables

LEMMA LogCloseEffect ==
  ASSUME NEW m, DOMAIN m = Fields
  PROVE  LET n == log_close(m)
         IN  /\ DOMAIN n = Fields /\ SameAtoms(m, n) /\ DOMAIN n.t = Fd
             /\ n.spec = m.spec /\ n.conn_fd = m.conn_fd /\ n.log_fd = -1
             /\ n.st_master_fd = m.st_master_fd /\ n.st_slave_fd = m.st_slave_fd
             /\ n.g_highest_fd = m.g_highest_fd
             /\ \A f \in Fd : n.t[f] = IF f = m.log_fd THEN Closed ELSE m.t[f]
             /\ (m.log_fd \in Fd => m.t[m.log_fd] \in {"log", Closed}) => n.foreign = m.foreign
<1> DEFINE pairs == {<<m.log_fd, "log">>}
           k == close(m, pairs)
           n == log_close(m)
<1>1. \A p \in pairs : p[1] = m.log_fd /\ p[2] = "log"
  OBVIOUS
<1>2. \A f : (\E p \in pairs : p[1] = f) <=> f = m.log_fd
  OBVIOUS
<1> HIDE DEF pairs
<1>3. /\ DOMAIN k = Fields /\ SameAtoms(m, k) /\ Alike(m, k) /\ DOMAIN k.t = Fd
      /\ \A f \in Fd : k.t[f] = IF f = m.log_fd THEN Closed ELSE m.t[f]
      /\ (m.log_fd \in Fd => m.t[m.log_fd] \in {"log", Closed}) => k.foreign = m.foreign
  BY <1>1, <1>2, CloseEffect
<1>4. n = [k EXCEPT !.log_fd = -1]
  BY DEF log_close, k, pairs
<1> HIDE DEF k, n
<1>5. /\ DOMAIN n = Fields /\ SameAtoms(k, n) /\ n.t = k.t /\ n.foreign = k.foreign
      /\ n.spec = m.spec /\ n.st_master_fd = m.st_master_fd /\ n.st_slave_fd = m.st_slave_fd
      /\ n.conn_fd = m.conn_fd /\ n.log_fd = -1 /\ n.g_highest_fd = m.g_highest_fd
  BY <1>3, <1>4 DEF Fields, Alike, SameAtoms
<1> QED BY <1>3, <1>5 DEF SameAtoms, n

\* log_init gives up the number of an earlier log file.
LEMMA LogClosed ==
  ASSUME NEW m, DOMAIN m = Fields, Early(m), m.conn_fd = -1
  PROVE  LET n == log_close(m)
         IN  /\ Early(n) /\ DOMAIN n = Fields /\ n.log_fd = -1 /\ n.conn_fd = -1
             /\ \A f \in Fd : n.t[f] # "log"
             /\ Plain(n) => Plain(m) /\ n.foreign = m.foreign
<1> DEFINE n == log_close(m)
<1>1. /\ DOMAIN n = Fields /\ DOMAIN n.t = Fd /\ n.spec = m.spec /\ n.conn_fd = m.conn_fd
      /\ n.st_master_fd = m.st_master_fd /\ n.st_slave_fd = m.st_slave_fd
      /\ n.log_fd = -1 /\ n.g_highest_fd = m.g_highest_fd
      /\ \A f \in Fd : n.t[f] = IF f = m.log_fd THEN Closed ELSE m.t[f]
      /\ (m.log_fd \in Fd => m.t[m.log_fd] \in {"log", Closed}) => n.foreign = m.foreign
  BY LogCloseEffect
<1> HIDE DEF n
<1>2. \A file : file # "log" => Noted(n, file) = Noted(m, file)
  BY <1>1 DEF Noted
<1>3. \A f \in Fd : n.t[f] # "log"
  <2>1. SUFFICES ASSUME NEW f \in Fd, n.t[f] = "log" PROVE FALSE
    OBVIOUS
  <2>2. m.t[f] = "log" /\ f # m.log_fd
    BY <1>1, <2>1 DEF Closed
  <2> QED BY <2>2 DEF Early, Table, Known, Given, Closed, Noted
<1>4. Known(n)
  <2>1. ASSUME NEW f \in Fd, n.t[f] \notin {Closed, Given(f)}
        PROVE  n.t[f] \in Ours /\ Noted(n, n.t[f]) = f
    <3>1. n.t[f] = m.t[f]
      BY <1>1, <2>1
    <3>2. m.t[f] \in Ours /\ Noted(m, m.t[f]) = f
      BY <2>1, <3>1 DEF Early, Table, Known
    <3> QED BY <1>2, <1>3, <3>1, <3>2
  <2> QED BY <1>1, <2>1 DEF Known
<1>5. \A file \in {"socket", "chstdout.r", "chstdin.w", "chstderr.r"} : Holds(n, file)
  BY <1>1, <1>2 DEF Early, Table, Holds
<1>6. Plain(n) => Plain(m)
  BY <1>1, PlainLess
<1>7. Plain(n) => n.foreign = m.foreign /\ Highest(n)
  <2>1. SUFFICES ASSUME Plain(n) PROVE n.foreign = m.foreign /\ Highest(n)
    OBVIOUS
  <2>2. LogKept(m) /\ Highest(m)
    BY <1>6, <2>1 DEF Early, Table
  <2>3. n.foreign = m.foreign
    BY <1>1, <2>2 DEF LogKept
  <2>4. \A f \in Fd : n.t[f] = "inherited" <=> m.t[f] = "inherited"
    BY <1>1, <2>2 DEF LogKept, Closed
  <2> QED BY <1>1, <2>2, <2>3, <2>4 DEF Highest
<1>8. LogKept(n)
  BY <1>1 DEF LogKept, Fd
<1>9. Table(n)
  BY <1>1, <1>4, <1>5, <1>7, <1>8 DEF Table, Early
<1>10. \A f \in Fd : n.t[f] \notin {"ptm", "pts"}
  BY <1>1 DEF Early, Closed
<1> QED BY <1>1, <1>3, <1>6, <1>7, <1>9, <1>10 DEF Early, Pty, n

\* A file of rzh's own is opened, and its number noted, before the loop.
LEMMA LogOpened ==
  ASSUME NEW m, DOMAIN m = Fields, Early(m), m.conn_fd = -1, m.log_fd = -1,
         \A f \in Fd : m.t[f] # "log", Room(m) > 0
  PROVE  LET n == [open(m, <<"log">>) EXCEPT !.log_fd = Place(m, 1)]
         IN  Early(n) /\ n.conn_fd = -1
<1> DEFINE files == <<"log">>
           o == open(m, files)
           p == Place(m, 1)
           n == [o EXCEPT !.log_fd = p]
<1>1. 1 \in Nat /\ 1 <= Room(m) /\ DOMAIN files = 1..1 /\ 1..1 = {1} /\ files[1] = "log"
  BY RoomIsNat
<1> HIDE DEF files
<1>2. DOMAIN o = Fields /\ Alike(m, o) /\ o.foreign = m.foreign
  BY <1>1, OpenEffect DEF Early, Table, Known
<1> HIDE DEF o, p
<1>3. /\ n.t = o.t /\ n.foreign = m.foreign /\ n.spec = m.spec /\ n.conn_fd = -1
      /\ n.st_master_fd = m.st_master_fd /\ n.st_slave_fd = m.st_slave_fd
      /\ n.log_fd = p /\ n.g_highest_fd = m.g_highest_fd
  BY <1>2 DEF Fields, Alike
<1> HIDE DEF n
<1>4. /\ "log" \in Ours /\ Noted(n, "log") = p
      /\ \A file : file # "log" => Noted(n, file) = Noted(m, file)
  BY <1>3, OursAre DEF Noted
<1>5. \A file \in {"socket", "chstdout.r", "chstdin.w", "chstderr.r"} : Noted(m, file) \notin Fd
  BY DEF Noted, Early, NoRz, Fd
<1>6. /\ Known(n)
      /\ \A file \in {"socket", "chstdout.r", "chstdin.w", "chstderr.r"} : Holds(n, file)
      /\ Plain(n) => Plain(m) /\ LogKept(n) /\ Highest(n)
      /\ \A f \in Fd : n.t[f] = m.t[f] \/ \E k \in 1..1 : n.t[f] = files[k]
  <2>1. Opens(m, n, files, 1) /\ Table(m)
    BY <1>1, <1>3, <1>4, <1>5 DEF o, p, Early, Opens
  <2> QED BY <1>1, <2>1, OpenTable
<1>7. Table(n)
  BY <1>3, <1>6 DEF Table, Pty, Early
<1>8. \A f \in Fd : n.t[f] \notin {"ptm", "pts"}
  BY <1>1, <1>6 DEF Early
<1> QED BY <1>3, <1>6, <1>7, <1>8 DEF Early, Pty, n, o, p, files

LEMMA SocketOpened ==
  ASSUME NEW m, DOMAIN m = Fields, Early(m), m.conn_fd = -1, Room(m) > 0
  PROVE  Early([open(m, <<"socket">>) EXCEPT !.conn_fd = Place(m, 1)])
<1> DEFINE files == <<"socket">>
           o == open(m, files)
           p == Place(m, 1)
           n == [o EXCEPT !.conn_fd = p]
<1>1. 1 \in Nat /\ 1 <= Room(m) /\ DOMAIN files = 1..1 /\ 1..1 = {1} /\ files[1] = "socket"
  BY RoomIsNat
<1> HIDE DEF files
<1>2. DOMAIN o = Fields /\ Alike(m, o) /\ o.foreign = m.foreign
  BY <1>1, OpenEffect DEF Early, Table, Known
<1> HIDE DEF o, p
<1>3. /\ n.t = o.t /\ n.foreign = m.foreign /\ n.spec = m.spec /\ n.conn_fd = p
      /\ n.st_master_fd = m.st_master_fd /\ n.st_slave_fd = m.st_slave_fd
      /\ n.log_fd = m.log_fd /\ n.g_highest_fd = m.g_highest_fd
  BY <1>2 DEF Fields, Alike
<1> HIDE DEF n
<1>4. /\ "socket" \in Ours /\ Noted(n, "socket") = p
      /\ \A file : file # "socket" => Noted(n, file) = Noted(m, file)
  BY <1>3, OursAre DEF Noted
<1>5. \A file \in {"socket", "chstdout.r", "chstdin.w", "chstderr.r"} : Noted(m, file) \notin Fd
  BY DEF Noted, Early, NoRz, Fd
<1>6. \A f \in Fd : m.t[f] # "socket"
  <2>1. SUFFICES ASSUME NEW f \in Fd, m.t[f] = "socket" PROVE FALSE
    OBVIOUS
  <2>2. Noted(m, "socket") = f
    BY <2>1 DEF Early, Table, Known, Given, Closed
  <2> QED BY <1>5, <2>2
<1>7. /\ Known(n)
      /\ \A file \in {"socket", "chstdout.r", "chstdin.w", "chstderr.r"} : Holds(n, file)
      /\ Plain(n) => Plain(m) /\ LogKept(n) /\ Highest(n)
      /\ p \in Fd /\ n.t[p] = "socket"
      /\ \A f \in Fd : n.t[f] = m.t[f] \/ \E k \in 1..1 : n.t[f] = files[k]
  <2>1. Opens(m, n, files, 1) /\ Table(m)
    BY <1>1, <1>3, <1>4, <1>5, <1>6 DEF o, p, Early, Opens
  <2>2. \A k \in 1..1 : Place(m, k) \in Fd /\ n.t[Place(m, k)] = files[k]
    BY <1>1, <2>1, OpenTable
  <2>3. p \in Fd /\ n.t[p] = "socket"
    BY <1>1, <2>2 DEF p
  <2> QED BY <1>1, <2>1, <2>3, OpenTable
<1>8. ~Pty(n)
  BY <1>3, <1>7 DEF Pty, Fd
<1>9. Table(n)
  BY <1>3, <1>7 DEF Table, Early
<1>10. \A f \in Fd : n.t[f] \notin {"ptm", "pts"}
  BY <1>1, <1>7 DEF Early
<1> QED BY <1>3, <1>7, <1>8, <1>9, <1>10 DEF Early, n, o, p, files

\* The arguments, the socket, the checks.
LEMMA StartTables ==
  ASSUME Inv, Inv', Tables, process_args \/ io_socket_connect_fd \/ preflight \/ openpty_fails
  PROVE  Tables'
<1> USE DEF Elsewhere, children
<1>1. pc \in Before /\ UNCHANGED <<rzat, shellat>>
  <2>1. CASE process_args
    BY <2>1 DEF process_args, RzOption, ConnectOption, LogOption, FifoOption, QuietOption,
                Directory, LastOption, ArgsDone, Option, Before
  <2>2. CASE io_socket_connect_fd \/ preflight \/ openpty_fails
    BY <2>2 DEF io_socket_connect_fd, preflight, openpty_fails, Before
  <2> QED BY <2>1, <2>2
<1>2. /\ Early(me) /\ rzat = None /\ shellat = None /\ DOMAIN me = Fields /\ me.conn_fd \in Int
      /\ pc \in {"args", "connect"} => me.conn_fd = -1
  BY <1>1, EarlyHolds
<1>3. ASSUME pc' \in Before, me' = me, pc' \in {"args", "connect"} => pc \in {"args", "connect"}
      PROVE  Tables'
  BY <1>1, <1>2, <1>3, EarlyKept
<1>4. ASSUME pc' \in Final, me' = me, pc' = "exited" => code' # 0 \/ argv' # <<>>
      PROVE  Tables'
  BY <1>1, <1>4, FinalTables
<1>5. CASE RzOption \/ ConnectOption \/ FifoOption \/ QuietOption \/ Directory \/ LastOption \/ ArgsDone
  <2>1. /\ me' = me /\ pc = "args"
        /\ pc' \in {"args", "connect"} \/ (pc' = "exited" /\ (code' # 0 \/ argv' # <<>>))
    BY <1>5 DEF RzOption, ConnectOption, FifoOption, QuietOption, Directory, LastOption, ArgsDone,
                Option, Proceed, Refuse, Exit, Goto, setup
  <2> QED BY <1>3, <1>4, <2>1 DEF Before, Final
<1>6. CASE LogOption
  <2> DEFINE m == log_close(me)
  <2>1. pc = "args" /\ me.conn_fd = -1
    BY <1>2, <1>6 DEF LogOption, Option
  <2>2. /\ Early(m) /\ DOMAIN m = Fields /\ m.log_fd = -1 /\ m.conn_fd = -1
        /\ (\A f \in Fd : m.t[f] # "log") /\ (Plain(m) => Plain(me) /\ m.foreign = me.foreign)
    BY <1>2, <2>1, LogClosed
  <2>3. \/ Room(m) > 0 /\ me' = [open(m, <<"log">>) EXCEPT !.log_fd = Place(m, 1)] /\ pc' = pc
        \/ me' = m /\ pc' = "exited" /\ code' = 99
    BY <1>6 DEF LogOption, Proceed, Exit
  <2>4. CASE me' = m /\ pc' = "exited" /\ code' = 99
    <3> HIDE DEF m
    <3> QED BY <1>1, <2>1, <2>2, <2>4, FinalTables DEF Final
  <2>5. CASE Room(m) > 0 /\ me' = [open(m, <<"log">>) EXCEPT !.log_fd = Place(m, 1)] /\ pc' = pc
    <3> HIDE DEF m
    <3>1. Early(me') /\ me'.conn_fd = -1
      BY <2>2, <2>5, LogOpened
    <3> QED BY <1>1, <1>2, <2>5, <3>1, EarlyKept
  <2> QED BY <2>3, <2>4, <2>5
<1>7. CASE io_socket_connect_fd
  <2>1. \/ me' = me /\ pc' = "preflight"
        \/ me' = me /\ pc' = "exited" /\ code' = 2
        \/ /\ me' = [open(me, <<"socket">>) EXCEPT !.conn_fd = Place(me, 1)]
           /\ Room(me) > 0 /\ pc' = "preflight"
    BY <1>7 DEF io_socket_connect_fd, Goto, Exit
  <2>2. pc = "connect" /\ me.conn_fd = -1
    BY <1>2, <1>7 DEF io_socket_connect_fd
  <2>3. CASE /\ me' = [open(me, <<"socket">>) EXCEPT !.conn_fd = Place(me, 1)]
             /\ Room(me) > 0 /\ pc' = "preflight"
    <3>1. Early(me')
      BY <1>2, <2>2, <2>3, SocketOpened
    <3> QED BY <1>1, <1>2, <2>3, <3>1, EarlyKept DEF Before
  <2> QED BY <1>3, <1>4, <2>1, <2>3 DEF Before, Final
<1>8. CASE preflight
  <2>1. me' = me /\ (pc' = "setup" \/ (pc' = "exited" /\ code' # 0))
    BY <1>8 DEF preflight, Goto, Exit
  <2> QED BY <1>3, <1>4, <2>1 DEF Before, Final
<1>9. CASE openpty_fails
  <2>1. me' = me /\ pc' = "killed"
    BY <1>9 DEF openpty_fails, Goto
  <2> QED BY <1>4, <2>1 DEF Final
<1> QED BY <1>5, <1>6, <1>7, <1>8, <1>9 DEF process_args

-----------------------------------------------------------------------------
\* The standard descriptors of a child are made of descriptors above them.
LEMMA Dup2Thrice ==
  ASSUME NEW m, DOMAIN m = Fields, DOMAIN m.t = Fd, NEW a, NEW b, NEW c
  PROVE  LET n == dup2(dup2(dup2(m, a, 0), b, 1), c, 2)
         IN  /\ DOMAIN n = Fields /\ SameAtoms(m, n) /\ Alike(m, n) /\ n.foreign = m.foreign
             /\ DOMAIN n.t = Fd
             /\ \A f \in Fd \ Standard : n.t[f] = m.t[f]
             /\ (\A f \in {a, b, c} : f \in Fd \ Standard /\ m.t[f] # Closed)
                  => n.t[0] = m.t[a] /\ n.t[1] = m.t[b] /\ n.t[2] = m.t[c]
<1> DEFINE m1 == dup2(m, a, 0)
           m2 == dup2(m1, b, 1)
           n == dup2(m2, c, 2)
<1>0. 0 \in Fd /\ 1 \in Fd /\ 2 \in Fd /\ Standard = {0, 1, 2}
  BY StandardIsFd DEF Standard
<1>1. /\ DOMAIN m1 = Fields /\ SameAtoms(m, m1) /\ Alike(m, m1) /\ m1.foreign = m.foreign
      /\ DOMAIN m1.t = Fd /\ (\A h \in Fd : h # 0 => m1.t[h] = m.t[h])
      /\ a \in Fd /\ m.t[a] # Closed => m1.t[0] = m.t[a]
  BY <1>0, Dup2Effect
<1> HIDE DEF m1
<1>2. /\ DOMAIN m2 = Fields /\ SameAtoms(m1, m2) /\ Alike(m1, m2) /\ m2.foreign = m1.foreign
      /\ DOMAIN m2.t = Fd /\ (\A h \in Fd : h # 1 => m2.t[h] = m1.t[h])
      /\ b \in Fd /\ m1.t[b] # Closed => m2.t[1] = m1.t[b]
  BY <1>0, <1>1, Dup2Effect
<1> HIDE DEF m2
<1>3. /\ DOMAIN n = Fields /\ SameAtoms(m2, n) /\ Alike(m2, n) /\ n.foreign = m2.foreign
      /\ DOMAIN n.t = Fd /\ (\A h \in Fd : h # 2 => n.t[h] = m2.t[h])
      /\ c \in Fd /\ m2.t[c] # Closed => n.t[2] = m2.t[c]
  BY <1>0, <1>2, Dup2Effect
<1> HIDE DEF n
<1>4. SameAtoms(m, n) /\ Alike(m, n) /\ n.foreign = m.foreign
  BY <1>1, <1>2, <1>3 DEF SameAtoms, Alike
<1>5. \A f \in Fd \ Standard : m1.t[f] = m.t[f] /\ m2.t[f] = m.t[f] /\ n.t[f] = m.t[f]
  BY <1>0, <1>1, <1>2, <1>3
<1>6. (\A f \in {a, b, c} : f \in Fd \ Standard /\ m.t[f] # Closed)
        => n.t[0] = m.t[a] /\ n.t[1] = m.t[b] /\ n.t[2] = m.t[c]
  <2>1. SUFFICES ASSUME \A f \in {a, b, c} : f \in Fd \ Standard /\ m.t[f] # Closed
                 PROVE  n.t[0] = m.t[a] /\ n.t[1] = m.t[b] /\ n.t[2] = m.t[c]
    OBVIOUS
  <2>2. m1.t[0] = m.t[a] /\ m2.t[1] = m.t[b] /\ n.t[2] = m.t[c]
    BY <1>1, <1>2, <1>3, <1>5, <2>1
  <2>3. n.t[0] = m2.t[0] /\ m2.t[0] = m1.t[0] /\ n.t[1] = m2.t[1]
    BY <1>0, <1>2, <1>3
  <2> QED BY <2>2, <2>3
<1> QED BY <1>3, <1>4, <1>5, <1>6 DEF n, m1, m2

\* fdcheck() finds what find_highest_fd() found, if only what was given is open.
LEMMA HighestFound ==
  ASSUME NEW m, Highest(m), NEW n, n.g_highest_fd = m.g_highest_fd, n.t[2] # Closed,
         \A f \in Fd \ Standard : n.t[f] # Closed <=> m.t[f] = "inherited"
  PROVE  fdcheck(n)
<1> DEFINE g == m.g_highest_fd
           S == {0} \union Opened(n)
<1>1. g \in Fd /\ g >= 2 /\ (g > 2 => m.t[g] = "inherited")
      /\ \A f \in Fd \ Standard : m.t[f] = "inherited" => f <= g
  BY DEF Highest
<1>2. MaxFd \in Int /\ Standard = {0, 1, 2} /\ Standard \subseteq Fd /\ Fd \subseteq Int
      /\ \A f \in Fd : f <= MaxFd /\ f >= 0
  BY MaxFdAssumption, StandardIsFd DEF Standard, Fd
<1>3. \A f \in Fd : f \in Opened(n) <=> n.t[f] # Closed
  BY DEF Opened, Free
<1>4. Opened(n) \subseteq Fd
  BY DEF Opened
<1> HIDE DEF g
<1>5. g \in S
  <2>1. CASE g > 2
    <3>1. g \notin Standard
      BY <1>2, <2>1
    <3> QED BY <1>1, <1>3, <2>1, <3>1 DEF g
  <2>2. CASE g = 2
    BY <1>1, <1>3, <2>2 DEF g
  <2> QED BY <1>1, <1>2, <2>1, <2>2
<1>6. \A x \in S : x <= g
  <2>1. ASSUME NEW x \in Opened(n) PROVE x <= g
    <3>1. CASE x \in Standard
      BY <1>1, <1>2, <3>1
    <3>2. CASE x \notin Standard
      BY <1>1, <1>3, <1>4, <2>1, <3>2
    <3> QED BY <3>1, <3>2
  <2> QED BY <1>1, <1>2, <2>1
<1>7. S \in SUBSET Int /\ S # {} /\ g \in Int
  BY <1>1, <1>2, <1>4
<1> HIDE DEF S
<1>8. Max(S) \in S /\ \A y \in S : y <= Max(S)
  BY <1>6, <1>7, Greatest
<1>9. Max(S) = g
  <2> DEFINE x == Max(S)
  <2>1. x \in Int /\ x <= g /\ g <= x
    BY <1>5, <1>6, <1>7, <1>8
  <2> HIDE DEF x
  <2>2. x = g
    BY <1>7, <2>1
  <2> QED BY <2>2 DEF x
<1> QED BY <1>9 DEF fdcheck, find_highest_fd, g, S

(***************************************************************************)
(* The shell before its exec.                                              *)
(***************************************************************************)
LEMMA ShellChild ==
  ASSUME NEW m, DOMAIN m = Fields, Known(m), m.spec = NoRz, m.conn_fd \notin Fd, PtyKept(m)
  PROVE  LET n == do_child(m)
         IN  /\ \A f \in Fd \ Standard : n.t[f] \in {Closed, "inherited"}
             /\ Plain(m) /\ LogKept(m) /\ Highest(m) =>
                  /\ fdcheck(n) /\ n.foreign = m.foreign
                  /\ n.t[0] = "pts" /\ n.t[1] = "pts" /\ n.t[2] = "pts"
<1> DEFINE s == m.st_slave_fd
           o1 == {<<m.st_master_fd, "ptm">>}
           m1 == close(m, o1)
           m2 == dup2(dup2(dup2(m1, s, 0), s, 1), s, 2)
           o3 == {<<s, "pts">>}
           m3 == close(m2, o3)
           n == log_close(m3)
<1>0. /\ \A p \in o1 : p[1] = m.st_master_fd /\ p[2] = "ptm"
      /\ \A f : (\E p \in o1 : p[1] = f) <=> f = m.st_master_fd
      /\ \A p \in o3 : p[1] = s /\ p[2] = "pts"
      /\ \A f : (\E p \in o3 : p[1] = f) <=> f = s
  OBVIOUS
<1> HIDE DEF o1, o3
<1>1. /\ DOMAIN m1 = Fields /\ Alike(m, m1) /\ DOMAIN m1.t = Fd /\ m1.foreign = m.foreign
      /\ \A f \in Fd : m1.t[f] = IF f = m.st_master_fd THEN Closed ELSE m.t[f]
  BY <1>0, CloseEffect DEF PtyKept
<1> HIDE DEF m1
<1>2. /\ DOMAIN m2 = Fields /\ Alike(m1, m2) /\ DOMAIN m2.t = Fd /\ m2.foreign = m1.foreign
      /\ \A f \in Fd \ Standard : m2.t[f] = m1.t[f]
      /\ s \in Fd \ Standard /\ m1.t[s] # Closed
           => m2.t[0] = m1.t[s] /\ m2.t[1] = m1.t[s] /\ m2.t[2] = m1.t[s]
  BY <1>1, Dup2Thrice
<1> HIDE DEF m2
<1>3. /\ DOMAIN m3 = Fields /\ Alike(m2, m3) /\ DOMAIN m3.t = Fd
      /\ \A f \in Fd : m3.t[f] = IF f = s THEN Closed ELSE m2.t[f]
      /\ (s \in Fd => m2.t[s] \in {"pts", Closed}) => m3.foreign = m2.foreign
  BY <1>0, <1>2, CloseEffect
<1> HIDE DEF m3
<1>4. /\ \A f \in Fd : n.t[f] = IF f = m3.log_fd THEN Closed ELSE m3.t[f]
      /\ n.g_highest_fd = m3.g_highest_fd
      /\ (m3.log_fd \in Fd => m3.t[m3.log_fd] \in {"log", Closed}) => n.foreign = m3.foreign
  BY <1>3, LogCloseEffect
<1> HIDE DEF n
<1>5. do_child(m) = n
  BY <1>1, <1>2, <1>3 DEF do_child, Alike, n, m3, m2, m1, o1, o3
<1>6. m3.log_fd = m.log_fd /\ n.g_highest_fd = m.g_highest_fd
  BY <1>1, <1>2, <1>3, <1>4 DEF Alike
<1>7. \A f \in Fd \ Standard :
        n.t[f] = IF f \in {m.st_master_fd, s, m.log_fd} THEN Closed ELSE m.t[f]
  BY <1>1, <1>2, <1>3, <1>4, <1>6
<1>8. ASSUME NEW f \in Fd \ Standard PROVE n.t[f] \in {Closed, "inherited"}
  <2>1. Given(f) = "inherited" /\ f # -1
    BY DEF Given, Fd, Standard
  <2>2. SUFFICES ASSUME m.t[f] \in Ours, Noted(m, m.t[f]) = f PROVE f \in {m.st_master_fd, s, m.log_fd}
    BY <1>7, <2>1 DEF Known
  <2> QED BY <2>1, <2>2 DEF Noted, NoRz
<1>9. ASSUME Plain(m), LogKept(m), Highest(m)
      PROVE  /\ fdcheck(n) /\ n.foreign = m.foreign
             /\ n.t[0] = "pts" /\ n.t[1] = "pts" /\ n.t[2] = "pts"
  <2>0. {0, 1, 2} \subseteq Fd /\ Standard = {0, 1, 2}
    BY StandardIsFd DEF Standard
  <2>1. \A f \in Standard : m.t[f] \in {"in", "out", "err"}
    BY <1>9 DEF Plain, Given, Standard
  <2>2. /\ s \in Fd \ Standard /\ m.st_master_fd \in Fd \ Standard /\ s # m.st_master_fd
        /\ m.log_fd \notin Standard /\ m.t[s] = "pts" /\ m.t[m.st_master_fd] = "ptm"
    BY <1>9, <2>0, <2>1 DEF PtyKept, LogKept
  <2>3. m1.t[s] = "pts" /\ "pts" # Closed
    BY <1>1, <2>2 DEF Closed
  <2>4. m2.t[s] = "pts" /\ m2.t[0] = "pts" /\ m2.t[1] = "pts" /\ m2.t[2] = "pts"
    BY <1>2, <2>2, <2>3
  <2>5. n.t[0] = "pts" /\ n.t[1] = "pts" /\ n.t[2] = "pts"
    BY <1>3, <1>4, <1>6, <2>0, <2>2, <2>4
  <2>6. m3.log_fd \in Fd => m3.t[m3.log_fd] \in {"log", Closed}
    <3>1. SUFFICES ASSUME m.log_fd \in Fd PROVE m3.t[m.log_fd] \in {"log", Closed}
      BY <1>6
    <3>2. m.t[m.log_fd] = "log" /\ m.log_fd \in Fd \ Standard
      BY <1>9, <2>2, <3>1 DEF LogKept
    <3> QED BY <1>1, <1>2, <1>3, <3>2
  <2>7. n.foreign = m.foreign
    BY <1>1, <1>2, <1>3, <1>4, <2>4, <2>6
  <2>8. \A f \in Fd \ Standard : n.t[f] # Closed <=> m.t[f] = "inherited"
    BY <1>7, <1>8, <1>9, <2>2 DEF LogKept, Closed
  <2>9. fdcheck(n)
    BY <1>6, <1>9, <2>5, <2>8, HighestFound DEF Closed
  <2> QED BY <2>5, <2>7, <2>9
<1> QED BY <1>5, <1>8, <1>9

\* The pty.
LEMMA PtyOpened ==
  ASSUME NEW m, DOMAIN m = Fields, Early(m), Pty(m), m.conn_fd \in Int, Room(m) >= 2
  PROVE  LET n == Openpty(m)
         IN  /\ DOMAIN n = Fields /\ n.spec = NoRz /\ n.conn_fd = m.conn_fd
             /\ Table(n) /\ PtyKept(n) /\ n.foreign = m.foreign /\ Plain(n) = Plain(m)
             /\ \A f \in Standard : n.t[f] = Given(f) => m.t[f] = Given(f)
<1> DEFINE files == <<"ptm", "pts">>
           o == open(m, files)
           p == Place(m, 1)
           q == Place(m, 2)
           n == Openpty(m)
<1>1. /\ 2 \in Nat /\ 2 <= Room(m) /\ DOMAIN files = 1..2 /\ 1..2 = {1, 2}
      /\ files[1] = "ptm" /\ files[2] = "pts"
  BY RoomIsNat
<1>2. n = [o EXCEPT !.st_master_fd = p, !.st_slave_fd = q]
  BY DEF Openpty
<1> HIDE DEF files
<1>3. /\ DOMAIN o = Fields /\ Alike(m, o) /\ o.foreign = m.foreign
      /\ \A f \in Fd : (\A k \in 1..2 : Place(m, k) # f) => o.t[f] = m.t[f]
  <2>1. DOMAIN m.t = Fd
    BY DEF Early, Table, Known
  <2>2. 2 \in Nat /\ 2 <= Room(m) /\ DOMAIN files = 1..2
    BY <1>1
  <2> QED BY ZenonT(60), <2>1, <2>2, OpenEffect
<1> HIDE DEF o, p, q, n
<1>4. /\ DOMAIN n = Fields /\ n.t = o.t /\ n.foreign = m.foreign /\ n.spec = NoRz
      /\ n.conn_fd = m.conn_fd /\ n.st_master_fd = p /\ n.st_slave_fd = q
      /\ n.log_fd = m.log_fd /\ n.g_highest_fd = m.g_highest_fd
  BY <1>2, <1>3 DEF Fields, Alike, Early
<1>5. /\ {"ptm", "pts"} \subseteq Ours /\ Noted(n, "ptm") = p /\ Noted(n, "pts") = q
      /\ \A file : file \notin {"ptm", "pts"} => Noted(n, file) = Noted(m, file)
  BY <1>4, OursAre DEF Noted, Early
<1>6. \A file \in {"socket", "chstdout.r", "chstdin.w", "chstderr.r"} : Noted(m, file) \notin Fd
  BY DEF Noted, Early, NoRz, Fd, Pty
<1>7. Opens(m, n, files, 2) /\ Table(m)
  <2>1. n.t = open(m, files).t
    BY <1>4 DEF o
  <2>2. \A k \in 1..2 : files[k] \in Ours /\ Noted(n, files[k]) = Place(m, k)
    BY <1>1, <1>5 DEF p, q
  <2>3. \A k \in 1..2, f \in Fd : m.t[f] # files[k]
    BY <1>1 DEF Early
  <2>4. \A file : (\A k \in 1..2 : file # files[k]) => Noted(n, file) = Noted(m, file)
    BY <1>1, <1>5
  <2> QED BY <1>1, <1>4, <1>6, <2>1, <2>2, <2>3, <2>4 DEF Early, Opens
<1>8. /\ Known(n)
      /\ \A file \in {"socket", "chstdout.r", "chstdin.w", "chstderr.r"} : Holds(n, file)
      /\ Plain(n) => Plain(m) /\ LogKept(n) /\ Highest(n)
  BY <1>1, <1>7, OpenTable
<1>9. p \in Fd /\ q \in Fd /\ n.t[p] = "ptm" /\ n.t[q] = "pts"
  <2>1. \A k \in 1..2 : Place(m, k) \in Fd /\ n.t[Place(m, k)] = files[k]
    BY <1>1, <1>7, OpenTable
  <2> QED BY <1>1, <2>1 DEF p, q
<1>10. Table(n)
  BY <1>4, <1>8 DEF Table, Pty
<1>11. PtyKept(n)
  BY <1>4, <1>9 DEF PtyKept
<1>12. \A f \in Fd : m.t[f] # Closed => n.t[f] = m.t[f]
  <2>1. \A k \in 1..2 : m.t[Place(m, k)] = Closed
    BY <1>1, PlaceFacts
  <2> QED BY <1>3, <1>4, <2>1
<1>13. Plain(m) => Plain(n)
  BY <1>12, StandardIsFd DEF Plain, Given, Closed
<1>14. \A f \in Standard : n.t[f] = Given(f) => m.t[f] = Given(f)
  <2>1. \A f \in Fd : n.t[f] \in {m.t[f], Closed} \union Ours
    <3>1. \A f \in Fd : n.t[f] = m.t[f] \/ \E k \in 1..2 : n.t[f] = files[k]
      BY <1>1, <1>7, OpenTable
    <3> QED BY <1>1, <1>5, <3>1
  <2> QED BY <2>1, PlainLess
<1> QED BY <1>4, <1>8, <1>10, <1>11, <1>13, <1>14 DEF n, Plain

LEMMA ForkTables == ASSUME Inv, Inv', Tables, bgio_start PROVE Tables'
<1>1. /\ pc = "setup" /\ Pty(me) /\ Room(me) >= 2 /\ me' = Openpty(me)
      /\ rzat' = rzat
      /\ \/ pc' = "killed" /\ shellat' = shellat
         \/ pc' = "install" /\ shellat' = Execed(do_child(me'), me, cwd)
  BY DEF bgio_start, Goto
<1>2. /\ Early(me) /\ rzat = None /\ shellat = None /\ DOMAIN me = Fields /\ me.conn_fd \in Int
  BY <1>1, EarlyHolds DEF Before
<1>3. /\ DOMAIN me' = Fields /\ me'.spec = NoRz /\ me'.conn_fd = me.conn_fd
      /\ Table(me') /\ PtyKept(me') /\ me'.foreign = me.foreign /\ Plain(me') = Plain(me)
  BY <1>1, <1>2, PtyOpened
<1>4. CASE pc' = "killed" /\ shellat' = shellat
  BY <1>1, <1>3, <1>4, FinalTables DEF Final
<1>5. CASE pc' = "install" /\ shellat' = Execed(do_child(me'), me, cwd)
  <2> DEFINE child == do_child(me')
  <2>1. me'.conn_fd \notin Fd /\ Pty(me')
    BY <1>1, <1>2, <1>3 DEF Pty, Fd
  <2>2. /\ \A f \in Fd \ Standard : child.t[f] \in {Closed, "inherited"}
        /\ Plain(me) => /\ fdcheck(child) /\ child.foreign = me.foreign
                        /\ child.t[0] = "pts" /\ child.t[1] = "pts" /\ child.t[2] = "pts"
    BY <1>3, <2>1, ShellChild DEF Table
  <2> HIDE DEF child
  <2>3. /\ shellat'.t = child.t /\ shellat'.foreign = child.foreign
        /\ shellat'.checked = fdcheck(child) /\ shellat'.plain = Plain(me)
    BY <1>5 DEF Execed, child
  <2>4. Plain(me) => me.foreign = {}
    BY <1>1, <1>2 DEF Early
  <2>5. Images'
    <3>1. rzat' = None
      BY <1>1, <1>2
    <3> QED BY <2>2, <2>3, <2>4, <3>1 DEF Images, Wired
  <2>6. Placed(me')
    BY <1>5, NothingPlaced DEF Inv, Beginning
  <2>7. Running' /\ pc' \notin Before
    BY <1>5 DEF Running, Final, Before
  <2>8. pc' \notin {"args", "connect", "exited"}
    BY <1>5
  <2> QED BY <1>3, <2>1, <2>4, <2>5, <2>6, <2>7, <2>8 DEF Tables, PtyKept
<1> QED BY <1>1, <1>4, <1>5

\* io_add leaves the files alone.
LEMMA AddTable ==
  ASSUME NEW m, Registry(m), Table(m), Placed(m), NEW a \in Atom, m.fd[a] < 0, NEW f \in Fd,
         m.t[f] = FileOf(m, a) \/ (a \in {"stdin", "stdout"} /\ ~Plain(m))
  PROVE  LET n == io_add(m, a, f)
         IN  /\ Registry(n) /\ Table(n) /\ Placed(n) /\ Alike(m, n) /\ n.t = m.t
             /\ n.foreign = m.foreign
             /\ \A b \in Atom \ {a} : n.fd[b] = m.fd[b]
<1> DEFINE n == io_add(m, a, f)
<1>0. f \in Int /\ DOMAIN m = Fields /\ m.fd \in [Atom -> Int]
  BY DEF Fd, Registry, IsProcess
<1>1. Registry(n) /\ n.fd \in {m.fd, [m.fd EXCEPT ![a] = f]}
  BY <1>0, AddKeeps
<1>2. DOMAIN n = Fields /\ Alike(m, n) /\ n.t = m.t /\ n.foreign = m.foreign
  BY <1>0, AddEffect
<1> HIDE DEF n
<1>3. Table(n) /\ Plain(n) = Plain(m)
  BY <1>2, SameTable
<1>4. \A b \in Atom : FileOf(n, b) = FileOf(m, b)
  BY <1>2 DEF FileOf, Alike
<1>5. \A b \in Atom : n.fd[b] = m.fd[b] \/ (b = a /\ n.fd[b] = f)
  BY <1>0, <1>1
<1>6. Placed(n)
  BY <1>2, <1>3, <1>4, <1>5 DEF Placed
<1> QED BY <1>1, <1>2, <1>3, <1>5, <1>6 DEF n

\* The console's and the echo task's atoms.
LEMMA SetupTables ==
  ASSUME Inv, Inv', Tables, master_setup
  PROVE  Tables' /\ Alike(me, me') /\ me'.t = me.t
<1> DEFINE fd == IF Pty(me) THEN me.st_master_fd ELSE me.conn_fd
           m1 == io_add(me, "master", fd)
           m2 == io_add(m1, "stdin", 0)
           m3 == io_add(m2, "stdout", 1)
<1>0. Install /\ pc \in Beginning /\ Running /\ UNCHANGED <<rzat, shellat>>
  BY DEF master_setup, Install, Beginning, Running, Final, children
<1>1. /\ Registry(me) /\ (\A a \in Atom : me.fd[a] = -1) /\ Table(me) /\ Placed(me)
      /\ me.spec = NoRz /\ {"master", "stdin", "stdout"} \subseteq Atom /\ me.conn_fd \in Int
  BY <1>0 DEF Inv, Tables, Atom, Registry, IsProcess
<1>2. /\ me' \in {m1, m3}
      /\ (pc' \in Final /\ (pc' = "exited" => code' # 0)) \/ (pc' = "idle" /\ head' = "echo")
  BY DEF master_setup, Bails, Exit, Goto, Final
<1>3. fd \in Fd /\ me.t[fd] = FileOf(me, "master")
  <2>1. CASE Pty(me)
    <3>1. pc = "install"
      BY <1>0, <2>1 DEF Install
    <3>2. me.st_master_fd \in Fd /\ me.t[me.st_master_fd] = "ptm"
      BY <1>0, <2>1, <3>1 DEF Tables, Before
    <3> QED BY <1>1, <2>1, <3>2 DEF FileOf, Pty
  <2>2. CASE ~Pty(me) /\ pc = "setup"
    BY <1>1, <2>2 DEF Tables, Before, FileOf, Pty
  <2> QED BY <1>0, <2>1, <2>2 DEF Install, Tables
<1> HIDE DEF fd
<1>4. /\ Registry(m1) /\ Table(m1) /\ Placed(m1) /\ Alike(me, m1) /\ m1.t = me.t
      /\ m1.foreign = me.foreign /\ \A b \in Atom \ {"master"} : m1.fd[b] = me.fd[b]
  BY <1>1, <1>3, AddTable
<1> HIDE DEF m1
<1>5. 0 \in Fd /\ 1 \in Fd
  BY StandardIsFd DEF Standard
<1>6. \A m : /\ m.t[0] = FileOf(m, "stdin") \/ ~Plain(m)
             /\ m.t[1] = FileOf(m, "stdout") \/ ~Plain(m)
  BY DEF Plain, Standard, Given, FileOf
<1>7. /\ Registry(m2) /\ Table(m2) /\ Placed(m2) /\ Alike(m1, m2) /\ m2.t = m1.t
      /\ m2.foreign = m1.foreign /\ \A b \in Atom \ {"stdin"} : m2.fd[b] = m1.fd[b]
  BY <1>1, <1>4, <1>5, <1>6, AddTable
<1> HIDE DEF m2
<1>8. /\ Registry(m3) /\ Table(m3) /\ Placed(m3) /\ Alike(m2, m3) /\ m3.t = m2.t
      /\ m3.foreign = m2.foreign
  BY <1>1, <1>4, <1>5, <1>6, <1>7, AddTable
<1> HIDE DEF m3
<1>9. Alike(me, me') /\ me'.t = me.t /\ me'.foreign = me.foreign /\ Table(me') /\ Placed(me')
  BY <1>2, <1>4, <1>7, <1>8 DEF Alike
<1>10. Plain(me') = Plain(me) /\ Pty(me') = Pty(me)
  BY <1>9 DEF Plain, Pty, Alike
<1>11. CASE pc' \in Final /\ (pc' = "exited" => code' # 0)
  BY <1>0, <1>9, <1>10, <1>11, FinalTables DEF Alike
<1>12. CASE pc' = "idle" /\ head' = "echo"
  <2>1. Running' /\ pc' \notin Before \union Beginning
    BY <1>12 DEF Running, Final, Before, Beginning
  <2>2. Images'
    BY <1>0, <1>10 DEF Tables, Images
  <2>3. Pty(me') /\ Plain(me') => PtyKept(me')
    <3>1. SUFFICES ASSUME Pty(me), Plain(me) PROVE PtyKept(me')
      BY <1>10
    <3>2. pc = "install"
      BY <1>0, <3>1 DEF Install
    <3> QED BY <1>0, <1>9, <3>1, <3>2 DEF Tables, Before, PtyKept, Alike
  <2>4. me'.spec = NoRz
    BY <1>1, <1>9 DEF Alike
  <2>5. pc' \notin {"args", "connect", "exited", "install"}
    BY <1>12
  <2> QED BY <1>9, <1>10, <2>1, <2>2, <2>3, <2>4, <2>5 DEF Tables
<1> QED BY <1>2, <1>9, <1>11, <1>12

-----------------------------------------------------------------------------
\* A step of the loop that keeps the table's order.
LEMMA KeptTables ==
  ASSUME Tables, Running, pc \notin Before, Keeps(me, me'), UNCHANGED <<rzat, shellat>>,
         pc' \in Looping, head' # "rz" => me'.spec = NoRz
  PROVE  Tables'
<1>1. Running' /\ pc' \notin Before \union Beginning \union {"exited"}
  BY DEF Running, Final, Looping, Before, Beginning
<1>2. Pty(me') = Pty(me) /\ (Plain(me') => Plain(me))
  BY PlainLess DEF Keeps, Pty
<1>3. Images'
  BY <1>2 DEF Tables, Images
<1>4. Pty(me') /\ Plain(me') => PtyKept(me') /\ me'.foreign = {}
  BY <1>2 DEF Tables, Keeps
<1>5. pc' \notin {"args", "connect", "install"}
  BY DEF Looping
<1> QED BY <1>1, <1>3, <1>4, <1>5 DEF Tables, Keeps

\* What holds whenever the loop is where it takes a step.
LEMMA LoopHolds ==
  ASSUME Inv, Tables, pc \in Looping
  PROVE  /\ Running /\ pc \notin Before /\ Registry(me) /\ Table(me) /\ Placed(me)
         /\ DOMAIN me = Fields /\ me.fd \in [Atom -> Int] /\ me.conn_fd \in Int
         /\ head # "rz" => me.spec = NoRz
<1>1. Running /\ pc \notin Before
  BY DEF Looping, Running, Final, Before
<1> QED BY <1>1 DEF Inv, Tables, Registry, IsProcess

\* The events that end nothing but what they are for.
LEMMA EventTables ==
  ASSUME Inv, Tables, pipe_auto_read \/ pipe_auto_write \/ IgnoredEvent \/ cherr_proc
  PROVE  Tables' /\ Keeps(me, me')
<1>1. /\ pc = "dispatch" /\ pc' = pc /\ head' = head /\ UNCHANGED <<rzat, shellat>>
  BY DEF pipe_auto_read, pipe_auto_write, IgnoredEvent, cherr_proc, Take, Settled, children
<1>2. /\ Running /\ pc \notin Before /\ Registry(me) /\ Table(me) /\ Placed(me)
      /\ me.fd \in [Atom -> Int] /\ (head # "rz" => me.spec = NoRz)
  BY <1>1, LoopHolds DEF Looping
<1>3. SUFFICES Keeps(me, me')
  <2>1. SUFFICES ASSUME Keeps(me, me') PROVE Tables'
    OBVIOUS
  <2>2. head' # "rz" => me'.spec = NoRz
    BY <1>1, <1>2, <2>1 DEF Keeps
  <2> QED BY <1>1, <1>2, <2>1, <2>2, KeptTables DEF Looping
<1>4. \A a \in Atom : SinkOf(a) \in Atom /\ Output \in Atom
  BY DEF SinkOf, Output, Atom
<1>5. CASE pipe_auto_read
  <2>1. AtomOf \in Atom
    BY <1>2, <1>5 DEF pipe_auto_read, PipeEvent, AtomOf, Connection, Registry, IsProcess
  <2>2. PICK m \in MayEnd(me, AtomOf) : me' \in MayEnd(m, SinkOf(AtomOf))
    BY <1>5 DEF pipe_auto_read
  <2>3. Keeps(me, m)
    BY <1>2, <2>1, <2>2, MayEndTable
  <2>4. Keeps(m, me')
    BY <1>4, <2>1, <2>2, <2>3, MayEndTable DEF Keeps
  <2> QED BY <2>3, <2>4, KeepsTrans
<1>6. CASE pipe_auto_write
  <2> DEFINE b == IF AtomOf = "master" THEN "master" ELSE Output
  <2>1. me' \in MayEnd(me, b) /\ b \in Atom
    BY <1>4, <1>6 DEF pipe_auto_write, Atom, Output
  <2> HIDE DEF b
  <2> QED BY <1>2, <2>1, MayEndTable
<1>7. CASE IgnoredEvent
  BY <1>2, <1>7, KeepsSelf DEF IgnoredEvent
<1>8. CASE cherr_proc
  <2>1. Keeps(me, io_del(me, "rzerr"))
    BY <1>2, DelTable DEF Atom
  <2> QED BY <1>2, <1>8, <2>1, KeepsSelf DEF cherr_proc
<1> QED BY <1>5, <1>6, <1>7, <1>8

\* rz is reaped.
LEMMA ReapTables ==
  ASSUME Inv, Tables, task_default_sigchild
  PROVE  Tables' /\ (pc' = "crashed" \/ Keeps(me, me'))
<1>1. /\ pc = "sigchild" /\ UNCHANGED <<rzat, shellat>>
      /\ (pc' = "crashed" /\ me' = me) \/ (head' = "echo" /\ pc' = "clear")
  BY DEF task_default_sigchild, Goto
<1>2. Running /\ pc \notin Before /\ Registry(me) /\ Table(me) /\ Placed(me)
  BY <1>1, LoopHolds DEF Looping
<1>3. CASE pc' = "crashed" /\ me' = me
  BY <1>1, <1>3, FinalTables DEF Final
<1>4. CASE head' = "echo" /\ pc' = "clear"
  <2>1. PICK m : /\ m \in MayEnd(me, "master") \union {me}
                 /\ \/ me' = RzRemoved(m)
                    \/ Unread /\ me' = RzRemoved(Ended(m, "rzread"))
    BY <1>4 DEF task_default_sigchild, Goto
  <2>2. Keeps(me, m)
    BY <1>2, <2>1, MayEndTable, KeepsSelf DEF Atom
  <2>3. CASE me' = RzRemoved(m)
    <3>1. Keeps(m, me') /\ me'.spec = NoRz
      BY <2>2, <2>3, RzRemovedTable DEF Keeps
    <3> QED BY <1>1, <1>2, <1>4, <2>2, <3>1, KeepsTrans, KeptTables DEF Looping
  <2>4. CASE Unread /\ me' = RzRemoved(Ended(m, "rzread"))
    <3>1. m.fd["rzread"] >= 0
      <4>1. m.fd \in {me.fd, [me.fd EXCEPT !["master"] = -1]} /\ me.fd \in [Atom -> Int]
        BY <1>2, <2>1, MayEndKeeps DEF Atom, Registry, IsProcess
      <4> QED BY <2>4, <4>1 DEF Unread, Atom
    <3>2. Keeps(m, Ended(m, "rzread"))
      BY <2>2, <3>1, EndedTable DEF Keeps, Atom
    <3> DEFINE e == Ended(m, "rzread")
    <3> HIDE DEF e
    <3>3. Keeps(e, me') /\ me'.spec = NoRz
      BY <2>4, <3>2, RzRemovedTable DEF Keeps, e
    <3>4. Keeps(me, me')
      BY <2>2, <3>2, <3>3, KeepsTrans DEF e
    <3> QED BY <1>1, <1>2, <1>4, <3>3, <3>4, KeptTables DEF Looping
  <2> QED BY <2>1, <2>3, <2>4
<1> QED BY <1>1, <1>3, <1>4

\* The progress line goes to descriptor 1.
LEMMA IdleTables == ASSUME Inv, Tables, master_idle, ~RemoveAll PROVE Tables'
<1>1. /\ pc = "idle" /\ pc' = "wait" /\ head' = head /\ UNCHANGED <<rzat, shellat>>
      /\ me' \in IdleProc(me)
  BY DEF master_idle, Goto, Following, children
<1>2. /\ Running /\ pc \notin Before /\ Registry(me) /\ Table(me) /\ Placed(me)
      /\ DOMAIN me = Fields /\ (head # "rz" => me.spec = NoRz)
  BY <1>1, LoopHolds DEF Looping
<1> DEFINE n == [me EXCEPT !.foreign = @ \union Misused(me, 1, "out")]
<1>3. CASE me' = me
  <2>1. Keeps(me, me')
    BY <1>2, <1>3, KeepsSelf
  <2> QED BY <1>1, <1>2, <1>3, <2>1, KeptTables DEF Looping
<1>4. CASE me' = n
  <2>1. /\ SameAtoms(me, n) /\ Alike(me, n) /\ n.t = me.t
        /\ n.foreign = me.foreign \union Misused(me, 1, "out")
    BY <1>2 DEF Fields, SameAtoms, Alike
  <2> HIDE DEF n
  <2>2. Registry(n) /\ n.fd = me.fd
    BY <1>2, <2>1, SameAtomsKeep DEF Registry, IsProcess, SameAtoms, Alike
  <2>3. Table(n) /\ Plain(n) = Plain(me) /\ (PtyKept(me) => PtyKept(n))
    BY <1>2, <2>1, SameTable
  <2>4. \A a : FileOf(n, a) = FileOf(me, a)
    BY <2>1 DEF FileOf, Alike
  <2>5. Placed(n)
    BY <1>2, <2>1, <2>2, <2>3, <2>4 DEF Placed
  <2>6. Plain(n) => n.foreign = me.foreign
    <3>1. Plain(me) => me.t[1] = "out"
      BY DEF Plain, Standard, Given
    <3> QED BY <2>1, <2>3, <3>1 DEF Misused
  <2>7. Keeps(me, n) /\ n.spec = me.spec
    BY <2>1, <2>2, <2>3, <2>5, <2>6 DEF Keeps, Alike
  <2> QED BY <1>1, <1>2, <1>4, <2>7, KeptTables DEF Looping
<1> QED BY <1>1, <1>3, <1>4 DEF IdleProc

-----------------------------------------------------------------------------
(***************************************************************************)
(* The end of main(): what is noted is closed, and nothing else is open.   *)
(***************************************************************************)
LEMMA StopEffect ==
  ASSUME NEW m, DOMAIN m = Fields
  PROVE  LET n == rzh_fork_prepare(bgio_close(m))
         IN  /\ DOMAIN n = Fields /\ SameAtoms(m, n) /\ n.conn_fd = m.conn_fd
             /\ n.st_master_fd = m.st_master_fd
             /\ n.g_highest_fd = m.g_highest_fd
             /\ \A f \in Fd : n.t[f] = IF f \in {m.st_master_fd, m.st_slave_fd, m.conn_fd, m.log_fd}
                                       THEN Closed ELSE m.t[f]
             /\ PtyKept(m) /\ m.conn_fd \notin Fd /\ LogKept(m) => n.foreign = m.foreign
<1> DEFINE o1 == {<<m.st_master_fd, "ptm">>, <<m.st_slave_fd, "pts">>}
           m1 == close(m, o1)
           o2 == {<<m1.conn_fd, "socket">>}
           m2 == close(m1, o2)
           n == log_close(m2)
<1>1. rzh_fork_prepare(bgio_close(m)) = n
  BY DEF rzh_fork_prepare, bgio_close
<1>2. /\ \A f : (\E p \in o1 : p[1] = f) <=> f \in {m.st_master_fd, m.st_slave_fd}
      /\ PtyKept(m) => \A p \in o1 : p[1] \in Fd => m.t[p[1]] \in {p[2], Closed}
  BY DEF PtyKept
<1>3. /\ \A f : (\E p \in o2 : p[1] = f) <=> f = m1.conn_fd
      /\ m1.conn_fd \notin Fd => \A p \in o2 : p[1] \notin Fd
  OBVIOUS
<1> HIDE DEF o1, o2
<1>4. /\ DOMAIN m1 = Fields /\ SameAtoms(m, m1) /\ Alike(m, m1)
      /\ \A f \in Fd : m1.t[f] = IF f \in {m.st_master_fd, m.st_slave_fd} THEN Closed ELSE m.t[f]
      /\ PtyKept(m) => m1.foreign = m.foreign
  <2>1. /\ DOMAIN m1 = Fields /\ SameAtoms(m, m1) /\ Alike(m, m1)
        /\ \A f \in Fd : m1.t[f] = IF \E p \in o1 : p[1] = f THEN Closed ELSE m.t[f]
        /\ (\A p \in o1 : p[1] \in Fd => m.t[p[1]] \in {p[2], Closed}) => m1.foreign = m.foreign
    BY CloseEffect
  <2> HIDE DEF m1
  <2> QED BY <1>2, <2>1
<1> HIDE DEF m1
<1>5. /\ DOMAIN m2 = Fields /\ SameAtoms(m1, m2) /\ Alike(m1, m2)
      /\ \A f \in Fd : m2.t[f] = IF f = m1.conn_fd THEN Closed ELSE m1.t[f]
      /\ m1.conn_fd \notin Fd => m2.foreign = m1.foreign
  BY <1>3, <1>4, CloseEffect
<1> HIDE DEF m2
<1>6. /\ DOMAIN n = Fields /\ SameAtoms(m2, n)
      /\ n.conn_fd = m2.conn_fd /\ n.st_master_fd = m2.st_master_fd
      /\ n.g_highest_fd = m2.g_highest_fd
      /\ \A f \in Fd : n.t[f] = IF f = m2.log_fd THEN Closed ELSE m2.t[f]
      /\ (m2.log_fd \in Fd => m2.t[m2.log_fd] \in {"log", Closed}) => n.foreign = m2.foreign
  BY <1>5, LogCloseEffect
<1> HIDE DEF n
<1>7. m1.conn_fd = m.conn_fd /\ m2.log_fd = m.log_fd
  BY <1>4, <1>5 DEF Alike
<1>8. \A f \in Fd : n.t[f] = IF f \in {m.st_master_fd, m.st_slave_fd, m.conn_fd, m.log_fd}
                             THEN Closed ELSE m.t[f]
  BY <1>4, <1>5, <1>6, <1>7
<1>9. ASSUME PtyKept(m), m.conn_fd \notin Fd, LogKept(m) PROVE n.foreign = m.foreign
  <2>1. m1.foreign = m.foreign /\ m2.foreign = m.foreign
    BY <1>4, <1>5, <1>7, <1>9
  <2>2. m.log_fd \in Fd => m2.t[m.log_fd] \in {"log", Closed}
    BY <1>4, <1>5, <1>7, <1>9 DEF LogKept
  <2> QED BY <1>6, <1>7, <2>1, <2>2
<1> QED BY <1>1, <1>4, <1>5, <1>6, <1>8, <1>9 DEF SameAtoms, Alike

\* The echo task and the master are taken out, and no atom is left.
LEMMA NoAtomLeft ==
  ASSUME NEW m, Registry(m), \A a \in RzAtoms : m.fd[a] < 0
  PROVE  LET n == io_del(EchoRemoved(m), "master")
         IN  /\ Registry(n) /\ Alike(m, n) /\ n.t = m.t /\ n.foreign = m.foreign
             /\ io_exit_check(n) = {}
<1> DEFINE m1 == io_del(m, "stdin")
           m2 == io_del(m1, "stdout")
           n == io_del(m2, "master")
<1>0. {"stdin", "stdout", "master"} \subseteq Atom /\ m.fd \in [Atom -> Int] /\ DOMAIN m = Fields
  BY DEF Atom, Registry, IsProcess
<1>1. /\ Registry(m1) /\ m1.fd = [m.fd EXCEPT !["stdin"] = -1]
      /\ DOMAIN m1 = Fields /\ Alike(m, m1) /\ m1.t = m.t /\ m1.foreign = m.foreign
  BY <1>0, DelKeeps, DelEffect
<1> HIDE DEF m1
<1>2. /\ Registry(m2) /\ m2.fd = [m1.fd EXCEPT !["stdout"] = -1]
      /\ DOMAIN m2 = Fields /\ Alike(m1, m2) /\ m2.t = m1.t /\ m2.foreign = m1.foreign
  BY <1>0, <1>1, DelKeeps, DelEffect
<1> HIDE DEF m2
<1>3. /\ Registry(n) /\ n.fd = [m2.fd EXCEPT !["master"] = -1]
      /\ Alike(m2, n) /\ n.t = m2.t /\ n.foreign = m2.foreign
  BY <1>0, <1>2, DelKeeps, DelEffect
<1> HIDE DEF n
<1>4. \A a \in Atom : n.fd[a] < 0
  BY <1>0, <1>1, <1>2, <1>3 DEF Atom, RzAtoms
<1>5. \A f \in Slot : n.connections[f] = NoAtom
  <2>1. SUFFICES ASSUME NEW f \in Slot, n.connections[f] # NoAtom PROVE FALSE
    OBVIOUS
  <2>2. n.connections[f] \in Atom /\ n.fd[n.connections[f]] = f
    BY <1>3, <2>1 DEF Registry, IsProcess, Matched
  <2> QED BY <1>4, <2>2 DEF Slot
<1>6. io_exit_check(n) = {}
  BY <1>5 DEF io_exit_check
<1> QED BY <1>1, <1>2, <1>3, <1>6 DEF EchoRemoved, Alike, n, m2, m1

LEMMA RemoveTables ==
  ASSUME Inv, Tables, RemoveAll, pc \in Looping, rzat' = rzat, shellat' = shellat
  PROVE  Tables' /\ me'.conn_fd = me.conn_fd /\ \A f \in Fd : me'.t[f] \in {me.t[f], Closed}
<1> DEFINE m == IF head = "rz" THEN RzRemoved(me) ELSE me
           k == io_del(EchoRemoved(m), "master")
<1>1. pc' = "exited" /\ me' = rzh_fork_prepare(bgio_close(k))
  BY DEF RemoveAll, Exit
<1>2. /\ Running /\ pc \notin Before /\ Registry(me) /\ Table(me) /\ Placed(me)
      /\ (head # "rz" => me.spec = NoRz) /\ me.conn_fd \in Int
  BY LoopHolds
<1>3. Keeps(me, m) /\ m.spec = NoRz /\ \A a \in RzAtoms : m.fd[a] < 0
  <2>1. CASE head = "rz"
    <3>1. \A a \in RzAtoms : a \in Atom
      BY DEF RzAtoms, Atom
    <3> QED BY <1>2, <2>1, <3>1, RzRemovedTable, RzRemovedKeeps
  <2>2. CASE head # "rz"
    BY <1>2, <2>2, KeepsSelf DEF Inv
  <2> QED BY <2>1, <2>2
<1> HIDE DEF m
<1>4. Registry(m) /\ Table(m) /\ m.conn_fd = me.conn_fd
  BY <1>3 DEF Keeps
<1>5. /\ Registry(k) /\ Alike(m, k) /\ k.t = m.t /\ k.foreign = m.foreign
      /\ io_exit_check(k) = {} /\ DOMAIN k = Fields
  BY <1>3, <1>4, NoAtomLeft DEF Registry, IsProcess
<1> HIDE DEF k
<1>6. Table(k) /\ Plain(k) = Plain(m) /\ (PtyKept(m) => PtyKept(k))
  BY <1>4, <1>5, SameTable
<1>7. /\ SameAtoms(k, me') /\ me'.conn_fd = k.conn_fd
      /\ \A f \in Fd : me'.t[f] = IF f \in {k.st_master_fd, k.st_slave_fd, k.conn_fd, k.log_fd}
                                  THEN Closed ELSE k.t[f]
      /\ PtyKept(k) /\ k.conn_fd \notin Fd /\ LogKept(k) => me'.foreign = k.foreign
  BY <1>1, <1>5, StopEffect
<1>8. k.spec = NoRz /\ me'.conn_fd = me.conn_fd /\ Pty(me') = Pty(me) /\ Pty(k) = Pty(me)
  BY <1>3, <1>4, <1>5, <1>7 DEF Alike, Pty
<1>9. \A f \in Fd \ Standard : me'.t[f] \in {Closed, "inherited"}
  <2>1. SUFFICES ASSUME NEW f \in Fd \ Standard,
                        f \notin {k.st_master_fd, k.st_slave_fd, k.conn_fd, k.log_fd}
                 PROVE  k.t[f] \in {Closed, "inherited"}
    BY <1>7
  <2>2. Given(f) = "inherited" /\ f # -1
    BY DEF Given, Fd, Standard
  <2>3. k.t[f] \notin Ours \/ Noted(k, k.t[f]) # f
    BY <1>8, <2>1, <2>2 DEF Noted, NoRz
  <2> QED BY <1>6, <2>2, <2>3 DEF Table, Known
<1>10. io_exit_check(me') = {}
  BY <1>5, <1>7 DEF io_exit_check, SameAtoms
<1>11. Pty(me') /\ Plain(me') => me'.foreign = {}
  <2>1. SUFFICES ASSUME Pty(me), Plain(me') PROVE me'.foreign = {}
    BY <1>8
  <2>2. \A f \in Fd : me'.t[f] \in {k.t[f], Closed}
    BY <1>7
  <2>3. Plain(k) /\ Plain(m)
    BY <1>6, <2>1, <2>2, PlainLess
  <2>4. Plain(me)
    BY <1>3, <2>3, PlainLess DEF Keeps
  <2>5. PtyKept(me) /\ me.foreign = {}
    BY <1>2, <2>1, <2>4 DEF Tables
  <2>6. PtyKept(m) /\ m.foreign = {}
    BY <1>3, <2>3, <2>5 DEF Keeps
  <2>7. k.conn_fd \notin Fd
    BY <1>2, <1>7, <1>8, <2>1 DEF Pty, Fd
  <2> QED BY <1>5, <1>6, <1>7, <2>3, <2>6, <2>7 DEF Table
<1>12. Images'
  BY <1>8 DEF Tables, Images
<1>13. ~Running' /\ pc' \notin Before \union Beginning \union {"args", "connect", "install"}
  BY <1>1 DEF Running, Final, Before, Beginning
<1>14. \A f \in Fd : me'.t[f] \in {me.t[f], Closed}
  BY <1>3, <1>5, <1>7 DEF Keeps
<1> QED BY <1>8, <1>9, <1>10, <1>11, <1>12, <1>13, <1>14 DEF Tables, Clean

\* The drain, a pipe or the fork fails, and rzh gives up.
LEMMA FailTables == ASSUME Inv, Tables, StartFails PROVE Tables'
<1>1. /\ pc = "dispatch" /\ pc' = "exited" /\ code' # 0 /\ UNCHANGED <<rzat, shellat>>
  BY DEF StartFails, Announced, Take, Exit, PipesFail, Settled, children
<1>2. DOMAIN me = Fields
  BY <1>1, LoopHolds DEF Looping
<1>3. CASE me' = me
  BY <1>1, <1>3, FinalTables DEF Final
<1>4. ASSUME NEW files, me' = open(me, files), \A k \in DOMAIN files : files[k] \in Ours
      PROVE  Tables'
  <2>1. /\ Alike(me, me') /\ me'.foreign = me.foreign
        /\ \A f \in Fd : me'.t[f] = me.t[f] \/ \E k \in DOMAIN files : me'.t[f] = files[k]
    BY <1>2, <1>4, OpenKinds
  <2>2. \A f \in Fd : me'.t[f] \in {me.t[f], Closed} \union Ours
    BY <1>4, <2>1
  <2>3. Plain(me') => Plain(me)
    BY <2>2, PlainLess
  <2> QED BY <1>1, <2>1, <2>3, FinalTables DEF Alike, Final
<1>5. ASSUME NEW n \in 0..6 PROVE \A k \in DOMAIN SubSeq(RzPipes, 1, n) :
                                    SubSeq(RzPipes, 1, n)[k] \in Ours
  <2>1. /\ DOMAIN SubSeq(RzPipes, 1, n) = 1..n
        /\ \A k \in 1..n : SubSeq(RzPipes, 1, n)[k] = RzPipes[k]
    BY DEF RzPipes
  <2> QED BY <2>1 DEF Ours
<1>6. CASE Room(me) < 6 /\ me' = open(me, SubSeq(RzPipes, 1, 2 * (Room(me) \div 2)))
  <2>1. 2 * (Room(me) \div 2) \in 0..6
    BY <1>6, RoomIsNat
  <2> QED BY <1>4, <1>5, <1>6, <2>1
<1>7. CASE me' = open(me, RzPipes)
  <2>1. DOMAIN RzPipes = 1..6
    BY DEF RzPipes
  <2> QED BY <1>4, <1>7, <2>1 DEF Ours
<1> QED BY <1>3, <1>6, <1>7 DEF StartFails

-----------------------------------------------------------------------------
(***************************************************************************)
(* A transfer: where the six ends of rz's pipes are.                       *)
(***************************************************************************)
LEMMA PipesOpened ==
  ASSUME NEW m, DOMAIN m = Fields, DOMAIN m.t = Fd, Room(m) >= 6
  PROVE  LET o == open(m, RzPipes)
             end == RzFds(m)
         IN  /\ DOMAIN o = Fields /\ SameAtoms(m, o) /\ Alike(m, o) /\ o.foreign = m.foreign
             /\ DOMAIN o.t = Fd
             /\ \A k \in 1..6 : end[k] \in Fd /\ m.t[end[k]] = Closed /\ o.t[end[k]] = RzPipes[k]
             /\ \A k, j \in 1..6 : end[k] = end[j] => k = j
             /\ \A f \in Fd : (\A k \in 1..6 : end[k] # f) => o.t[f] = m.t[f]
<1> DEFINE o == open(m, RzPipes)
           end == RzFds(m)
<1>1. 6 \in Nat /\ 6 <= Room(m) /\ DOMAIN RzPipes = 1..6
  BY RoomIsNat DEF RzPipes
<1>2. \A k \in 1..6 : end[k] = Place(m, k)
  BY DEF RzFds
<1> HIDE DEF end
<1>3. /\ DOMAIN o = Fields /\ SameAtoms(m, o) /\ Alike(m, o) /\ o.foreign = m.foreign
      /\ DOMAIN o.t = Fd
      /\ \A k \in 1..6 : o.t[Place(m, k)] = RzPipes[k]
      /\ \A f \in Fd : (\A k \in 1..6 : Place(m, k) # f) => o.t[f] = m.t[f]
  <2> DEFINE files == RzPipes
             c == 6
  <2>1. c \in Nat /\ c <= Room(m) /\ DOMAIN files = 1..c
    BY <1>1
  <2> HIDE DEF files, c
  <2>2. /\ DOMAIN o = Fields /\ SameAtoms(m, o) /\ Alike(m, o) /\ o.foreign = m.foreign
        /\ DOMAIN o.t = Fd
        /\ \A k \in 1..c : o.t[Place(m, k)] = files[k]
        /\ \A f \in Fd : (\A k \in 1..c : Place(m, k) # f) => o.t[f] = m.t[f]
    <3>1. o = open(m, files)
      BY DEF files
    <3> HIDE DEF o
    <3> QED BY <2>1, <3>1, OpenEffect
  <2> HIDE DEF o
  <2> QED BY <2>2 DEF files, c
<1> HIDE DEF o
<1>4. /\ \A k \in 1..6 : Place(m, k) \in Fd /\ m.t[Place(m, k)] = Closed
      /\ \A k, j \in 1..6 : Place(m, k) = Place(m, j) => k = j
  BY <1>1, PlaceFacts
<1> QED BY <1>2, <1>3, <1>4 DEF o, end

\* Some of them are closed.
LEMMA EndsEffect ==
  ASSUME NEW m, DOMAIN m = Fields, NEW end, NEW K
  PROVE  LET n == Ends(m, end, K)
         IN  /\ DOMAIN n = Fields /\ SameAtoms(m, n) /\ Alike(m, n) /\ DOMAIN n.t = Fd
             /\ \A f \in Fd : n.t[f] = IF \E k \in K : end[k] = f THEN Closed ELSE m.t[f]
             /\ (\A k \in K : m.t[end[k]] \in {RzPipes[k], Closed}) => n.foreign = m.foreign
<1> DEFINE pairs == {<<end[k], RzPipes[k]>> : k \in K}
           n == close(m, pairs)
<1>1. \A f : (\E p \in pairs : p[1] = f) <=> \E k \in K : end[k] = f
  <2>1. ASSUME NEW f, NEW p \in pairs, p[1] = f PROVE \E k \in K : end[k] = f
    BY <2>1
  <2>2. ASSUME NEW f, NEW k \in K, end[k] = f PROVE \E p \in pairs : p[1] = f
    <3>1. <<end[k], RzPipes[k]>> \in pairs /\ <<end[k], RzPipes[k]>>[1] = f
      BY <2>2
    <3> HIDE DEF pairs
    <3> QED BY <3>1
  <2> QED BY <2>1, <2>2
<1>2. (\A k \in K : m.t[end[k]] \in {RzPipes[k], Closed})
        => \A p \in pairs : p[1] \in Fd => m.t[p[1]] \in {p[2], Closed}
  OBVIOUS
<1> HIDE DEF pairs
<1>3. /\ DOMAIN n = Fields /\ SameAtoms(m, n) /\ Alike(m, n) /\ DOMAIN n.t = Fd
      /\ \A f \in Fd : n.t[f] = IF \E p \in pairs : p[1] = f THEN Closed ELSE m.t[f]
      /\ (\A p \in pairs : p[1] \in Fd => m.t[p[1]] \in {p[2], Closed})
           => n.foreign = m.foreign
  BY CloseEffect
<1> HIDE DEF n
<1>4. Ends(m, end, K) = n
  BY DEF Ends, n, pairs
<1> QED BY <1>1, <1>2, <1>3, <1>4

(***************************************************************************)
(* rz before its exec, whatever the standard descriptors are.              *)
(***************************************************************************)
LEMMA RzChildEffect ==
  ASSUME NEW m, Registry(m), Table(m), m.spec = NoRz, Room(m) >= 6,
         \A a \in RzAtoms : m.fd[a] < 0
  PROVE  LET n == RzChild(open(m, RzPipes), RzFds(m))
         IN  /\ \A f \in Fd \ Standard : n.t[f] \in {Closed, "inherited"}
             /\ io_exit_check(n) = {}
             /\ Plain(m) /\ (Pty(m) => PtyKept(m)) => fdcheck(n)
             /\ Plain(m) /\ Pty(m) /\ PtyKept(m) =>
                  /\ n.foreign = m.foreign
                  /\ Wired(n, "chstdin.r", "chstdout.w", "chstderr.w")
<1> DEFINE o == open(m, RzPipes)
           end == RzFds(m)
           own == Ends(o, end, ParentEnds)
           std == dup2(dup2(dup2(own, end[1], 0), end[4], 1), end[6], 2)
           e == Ends(std, end, {1, 4, 6})
           k == io_del(EchoRemoved(e), "master")
           n == rzh_fork_prepare(bgio_close(k))
           Stop == {m.st_master_fd, m.st_slave_fd, m.conn_fd, m.log_fd}
<1>0. RzChild(o, end) = n
  BY DEF RzChild, task_fork_prepare
<1>1. DOMAIN m = Fields /\ DOMAIN m.t = Fd /\ m.conn_fd \in Int
  BY DEF Registry, IsProcess, Table, Known
<1>2. /\ DOMAIN o = Fields /\ SameAtoms(m, o) /\ Alike(m, o) /\ o.foreign = m.foreign
      /\ DOMAIN o.t = Fd
      /\ \A i \in 1..6 : end[i] \in Fd /\ m.t[end[i]] = Closed /\ o.t[end[i]] = RzPipes[i]
      /\ \A i, j \in 1..6 : end[i] = end[j] => i = j
      /\ \A f \in Fd : (\A i \in 1..6 : end[i] # f) => o.t[f] = m.t[f]
  BY <1>1, PipesOpened
<1> HIDE DEF o, end
<1>3. 1..6 = {1, 4, 6} \union ParentEnds /\ ParentEnds = {2, 3, 5}
  BY DEF ParentEnds
<1>4. /\ DOMAIN own = Fields /\ SameAtoms(o, own) /\ Alike(o, own) /\ DOMAIN own.t = Fd
      /\ \A f \in Fd : own.t[f] = IF \E i \in ParentEnds : end[i] = f THEN Closed ELSE o.t[f]
      /\ (\A i \in ParentEnds : o.t[end[i]] \in {RzPipes[i], Closed}) => own.foreign = o.foreign
  BY <1>2, EndsEffect
<1> HIDE DEF own
<1>5. own.foreign = m.foreign
  BY <1>2, <1>3, <1>4
<1>6. /\ DOMAIN std = Fields /\ SameAtoms(own, std) /\ Alike(own, std) /\ std.foreign = own.foreign
      /\ DOMAIN std.t = Fd
      /\ \A f \in Fd \ Standard : std.t[f] = own.t[f]
      /\ (\A f \in {end[1], end[4], end[6]} : f \in Fd \ Standard /\ own.t[f] # Closed)
           => std.t[0] = own.t[end[1]] /\ std.t[1] = own.t[end[4]] /\ std.t[2] = own.t[end[6]]
  BY <1>4, Dup2Thrice
<1> HIDE DEF std
<1>7. /\ DOMAIN e = Fields /\ SameAtoms(std, e) /\ Alike(std, e) /\ DOMAIN e.t = Fd
      /\ \A f \in Fd : e.t[f] = IF \E i \in {1, 4, 6} : end[i] = f THEN Closed ELSE std.t[f]
      /\ (\A i \in {1, 4, 6} : std.t[end[i]] \in {RzPipes[i], Closed}) => e.foreign = std.foreign
  BY <1>6, EndsEffect
<1> HIDE DEF e
<1>8. SameAtoms(m, e) /\ Alike(m, e)
  BY <1>2, <1>4, <1>6, <1>7 DEF SameAtoms, Alike
<1>9. Registry(e) /\ \A a \in RzAtoms : e.fd[a] < 0
  BY <1>8, SameAtomsKeep DEF Registry, IsProcess, SameAtoms, Alike
<1>10. /\ Registry(k) /\ Alike(e, k) /\ k.t = e.t /\ k.foreign = e.foreign
       /\ io_exit_check(k) = {} /\ DOMAIN k = Fields
  BY <1>9, NoAtomLeft DEF Registry, IsProcess
<1> HIDE DEF k
<1>11. Alike(m, k)
  BY <1>8, <1>10 DEF Alike
<1>12. /\ SameAtoms(k, n) /\ n.g_highest_fd = k.g_highest_fd
       /\ \A f \in Fd : n.t[f] = IF f \in {k.st_master_fd, k.st_slave_fd, k.conn_fd, k.log_fd}
                                 THEN Closed ELSE k.t[f]
       /\ PtyKept(k) /\ k.conn_fd \notin Fd /\ LogKept(k) => n.foreign = k.foreign
  BY <1>10, StopEffect
<1> HIDE DEF n
<1>13. /\ \A f \in Fd : n.t[f] = IF f \in Stop THEN Closed ELSE e.t[f]
       /\ n.g_highest_fd = m.g_highest_fd
  BY <1>10, <1>11, <1>12 DEF Alike
<1>14. \A f \in Fd \ Standard :
         n.t[f] = IF f \in Stop \/ \E i \in 1..6 : end[i] = f THEN Closed ELSE m.t[f]
  <2>1. \A f \in Fd \ Standard :
          e.t[f] = IF \E i \in 1..6 : end[i] = f THEN Closed ELSE m.t[f]
    BY <1>2, <1>3, <1>4, <1>6, <1>7
  <2> QED BY <1>13, <2>1
<1>15. io_exit_check(n) = {}
  BY <1>10, <1>12 DEF io_exit_check, SameAtoms
<1>16. ASSUME NEW f \in Fd \ Standard PROVE n.t[f] \in {Closed, "inherited"}
  <2>1. Given(f) = "inherited" /\ f # -1
    BY DEF Given, Fd, Standard
  <2>2. SUFFICES ASSUME m.t[f] \in Ours, Noted(m, m.t[f]) = f PROVE f \in Stop
    BY <1>14, <2>1 DEF Table, Known
  <2> QED BY <2>1, <2>2 DEF Noted, NoRz
<1>17. ASSUME Plain(m), Pty(m) => PtyKept(m)
       PROVE  /\ fdcheck(n)
              /\ Pty(m) => /\ n.foreign = m.foreign
                           /\ Wired(n, "chstdin.r", "chstdout.w", "chstderr.w")
  <2>1. {0, 1, 2} \subseteq Fd /\ Standard = {0, 1, 2}
    BY StandardIsFd DEF Standard
  <2>2. \A f \in Standard : m.t[f] \in {"in", "out", "err"}
    BY <1>17 DEF Plain, Given, Standard
  <2>3. LogKept(m) /\ Highest(m) /\ Holds(m, "socket") /\ (~Pty(m) => m.st_master_fd = 0 /\ m.st_slave_fd = 0)
    BY <1>17 DEF Table
  <2>4. \A i \in 1..6 : end[i] \in Fd \ Standard
    BY <1>2, <2>2 DEF Closed
  <2>5. /\ m.log_fd \in Fd => m.log_fd \notin Standard /\ m.t[m.log_fd] = "log"
        /\ m.conn_fd \in Fd => m.conn_fd \notin Standard /\ m.t[m.conn_fd] # "inherited"
        /\ Pty(m) => /\ m.st_master_fd \in Fd \ Standard /\ m.t[m.st_master_fd] = "ptm"
                     /\ m.st_slave_fd \in Fd \ Standard /\ m.t[m.st_slave_fd] = "pts"
    <3>1. m.conn_fd \in Fd => m.t[m.conn_fd] \in {"socket", Closed}
      BY <2>3 DEF Holds, Noted
    <3> QED BY <1>17, <2>2, <2>3, <3>1 DEF LogKept, PtyKept, Closed
  <2>6. \A i \in {1, 4, 6} : own.t[end[i]] = RzPipes[i]
    BY <1>2, <1>3, <1>4
  <2>7. RzPipes[1] = "chstdin.r" /\ RzPipes[4] = "chstdout.w" /\ RzPipes[6] = "chstderr.w"
    BY DEF RzPipes
  <2>8. std.t[0] = "chstdin.r" /\ std.t[1] = "chstdout.w" /\ std.t[2] = "chstderr.w"
    <3>1. \A i \in {1, 4, 6} : end[i] \in Fd \ Standard /\ own.t[end[i]] # Closed
      BY <2>4, <2>6, <2>7 DEF Closed
    <3>2. \A f \in {end[1], end[4], end[6]} : f \in Fd \ Standard /\ own.t[f] # Closed
      BY <3>1
    <3> QED BY <1>6, <2>6, <2>7, <3>2
  <2>9. e.t[0] = "chstdin.r" /\ e.t[1] = "chstdout.w" /\ e.t[2] = "chstderr.w"
    BY <1>7, <2>1, <2>4, <2>8
  <2>10. n.t[2] = "chstderr.w" /\ (Pty(m) => n.t[0] = "chstdin.r" /\ n.t[1] = "chstdout.w")
    BY <1>13, <2>1, <2>3, <2>5, <2>9
  <2>11. \A f \in Fd \ Standard : n.t[f] # Closed <=> m.t[f] = "inherited"
    <3>1. ASSUME NEW f \in Fd \ Standard, m.t[f] = "inherited" PROVE n.t[f] # Closed
      <4>1. \A i \in 1..6 : end[i] # f
        BY <1>2, <3>1 DEF Closed
      <4>2. f \notin Stop
        BY <2>1, <2>3, <2>5, <3>1
      <4> QED BY <1>14, <3>1, <4>1, <4>2 DEF Closed
    <3>2. ASSUME NEW f \in Fd \ Standard, n.t[f] # Closed PROVE m.t[f] = "inherited"
      BY <1>14, <1>16, <3>2
    <3> QED BY <3>1, <3>2
  <2>12. fdcheck(n)
    BY <1>13, <2>3, <2>10, <2>11, HighestFound DEF Closed
  <2>13. ASSUME Pty(m) PROVE n.foreign = m.foreign
    <3>1. e.foreign = m.foreign
      <4>1. \A i \in {1, 4, 6} : std.t[end[i]] = RzPipes[i]
        BY <1>6, <2>4, <2>6
      <4> QED BY <1>5, <1>6, <1>7, <4>1
    <3>2. k.conn_fd \notin Fd
      BY <1>1, <1>11, <2>13 DEF Alike, Pty, Fd
    <3>3. \A f \in Fd \ Standard : m.t[f] # Closed => e.t[f] = m.t[f]
      BY <1>2, <1>3, <1>4, <1>6, <1>7
    <3>4. PtyKept(k) /\ LogKept(k)
      BY <1>10, <1>11, <2>5, <2>13, <3>3 DEF Alike, PtyKept, LogKept, Closed
    <3> QED BY <1>10, <1>12, <3>1, <3>2, <3>4
  <2> QED BY <2>10, <2>12, <2>13 DEF Wired
<1> QED BY <1>0, <1>15, <1>16, <1>17 DEF o, end

(***************************************************************************)
(* rzh itself after the fork: its own three ends are open and noted.       *)
(***************************************************************************)
LEMMA RzInstalledTable ==
  ASSUME NEW m, Registry(m), Table(m), Placed(m), m.spec = NoRz, Room(m) >= 6,
         \A a \in RzAtoms : m.fd[a] < 0, m.fd["master"] >= 0
  PROVE  LET n == RzInstalled(open(m, RzPipes), RzFds(m))
         IN  /\ Registry(n) /\ Table(n) /\ Placed(n)
             /\ n.conn_fd = m.conn_fd /\ n.foreign = m.foreign
             /\ Plain(n) => Plain(m) /\ (PtyKept(m) => PtyKept(n))
             /\ \A f \in Standard : n.t[f] = Given(f) => m.t[f] = Given(f)
             /\ n.err = "none" => n.fd["rzwrite"] >= 0
<1> DEFINE o == open(m, RzPipes)
           end == RzFds(m)
           spec == [infd |-> end[3], outfd |-> end[2], errfd |-> end[5]]
           e == Ends(o, end, ChildEnds)
           p == [e EXCEPT !.spec = spec]
           p1 == io_add(p, "rzread", end[3])
           p2 == io_add(p1, "rzwrite", end[2])
           p3 == io_add(p2, "rzerr", end[5])
<1>0. RzInstalled(o, end) = p3
  BY DEF RzInstalled
<1>1. DOMAIN m = Fields /\ DOMAIN m.t = Fd /\ m.conn_fd \in Int /\ m.fd \in [Atom -> Int]
  BY DEF Registry, IsProcess, Table, Known
<1>2. /\ DOMAIN o = Fields /\ SameAtoms(m, o) /\ Alike(m, o) /\ o.foreign = m.foreign
      /\ DOMAIN o.t = Fd
      /\ \A i \in 1..6 : end[i] \in Fd /\ m.t[end[i]] = Closed /\ o.t[end[i]] = RzPipes[i]
      /\ \A i, j \in 1..6 : end[i] = end[j] => i = j
      /\ \A f \in Fd : (\A i \in 1..6 : end[i] # f) => o.t[f] = m.t[f]
  BY <1>1, PipesOpened
<1> HIDE DEF o, end
<1>3. ChildEnds = {1, 4, 6} /\ 1..6 = ChildEnds \union {2, 3, 5}
  BY DEF ChildEnds
<1>4. /\ DOMAIN e = Fields /\ SameAtoms(o, e) /\ Alike(o, e) /\ DOMAIN e.t = Fd
      /\ \A f \in Fd : e.t[f] = IF \E i \in ChildEnds : end[i] = f THEN Closed ELSE o.t[f]
      /\ (\A i \in ChildEnds : o.t[end[i]] \in {RzPipes[i], Closed}) => e.foreign = o.foreign
  BY <1>2, EndsEffect
<1> HIDE DEF e, spec
<1>5. /\ DOMAIN p = Fields /\ SameAtoms(e, p) /\ p.t = e.t /\ p.foreign = e.foreign
      /\ p.spec = spec /\ p.conn_fd = e.conn_fd /\ p.log_fd = e.log_fd
      /\ p.st_master_fd = e.st_master_fd /\ p.st_slave_fd = e.st_slave_fd
      /\ p.g_highest_fd = e.g_highest_fd
  BY <1>4 DEF Fields, SameAtoms
<1> HIDE DEF p
<1>6. /\ SameAtoms(m, p) /\ p.foreign = m.foreign /\ p.spec = spec /\ p.conn_fd = m.conn_fd
      /\ p.log_fd = m.log_fd /\ p.st_master_fd = m.st_master_fd
      /\ p.st_slave_fd = m.st_slave_fd /\ p.g_highest_fd = m.g_highest_fd
  <2>1. e.foreign = m.foreign
    BY <1>2, <1>3, <1>4
  <2> QED BY <1>2, <1>4, <1>5, <2>1 DEF SameAtoms, Alike
<1>7. /\ \A i \in {1, 4, 6} : p.t[end[i]] = Closed
      /\ \A i \in {2, 3, 5} : p.t[end[i]] = RzPipes[i]
      /\ \A f \in Fd : (\A i \in 1..6 : end[i] # f) => p.t[f] = m.t[f]
  BY <1>2, <1>3, <1>4, <1>5
<1>8. \A f \in Fd : m.t[f] # Closed => p.t[f] = m.t[f]
  BY <1>2, <1>7
<1>9. /\ spec.infd = end[3] /\ spec.outfd = end[2] /\ spec.errfd = end[5]
      /\ RzPipes[3] = "chstdout.r" /\ RzPipes[2] = "chstdin.w" /\ RzPipes[5] = "chstderr.r"
  BY DEF spec, RzPipes
<1>10. \A f \in Fd : p.t[f] = m.t[f] \/ p.t[f] = Closed
                     \/ \E i \in {2, 3, 5} : f = end[i] /\ p.t[f] = RzPipes[i]
  BY <1>3, <1>7
<1>11. /\ Noted(p, "chstdout.r") = end[3] /\ Noted(p, "chstdin.w") = end[2]
       /\ Noted(p, "chstderr.r") = end[5]
       /\ \A file \in {"log", "socket", "ptm", "pts"} : Noted(p, file) = Noted(m, file)
  BY <1>6, <1>9 DEF Noted
<1>12. Known(p)
  <2>1. ASSUME NEW f \in Fd, p.t[f] \notin {Closed, Given(f)}
        PROVE  p.t[f] \in Ours /\ Noted(p, p.t[f]) = f
    <3>1. CASE \E i \in {2, 3, 5} : f = end[i] /\ p.t[f] = RzPipes[i]
      BY <1>9, <1>11, <3>1, OursAre
    <3>2. CASE p.t[f] = m.t[f]
      <4>1. m.t[f] \in Ours /\ Noted(m, m.t[f]) = f /\ f # -1
        BY <2>1, <3>2 DEF Table, Known, Fd
      <4>2. m.t[f] \in {"log", "socket", "ptm", "pts"}
        BY <4>1 DEF Noted, NoRz
      <4> QED BY <1>11, <3>2, <4>1, <4>2
    <3> QED BY <1>10, <2>1, <3>1, <3>2
  <2> QED BY <1>4, <1>5, <2>1 DEF Known
<1>13. Holds(p, "socket")
  <2>1. SUFFICES ASSUME m.conn_fd \in Fd PROVE p.t[m.conn_fd] = "socket"
    BY <1>11 DEF Holds, Noted
  <2>2. m.conn_fd >= 0 /\ "master" \in Atom
    BY <2>1 DEF Fd, Atom
  <2>3. m.fd["master"] \in Fd /\ m.t[m.fd["master"]] = "socket"
    BY <2>2 DEF Placed, FileOf
  <2>4. m.conn_fd = m.fd["master"]
    BY <2>3 DEF Table, Known, Given, Closed, Noted
  <2> QED BY <1>8, <2>3, <2>4 DEF Closed
<1>14. \A file \in {"chstdout.r", "chstdin.w", "chstderr.r"} : Holds(p, file)
  BY <1>7, <1>9, <1>11 DEF Holds
<1>15. \A f \in Fd : p.t[f] \in {m.t[f], Closed} \union Ours
  <2>1. {"chstdout.r", "chstdin.w", "chstderr.r"} \subseteq Ours
    BY OursAre
  <2> QED BY <1>9, <1>10, <2>1
<1>16. (Plain(p) => Plain(m)) /\ \A f \in Standard : p.t[f] = Given(f) => m.t[f] = Given(f)
  BY <1>15, PlainLess
<1>17. ASSUME Plain(p) PROVE LogKept(p) /\ Highest(p) /\ (PtyKept(m) => PtyKept(p))
  <2>1. Plain(m) /\ LogKept(m) /\ Highest(m)
    BY <1>16, <1>17 DEF Table
  <2>2. \A f \in Fd : p.t[f] = "inherited" <=> m.t[f] = "inherited"
    BY <1>8, <1>9, <1>10 DEF Closed
  <2>3. Highest(p)
    BY <1>6, <2>1, <2>2 DEF Highest
  <2>4. LogKept(p)
    BY <1>6, <1>8, <2>1 DEF LogKept, Closed
  <2>5. PtyKept(m) => PtyKept(p)
    BY <1>6, <1>8 DEF PtyKept, Closed
  <2> QED BY <2>3, <2>4, <2>5
<1>18. Table(p)
  BY <1>6, <1>12, <1>13, <1>14, <1>17 DEF Table, Pty
<1>19. Registry(p) /\ p.fd = m.fd
  BY <1>6, SameAtomsKeep DEF Registry, IsProcess, SameAtoms
<1>20. Placed(p)
  <2>1. ASSUME NEW a \in Atom, p.fd[a] >= 0
        PROVE  /\ p.fd[a] \in Fd
               /\ p.t[p.fd[a]] = FileOf(p, a) \/ (a \in {"stdin", "stdout"} /\ ~Plain(p))
    <3>1. /\ p.fd[a] = m.fd[a] /\ m.fd[a] \in Fd /\ FileOf(p, a) = FileOf(m, a)
          /\ m.t[m.fd[a]] = FileOf(m, a) \/ (a \in {"stdin", "stdout"} /\ ~Plain(m))
      BY <1>6, <1>19, <2>1 DEF Placed, FileOf
    <3>2. FileOf(m, a) # Closed
      BY DEF FileOf, Closed
    <3> QED BY <1>8, <1>16, <3>1, <3>2
  <2> QED BY <2>1 DEF Placed
<1>21. /\ {"rzread", "rzwrite", "rzerr"} \subseteq Atom /\ RzAtoms = {"rzread", "rzwrite", "rzerr"}
       /\ \A k : /\ FileOf(k, "rzread") = "chstdout.r" /\ FileOf(k, "rzwrite") = "chstdin.w"
                 /\ FileOf(k, "rzerr") = "chstderr.r"
  BY DEF Atom, RzAtoms, FileOf
<1>22. /\ end[3] \in Fd /\ p.t[end[3]] = "chstdout.r" /\ end[2] \in Fd /\ p.t[end[2]] = "chstdin.w"
       /\ end[5] \in Fd /\ p.t[end[5]] = "chstderr.r"
  BY <1>2, <1>7, <1>9
<1>23. /\ Registry(p1) /\ Table(p1) /\ Placed(p1) /\ Alike(p, p1) /\ p1.t = p.t
       /\ p1.foreign = p.foreign /\ \A b \in Atom \ {"rzread"} : p1.fd[b] = p.fd[b]
  BY <1>18, <1>19, <1>20, <1>21, <1>22, AddTable
<1> HIDE DEF p1
<1>24. /\ Registry(p2) /\ Table(p2) /\ Placed(p2) /\ Alike(p1, p2) /\ p2.t = p1.t
       /\ p2.foreign = p1.foreign /\ \A b \in Atom \ {"rzwrite"} : p2.fd[b] = p1.fd[b]
  BY <1>19, <1>21, <1>22, <1>23, AddTable
<1>25. p2.err = "none" => p2.fd["rzwrite"] >= 0
  <2>1. SUFFICES ASSUME p2.err = "none" PROVE p2.fd["rzwrite"] >= 0
    OBVIOUS
  <2>2. end[2] \in Int /\ end[2] >= 0 /\ p1.fd \in [Atom -> Int]
    BY <1>22, <1>23 DEF Fd, Registry, IsProcess
  <2>3. p2.fd = [p1.fd EXCEPT !["rzwrite"] = end[2]]
    BY <1>21, <1>23, <2>1, <2>2, AddDone
  <2> QED BY <1>21, <2>2, <2>3
<1> HIDE DEF p2
<1>26. /\ Registry(p3) /\ Table(p3) /\ Placed(p3) /\ Alike(p2, p3) /\ p3.t = p2.t
       /\ p3.foreign = p2.foreign /\ \A b \in Atom \ {"rzerr"} : p3.fd[b] = p2.fd[b]
  BY <1>19, <1>21, <1>22, <1>23, <1>24, AddTable
<1>27. p3.err = "none" => p3.fd["rzwrite"] >= 0
  <2>1. end[5] \in Int
    BY <1>22 DEF Fd
  <2>2. p3.err = "none" => p2.err = "none"
    BY ZenonT(60), <1>21, <1>24, <2>1, AddDone
  <2> QED BY <1>21, <1>25, <1>26, <2>2
<1> HIDE DEF p3
<1>28. p3.t = p.t /\ p3.foreign = m.foreign /\ Alike(p, p3)
  BY <1>6, <1>23, <1>24, <1>26 DEF Alike
<1>29. /\ Plain(p3) = Plain(p) /\ p3.conn_fd = m.conn_fd
       /\ PtyKept(p) => PtyKept(p3)
  BY <1>6, <1>28 DEF Plain, Alike, PtyKept
<1> QED BY <1>0, <1>16, <1>17, <1>26, <1>27, <1>28, <1>29 DEF o, end

\* fork_rz_process and what becomes of both processes.
LEMMA InstallTables ==
  ASSUME Inv, Tables, rztask_install
  PROVE  Tables' /\ me'.conn_fd = me.conn_fd /\ (me'.t[0] = "in" => me.t[0] = "in")
<1> DEFINE o == open(me, RzPipes)
           end == RzFds(me)
           n == RzInstalled(o, end)
           child == RzChild(o, end)
<1>1. /\ pc = "dispatch" /\ head = "echo" /\ AtomOf = "master" /\ Room(me) >= 6
      /\ shellat' = shellat /\ rzat' = Execed(child, me, chdir_to_dldir)
      /\ \/ n.err = "none" /\ head' = "rz" /\ pc' = pc
         \/ n.err # "none" /\ pc' \in Final /\ (pc' = "exited" => code' # 0)
      /\ me' = n \/ (n.err = "none" /\ me' = Ended(n, "rzwrite"))
  BY DEF rztask_install, Announced, Take, Bails, Exit, Goto, Final
<1>2. /\ Running /\ pc \notin Before /\ Registry(me) /\ Table(me) /\ Placed(me)
      /\ me.spec = NoRz /\ me.conn_fd \in Int
  BY <1>1, LoopHolds DEF Looping
<1>3. \A a \in RzAtoms : me.fd[a] < 0
  BY <1>1, <1>2 DEF Inv
<1>4. me.fd["master"] >= 0
  <2>1. Turn \in Slot /\ me.connections[Turn] = "master" /\ "master" # NoAtom
    BY <1>1, NoAtomAssumption DEF AtomOf, Connection, Atom
  <2>2. me.fd["master"] = Turn
    BY <1>2, <2>1 DEF Registry, Matched
  <2> QED BY <2>1, <2>2 DEF Slot
<1>5. /\ Registry(n) /\ Table(n) /\ Placed(n)
      /\ n.conn_fd = me.conn_fd /\ n.foreign = me.foreign
      /\ Plain(n) => Plain(me) /\ (PtyKept(me) => PtyKept(n))
      /\ n.err = "none" => n.fd["rzwrite"] >= 0
      /\ \A f \in Standard : n.t[f] = Given(f) => me.t[f] = Given(f)
  BY <1>1, <1>2, <1>3, <1>4, RzInstalledTable
<1>6. /\ \A f \in Fd \ Standard : child.t[f] \in {Closed, "inherited"}
      /\ io_exit_check(child) = {}
      /\ Plain(me) /\ (Pty(me) => PtyKept(me)) => fdcheck(child)
      /\ Plain(me) /\ Pty(me) /\ PtyKept(me) =>
           /\ child.foreign = me.foreign
           /\ Wired(child, "chstdin.r", "chstdout.w", "chstderr.w")
  BY <1>1, <1>2, <1>3, RzChildEffect
<1> HIDE DEF n, child
<1>7. Pty(me) /\ Plain(me) => PtyKept(me) /\ me.foreign = {}
  BY <1>2 DEF Tables
<1>8. Keeps(n, me')
  <2>1. CASE me' = n
    BY <1>5, <2>1, KeepsSelf
  <2>2. CASE n.err = "none" /\ me' = Ended(n, "rzwrite")
    BY <1>5, <2>2, EndedTable DEF Atom
  <2> QED BY <1>1, <2>1, <2>2
<1>9. Pty(me') = Pty(me) /\ (Plain(me') => Plain(n))
  <2>1. me'.conn_fd = me.conn_fd
    BY <1>5, <1>8 DEF Keeps
  <2> QED BY <1>8, <2>1, PlainLess DEF Keeps, Pty
<1>10. Pty(me') /\ Plain(me') => PtyKept(me') /\ me'.foreign = {}
  BY <1>5, <1>7, <1>8, <1>9 DEF Keeps
<1>11. /\ rzat'.t = child.t /\ rzat'.foreign = child.foreign /\ rzat'.plain = Plain(me)
       /\ rzat'.atoms = io_exit_check(child) /\ rzat'.checked = fdcheck(child)
  BY <1>1 DEF Execed
<1>12. Images'
  <2>1. /\ \A f \in Fd \ Standard : rzat'.t[f] \in {Closed, "inherited"}
        /\ rzat'.plain => rzat'.checked
        /\ Pty(me') /\ rzat'.plain => rzat'.foreign = {}
    BY <1>6, <1>7, <1>9, <1>11
  <2>2. rzat'.atoms = {}
    BY <1>6, <1>11
  <2>3. rzat'.plain /\ Pty(me') => Wired(rzat', "chstdin.r", "chstdout.w", "chstderr.w")
    BY <1>6, <1>7, <1>9, <1>11 DEF Wired
  <2>4. ASSUME NEW image \in {rzat', shellat'} \ {None}, image # rzat'
        PROVE  /\ \A f \in Fd \ Standard : image.t[f] \in {Closed, "inherited"}
               /\ image.plain => image.checked
               /\ Pty(me') /\ image.plain => image.foreign = {}
    <3>1. image = shellat /\ shellat # None
      BY <1>1, <2>4
    <3> QED BY <1>9, <3>1 DEF Tables, Images
  <2>5. shellat' # None /\ shellat'.plain => Wired(shellat', "pts", "pts", "pts")
    BY <1>1 DEF Tables, Images
  <2> QED BY <2>1, <2>2, <2>3, <2>4, <2>5 DEF Images
<1>13. ASSUME n.err = "none", head' = "rz", pc' = pc PROVE Tables'
  <2>1. Running' /\ pc' \notin Before \union Beginning \union {"args", "connect", "install", "exited"}
    BY <1>1, <1>13 DEF Running, Final, Before, Beginning
  <2>2. Table(me') /\ Placed(me')
    BY <1>8 DEF Keeps
  <2> QED BY <1>10, <1>12, <1>13, <2>1, <2>2 DEF Tables
<1>14. ASSUME pc' \in Final, pc' = "exited" => code' # 0 PROVE Tables'
  <2>1. ~Running' /\ pc' \notin Before \union Beginning \union {"args", "connect", "install"}
    BY <1>14 DEF Running, Final, Before, Beginning
  <2> QED BY <1>10, <1>12, <1>14, <2>1 DEF Tables
<1>15. me'.t[0] = "in" => me.t[0] = "in"
  <2>1. 0 \in Fd /\ 0 \in Standard /\ Given(0) = "in" /\ Closed # "in"
    BY StandardIsFd DEF Standard, Given, Closed
  <2> QED BY <1>5, <1>8, <2>1 DEF Keeps
<1> QED BY <1>1, <1>5, <1>8, <1>13, <1>14, <1>15 DEF Keeps

-----------------------------------------------------------------------------
\* The loop goes on, and nothing of the process changes.
LEMMA AloneTables ==
  ASSUME Inv, Tables, pc \in Looping, pc' \in Looping, UNCHANGED <<me, head, rzat, shellat>>
  PROVE  Tables'
<1>1. /\ Running /\ pc \notin Before /\ Registry(me) /\ Table(me) /\ Placed(me)
      /\ (head # "rz" => me.spec = NoRz)
  BY LoopHolds
<1>2. Keeps(me, me')
  BY <1>1, KeepsSelf
<1> QED BY <1>1, <1>2, KeptTables

LEMMA LoopTables == ASSUME Inv, Tables, Loop PROVE Tables'
<1>1. CASE master_idle
  <2>1. CASE RemoveAll
    <3>1. pc \in Looping /\ rzat' = rzat /\ shellat' = shellat
      BY <1>1, <2>1 DEF master_idle, RemoveAll, Looping
    <3> QED BY <2>1, <3>1, RemoveTables
  <2> QED BY <1>1, <2>1, IdleTables
<1>2. CASE io_wait \/ NoSigchild \/ SigchildCleared \/ DispatchDone
  <2>1. pc \in Looping /\ pc' \in Looping /\ UNCHANGED <<me, head, rzat, shellat>>
    BY <1>2 DEF io_wait, NoSigchild, SigchildCleared, DispatchDone, Goto, Following, Looping, children
  <2> QED BY <2>1, AloneTables
<1>3. CASE Crash
  <2>1. me' = me /\ pc' = "crashed" /\ UNCHANGED <<rzat, shellat>>
    BY <1>3 DEF Crash, Goto, Settled, children
  <2> QED BY <2>1, FinalTables DEF Final
<1>4. CASE pipe_auto_read \/ pipe_auto_write \/ IgnoredEvent \/ cherr_proc
  BY <1>4, EventTables
<1>5. CASE StartFails
  BY <1>5, FailTables
<1>6. CASE rztask_install
  BY <1>6, InstallTables
<1>7. CASE task_default_sigchild
  BY <1>7, ReapTables
<1>8. CASE master_pipe_sigchild
  <2>1. RemoveAll /\ pc \in Looping /\ rzat' = rzat /\ shellat' = shellat
    BY <1>8 DEF master_pipe_sigchild, RemoveAll, Looping
  <2> QED BY <2>1, RemoveTables
<1> QED BY <1>1, <1>2, <1>3, <1>4, <1>5, <1>6, <1>7, <1>8 DEF Loop, Dispatch

LEMMA NextTables == Inv /\ Inv' /\ Tables /\ [Next]_vars => Tables'
<1> SUFFICES ASSUME Inv, Inv', Tables, [Next]_vars PROVE Tables'
  OBVIOUS
<1>1. CASE process_args \/ io_socket_connect_fd \/ preflight \/ openpty_fails
  BY <1>1, StartTables
<1>2. CASE bgio_start
  BY <1>2, ForkTables
<1>3. CASE master_setup
  BY <1>3, SetupTables
<1>4. CASE Loop
  BY <1>4, LoopTables
<1>5. CASE ShellExit \/ RzExit \/ RemoveDir \/ Done \/ UNCHANGED vars
  <2>1. UNCHANGED <<pc, code, argv, me, head, rzat, shellat>>
    BY <1>5 DEF ShellExit, RzExit, RemoveDir, Done, vars, setup, children
  <2>2. Running' = Running /\ Images' = Images
    BY <2>1 DEF Running, Images
  <2> QED BY <2>1, <2>2 DEF Tables
<1> QED BY <1>1, <1>2, <1>3, <1>4, <1>5 DEF Next

(***************************************************************************)
(* rzh and both children before their exec use no remembered descriptor    *)
(* for another file, and what an atom is registered for stays open, in any *)
(* number of transfers and with any descriptors inherited, as long as      *)
(* stdin and stdout are open and there is a pty (bgio.c, rztask.c,         *)
(* task.c: numbers are closed twice and given out again).                  *)
(***************************************************************************)
THEOREM ProcessNoForeignUse == Spec => []NoForeignUse
<1>1. Init => Inv /\ Tables
  BY InitInv, InitTables
<1>2. Inv /\ [Next]_vars => Inv'
  BY NextInv
<1>3. Inv /\ Inv' /\ Tables /\ [Next]_vars => Tables'
  BY NextTables
<1>4. Tables => NoForeignUse
  <2> SUFFICES ASSUME Tables PROVE NoForeignUse
    OBVIOUS
  <2>1. Pty(me) /\ Plain(me) => me.foreign = {}
    BY DEF Tables
  <2>2. \A image \in {rzat, shellat} \ {None} : Pty(me) /\ image.plain => image.foreign = {}
    BY DEF Tables, Images
  <2>3. Running => Placed(me)
    BY DEF Tables
  <2> QED BY <2>1, <2>2, <2>3 DEF NoForeignUse, Placed
<1> QED BY <1>1, <1>2, <1>3, <1>4, PTL DEF Spec

(***************************************************************************)
(* do_child of bgio.c and fork_rz_process of rztask.c: the shell runs on   *)
(* the slave of the pty and rz on its own ends of its three pipes,         *)
(* wherever openpty() and pipe() found room for them.                      *)
(***************************************************************************)
THEOREM ProcessChildWired == Spec => []ChildWired
<1>1. Init => Inv /\ Tables
  BY InitInv, InitTables
<1>2. Inv /\ [Next]_vars => Inv'
  BY NextInv
<1>3. Inv /\ Inv' /\ Tables /\ [Next]_vars => Tables'
  BY NextTables
<1>4. Tables => ChildWired
  BY DEF Tables, Images, ChildWired
<1> QED BY <1>1, <1>2, <1>3, <1>4, PTL DEF Spec

(***************************************************************************)
(* rzh.c:398: neither child, nor rzh at its normal end, has a descriptor   *)
(* above the standard ones that rzh did not inherit, no atom is left, and  *)
(* fdcheck finds nothing in a child.                                       *)
(***************************************************************************)
THEOREM ProcessNothingLeaked == Spec => []NothingLeaked
<1>1. Init => Inv /\ Tables
  BY InitInv, InitTables
<1>2. Inv /\ [Next]_vars => Inv'
  BY NextInv
<1>3. Inv /\ Inv' /\ Tables /\ [Next]_vars => Tables'
  BY NextTables
<1>4. Tables => NothingLeaked
  BY DEF Tables, Images, NothingLeaked
<1> QED BY <1>1, <1>2, <1>3, <1>4, PTL DEF Spec

-----------------------------------------------------------------------------
(***************************************************************************)
(* The terminal's mode: bgio_start saves it when it makes it raw, and      *)
(* nothing comes between that and bgio_stop.                               *)
(***************************************************************************)
\* No exit: the loop goes on, with the terminal as it is.
LEMMA KeptModes ==
  ASSUME Modes, Running, pc \notin Before, pc' \in Looping, UNCHANGED terminal,
         me'.conn_fd = me.conn_fd, me'.t[0] = "in" => me.t[0] = "in"
  PROVE  Modes'
<1>1. pc' \notin Before \union {"exited"}
  BY DEF Looping, Before
<1>2. Pty(me') = Pty(me) /\ st_stdin_ios' = st_stdin_ios
  BY DEF Pty, terminal
<1> QED BY <1>1, <1>2 DEF Modes, Restored

\* An end for which Restored asks nothing.
LEMMA EndedModes ==
  ASSUME pc' \in Final, pc' = "exited" => code' \in {23, 33, 72, 77, 78, 79, 99}
  PROVE  Modes'
<1>1. ~Running' /\ pc' \notin Before
  BY DEF Running, Final, Before
<1> QED BY <1>1 DEF Modes, Restored

\* Before bgio_start, and the step to it.
LEMMA StartModes ==
  ASSUME Inv, Tables, Modes,
         process_args \/ io_socket_connect_fd \/ preflight \/ openpty_fails \/ bgio_start
  PROVE  Modes'
<1> USE DEF Elsewhere, terminal, Exit, Goto, Proceed, Refuse, Before
<1>1. CASE process_args \/ io_socket_connect_fd \/ preflight
  <2>1. pc \in Before /\ termios' = termios /\ pc' \in Before \union {"exited"}
    <3>1. CASE process_args
      BY <3>1 DEF process_args, RzOption, ConnectOption, LogOption, FifoOption, QuietOption,
                  Directory, LastOption, ArgsDone, Option
    <3>2. CASE io_socket_connect_fd
      BY <3>2 DEF io_socket_connect_fd
    <3>3. CASE preflight
      BY <3>3 DEF preflight
    <3> QED BY <1>1, <3>1, <3>2, <3>3
  <2> QED BY <2>1 DEF Modes, Restored, Running, Final
<1>2. CASE openpty_fails
  BY <1>2, EndedModes DEF openpty_fails, Final
<1>3. CASE bgio_start
  <2>1. /\ pc = "setup" /\ Pty(me) /\ Room(me) >= 2 /\ me' = Openpty(me)
        /\ Terminal => st_stdin_ios' = termios
        /\ pc' \in {"killed", "install"}
    BY <1>3 DEF bgio_start
  <2>2. CASE pc' = "killed"
    BY <2>2, EndedModes DEF Final
  <2>3. CASE pc' = "install"
    <3>1. me'.t[0] = "in" => me.t[0] = "in"
      <4>1. Early(me) /\ DOMAIN me = Fields /\ me.conn_fd \in Int
        BY <2>1, EarlyHolds
      <4>2. \A f \in Standard : me'.t[f] = Given(f) => me.t[f] = Given(f)
        BY <2>1, <4>1, PtyOpened
      <4> QED BY <4>2 DEF Standard, Given
    <3>2. termios = "cooked"
      BY <2>1 DEF Modes
    <3> QED BY <2>1, <2>3, <3>1, <3>2 DEF Modes, Restored, Terminal
  <2> QED BY <2>1, <2>2, <2>3
<1> QED BY <1>1, <1>2, <1>3

LEMMA SetupModes == ASSUME Inv, Inv', Tables, Modes, master_setup PROVE Modes'
<1>1. /\ Install /\ st_stdin_ios' = st_stdin_ios
      /\ pc' = "idle" \/ pc' = "overrun" \/ (pc' = "exited" /\ code' \in {77, 99})
  BY DEF master_setup, Bails, Exit, Goto, terminal
<1>2. Pty(me') = Pty(me) /\ me'.t = me.t
  BY SetupTables DEF Alike, Pty
<1>3. CASE pc' = "idle"
  <2>1. Pty(me) => Running /\ pc \notin Before
    BY <1>1 DEF Install, Running, Final, Before
  <2>2. pc' \notin Before \union {"exited"}
    BY <1>3 DEF Before
  <2> QED BY <1>1, <1>2, <2>1, <2>2 DEF Modes, Restored
<1> QED BY <1>1, <1>3, EndedModes DEF Final

\* bgio_stop.
LEMMA RemoveModes ==
  ASSUME Inv, Tables, Modes, RemoveAll, pc \in Looping, rzat' = rzat, shellat' = shellat
  PROVE  Modes'
<1>1. /\ pc' = "exited" /\ termios' = IF Terminal THEN st_stdin_ios ELSE termios
      /\ Running /\ pc \notin Before
  BY DEF RemoveAll, Exit, bgio_stop, Looping, Running, Final, Before
<1>2. Pty(me') = Pty(me) /\ (me'.t[0] = "in" => me.t[0] = "in")
  <2>1. 0 \in Fd /\ Closed # "in"
    BY StandardIsFd DEF Standard, Closed
  <2> QED BY <2>1, RemoveTables DEF Pty
<1>3. Restored'
  BY <1>1, <1>2 DEF Modes, Restored, Terminal
<1>4. ~Running' /\ pc' \notin Before
  BY <1>1 DEF Running, Final, Before
<1> QED BY <1>3, <1>4 DEF Modes

LEMMA LoopModes == ASSUME Inv, Tables, Modes, Loop PROVE Modes'
<1>1. 0 \in Fd /\ Closed # "in"
  BY StandardIsFd DEF Standard, Closed
<1>2. ASSUME pc \in Looping PROVE Running /\ pc \notin Before /\ DOMAIN me = Fields
  BY <1>2, LoopHolds
<1>3. CASE master_idle
  <2>1. pc = "idle" /\ pc \in Looping
    BY <1>3 DEF master_idle, Looping
  <2>2. CASE RemoveAll
    <3>1. rzat' = rzat /\ shellat' = shellat
      BY <2>2 DEF RemoveAll
    <3> QED BY <2>1, <2>2, <3>1, RemoveModes
  <2>3. CASE ~RemoveAll
    <3>1. me' \in IdleProc(me) /\ pc' = "wait" /\ UNCHANGED terminal
      BY <1>3, <2>3 DEF master_idle, Goto, Following
    <3>2. me'.t = me.t /\ me'.conn_fd = me.conn_fd
      BY <1>2, <2>1, <3>1 DEF IdleProc, Fields
    <3> QED BY <1>2, <2>1, <3>1, <3>2, KeptModes DEF Looping
  <2> QED BY <2>2, <2>3
<1>4. CASE io_wait \/ NoSigchild \/ SigchildCleared \/ DispatchDone
  <2>1. pc \in Looping /\ pc' \in Looping /\ me' = me /\ UNCHANGED terminal
    BY <1>4 DEF io_wait, NoSigchild, SigchildCleared, DispatchDone, Goto, Following, Looping
  <2> QED BY <1>2, <2>1, KeptModes
<1>5. CASE Crash
  BY <1>5, EndedModes DEF Crash, Goto, Final
<1>6. CASE pipe_auto_read \/ pipe_auto_write \/ IgnoredEvent \/ cherr_proc
  <2>1. pc = "dispatch" /\ pc' = pc /\ UNCHANGED terminal
    BY <1>6 DEF pipe_auto_read, pipe_auto_write, IgnoredEvent, cherr_proc, Take, Settled
  <2>2. Keeps(me, me')
    BY <1>6, EventTables
  <2> QED BY <1>1, <1>2, <2>1, <2>2, KeptModes DEF Looping, Keeps
<1>7. CASE StartFails
  BY <1>7, EndedModes DEF StartFails, Exit, PipesFail, Final
<1>8. CASE rztask_install
  <2>1. me'.conn_fd = me.conn_fd /\ (me'.t[0] = "in" => me.t[0] = "in")
    BY <1>8, InstallTables
  <2>2. /\ pc = "dispatch" /\ UNCHANGED terminal
        /\ pc' = pc \/ pc' = "overrun" \/ (pc' = "exited" /\ code' \in {72, 77})
    BY <1>8 DEF rztask_install, Announced, Take, Bails, Exit, Goto
  <2> QED BY <1>2, <2>1, <2>2, KeptModes, EndedModes DEF Looping, Final
<1>9. CASE task_default_sigchild
  <2>1. pc = "sigchild" /\ pc' \in {"clear", "crashed"} /\ UNCHANGED terminal
    BY <1>9 DEF task_default_sigchild, Goto
  <2>2. pc' = "crashed" \/ Keeps(me, me')
    BY <1>9, ReapTables
  <2> QED BY <1>1, <1>2, <2>1, <2>2, KeptModes, EndedModes DEF Looping, Final, Keeps
<1>10. CASE master_pipe_sigchild
  <2>1. RemoveAll /\ pc \in Looping /\ rzat' = rzat /\ shellat' = shellat
    BY <1>10 DEF master_pipe_sigchild, RemoveAll, Looping
  <2> QED BY <2>1, RemoveModes
<1> QED BY <1>3, <1>4, <1>5, <1>6, <1>7, <1>8, <1>9, <1>10 DEF Loop, Dispatch

LEMMA NextModes == Inv /\ Inv' /\ Tables /\ Modes /\ [Next]_vars => Modes'
<1> SUFFICES ASSUME Inv, Inv', Tables, Modes, [Next]_vars PROVE Modes'
  OBVIOUS
<1>1. CASE process_args \/ io_socket_connect_fd \/ preflight \/ openpty_fails \/ bgio_start
  BY <1>1, StartModes
<1>2. CASE master_setup
  BY <1>2, SetupModes
<1>3. CASE Loop
  BY <1>3, LoopModes
<1>4. CASE ShellExit \/ RzExit \/ RemoveDir \/ Done \/ UNCHANGED vars
  <2>1. UNCHANGED <<pc, code, me, termios, st_stdin_ios>>
    BY <1>4 DEF ShellExit, RzExit, RemoveDir, Done, vars, terminal
  <2> QED BY <2>1 DEF Modes, Restored, Running
<1> QED BY <1>1, <1>2, <1>3, <1>4 DEF Next

(***************************************************************************)
(* bgio_start, bgio_stop: at every exit but a bail() after bgio_start the  *)
(* terminal is in the mode it was found in, as long as rzh itself has not  *)
(* closed it and there is a pty.                                           *)
(***************************************************************************)
THEOREM ProcessRestored == Spec => []Restored
<1>1. Init => Inv /\ Tables
  BY InitInv, InitTables
<1>2. Init => Modes
  <2>1. Init => pc \in {"aborted", "args"} /\ termios = "cooked"
    BY DEF Init
  <2> QED BY <2>1 DEF Modes, Restored, Running, Final, Before
<1>3. Inv /\ [Next]_vars => Inv'
  BY NextInv
<1>4. Inv /\ Inv' /\ Tables /\ [Next]_vars => Tables'
  BY NextTables
<1>5. Inv /\ Inv' /\ Tables /\ Modes /\ [Next]_vars => Modes'
  BY NextModes
<1>6. Modes => Restored
  BY DEF Modes
<1> QED BY <1>1, <1>2, <1>3, <1>4, <1>5, <1>6, PTL DEF Spec

-----------------------------------------------------------------------------
\* The process has its type whatever became of it.
Sane(m) ==
  /\ DOMAIN m = Fields
  /\ m.connections \in [Slot -> Atom \union {NoAtom}] /\ m.max_fd \in Slot \union {-1}
  /\ m.fd \in [Atom -> Slot \union {-1}]
  /\ DOMAIN m.t = Fd /\ m.conn_fd \in Fd \union {-1} /\ m.log_fd \in Fd \union {-1}
  /\ m.st_master_fd \in Fd

Sound == TypeOK /\ Sane(me)

\* What was opened at f found no place that is lower.
Lowest(m, f) == \A g \in Fd : g < f => m.t[g] # Closed

\* Whatever is where stdin and stdout are, pipe() takes and gives nothing there.
Stays(m) == \A a \in {"stdin", "stdout"} : m.fd[a] >= 0 =>
              m.t[m.fd[a]] \notin {Closed} \union {RzPipes[k] : k \in 1..6}

Ending ==
  /\ Running => me.err = "none" /\ Stays(me)
  /\ pc \in {"preflight", "setup"} /\ me.conn_fd >= 0 => Lowest(me, me.conn_fd)
  /\ pc = "install" => Lowest(me, me.st_master_fd)
  /\ EndCause
\* What a step of a chain of calls leaves alone: the type, that nothing has failed, the socket.
Kin(m, n) == Sane(n) /\ n.err = m.err /\ n.conn_fd = m.conn_fd

LEMMA KinTrans ==
  ASSUME NEW m, NEW n, NEW k, Kin(m, n), Kin(n, k)
  PROVE  Kin(m, k)
BY DEF Kin

LEMMA AlikeKin ==
  ASSUME NEW m, NEW n, Sane(m), SameAtoms(m, n), Alike(m, n), DOMAIN n.t = Fd, n.err = m.err
  PROVE  Kin(m, n)
BY DEF Kin, Sane, SameAtoms, Alike

LEMMA CloseKin == ASSUME NEW m, Sane(m), NEW pairs PROVE Kin(m, close(m, pairs))
<1>1. DOMAIN m = Fields
  BY DEF Sane
<1> QED BY <1>1, CloseEffect, AlikeKin

LEMMA OpenKin == ASSUME NEW m, Sane(m), NEW files PROVE Kin(m, open(m, files))
<1>1. DOMAIN m = Fields
  BY DEF Sane
<1>2. LET o == open(m, files) IN SameAtoms(m, o) /\ o.err = m.err /\ DOMAIN o.t = Fd /\ Alike(m, o)
  BY <1>1 DEF open, SameAtoms, Alike, Fields
<1> QED BY <1>2, AlikeKin

LEMMA DelKin == ASSUME NEW m, Sane(m), NEW a \in Atom PROVE Kin(m, io_del(m, a))
<1> DEFINE f == m.fd[a]
           n == io_del(m, a)
           left == [m.connections EXCEPT ![f] = NoAtom]
           S == {-1} \union {g \in 0..m.max_fd : g \in Slot /\ left[g] # NoAtom}
<1>1. /\ DOMAIN m = Fields /\ m.max_fd \in Slot \union {-1}
      /\ m.connections \in [Slot -> Atom \union {NoAtom}]
      /\ m.fd \in [Atom -> Slot \union {-1}]
  BY DEF Sane
<1>2. CASE Connection(m, f) = NoAtom
  <2>1. n = [m EXCEPT !.fd[a] = -1]
    BY <1>2 DEF io_del, io_del_fd
  <2>2. /\ DOMAIN n = Fields /\ n.fd = [m.fd EXCEPT ![a] = -1]
        /\ n.connections = m.connections /\ n.max_fd = m.max_fd /\ n.t = m.t
        /\ Alike(m, n) /\ n.err = m.err
    BY <1>1, <2>1 DEF Fields, Alike
  <2>3. n.fd \in [Atom -> Slot \union {-1}]
    BY <1>1, <2>2
  <2> HIDE DEF n
  <2>4. Kin(m, n)
    BY <2>2, <2>3 DEF Kin, Sane, Alike
  <2> QED BY <2>4 DEF n
<1>3. CASE Connection(m, f) # NoAtom
  <2>1. /\ DOMAIN n = Fields /\ n.fd = [m.fd EXCEPT ![a] = -1]
        /\ n.connections = left /\ n.max_fd = Max(S) /\ n.t = m.t
        /\ Alike(m, n) /\ n.err = m.err
    BY <1>1, <1>3 DEF Fields, Alike, io_del, io_del_fd
  <2>2. left \in [Slot -> Atom \union {NoAtom}] /\ n.fd \in [Atom -> Slot \union {-1}]
    BY <1>1, <2>1
  <2>3. Max(S) \in S
    <3>1. m.max_fd \in Int
      BY <1>1, FdSetAssumption DEF Slot
    <3> DEFINE b == IF m.max_fd < 0 THEN 0 ELSE m.max_fd
    <3>2. b \in Int /\ S \in SUBSET Int /\ S # {} /\ \A g \in S : g <= b
      BY <3>1
    <3> HIDE DEF S, b
    <3> QED BY <3>2, Greatest
  <2>4. n.max_fd \in Slot \union {-1}
    BY <2>1, <2>3
  <2> HIDE DEF n, left, S
  <2>5. Kin(m, n)
    BY <2>1, <2>2, <2>4 DEF Kin, Sane, Alike
  <2> QED BY <2>5 DEF n
<1> QED BY <1>2, <1>3

LEMMA AddSane ==
  ASSUME NEW m, Sane(m), NEW a \in Atom, NEW f \in Int
  PROVE  /\ Sane(io_add(m, a, f))
         /\ io_add(m, a, f).err = IF m.err = "none" THEN io_add_error(m, f) ELSE m.err
         /\ io_add(m, a, f).conn_fd = m.conn_fd
<1> DEFINE n == io_add(m, a, f)
<1>1. /\ DOMAIN m = Fields /\ m.max_fd \in Slot \union {-1}
      /\ m.connections \in [Slot -> Atom \union {NoAtom}]
      /\ m.fd \in [Atom -> Slot \union {-1}]
  BY DEF Sane
<1>2. CASE m.err # "none"
  BY <1>2 DEF io_add
<1>3. CASE m.err = "none" /\ io_add_error(m, f) # "none"
  <2>1. n = [m EXCEPT !.err = io_add_error(m, f)]
    BY <1>3 DEF io_add
  <2>2. /\ SameAtoms(m, n) /\ Alike(m, n) /\ n.t = m.t /\ n.err = io_add_error(m, f)
    BY <1>1, <2>1 DEF SameAtoms, Alike, Fields
  <2> HIDE DEF n
  <2> QED BY <1>3, <2>2 DEF Sane, SameAtoms, Alike, n
<1>4. CASE m.err = "none" /\ io_add_error(m, f) = "none"
  <2>1. f \in Slot
    BY <1>4, FdSetAssumption DEF io_add_error, Slot
  <2>2. n = [m EXCEPT !.connections[f] = a, !.fd[a] = f, !.max_fd = Max({@, f})]
    BY <1>4 DEF io_add
  <2>3. /\ DOMAIN n = Fields /\ n.fd = [m.fd EXCEPT ![a] = f]
        /\ n.connections = [m.connections EXCEPT ![f] = a] /\ n.max_fd = Max({m.max_fd, f})
        /\ n.t = m.t /\ Alike(m, n) /\ n.err = "none"
    BY <1>1, <1>4, <2>2 DEF Fields, Alike
  <2>4. n.max_fd \in {m.max_fd, f}
    <3>1. m.max_fd \in Int
      BY <1>1, FdSetAssumption DEF Slot
    <3>2. \E x \in {m.max_fd, f} : \A y \in {m.max_fd, f} : x >= y
      BY <3>1
    <3> QED BY <2>3, <3>2 DEF Max
  <2>5. n.fd \in [Atom -> Slot \union {-1}] /\ n.connections \in [Slot -> Atom \union {NoAtom}]
    BY <1>1, <2>1, <2>3
  <2>6. n.max_fd \in Slot \union {-1}
    BY <1>1, <2>1, <2>4
  <2> HIDE DEF n
  <2>7. Sane(n)
    BY <2>3, <2>5, <2>6 DEF Sane, Alike
  <2>8. n.conn_fd = m.conn_fd /\ n.err = io_add_error(m, f)
    BY <1>4, <2>3 DEF Alike
  <2> QED BY <1>4, <2>7, <2>8 DEF n
<1> QED BY <1>2, <1>3, <1>4

LEMMA MayEndKin ==
  ASSUME NEW m, Sane(m), NEW a \in Atom, NEW n \in MayEnd(m, a) \union {Ended(m, a)}
  PROVE  Kin(m, n)
<1> DEFINE c == close(m, {<<m.fd[a], FileOf(m, a)>>})
<1>1. Kin(m, c)
  BY CloseKin
<1>2. Ended(m, a) = io_del(c, a)
  BY DEF Ended
<1> HIDE DEF c
<1>3. Kin(m, Ended(m, a))
  BY <1>1, <1>2, DelKin, KinTrans DEF Kin
<1> QED BY <1>3 DEF MayEnd, Kin

LEMMA RzRemovedKin == ASSUME NEW m, Sane(m) PROVE Kin(m, RzRemoved(m))
<1> DEFINE m1 == io_del(m, "rzerr")
           m2 == io_del(m1, "rzwrite")
           m3 == io_del(m2, "rzread")
           m4 == task_default_destructor(m3)
<1>1. Kin(m, m1)
  BY DelKin DEF Atom
<1>5. RzRemoved(m) = [m4 EXCEPT !.spec = NoRz]
  BY DEF RzRemoved
<1> HIDE DEF m1
<1>2. Kin(m, m2)
  BY <1>1, DelKin, KinTrans DEF Atom, Kin
<1> HIDE DEF m2
<1>3. Kin(m, m3)
  BY <1>2, DelKin, KinTrans DEF Atom, Kin
<1> HIDE DEF m3
<1>4. Kin(m, m4)
  BY <1>3, CloseKin, KinTrans DEF Kin, task_default_destructor
<1> HIDE DEF m4
<1> QED BY <1>4, <1>5 DEF Kin, Sane, Fields

\* Where the program may be.
Somewhere == Final \union DOMAIN Following \union
             {"args", "connect", "preflight", "setup", "install", "clear"}

LEMMA Places ==
  /\ Final \union Looping \union Beginning \subseteq Somewhere
  /\ \A where \in {"idle", "wait", "dispatch", "sigchild"} : Following[where] \in Somewhere
BY DEF Final, Looping, Beginning, Somewhere, Following

LEMMA InitSound == Init => Sound
<1> SUFFICES ASSUME Init PROVE Sound
  OBVIOUS
<1>1. PICK i \in Invocations : me = Newborn(i.fds)
  BY DEF Init
<1>2. /\ DOMAIN me = Fields /\ me.connections = [f \in Slot |-> NoAtom] /\ me.max_fd = 0
      /\ me.fd = [a \in Atom |-> -1] /\ me.conn_fd = -1 /\ me.log_fd = -1
      /\ me.st_master_fd = 0 /\ DOMAIN me.t = Fd
  BY <1>1 DEF Newborn, Fields, NoConnections, NoMax
<1>3. 0 \in Slot /\ 0 \in Fd
  BY FdSetAssumption, MaxFdAssumption DEF Slot, Fd
<1>4. Sane(me)
  BY <1>2, <1>3 DEF Sane
<1>5. pc \in {"aborted", "args"}
  BY DEF Init
<1>6. /\ code = 0 /\ head = None /\ gfd_read = {} /\ gfd_write = {} /\ transfers = 0 /\ reported = 0
      /\ rz = None /\ shell = None /\ sigchild_received = FALSE /\ rzat = None /\ shellat = None
      /\ termios = "cooked" /\ st_stdin_ios = "zero" /\ cwd = "home" /\ dldir = TRUE
  BY DEF Init
<1>7. TypeOK
  <2>1. transfers \in 0..MaxTransfers /\ reported \in 0..transfers /\ code \in 0..99
    BY <1>6, MaxTransfersAssumption
  <2>2. \A image \in {rzat, shellat} : image = None
    BY <1>6
  <2> QED BY <1>4, <1>5, <1>6, <2>1, <2>2 DEF Sane, TypeOK, Final
<1> QED BY <1>4, <1>7 DEF Sound

\* The arguments, the socket, the checks.
LEMMA StartSound ==
  ASSUME Sound, process_args \/ io_socket_connect_fd \/ preflight \/ openpty_fails
  PROVE  Sound' /\ (me'.err = me.err)
<1>1. /\ UNCHANGED <<head, gfd_read, gfd_write, reported, rzat, shellat, rz, shell,
                     sigchild_received, termios, dldir, transfers>>
      /\ st_stdin_ios' \in {st_stdin_ios, termios}
  <2>1. CASE process_args
    BY <2>1 DEF process_args, RzOption, ConnectOption, LogOption, FifoOption, QuietOption, Directory,
                LastOption, ArgsDone, Elsewhere, events, children, terminal
  <2>2. CASE io_socket_connect_fd \/ preflight \/ openpty_fails
    BY <2>2 DEF io_socket_connect_fd, preflight, openpty_fails, Elsewhere, events, children,
                terminal, place
  <2> QED BY <2>1, <2>2
<1>2. /\ pc' = pc \/ pc' \in {"exited", "connect", "preflight", "setup", "killed"}
      /\ code' = code \/ code' \in 0..99
      /\ cwd' \in {cwd, "dldir"}
  <2> USE DEF Exit, Goto
  <2>1. CASE RzOption \/ FifoOption \/ QuietOption
    BY <2>1 DEF RzOption, FifoOption, QuietOption, Proceed
  <2>2. CASE ConnectOption
    BY <2>2 DEF ConnectOption, Proceed, Refuse
  <2>3. CASE LogOption
    BY <2>3 DEF LogOption, Proceed
  <2>4. CASE Directory
    BY <2>4 DEF Directory, Proceed, Refuse
  <2>7. CASE LastOption
    <3>1. pc' = "exited" /\ code' \in 0..1 /\ cwd' = cwd
      BY <2>7 DEF LastOption
    <3> QED BY <3>1
  <2>8. CASE ArgsDone
    BY <2>8 DEF ArgsDone
  <2>5. CASE io_socket_connect_fd \/ openpty_fails
    BY <2>5 DEF io_socket_connect_fd, openpty_fails, place
  <2>6. CASE preflight
    BY <2>6 DEF preflight, Destination
  <2> QED BY <2>1, <2>2, <2>3, <2>4, <2>5, <2>6, <2>7, <2>8 DEF process_args
<1>3. Sane(me') /\ me'.err = me.err
  <2>1. Sane(me)
    BY DEF Sound
  <2>2. CASE LogOption
    <3> DEFINE m0 == close(me, {<<me.log_fd, "log">>})
               m == log_close(me)
               o == open(m, <<"log">>)
    <3>1. Kin(me, m0) /\ m = [m0 EXCEPT !.log_fd = -1]
      BY <2>1, CloseKin DEF log_close
    <3>2. me' = m \/ (Room(m) > 0 /\ me' = [o EXCEPT !.log_fd = Place(m, 1)])
      BY <2>2 DEF LogOption
    <3> HIDE DEF m0, m
    <3>3. Kin(me, m)
      BY <3>1 DEF Kin, Sane, Fields
    <3>4. Kin(me, o)
      BY <3>3, OpenKin, KinTrans DEF Kin
    <3>5. Room(m) > 0 => Place(m, 1) \in Fd
      BY PlaceIsFd, RoomIsNat
    <3> HIDE DEF o
    <3> QED BY <3>2, <3>3, <3>4, <3>5 DEF Kin, Sane, Fields
  <2>3. CASE io_socket_connect_fd
    <3> DEFINE o == open(me, <<"socket">>)
    <3>1. me' = me \/ (Room(me) > 0 /\ me' = [o EXCEPT !.conn_fd = Place(me, 1)])
      BY <2>3 DEF io_socket_connect_fd
    <3>2. Kin(me, o)
      BY <2>1, OpenKin
    <3>3. Room(me) > 0 => Place(me, 1) \in Fd
      BY PlaceIsFd, RoomIsNat
    <3> HIDE DEF o
    <3>4. CASE me' = me
      BY <2>1, <3>4
    <3>5. CASE Room(me) > 0 /\ me' = [o EXCEPT !.conn_fd = Place(me, 1)]
      BY <3>2, <3>3, <3>5 DEF Kin, Sane, Fields
    <3> QED BY <3>1, <3>4, <3>5
  <2>4. CASE me' = me
    BY <2>1, <2>4
  <2> QED BY <2>2, <2>3, <2>4
      DEF process_args, RzOption, ConnectOption, FifoOption, QuietOption, Directory,
          LastOption, ArgsDone, preflight, openpty_fails
<1>4. TypeOK'
  BY <1>1, <1>2, <1>3 DEF Sound, TypeOK, Kin, Sane, Final
<1> QED BY <1>3, <1>4 DEF Sound, Kin

LEMMA ForkSound == ASSUME Sound, bgio_start PROVE Sound' /\ (me'.err = me.err)
<1> DEFINE o == open(me, <<"ptm", "pts">>)
           p == Place(me, 1)
           q == Place(me, 2)
<1>1. Sane(me) /\ Room(me) >= 2 /\ me' = [o EXCEPT !.st_master_fd = p, !.st_slave_fd = q]
  BY DEF Sound, bgio_start, Openpty
<1>2. Kin(me, o)
  BY <1>1, OpenKin
<1>3. p \in Fd
  BY <1>1, PlaceIsFd, RoomIsNat
<1> HIDE DEF o, p, q
<1>4. Kin(me, me')
  BY <1>1, <1>2, <1>3 DEF Kin, Sane, Fields
<1>5. /\ UNCHANGED <<head, gfd_read, gfd_write, reported, rzat, rz, sigchild_received,
                     dldir, cwd, transfers, code>>
      /\ pc' \in {"killed", "install"}
      /\ {termios', st_stdin_ios'} \subseteq {termios, st_stdin_ios, "raw"}
      /\ shell' \in {shell, "running"}
      /\ shellat' = shellat \/ DOMAIN shellat' = {"t", "foreign", "atoms", "checked", "dir", "plain"}
  BY DEF bgio_start, Goto, Execed, setup, events, terminal, place
<1>6. TypeOK'
  BY <1>4, <1>5 DEF Sound, TypeOK, Kin, Sane, Final
<1> QED BY <1>4, <1>6 DEF Sound, Kin

\* Where the master and the echo task are added.
LEMMA AddedThrice ==
  ASSUME NEW m, Sane(m), NEW a \in Atom, NEW b \in Atom, NEW c \in Atom,
         NEW f \in Int, NEW g \in Int, NEW h \in Int
  PROVE  LET m1 == io_add(m, a, f)
             m2 == io_add(m1, b, g)
         IN  Sane(m1) /\ Sane(m2) /\ Sane(io_add(m2, c, h))
             /\ m1.conn_fd = m.conn_fd /\ io_add(m2, c, h).conn_fd = m.conn_fd
<1> DEFINE m1 == io_add(m, a, f)
           m2 == io_add(m1, b, g)
<1>1. Sane(m1) /\ m1.conn_fd = m.conn_fd
  BY AddSane
<1> HIDE DEF m1
<1>2. Sane(m2) /\ m2.conn_fd = m.conn_fd
  BY <1>1, AddSane
<1> HIDE DEF m2
<1>3. Sane(io_add(m2, c, h)) /\ io_add(m2, c, h).conn_fd = m.conn_fd
  BY <1>2, AddSane
<1> QED BY <1>1, <1>2, <1>3 DEF m1, m2

LEMMA SetupSound == ASSUME Sound, master_setup PROVE Sound'
<1> DEFINE fd == IF Pty(me) THEN me.st_master_fd ELSE me.conn_fd
<1>1. Sane(me) /\ fd \in Int
  BY MaxFdAssumption DEF Sound, Sane, Fd
<1>2. me' \in {io_add(me, "master", fd), io_add(io_add(io_add(me, "master", fd), "stdin", 0), "stdout", 1)}
  BY DEF master_setup
<1> HIDE DEF fd
<1>3. Sane(me')
  BY <1>1, <1>2, AddedThrice DEF Atom
<1>4. /\ UNCHANGED <<gfd_read, gfd_write, reported, rzat, shellat, rz, shell,
                     sigchild_received, termios, st_stdin_ios, dldir, cwd, transfers>>
      /\ head' \in {head, "echo"} /\ pc' \in {"idle", "exited", "overrun"}
      /\ code' = code \/ code' \in 0..99
  BY DEF master_setup, Bails, Exit, Goto, setup, events, children, terminal, place
<1>5. pc' \in Somewhere
  BY <1>4 DEF Somewhere, Final, Following
<1>6. TypeOK'
  BY <1>3, <1>4, <1>5 DEF Sound, TypeOK, Sane, Somewhere
<1> QED BY <1>3, <1>6 DEF Sound

-----------------------------------------------------------------------------
\* What is registered is an atom, at a slot of the table.
LEMMA ConnectionIsAtom ==
  ASSUME NEW m, Sane(m), NEW f
  PROVE  Connection(m, f) \in Atom \union {NoAtom} /\ (Connection(m, f) # NoAtom => f \in Slot)
BY DEF Sane, Connection

\* The end of the last task.
LEMMA RemoveKin == ASSUME Sane(me), RemoveAll PROVE Kin(me, me')
<1> DEFINE m0 == IF head = "rz" THEN RzRemoved(me) ELSE me
           m1 == io_del(m0, "stdin")
           m2 == io_del(m1, "stdout")
           m3 == io_del(m2, "master")
           m4 == bgio_close(m3)
           m5 == close(m4, {<<m4.conn_fd, "socket">>})
           m6 == close(m5, {<<m5.log_fd, "log">>})
<1>1. me' = [m6 EXCEPT !.log_fd = -1]
  BY DEF RemoveAll, EchoRemoved, rzh_fork_prepare, log_close
<1>2. Kin(me, m0)
  BY RzRemovedKin DEF Kin
<1> HIDE DEF m0
<1>3. Kin(me, m1)
  BY <1>2, DelKin, KinTrans DEF Kin, Atom
<1> HIDE DEF m1
<1>4. Kin(me, m2)
  BY <1>3, DelKin, KinTrans DEF Kin, Atom
<1> HIDE DEF m2
<1>5. Kin(me, m3)
  BY <1>4, DelKin, KinTrans DEF Kin, Atom
<1> HIDE DEF m3
<1>6. Kin(me, m4)
  BY <1>5, CloseKin, KinTrans DEF Kin, bgio_close
<1> HIDE DEF m4
<1>7. Kin(me, m5)
  BY <1>6, CloseKin, KinTrans DEF Kin
<1> HIDE DEF m5
<1>8. Kin(me, m6)
  BY <1>7, CloseKin, KinTrans DEF Kin
<1> HIDE DEF m6
<1> QED BY <1>1, <1>8 DEF Kin, Sane, Fields

\* Nothing but the start of a transfer can fail in the loop.
LEMMA LoopKin == ASSUME Sane(me), Loop, ~rztask_install PROVE Kin(me, me')
<1>1. CASE RemoveAll
  BY <1>1, RemoveKin
<1>2. CASE me' = me
  BY <1>2 DEF Kin
<1>3. CASE me' = [me EXCEPT !.foreign = @ \union Misused(me, 1, "out")]
  BY <1>3 DEF Kin, Sane, Fields
<1>4. Output \in Atom /\ \A a : SinkOf(a) \in Atom
  BY DEF Output, SinkOf, Atom
<1>5. CASE pipe_auto_read
  <2>1. AtomOf \in Atom
    BY <1>5, ConnectionIsAtom DEF pipe_auto_read, PipeEvent, AtomOf
  <2>2. PICK m \in MayEnd(me, AtomOf) : me' \in MayEnd(m, SinkOf(AtomOf))
    BY <1>5 DEF pipe_auto_read
  <2>3. Kin(me, m)
    BY <2>1, <2>2, MayEndKin
  <2>4. Kin(m, me')
    BY <2>2, <2>3, <1>4, MayEndKin DEF Kin
  <2> QED BY <2>3, <2>4, KinTrans
<1>6. CASE pipe_auto_write
  <2> DEFINE b == IF AtomOf = "master" THEN "master" ELSE Output
  <2>1. b \in Atom /\ me' \in MayEnd(me, b)
    BY <1>4, <1>6 DEF pipe_auto_write, Atom
  <2> HIDE DEF b
  <2> QED BY <2>1, MayEndKin
<1>7. CASE cherr_proc
  BY <1>2, <1>7, DelKin DEF cherr_proc, Atom
<1>8. CASE StartFails
  BY <1>2, <1>8, OpenKin DEF StartFails
<1>9. CASE task_default_sigchild
  <2>1. CASE me' = me
    BY <2>1, <1>2
  <2>2. CASE \E m \in MayEnd(me, "master") \union {me} :
               me' = RzRemoved(IF Unread THEN Ended(m, "rzread") ELSE m)
    <3>1. PICK m \in MayEnd(me, "master") \union {me} :
                 me' = RzRemoved(IF Unread THEN Ended(m, "rzread") ELSE m)
      BY <2>2
    <3>2. Kin(me, m)
      BY <3>1, MayEndKin DEF Atom, Kin
    <3>3. Kin(me, Ended(m, "rzread"))
      BY <3>2, MayEndKin, KinTrans DEF Atom, Kin
    <3> QED BY <3>1, <3>2, <3>3, RzRemovedKin, KinTrans DEF Kin
  <2> QED BY <1>9, <2>1, <2>2 DEF task_default_sigchild
<1>10. CASE master_idle
  BY <1>1, <1>2, <1>3, <1>10 DEF master_idle, IdleProc
<1>11. CASE master_pipe_sigchild
  BY <1>1, <1>11 DEF master_pipe_sigchild
<1>12. CASE io_wait \/ Crash \/ IgnoredEvent \/ DispatchDone \/ NoSigchild \/ SigchildCleared
  BY <1>2, <1>12 DEF io_wait, Crash, IgnoredEvent, DispatchDone, NoSigchild, SigchildCleared
<1> QED BY <1>5, <1>6, <1>7, <1>8, <1>9, <1>10, <1>11, <1>12 DEF Loop, Dispatch

\* Of the start of a transfer: the six places, and the atoms that are added.
LEMMA InstallChain ==
  ASSUME Sane(me), Room(me) >= 6
  PROVE  LET end == RzFds(me)
             o == open(me, RzPipes)
             parent == [Ends(o, end, ChildEnds) EXCEPT
                          !.spec = [infd |-> end[3], outfd |-> end[2], errfd |-> end[5]]]
             m1 == io_add(parent, "rzread", end[3])
             m2 == io_add(m1, "rzwrite", end[2])
             m3 == io_add(m2, "rzerr", end[5])
         IN  /\ \A k \in 1..6 : end[k] \in Fd
             /\ RzInstalled(o, end) = m3
             /\ Sane(m1) /\ Sane(m2) /\ Sane(m3) /\ Kin(me, parent) /\ m3.conn_fd = me.conn_fd
<1> DEFINE end == RzFds(me)
           o == open(me, RzPipes)
           c == Ends(o, end, ChildEnds)
           spec == [infd |-> end[3], outfd |-> end[2], errfd |-> end[5]]
           parent == [c EXCEPT !.spec = spec]
           m1 == io_add(parent, "rzread", end[3])
           m2 == io_add(m1, "rzwrite", end[2])
           m3 == io_add(m2, "rzerr", end[5])
<1>1. \A k \in 1..6 : end[k] \in Fd /\ end[k] \in Int
  <2>1. ASSUME NEW k \in 1..6 PROVE Place(me, k) \in Fd
    <3>1. k \in Nat \ {0} /\ k <= Room(me)
      BY RoomIsNat
    <3> QED BY <3>1, PlaceIsFd
  <2> QED BY <2>1, MaxFdAssumption DEF RzFds, Fd
<1>2. RzInstalled(o, end) = m3
  BY DEF RzInstalled
<1>3. Kin(me, o)
  BY OpenKin
<1>4. Kin(me, c)
  <2> HIDE DEF o, end
  <2> QED BY <1>3, CloseKin, KinTrans DEF Kin, Ends
<1>5. Kin(me, parent)
  <2> HIDE DEF c, spec
  <2> QED BY <1>4 DEF Kin, Sane, Fields
<1>6. Sane(m1) /\ Sane(m2) /\ Sane(m3) /\ m3.conn_fd = me.conn_fd
  <2>1. end[3] \in Int /\ end[2] \in Int /\ end[5] \in Int
    <3> HIDE DEF end
    <3> QED BY <1>1
  <2>2. Sane(parent) /\ parent.conn_fd = me.conn_fd
    BY <1>5 DEF Kin
  <2>3. "rzread" \in Atom /\ "rzwrite" \in Atom /\ "rzerr" \in Atom
    BY DEF Atom
  <2> HIDE DEF parent, end
  <2>4. Sane(m1) /\ m1.conn_fd = me.conn_fd
    BY <2>1, <2>2, <2>3, AddSane
  <2> HIDE DEF m1
  <2>5. Sane(m2) /\ m2.conn_fd = me.conn_fd
    BY <2>1, <2>3, <2>4, AddSane
  <2> HIDE DEF m2
  <2>6. Sane(m3) /\ m3.conn_fd = me.conn_fd
    BY <2>1, <2>3, <2>5, AddSane
  <2> QED BY <2>4, <2>5, <2>6
<1> QED BY <1>1, <1>2, <1>5, <1>6

LEMMA InstallSane == ASSUME Sane(me), rztask_install PROVE Sane(me') /\ me'.conn_fd = me.conn_fd
<1> DEFINE installed == RzInstalled(open(me, RzPipes), RzFds(me))
<1>1. Room(me) >= 6 /\ me' \in {installed, Ended(installed, "rzwrite")}
  BY DEF rztask_install
<1>2. Sane(installed) /\ installed.conn_fd = me.conn_fd
  BY <1>1, InstallChain
<1> HIDE DEF installed
<1> QED BY <1>1, <1>2, MayEndKin DEF Atom, Kin

LEMMA LoopSound == ASSUME Sound, Loop PROVE Sound'
<1>1. Sane(me')
  BY LoopKin, InstallSane DEF Sound, Kin
<1>2. SUFFICES TypeOK'
  BY <1>1 DEF Sound
<1>3. UNCHANGED <<termios, st_stdin_ios, cwd, dldir>> \/ RemoveAll
  BY DEF Loop, Dispatch, master_idle, io_wait, Crash, pipe_auto_read, pipe_auto_write, IgnoredEvent,
         cherr_proc, StartFails, rztask_install, DispatchDone, NoSigchild, task_default_sigchild,
         master_pipe_sigchild, SigchildCleared, Settled, terminal, place
<1>4. termios' \in {termios, st_stdin_ios} /\ UNCHANGED <<st_stdin_ios, cwd, dldir>>
  BY <1>3 DEF RemoveAll, bgio_stop, place
<1>5. CASE RemoveAll /\ shell' \in {shell, None} /\ UNCHANGED events
  BY <1>1, <1>4, <1>5 DEF RemoveAll, Exit, setup, events, place, Sound, TypeOK, Sane, Final
<1>6. CASE io_wait
  <2>1. \A S \in SUBSET Atom : Watched(S) \subseteq Slot
    BY NoAtomAssumption, ConnectionIsAtom DEF Watched, Sound
  <2>2. gfd_read' \subseteq Slot /\ gfd_write' \subseteq Slot
    BY <1>6, <2>1 DEF io_wait, Atom
  <2>3. reported' = transfers /\ transfers' = transfers /\ transfers \in 0..transfers
    BY <1>6, MaxTransfersAssumption DEF io_wait, Sound, TypeOK
  <2>4. pc' = "dispatch" /\ UNCHANGED <<code, head, rzat, shellat, rz, shell, sigchild_received>>
    BY <1>6 DEF io_wait, Goto, Following, children
  <2> QED BY <1>1, <1>4, <2>2, <2>3, <2>4 DEF Sound, TypeOK, Sane, Following
<1>7. CASE rztask_install
  <2>1. /\ UNCHANGED <<shellat, shell, sigchild_received, reported>>
        /\ gfd_read' \subseteq gfd_read /\ gfd_write' \subseteq gfd_write
        /\ rz' = "running" /\ transfers' = transfers + 1 /\ transfers < MaxTransfers
        /\ DOMAIN rzat' = {"t", "foreign", "atoms", "checked", "dir", "plain"}
    BY <1>7 DEF rztask_install, Announced, Take, Execed
  <2>2. /\ head' \in {head, "rz"} /\ pc' \in {pc, "exited", "overrun"}
        /\ code' = code \/ code' \in 0..99
    BY <1>7 DEF rztask_install, Bails, Exit, Goto
  <2>3. transfers' \in 0..MaxTransfers /\ reported' \in 0..transfers'
    BY <2>1, MaxTransfersAssumption DEF Sound, TypeOK
  <2>4. pc' \in Somewhere
    BY <2>2 DEF Sound, TypeOK, Somewhere, Final
  <2> QED BY <1>1, <1>4, <2>1, <2>2, <2>3, <2>4 DEF Sound, TypeOK, Sane, Somewhere
<1>8. CASE Crash \/ pipe_auto_read \/ pipe_auto_write \/ IgnoredEvent \/ cherr_proc \/ StartFails
  <2>1. /\ UNCHANGED <<rzat, shellat, rz, shell, sigchild_received, reported, transfers, head>>
        /\ gfd_read' \subseteq gfd_read /\ gfd_write' \subseteq gfd_write
    BY <1>8 DEF Crash, pipe_auto_read, pipe_auto_write, IgnoredEvent, cherr_proc, StartFails, Announced,
                Take, Settled, children
  <2>2. pc' \in {pc, "crashed", "exited"} /\ (code' = code \/ code' \in 0..99)
    <3>1. CASE StartFails
      BY <3>1 DEF StartFails, PipesFail, Exit
    <3>2. CASE Crash \/ pipe_auto_read \/ pipe_auto_write \/ IgnoredEvent \/ cherr_proc
      BY <3>2 DEF Crash, pipe_auto_read, pipe_auto_write, IgnoredEvent, cherr_proc, Goto
    <3> QED BY <1>8, <3>1, <3>2
  <2>3. pc' \in Somewhere
    BY <2>2 DEF Sound, TypeOK, Somewhere, Final
  <2> QED BY <1>1, <1>4, <2>1, <2>2, <2>3 DEF Sound, TypeOK, Sane, Somewhere
<1>9. CASE DispatchDone \/ NoSigchild \/ SigchildCleared \/ task_default_sigchild
           \/ (master_idle /\ pc' = Following["idle"] /\ UNCHANGED <<code, head, events, transfers, children>>)
  <2>1. /\ UNCHANGED <<rzat, shellat, shell, gfd_read, gfd_write, reported, transfers, code>>
        /\ rz' \in {rz, None} /\ sigchild_received' \in {sigchild_received, FALSE}
        /\ head' \in {head, "echo"} /\ pc' \in {"dispatch", "wait", "idle", "sigchild", "crashed", "clear"}
    BY <1>9 DEF DispatchDone, NoSigchild, SigchildCleared, task_default_sigchild, events, children,
                Goto, Following
  <2>2. pc' \in Somewhere
    BY <2>1 DEF Somewhere, Final, Following
  <2> QED BY <1>1, <1>4, <2>1, <2>2 DEF Sound, TypeOK, Sane, Somewhere
<1>10. CASE master_idle
  BY <1>5, <1>9, <1>10 DEF master_idle, Goto
<1>11. CASE master_pipe_sigchild
  BY <1>5, <1>11 DEF master_pipe_sigchild
<1> QED BY <1>6, <1>7, <1>8, <1>9, <1>10, <1>11 DEF Loop, Dispatch

LEMMA NextSound == Sound /\ [Next]_vars => Sound'
<1> SUFFICES ASSUME Sound, [Next]_vars PROVE Sound'
  OBVIOUS
<1>1. CASE process_args \/ io_socket_connect_fd \/ preflight \/ openpty_fails
  BY <1>1, StartSound
<1>2. CASE bgio_start
  BY <1>2, ForkSound
<1>3. CASE master_setup
  BY <1>3, SetupSound
<1>4. CASE Loop
  BY <1>4, LoopSound
<1>5. CASE ShellExit \/ RzExit \/ RemoveDir
  <2>1. /\ UNCHANGED <<pc, code, me, head, events, transfers, rzat, shellat, terminal, cwd>>
        /\ {rz', shell'} \subseteq {rz, shell, "dead"} /\ dldir' \in BOOLEAN /\ sigchild_received' \in BOOLEAN
    BY <1>5 DEF ShellExit, RzExit, RemoveDir, Sound, TypeOK, place, children
  <2> QED BY <2>1 DEF Sound, TypeOK, Sane, events, terminal
<1>6. CASE Done \/ UNCHANGED vars
  BY <1>6 DEF Done, vars, Sound, TypeOK, Sane, setup, events, terminal, place, children
<1> QED BY <1>1, <1>2, <1>3, <1>4, <1>5, <1>6 DEF Next

(***************************************************************************)
(* The table of descriptors, the registry and what rzh remembers keep      *)
(* their types in every run, also one that ends in a bail().               *)
(***************************************************************************)
THEOREM ProcessTypeOK == Spec => []TypeOK
<1>1. Init => Sound
  BY InitSound
<1>2. Sound /\ [Next]_vars => Sound'
  BY NextSound
<1>3. Sound => TypeOK
  BY DEF Sound
<1> QED BY <1>1, <1>2, <1>3, PTL DEF Spec

-----------------------------------------------------------------------------
(***************************************************************************)
(* Counting the descriptors: those that were given, and at most three of   *)
(* rzh's own outside of a transfer.                                        *)
(***************************************************************************)
Givens(m) == {f \in Fd : m.t[f] \in {"in", "out", "err", "inherited"}}

LEMMA SubsetOfFd == ASSUME NEW S \in SUBSET Fd PROVE IsFiniteSet(S) /\ Cardinality(S) \in Nat
<1>1. IsFiniteSet(Fd)
  BY FS_Interval, MaxFdAssumption DEF Fd
<1> QED BY <1>1, FS_Subset, FS_CardinalityType

LEMMA OneMore ==
  ASSUME NEW S, IsFiniteSet(S), NEW x
  PROVE  /\ IsFiniteSet(S \union {x}) /\ Cardinality(S) \in Nat /\ Cardinality(S \union {x}) \in Nat
         /\ Cardinality(S \union {x}) <= Cardinality(S) + 1
<1>1. /\ IsFiniteSet(S \union {x})
      /\ Cardinality(S \union {x}) = IF x \in S THEN Cardinality(S) ELSE Cardinality(S) + 1
  BY FS_AddElement
<1>2. Cardinality(S) \in Nat
  BY FS_CardinalityType
<1> QED BY <1>1, <1>2

LEMMA UnionSize ==
  ASSUME NEW S, IsFiniteSet(S), NEW T, IsFiniteSet(T)
  PROVE  /\ IsFiniteSet(S \union T) /\ Cardinality(S \union T) \in Nat
         /\ Cardinality(S \union T) <= Cardinality(S) + Cardinality(T)
<1>1. /\ IsFiniteSet(S \union T)
      /\ Cardinality(S \union T) = Cardinality(S) + Cardinality(T) - Cardinality(S \intersect T)
  BY FS_Union
<1>2. IsFiniteSet(S \intersect T)
  BY FS_Subset
<1>3. Cardinality(S) \in Nat /\ Cardinality(T) \in Nat /\ Cardinality(S \intersect T) \in Nat
      /\ Cardinality(S \union T) \in Nat
  BY <1>1, <1>2, FS_CardinalityType
<1> QED BY <1>1, <1>3

LEMMA ThreeAtMost ==
  ASSUME NEW x, NEW y, NEW z
  PROVE  IsFiniteSet({x, y, z}) /\ Cardinality({x, y, z}) \in Nat /\ Cardinality({x, y, z}) <= 3
<1>1. IsFiniteSet({x}) /\ Cardinality({x}) = 1
  BY FS_Singleton
<1>2. /\ IsFiniteSet({x} \union {y}) /\ Cardinality({x} \union {y}) \in Nat
      /\ Cardinality({x} \union {y}) <= 2
  <2>1. LET S == {x} IN
        /\ IsFiniteSet(S \union {y}) /\ Cardinality(S \union {y}) \in Nat
        /\ Cardinality(S \union {y}) <= Cardinality(S) + 1
    BY <1>1, OneMore
  <2> QED BY <1>1, <2>1
<1>3. LET S == {x} \union {y} IN
      /\ IsFiniteSet(S \union {z}) /\ Cardinality(S \union {z}) \in Nat
      /\ Cardinality(S \union {z}) <= Cardinality(S) + 1
  BY <1>2, OneMore
<1>4. ({x} \union {y}) \union {z} = {x, y, z}
  OBVIOUS
<1> QED BY <1>2, <1>3, <1>4

LEMMA OursFew ==
  ASSUME NEW m, Table(m), m.spec = NoRz, m.conn_fd \in Int
  PROVE  \E A : /\ IsFiniteSet(A) /\ Cardinality(A) \in Nat /\ Cardinality(A) <= 3
                /\ \A f \in Fd : m.t[f] # Closed => f \in Givens(m) \union A
<1> DEFINE A == IF Pty(m) THEN {m.log_fd, m.st_master_fd, m.st_slave_fd}
                ELSE {m.log_fd, m.conn_fd, 0}
<1>1. IsFiniteSet(A) /\ Cardinality(A) \in Nat /\ Cardinality(A) <= 3
  BY ThreeAtMost
<1>2. ASSUME NEW f \in Fd, m.t[f] # Closed PROVE f \in Givens(m) \union A
  <2>1. CASE m.t[f] = Given(f)
    BY <2>1 DEF Given, Givens
  <2>2. CASE m.t[f] \in Ours /\ Noted(m, m.t[f]) = f
    <3>1. f \in Int /\ f >= 0
      BY MaxFdAssumption DEF Fd
    <3>2. m.t[f] \in {"log", "ptm", "pts", "socket"}
      BY <2>2, <3>1, OursAre DEF Noted, NoRz
    <3>3. Pty(m) => m.t[f] # "socket"
      BY <2>2, <3>1 DEF Noted, Pty
    <3>4. ~Pty(m) => m.st_master_fd = 0 /\ m.st_slave_fd = 0
      BY DEF Table
    <3> QED BY <2>2, <3>2, <3>3, <3>4 DEF Noted
  <2> QED BY <1>2, <2>1, <2>2 DEF Table, Known
<1> QED BY <1>1, <1>2

(***************************************************************************)
(* If what is below a descriptor past the end of connections[] is open but *)
(* for five, rzh was given more than fits.                                 *)
(***************************************************************************)
LEMMA CrowdedBelow ==
  ASSUME NEW m, Table(m), m.spec = NoRz, m.conn_fd \in Int, NEW F \in Int,
         F >= FD_SETSIZE, F <= MaxFd + 1,
         NEW X, IsFiniteSet(X), Cardinality(X) <= 5,
         \A g \in Fd : g < F => m.t[g] # Closed \/ g \in X
  PROVE  Cardinality(Givens(m)) + 9 > FD_SETSIZE
<1>1. PICK A : /\ IsFiniteSet(A) /\ Cardinality(A) \in Nat /\ Cardinality(A) <= 3
               /\ \A f \in Fd : m.t[f] # Closed => f \in Givens(m) \union A
  BY OursFew
<1> DEFINE G == Givens(m)
           all == (G \union A) \union X
<1>2. IsFiniteSet(G) /\ Cardinality(G) \in Nat
  BY SubsetOfFd DEF Givens
<1>3. Cardinality(X) \in Nat
  BY FS_CardinalityType
<1> HIDE DEF G
<1>4. /\ IsFiniteSet(G \union A) /\ Cardinality(G \union A) \in Nat
      /\ Cardinality(G \union A) <= Cardinality(G) + Cardinality(A)
  BY <1>1, <1>2, UnionSize
<1>5. /\ IsFiniteSet(all) /\ Cardinality(all) \in Nat
      /\ Cardinality(all) <= Cardinality(G \union A) + Cardinality(X)
  BY <1>3, <1>4, UnionSize
<1>6. (0..FD_SETSIZE - 1) \in SUBSET all
  <2>1. ASSUME NEW g \in 0..FD_SETSIZE - 1 PROVE g \in all
    <3>1. g \in Fd /\ g < F
      BY FdSetAssumption, MaxFdAssumption DEF Fd
    <3> QED BY <3>1, <1>1 DEF G
  <2> QED BY <2>1
<1>7. Cardinality(0..FD_SETSIZE - 1) = FD_SETSIZE
  BY FS_Interval, FdSetAssumption
<1>8. Cardinality(0..FD_SETSIZE - 1) <= Cardinality(all)
  <2> HIDE DEF all
  <2> QED BY <1>5, <1>6, FS_Subset
<1>9. FD_SETSIZE <= Cardinality(G) + 8
  <2> DEFINE cG == Cardinality(G)
             cA == Cardinality(A)
             cX == Cardinality(X)
             cU == Cardinality(G \union A)
             cAll == Cardinality(all)
  <2>1. /\ cG \in Nat /\ cA \in Nat /\ cX \in Nat /\ cU \in Nat /\ cAll \in Nat /\ FD_SETSIZE \in Nat
        /\ cA <= 3 /\ cX <= 5 /\ cU <= cG + cA /\ cAll <= cU + cX /\ FD_SETSIZE <= cAll
    BY <1>1, <1>2, <1>3, <1>4, <1>5, <1>7, <1>8, FdSetAssumption
  <2> HIDE DEF cG, cA, cX, cU, cAll
  <2>2. FD_SETSIZE <= cG + 8
    BY <2>1
  <2> QED BY <2>2 DEF cG
<1> QED BY <1>2, <1>9, FdSetAssumption DEF G

\* A file that was given stays, though others are opened and closed.
LEMMA GivensMore ==
  ASSUME NEW m, NEW n, \A f \in Fd : m.t[f] # Closed => n.t[f] = m.t[f],
         Cardinality(Givens(m)) + 9 > FD_SETSIZE
  PROVE  Cardinality(Givens(n)) + 9 > FD_SETSIZE
<1>1. Givens(m) \in SUBSET Givens(n)
  BY DEF Givens, Closed
<1>2. IsFiniteSet(Givens(n)) /\ Cardinality(Givens(n)) \in Nat /\ Cardinality(Givens(m)) \in Nat
  BY SubsetOfFd DEF Givens
<1>3. Cardinality(Givens(m)) <= Cardinality(Givens(n))
  BY <1>1, <1>2, FS_Subset
<1> QED BY <1>2, <1>3, FdSetAssumption

\* Below the k-th lowest descriptor that is free, k - 1 are.
LEMMA BelowPlace ==
  ASSUME NEW m, NEW k \in Nat \ {0}, k <= Room(m)
  PROVE  LET X == {g \in Free(m) : g < Place(m, k)}
         IN  /\ IsFiniteSet(X) /\ Cardinality(X) = k - 1
             /\ \A g \in Fd : g < Place(m, k) => m.t[g] # Closed \/ g \in X
<1> DEFINE p == Place(m, k)
           U == {g \in Free(m) : g <= p}
           X == {g \in Free(m) : g < p}
<1>1. p \in Free(m) /\ Cardinality(U) = k
  <2>1. MaxFd \in Nat /\ Free(m) \in SUBSET (0..MaxFd) /\ k <= Cardinality(Free(m))
    BY MaxFdAssumption DEF Room, Free, Fd
  <2>2. \E f \in Free(m) : Cardinality({g \in Free(m) : g <= f}) = k
    BY ZenonT(60), <2>1, Ranked
  <2> QED BY <2>2 DEF Place
<1> HIDE DEF p
<1>2. \A g \in Free(m) : g \in Int
  BY MaxFdAssumption DEF Free, Fd
<1>3. X = U \ {p} /\ p \in U
  BY <1>1, <1>2
<1>4. IsFiniteSet(U)
  BY SubsetOfFd DEF Free
<1>5. IsFiniteSet(X) /\ Cardinality(X) = k - 1
  <2> HIDE DEF U, X
  <2> QED BY <1>1, <1>3, <1>4, FS_RemoveElement
<1>6. \A g \in Fd : g < p => m.t[g] # Closed \/ g \in X
  BY DEF Free
<1> QED BY <1>5, <1>6 DEF p

LEMMA LowestPlace ==
  ASSUME NEW m, Room(m) > 0
  PROVE  Place(m, 1) \in Fd /\ Lowest(m, Place(m, 1))
<1>1. 1 \in Nat \ {0} /\ 1 <= Room(m)
  BY RoomIsNat
<1> DEFINE X == {g \in Free(m) : g < Place(m, 1)}
<1>2. /\ IsFiniteSet(X) /\ Cardinality(X) = 1 - 1
      /\ \A g \in Fd : g < Place(m, 1) => m.t[g] # Closed \/ g \in X
  BY <1>1, BelowPlace
<1> HIDE DEF X
<1>3. X = {}
  BY <1>2, FS_EmptySet
<1> QED BY <1>1, <1>2, <1>3, PlaceIsFd DEF Lowest

-----------------------------------------------------------------------------
\* A step after which rzh runs on, or ended for another reason than those of EndCause.
LEMMA EndingKept ==
  ASSUME me'.err = "none", pc' = "exited" => code' \notin 77..79,
         pc' = "crashed" => {opt'.inma, opt'.maou} \intersect {0, 1} # {},
         Running' => Stays(me)',
         pc' \in {"preflight", "setup"} /\ me'.conn_fd >= 0 => Lowest(me, me.conn_fd)',
         pc' = "install" => Lowest(me, me.st_master_fd)'
  PROVE  Ending'
BY DEF Ending, EndCause

LEMMA NoAtomStays == ASSUME NEW m, \A a \in Atom : m.fd[a] = -1 PROVE Stays(m)
BY DEF Stays, Atom

LEMMA InitEnding == Init => Ending
<1> SUFFICES ASSUME Init PROVE Ending
  OBVIOUS
<1>1. PICK i \in Invocations : me = Newborn(i.fds)
  BY DEF Init
<1>2. me.err = "none" /\ \A a \in Atom : me.fd[a] = -1
  BY <1>1 DEF Newborn
<1>3. pc \in {"aborted", "args"}
  BY DEF Init
<1> QED BY <1>2, <1>3, NoAtomStays DEF Ending, EndCause

LEMMA StartEnding ==
  ASSUME Inv, Inv', Tables, Sound, Ending,
         process_args \/ io_socket_connect_fd \/ preflight \/ openpty_fails
  PROVE  Ending'
<1> USE DEF Exit, Goto
<1>1. pc \in Beginning /\ Running
  BY DEF process_args, RzOption, ConnectOption, LogOption, FifoOption, QuietOption, Directory,
         LastOption, ArgsDone, Option, io_socket_connect_fd, preflight, openpty_fails, Beginning,
         Running, Final
<1>2. me'.err = "none"
  BY <1>1, StartSound DEF Ending
<1>3. Running' => Stays(me)'
  <2>1. pc' \in Beginning => Stays(me)'
    BY NoAtomStays DEF Inv
  <2>2. pc' \in Beginning \/ pc' \in Final
    BY <1>1 DEF process_args, RzOption, ConnectOption, LogOption, FifoOption, QuietOption, Directory,
                LastOption, ArgsDone, io_socket_connect_fd, preflight, openpty_fails, Proceed, Refuse,
                Beginning, Final
  <2> QED BY <2>1, <2>2 DEF Running
<1>4. CASE process_args
  <2>1. CASE RzOption \/ FifoOption \/ QuietOption
    <3>1. pc' = "args"
      BY <2>1 DEF RzOption, FifoOption, QuietOption, Option, Proceed
    <3> QED BY <3>1, <1>2, <1>3, EndingKept
  <2>2. CASE ConnectOption \/ Directory
    <3>1. pc' = "args" \/ (pc' = "exited" /\ code' = 1)
      BY <2>2 DEF ConnectOption, Directory, Option, Proceed, Refuse
    <3> QED BY <3>1, <1>2, <1>3, EndingKept
  <2>3. CASE LogOption
    <3>1. pc' = "args" \/ (pc' = "exited" /\ code' = 99)
      BY <2>3 DEF LogOption, Option, Proceed
    <3> QED BY <3>1, <1>2, <1>3, EndingKept
  <2>4. CASE LastOption
    <3>1. pc' = "exited" /\ code' \in 0..1
      BY <2>4 DEF LastOption
    <3>2. code' \notin 77..79
      BY <3>1
    <3> QED BY <3>1, <3>2, <1>2, <1>3, EndingKept
  <2>5. CASE ArgsDone
    <3>1. pc' = "connect" \/ (pc' = "exited" /\ code' = 1)
      BY <2>5 DEF ArgsDone
    <3> QED BY <3>1, <1>2, <1>3, EndingKept
  <2> QED BY <1>4, <2>1, <2>2, <2>3, <2>4, <2>5 DEF process_args
<1>5. CASE io_socket_connect_fd
  <2>1. CASE UNCHANGED me /\ opt.port <= 0 /\ pc' = "preflight"
    <3>1. me.conn_fd = -1
      BY <1>5 DEF io_socket_connect_fd, Tables
    <3> QED BY <1>2, <1>3, <2>1, <3>1, EndingKept
  <2>2. CASE pc' = "exited" /\ code' = 2
    BY <2>2, <1>2, <1>3, EndingKept
  <2>3. CASE Room(me) > 0 /\ me' = [open(me, <<"socket">>) EXCEPT !.conn_fd = Place(me, 1)]
             /\ pc' = "preflight"
    <3> DEFINE o == open(me, <<"socket">>)
               p == Place(me, 1)
    <3>1. p \in Fd /\ Lowest(me, p)
      BY <2>3, LowestPlace
    <3>2. \A f \in Fd : o.t[f] = me.t[f] \/ \E k \in DOMAIN <<"socket">> : o.t[f] = <<"socket">>[k]
      BY OpenKinds DEF Sound, Sane
    <3>3. \A f \in Fd : me.t[f] # Closed => o.t[f] # Closed
      BY <3>2 DEF Closed
    <3>4. DOMAIN o = Fields
      BY OpenKin DEF Sound, Kin, Sane
    <3> HIDE DEF o, p
    <3>5. me'.t = o.t /\ me'.conn_fd = p
      BY <2>3, <3>4 DEF Fields, o, p
    <3>6. Lowest(me, me.conn_fd)'
      BY <3>1, <3>3, <3>5 DEF Lowest
    <3> QED BY <1>2, <1>3, <2>3, <3>6, EndingKept
  <2> QED BY <1>5, <2>1, <2>2, <2>3 DEF io_socket_connect_fd
<1>6. CASE preflight
  <2>1. UNCHANGED me /\ pc = "preflight"
    BY <1>6 DEF preflight
  <2>2. (pc' = "exited" /\ code' \notin 77..79) \/ pc' = "setup"
    BY <1>6 DEF preflight
  <2>3. pc' = "setup" /\ me'.conn_fd >= 0 => Lowest(me, me.conn_fd)'
    BY <2>1 DEF Ending
  <2> QED BY <1>2, <1>3, <2>2, <2>3, EndingKept
<1>7. CASE openpty_fails
  <2>1. pc' = "killed"
    BY <1>7 DEF openpty_fails
  <2> QED BY <1>2, <1>3, <2>1, EndingKept
<1> QED BY <1>4, <1>5, <1>6, <1>7

LEMMA ForkEnding == ASSUME Inv', Sound, Ending, bgio_start PROVE Ending'
<1> DEFINE o == open(me, <<"ptm", "pts">>)
           p == Place(me, 1)
           q == Place(me, 2)
<1>1. /\ pc = "setup" /\ Room(me) > 0 /\ me' = [o EXCEPT !.st_master_fd = p, !.st_slave_fd = q]
      /\ pc' \in {"killed", "install"}
  BY RoomIsNat DEF bgio_start, Openpty, Goto
<1>2. me'.err = "none"
  BY <1>1, ForkSound DEF Ending, Running, Final
<1>3. p \in Fd /\ Lowest(me, p)
  BY <1>1, LowestPlace
<1>4. \A f \in Fd : o.t[f] = me.t[f] \/ \E k \in DOMAIN <<"ptm", "pts">> : o.t[f] = <<"ptm", "pts">>[k]
  BY OpenKinds DEF Sound, Sane
<1>5. \A f \in Fd : me.t[f] # Closed => o.t[f] # Closed
  <2>1. ASSUME NEW k \in DOMAIN <<"ptm", "pts">> PROVE <<"ptm", "pts">>[k] # Closed
    BY DEF Closed
  <2> HIDE DEF o
  <2> QED BY <1>4, <2>1
<1>6. DOMAIN o = Fields
  BY OpenKin DEF Sound, Kin, Sane
<1> HIDE DEF o, p, q
<1>7. me'.t = o.t /\ me'.st_master_fd = p
  BY <1>1, <1>6 DEF Fields
<1>8. Lowest(me, me.st_master_fd)'
  BY <1>3, <1>5, <1>7 DEF Lowest
<1>9. pc' = "install" => Stays(me)'
  BY NoAtomStays DEF Inv, Beginning
<1> QED BY <1>1, <1>2, <1>8, <1>9, EndingKept DEF Running, Final

\* What io_add may fail of where no atom is.
LEMMA AddFails ==
  ASSUME NEW m, Sane(m), NEW a \in Atom, NEW f \in Fd, m.err = "none", Connection(m, f) = NoAtom
  PROVE  LET n == io_add(m, a, f)
         IN  \/ n.err # "none" /\ f >= FD_SETSIZE
             \/ n.err = "none" /\ \A g : g # f => Connection(n, g) = Connection(m, g)
<1>1. f \in Int /\ f >= 0 /\ FD_SETSIZE \in Int
  BY MaxFdAssumption, FdSetAssumption DEF Fd
<1>2. CASE f >= FD_SETSIZE
  <2>1. io_add_error(m, f) # "none"
    BY <1>1, <1>2 DEF io_add_error
  <2> QED BY <1>2, <2>1, <1>1, AddSane
<1>3. CASE f < FD_SETSIZE
  <2>1. io_add_error(m, f) = "none" /\ f \in Slot
    BY <1>1, <1>3 DEF io_add_error, Slot
  <2> DEFINE n == io_add(m, a, f)
  <2>2. n = [m EXCEPT !.connections[f] = a, !.fd[a] = f, !.max_fd = Max({@, f})]
    BY <2>1 DEF io_add
  <2>3. n.err = "none" /\ n.connections = [m.connections EXCEPT ![f] = a]
    BY <2>2 DEF Sane, Fields
  <2> HIDE DEF n
  <2>4. \A g : g # f => Connection(n, g) = Connection(m, g)
    BY <2>3 DEF Connection, Sane
  <2> QED BY <2>3, <2>4 DEF n
<1> QED BY <1>1, <1>2, <1>3

LEMMA EmptyIsFew == IsFiniteSet({}) /\ Cardinality({}) <= 5
<1>1. IsFiniteSet({}) /\ Cardinality({}) = 0
  BY FS_EmptySet
<1> QED BY <1>1

\* An atom is where it was added, and the others where they were.
LEMMA AddPlaced ==
  ASSUME NEW m, Sane(m), NEW a \in Atom, NEW f \in Int, io_add(m, a, f).err = "none", m.err = "none"
  PROVE  Connection(io_add(m, a, f), f) = a
<1> DEFINE n == io_add(m, a, f)
<1>1. io_add_error(m, f) = "none"
  BY AddSane
<1>2. f \in Slot
  BY <1>1, FdSetAssumption DEF io_add_error, Slot
<1>3. n = [m EXCEPT !.connections[f] = a, !.fd[a] = f, !.max_fd = Max({@, f})]
  BY <1>1 DEF io_add
<1>4. n.connections = [m.connections EXCEPT ![f] = a]
  BY <1>3 DEF Sane, Fields
<1> HIDE DEF n
<1>5. Connection(n, f) = a
  BY <1>2, <1>4 DEF Connection, Sane
<1> QED BY <1>5 DEF n

LEMMA AddedPlaces ==
  ASSUME NEW m, Sane(m), NEW a \in Atom, NEW f \in Int, NEW b \in Atom
  PROVE  io_add(m, a, f).fd[b] = m.fd[b] \/ (b = a /\ io_add(m, a, f).fd[b] = f)
<1> DEFINE n == io_add(m, a, f)
<1>1. CASE m.err # "none" \/ io_add_error(m, f) # "none"
  <2>1. n.fd = m.fd
    BY <1>1 DEF io_add, Sane, Fields
  <2> QED BY <2>1
<1>2. CASE m.err = "none" /\ io_add_error(m, f) = "none"
  <2>1. n = [m EXCEPT !.connections[f] = a, !.fd[a] = f, !.max_fd = Max({@, f})]
    BY <1>2 DEF io_add
  <2>2. n.fd = [m.fd EXCEPT ![a] = f]
    BY <2>1 DEF Sane, Fields
  <2> HIDE DEF n
  <2>3. n.fd[b] = m.fd[b] \/ (b = a /\ n.fd[b] = f)
    BY <2>2 DEF Sane
  <2> QED BY <2>3 DEF n
<1> QED BY <1>1, <1>2

LEMMA NoPipes ==
  ASSUME NEW m, Table(m), m.spec = NoRz, NEW f \in Fd
  PROVE  m.t[f] \notin {RzPipes[k] : k \in 1..6}
<1>1. f \in Int /\ f >= 0
  BY MaxFdAssumption DEF Fd
<1>2. {RzPipes[k] : k \in 1..6} = {"chstdin.r", "chstdin.w", "chstdout.r", "chstdout.w",
                                   "chstderr.r", "chstderr.w"}
  <2>1. 1..6 = {1, 2, 3, 4, 5, 6}
    OBVIOUS
  <2> QED BY <2>1 DEF RzPipes
<1>3. m.t[f] \in {Closed, Given(f)} \/ (m.t[f] \in Ours /\ Noted(m, m.t[f]) = f)
  BY DEF Table, Known
<1> QED BY <1>1, <1>2, <1>3 DEF Noted, NoRz, Given, Closed

(***************************************************************************)
(* master_setup fails where the master is past the end of connections[],   *)
(* all below it being open, or where it has the place of stdin or stdout.  *)
(***************************************************************************)
LEMMA SetupEnding ==
  ASSUME Inv, Tables, Sound, Ending, Tables', Alike(me, me'), me'.t = me.t, master_setup
  PROVE  Ending'
<1> USE DEF Exit, Goto
<1> DEFINE fd == IF Pty(me) THEN me.st_master_fd ELSE me.conn_fd
           m1 == io_add(me, "master", fd)
           m2 == io_add(m1, "stdin", 0)
           m3 == io_add(m2, "stdout", 1)
<1>1. /\ Running /\ Sane(me) /\ Registry(me) /\ Table(me) /\ me.spec = NoRz /\ me.conn_fd \in Int
      /\ me.err = "none" /\ Install /\ \A a \in Atom : me.fd[a] = -1
  BY DEF master_setup, Install, Running, Final, Beginning, Inv, Registry, IsProcess, Tables, Sound, Ending
<1>2. fd \in Fd /\ fd \in Int /\ fd >= 0 /\ Lowest(me, fd) /\ me.t[fd] \in {"ptm", "socket"}
  <2>1. CASE pc = "install"
    BY <2>1, MaxFdAssumption DEF Tables, Ending, Pty, Fd
  <2>2. CASE pc = "setup" /\ ~Pty(me)
    <3>1. me.conn_fd >= 0
      BY <1>1, <2>2 DEF Pty
    <3> QED BY <2>2, <3>1, MaxFdAssumption DEF Tables, Ending, Before, Fd
  <2> QED BY <1>1, <2>1, <2>2 DEF Install
<1>3. /\ me' \in {m1, m3}
      /\ \/ m1.err # "none" /\ Bails(m1, 77)
         \/ m1.err = "none" /\ pc' = "exited" /\ code' = 99 /\ me' = m1
         \/ m1.err = "none" /\ m3.err # "none" /\ pc' = "exited" /\ code' = 77
         \/ m3.err = "none" /\ pc' = "idle" /\ me' = m3
  <2>1. /\ me' = IF opt.inma >= 0 /\ opt.maou >= 0 THEN m3 ELSE m1
        /\ \/ m1.err # "none" /\ Bails(m1, 77)
           \/ m1.err = "none" /\ ~(opt.inma >= 0 /\ opt.maou >= 0) /\ Exit(99)
           \/ m1.err = "none" /\ (opt.inma >= 0 /\ opt.maou >= 0) /\ m3.err # "none" /\ Exit(77)
           \/ (opt.inma >= 0 /\ opt.maou >= 0) /\ m3.err = "none" /\ Goto("idle")
    BY DEF master_setup
  <2> HIDE DEF m1, m3
  <2> QED BY <2>1
<1> HIDE DEF fd
<1>4. \A f : Connection(me, f) = NoAtom
  <2>1. ASSUME NEW f, Connection(me, f) # NoAtom PROVE FALSE
    <3>1. f \in Slot /\ me.connections[f] \in Atom /\ me.fd[me.connections[f]] = f /\ f >= 0
      BY <1>1, <2>1, FdSetAssumption DEF Connection, Registry, IsProcess, Matched, Slot
    <3> QED BY <1>1, <3>1
  <2> QED BY <2>1
<1>5. \/ m1.err # "none" /\ fd >= FD_SETSIZE
      \/ m1.err = "none" /\ \A g : g # fd => Connection(m1, g) = NoAtom
  BY <1>1, <1>2, <1>4, AddFails DEF Atom
<1>6. Sane(m1) /\ Sane(m2) /\ Sane(m3)
  BY <1>1, <1>2, AddedThrice DEF Atom
<1>7. m1.err # "none" => m2 = m1 /\ m3 = m1
  BY DEF io_add
<1> HIDE DEF m1
<1>8. CASE m1.err # "none"
  <2>1. fd >= FD_SETSIZE /\ fd <= MaxFd + 1
    BY <1>2, <1>5, <1>8, MaxFdAssumption DEF Fd
  <2>2. \A g \in Fd : g < fd => me.t[g] # Closed \/ g \in {}
    BY <1>2 DEF Lowest
  <2>3. Cardinality(Givens(me)) + 9 > FD_SETSIZE
    BY <1>1, <1>2, <2>1, <2>2, EmptyIsFew, CrowdedBelow
  <2>4. Cardinality(Givens(me)')+ 9 > FD_SETSIZE
    BY <2>3 DEF Givens
  <2>5. Crowded'
    BY <2>4 DEF Crowded, Givens
  <2>6. pc' \in {"exited", "overrun"}
    BY <1>3, <1>7, <1>8 DEF Bails
  <2> QED BY <2>5, <2>6 DEF Ending, EndCause, Running, Final
<1>9. CASE m1.err = "none"
  <2>1. 0 \in Fd /\ 1 \in Fd
    BY MaxFdAssumption DEF Fd
  <2>2. CASE fd = 0 \/ fd = 1
    <3>1. \E f \in 0..1 : me'.t[f] \in {"ptm", "pts", "socket", "log"}
      BY <1>2, <2>2
    <3>2. pc' \in {"exited", "idle"}
      BY <1>3, <1>9
    <3>3. pc' = "idle" => m3.err = "none" /\ me' = m3
      BY <1>3, <1>9
    <3>4. m3.err # "none"
      <4>1. CASE fd = 0
        <5>1. Connection(m1, 0) = "master"
          BY <4>1, <1>1, <1>9, AddPlaced DEF m1, Atom
        <5>2. io_add_error(m1, 0) # "none"
          BY <5>1, NoAtomAssumption DEF io_add_error, Atom
        <5>3. m2.err # "none"
          BY <1>9, <5>2 DEF io_add
        <5> QED BY <5>3 DEF io_add
      <4>2. CASE fd = 1
        <5>1. Connection(m1, 1) = "master"
          BY <4>2, <1>1, <1>9, AddPlaced DEF m1, Atom
        <5>2. m2.err = "none" => Connection(m2, 1) = "master"
          BY <5>1, <1>5, <1>6, <1>9, <2>1, <4>2, AddFails DEF Atom
        <5>3. m2.err = "none" => io_add_error(m2, 1) # "none"
          BY <5>2, NoAtomAssumption DEF io_add_error, Atom
        <5> QED BY <5>3 DEF io_add
      <4> QED BY <2>2, <4>1, <4>2
    <3> QED BY <3>1, <3>2, <3>3, <3>4 DEF Ending, EndCause, Running, Final
  <2>3. CASE fd # 0 /\ fd # 1
    <3>1. \/ m2.err # "none" /\ 0 >= FD_SETSIZE
          \/ m2.err = "none" /\ \A g : g # 0 => Connection(m2, g) = Connection(m1, g)
      BY <1>5, <1>6, <1>9, <2>1, <2>3, AddFails DEF Atom
    <3>2. m2.err = "none" /\ Connection(m2, 1) = NoAtom
      BY <1>5, <1>9, <2>3, <3>1, FdSetAssumption
    <3> HIDE DEF m2
    <3>3. m3.err = "none" \/ 1 >= FD_SETSIZE
      BY <1>6, <2>1, <3>2, AddFails DEF Atom
    <3> HIDE DEF m3
    <3>4. 1 >= FD_SETSIZE => Crowded'
      <4>1. Cardinality(Givens(me)') \in Nat
        <5>1. Givens(me)' \in SUBSET Fd
          BY DEF Givens
        <5> QED BY <5>1, SubsetOfFd
      <4>2. 1 >= FD_SETSIZE => Cardinality(Givens(me)') + 9 > FD_SETSIZE
        BY <4>1, FdSetAssumption
      <4> QED BY <4>2 DEF Crowded, Givens
    <3>5. Stays(me')
      <4>1. me.t[0] # Closed /\ me.t[1] # Closed
        BY <1>2, <2>1, <2>3 DEF Lowest
      <4>2. \A a \in {"stdin", "stdout"} : me'.fd[a] >= 0 => me'.fd[a] \in {0, 1}
        <5>1. \A a \in Atom \ {"master"} : m1.fd[a] = -1
          BY <1>1, <1>2, AddedPlaces DEF m1, Atom
        <5>2. \A a \in Atom : m2.fd[a] = m1.fd[a] \/ (a = "stdin" /\ m2.fd[a] = 0)
          BY <1>6, AddedPlaces DEF m2, Atom
        <5>3. \A a \in Atom : m3.fd[a] = m2.fd[a] \/ (a = "stdout" /\ m3.fd[a] = 1)
          BY <1>6, AddedPlaces DEF m3, Atom
        <5> QED BY <1>3, <5>1, <5>2, <5>3 DEF Atom
      <4>3. \A f \in Fd : me.t[f] \notin {RzPipes[k] : k \in 1..6}
        BY <1>1, NoPipes
      <4> QED BY <4>1, <4>2, <4>3, <2>1 DEF Stays
    <3>6. CASE m3.err = "none"
      <4>1. me'.err = "none" /\ (pc' = "idle" \/ (pc' = "exited" /\ code' = 99))
        BY <1>3, <1>9, <3>6
      <4> QED BY <4>1, <3>5, EndingKept
    <3>7. CASE m3.err # "none"
      <4>1. pc' = "exited" /\ Crowded'
        BY <1>3, <1>9, <3>3, <3>4, <3>7
      <4> QED BY <4>1 DEF Ending, EndCause, Running, Final
    <3> QED BY <3>6, <3>7
  <2> QED BY <2>2, <2>3
<1> QED BY <1>8, <1>9

-----------------------------------------------------------------------------
(***************************************************************************)
(* Nothing takes the file away from under stdin or stdout but its own end. *)
(***************************************************************************)
LEMMA DelStays ==
  ASSUME NEW m, Registry(m), Stays(m), NEW a \in Atom
  PROVE  Stays(io_del(m, a))
<1> DEFINE n == io_del(m, a)
<1>1. n.t = m.t
  BY DelEffect DEF Registry, IsProcess
<1>2. n.fd = [m.fd EXCEPT ![a] = -1] /\ m.fd \in [Atom -> Int]
  BY DelKeeps DEF Registry, IsProcess
<1> HIDE DEF n
<1>3. \A b \in Atom : n.fd[b] = IF b = a THEN -1 ELSE m.fd[b]
  BY <1>2
<1>4. Stays(n)
  BY <1>1, <1>3 DEF Stays, Atom
<1> QED BY <1>4 DEF n

LEMMA EndedStays ==
  ASSUME NEW m, Registry(m), Placed(m), Stays(m), NEW a \in Atom, m.fd[a] >= 0
  PROVE  Stays(Ended(m, a))
<1> DEFINE pairs == {<<m.fd[a], FileOf(m, a)>>}
           c == close(m, pairs)
           n == io_del(c, a)
<1>1. Registry(c) /\ c.fd = m.fd
  BY CloseKeeps
<1>2. DOMAIN m = Fields
  BY DEF Registry, IsProcess
<1>3. \A f \in Fd : f # m.fd[a] => c.t[f] = m.t[f]
  BY <1>2, CloseEffect
<1>4. c.t = n.t /\ n.fd = [c.fd EXCEPT ![a] = -1] /\ c.fd \in [Atom -> Int]
  BY <1>1, DelKeeps, DelEffect DEF Registry, IsProcess
<1>5. \A b \in Atom : n.fd[b] = IF b = a THEN -1 ELSE m.fd[b]
  BY <1>1, <1>4
<1>6. Ended(m, a) = n
  BY DEF Ended
<1> HIDE DEF c, n
<1>7. ASSUME NEW b \in {"stdin", "stdout"}, n.fd[b] >= 0
      PROVE  n.t[n.fd[b]] \notin {Closed} \union {RzPipes[k] : k \in 1..6}
  <2>1. b \in Atom /\ b # a /\ n.fd[b] = m.fd[b] /\ m.fd[b] >= 0
    BY <1>5, <1>7 DEF Atom
  <2>2. m.fd[b] # m.fd[a] /\ m.fd[b] \in Fd
    <3>1. m.connections[m.fd[b]] = b /\ m.connections[m.fd[a]] = a
      BY <2>1, RegisteredSlot
    <3>2. m.fd[b] \in Fd
      BY <2>1 DEF Placed
    <3> QED BY <2>1, <3>1, <3>2
  <2>3. m.t[m.fd[b]] \notin {Closed} \union {RzPipes[k] : k \in 1..6}
    BY <2>1 DEF Stays
  <2>4. c.t[m.fd[b]] = m.t[m.fd[b]]
    BY <1>3, <2>2
  <2> QED BY <1>4, <2>1, <2>3, <2>4
<1>8. Stays(n)
  BY <1>7 DEF Stays
<1> QED BY <1>6, <1>8

LEMMA RzRemovedStays ==
  ASSUME NEW m, Registry(m), Table(m), Placed(m), Stays(m)
  PROVE  Stays(RzRemoved(m))
<1> DEFINE m1 == io_del(m, "rzerr")
           m2 == io_del(m1, "rzwrite")
           m3 == io_del(m2, "rzread")
           n == RzRemoved(m)
<1>1. Registry(m1) /\ Stays(m1) /\ m1.t = m.t /\ m1.spec = m.spec
  BY DelKeeps, DelStays, DelTable DEF Atom
<1>2. Keeps(m, m1)
  BY DelTable DEF Atom
<1> HIDE DEF m1
<1>3. Registry(m2) /\ Stays(m2) /\ m2.t = m.t /\ m2.spec = m.spec /\ Table(m2) /\ Placed(m2)
  BY <1>1, <1>2, DelKeeps, DelStays, DelTable DEF Atom, Keeps
<1> HIDE DEF m2
<1>4. Registry(m3) /\ Stays(m3) /\ m3.t = m.t /\ m3.spec = m.spec
  BY <1>3, DelKeeps, DelStays, DelTable DEF Atom
<1> HIDE DEF m3
<1>5. DOMAIN m3 = Fields
  BY <1>4 DEF Registry, IsProcess
<1>6. ASSUME NEW f \in Fd, m.t[f] \notin {Closed} \union {RzPipes[k] : k \in 1..6}
      PROVE  n.t[f] = m.t[f]
  <2> DEFINE pairs == {<<m3.spec.infd, "chstdout.r">>, <<m3.spec.outfd, "chstdin.w">>,
                       <<m3.spec.errfd, "chstderr.r">>}
             c == close(m3, pairs)
  <2>1. m.t[f] \notin {Closed, "chstdout.r", "chstdin.w", "chstderr.r"}
    BY <1>6 DEF RzPipes
  <2>2. \A file \in {"chstdout.r", "chstdin.w", "chstderr.r"} : Noted(m, file) # f
    BY <2>1 DEF Table, Holds
  <2>3. m.spec.infd # f /\ m.spec.outfd # f /\ m.spec.errfd # f
    BY <2>2 DEF Noted
  <2>4. c.t[f] = m3.t[f] /\ DOMAIN c = Fields
    BY <1>4, <1>5, <2>3, CloseEffect
  <2>5. n = [c EXCEPT !.spec = NoRz]
    BY DEF RzRemoved, task_default_destructor, m1, m2, m3
  <2> HIDE DEF c, n
  <2> QED BY <1>4, <2>4, <2>5 DEF Fields
<1>7. \A a \in Atom : n.fd[a] = IF a \in RzAtoms THEN -1 ELSE m.fd[a]
  BY RzRemovedKeeps
<1> HIDE DEF n
<1>8. Stays(n)
  BY <1>6, <1>7 DEF Stays, Atom, RzAtoms, Placed
<1> QED BY <1>8 DEF n

\* What the loop does, a transfer's start and the end of the last task excepted.
LEMMA LoopStays ==
  ASSUME Inv, Tables, Ending, Loop, ~rztask_install, ~RemoveAll, pc \in Looping, pc' \notin Final
  PROVE  Stays(me')
<1>1. /\ Running /\ Registry(me) /\ Table(me) /\ Placed(me) /\ Stays(me) /\ me.fd \in [Atom -> Int]
  BY LoopHolds DEF Ending
<1>2. CASE me' = me
  BY <1>1, <1>2
<1>3. CASE me' = [me EXCEPT !.foreign = @ \union Misused(me, 1, "out")]
  <2>1. me'.t = me.t /\ me'.fd = me.fd
    BY <1>1, <1>3 DEF Registry, IsProcess, Fields
  <2> QED BY <1>1, <2>1 DEF Stays
<1>4. ASSUME NEW m, Keeps(m, m), Stays(m), NEW a \in Atom, NEW n \in MayEnd(m, a)
      PROVE  Keeps(m, n) /\ Stays(n)
  BY <1>4, MayEndTable, EndedStays DEF Keeps, MayEnd
<1>5. Output \in Atom /\ \A a : SinkOf(a) \in Atom
  BY DEF Output, SinkOf, Atom
<1>6. Keeps(me, me)
  BY <1>1, KeepsSelf
<1>7. CASE pipe_auto_read
  <2>1. AtomOf \in Atom
    BY <1>1, <1>7 DEF pipe_auto_read, PipeEvent, AtomOf, Connection, Registry, IsProcess
  <2>2. PICK m \in MayEnd(me, AtomOf) : me' \in MayEnd(m, SinkOf(AtomOf))
    BY <1>7 DEF pipe_auto_read
  <2>3. Keeps(me, m) /\ Stays(m)
    BY <1>1, <1>4, <1>6, <2>1, <2>2
  <2>4. Keeps(m, m)
    BY <2>3, KeepsSelf DEF Keeps
  <2> QED BY <1>4, <1>5, <2>2, <2>3, <2>4
<1>8. CASE pipe_auto_write
  <2> DEFINE b == IF AtomOf = "master" THEN "master" ELSE Output
  <2>1. b \in Atom /\ me' \in MayEnd(me, b)
    BY <1>5, <1>8 DEF pipe_auto_write, Atom
  <2> HIDE DEF b
  <2> QED BY <1>1, <1>4, <1>6, <2>1
<1>9. CASE cherr_proc
  BY <1>1, <1>2, <1>9, DelStays DEF cherr_proc, Atom
<1>10. CASE task_default_sigchild
  <2>1. PICK m \in MayEnd(me, "master") \union {me} :
          /\ Unread => m \in MayEnd(me, "master")
          /\ me' = RzRemoved(IF Unread THEN Ended(m, "rzread") ELSE m)
    <3>1. ~(Unread /\ Useless(opt.inma))
      BY <1>10 DEF task_default_sigchild, Goto, Final
    <3> QED BY <1>10, <3>1 DEF task_default_sigchild, MayEnd
  <2>2. Keeps(me, m) /\ Stays(m)
    BY <1>1, <1>4, <1>6, <2>1 DEF Atom
  <2>3. CASE Unread
    <3>1. me.fd["rzread"] >= 0 /\ m.fd["rzread"] = me.fd["rzread"]
      <4>1. m.fd \in {me.fd, [me.fd EXCEPT !["master"] = -1]}
        BY <1>1, <2>1, MayEndKeeps DEF Atom
      <4> QED BY <1>1, <2>3, <4>1 DEF Unread, Atom
    <3>2. Stays(Ended(m, "rzread")) /\ Keeps(m, Ended(m, "rzread"))
      BY <2>2, <3>1, EndedStays, EndedTable DEF Keeps, Atom
    <3> QED BY <2>1, <2>3, <3>2, RzRemovedStays DEF Keeps
  <2>4. CASE ~Unread
    BY <2>1, <2>2, <2>4, RzRemovedStays DEF Keeps
  <2> QED BY <2>3, <2>4
<1>11. CASE master_idle
  BY <1>2, <1>3, <1>11 DEF master_idle, IdleProc
<1>12. CASE io_wait \/ Crash \/ IgnoredEvent \/ DispatchDone \/ NoSigchild \/ SigchildCleared
  BY <1>2, <1>12 DEF io_wait, Crash, IgnoredEvent, DispatchDone, NoSigchild, SigchildCleared
<1>13. CASE StartFails \/ master_pipe_sigchild
  BY <1>13 DEF StartFails, Exit, Final, master_pipe_sigchild
<1> QED BY <1>7, <1>8, <1>9, <1>10, <1>11, <1>12, <1>13 DEF Loop, Dispatch

\* What is open stays where it is when others are opened.
LEMMA OpenLeaves ==
  ASSUME NEW m, DOMAIN m = Fields, NEW files, DOMAIN files \in SUBSET (1..Room(m))
  PROVE  \A f \in Fd : m.t[f] # Closed => open(m, files).t[f] = m.t[f]
<1> DEFINE o == open(m, files)
<1>1. \A k \in DOMAIN files : m.t[Place(m, k)] = Closed
  BY RoomIsNat, PlaceFacts
<1>2. \A f \in Fd : (\A k \in DOMAIN files : Place(m, k) # f) => o.t[f] = m.t[f]
  BY DEF open, Fields
<1> HIDE DEF o
<1> QED BY <1>1, <1>2 DEF o

(***************************************************************************)
(* pipe() fails only when five descriptors at most are free, of as many as *)
(* select() can watch or more.                                             *)
(***************************************************************************)
LEMMA FailEnding ==
  ASSUME FD_SETSIZE <= MaxFd + 1, Inv, Tables, Sound, Ending, StartFails
  PROVE  Ending'
<1>1. pc = "dispatch" /\ head = "echo" /\ pc' = "exited"
  BY DEF StartFails, Announced, Take, Exit
<1>2. /\ Running /\ Registry(me) /\ Table(me) /\ DOMAIN me = Fields /\ me.spec = NoRz
      /\ me.conn_fd \in Int /\ me.err = "none"
  BY <1>1, LoopHolds DEF Looping, Ending
<1>3. me'.err = "none"
  <2>1. Kin(me, me)
    BY DEF Kin, Sound
  <2>2. Kin(me, me')
    BY <2>1, OpenKin DEF Sound, StartFails
  <2> QED BY <1>2, <2>2 DEF Kin
<1>4. code' \notin 77..79 \/ (Room(me) < 6 /\ me' = open(me, SubSeq(RzPipes, 1, 2 * (Room(me) \div 2))))
  BY DEF StartFails, Exit
<1>5. CASE code' \notin 77..79
  BY <1>1, <1>3, <1>5, EndingKept DEF Running, Final
<1>6. CASE Room(me) < 6 /\ me' = open(me, SubSeq(RzPipes, 1, 2 * (Room(me) \div 2)))
  <2> DEFINE r == Room(me)
             files == SubSeq(RzPipes, 1, 2 * (r \div 2))
  <2>1. r \in Nat /\ r < 6
    BY <1>6, RoomIsNat
  <2>2. DOMAIN files \in SUBSET (1..r)
    <3> HIDE DEF r
    <3>1. r \in {0, 1, 2, 3, 4, 5}
      BY <2>1
    <3>2. 2 * (r \div 2) \in 0..r /\ 2 * (r \div 2) \in 0..6
      BY <3>1
    <3> DEFINE c == 2 * (r \div 2)
    <3>3. c \in 0..r /\ c \in 0..6
      BY <3>2
    <3> HIDE DEF c
    <3>4. DOMAIN SubSeq(RzPipes, 1, c) = 1..c
      BY <3>3 DEF RzPipes
    <3>5. DOMAIN SubSeq(RzPipes, 1, c) \in SUBSET (1..r)
      BY <2>1, <3>3, <3>4
    <3> QED BY <3>5 DEF c
  <2>3. \A f \in Fd : me.t[f] # Closed => me'.t[f] = me.t[f]
    <3> HIDE DEF files
    <3> QED BY <1>2, <1>6, <2>2, OpenLeaves DEF files
  <2>4. IsFiniteSet(Free(me)) /\ Cardinality(Free(me)) <= 5
    BY <2>1, SubsetOfFd DEF Free, Room
  <2>5. \A g \in Fd : g < MaxFd + 1 => me.t[g] # Closed \/ g \in Free(me)
    BY DEF Free
  <2>6. MaxFd + 1 \in Int /\ MaxFd + 1 >= FD_SETSIZE /\ MaxFd + 1 <= MaxFd + 1
    BY MaxFdAssumption, FdSetAssumption
  <2>7. Cardinality(Givens(me)) + 9 > FD_SETSIZE
    BY <1>2, <2>4, <2>5, <2>6, CrowdedBelow
  <2>8. Cardinality(Givens(me')) + 9 > FD_SETSIZE
    BY <2>3, <2>7, GivensMore
  <2>9. Crowded'
    BY <2>8 DEF Givens, Crowded
  <2> QED BY <1>1, <2>9 DEF Ending, EndCause, Running, Final
<1> QED BY <1>4, <1>5, <1>6

\* No atom is where nothing is open.
LEMMA NothingThere ==
  ASSUME NEW m, Registry(m), Placed(m), Stays(m), NEW f \in Fd, m.t[f] = Closed
  PROVE  Connection(m, f) = NoAtom
<1> SUFFICES ASSUME Connection(m, f) # NoAtom PROVE FALSE
  OBVIOUS
<1>1. PICK a \in Atom : m.fd[a] = f
  BY DEF Connection, Registry, IsProcess, Matched
<1>2. f >= 0
  BY MaxFdAssumption DEF Fd
<1>3. m.t[f] = FileOf(m, a) \/ a \in {"stdin", "stdout"}
  BY <1>1, <1>2 DEF Placed
<1>4. CASE a \in {"stdin", "stdout"}
  BY <1>1, <1>2, <1>4 DEF Stays
<1>5. CASE m.t[f] = FileOf(m, a)
  BY <1>5 DEF FileOf, Closed
<1> QED BY <1>3, <1>4, <1>5

(***************************************************************************)
(* rztask_install gives up where an end of a pipe is past the end of       *)
(* connections[]: five of the others at most are below it.                 *)
(***************************************************************************)
LEMMA InstallEnding ==
  ASSUME Inv, Tables, Sound, Ending, rztask_install
  PROVE  Ending'
<1> DEFINE end == RzFds(me)
           o == open(me, RzPipes)
           c == Ends(o, end, ChildEnds)
           spec == [infd |-> end[3], outfd |-> end[2], errfd |-> end[5]]
           parent == [c EXCEPT !.spec = spec]
           m1 == io_add(parent, "rzread", end[3])
           m2 == io_add(m1, "rzwrite", end[2])
           m3 == io_add(m2, "rzerr", end[5])
<1>1. pc = "dispatch" /\ head = "echo" /\ Room(me) >= 6 /\ AtomOf = "master"
  BY DEF rztask_install, Announced, Take
<1>2. /\ Running /\ Registry(me) /\ Table(me) /\ Placed(me) /\ DOMAIN me = Fields /\ me.spec = NoRz
      /\ me.conn_fd \in Int /\ me.err = "none" /\ Stays(me) /\ Sane(me)
  BY <1>1, LoopHolds DEF Looping, Ending, Sound
<1>3. /\ \A k \in 1..6 : end[k] \in Fd /\ me.t[end[k]] = Closed
      /\ \A k, j \in 1..6 : end[k] = end[j] => k = j
      /\ \A f \in Fd : (\A k \in 1..6 : end[k] # f) => o.t[f] = me.t[f]
      /\ DOMAIN o = Fields /\ SameAtoms(me, o)
  BY <1>1, <1>2, PipesOpened DEF Sane
<1>4. RzInstalled(o, end) = m3 /\ Sane(m1) /\ Sane(m2) /\ Sane(m3) /\ Kin(me, parent)
  BY <1>1, <1>2, InstallChain
<1>5. /\ DOMAIN c = Fields /\ SameAtoms(o, c)
      /\ \A f \in Fd : (\A k \in 1..6 : end[k] # f) => c.t[f] = o.t[f]
  <2> HIDE DEF o, end
  <2>1. \A k \in ChildEnds : k \in 1..6
    BY DEF ChildEnds
  <2>2. /\ DOMAIN c = Fields /\ SameAtoms(o, c)
        /\ \A f \in Fd : c.t[f] = IF \E k \in ChildEnds : end[k] = f THEN Closed ELSE o.t[f]
    BY <1>3, EndsEffect
  <2> HIDE DEF c
  <2> QED BY <2>1, <2>2
<1>6. \/ m3.err = "none" /\ head' = "rz" /\ pc' = pc /\ me' \in {m3, Ended(m3, "rzwrite")}
      \/ m3.err # "none" /\ pc' \in {"exited", "overrun"} /\ me' = m3
  <2>1. LET n == RzInstalled(o, end) IN
        \/ n.err = "none" /\ head' = "rz" /\ pc' = pc /\ me' \in {n, Ended(n, "rzwrite")}
        \/ n.err # "none" /\ pc' \in {"exited", "overrun"} /\ me' = n
    BY DEF rztask_install, Bails, Exit, Goto
  <2> HIDE DEF o, end, m3
  <2> QED BY <1>4, <2>1
<1>7. /\ parent.connections = me.connections /\ parent.fd = me.fd /\ parent.err = "none"
      /\ parent.t = c.t /\ Sane(parent)
  <2>1. parent.err = me.err /\ Sane(parent)
    BY <1>4 DEF Kin
  <2> HIDE DEF o, end, c, spec
  <2>2. /\ parent.connections = c.connections /\ parent.fd = c.fd /\ parent.t = c.t
    BY <1>5 DEF Fields
  <2>3. c.connections = me.connections /\ c.fd = me.fd
    BY <1>3, <1>5 DEF SameAtoms
  <2> QED BY <1>2, <2>1, <2>2, <2>3
<1>8. m3.t = parent.t /\ \A a \in Atom \ RzAtoms : m3.fd[a] = me.fd[a]
  <2>1. \A k \in 1..6 : end[k] \in Int
    BY <1>3, MaxFdAssumption DEF Fd
  <2>2. end[3] \in Int /\ end[2] \in Int /\ end[5] \in Int
    <3> HIDE DEF end
    <3> QED BY <2>1
  <2> HIDE DEF parent, end
  <2>3. m1.t = parent.t /\ \A a \in Atom \ RzAtoms : m1.fd[a] = parent.fd[a]
    BY <1>7, <2>2, AddEffect, AddedPlaces DEF Sane, Atom, RzAtoms
  <2> HIDE DEF m1
  <2>4. m2.t = m1.t /\ \A a \in Atom \ RzAtoms : m2.fd[a] = m1.fd[a]
    BY <1>4, <2>2, AddEffect, AddedPlaces DEF Sane, Atom, RzAtoms
  <2> HIDE DEF m2
  <2>5. m3.t = m2.t /\ \A a \in Atom \ RzAtoms : m3.fd[a] = m2.fd[a]
    BY <1>4, <2>2, AddEffect, AddedPlaces DEF Sane, Atom, RzAtoms
  <2> QED BY <1>7, <2>3, <2>4, <2>5
<1>9. \A f \in Fd : me.t[f] # Closed => m3.t[f] = me.t[f]
  <2> HIDE DEF end, o, c, parent, m3
  <2> QED BY <1>3, <1>5, <1>7, <1>8
<1>10. Stays(m3)
  <2> HIDE DEF m3
  <2> QED BY SMTT(30), <1>2, <1>8, <1>9 DEF Stays, Placed, Atom, RzAtoms
<1>11. CASE m3.err = "none"
  <2>1. me.fd["master"] >= 0
    <3>1. Connection(me, Turn) = "master" /\ Connection(me, Turn) # NoAtom
      BY <1>1, NoAtomAssumption DEF AtomOf, Atom
    <3>2. Turn \in Slot /\ me.connections[Turn] = "master"
      BY <3>1 DEF Connection
    <3>3. me.fd["master"] = Turn
      BY <1>2, <3>1, <3>2 DEF Registry, Matched
    <3> QED BY <3>2, <3>3 DEF Slot
  <2>2. \A a \in RzAtoms : me.fd[a] < 0
    BY <1>1, <1>2 DEF Inv
  <2>3. Registry(m3) /\ Placed(m3) /\ (m3.err = "none" => m3.fd["rzwrite"] >= 0)
    BY <1>1, <1>2, <1>4, <2>1, <2>2, RzInstalledTable
  <2> HIDE DEF m3
  <2>4. Stays(Ended(m3, "rzwrite")) /\ Kin(m3, Ended(m3, "rzwrite"))
    BY <1>4, <1>10, <1>11, <2>3, EndedStays, MayEndKin DEF Atom
  <2>5. me'.err = "none" /\ Stays(me') /\ pc' = "dispatch"
    BY <1>1, <1>6, <1>10, <1>11, <2>4 DEF Kin
  <2> QED BY <2>5, EndingKept
<1>12. CASE m3.err # "none"
  <2>1. \E k \in 1..6 : end[k] >= FD_SETSIZE
    <3>1. \A k \in 1..6 : Connection(parent, end[k]) = NoAtom
      <4> HIDE DEF end, parent
      <4> QED BY <1>2, <1>3, <1>7, NothingThere DEF Connection
    <3>2. end[3] \in Fd /\ end[2] \in Fd /\ end[5] \in Fd /\ end[3] # end[2] /\ end[3] # end[5] /\ end[2] # end[5]
      <4> HIDE DEF end
      <4> QED BY <1>3
    <3>3. /\ Connection(parent, end[3]) = NoAtom /\ Connection(parent, end[2]) = NoAtom
          /\ Connection(parent, end[5]) = NoAtom
      <4> HIDE DEF end, parent
      <4> QED BY <3>1
    <3> SUFFICES ASSUME ~(end[3] >= FD_SETSIZE), ~(end[2] >= FD_SETSIZE), ~(end[5] >= FD_SETSIZE)
                 PROVE  FALSE
      <4>1. 3 \in 1..6 /\ 2 \in 1..6 /\ 5 \in 1..6
        OBVIOUS
      <4> HIDE DEF end
      <4> QED BY <4>1
    <3> HIDE DEF end, parent
    <3>4. m1.err = "none" /\ \A g : g # end[3] => Connection(m1, g) = Connection(parent, g)
      BY <1>7, <3>2, <3>3, AddFails DEF Atom
    <3> HIDE DEF m1
    <3>5. m2.err = "none" /\ \A g : g # end[2] => Connection(m2, g) = Connection(m1, g)
      BY <1>4, <3>2, <3>3, <3>4, AddFails DEF Atom
    <3> HIDE DEF m2
    <3>6. Connection(m2, end[5]) = NoAtom
      BY <3>2, <3>3, <3>4, <3>5
    <3>7. m3.err = "none"
      BY <1>4, <3>2, <3>5, <3>6, AddFails DEF Atom
    <3> QED BY <1>12, <3>7
  <2>2. PICK k \in 1..6 : end[k] >= FD_SETSIZE
    BY <2>1
  <2>3. end[k] = Place(me, k) /\ end[k] \in Int /\ end[k] <= MaxFd + 1
    BY <1>3, MaxFdAssumption DEF RzFds, Fd
  <2> DEFINE X == {g \in Free(me) : g < Place(me, k)}
  <2>4. k \in Nat \ {0} /\ k <= Room(me)
    BY <1>1, RoomIsNat
  <2>5. /\ IsFiniteSet(X) /\ Cardinality(X) = k - 1
        /\ \A g \in Fd : g < Place(me, k) => me.t[g] # Closed \/ g \in X
    BY <2>4, BelowPlace
  <2>6. Cardinality(X) <= 5
    BY <2>5
  <2> HIDE DEF X, end, m3
  <2>7. Cardinality(Givens(me)) + 9 > FD_SETSIZE
    BY <1>2, <2>2, <2>3, <2>5, <2>6, CrowdedBelow
  <2>8. Cardinality(Givens(me')) + 9 > FD_SETSIZE
    BY <1>6, <1>9, <1>12, <2>7, GivensMore
  <2>9. Crowded'
    BY <2>8 DEF Givens, Crowded
  <2>10. pc' \in {"exited", "overrun"}
    BY <1>6, <1>12
  <2> QED BY <2>9, <2>10 DEF Ending, EndCause, Running, Final
<1> QED BY <1>11, <1>12

LEMMA LoopEnding ==
  ASSUME FD_SETSIZE <= MaxFd + 1, Inv, Tables, Sound, Ending, Loop
  PROVE  Ending'
<1>1. pc \in Looping
  BY DEF Loop, Dispatch, master_idle, io_wait, Crash, pipe_auto_read, pipe_auto_write, IgnoredEvent,
         cherr_proc, StartFails, rztask_install, DispatchDone, NoSigchild, task_default_sigchild,
         master_pipe_sigchild, SigchildCleared, Announced, Take, Looping
<1>2. CASE StartFails \/ rztask_install
  BY <1>2, FailEnding, InstallEnding
<1>3. CASE ~StartFails /\ ~rztask_install
  <2>1. me'.err = "none"
    BY <1>1, <1>3, LoopKin, LoopHolds DEF Sound, Kin, Ending
  <2>2. CASE RemoveAll
    <3>1. pc' = "exited" /\ code' = 0
      BY <2>2 DEF RemoveAll, Exit
    <3> QED BY <2>1, <3>1, EndingKept DEF Running, Final
  <2>3. CASE ~RemoveAll
    <3>1. pc' \in {"crashed"} \union Looping
      BY <1>3, <2>3 DEF Loop, Dispatch, master_idle, io_wait, Crash, pipe_auto_read, pipe_auto_write,
           IgnoredEvent, cherr_proc, DispatchDone, NoSigchild, task_default_sigchild,
           master_pipe_sigchild, SigchildCleared, Take, Goto, Looping, Following
    <3>2. CASE pc' = "crashed"
      <4>1. opt' = opt
        BY <1>3, <2>3 DEF Loop, Dispatch, master_idle, io_wait, Crash, pipe_auto_read, pipe_auto_write,
           IgnoredEvent, cherr_proc, DispatchDone, NoSigchild, task_default_sigchild,
           master_pipe_sigchild, SigchildCleared, Settled, setup
      <4>2. CASE Crash
        BY <2>1, <3>2, <4>1, <4>2, EndingKept DEF Crash, Useless, FifoOf, Running, Final
      <4>3. CASE task_default_sigchild
        BY <2>1, <3>2, <4>1, <4>3, EndingKept DEF task_default_sigchild, Useless, Goto, Running, Final
      <4> QED BY <1>3, <2>3, <3>2, <4>2, <4>3 DEF Loop, Dispatch, master_idle, io_wait, pipe_auto_read,
           pipe_auto_write, IgnoredEvent, cherr_proc, DispatchDone, NoSigchild, Take,
           master_pipe_sigchild, SigchildCleared, Goto, Following
    <3>3. CASE pc' \in Looping
      <4>1. Stays(me')
        BY <1>1, <1>3, <2>3, <3>3, LoopStays DEF Looping, Final
      <4> QED BY <2>1, <3>3, <4>1, EndingKept DEF Looping
    <3> QED BY <3>1, <3>2, <3>3
  <2> QED BY <2>2, <2>3
<1> QED BY <1>2, <1>3

LEMMA NextEnding ==
  ASSUME FD_SETSIZE <= MaxFd + 1, Inv, Inv', Tables, Tables', Sound, Ending, [Next]_vars
  PROVE  Ending'
<1>1. CASE process_args \/ io_socket_connect_fd \/ preflight \/ openpty_fails
  BY <1>1, StartEnding
<1>2. CASE bgio_start
  BY <1>2, ForkEnding
<1>3. CASE master_setup
  BY <1>3, SetupTables, SetupEnding
<1>4. CASE Loop
  BY <1>4, LoopEnding
<1>5. CASE ShellExit \/ RzExit \/ RemoveDir \/ Done \/ UNCHANGED vars
  <2>1. UNCHANGED <<pc, code, opt, me>>
    BY <1>5 DEF ShellExit, RzExit, RemoveDir, Done, vars, setup
  <2> QED BY <2>1 DEF Ending, EndCause, Crowded, Stays, Lowest, Running
<1> QED BY <1>1, <1>2, <1>3, <1>4, <1>5 DEF Next

(***************************************************************************)
(* rzh runs out of descriptors, or of places to register them, only for    *)
(* what it was given, in any number of transfers: as long as it may open   *)
(* as many as select() can watch.                                          *)
(***************************************************************************)
THEOREM ProcessEndCause == ASSUME FD_SETSIZE <= MaxFd + 1 PROVE Spec => []EndCause
<1>1. Init => Inv /\ Tables /\ Sound /\ Ending
  BY InitInv, InitTables, InitSound, InitEnding
<1>2. Inv /\ [Next]_vars => Inv'
  BY NextInv
<1>3. Inv /\ Inv' /\ Tables /\ [Next]_vars => Tables'
  BY NextTables
<1>4. Sound /\ [Next]_vars => Sound'
  BY NextSound
<1>5. Inv /\ Inv' /\ Tables /\ Tables' /\ Sound /\ Ending /\ [Next]_vars => Ending'
  BY NextEnding
<1>6. Ending => EndCause
  BY DEF Ending
<1> QED BY <1>1, <1>2, <1>3, <1>4, <1>5, <1>6, PTL DEF Spec

-----------------------------------------------------------------------------
\* An int holds a port.
LEMMA PortFits == ASSUME NEW n \in 1..PortMax PROVE ToInt(n) = n
<1>1. n \in Nat /\ n <= IntMax /\ IntMax \in Nat
  BY StartupAssumption
<1>2. Ints \in Nat /\ Ints > n /\ IntMax + 1 > n
  BY <1>1 DEF Ints
<1>3. n % Ints = n
  BY <1>1, <1>2
<1> QED BY <1>1, <1>3 DEF ToInt

\* The command that is run for what was asked for so far.
AskedCommand(cmd, ws) == Runs(cmd, IF ws = <<>> THEN Words(DefaultCommand) ELSE ws)

(***************************************************************************)
(* AsAsked, and what it rests on: while there are arguments, a command has *)
(* been parsed just if words were asked for; rzh changes to another        *)
(* directory only to end there.                                            *)
(***************************************************************************)
Asks ==
  /\ argv \in Seq(Argument) /\ DOMAIN opt = DOMAIN Default /\ opt.dir \in BOOLEAN
  /\ pc = "args" => (rzcmd = NoCommand <=> wanted = <<>>) /\ rzat = None
  /\ rzcmd # NoCommand => AskedCommand(rzcmd, wanted)
  /\ Running => cwd = "home"
  /\ rzat # None /\ dldir => rzat.dir = IF opt.dir THEN "dldir" ELSE "home"
  /\ asked \in 1..PortMax => opt.port = asked
  /\ asked = None => opt.port = 0
  /\ asked \in 1..PortMax /\ pc \notin {"args", "connect", "exited"} => ~Pty(me)
  /\ ~Pty(me) => asked # None

LEMMA InitAsks == Init => Asks
<1> SUFFICES ASSUME Init PROVE Asks
  OBVIOUS
<1>1. PICK i \in Invocations : me = Newborn(i.fds) /\ argv = i.argv
  BY DEF Init
<1>2. argv \in Seq(Argument)
  BY <1>1, StartupAssumption
<1>3. Pty(me)
  BY <1>1 DEF Newborn, Pty
<1>4. /\ opt = Default /\ rzcmd = NoCommand /\ wanted = <<>> /\ asked = None /\ rzat = None
      /\ cwd = "home"
  BY DEF Init
<1>5. asked \notin 1..PortMax
  <2>1. NULL \notin 1..PortMax
    BY ArgumentAssumption, StartupAssumption
  <2> QED BY <1>4, <2>1 DEF None
<1>6. opt.dir = FALSE /\ opt.port = 0
  BY <1>4 DEF Default
<1> QED BY <1>2, <1>3, <1>4, <1>5, <1>6 DEF Asks

\* What is done with an argument is known of it.
LEMMA ArgumentTaken ==
  ASSUME argv \in Seq(Argument), argv # <<>>
  PROVE  Head(argv) \in Argument /\ Tail(argv) \in Seq(Argument)
OBVIOUS

\* A step that asks for nothing and does not return to the arguments.
LEMMA AsksKept ==
  ASSUME Asks, UNCHANGED setup, dldir' \in {dldir, FALSE}, me'.conn_fd = me.conn_fd,
         \/ pc' = pc
         \/ pc \notin {"args", "connect", "exited"} /\ pc' \notin {"args", "connect"},
         Running' => Running /\ cwd' = cwd,
         \/ rzat' = rzat
         \/ pc' # "args" /\ (dldir' => rzat'.dir = IF opt.dir THEN "dldir" ELSE "home")
  PROVE  Asks'
<1>1. Pty(me') <=> Pty(me)
  BY DEF Pty
<1>2. UNCHANGED <<argv, opt, rzcmd, wanted, asked>>
  BY DEF setup
<1>3. pc' = "args" => pc = "args" /\ rzat' = rzat
  OBVIOUS
<1>4. rzat' # None /\ dldir' => rzat'.dir = IF opt.dir THEN "dldir" ELSE "home"
  BY DEF Asks
<1>5. pc' \notin {"args", "connect", "exited"} => pc \notin {"args", "connect", "exited"}
  OBVIOUS
<1>6. Running' => cwd' = "home"
  BY DEF Asks
<1> QED BY <1>1, <1>2, <1>3, <1>4, <1>5, <1>6 DEF Asks

\* One argument, and the end of them.
LEMMA ArgsAsks == ASSUME Sound, Asks, process_args PROVE Asks'
<1> USE DEF Option, Elsewhere, Proceed, Refuse, Exit, Goto, children, None
<1>0. /\ pc = "args" /\ Running /\ rzat' = rzat /\ rzat = None /\ dldir' = dldir /\ cwd' = cwd
      /\ pc' \in {"args", "exited", "connect"}
  BY DEF process_args, RzOption, ConnectOption, LogOption, FifoOption, QuietOption, Directory,
         LastOption, ArgsDone, Asks, Running, Final
<1>1. me'.conn_fd = me.conn_fd
  <2>1. CASE LogOption
    <3> DEFINE m0 == close(me, {<<me.log_fd, "log">>})
               m == log_close(me)
               o == open(m, <<"log">>)
    <3>1. Kin(me, m0)
      BY CloseKin DEF Sound
    <3>2. m = [m0 EXCEPT !.log_fd = -1]
      BY DEF log_close
    <3> HIDE DEF m0, m
    <3>3. Sane(m) /\ m.conn_fd = me.conn_fd
      BY <3>1, <3>2 DEF Kin, Sane, Fields
    <3>4. Kin(m, o)
      BY <3>3, OpenKin
    <3>5. me' = m \/ me' = [o EXCEPT !.log_fd = Place(m, 1)]
      BY <2>1 DEF LogOption, m
    <3> HIDE DEF o
    <3> QED BY <3>3, <3>4, <3>5 DEF Kin, Sane, Fields
  <2>2. CASE ~LogOption
    BY <2>2 DEF process_args, RzOption, ConnectOption, FifoOption, QuietOption, Directory,
                LastOption, ArgsDone
  <2> QED BY <2>1, <2>2
<1>2. Pty(me') <=> Pty(me)
  BY <1>1 DEF Pty
<1>3. argv' \in Seq(Argument)
  <2>1. argv' = argv \/ (argv # <<>> /\ argv' = Tail(argv))
    BY DEF process_args, RzOption, ConnectOption, LogOption, FifoOption, QuietOption, Directory,
           LastOption, ArgsDone, setup
  <2> QED BY <2>1, ArgumentTaken DEF Asks
<1>4. ASSUME UNCHANGED <<rzcmd, wanted, asked>>, DOMAIN opt' = DOMAIN Default, opt'.dir \in BOOLEAN,
             opt'.port = opt.port
      PROVE  Asks'
  BY <1>0, <1>2, <1>3, <1>4 DEF Asks
<1>5. CASE LogOption \/ LastOption
  BY <1>4, <1>5 DEF LogOption, LastOption, setup, Asks
<1>6. CASE FifoOption \/ QuietOption \/ Directory
  <2>1. PICK k \in {"inma", "maou", "quiet", "dir"} : \E v : /\ opt' = opt \/ opt' = [opt EXCEPT ![k] = v]
                                                             /\ k = "dir" => v = TRUE
    BY <1>6 DEF FifoOption, QuietOption, Directory
  <2>2. DOMAIN opt' = DOMAIN Default /\ opt'.dir \in BOOLEAN /\ opt'.port = opt.port
    BY <2>1 DEF Asks, Default
  <2>3. UNCHANGED <<rzcmd, wanted, asked>>
    BY <1>6 DEF FifoOption, QuietOption, Directory
  <2> QED BY <1>4, <2>2, <2>3
<1>7. CASE RzOption
  <2> DEFINE s == Head(argv).s
  <2>1. /\ rzcmd' = cmd_parse(rzcmd, s) /\ wanted' = IF Words(s) = <<>> THEN wanted ELSE Words(s)
        /\ argv # <<>> /\ Head(argv).opt = "rz" /\ UNCHANGED <<opt, asked>>
    BY <1>7 DEF RzOption
  <2>2. s \in Seq(Char)
    BY <2>1, ArgumentTaken, ArgumentAssumption DEF Asks
  <2> HIDE DEF s
  <2>3. CASE Words(s) = <<>>
    <3>1. UNCHANGED <<rzcmd, wanted, opt, asked>>
      BY <2>1, <2>2, <2>3, CommandWords
    <3> QED BY <1>4, <3>1 DEF Asks
  <2>4. CASE Words(s) # <<>>
    <3>1. wanted' = Words(s) /\ wanted' # <<>> /\ Runs(rzcmd', wanted') /\ rzcmd' # NoCommand
      BY <2>1, <2>2, <2>4, CommandWords
    <3>2. AskedCommand(rzcmd', wanted')
      BY <3>1 DEF AskedCommand
    <3> QED BY <1>0, <1>2, <1>3, <2>1, <3>1, <3>2 DEF Asks
  <2> QED BY <2>3, <2>4
<1>8. CASE ConnectOption
  <2> DEFINE arg == Head(argv).arg
             part == PortPart(arg)
  <2>1. /\ argv # <<>> /\ Head(argv).opt = "connect" /\ UNCHANGED <<rzcmd, wanted>>
        /\ \/ UNCHANGED <<opt, asked>>
           \/ /\ opt' = [io_socket_parse(opt, arg) EXCEPT !.addr = TRUE]
              /\ asked' = IF part.kind = "number" THEN part.n ELSE asked
    BY <1>8 DEF ConnectOption
  <2>2. part.kind = "number" => part.n \in Int
    <3>1. Head(argv) \in Argument
      BY <2>1, ArgumentTaken DEF Asks
    <3>2. \A p \in {arg.left, arg.right} : p.kind = "number" => p.n \in Int
      BY <2>1, <3>1, ArgumentAssumption
    <3>3. part \in {arg.left, arg.right} \/ part = [kind |-> "empty"]
      BY DEF PortPart
    <3> HIDE DEF part, arg
    <3> QED BY <3>2, <3>3
  <2>3. CASE UNCHANGED <<opt, asked>>
    BY <1>4, <2>1, <2>3 DEF Asks
  <2>4. CASE /\ opt' = [io_socket_parse(opt, arg) EXCEPT !.addr = TRUE]
             /\ asked' = IF part.kind = "number" THEN part.n ELSE asked
    <3>1. opt' = [opt EXCEPT !.host = IF AddressPart(arg).kind = "host" THEN "host" ELSE @,
                             !.port = IF part.kind = "number" THEN ToInt(part.n) ELSE @,
                             !.addr = TRUE]
      BY <2>4 DEF io_socket_parse
    <3> HIDE DEF part, arg
    <3>2. /\ DOMAIN opt' = DOMAIN Default /\ opt'.dir = opt.dir
          /\ opt'.port = IF part.kind = "number" THEN ToInt(part.n) ELSE opt.port
      BY <3>1 DEF Asks, Default
    <3>3. CASE part.kind = "number"
      <4>1. asked' = part.n /\ opt'.port = ToInt(part.n) /\ part.n \in Int
        BY <2>2, <2>4, <3>2, <3>3
      <4>2. asked' # None
        BY <4>1, ArgumentAssumption
      <4>3. asked' \in 1..PortMax => opt'.port = asked'
        BY <4>1, PortFits
      <4> QED BY <1>0, <1>2, <1>3, <2>1, <3>2, <4>2, <4>3 DEF Asks
    <3>4. CASE part.kind # "number"
      BY <1>4, <2>1, <2>4, <3>2, <3>4 DEF Asks
    <3> QED BY <3>3, <3>4
  <2> QED BY <2>1, <2>3, <2>4
<1>9. CASE ArgsDone
  <2>1. /\ UNCHANGED <<opt, wanted, asked>>
        /\ rzcmd' = rzcmd \/ (rzcmd = NoCommand /\ rzcmd' = cmd_parse(rzcmd, DefaultCommand))
        /\ pc' \in {"exited", "connect"}
    BY <1>9 DEF ArgsDone
  <2>2. CASE rzcmd' = rzcmd
    BY <1>4, <2>1, <2>2 DEF Asks
  <2>3. CASE rzcmd = NoCommand /\ rzcmd' = cmd_parse(rzcmd, DefaultCommand)
    <3>1. wanted = <<>>
      BY <1>0, <2>3 DEF Asks
    <3>2. rzcmd' # NoCommand => Runs(rzcmd', Words(DefaultCommand))
      BY <2>3, CommandWords, StartupAssumption
    <3>3. rzcmd' # NoCommand => AskedCommand(rzcmd', wanted')
      BY <2>1, <3>1, <3>2 DEF AskedCommand
    <3> QED BY <1>0, <1>2, <1>3, <2>1, <3>3 DEF Asks
  <2> QED BY <2>1, <2>2, <2>3
<1> QED BY <1>5, <1>6, <1>7, <1>8, <1>9 DEF process_args

\* A port that was asked for is connected to, or rzh ends.
LEMMA ConnectAsks == ASSUME Sound, Asks, io_socket_connect_fd PROVE Asks'
<1> USE DEF Elsewhere, Exit, Goto, children, None
<1>0. /\ pc = "connect" /\ Running /\ UNCHANGED setup /\ rzat' = rzat /\ dldir' = dldir /\ cwd' = cwd
  BY DEF io_socket_connect_fd, Running, Final
<1>1. CASE pc' = "exited" /\ me' = me
  BY <1>0, <1>1 DEF Asks, setup, Running, Final, Pty
<1>2. CASE opt.port <= 0 /\ pc' = "preflight" /\ me' = me
  <2>1. asked \notin 1..PortMax
    BY <1>2, StartupAssumption DEF Asks
  <2> QED BY <1>0, <1>2, <2>1 DEF Asks, setup, Pty
<1>3. CASE /\ ~(opt.port <= 0) /\ Room(me) > 0 /\ pc' = "preflight"
           /\ me' = [open(me, <<"socket">>) EXCEPT !.conn_fd = Place(me, 1)]
  <2> DEFINE o == open(me, <<"socket">>)
             p == Place(me, 1)
  <2>1. p \in Fd
    BY <1>3, PlaceIsFd, RoomIsNat
  <2>2. "conn_fd" \in DOMAIN o
    BY OpenKin DEF Sound, Kin, Sane, Fields
  <2> HIDE DEF o, p
  <2>3. me'.conn_fd = p
    BY <1>3, <2>2 DEF o, p
  <2>4. ~Pty(me')
    BY <2>1, <2>3, MaxFdAssumption DEF Pty, Fd
  <2>5. asked # None
    BY <1>3 DEF Asks
  <2> QED BY <1>0, <1>3, <2>4, <2>5 DEF Asks, setup
<1> QED BY <1>1, <1>2, <1>3 DEF io_socket_connect_fd

\* The checks, the pty and the atoms of the master and of the echo task.
LEMMA StartAsks ==
  ASSUME Sound, Asks, preflight \/ openpty_fails \/ bgio_start \/ master_setup
  PROVE  Asks'
<1> USE DEF Elsewhere, Exit, Goto, children, place, setup, None
<1>1. /\ UNCHANGED <<argv, opt, rzcmd, wanted, asked, rzat, dldir>>
      /\ pc \in {"preflight", "setup", "install"}
      /\ pc' \in {"exited", "setup", "killed", "install", "overrun", "idle"}
      /\ pc' # "exited" => cwd' = cwd
  BY DEF preflight, openpty_fails, bgio_start, master_setup, Install, Bails
<1>2. me'.conn_fd = me.conn_fd
  <2>1. CASE preflight \/ openpty_fails
    BY <2>1 DEF preflight, openpty_fails
  <2>2. CASE bgio_start
    <3> DEFINE o == open(me, <<"ptm", "pts">>)
    <3>1. me' = [o EXCEPT !.st_master_fd = Place(me, 1), !.st_slave_fd = Place(me, 2)]
      BY <2>2 DEF bgio_start, Openpty
    <3>2. Kin(me, o)
      BY OpenKin DEF Sound
    <3> HIDE DEF o
    <3> QED BY <3>1, <3>2 DEF Kin, Sane, Fields
  <2>3. CASE master_setup
    <3> DEFINE fd == IF Pty(me) THEN me.st_master_fd ELSE me.conn_fd
    <3>1. Sane(me) /\ fd \in Int
      BY MaxFdAssumption DEF Sound, Sane, Fd
    <3>2. me' \in {io_add(me, "master", fd),
                   io_add(io_add(io_add(me, "master", fd), "stdin", 0), "stdout", 1)}
      BY <2>3 DEF master_setup
    <3> HIDE DEF fd
    <3>3. CASE me' = io_add(me, "master", fd)
      BY <3>1, <3>3, AddSane DEF Atom
    <3>4. CASE me' = io_add(io_add(io_add(me, "master", fd), "stdin", 0), "stdout", 1)
      <4>1. {"master", "stdin", "stdout"} \subseteq Atom
        BY DEF Atom
      <4> QED BY <3>1, <3>4, <4>1, AddedThrice
    <3> QED BY <3>2, <3>3, <3>4
  <2> QED BY <2>1, <2>2, <2>3
<1>3. Running' => Running /\ cwd' = cwd
  BY <1>1 DEF Running, Final
<1>4. pc \notin {"args", "connect", "exited"} /\ pc' \notin {"args", "connect"}
  BY <1>1
<1> QED BY <1>1, <1>2, <1>3, <1>4, AsksKept

LEMMA LoopAsks == ASSUME Sound, Asks, Loop PROVE Asks'
<1>0. /\ pc \in Looping /\ pc' \notin {"args", "connect"} /\ UNCHANGED <<setup, cwd, dldir>>
  BY DEF Loop, Dispatch, master_idle, io_wait, Crash, pipe_auto_read, pipe_auto_write, IgnoredEvent,
         cherr_proc, StartFails, rztask_install, DispatchDone, NoSigchild, task_default_sigchild,
         master_pipe_sigchild, SigchildCleared, Settled, Take, RemoveAll, Announced, Bails,
         Goto, Exit, Following, Looping, place
<1>1. me'.conn_fd = me.conn_fd
  BY LoopKin, InstallSane DEF Sound, Kin
<1>2. Running /\ pc \notin {"args", "connect", "exited"}
  BY <1>0 DEF Looping, Running, Final
<1>3. CASE rztask_install
  <2>1. rzat'.dir = chdir_to_dldir /\ cwd = "home" /\ dldir \in BOOLEAN /\ opt.dir \in BOOLEAN
    BY <1>2, <1>3 DEF rztask_install, Execed, Asks, Sound, TypeOK
  <2>2. dldir' => rzat'.dir = IF opt.dir THEN "dldir" ELSE "home"
    BY <1>0, <2>1 DEF chdir_to_dldir
  <2> QED BY <1>0, <1>1, <1>2, <2>2, AsksKept
<1>4. CASE ~rztask_install
  <2>1. rzat' = rzat
    BY <1>4 DEF Loop, Dispatch, master_idle, io_wait, Crash, pipe_auto_read, pipe_auto_write,
                IgnoredEvent, cherr_proc, StartFails, DispatchDone, NoSigchild,
                task_default_sigchild, master_pipe_sigchild, SigchildCleared, Settled, RemoveAll, children
  <2> QED BY <1>0, <1>1, <1>2, <2>1, AsksKept
<1> QED BY <1>3, <1>4

LEMMA NextAsks == Sound /\ Asks /\ [Next]_vars => Asks'
<1> SUFFICES ASSUME Sound, Asks, [Next]_vars PROVE Asks'
  OBVIOUS
<1>1. CASE process_args
  BY <1>1, ArgsAsks
<1>2. CASE io_socket_connect_fd
  BY <1>2, ConnectAsks
<1>3. CASE preflight \/ openpty_fails \/ bgio_start \/ master_setup
  BY <1>3, StartAsks
<1>4. CASE Loop
  BY <1>4, LoopAsks
<1>5. CASE ShellExit \/ RzExit \/ RemoveDir \/ Done \/ UNCHANGED vars
  <2>1. UNCHANGED <<pc, setup, me, rzat, cwd>> /\ dldir' \in {dldir, FALSE}
    BY <1>5 DEF ShellExit, RzExit, RemoveDir, Done, vars, place, children
  <2>2. Running' => Running
    BY <2>1 DEF Running
  <2> QED BY <2>1, <2>2, AsksKept
<1> QED BY <1>1, <1>2, <1>3, <1>4, <1>5 DEF Next

(***************************************************************************)
(* What was asked for on the command line is what is done, for any         *)
(* arguments: the command, word for word, whatever blanks are around the   *)
(* words; the download directory; the port.                                *)
(***************************************************************************)
THEOREM ProcessAsAsked == Spec => []AsAsked
<1>1. Init => Sound /\ Asks
  BY InitSound, InitAsks
<1>2. Sound /\ [Next]_vars => Sound'
  BY NextSound
<1>3. Sound /\ Asks /\ [Next]_vars => Asks'
  BY NextAsks
<1>4. Asks => AsAsked
  BY DEF Asks, AsAsked, AskedCommand
<1> QED BY <1>1, <1>2, <1>3, <1>4, PTL DEF Spec
=============================================================================
