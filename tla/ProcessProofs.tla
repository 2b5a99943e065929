--------------------------- MODULE ProcessProofs ---------------------------
(***************************************************************************)
(* What select() is told and what the atoms remember agree in every run of *)
(* rzh, and an event never reaches the wrong atom: for any invocations,    *)
(* any size of the tables and any number of transfers.  And cmd_parse      *)
(* makes of any string the command that its words ask for.                 *)
(***************************************************************************)
EXTENDS Process, FiniteSetTheorems, SequenceTheorems, WellFoundedInduction, TLAPS

-----------------------------------------------------------------------------
\* A set of numbers has a least one; one that is bounded, a greatest.
LEMMA Least ==
  ASSUME NEW T \in SUBSET Nat, T # {}
  PROVE  \E x \in T : \A y \in T : x <= y
<1>1. \E x \in T : \A y \in T : ~ (<<y, x>> \in OpToRel(<, Nat))
  BY NatLessThanWellFounded, WFMin
<1>2. PICK x \in T : \A y \in T : ~ (<<y, x>> \in OpToRel(<, Nat))
  BY <1>1
<1>3. ASSUME NEW y \in T PROVE x <= y
  <2>1. ~(y < x)
    BY <1>2 DEF OpToRel
  <2> QED BY <2>1
<1> QED BY <1>2, <1>3

LEMMA Greatest ==
  ASSUME NEW S \in SUBSET Int, S # {}, NEW b \in Int, \A x \in S : x <= b
  PROVE  Max(S) \in S /\ \A y \in S : y <= Max(S)
<1> DEFINE T == {b - x : x \in S}
<1>1. T \in SUBSET Nat /\ T # {}
  <2>1. ASSUME NEW x \in S PROVE b - x \in Nat
    <3>1. x \in Int /\ x <= b
      OBVIOUS
    <3> QED BY <3>1
  <2> QED BY <2>1
<1>2. PICK t \in T : \A u \in T : t <= u
  <2> HIDE DEF T
  <2> QED BY <1>1, Least
<1>3. PICK x \in S : t = b - x
  BY <1>2
<1>4. \A y \in S : x >= y
  BY <1>2, <1>3
<1> QED BY <1>3, <1>4 DEF Max

\* The k-th lowest of a set of numbers that has as many.
LEMMA Ranked ==
  ASSUME NEW n \in Nat, NEW S \in SUBSET (0..n), NEW k \in Nat \ {0}, k <= Cardinality(S)
  PROVE  \E f \in S : Cardinality({g \in S : g <= f}) = k
<1> DEFINE R(f) == {g \in S : g <= f}
<1>1. IsFiniteSet(S) /\ Cardinality(S) \in Nat
  <2>1. 0 \in Int /\ n \in Int
    OBVIOUS
  <2>2. IsFiniteSet(0..n)
    BY <2>1, FS_Interval
  <2> QED BY <2>2, FS_Subset, FS_CardinalityType
<1>2. ASSUME NEW f \in S
      PROVE  IsFiniteSet(R(f)) /\ Cardinality(R(f)) \in Nat
  BY <1>1, FS_Subset, FS_CardinalityType
<1> DEFINE T == {f \in S : Cardinality(R(f)) >= k}
<1>3. T # {}
  <2>1. S # {}
    BY <1>1, FS_EmptySet
  <2>0. S \in SUBSET Int /\ n \in Int /\ \A x \in S : x <= n
    OBVIOUS
  <2>2. Max(S) \in S /\ \A y \in S : y <= Max(S)
    BY <2>0, <2>1, Greatest
  <2>3. R(Max(S)) = S
    BY <2>2
  <2> QED BY <2>2, <2>3, <1>1
<1>4. PICK f \in T : \A g \in T : f <= g
  <2>1. S \in SUBSET Nat
    OBVIOUS
  <2>2. T \in SUBSET Nat
    BY <2>1
  <2> HIDE DEF T
  <2> QED BY <1>3, <2>2, Least
<1>5. f \in S /\ f \in Nat /\ Cardinality(R(f)) >= k
  BY <1>4
<1> DEFINE c == Cardinality(R(f))
<1>8. c \in Nat /\ c >= k
  BY <1>2, <1>5
<1>6. CASE c > k
  <2> DEFINE Q == R(f) \ {f}
  <2>1. IsFiniteSet(Q) /\ Cardinality(Q) = Cardinality(R(f)) - 1
    BY <1>2, <1>5, FS_RemoveElement
  <2>2. Cardinality(Q) >= k
    BY <2>1, <1>2, <1>5, <1>6
  <2>3. Q # {}
    BY <2>1, <2>2, FS_EmptySet
  <2>4. Q \in SUBSET Int /\ n \in Int /\ \A x \in Q : x <= n
    <3>1. S \in SUBSET Int /\ \A x \in S : x <= n
      OBVIOUS
    <3>2. Q \in SUBSET S
      OBVIOUS
    <3> HIDE DEF Q
    <3> QED BY <3>1, <3>2
  <2>5. PICK h \in Q : \A y \in Q : y <= h
    <3> HIDE DEF Q
    <3> QED BY <2>3, <2>4, Greatest
  <2>6. h \in S /\ h \in Nat /\ h < f
    BY <2>5, <1>5
  <2>7. R(h) = Q
    <3>1. ASSUME NEW g \in S PROVE g <= h <=> (g <= f /\ g # f)
      <4>1. g \in Int
        OBVIOUS
      <4>2. g <= f /\ g # f => g <= h
        BY <2>5
      <4> QED BY <4>1, <4>2, <2>6, <1>5
    <3> QED BY <3>1
  <2>8. h \in T
    BY <2>2, <2>6, <2>7
  <2> QED BY <2>6, <2>8, <1>4, <1>5
<1>7. CASE ~(c > k)
  <2>1. c = k
    <3> HIDE DEF c
    <3> QED BY <1>8, <1>7
  <2> QED BY <1>5, <2>1
<1> QED BY <1>6, <1>7

\* Where the kernel puts a file is a descriptor, if there is room.
LEMMA PlaceIsFd ==
  ASSUME NEW m, NEW k \in Nat \ {0}, k <= Room(m)
  PROVE  Place(m, k) \in Fd
<1>1. MaxFd \in Nat /\ Free(m) \in SUBSET (0..MaxFd) /\ k <= Cardinality(Free(m))
  BY MaxFdAssumption DEF Room, Free, Fd
<1>2. \E f \in Free(m) : Cardinality({g \in Free(m) : g <= f}) = k
  BY ZenonT(60), <1>1, Ranked
<1>3. Place(m, k) \in Free(m)
  BY <1>2 DEF Place
<1> QED BY <1>3 DEF Free

-----------------------------------------------------------------------------
Fields == {"t", "foreign", "connections", "max_fd", "err", "fd", "spec", "st_master_fd",
           "st_slave_fd", "conn_fd", "log_fd", "g_highest_fd"}

IsProcess(m) ==
  /\ DOMAIN m = Fields
  /\ m.connections \in [Slot -> Atom \union {NoAtom}]
  /\ m.max_fd \in Int /\ m.fd \in [Atom -> Int]
  /\ m.conn_fd \in Int /\ m.st_master_fd \in Int

Registry(m) == IsProcess(m) /\ Covered(m) /\ Matched(m)

\* What neither the table of open files nor the rest of the process changes.
SameAtoms(m, n) ==
  /\ DOMAIN n = Fields
  /\ n.connections = m.connections /\ n.max_fd = m.max_fd /\ n.fd = m.fd

LEMMA SameAtomsKeep ==
  ASSUME NEW m, NEW n, Registry(m), SameAtoms(m, n), n.conn_fd \in Int, n.st_master_fd \in Int
  PROVE  Registry(n)
BY DEF Registry, IsProcess, SameAtoms, Covered, Matched, Connection

\* An atom is registered in a slot of the table.
LEMMA RegisteredSlot ==
  ASSUME NEW m, Registry(m), NEW a \in Atom, m.fd[a] >= 0
  PROVE  m.fd[a] \in Slot /\ m.connections[m.fd[a]] = a
<1>1. Connection(m, m.fd[a]) = a
  BY DEF Registry, IsProcess, Matched
<1> QED BY <1>1, NoAtomAssumption DEF Connection

\* io_del leaves max_fd at the highest descriptor that is left.
LEMMA DelKeeps ==
  ASSUME NEW m, Registry(m), NEW a \in Atom
  PROVE  /\ Registry(io_del(m, a))
         /\ io_del(m, a).fd = [m.fd EXCEPT ![a] = -1]
         /\ io_del(m, a).conn_fd = m.conn_fd
<1> DEFINE f == m.fd[a]
           n == io_del(m, a)
<1>1. /\ IsProcess(m) /\ Covered(m) /\ Matched(m) /\ f \in Int
  BY DEF Registry, IsProcess
<1>2. CASE Connection(m, f) = NoAtom
  <2>1. f < 0
    BY <1>1, <1>2, NoAtomAssumption DEF IsProcess, Matched
  <2>2. n = [m EXCEPT !.fd[a] = -1]
    BY <1>2 DEF io_del, io_del_fd
  <2>3. /\ DOMAIN n = Fields /\ n.fd = [m.fd EXCEPT ![a] = -1]
        /\ n.connections = m.connections /\ n.max_fd = m.max_fd
        /\ n.conn_fd = m.conn_fd /\ n.st_master_fd = m.st_master_fd
    BY <1>1, <2>2 DEF IsProcess, Fields
  <2>4. \A b \in Atom : n.fd[b] = IF b = a THEN -1 ELSE m.fd[b]
    BY <1>1, <2>3 DEF IsProcess
  <2>5. IsProcess(n)
    BY <1>1, <2>3 DEF IsProcess
  <2> HIDE DEF n
  <2>6. Covered(n)
    BY <1>1, <2>3 DEF Covered
  <2>7. Matched(n)
    <3>1. ASSUME NEW b \in DOMAIN n.fd, n.fd[b] >= 0 PROVE Connection(n, n.fd[b]) = b
      BY <3>1, <1>1, <2>3, <2>4, <2>5 DEF IsProcess, Matched, Connection
    <3>2. ASSUME NEW g \in Slot, n.connections[g] # NoAtom PROVE n.fd[n.connections[g]] = g
      <4>1. m.fd[m.connections[g]] = g /\ m.connections[g] \in Atom
        BY <3>2, <1>1, <2>3 DEF IsProcess, Matched
      <4>2. m.connections[g] # a
        BY <4>1, <2>1 DEF Slot
      <4> QED BY <4>1, <4>2, <2>3, <2>4
    <3> QED BY <3>1, <3>2 DEF Matched
  <2> QED BY <2>3, <2>5, <2>6, <2>7 DEF Registry, n
<1>3. CASE Connection(m, f) # NoAtom
  <2> DEFINE left == [m.connections EXCEPT ![f] = NoAtom]
             S == {-1} \union {g \in 0..m.max_fd : g \in Slot /\ left[g] # NoAtom}
  <2>1. f \in Slot /\ m.connections[f] # NoAtom
    BY <1>3 DEF Connection
  <2>2. m.connections[f] = a
    BY <1>1, <2>1 DEF Matched, Slot, IsProcess, Connection
  <2>3. /\ DOMAIN n = Fields /\ n.fd = [m.fd EXCEPT ![a] = -1]
        /\ n.connections = left /\ n.max_fd = Max(S)
        /\ n.conn_fd = m.conn_fd /\ n.st_master_fd = m.st_master_fd
    BY <1>1, <1>3 DEF IsProcess, Fields, io_del, io_del_fd
  <2>4. \A b \in Atom : n.fd[b] = IF b = a THEN -1 ELSE m.fd[b]
    BY <1>1, <2>3 DEF IsProcess
  <2>5. /\ left \in [Slot -> Atom \union {NoAtom}]
        /\ \A g \in Slot : left[g] = IF g = f THEN NoAtom ELSE m.connections[g]
    BY <1>1 DEF IsProcess
  <2> HIDE DEF left
  <2>6. Max(S) \in S /\ \A g \in S : g <= Max(S)
    <3>1. m.max_fd \in Int
      BY <1>1 DEF IsProcess
    <3> DEFINE b == IF m.max_fd < 0 THEN 0 ELSE m.max_fd
    <3>2. b \in Int /\ S \in SUBSET Int /\ S # {} /\ \A g \in S : g <= b
      BY <3>1
    <3> HIDE DEF S, b
    <3> QED BY <3>2, Greatest
  <2>7. Max(S) \in Int
    BY <2>6
  <2> HIDE DEF n
  <2>8. IsProcess(n)
    BY <1>1, <2>3, <2>5, <2>7 DEF IsProcess
  <2>9. Covered(n)
    <3>1. ASSUME NEW g \in Slot, left[g] # NoAtom PROVE g <= Max(S)
      <4>1. g <= m.max_fd /\ g \in Nat
        BY <3>1, <1>1, <2>5 DEF Covered, Slot
      <4>2. g \in S
        BY <3>1, <4>1, <1>1 DEF IsProcess
      <4> QED BY <4>2, <2>6
    <3> QED BY <3>1, <2>3 DEF Covered
  <2>10. Matched(n)
    <3>1. ASSUME NEW b \in DOMAIN n.fd, n.fd[b] >= 0 PROVE Connection(n, n.fd[b]) = b
      <4>1. b \in Atom /\ b # a /\ n.fd[b] = m.fd[b]
        BY <3>1, <2>4, <2>8 DEF IsProcess
      <4>2. m.fd[b] \in Slot /\ m.connections[m.fd[b]] = b
        BY <3>1, <4>1, RegisteredSlot
      <4> QED BY <4>1, <4>2, <2>2, <2>3, <2>5 DEF Connection
    <3>2. ASSUME NEW g \in Slot, n.connections[g] # NoAtom PROVE n.fd[n.connections[g]] = g
      <4>1. g # f /\ n.connections[g] = m.connections[g]
        BY <3>2, <2>3, <2>5
      <4>2. m.fd[m.connections[g]] = g /\ m.connections[g] \in Atom
        BY <3>2, <4>1, <1>1 DEF IsProcess, Matched
      <4> QED BY <4>1, <4>2, <2>4
    <3> QED BY <3>1, <3>2 DEF Matched
  <2> QED BY <2>3, <2>8, <2>9, <2>10 DEF Registry, n
<1> QED BY <1>2, <1>3

\* io_add of an atom that is not registered yet, whatever number it is given.
LEMMA AddKeeps ==
  ASSUME NEW m, Registry(m), NEW a \in Atom, m.fd[a] < 0, NEW f \in Int
  PROVE  /\ Registry(io_add(m, a, f))
         /\ io_add(m, a, f).fd \in {m.fd, [m.fd EXCEPT ![a] = f]}
<1> DEFINE n == io_add(m, a, f)
<1>1. IsProcess(m) /\ Covered(m) /\ Matched(m)
  BY DEF Registry
<1>2. CASE m.err # "none"
  BY <1>2 DEF io_add
<1>3. CASE m.err = "none" /\ io_add_error(m, f) # "none"
  <2>1. n = [m EXCEPT !.err = io_add_error(m, f)]
    BY <1>3 DEF io_add
  <2>2. SameAtoms(m, n) /\ n.conn_fd = m.conn_fd /\ n.st_master_fd = m.st_master_fd
    BY <1>1, <2>1 DEF SameAtoms, IsProcess, Fields
  <2>3. n.conn_fd \in Int /\ n.st_master_fd \in Int /\ n.fd = m.fd
    BY <1>1, <2>2 DEF IsProcess, SameAtoms
  <2> HIDE DEF n
  <2>4. Registry(n)
    BY <2>2, <2>3, SameAtomsKeep
  <2> QED BY <2>3, <2>4 DEF n
<1>4. CASE m.err = "none" /\ io_add_error(m, f) = "none"
  <2>1. f \in Slot /\ m.connections[f] = NoAtom
    BY <1>4, FdSetAssumption DEF io_add_error, Connection, Slot
  <2>2. n = [m EXCEPT !.connections[f] = a, !.fd[a] = f, !.max_fd = Max({@, f})]
    BY <1>4 DEF io_add
  <2>3. /\ DOMAIN n = Fields /\ n.fd = [m.fd EXCEPT ![a] = f]
        /\ n.connections = [m.connections EXCEPT ![f] = a] /\ n.max_fd = Max({m.max_fd, f})
        /\ n.conn_fd = m.conn_fd /\ n.st_master_fd = m.st_master_fd
    BY <1>1, <2>2 DEF IsProcess, Fields
  <2>4. \A b \in Atom : n.fd[b] = IF b = a THEN f ELSE m.fd[b]
    BY <1>1, <2>3 DEF IsProcess
  <2>5. \A g \in Slot : n.connections[g] = IF g = f THEN a ELSE m.connections[g]
    BY <1>1, <2>1, <2>3 DEF IsProcess
  <2>6. n.max_fd \in Int /\ n.max_fd >= f /\ n.max_fd >= m.max_fd
    <3>1. m.max_fd \in Int
      BY <1>1 DEF IsProcess
    <3>2. \E x \in {m.max_fd, f} : \A y \in {m.max_fd, f} : x >= y
      BY <3>1
    <3>3. Max({m.max_fd, f}) \in {m.max_fd, f} /\ \A y \in {m.max_fd, f} : Max({m.max_fd, f}) >= y
      BY <3>2 DEF Max
    <3> QED BY <2>3, <3>1, <3>3
  <2>7. IsProcess(n)
    BY <1>1, <2>3, <2>6 DEF IsProcess
  <2> HIDE DEF n
  <2>8. Covered(n)
    <3>1. ASSUME NEW g \in Slot, n.connections[g] # NoAtom PROVE g <= n.max_fd
      <4>1. CASE g = f
        BY <4>1, <2>6
      <4>2. CASE g # f
        <5>1. g <= m.max_fd /\ g \in Int /\ m.max_fd \in Int
          BY <3>1, <4>2, <1>1, <2>5 DEF Covered, Slot, IsProcess
        <5> QED BY <5>1, <2>6
      <4> QED BY <4>1, <4>2
    <3> QED BY <3>1 DEF Covered
  <2>9. Matched(n)
    <3>1. ASSUME NEW b \in DOMAIN n.fd, n.fd[b] >= 0 PROVE Connection(n, n.fd[b]) = b
      <4>1. CASE b = a
        BY <4>1, <2>1, <2>4, <2>5 DEF Connection
      <4>2. CASE b # a
        <5>1. b \in Atom /\ n.fd[b] = m.fd[b]
          BY <3>1, <4>2, <2>4, <2>7 DEF IsProcess
        <5>2. m.fd[b] \in Slot /\ m.connections[m.fd[b]] = b
          BY <3>1, <5>1, RegisteredSlot
        <5>3. m.fd[b] # f
          BY <5>1, <5>2, <2>1, NoAtomAssumption
        <5> QED BY <5>1, <5>2, <5>3, <2>5 DEF Connection
      <4> QED BY <4>1, <4>2
    <3>2. ASSUME NEW g \in Slot, n.connections[g] # NoAtom PROVE n.fd[n.connections[g]] = g
      <4>1. CASE g = f
        BY <4>1, <2>4, <2>5
      <4>2. CASE g # f
        <5>1. m.connections[g] # NoAtom /\ n.connections[g] = m.connections[g]
          BY <3>2, <4>2, <2>5
        <5>2. m.connections[g] \in Atom /\ m.fd[m.connections[g]] = g
          BY <5>1, <1>1 DEF IsProcess, Matched
        <5>3. m.connections[g] # a
          BY <5>2 DEF Slot
        <5> QED BY <5>1, <5>2, <5>3, <2>4
      <4> QED BY <4>1, <4>2
    <3> QED BY <3>1, <3>2 DEF Matched
  <2> QED BY <2>3, <2>7, <2>8, <2>9 DEF Registry, n
<1> QED BY <1>2, <1>3, <1>4

-----------------------------------------------------------------------------
\* open and close change the table of open files only.
LEMMA OpenKeeps ==
  ASSUME NEW m, Registry(m), NEW files
  PROVE  Registry(open(m, files)) /\ open(m, files).fd = m.fd
<1> DEFINE n == open(m, files)
<1>1. SameAtoms(m, n) /\ n.conn_fd = m.conn_fd /\ n.st_master_fd = m.st_master_fd
  BY DEF open, Registry, IsProcess, SameAtoms, Fields
<1> HIDE DEF n
<1>2. Registry(n) /\ n.fd = m.fd
  BY <1>1, SameAtomsKeep DEF Registry, IsProcess, SameAtoms
<1> QED BY <1>2 DEF n

LEMMA CloseKeeps ==
  ASSUME NEW m, Registry(m), NEW pairs
  PROVE  Registry(close(m, pairs)) /\ close(m, pairs).fd = m.fd
<1> DEFINE n == close(m, pairs)
<1>1. SameAtoms(m, n) /\ n.conn_fd = m.conn_fd /\ n.st_master_fd = m.st_master_fd
  BY DEF close, Registry, IsProcess, SameAtoms, Fields
<1> HIDE DEF n
<1>2. Registry(n) /\ n.fd = m.fd
  BY <1>1, SameAtomsKeep DEF Registry, IsProcess, SameAtoms
<1> QED BY <1>2 DEF n

\* A descriptor is noted down: of the log, of the socket, of the pty.
LEMMA LogNoted ==
  ASSUME NEW m, Registry(m), NEW p \in Int
  PROVE  LET n == [m EXCEPT !.log_fd = p] IN Registry(n) /\ n.fd = m.fd
<1> DEFINE n == [m EXCEPT !.log_fd = p]
<1>1. SameAtoms(m, n) /\ n.conn_fd \in Int /\ n.st_master_fd \in Int
  BY DEF Registry, IsProcess, SameAtoms, Fields
<1> HIDE DEF n
<1>2. Registry(n) /\ n.fd = m.fd
  BY <1>1, SameAtomsKeep DEF SameAtoms
<1> QED BY <1>2 DEF n

LEMMA SocketNoted ==
  ASSUME NEW m, Registry(m), NEW p \in Int
  PROVE  LET n == [m EXCEPT !.conn_fd = p] IN Registry(n) /\ n.fd = m.fd
<1> DEFINE n == [m EXCEPT !.conn_fd = p]
<1>1. SameAtoms(m, n) /\ n.conn_fd \in Int /\ n.st_master_fd \in Int
  BY DEF Registry, IsProcess, SameAtoms, Fields
<1> HIDE DEF n
<1>2. Registry(n) /\ n.fd = m.fd
  BY <1>1, SameAtomsKeep DEF SameAtoms
<1> QED BY <1>2 DEF n

LEMMA PtyNoted ==
  ASSUME NEW m, Registry(m), NEW p \in Int, NEW q
  PROVE  LET n == [m EXCEPT !.st_master_fd = p, !.st_slave_fd = q] IN Registry(n) /\ n.fd = m.fd
<1> DEFINE n == [m EXCEPT !.st_master_fd = p, !.st_slave_fd = q]
<1>1. SameAtoms(m, n) /\ n.conn_fd \in Int /\ n.st_master_fd \in Int
  BY DEF Registry, IsProcess, SameAtoms, Fields
<1> HIDE DEF n
<1>2. Registry(n) /\ n.fd = m.fd
  BY <1>1, SameAtomsKeep DEF SameAtoms
<1> QED BY <1>2 DEF n

\* An end of file, or of a reader, takes one atom out.
LEMMA MayEndKeeps ==
  ASSUME NEW m, Registry(m), NEW a \in Atom
  PROVE  \A n \in MayEnd(m, a) \union {Ended(m, a)} :
           Registry(n) /\ n.fd \in {m.fd, [m.fd EXCEPT ![a] = -1]}
<1> DEFINE k == close(m, {<<m.fd[a], FileOf(m, a)>>})
<1>1. Registry(k) /\ k.fd = m.fd
  BY CloseKeeps
<1>2. Ended(m, a) = io_del(k, a)
  BY DEF Ended
<1> HIDE DEF k
<1>3. Registry(io_del(k, a)) /\ io_del(k, a).fd = [m.fd EXCEPT ![a] = -1]
  BY <1>1, DelKeeps
<1> QED BY <1>2, <1>3 DEF MayEnd

\* The rz task is removed.
LEMMA RzRemovedKeeps ==
  ASSUME NEW m, Registry(m)
  PROVE  /\ Registry(RzRemoved(m))
         /\ \A a \in Atom : RzRemoved(m).fd[a] = IF a \in RzAtoms THEN -1 ELSE m.fd[a]
<1> DEFINE m1 == io_del(m, "rzerr")
           m2 == io_del(m1, "rzwrite")
           m3 == io_del(m2, "rzread")
           m4 == task_default_destructor(m3)
           n == RzRemoved(m)
<1>0. RzAtoms \subseteq Atom
  BY DEF RzAtoms, Atom
<1>1. Registry(m1) /\ m1.fd = [m.fd EXCEPT !["rzerr"] = -1]
  BY DelKeeps DEF Atom
<1> HIDE DEF m1
<1>2. Registry(m2) /\ m2.fd = [m1.fd EXCEPT !["rzwrite"] = -1]
  BY <1>1, DelKeeps DEF Atom
<1> HIDE DEF m2
<1>3. Registry(m3) /\ m3.fd = [m2.fd EXCEPT !["rzread"] = -1]
  BY <1>2, DelKeeps DEF Atom
<1> HIDE DEF m3
<1>4. Registry(m4) /\ m4.fd = m3.fd
  BY <1>3, CloseKeeps DEF task_default_destructor
<1>5. n = [m4 EXCEPT !.spec = NoRz]
  BY DEF RzRemoved, m1, m2, m3
<1> HIDE DEF m4, n
<1>6. SameAtoms(m4, n) /\ n.conn_fd = m4.conn_fd /\ n.st_master_fd = m4.st_master_fd
  BY <1>4, <1>5 DEF Registry, IsProcess, SameAtoms, Fields
<1>7. Registry(n) /\ n.fd = m3.fd
  BY <1>4, <1>6, SameAtomsKeep DEF Registry, IsProcess, SameAtoms
<1>8. m.fd \in [Atom -> Int]
  BY DEF Registry, IsProcess
<1>9. \A a \in Atom : n.fd[a] = IF a \in RzAtoms THEN -1 ELSE m.fd[a]
  BY <1>1, <1>2, <1>3, <1>7, <1>8 DEF RzAtoms, Atom
<1> QED BY <1>7, <1>9 DEF n

\* An rz task is installed where none was.
LEMMA RzInstalledKeeps ==
  ASSUME NEW m, Registry(m), \A a \in RzAtoms : m.fd[a] < 0, NEW end \in [1..6 -> Int]
  PROVE  /\ Registry(RzInstalled(m, end))
         /\ \A a \in Atom \ RzAtoms : RzInstalled(m, end).fd[a] = m.fd[a]
<1> DEFINE spec == [infd |-> end[3], outfd |-> end[2], errfd |-> end[5]]
           m0 == Ends(m, end, ChildEnds)
           m1 == [m0 EXCEPT !.spec = spec]
           m2 == io_add(m1, "rzread", spec.infd)
           m3 == io_add(m2, "rzwrite", spec.outfd)
           m4 == io_add(m3, "rzerr", spec.errfd)
<1>0. /\ spec.infd \in Int /\ spec.outfd \in Int /\ spec.errfd \in Int
      /\ {"rzread", "rzwrite", "rzerr"} \subseteq Atom /\ m.fd \in [Atom -> Int]
      /\ m.fd["rzread"] < 0 /\ m.fd["rzwrite"] < 0 /\ m.fd["rzerr"] < 0
  BY DEF Registry, IsProcess, RzAtoms, Atom
<1>1. RzInstalled(m, end) = m4
  BY DEF RzInstalled
<1> HIDE DEF spec
<1>2. Registry(m0) /\ m0.fd = m.fd
  BY CloseKeeps DEF Ends
<1> HIDE DEF m0
<1>3. SameAtoms(m0, m1) /\ m1.conn_fd = m0.conn_fd /\ m1.st_master_fd = m0.st_master_fd
  BY <1>2 DEF Registry, IsProcess, SameAtoms, Fields
<1> HIDE DEF m1
<1>4. Registry(m1) /\ m1.fd = m.fd
  BY <1>2, <1>3, SameAtomsKeep DEF Registry, IsProcess, SameAtoms
<1>5. Registry(m2) /\ m2.fd \in {m1.fd, [m1.fd EXCEPT !["rzread"] = spec.infd]}
  BY <1>0, <1>4, AddKeeps
<1> HIDE DEF m2
<1>6. m2.fd["rzwrite"] < 0 /\ m2.fd["rzerr"] < 0
  BY <1>0, <1>4, <1>5
<1>7. Registry(m3) /\ m3.fd \in {m2.fd, [m2.fd EXCEPT !["rzwrite"] = spec.outfd]}
  BY <1>0, <1>5, <1>6, AddKeeps
<1> HIDE DEF m3
<1>8. m3.fd["rzerr"] < 0
  <2>1. m2.fd \in [Atom -> Int]
    BY <1>5 DEF Registry, IsProcess
  <2>2. "rzerr" \in Atom /\ "rzwrite" # "rzerr"
    BY DEF Atom
  <2> QED BY <1>6, <1>7, <2>1, <2>2
<1>9. Registry(m4) /\ m4.fd \in {m3.fd, [m3.fd EXCEPT !["rzerr"] = spec.errfd]}
  BY <1>0, <1>7, <1>8, AddKeeps
<1> HIDE DEF m4
<1>10. m1.fd \in [Atom -> Int] /\ m2.fd \in [Atom -> Int] /\ m3.fd \in [Atom -> Int]
  BY <1>4, <1>5, <1>7 DEF Registry, IsProcess
<1>11. ASSUME NEW a \in Atom \ RzAtoms PROVE m4.fd[a] = m.fd[a]
  <2>1. a \in Atom /\ a \notin {"rzread", "rzwrite", "rzerr"}
    BY <1>11 DEF RzAtoms
  <2>2. m2.fd[a] = m1.fd[a] /\ m3.fd[a] = m2.fd[a] /\ m4.fd[a] = m3.fd[a]
    BY <2>1, <1>5, <1>7, <1>9, <1>10
  <2> QED BY <2>2, <1>4
<1> QED BY <1>1, <1>9, <1>11

-----------------------------------------------------------------------------
\* Before the loop nothing is registered, and without an rz task none of its atoms.
Beginning == {"args", "connect", "preflight", "setup", "install"}

Inv ==
  /\ Running => Registry(me)
  /\ pc \in Beginning => \A a \in Atom : me.fd[a] = -1
  /\ Running /\ head # "rz" => \A a \in RzAtoms : me.fd[a] < 0

LEMMA RoomIsNat == ASSUME NEW m PROVE Room(m) \in Nat
<1>1. 0 \in Int /\ MaxFd \in Int /\ Free(m) \in SUBSET (0..MaxFd)
  BY MaxFdAssumption DEF Free, Fd
<1> QED BY <1>1, FS_Interval, FS_Subset, FS_CardinalityType DEF Room

LEMMA PlaceIsInt == ASSUME NEW m, Room(m) > 0 PROVE Place(m, 1) \in Int
<1>1. 1 \in Nat \ {0} /\ 1 <= Room(m)
  BY RoomIsNat
<1>2. Place(m, 1) \in Fd
  BY <1>1, PlaceIsFd
<1> QED BY <1>2, MaxFdAssumption DEF Fd

\* The end of the process is the end of what Inv says.
LEMMA FinalKeeps == ASSUME pc' \in Final PROVE Inv'
BY DEF Inv, Running, Final, Beginning

\* A step that leaves the process and the tasks alone, and does not begin again.
LEMMA AloneKeeps ==
  ASSUME Inv, UNCHANGED <<me, head>>, Running, pc' \in Beginning => pc \in Beginning
  PROVE  Inv'
BY DEF Inv, Running

\* A step that only takes atoms out, once the loop runs.
LEMMA FewerKeeps ==
  ASSUME Inv, Running, head' = head, pc' \notin Beginning, Registry(me'),
         \A a \in RzAtoms : me'.fd[a] \in {me.fd[a], -1}
  PROVE  Inv'
<1>1. Running' /\ head' # "rz" => \A a \in RzAtoms : me'.fd[a] < 0
  BY DEF Inv
<1> QED BY <1>1 DEF Inv

LEMMA InitInv == Init => Inv
<1> SUFFICES ASSUME Init PROVE Inv
  OBVIOUS
<1>1. PICK i \in Invocations : me = Newborn(i.fds)
  BY DEF Init
<1>2. /\ DOMAIN me = Fields /\ me.connections = [f \in Slot |-> NoAtom] /\ me.max_fd = 0
      /\ me.fd = [a \in Atom |-> -1] /\ me.conn_fd = -1 /\ me.st_master_fd = 0
  BY <1>1 DEF Newborn, Fields, NoConnections, NoMax
<1>3. IsProcess(me)
  BY <1>2 DEF IsProcess
<1>4. Covered(me) /\ Matched(me)
  BY <1>2 DEF Covered, Matched
<1>5. \A a \in Atom : me.fd[a] = -1
  BY <1>2
<1>6. RzAtoms \subseteq Atom
  BY DEF RzAtoms, Atom
<1> QED BY <1>3, <1>4, <1>5, <1>6 DEF Inv, Registry

\* The arguments, the socket, the checks, the pty.
LEMMA StartKeeps ==
  ASSUME Inv, process_args \/ io_socket_connect_fd \/ preflight \/ openpty_fails \/ bgio_start
  PROVE  Inv'
<1> USE DEF Elsewhere, Proceed, Refuse, Exit, Goto
<1>0. pc \in Beginning => Running
  BY DEF Running, Beginning, Final
<1>1. ASSUME pc \in Beginning, Registry(me'), me'.fd = me.fd, head' = head PROVE Inv'
  <2>1. \A a \in Atom : me.fd[a] = -1
    BY <1>1 DEF Inv
  <2>2. RzAtoms \subseteq Atom
    BY DEF RzAtoms, Atom
  <2> QED BY <1>1, <2>1, <2>2 DEF Inv
<1>2. ASSUME pc \in Beginning, UNCHANGED <<me, head>> PROVE Inv'
  BY <1>0, <1>1, <1>2 DEF Inv
<1>4. CASE RzOption \/ ConnectOption \/ FifoOption \/ QuietOption \/ Directory \/ LastOption \/ ArgsDone
  <2>1. pc \in Beginning /\ UNCHANGED <<me, head>>
    BY <1>4 DEF RzOption, ConnectOption, FifoOption, QuietOption, Directory, LastOption, ArgsDone,
                Option, Beginning
  <2> QED BY <2>1, <1>2
<1>5. CASE LogOption
  <2> DEFINE m0 == close(me, {<<me.log_fd, "log">>})
             m == log_close(me)
  <2>1. pc \in Beginning /\ head' = head /\ Registry(me)
    BY <1>0, <1>5 DEF LogOption, Option, Beginning, Inv
  <2>2. Registry(m0) /\ m0.fd = me.fd
    BY <2>1, CloseKeeps
  <2>3. m = [m0 EXCEPT !.log_fd = -1]
    BY DEF log_close
  <2>4. me' = m \/ (Room(m) > 0 /\ me' = [open(m, <<"log">>) EXCEPT !.log_fd = Place(m, 1)])
    BY <1>5 DEF LogOption
  <2> HIDE DEF m0, m
  <2>5. SameAtoms(m0, m) /\ m.conn_fd = m0.conn_fd /\ m.st_master_fd = m0.st_master_fd
    BY <2>2, <2>3 DEF Registry, IsProcess, SameAtoms, Fields
  <2>6. Registry(m) /\ m.fd = me.fd
    BY <2>2, <2>5, SameAtomsKeep DEF Registry, IsProcess, SameAtoms
  <2>7. Registry(me') /\ me'.fd = me.fd
    <3>1. CASE me' = m
      BY <3>1, <2>6
    <3>2. CASE Room(m) > 0 /\ me' = [open(m, <<"log">>) EXCEPT !.log_fd = Place(m, 1)]
      <4> DEFINE o == open(m, <<"log">>)
                 p == Place(m, 1)
      <4>1. p \in Int /\ Registry(o) /\ o.fd = m.fd
        BY <3>2, <2>6, OpenKeeps, PlaceIsInt
      <4>2. me' = [o EXCEPT !.log_fd = p]
        BY <3>2
      <4> HIDE DEF o, p
      <4> QED BY <4>1, <4>2, <2>6, LogNoted
    <3> QED BY <3>1, <3>2, <2>4
  <2> QED BY <2>1, <2>7, <1>1
<1>6. CASE io_socket_connect_fd
  <2>1. pc \in Beginning /\ head' = head /\ Registry(me)
    BY <1>0, <1>6 DEF io_socket_connect_fd, Beginning, Inv
  <2>2. me' = me \/ (Room(me) > 0 /\ me' = [open(me, <<"socket">>) EXCEPT !.conn_fd = Place(me, 1)])
    BY <1>6 DEF io_socket_connect_fd
  <2>3. Registry(me') /\ me'.fd = me.fd
    <3>1. CASE Room(me) > 0 /\ me' = [open(me, <<"socket">>) EXCEPT !.conn_fd = Place(me, 1)]
      <4> DEFINE o == open(me, <<"socket">>)
                 p == Place(me, 1)
      <4>1. p \in Int /\ Registry(o) /\ o.fd = me.fd
        BY <3>1, <2>1, OpenKeeps, PlaceIsInt
      <4>2. me' = [o EXCEPT !.conn_fd = p]
        BY <3>1
      <4> HIDE DEF o, p
      <4> QED BY <4>1, <4>2, SocketNoted
    <3> QED BY <3>1, <2>1, <2>2
  <2> QED BY <2>1, <2>3, <1>1
<1>7. CASE preflight
  BY <1>7, <1>2 DEF preflight, Beginning
<1>8. CASE openpty_fails
  BY <1>8, <1>2 DEF openpty_fails, Beginning
<1>9. CASE bgio_start
  <2>1. pc \in Beginning /\ head' = head /\ Registry(me) /\ Room(me) >= 2 /\ me' = Openpty(me)
    BY <1>0, <1>9 DEF bgio_start, Beginning, Inv
  <2>2. Registry(me') /\ me'.fd = me.fd
    <3> DEFINE o == open(me, <<"ptm", "pts">>)
               p == Place(me, 1)
               q == Place(me, 2)
    <3>1. Room(me) > 0
      BY <2>1, RoomIsNat
    <3>2. p \in Int /\ Registry(o) /\ o.fd = me.fd
      BY <3>1, <2>1, OpenKeeps, PlaceIsInt
    <3>3. me' = [o EXCEPT !.st_master_fd = p, !.st_slave_fd = q]
      BY <2>1 DEF Openpty
    <3> HIDE DEF o, p, q
    <3> QED BY <3>2, <3>3, PtyNoted
  <2> QED BY <2>1, <2>2, <1>1
<1> QED BY <1>4, <1>5, <1>6, <1>7, <1>8, <1>9 DEF process_args

\* The atoms of the master and of the echo task are registered.
LEMMA SetupKeeps == ASSUME Inv, master_setup PROVE Inv'
<1> DEFINE fd == IF Pty(me) THEN me.st_master_fd ELSE me.conn_fd
           m1 == io_add(me, "master", fd)
           m2 == io_add(m1, "stdin", 0)
           m3 == io_add(m2, "stdout", 1)
<1>0. Registry(me) /\ (\A a \in Atom : me.fd[a] = -1) /\ fd \in Int /\ me.fd \in [Atom -> Int]
  BY DEF master_setup, Install, Inv, Running, Final, Beginning, Registry, IsProcess
<1>1. /\ me' \in {m1, m3}
      /\ pc' \in Final \/ pc' = "idle"
  BY DEF master_setup, Bails, Exit, Goto, Final
<1> HIDE DEF fd
<1>2. Registry(m1) /\ m1.fd \in {me.fd, [me.fd EXCEPT !["master"] = fd]}
  BY <1>0, AddKeeps DEF Atom
<1> HIDE DEF m1
<1>3. m1.fd \in [Atom -> Int] /\ \A a \in Atom \ {"master"} : m1.fd[a] = -1
  BY <1>0, <1>2 DEF Registry, IsProcess
<1>4. Registry(m2) /\ m2.fd \in {m1.fd, [m1.fd EXCEPT !["stdin"] = 0]}
  BY <1>2, <1>3, AddKeeps DEF Atom
<1> HIDE DEF m2
<1>5. m2.fd \in [Atom -> Int] /\ \A a \in Atom \ {"master", "stdin"} : m2.fd[a] = -1
  BY <1>3, <1>4 DEF Registry, IsProcess
<1>6. Registry(m3) /\ m3.fd \in {m2.fd, [m2.fd EXCEPT !["stdout"] = 1]}
  BY <1>4, <1>5, AddKeeps DEF Atom
<1> HIDE DEF m3
<1>7. \A a \in RzAtoms : m1.fd[a] = -1 /\ m3.fd[a] = -1
  BY <1>3, <1>5, <1>6 DEF RzAtoms, Atom
<1>8. pc' \notin Beginning
  BY <1>1 DEF Beginning, Final
<1> QED BY <1>1, <1>2, <1>6, <1>7, <1>8 DEF Inv

-----------------------------------------------------------------------------
\* Where the loop is after a step.
LEMMA Follows ==
  \A where \in {"idle", "wait", "dispatch", "sigchild"} :
     Following[where] \in {"idle", "wait", "dispatch", "sigchild"}
BY DEF Following

\* An event of a pipe.
LEMMA PipeKeeps ==
  ASSUME Inv, pipe_auto_read \/ pipe_auto_write
  PROVE  Inv'
<1>1. pc = "dispatch" /\ pc' = pc /\ head' = head
  BY DEF pipe_auto_read, pipe_auto_write, Take
<1>2. Running /\ Registry(me) /\ pc' \notin Beginning
  BY <1>1 DEF Running, Final, Beginning, Inv
<1>3. me.fd \in [Atom -> Int]
  BY <1>2 DEF Registry, IsProcess
<1>4. \A a \in Atom : SinkOf(a) \in Atom /\ Output \in Atom
  BY DEF SinkOf, Output, Atom
<1>5. Turn \in Slot /\ me.connections[Turn] # NoAtom => AtomOf \in Atom
  BY <1>2 DEF AtomOf, Connection, Registry, IsProcess
<1>6. PipeEvent => AtomOf \in Atom
  BY <1>5 DEF PipeEvent, AtomOf, Connection
<1>7. CASE pipe_auto_read
  <2>1. PICK m \in MayEnd(me, AtomOf) : me' \in MayEnd(m, SinkOf(AtomOf))
    BY <1>7 DEF pipe_auto_read
  <2>2. AtomOf \in Atom /\ SinkOf(AtomOf) \in Atom
    BY <1>4, <1>6, <1>7 DEF pipe_auto_read
  <2>3. Registry(m) /\ m.fd \in {me.fd, [me.fd EXCEPT ![AtomOf] = -1]}
    BY <2>1, <2>2, <1>2, MayEndKeeps
  <2>4. Registry(me') /\ me'.fd \in {m.fd, [m.fd EXCEPT ![SinkOf(AtomOf)] = -1]}
    BY <2>1, <2>2, <2>3, MayEndKeeps
  <2>5. \A a \in Atom : m.fd[a] \in {me.fd[a], -1} /\ me'.fd[a] \in {m.fd[a], -1}
    <3>1. m.fd \in [Atom -> Int]
      BY <2>3 DEF Registry, IsProcess
    <3> QED BY <3>1, <2>3, <2>4, <1>3
  <2>6. \A a \in RzAtoms : me'.fd[a] \in {me.fd[a], -1}
    BY <2>5 DEF RzAtoms, Atom
  <2> QED BY <1>1, <1>2, <2>4, <2>6, FewerKeeps
<1>8. CASE pipe_auto_write
  <2> DEFINE b == IF AtomOf = "master" THEN "master" ELSE Output
  <2>1. me' \in MayEnd(me, b) /\ b \in Atom
    BY <1>8, <1>4 DEF pipe_auto_write, Atom, Output
  <2> HIDE DEF b
  <2>2. Registry(me') /\ me'.fd \in {me.fd, [me.fd EXCEPT ![b] = -1]}
    BY <2>1, <1>2, MayEndKeeps
  <2>3. \A a \in RzAtoms : me'.fd[a] \in {me.fd[a], -1}
    BY <2>2, <1>3 DEF RzAtoms, Atom
  <2> QED BY <1>1, <1>2, <2>2, <2>3, FewerKeeps
<1> QED BY <1>7, <1>8

\* A transfer starts, or fails to.
LEMMA InstallKeeps ==
  ASSUME Inv, StartFails \/ rztask_install
  PROVE  Inv'
<1>1. CASE StartFails
  BY <1>1, FinalKeeps DEF StartFails, Exit, Final
<1>2. CASE rztask_install
  <2> DEFINE o == open(me, RzPipes)
             end == RzFds(me)
             installed == RzInstalled(o, end)
  <2>1. pc = "dispatch" /\ head = "echo" /\ Room(me) >= 6
    BY <1>2 DEF rztask_install, Announced, Take
  <2>2. Registry(me) /\ \A a \in RzAtoms : me.fd[a] < 0
    BY <2>1 DEF Inv, Running, Final
  <2>3. Registry(o) /\ o.fd = me.fd
    BY <2>2, OpenKeeps
  <2>4. end \in [1..6 -> Int]
    <3>1. ASSUME NEW k \in 1..6 PROVE Place(me, k) \in Int
      <4>1. k \in Nat \ {0} /\ k <= Room(me)
        BY <2>1, RoomIsNat
      <4> QED BY <4>1, PlaceIsFd, MaxFdAssumption DEF Fd
    <3> QED BY <3>1 DEF RzFds
  <2>5. /\ \/ installed.err = "none" /\ head' = "rz" /\ pc' = pc
           \/ pc' \in Final
        /\ me' \in {installed, Ended(installed, "rzwrite")}
    BY <1>2 DEF rztask_install, Bails, Exit, Goto, Final
  <2> HIDE DEF o, end
  <2>6. Registry(installed)
    BY <2>2, <2>3, <2>4, RzInstalledKeeps
  <2> HIDE DEF installed
  <2>7. Registry(me')
    BY <2>5, <2>6, MayEndKeeps DEF Atom
  <2>8. CASE pc' \in Final
    BY <2>8, FinalKeeps
  <2>9. CASE head' = "rz" /\ pc' = pc
    BY <2>1, <2>7, <2>9 DEF Inv, Beginning
  <2> QED BY <2>5, <2>8, <2>9
<1> QED BY <1>1, <1>2

\* rz is reaped and its task removed.
LEMMA ReapKeeps == ASSUME Inv, task_default_sigchild PROVE Inv'
<1>1. pc = "sigchild" /\ (pc' \in Final \/ (head' = "echo" /\ pc' = "clear"))
  BY DEF task_default_sigchild, Goto, Final
<1>2. CASE pc' \in Final
  BY <1>2, FinalKeeps
<1>3. CASE head' = "echo" /\ pc' = "clear"
  <2>1. Registry(me)
    BY <1>1 DEF Inv, Running, Final
  <2>2. PICK m : /\ m \in MayEnd(me, "master") \union {me}
                 /\ me' \in {RzRemoved(Ended(m, "rzread")), RzRemoved(m)}
    BY <1>3 DEF task_default_sigchild, Goto
  <2>3. Registry(m)
    BY <2>1, <2>2, MayEndKeeps DEF Atom
  <2>4. Registry(Ended(m, "rzread"))
    BY <2>3, MayEndKeeps DEF Atom
  <2>5. Registry(me') /\ \A a \in RzAtoms : me'.fd[a] = -1
    BY <2>2, <2>3, <2>4, RzRemovedKeeps DEF RzAtoms, Atom
  <2>6. pc' \notin Beginning
    BY <1>3 DEF Beginning
  <2> QED BY <2>5, <2>6 DEF Inv
<1> QED BY <1>1, <1>2, <1>3

\* What is left of the loop.
LEMMA LoopKeeps == ASSUME Inv, Loop PROVE Inv'
<1> USE DEF Goto, Exit
<1>1. CASE master_idle
  <2>1. pc = "idle" /\ Running
    BY <1>1 DEF master_idle, Running, Final
  <2>2. CASE RemoveAll
    BY <2>2, FinalKeeps DEF RemoveAll, Final
  <2>3. CASE me' \in IdleProc(me) /\ pc' = Following["idle"] /\ UNCHANGED head
    <3>1. me' \in {me, [me EXCEPT !.foreign = @ \union Misused(me, 1, "out")]}
      BY <2>3 DEF IdleProc
    <3>2. Registry(me)
      BY <2>1 DEF Inv
    <3>3. SameAtoms(me, me') /\ me'.conn_fd = me.conn_fd /\ me'.st_master_fd = me.st_master_fd
      BY <3>1, <3>2 DEF Registry, IsProcess, SameAtoms, Fields
    <3>4. Registry(me') /\ me'.fd = me.fd
      BY <3>2, <3>3, SameAtomsKeep DEF Registry, IsProcess, SameAtoms
    <3>5. pc' \notin Beginning
      BY <2>3, Follows DEF Beginning
    <3> QED BY <2>1, <2>3, <3>4, <3>5, FewerKeeps
  <2> QED BY <1>1, <2>2, <2>3 DEF master_idle
<1>2. CASE io_wait \/ NoSigchild \/ SigchildCleared \/ DispatchDone
  <2>1. /\ pc \in {"wait", "sigchild", "clear", "dispatch"}
        /\ pc' \in {Following["wait"], Following["sigchild"], Following["dispatch"]}
        /\ UNCHANGED <<me, head>>
    BY <1>2 DEF io_wait, NoSigchild, SigchildCleared, DispatchDone
  <2>2. Running /\ pc' \notin Beginning
    BY <2>1, Follows DEF Running, Final, Beginning
  <2> QED BY <2>1, <2>2, AloneKeeps
<1>3. CASE Crash
  BY <1>3, FinalKeeps DEF Crash, Final
<1>4. CASE pipe_auto_read \/ pipe_auto_write
  BY <1>4, PipeKeeps
<1>5. CASE IgnoredEvent
  BY <1>5, AloneKeeps DEF IgnoredEvent, Take, Running, Final
<1>6. CASE cherr_proc
  <2>1. pc = "dispatch" /\ pc' = pc /\ head' = head /\ me' \in {me, io_del(me, "rzerr")}
    BY <1>6 DEF cherr_proc, Take
  <2>2. Running /\ Registry(me) /\ pc' \notin Beginning
    BY <2>1 DEF Running, Final, Beginning, Inv
  <2>3. /\ Registry(io_del(me, "rzerr"))
        /\ io_del(me, "rzerr").fd = [me.fd EXCEPT !["rzerr"] = -1]
    BY <2>2, DelKeeps DEF Atom
  <2>4. Registry(me') /\ me'.fd \in {me.fd, [me.fd EXCEPT !["rzerr"] = -1]}
    BY <2>1, <2>2, <2>3
  <2>5. me.fd \in [Atom -> Int]
    BY <2>2 DEF Registry, IsProcess
  <2>6. \A a \in RzAtoms : me'.fd[a] \in {me.fd[a], -1}
    BY <2>4, <2>5 DEF RzAtoms, Atom
  <2> QED BY <2>1, <2>2, <2>4, <2>6, FewerKeeps
<1>7. CASE StartFails \/ rztask_install
  BY <1>7, InstallKeeps
<1>8. CASE task_default_sigchild
  BY <1>8, ReapKeeps
<1>9. CASE master_pipe_sigchild
  BY <1>9, FinalKeeps DEF master_pipe_sigchild, RemoveAll, Final
<1> QED BY <1>1, <1>2, <1>3, <1>4, <1>5, <1>6, <1>7, <1>8, <1>9 DEF Loop, Dispatch

LEMMA NextInv == Inv /\ [Next]_vars => Inv'
<1> SUFFICES ASSUME Inv, [Next]_vars PROVE Inv'
  OBVIOUS
<1>1. CASE process_args \/ io_socket_connect_fd \/ preflight \/ openpty_fails \/ bgio_start
  BY <1>1, StartKeeps
<1>2. CASE master_setup
  BY <1>2, SetupKeeps
<1>3. CASE Loop
  BY <1>3, LoopKeeps
<1>4. CASE ShellExit \/ RzExit \/ RemoveDir \/ Done \/ UNCHANGED vars
  <2>1. UNCHANGED <<pc, me, head>>
    BY <1>4 DEF ShellExit, RzExit, RemoveDir, Done, vars
  <2> QED BY <2>1 DEF Inv, Running
<1> QED BY <1>1, <1>2, <1>3, <1>4 DEF Next

(***************************************************************************)
(* While rzh runs, select() sees every atom and every atom is found at its *)
(* descriptor, for any invocations, tables of any size, any number of      *)
(* inherited descriptors and of transfers.                                 *)
(***************************************************************************)
THEOREM ProcessRegistered == Spec => []Registered
<1>1. Init => Inv
  BY InitInv
<1>2. Inv /\ [Next]_vars => Inv'
  BY NextInv
<1>3. Inv => Registered
  BY DEF Inv, Registered, Registry
<1> QED BY <1>1, <1>2, <1>3, PTL DEF Spec

-----------------------------------------------------------------------------
\* To whom the events of select() go: the places of the loop.
Looping == {"idle", "wait", "dispatch", "sigchild", "clear"}

\* Where the atoms are that no transfer moves.
Steady(m) ==
  /\ m.fd["stdin"] \in {0, -1} /\ m.fd["stdout"] \in {1, -1}
  /\ m.fd["master"] \notin {0, 1}

(***************************************************************************)
(* While no rz task is there, select can only have reported stdin, stdout  *)
(* and the master, which comes last: when it starts a transfer, nothing is *)
(* left that the new descriptors could be taken for.                       *)
(***************************************************************************)
Own ==
  /\ pc \in Looping => Steady(me)
  /\ pc = "sigchild" => Pending = {}
  /\ pc = "dispatch" =>
       /\ Pending \subseteq Slot
       /\ head # "rz" /\ me.fd["master"] >= 0 => Pending \subseteq {0, 1, me.fd["master"]}
       /\ reported # transfers =>
            head = "rz" /\ \A f \in Pending : Connection(me, f) \notin RzAtoms

\* What is registered for a descriptor is the atom that is there.
LEMMA RegisteredOnce ==
  ASSUME NEW m, Registry(m), NEW f \in Slot, NEW a \in Atom
  PROVE  Connection(m, f) = a <=> m.fd[a] = f
<1>1. m.fd \in [Atom -> Int] /\ m.connections \in [Slot -> Atom \union {NoAtom}] /\ Matched(m)
  BY DEF Registry, IsProcess
<1>2. f >= 0 /\ Connection(m, f) = m.connections[f]
  BY FdSetAssumption DEF Slot, Connection
<1>3. ASSUME Connection(m, f) = a PROVE m.fd[a] = f
  BY <1>1, <1>2, <1>3, NoAtomAssumption DEF Matched
<1>4. ASSUME m.fd[a] = f PROVE Connection(m, f) = a
  BY <1>1, <1>2, <1>4 DEF Matched
<1> QED BY <1>3, <1>4

\* An io_add that succeeds puts the atom where it should be.
LEMMA AddDone ==
  ASSUME NEW m, Registry(m), NEW a \in Atom, NEW f \in Int, io_add(m, a, f).err = "none"
  PROVE  m.err = "none" /\ io_add(m, a, f).fd = [m.fd EXCEPT ![a] = f]
<1>1. DOMAIN m = Fields /\ m.fd \in [Atom -> Int]
  BY DEF Registry, IsProcess
<1>2. m.err = "none"
  BY DEF io_add
<1>3. io_add_error(m, f) = "none"
  <2>1. SUFFICES ASSUME io_add_error(m, f) # "none" PROVE FALSE
    OBVIOUS
  <2>2. io_add(m, a, f) = [m EXCEPT !.err = io_add_error(m, f)]
    BY <2>1, <1>2 DEF io_add
  <2> QED BY <2>1, <2>2, <1>1 DEF Fields
<1>4. io_add(m, a, f) = [m EXCEPT !.connections[f] = a, !.fd[a] = f, !.max_fd = Max({@, f})]
  BY <1>2, <1>3 DEF io_add
<1> QED BY <1>1, <1>2, <1>4 DEF Fields

\* The first of the pending events is the lowest.
LEMMA TurnIsLowest ==
  ASSUME Pending \subseteq Slot, Pending # {}
  PROVE  Turn \in Pending /\ \A f \in Pending : Turn <= f
<1>1. Pending \in SUBSET Nat
  BY FdSetAssumption DEF Slot
<1>2. \E x \in Pending : \A y \in Pending : x <= y
  BY <1>1, Least
<1> QED BY <1>2 DEF Turn, Min

LEMMA TakeLess ==
  ASSUME Take
  PROVE  /\ pc = "dispatch" /\ Pending # {} /\ reported' = reported
         /\ Pending' \subseteq Pending
BY DEF Take, Pending

-----------------------------------------------------------------------------
\* At the start the atoms of the console and the echo task take their places.
LEMMA SetupOwns == ASSUME Inv, Own, master_setup PROVE Own'
<1> DEFINE fd == IF Pty(me) THEN me.st_master_fd ELSE me.conn_fd
           m1 == io_add(me, "master", fd)
           m2 == io_add(m1, "stdin", 0)
           m3 == io_add(m2, "stdout", 1)
<1>0. Registry(me) /\ (\A a \in Atom : me.fd[a] = -1) /\ fd \in Int /\ me.fd \in [Atom -> Int]
  BY DEF master_setup, Install, Inv, Running, Final, Beginning, Registry, IsProcess
<1>1. pc' \in Final \/ (pc' = "idle" /\ me' = m3 /\ m3.err = "none")
  BY DEF master_setup, Bails, Exit, Goto, Final
<1>2. CASE pc' \in Final
  BY <1>2 DEF Own, Final, Looping
<1>3. CASE pc' = "idle" /\ me' = m3 /\ m3.err = "none"
  <2> HIDE DEF fd
  <2>1. Registry(m1) /\ m1.fd \in {me.fd, [me.fd EXCEPT !["master"] = fd]}
    BY <1>0, AddKeeps DEF Atom
  <2> HIDE DEF m1
  <2>2. m1.fd \in [Atom -> Int] /\ m1.fd["stdin"] < 0 /\ m1.fd["stdout"] < 0
    BY <1>0, <2>1 DEF Atom
  <2>3. Registry(m2) /\ m2.fd \in {m1.fd, [m1.fd EXCEPT !["stdin"] = 0]}
    BY <2>1, <2>2, AddKeeps DEF Atom
  <2>4. m2.err = "none" => m2.fd = [m1.fd EXCEPT !["stdin"] = 0]
    BY <2>1, AddDone DEF Atom
  <2> HIDE DEF m2
  <2>5. m2.fd \in [Atom -> Int] /\ m2.fd["stdout"] < 0
    BY <2>2, <2>3 DEF Atom
  <2>6. Registry(m3) /\ m2.err = "none" /\ m3.fd = [m2.fd EXCEPT !["stdout"] = 1]
    BY <1>3, <2>3, <2>5, AddKeeps, AddDone DEF Atom
  <2> HIDE DEF m3
  <2>7. m3.fd["stdin"] = 0 /\ m3.fd["stdout"] = 1
    BY <2>2, <2>4, <2>5, <2>6 DEF Atom
  <2>8. m3.fd["master"] \notin {0, 1}
    <3>1. Registry(m3) /\ {"stdin", "stdout", "master"} \subseteq Atom
      BY <2>6 DEF Atom
    <3>2. \A a \in Atom : m3.fd[a] >= 0 => m3.connections[m3.fd[a]] = a
      BY <3>1, RegisteredSlot
    <3>3. m3.connections[0] = "stdin" /\ m3.connections[1] = "stdout"
      BY <3>1, <3>2, <2>7
    <3>4. m3.fd["master"] >= 0 => m3.connections[m3.fd["master"]] = "master"
      BY <3>1, <3>2
    <3> QED BY <3>3, <3>4
  <2> QED BY <1>3, <2>7, <2>8 DEF Own, Steady
<1> QED BY <1>1, <1>2, <1>3

-----------------------------------------------------------------------------
\* Atoms that are only taken out stay where they were.
LEMMA SteadyKeeps ==
  ASSUME NEW m, NEW n, Steady(m), \A a \in Atom \ RzAtoms : n.fd[a] \in {m.fd[a], -1}
  PROVE  Steady(n)
BY DEF Steady, Atom, RzAtoms

\* An event that takes atoms out at most.
LEMMA FewerOwn ==
  ASSUME Inv, Inv', Own, Take, pc' = "dispatch", head' = head, transfers' = transfers,
         \A a \in Atom : me'.fd[a] \in {me.fd[a], -1}
  PROVE  Own'
<1>1. /\ pc = "dispatch" /\ reported' = reported /\ Pending' \subseteq Pending
      /\ Registry(me) /\ Registry(me')
  BY TakeLess DEF Inv, Running, Final
<1>2. Steady(me')
  BY <1>1, SteadyKeeps DEF Own, Looping
<1>3. Pending' \subseteq Slot
  BY <1>1 DEF Own
<1>4. me'.fd["master"] >= 0 => me'.fd["master"] = me.fd["master"]
  BY DEF Atom
<1>5. ASSUME NEW f \in Pending', Connection(me, f) \notin RzAtoms
      PROVE  Connection(me', f) \notin RzAtoms
  <2>1. SUFFICES ASSUME NEW a \in RzAtoms, Connection(me', f) = a PROVE FALSE
    OBVIOUS
  <2>2. a \in Atom /\ f \in Slot /\ f >= 0
    BY <1>3, FdSetAssumption DEF Slot, RzAtoms, Atom
  <2>3. me'.fd[a] = f
    BY <1>1, <2>1, <2>2, RegisteredOnce
  <2>4. me.fd[a] = f
    BY <2>2, <2>3
  <2> QED BY <1>1, <1>5, <2>2, <2>4, RegisteredOnce
<1> QED BY <1>1, <1>2, <1>3, <1>4, <1>5 DEF Own

LEMMA EventOwns ==
  ASSUME Inv, Inv', Own, pipe_auto_read \/ pipe_auto_write \/ IgnoredEvent \/ cherr_proc
  PROVE  Own'
<1>1. Take /\ pc = "dispatch" /\ pc' = pc /\ head' = head /\ transfers' = transfers
  BY DEF pipe_auto_read, pipe_auto_write, IgnoredEvent, cherr_proc, Take, Settled
<1>2. Registry(me) /\ me.fd \in [Atom -> Int]
  BY <1>1 DEF Inv, Running, Final, Registry, IsProcess
<1>3. \A a \in Atom : SinkOf(a) \in Atom /\ Output \in Atom
  BY DEF SinkOf, Output, Atom
<1>4. AtomOf \in Atom \union {NoAtom}
  BY <1>2 DEF AtomOf, Connection, Registry, IsProcess
<1>5. CASE pipe_auto_read
  <2>1. PICK m \in MayEnd(me, AtomOf) : me' \in MayEnd(m, SinkOf(AtomOf))
    BY <1>5 DEF pipe_auto_read
  <2>2. AtomOf \in Atom /\ SinkOf(AtomOf) \in Atom
    BY <1>3, <1>4, <1>5 DEF pipe_auto_read, PipeEvent
  <2>3. Registry(m) /\ m.fd \in {me.fd, [me.fd EXCEPT ![AtomOf] = -1]}
    BY <2>1, <2>2, <1>2, MayEndKeeps
  <2>4. Registry(me') /\ me'.fd \in {m.fd, [m.fd EXCEPT ![SinkOf(AtomOf)] = -1]}
    BY <2>1, <2>2, <2>3, MayEndKeeps
  <2>5. m.fd \in [Atom -> Int]
    BY <2>3 DEF Registry, IsProcess
  <2>6. \A a \in Atom : m.fd[a] \in {me.fd[a], -1} /\ me'.fd[a] \in {m.fd[a], -1}
    BY <2>3, <2>4, <2>5, <1>2
  <2>7. \A a \in Atom : me'.fd[a] \in {me.fd[a], -1}
    BY <2>6
  <2> QED BY <1>1, <2>7, FewerOwn
<1>6. CASE pipe_auto_write
  <2> DEFINE b == IF AtomOf = "master" THEN "master" ELSE Output
  <2>1. me' \in MayEnd(me, b) /\ b \in Atom
    BY <1>6, <1>3 DEF pipe_auto_write, Atom, Output
  <2> HIDE DEF b
  <2>2. me'.fd \in {me.fd, [me.fd EXCEPT ![b] = -1]}
    BY <2>1, <1>2, MayEndKeeps
  <2>3. \A a \in Atom : me'.fd[a] \in {me.fd[a], -1}
    BY <2>2, <1>2
  <2> QED BY <1>1, <2>3, FewerOwn
<1>7. CASE IgnoredEvent
  <2>1. me' = me
    BY <1>7 DEF IgnoredEvent
  <2> QED BY <1>1, <2>1, FewerOwn
<1>8. CASE cherr_proc
  <2>1. me' \in {me, io_del(me, "rzerr")} /\ "rzerr" \in Atom
    BY <1>8 DEF cherr_proc, Atom
  <2>2. me'.fd \in {me.fd, [me.fd EXCEPT !["rzerr"] = -1]}
    BY <2>1, <1>2, DelKeeps
  <2>3. \A a \in Atom : me'.fd[a] \in {me.fd[a], -1}
    BY <2>2, <1>2
  <2> QED BY <1>1, <2>3, FewerOwn
<1> QED BY <1>5, <1>6, <1>7, <1>8

\* The master's event that starts a transfer is the last of its pass.
LEMMA InstallOwns == ASSUME Inv, Inv', Own, rztask_install PROVE Own'
<1> DEFINE o == open(me, RzPipes)
           end == RzFds(me)
           installed == RzInstalled(o, end)
<1>1. /\ Take /\ pc = "dispatch" /\ head = "echo" /\ AtomOf = "master" /\ Room(me) >= 6
      /\ Pending # {}
  BY DEF rztask_install, Announced, Take
<1>2. Registry(me) /\ (\A a \in RzAtoms : me.fd[a] < 0) /\ me.fd \in [Atom -> Int]
  BY <1>1 DEF Inv, Running, Final, Registry, IsProcess
<1>3. Registry(o) /\ o.fd = me.fd
  BY <1>2, OpenKeeps
<1>4. end \in [1..6 -> Int]
  <2>1. ASSUME NEW k \in 1..6 PROVE Place(me, k) \in Int
    <3>1. k \in Nat \ {0} /\ k <= Room(me)
      BY <1>1, RoomIsNat
    <3> QED BY <3>1, PlaceIsFd, MaxFdAssumption DEF Fd
  <2> QED BY <2>1 DEF RzFds
<1>5. /\ pc' \in Final \/ (pc' = "dispatch" /\ head' = "rz")
      /\ me' \in {installed, Ended(installed, "rzwrite")}
  BY <1>1 DEF rztask_install, Bails, Exit, Goto, Final
<1> HIDE DEF o, end
<1>6. Registry(installed) /\ \A a \in Atom \ RzAtoms : installed.fd[a] = me.fd[a]
  BY <1>2, <1>3, <1>4, RzInstalledKeeps
<1> HIDE DEF installed
<1>7. Registry(me') /\ \A a \in Atom \ RzAtoms : me'.fd[a] = me.fd[a]
  <2>1. installed.fd \in [Atom -> Int] /\ "rzwrite" \in Atom /\ "rzwrite" \in RzAtoms
    BY <1>6 DEF Registry, IsProcess, Atom, RzAtoms
  <2>2. Registry(me') /\ me'.fd \in {installed.fd, [installed.fd EXCEPT !["rzwrite"] = -1]}
    BY <1>5, <1>6, <2>1, MayEndKeeps
  <2> QED BY <1>6, <2>1, <2>2
<1>8. CASE pc' \in Final
  BY <1>8 DEF Own, Final, Looping
<1>9. CASE pc' = "dispatch" /\ head' = "rz"
  <2> DEFINE f == me.fd["master"]
  <2>1. Steady(me) /\ Pending \subseteq Slot
    BY <1>1 DEF Own, Looping
  <2>2. Turn \in Pending /\ Turn \in Slot /\ \A g \in Pending : Turn <= g
    BY <1>1, <2>1, TurnIsLowest
  <2>3. f = Turn /\ "master" \in Atom
    BY <1>1, <1>2, <2>2, RegisteredOnce DEF AtomOf, Atom
  <2>4. f \in Slot /\ f \in Nat /\ f \notin {0, 1}
    BY <2>1, <2>2, <2>3, FdSetAssumption DEF Slot, Steady
  <2>5. Pending \subseteq {0, 1, f}
    BY <1>1, <2>4 DEF Own
  <2>6. Pending' \subseteq {f}
    <3>1. Pending' \subseteq Pending
      BY <1>1, TakeLess
    <3>2. \A g \in Pending : g = f
      BY <2>2, <2>3, <2>4, <2>5
    <3> QED BY <3>1, <3>2
  <2>7. me'.fd["master"] = f /\ "master" \notin RzAtoms
    BY <1>7 DEF Atom, RzAtoms
  <2>8. Connection(me', f) = "master"
    BY <1>7, <2>3, <2>4, <2>7, RegisteredOnce
  <2>9. Steady(me')
    BY <1>7, <2>1, SteadyKeeps
  <2> HIDE DEF f
  <2> QED BY <1>9, <2>4, <2>6, <2>7, <2>8, <2>9 DEF Own
<1> QED BY <1>5, <1>8, <1>9

\* Without rz, select() watches nothing but stdin, stdout and the master.
LEMMA WaitOwns == ASSUME Inv, Own, io_wait PROVE Own'
<1> DEFINE W == Watched({"stdin", "master", "rzread", "rzerr"})
                \union Watched({"stdout", "master", "rzwrite"})
<1>1. /\ pc = "wait" /\ pc' = "dispatch" /\ UNCHANGED <<me, head, transfers>>
      /\ reported' = transfers /\ Pending' \subseteq W
  BY DEF io_wait, Goto, Following, Pending
<1>2. Registry(me) /\ me.fd \in [Atom -> Int] /\ Steady(me)
  BY <1>1 DEF Inv, Running, Final, Registry, IsProcess, Own, Looping
<1>3. W \subseteq Slot /\ \A f \in W : Connection(me, f) \in Atom
  BY NoAtomAssumption DEF Watched, Connection, Atom
<1>4. ASSUME head # "rz", NEW f \in W PROVE f \in {0, 1, me.fd["master"]}
  <2>1. \A a \in RzAtoms : me.fd[a] < 0
    BY <1>1, <1>4 DEF Inv, Running, Final
  <2>2. PICK a \in Atom : Connection(me, f) = a
    BY <1>3
  <2>3. me.fd[a] = f /\ f \in Nat
    BY <1>2, <1>3, <2>2, RegisteredOnce, FdSetAssumption DEF Slot
  <2>4. a \in {"stdin", "stdout", "master"}
    BY <2>1, <2>3 DEF Atom, RzAtoms
  <2> QED BY <1>2, <2>3, <2>4 DEF Steady
<1> HIDE DEF W
<1> QED BY <1>1, <1>2, <1>3, <1>4 DEF Own

\* rz is reaped.
LEMMA ReapOwns == ASSUME Inv, Own, task_default_sigchild PROVE Own'
<1>1. pc = "sigchild" /\ (pc' \in Final \/ (head' = "echo" /\ pc' = "clear"))
  BY DEF task_default_sigchild, Goto, Final
<1>2. CASE pc' \in Final
  BY <1>2 DEF Own, Final, Looping
<1>3. CASE head' = "echo" /\ pc' = "clear"
  <2>1. Registry(me) /\ Steady(me) /\ me.fd \in [Atom -> Int]
    BY <1>1 DEF Inv, Running, Final, Own, Looping, Registry, IsProcess
  <2>2. PICK m : /\ m \in MayEnd(me, "master") \union {me}
                 /\ me' \in {RzRemoved(Ended(m, "rzread")), RzRemoved(m)}
    BY <1>3 DEF task_default_sigchild, Goto
  <2>3. Registry(m) /\ m.fd \in {me.fd, [me.fd EXCEPT !["master"] = -1]}
    BY <2>1, <2>2, MayEndKeeps DEF Atom
  <2>4. m.fd \in [Atom -> Int]
    BY <2>3 DEF Registry, IsProcess
  <2> DEFINE e == Ended(m, "rzread")
  <2>5. Registry(e) /\ e.fd \in {m.fd, [m.fd EXCEPT !["rzread"] = -1]}
    BY <2>3, MayEndKeeps DEF Atom
  <2> HIDE DEF e
  <2>6. \A a \in Atom \ RzAtoms : m.fd[a] \in {me.fd[a], -1} /\ e.fd[a] = m.fd[a]
    BY <2>1, <2>3, <2>4, <2>5 DEF RzAtoms
  <2>7. \A a \in Atom \ RzAtoms : me'.fd[a] \in {me.fd[a], -1}
    <3>1. CASE me' = RzRemoved(e)
      BY <3>1, <2>5, <2>6, RzRemovedKeeps
    <3>2. CASE me' = RzRemoved(m)
      BY <3>2, <2>3, <2>6, RzRemovedKeeps
    <3> QED BY <3>1, <3>2, <2>2 DEF e
  <2> QED BY <1>3, <2>1, <2>7, SteadyKeeps DEF Own
<1> QED BY <1>1, <1>2, <1>3

\* What is left of the loop.
LEMMA LoopOwns == ASSUME Inv, Inv', Own, Loop PROVE Own'
<1>1. CASE master_idle
  <2>1. CASE RemoveAll
    BY <2>1 DEF RemoveAll, Exit, Own, Looping
  <2>2. CASE me' \in IdleProc(me) /\ pc' = "wait"
    <3>1. pc = "idle" /\ DOMAIN me = Fields
      BY <1>1 DEF master_idle, Inv, Running, Final, Registry, IsProcess
    <3>2. me'.fd = me.fd
      BY <2>2, <3>1 DEF IdleProc, Fields
    <3> QED BY <2>2, <3>1, <3>2 DEF Own, Steady, Looping
  <2> QED BY <1>1, <2>1, <2>2 DEF master_idle, Goto, Following
<1>2. CASE io_wait
  BY <1>2, WaitOwns
<1>3. CASE DispatchDone
  <2>1. pc = "dispatch" /\ pc' = "sigchild" /\ UNCHANGED <<me, events>> /\ Pending = {}
    BY <1>3 DEF DispatchDone, Goto, Following
  <2>2. Pending' = {}
    BY <2>1 DEF Pending, events
  <2> QED BY <2>1, <2>2 DEF Own, Looping
<1>4. CASE NoSigchild \/ SigchildCleared
  <2>1. pc \in {"sigchild", "clear"} /\ pc' = "idle" /\ me' = me
    BY <1>4 DEF NoSigchild, SigchildCleared, Goto, Following
  <2> QED BY <2>1 DEF Own, Looping
<1>5. CASE Crash \/ StartFails \/ master_pipe_sigchild
  <2>1. pc' \in {"crashed", "exited"}
    BY <1>5 DEF Crash, StartFails, master_pipe_sigchild, RemoveAll, Exit, Goto
  <2> QED BY <2>1 DEF Own, Looping
<1>6. CASE pipe_auto_read \/ pipe_auto_write \/ IgnoredEvent \/ cherr_proc
  BY <1>6, EventOwns
<1>7. CASE rztask_install
  BY <1>7, InstallOwns
<1>8. CASE task_default_sigchild
  BY <1>8, ReapOwns
<1> QED BY <1>1, <1>2, <1>3, <1>4, <1>5, <1>6, <1>7, <1>8 DEF Loop, Dispatch

\* Before the loop there is nothing to own.
LEMMA StartOwns ==
  ASSUME process_args \/ io_socket_connect_fd \/ preflight \/ openpty_fails \/ bgio_start
  PROVE  Own'
<1>1. pc' \notin Looping
  <2> USE DEF Proceed, Refuse, Exit, Goto, Looping
  <2>1. CASE process_args
    BY <2>1 DEF process_args, RzOption, ConnectOption, LogOption, FifoOption, QuietOption,
                Directory, LastOption, ArgsDone, Option
  <2>2. CASE io_socket_connect_fd
    BY <2>2 DEF io_socket_connect_fd
  <2>3. CASE preflight
    BY <2>3 DEF preflight
  <2>4. CASE openpty_fails
    BY <2>4 DEF openpty_fails
  <2>5. CASE bgio_start
    BY <2>5 DEF bgio_start
  <2> QED BY <2>1, <2>2, <2>3, <2>4, <2>5
<1> QED BY <1>1 DEF Own, Looping

LEMMA NextOwns == Inv /\ Inv' /\ Own /\ [Next]_vars => Own'
<1> SUFFICES ASSUME Inv, Inv', Own, [Next]_vars PROVE Own'
  OBVIOUS
<1>1. CASE process_args \/ io_socket_connect_fd \/ preflight \/ openpty_fails \/ bgio_start
  BY <1>1, StartOwns
<1>2. CASE master_setup
  BY <1>2, SetupOwns
<1>3. CASE Loop
  BY <1>3, LoopOwns
<1>4. CASE ShellExit \/ RzExit \/ RemoveDir \/ Done \/ UNCHANGED vars
  <2>1. UNCHANGED <<pc, me, head, events, transfers>>
    BY <1>4 DEF ShellExit, RzExit, RemoveDir, Done, vars
  <2>2. UNCHANGED <<gfd_read, gfd_write, reported>>
    BY <2>1 DEF events
  <2>3. Pending' = Pending
    BY <2>2 DEF Pending
  <2> QED BY <2>1, <2>2, <2>3 DEF Own
<1> QED BY <1>1, <1>2, <1>3, <1>4 DEF Next

(***************************************************************************)
(* rzh.c:444: an event that select reported before a transfer started is   *)
(* never given to the transfer, for any invocations, sizes of the tables   *)
(* and number of transfers.                                                *)
(***************************************************************************)
THEOREM ProcessEventToOwner == Spec => []EventToOwner
<1>1. Init => Inv
  BY InitInv
<1>2. Init => Own
  BY DEF Init, Own, Looping
<1>3. Inv /\ [Next]_vars => Inv'
  BY NextInv
<1>4. Inv /\ Inv' /\ Own /\ [Next]_vars => Own'
  BY NextOwns
<1>5. Own => EventToOwner
  BY DEF Own, EventToOwner
<1> QED BY <1>1, <1>2, <1>3, <1>4, <1>5, PTL DEF Spec

-----------------------------------------------------------------------------
(***************************************************************************)
(* The command: for_tokens finds the words of a string.  The words from a  *)
(* place on are a token and the words from its end on; so they obey the    *)
(* equation that defines Tokens, and only they do.                         *)
(***************************************************************************)
\* Where the pieces without blanks start that a scan from i on comes to.
StartsFrom(s, i) == {j \in i..Len(s) : s[j] \notin Blank /\ (j = i \/ s[j - 1] \in Blank)}

EndOf(s, i) == CHOOSE e \in i..Len(s) : /\ \A j \in i..e : s[j] \notin Blank
                                        /\ e = Len(s) \/ s[e + 1] \in Blank

Rank(S, i) == Cardinality({j \in S : j <= i})
Kth(S, k) == CHOOSE i \in S : Rank(S, i) = k

Pieces(s, S) == [k \in 1..Cardinality(S) |-> SubSeq(s, Kth(S, k), EndOf(s, Kth(S, k)))]

\* Words is about the starts that a scan from the first place on comes to.
LEMMA WordsArePieces == ASSUME NEW s \in Seq(Char) PROVE Words(s) = Pieces(s, StartsFrom(s, 1))
<1>1. WordStarts(s) = StartsFrom(s, 1)
  BY DEF WordStarts, StartsFrom
<1>2. Words(s) = Pieces(s, WordStarts(s))
  BY DEF Words, Pieces, Kth, Rank, EndOf
<1> QED BY <1>1, <1>2

LEMMA MinIs ==
  ASSUME NEW T \in SUBSET Nat, T # {}
  PROVE  Min(T) \in T /\ \A y \in T : Min(T) <= y
<1>1. \E x \in T : \A y \in T : x <= y
  BY Least
<1> QED BY <1>1 DEF Min

\* A scan stops at the first character that it does not skip, or past the last.
LEMMA SkipsTo ==
  ASSUME NEW n \in Nat, NEW i \in 1..n + 1, NEW P \in SUBSET (i..n)
  PROVE  LET m == Min({n + 1} \union P)
         IN  m \in i..n + 1 /\ (\A j \in i..m - 1 : j \notin P) /\ (m <= n => m \in P)
<1> DEFINE T == {n + 1} \union P
           m == Min(T)
<1>1. T \in SUBSET Nat /\ T # {}
  OBVIOUS
<1> HIDE DEF T
<1>2. m \in T /\ \A y \in T : m <= y
  BY <1>1, MinIs
<1> HIDE DEF m
<1>3. m \in i..n + 1
  BY <1>2 DEF T
<1>4. ASSUME NEW j \in i..m - 1 PROVE j \notin P
  BY <1>2, <1>3 DEF T
<1>5. m <= n => m \in P
  BY <1>2 DEF T
<1> QED BY <1>3, <1>4, <1>5 DEF m, T

LEMMA SkipBlanksTo ==
  ASSUME NEW s \in Seq(Char), NEW i \in 1..Len(s) + 1
  PROVE  LET tok == SkipBlanks(s, i)
         IN  /\ tok \in i..Len(s) + 1 /\ \A j \in i..tok - 1 : s[j] \in Blank
             /\ tok <= Len(s) => s[tok] \notin Blank
<1> DEFINE n == Len(s)
           P == {j \in i..n : s[j] \notin Blank}
           tok == Min({n + 1} \union P)
<1>0. n \in Nat
  OBVIOUS
<1>1. SkipBlanks(s, i) = tok
  BY DEF SkipBlanks
<1>2. P \in SUBSET (i..n) /\ \A j \in i..n : j \notin P <=> s[j] \in Blank
  OBVIOUS
<1> HIDE DEF n, P
<1>3. tok \in i..n + 1 /\ (\A j \in i..tok - 1 : j \notin P) /\ (tok <= n => tok \in P)
  BY <1>0, <1>2, SkipsTo DEF n
<1> HIDE DEF tok
<1>4. \A j \in i..tok - 1 : s[j] \in Blank
  BY <1>0, <1>2, <1>3
<1>5. tok <= n => s[tok] \notin Blank
  BY <1>3 DEF P
<1> QED BY <1>1, <1>3, <1>4, <1>5 DEF n

LEMMA SkipTokenTo ==
  ASSUME NEW s \in Seq(Char), NEW i \in 1..Len(s) + 1
  PROVE  LET cp == SkipToken(s, i)
         IN  /\ cp \in i..Len(s) + 1 /\ \A j \in i..cp - 1 : s[j] \notin Blank
             /\ cp <= Len(s) => s[cp] \in Blank
<1> DEFINE n == Len(s)
           P == {j \in i..n : s[j] \in Blank}
           cp == Min({n + 1} \union P)
<1>0. n \in Nat
  OBVIOUS
<1>1. SkipToken(s, i) = cp
  BY DEF SkipToken
<1>2. P \in SUBSET (i..n) /\ \A j \in i..n : j \notin P <=> s[j] \notin Blank
  OBVIOUS
<1> HIDE DEF n, P
<1>3. cp \in i..n + 1 /\ (\A j \in i..cp - 1 : j \notin P) /\ (cp <= n => cp \in P)
  BY <1>0, <1>2, SkipsTo DEF n
<1> HIDE DEF cp
<1>4. \A j \in i..cp - 1 : s[j] \notin Blank
  BY <1>0, <1>2, <1>3
<1>5. cp <= n => s[cp] \in Blank
  BY <1>3 DEF P
<1> QED BY <1>1, <1>3, <1>4, <1>5 DEF n

\* The starts from i on are the first token's, and those from its end on.
LEMMA StartsStep ==
  ASSUME NEW s \in Seq(Char), NEW i \in 1..Len(s) + 1
  PROVE  LET tok == SkipBlanks(s, i)
             cp == SkipToken(s, tok)
         IN  /\ tok \in i..Len(s) + 1
             /\ tok > Len(s) => StartsFrom(s, i) = {}
             /\ tok <= Len(s) =>
                  /\ cp \in tok + 1..Len(s) + 1
                  /\ StartsFrom(s, i) = {tok} \union StartsFrom(s, cp)
                  /\ \A j \in StartsFrom(s, cp) : tok < j
                  /\ EndOf(s, tok) = cp - 1
<1> DEFINE n == Len(s)
           tok == SkipBlanks(s, i)
           cp == SkipToken(s, tok)
<1>0. n \in Nat
  OBVIOUS
<1>1. /\ tok \in i..n + 1 /\ \A j \in i..tok - 1 : s[j] \in Blank
      /\ tok <= n => s[tok] \notin Blank
  BY SkipBlanksTo
<1> HIDE DEF tok
<1>2. tok \in 1..n + 1
  BY <1>0, <1>1
<1>3. /\ cp \in tok..n + 1 /\ \A j \in tok..cp - 1 : s[j] \notin Blank
      /\ cp <= n => s[cp] \in Blank
  BY <1>2, SkipTokenTo
<1> HIDE DEF cp
<1>4. ASSUME tok > n PROVE StartsFrom(s, i) = {}
  BY <1>0, <1>1, <1>4 DEF StartsFrom
<1>5. ASSUME tok <= n PROVE /\ cp \in tok + 1..n + 1
                            /\ StartsFrom(s, i) = {tok} \union StartsFrom(s, cp)
                            /\ \A j \in StartsFrom(s, cp) : tok < j
                            /\ EndOf(s, tok) = cp - 1
  <2>1. cp \in tok + 1..n + 1 /\ tok \in 1..n
    BY <1>0, <1>1, <1>3, <1>5
  <2> DEFINE A == StartsFrom(s, i)
             B == StartsFrom(s, cp)
  <2>2. \A j : j \in A <=> j \in i..n /\ s[j] \notin Blank /\ (j = i \/ s[j - 1] \in Blank)
    BY DEF StartsFrom
  <2>3. \A j : j \in B <=> j \in cp..n /\ s[j] \notin Blank /\ (j = cp \/ s[j - 1] \in Blank)
    BY DEF StartsFrom
  <2> HIDE DEF A, B, n
  <2>4. ASSUME NEW j \in B PROVE j \in A /\ tok < j
    BY <2>1, <2>2, <2>3, <1>0, <1>1, <1>3
  <2>5. tok \in A
    BY <2>1, <2>2, <1>0, <1>1, <1>5
  <2>6. ASSUME NEW j \in A, j # tok PROVE j \in B
    <3>1. j \in i..n /\ s[j] \notin Blank /\ (j = i \/ s[j - 1] \in Blank)
      BY <2>2
    <3>2. j > tok
      BY <3>1, <2>6, <2>1, <1>0, <1>1
    <3>3. j # i /\ s[j - 1] \in Blank
      BY <3>1, <3>2, <1>0, <1>1
    <3>4. j >= cp
      BY <3>1, <3>2, <3>3, <2>1, <1>0, <1>3
    <3> QED BY <3>1, <3>3, <3>4, <2>1, <2>3, <1>0
  <2>7. EndOf(s, tok) = cp - 1
    <3>1. /\ cp - 1 \in tok..n /\ \A j \in tok..cp - 1 : s[j] \notin Blank
          /\ cp - 1 = n \/ s[(cp - 1) + 1] \in Blank
      BY <2>1, <1>0, <1>3
    <3>2. ASSUME NEW e \in tok..n, \A j \in tok..e : s[j] \notin Blank,
                 e = n \/ s[e + 1] \in Blank
          PROVE  e = cp - 1
      <4>1. ~(e < cp - 1)
        <5>1. e < cp - 1 => e + 1 \in tok..cp - 1 /\ e # n
          BY <2>1, <1>0
        <5> QED BY <5>1, <3>2, <1>3
      <4>2. ~(e > cp - 1)
        <5>1. e > cp - 1 => cp \in tok..e /\ cp <= n
          BY <2>1, <1>0
        <5> QED BY <5>1, <3>2, <1>3
      <4> QED BY <4>1, <4>2, <2>1, <1>0
    <3>3. EndOf(s, tok) = CHOOSE e \in tok..n : /\ \A j \in tok..e : s[j] \notin Blank
                                                /\ e = n \/ s[e + 1] \in Blank
      BY DEF EndOf, n
    <3> QED BY <3>1, <3>2, <3>3
  <2>8. A = {tok} \union B
    BY <2>4, <2>5, <2>6
  <2> QED BY <2>1, <2>4, <2>7, <2>8 DEF A, B
<1> QED BY <1>1, <1>4, <1>5 DEF tok, cp

-----------------------------------------------------------------------------
LEMMA PlacesFinite ==
  ASSUME NEW n \in Nat, NEW S \in SUBSET (1..n)
  PROVE  S \in SUBSET (0..n) /\ S \in SUBSET Int /\ IsFiniteSet(S) /\ Cardinality(S) \in Nat
<1>1. IsFiniteSet(1..n)
  <2>1. 1 \in Int /\ n \in Int
    OBVIOUS
  <2> QED BY <2>1, FS_Interval
<1>2. IsFiniteSet(S) /\ Cardinality(S) \in Nat
  BY <1>1, FS_Subset, FS_CardinalityType
<1>3. 1..n \subseteq 0..n /\ 1..n \subseteq Int
  OBVIOUS
<1> QED BY <1>2, <1>3

\* The k-th lowest of some places is one of them, and the only one with its rank.
LEMMA KthIs ==
  ASSUME NEW n \in Nat, NEW S \in SUBSET (1..n), NEW k \in 1..Cardinality(S)
  PROVE  /\ Kth(S, k) \in S /\ Rank(S, Kth(S, k)) = k
         /\ \A i \in S : Rank(S, i) = k => i = Kth(S, k)
<1> DEFINE R(i) == {j \in S : j <= i}
<1>1. S \in SUBSET (0..n) /\ S \in SUBSET Int /\ IsFiniteSet(S) /\ Cardinality(S) \in Nat
  BY PlacesFinite
<1>2. k \in Nat \ {0} /\ k <= Cardinality(S)
  BY <1>1
<1>3. \E i \in S : Rank(S, i) = k
  <2>1. \E i \in S : Cardinality(R(i)) = k
    BY <1>1, <1>2, Ranked, ZenonT(60)
  <2> QED BY <2>1 DEF Rank
<1>4. Kth(S, k) \in S /\ Rank(S, Kth(S, k)) = k
  BY <1>3 DEF Kth
<1>5. ASSUME NEW x \in S, NEW y \in S, x < y PROVE Rank(S, x) # Rank(S, y)
  <2>1. R(x) \subseteq R(y) \ {y}
    <3>1. ASSUME NEW j \in S, j <= x PROVE j <= y /\ j # y
      <4>1. j \in Int /\ x \in Int /\ y \in Int
        BY <1>1
      <4> QED BY <4>1, <3>1, <1>5
    <3> QED BY <3>1
  <2>2. IsFiniteSet(R(y)) /\ IsFiniteSet(R(y) \ {y}) /\ y \in R(y)
    BY <1>1, FS_Subset
  <2>3. Cardinality(R(y) \ {y}) = Cardinality(R(y)) - 1 /\ Cardinality(R(y)) \in Nat
    BY <2>2, FS_RemoveElement, FS_CardinalityType
  <2>4. Cardinality(R(x)) <= Cardinality(R(y) \ {y}) /\ Cardinality(R(x)) \in Nat
    BY <2>1, <2>2, FS_Subset, FS_CardinalityType
  <2>5. Rank(S, x) = Cardinality(R(x)) /\ Rank(S, y) = Cardinality(R(y))
    BY DEF Rank
  <2> HIDE DEF R
  <2> QED BY <2>3, <2>4, <2>5
<1>6. ASSUME NEW i \in S, Rank(S, i) = k PROVE i = Kth(S, k)
  <2>1. i \in Int /\ Kth(S, k) \in Int
    BY <1>1, <1>4
  <2>2. ~(i < Kth(S, k)) /\ ~(Kth(S, k) < i)
    BY <1>4, <1>5, <1>6
  <2> QED BY <2>1, <2>2
<1> QED BY <1>4, <1>6

\* S is t and the places of B, all after it.
First(t, B, S) == t \in S /\ S = {t} \union B /\ \A j \in B : t < j

\* A place before all the others is the first, and moves the others up by one.
LEMMA KthStep ==
  ASSUME NEW n \in Nat, NEW S \in SUBSET (1..n), NEW B, NEW t, First(t, B, S)
  PROVE  /\ Cardinality(S) = Cardinality(B) + 1 /\ Cardinality(B) \in Nat
         /\ Kth(S, 1) = t
         /\ \A k \in 1..Cardinality(B) : Kth(S, k + 1) = Kth(B, k)
<1>0. t \in S /\ S = {t} \union B /\ (\A j \in B : t < j) /\ B \in SUBSET S
  BY DEF First
<1>1. IsFiniteSet(S) /\ IsFiniteSet(B) /\ Cardinality(B) \in Nat /\ B \in SUBSET (1..n)
  <2>1. B \in SUBSET (1..n)
    BY <1>0
  <2> QED BY <2>1, PlacesFinite
<1>2. t \notin B /\ t \in Int
  BY <1>0
<1>3. Cardinality(S) = Cardinality(B) + 1
  BY <1>0, <1>1, <1>2, FS_AddElement
<1>4. Kth(S, 1) = t
  <2>1. {j \in S : j <= t} = {t}
    <3>1. ASSUME NEW j \in S PROVE j <= t <=> j = t
      BY <1>0, <1>2
    <3> QED BY <3>1, <1>0
  <2>2. Rank(S, t) = 1
    BY <2>1, FS_Singleton DEF Rank
  <2>3. 1 \in 1..Cardinality(S)
    BY <1>0, <1>1, <1>3
  <2>4. \A i \in S : Rank(S, i) = 1 => i = Kth(S, 1)
    BY ONLY <2>3, n \in Nat, S \in SUBSET (1..n), KthIs
  <2> QED BY <1>0, <2>2, <2>4
<1>5. ASSUME NEW k \in 1..Cardinality(B) PROVE Kth(S, k + 1) = Kth(B, k)
  <2> DEFINE i == Kth(B, k)
             RB == {j \in B : j <= i}
             RS == {j \in S : j <= i}
  <2>1. i \in B /\ Rank(B, i) = k
    <3>1. B \in SUBSET (1..n)
      BY <1>1
    <3> QED BY <3>1, KthIs
  <2> HIDE DEF i
  <2>2. RS = {t} \union RB
    <3>1. t <= i /\ t \in S
      BY <1>0, <2>1, <1>2
    <3> QED BY <3>1, <1>0
  <2>3. IsFiniteSet(RB) /\ t \notin RB
    <3>1. RB \in SUBSET B
      OBVIOUS
    <3> HIDE DEF RB
    <3> QED BY <3>1, <1>1, <1>2, FS_Subset
  <2>4. Rank(S, i) = k + 1
    <3>1. Rank(S, i) = Cardinality(RS) /\ Rank(B, i) = Cardinality(RB)
      BY DEF Rank
    <3> HIDE DEF RS, RB
    <3>2. Cardinality(RB \union {t}) = Cardinality(RB) + 1
      BY <2>3, FS_AddElement
    <3>3. RS = RB \union {t}
      BY <1>0, <2>2
    <3> QED BY <3>1, <3>2, <3>3, <2>1
  <2>5. k + 1 \in 1..Cardinality(S) /\ i \in S
    BY <1>0, <1>1, <1>3, <2>1
  <2>6. \A j \in S : Rank(S, j) = k + 1 => j = Kth(S, k + 1)
    BY ONLY <2>5, n \in Nat, S \in SUBSET (1..n), KthIs
  <2> QED BY <2>4, <2>5, <2>6 DEF i
<1> QED BY <1>0, <1>1, <1>3, <1>4, <1>5

LEMMA PiecesStep ==
  ASSUME NEW s \in Seq(Char), NEW i \in 1..Len(s) + 1
  PROVE  LET tok == SkipBlanks(s, i)
             cp == SkipToken(s, tok)
         IN  Pieces(s, StartsFrom(s, i)) =
               IF tok > Len(s) THEN <<>>
               ELSE <<SubSeq(s, tok, cp - 1)>> \o Pieces(s, StartsFrom(s, cp))
<1> DEFINE n == Len(s)
           tok == SkipBlanks(s, i)
           cp == SkipToken(s, tok)
           S == StartsFrom(s, i)
           B == StartsFrom(s, cp)
<1>0. n \in Nat
  OBVIOUS
<1>1. /\ tok \in i..n + 1
      /\ tok > n => S = {}
      /\ tok <= n => /\ cp \in tok + 1..n + 1 /\ S = {tok} \union B
                     /\ (\A j \in B : tok < j) /\ EndOf(s, tok) = cp - 1
  BY StartsStep
<1>2. CASE tok > n
  <2>1. Cardinality(S) = 0
    BY <1>1, <1>2, FS_EmptySet
  <2> HIDE DEF S
  <2>2. Pieces(s, S) = <<>>
    BY <2>1 DEF Pieces
  <2> QED BY <2>2, <1>2 DEF S
<1>3. CASE ~(tok > n)
  <2>1. /\ S \in SUBSET (1..n) /\ B \in SUBSET S /\ tok \in S /\ S = {tok} \union B
        /\ (\A j \in B : tok < j) /\ EndOf(s, tok) = cp - 1
    <3>1. S \in SUBSET (1..n)
      BY <1>0 DEF StartsFrom
    <3>2. tok <= n
      BY <1>0, <1>1, <1>3
    <3> HIDE DEF S, B, n, tok, cp
    <3> QED BY <3>1, <3>2, <1>1
  <2> HIDE DEF S, B, tok, cp, n
  <2>2. /\ Cardinality(S) = Cardinality(B) + 1 /\ Cardinality(B) \in Nat
        /\ Kth(S, 1) = tok
        /\ \A k \in 1..Cardinality(B) : Kth(S, k + 1) = Kth(B, k)
    <3>1. First(tok, B, S)
      BY <2>1 DEF First
    <3> QED BY ONLY <1>0, <2>1, <3>1, KthStep
  <2> DEFINE piece == SubSeq(s, tok, cp - 1)
             rest == Pieces(s, B)
             c == Cardinality(B)
             P(k) == SubSeq(s, Kth(B, k), EndOf(s, Kth(B, k)))
  <2>3. Pieces(s, S) = [k \in 1..c + 1 |-> IF k = 1 THEN piece ELSE P(k - 1)]
    <3>1. Pieces(s, S) = [k \in 1..c + 1 |-> SubSeq(s, Kth(S, k), EndOf(s, Kth(S, k)))]
      BY <2>2 DEF Pieces
    <3>2. ASSUME NEW k \in 1..c + 1
          PROVE  SubSeq(s, Kth(S, k), EndOf(s, Kth(S, k))) = IF k = 1 THEN piece ELSE P(k - 1)
      <4>1. CASE k = 1
        BY <4>1, <2>1, <2>2
      <4>2. CASE k # 1
        <5>1. k - 1 \in 1..c /\ (k - 1) + 1 = k
          BY <4>2, <2>2
        <5>2. Kth(S, k) = Kth(B, k - 1)
          BY <5>1, <2>2
        <5> QED BY <4>2, <5>2
      <4> QED BY <4>1, <4>2
    <3> HIDE DEF piece, P, c
    <3> QED BY <3>1, <3>2
  <2>4. rest = [k \in 1..c |-> P(k)]
    BY DEF Pieces
  <2>5. <<piece>> \o rest = [k \in 1..c + 1 |-> IF k = 1 THEN piece ELSE P(k - 1)]
    <3>1. c \in Nat
      BY <2>2
    <3> HIDE DEF piece, P, c, rest
    <3> QED BY <3>1, <2>4
  <2> HIDE DEF piece, rest
  <2>6. Pieces(s, S) = <<piece>> \o rest
    BY <2>3, <2>5
  <2> QED BY <2>6, <1>3 DEF piece, rest, S, B, tok, cp, n
<1> QED BY <1>2, <1>3

\* Tokens, wherever the scan begins, are the pieces from there on.
LEMMA TokensArePieces ==
  ASSUME NEW s \in Seq(Char), NEW from \in 1..Len(s) + 1
  PROVE  for_tokens(s, from) = Pieces(s, StartsFrom(s, from))
<1> DEFINE n == Len(s)
           Tok(i) == SkipBlanks(s, i)
           Cp(i) == SkipToken(s, Tok(i))
           Eqn(f, i) == IF Tok(i) > n THEN <<>> ELSE <<SubSeq(s, Tok(i), Cp(i) - 1)>> \o f[Cp(i)]
           T == [i \in 1..n + 1 |-> Pieces(s, StartsFrom(s, i))]
           g == CHOOSE f : f = [i \in 1..n + 1 |-> Eqn(f, i)]
<1>0. n \in Nat
  OBVIOUS
<1>1. for_tokens(s, from) = g[from]
  BY DEF for_tokens
<1>2. ASSUME NEW i \in 1..n + 1
      PROVE  Tok(i) > n \/ Cp(i) \in i + 1..n + 1
  <2>1. Tok(i) \in i..n + 1 /\ (Tok(i) <= n => Cp(i) \in Tok(i) + 1..n + 1)
    BY StartsStep
  <2> HIDE DEF Tok, Cp, n
  <2> QED BY <2>1, <1>0
<1>3. T = [i \in 1..n + 1 |-> Eqn(T, i)]
  <2>1. ASSUME NEW i \in 1..n + 1 PROVE T[i] = Eqn(T, i)
    <3>1. T[i] = IF Tok(i) > n THEN <<>>
                 ELSE <<SubSeq(s, Tok(i), Cp(i) - 1)>> \o Pieces(s, StartsFrom(s, Cp(i)))
      BY PiecesStep
    <3>2. Tok(i) > n \/ T[Cp(i)] = Pieces(s, StartsFrom(s, Cp(i)))
      <4>1. Tok(i) > n \/ Cp(i) \in 1..n + 1
        <5> HIDE DEF Tok, Cp, n
        <5> QED BY <1>0, <1>2
      <4> HIDE DEF Tok, Cp, n
      <4> QED BY <4>1
    <3> HIDE DEF Tok, Cp, n, T
    <3> QED BY <3>1, <3>2
  <2> HIDE DEF Eqn, n
  <2> QED BY <2>1
<1>4. g = [i \in 1..n + 1 |-> Eqn(g, i)]
  <2> HIDE DEF Eqn, n, T
  <2> QED BY <1>3
<1> HIDE DEF g, T
<1>5. ASSUME NEW i \in 1..n + 1 PROVE g[i] = T[i]
  <2> DEFINE D == {j \in 1..n + 1 : g[j] # T[j]}
  <2>1. SUFFICES ASSUME D # {} PROVE FALSE
    OBVIOUS
  <2>2. D \in SUBSET Int /\ n + 1 \in Int /\ \A x \in D : x <= n + 1
    BY <1>0
  <2>3. PICK m \in D : \A y \in D : y <= m
    <3> HIDE DEF D, n
    <3> QED BY <2>1, <2>2, Greatest
  <2>4. m \in 1..n + 1 /\ g[m] # T[m]
    OBVIOUS
  <2>5. Tok(m) > n \/ g[Cp(m)] = T[Cp(m)]
    <3>1. Tok(m) > n \/ Cp(m) \in m + 1..n + 1
      BY <1>2
    <3>2. Tok(m) > n \/ (Cp(m) \in 1..n + 1 /\ Cp(m) \notin D)
      <4> HIDE DEF Tok, Cp, n, D
      <4> QED BY <3>1, <2>3, <2>4, <1>0
    <3> HIDE DEF Tok, Cp, n
    <3> QED BY <3>2
  <2>6. g[m] = Eqn(g, m) /\ T[m] = Eqn(T, m)
    <3> HIDE DEF Eqn, n
    <3> QED BY <1>3, <1>4, <2>4
  <2> HIDE DEF Tok, Cp, n
  <2> QED BY <2>4, <2>5, <2>6
<1> QED BY <1>1, <1>5 DEF T

\* The name is the path, or what follows a slash of it, and has none itself.
LEMMA NameIs ==
  ASSUME NEW path \in Seq(Char)
  PROVE  LET name == cmd_name_from_path(path)
         IN  /\ Slash \notin {name[i] : i \in DOMAIN name}
             /\ \/ name = path
                \/ \E i \in DOMAIN path : path[i] = Slash /\ name = SubSeq(path, i + 1, Len(path))
<1> DEFINE n == Len(path)
           P == {i \in DOMAIN path : path[i] = Slash}
           S == {0} \union P
           m == Max(S)
           name == SubSeq(path, 1 + m, n)
<1>0. n \in Nat /\ DOMAIN path = 1..n
  OBVIOUS
<1>1. cmd_name_from_path(path) = name
  BY DEF cmd_name_from_path
<1>2. m \in S /\ \A y \in S : y <= m
  <2>1. S \in SUBSET Int /\ S # {} /\ n \in Int /\ \A x \in S : x <= n
    BY <1>0
  <2> HIDE DEF S, n
  <2> QED BY <2>1, Greatest
<1> HIDE DEF m
<1>3. m \in 0..n
  BY <1>0, <1>2
<1>4. Len(name) = n - m /\ DOMAIN name = 1..n - m /\ \A i \in 1..n - m : name[i] = path[m + i]
  <2>1. 1 + m \in Int /\ n \in Int /\ \A i \in 1 + m..n : path[i] \in Char
    BY <1>0, <1>3
  <2> HIDE DEF n
  <2>2. /\ name \in Seq(Char) /\ Len(name) = IF 1 + m <= n THEN n - (1 + m) + 1 ELSE 0
        /\ \A i \in 1..n - (1 + m) + 1 : name[i] = path[(1 + m) + i - 1]
    BY <2>1, SubSeqProperties
  <2> HIDE DEF name
  <2>3. name \in Seq(Char) /\ Len(name) = n - m
    BY <2>2, <1>0, <1>3
  <2>4. ASSUME NEW i \in 1..n - m PROVE name[i] = path[m + i]
    <3>1. i \in 1..n - (1 + m) + 1 /\ (1 + m) + i - 1 = m + i
      BY <1>0, <1>3
    <3> QED BY <2>2, <3>1
  <2> QED BY <2>3, <2>4
<1>5. ASSUME NEW i \in DOMAIN name PROVE name[i] # Slash
  <2>1. m + i \in 1..n /\ ~(m + i <= m) /\ name[i] = path[m + i]
    <3> HIDE DEF name, n
    <3>1. i \in 1..n - m /\ name[i] = path[m + i]
      BY <1>4
    <3> QED BY <1>0, <1>3, <3>1
  <2>2. m + i \notin P
    BY <2>1, <1>2
  <2> QED BY <2>1, <2>2, <1>0
<1>6. m = 0 => name = path
  BY <1>0
<1>7. m # 0 => m \in DOMAIN path /\ path[m] = Slash /\ name = SubSeq(path, m + 1, Len(path))
  BY <1>2, <1>3, <1>0
<1> HIDE DEF name
<1> QED BY <1>1, <1>5, <1>6, <1>7

(***************************************************************************)
(* The command that cmd_parse makes of a string runs its words, whatever   *)
(* blanks are around them; a string of blanks leaves the command alone.    *)
(***************************************************************************)
THEOREM CommandWords ==
  ASSUME NEW s \in Seq(Char), NEW cmd
  PROVE  /\ Words(s) = <<>> => cmd_parse(cmd, s) = cmd
         /\ Words(s) # <<>> => Runs(cmd_parse(cmd, s), Words(s)) /\ cmd_parse(cmd, s) # NoCommand
<1> DEFINE n == Len(s)
           str == SkipBlanks(s, 1)
           cp == SkipToken(s, str)
           path == SubSeq(s, str, cp - 1)
           tokens == for_tokens(s, cp)
           ws == Words(s)
<1>0. n \in Nat /\ 1 \in 1..n + 1
  OBVIOUS
<1>1. /\ str \in 1..n + 1
      /\ str > n => StartsFrom(s, 1) = {}
      /\ str <= n => cp \in str + 1..n + 1
  BY <1>0, StartsStep
<1>2. ws = IF str > n THEN <<>> ELSE <<path>> \o Pieces(s, StartsFrom(s, cp))
  BY <1>0, PiecesStep, WordsArePieces
<1>3. cmd_parse(cmd, s) = IF str > n THEN cmd ELSE [path |-> path, args |-> ArgsOf(path, tokens)]
  BY DEF cmd_parse
<1>4. CASE str > n
  BY <1>2, <1>3, <1>4
<1>5. CASE ~(str > n)
  <2>1. cp \in 1..n + 1 /\ cp \in str + 1..n + 1
    <3> HIDE DEF str, cp, n
    <3> QED BY <1>0, <1>1, <1>5
  <2>2. tokens = Pieces(s, StartsFrom(s, cp))
    BY <2>1, TokensArePieces
  <2>3. PICK c \in Nat : tokens = [k \in 1..c |-> tokens[k]]
    <3>1. StartsFrom(s, cp) \in SUBSET (1..n)
      <4> HIDE DEF cp
      <4> QED BY <2>1 DEF StartsFrom
    <3> DEFINE S == StartsFrom(s, cp)
    <3> HIDE DEF S
    <3>2. Cardinality(S) \in Nat
      BY <1>0, <3>1, PlacesFinite DEF S
    <3>3. Pieces(s, S) = [k \in 1..Cardinality(S) |-> Pieces(s, S)[k]]
      BY DEF Pieces
    <3> QED BY <3>2, <3>3, <2>2 DEF S
  <2>4. path \in Seq(Char) /\ Len(path) = cp - str
    <3> HIDE DEF str, cp
    <3> QED BY <1>0, <1>1, <2>1
  <2> HIDE DEF path, tokens, str, cp, n
  <2>5. ws = <<path>> \o tokens
    BY <1>2, <1>5, <2>2
  <2> HIDE DEF ws
  <2>6. Len(tokens) = c /\ Len(ws) = c + 1 /\ ws[1] = path /\ \A k \in 1..c : ws[k + 1] = tokens[k]
    BY <2>3, <2>5
  <2> DEFINE args == ArgsOf(path, tokens)
             new == cmd_parse(cmd, s)
  <2>7. new = [path |-> path, args |-> args]
    BY <1>3, <1>5
  <2>8. /\ DOMAIN args = 0..c + 1 /\ args[0] = cmd_name_from_path(path) /\ args[c + 1] = NULL
        /\ \A k \in 1..c : args[k] = tokens[k]
    BY <2>6 DEF ArgsOf
  <2> HIDE DEF args, new
  <2>9. new.path = path /\ new.args = args
    BY <2>7
  <2>10. new # NoCommand
    BY <2>4, <2>9, NullAssumption DEF NoCommand
  <2>11. /\ Slash \notin {args[0][k] : k \in DOMAIN args[0]}
         /\ \/ args[0] = path
            \/ \E k \in DOMAIN path : path[k] = Slash /\ args[0] = SubSeq(path, k + 1, Len(path))
    BY <2>4, <2>8, NameIs
  <2>12. \A k \in 1..Len(ws) - 1 : args[k] = ws[k + 1]
    BY <2>6, <2>8
  <2>13. Runs(new, ws)
    <3>1. DOMAIN args = 0..Len(ws) /\ args[Len(ws)] = NULL
      BY <2>6, <2>8
    <3> QED BY <3>1, <2>6, <2>9, <2>11, <2>12 DEF Runs
  <2>14. ws # <<>>
    BY <2>6
  <2> QED BY <2>10, <2>13, <2>14 DEF new, ws
<1> QED BY <1>4, <1>5
=============================================================================
