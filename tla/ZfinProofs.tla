----------------------------- MODULE ZfinProofs -----------------------------
(***************************************************************************)
(* The zfin procs lose nothing, overlook no ZFIN and suppress no more than *)
(* the over-and-out, for any string with one star, any stream and any way  *)
(* to cut it into reads.                                                   *)
(***************************************************************************)
EXTENDS ZfinScan, SequenceTheorems, WellFoundedInduction, TLAPS

-----------------------------------------------------------------------------
LEMMA LeastIn ==
  ASSUME NEW T \in SUBSET Nat, T # {}
  PROVE  Least(T) \in T /\ \A y \in T : Least(T) <= y
<1>1. PICK x \in T : \A y \in T : ~ (<<y, x>> \in OpToRel(<, Nat))
  BY NatLessThanWellFounded, WFMin
<1>2. ASSUME NEW y \in T PROVE x <= y
  <2>1. ~(y < x)
    BY <1>1 DEF OpToRel
  <2> QED BY <2>1
<1> QED BY <1>1, <1>2 DEF Least

\* What holds at 0, and after each step up to n, holds everywhere up to n.
LEMMA Upwards ==
  ASSUME NEW n \in Nat, NEW A \in SUBSET (0..n), 0 \in A,
         \A i \in 1..n : i - 1 \in A => i \in A
  PROVE  A = 0..n
<1> DEFINE B == (0..n) \ A
<1>1. SUFFICES ASSUME B # {} PROVE FALSE
  OBVIOUS
<1>2. B \in SUBSET Nat
  OBVIOUS
<1> DEFINE b == Least(B)
<1>3. b \in B /\ \A y \in B : b <= y
  <2> HIDE DEF B
  <2> QED BY <1>1, <1>2, LeastIn
<1> HIDE DEF b
<1>4. b \in 1..n /\ b - 1 \in 0..n /\ ~(b <= b - 1)
  BY <1>3
<1>5. b - 1 \in A
  BY <1>3, <1>4
<1> QED BY <1>3, <1>4, <1>5

\* A sequence is what comes first and the rest of it.
LEMMA Parts ==
  ASSUME NEW s \in Seq(Byte), NEW n \in 0..Len(s)
  PROVE  /\ SubSeq(s, 1, n) \in Seq(Byte) /\ Len(SubSeq(s, 1, n)) = n
         /\ Suffix(s, n) \in Seq(Byte) /\ Len(Suffix(s, n)) = Len(s) - n
         /\ SubSeq(s, 1, n) \o Suffix(s, n) = s
         /\ \A i \in 1..n : SubSeq(s, 1, n)[i] = s[i]
         /\ \A i \in 1..Len(s) - n : Suffix(s, n)[i] = s[n + i]
<1> DEFINE a == SubSeq(s, 1, n)
           b == SubSeq(s, n + 1, Len(s))
<1>0. Len(s) \in Nat /\ n \in Int /\ 1 \in Int /\ n + 1 \in Int /\ Len(s) \in Int
  OBVIOUS
<1>1. (\A i \in 1..n : s[i] \in Byte) /\ (\A i \in n + 1..Len(s) : s[i] \in Byte)
  <2>1. \A i \in 1..Len(s) : s[i] \in Byte
    BY ElementOfSeq
  <2> QED BY <2>1, <1>0
<1>2. a \in Seq(Byte) /\ Len(a) = n /\ \A i \in 1..n : a[i] = s[i]
  <2>1. Len(a) = IF 1 <= n THEN n - 1 + 1 ELSE 0
    BY <1>0, <1>1, SubSeqProperties
  <2>2. a \in Seq(Byte) /\ \A i \in 1..n - 1 + 1 : a[i] = s[1 + i - 1]
    BY <1>0, <1>1, SubSeqProperties
  <2> HIDE DEF a
  <2> QED BY <2>1, <2>2, <1>0
<1>3. b \in Seq(Byte) /\ Len(b) = Len(s) - n /\ \A i \in 1..Len(s) - n : b[i] = s[n + i]
  <2>1. Len(b) = IF n + 1 <= Len(s) THEN Len(s) - (n + 1) + 1 ELSE 0
    BY <1>0, <1>1, SubSeqProperties
  <2>2. b \in Seq(Byte) /\ \A i \in 1..Len(s) - (n + 1) + 1 : b[i] = s[n + 1 + i - 1]
    BY <1>0, <1>1, SubSeqProperties
  <2> HIDE DEF b
  <2> QED BY <2>1, <2>2, <1>0
<1>4. a \o b = s
  <2>1. 1 \in 1..Len(s) + 1 /\ n \in 1 - 1..Len(s) /\ Len(s) \in n..Len(s)
    BY <1>0
  <2> QED BY <2>1, ConcatAdjacentSubSeq, SubSeqFull
<1> QED BY <1>2, <1>3, <1>4 DEF Suffix

\* What comes behind another sequence keeps its order.
LEMMA Joined ==
  ASSUME NEW s \in Seq(Byte), NEW t \in Seq(Byte)
  PROVE  /\ s \o t \in Seq(Byte) /\ Len(s \o t) = Len(s) + Len(t)
         /\ \A i \in 1..Len(s) : (s \o t)[i] = s[i]
         /\ \A i \in 1..Len(t) : (s \o t)[Len(s) + i] = t[i]
<1>1. Len(s) \in Nat /\ Len(t) \in Nat
  OBVIOUS
<1>2. /\ s \o t \in Seq(Byte) /\ Len(s \o t) = Len(s) + Len(t)
      /\ \A i \in 1..Len(s) + Len(t) : (s \o t)[i] = IF i <= Len(s) THEN s[i] ELSE t[i - Len(s)]
  BY ConcatProperties
<1>3. \A i \in 1..Len(s) : (s \o t)[i] = s[i]
  BY <1>1, <1>2
<1>4. ASSUME NEW i \in 1..Len(t) PROVE (s \o t)[Len(s) + i] = t[i]
  <2>1. Len(s) + i \in 1..Len(s) + Len(t) /\ ~(Len(s) + i <= Len(s)) /\ Len(s) + i - Len(s) = i
    BY <1>1
  <2> QED BY <2>1, <1>2
<1> QED BY <1>2, <1>3, <1>4

LEMMA Associative ==
  ASSUME NEW w \in Seq(Byte), NEW s \in Seq(Byte), NEW t \in Seq(Byte)
  PROVE  (w \o s) \o t = w \o (s \o t)
BY ConcatAssociative, SMTT(30)

LEMMA Empty == /\ <<>> \in Seq(Byte) /\ Len(<<>>) = 0
               /\ \A s \in Seq(Byte) : s \o <<>> = s /\ <<>> \o s = s
BY EmptySeq, ConcatEmptySeq

LEMMA Constants == N \in Nat \ {0} /\ \A i \in 1..N : ZFIN[i] \in Byte
BY ZfinAssumption, LenProperties DEF N

LEMMA PacketIsSeq == \A s \in Packet : s \in Seq(Byte)
BY SeqDef, ZfinAssumption DEF Packet

-----------------------------------------------------------------------------
\* The O's that are suppressed.
Os(n) == [i \in 1..n |-> O]

LEMMA OsIsSeq == \A n \in Nat : /\ Os(n) \in Seq(Byte) /\ Len(Os(n)) = n
                                /\ \A i \in 1..n : Os(n)[i] = O
<1> SUFFICES ASSUME NEW n \in Nat
             PROVE  /\ Os(n) \in Seq(Byte) /\ Len(Os(n)) = n
                    /\ \A i \in 1..n : Os(n)[i] = O
  OBVIOUS
<1>1. Os(n) \in [1..n -> Byte]
  BY ZfinAssumption DEF Os
<1>2. Os(n) \in Seq(Byte)
  BY <1>1, SeqDef
<1>3. Len(Os(n)) = n
  BY <1>1, <1>2
<1> QED BY <1>2, <1>3 DEF Os

LEMMA NoOs == Os(0) = <<>>
BY OsIsSeq, EmptySeq

\* What zfin_nooo takes for the over-and-out.
LEMMA SuppressedFacts ==
  ASSUME NEW s \in Seq(Byte), oocount \in 0..2
  PROVE  LET k == Suppressed(s)
         IN  /\ k \in 0..Len(s) /\ oocount + k \in 0..2
             /\ \A i \in 1..k : s[i] = O
             /\ k = Len(s) \/ oocount + k = 2 \/ s[k + 1] # O
<1> DEFINE T == {i \in 0..Len(s) : i = Len(s) \/ s[i + 1] # O}
           n == Least(T)
           k == Suppressed(s)
<1>1. Len(s) \in Nat
  OBVIOUS
<1>2. T \in SUBSET Nat /\ T # {}
  BY <1>1
<1>3. n \in T /\ \A y \in T : n <= y
  <2> HIDE DEF T
  <2> QED BY <1>2, LeastIn
<1>4. k = IF n < 2 - oocount THEN n ELSE 2 - oocount
  BY DEF Suppressed
<1> HIDE DEF n, k
<1>5. n \in 0..Len(s) /\ (n = Len(s) \/ s[n + 1] # O)
  BY <1>3
<1>6. ASSUME NEW i \in 1..n PROVE s[i] = O
  <2>1. i - 1 \in 0..Len(s) /\ i - 1 # Len(s) /\ ~(n <= i - 1) /\ i - 1 + 1 = i
    BY <1>1, <1>5
  <2>2. i - 1 \notin T
    BY <1>3, <2>1
  <2> QED BY <2>1, <2>2
<1> HIDE DEF T
<1>7. k \in 0..n /\ oocount + k \in 0..2 /\ (k = n \/ oocount + k = 2)
  BY <1>4, <1>5
<1> QED BY <1>5, <1>6, <1>7 DEF k

\* zfin_save: the buffer takes it all and is large enough.
LEMMA SaveEffect ==
  ASSUME NEW s \in Seq(Byte), zfin_save(s),
         savebuf \in Seq(Byte), savemax \in Nat, Len(savebuf) <= savemax
  PROVE  /\ proc' = "zfin_save" /\ savebuf' = savebuf \o s /\ savebuf' \in Seq(Byte)
         /\ savemax' \in Nat /\ Len(savebuf') <= savemax'
<1>1. Len(s) \in Nat /\ Len(savebuf) \in Nat /\ Slack \in Nat
  BY ZfinAssumption
<1>2. savebuf' = savebuf \o s /\ savebuf' \in Seq(Byte) /\ Len(savebuf') = Len(savebuf) + Len(s)
  BY Joined DEF zfin_save
<1> QED BY <1>1, <1>2 DEF zfin_save, Grown

\* zfin_nooo: suppressed O's and the rest.
LEMMA NoooEffect ==
  ASSUME NEW s \in Seq(Byte), zfin_nooo(s), savebuf = <<>>, oocount \in 0..2, savemax \in Nat
  PROVE  /\ oocount' \in 0..2 /\ savebuf' \in Seq(Byte)
         /\ savemax' \in Nat /\ Len(savebuf') <= savemax'
         /\ Os(oocount') \o savebuf' = Os(oocount) \o s
         /\ \/ proc' = "zfin_nooo" /\ savebuf' = <<>>
            \/ proc' = "zfin_save" /\ savebuf' # <<>>
         /\ savebuf' # <<>> => oocount' = 2 \/ savebuf'[1] # O
<1> DEFINE k == Suppressed(s)
           a == SubSeq(s, 1, k)
           b == Suffix(s, k)
<1>1. /\ k \in 0..Len(s) /\ oocount + k \in 0..2 /\ \A i \in 1..k : s[i] = O
      /\ k = Len(s) \/ oocount + k = 2 \/ s[k + 1] # O
  BY SuppressedFacts
<1>2. /\ oocount' = oocount + k
      /\ IF k = Len(s) THEN proc' = "zfin_nooo" /\ savebuf' = savebuf /\ savemax' = savemax
                       ELSE zfin_save(b)
  BY DEF zfin_nooo
<1> HIDE DEF k
<1>3. /\ a \in Seq(Byte) /\ Len(a) = k /\ b \in Seq(Byte) /\ Len(b) = Len(s) - k
      /\ a \o b = s /\ (\A i \in 1..k : a[i] = s[i])
      /\ (\A i \in 1..Len(s) - k : b[i] = s[k + i])
  BY <1>1, Parts
<1> HIDE DEF a, b
<1>4. /\ savebuf' = b /\ savemax' \in Nat /\ Len(savebuf') <= savemax'
      /\ IF k = Len(s) THEN proc' = "zfin_nooo" ELSE proc' = "zfin_save"
  <2>1. CASE k = Len(s)
    <3>1. Len(b) = 0
      BY <2>1, <1>3
    <3>2. b = <<>>
      BY <3>1, <1>3, EmptySeq
    <3> QED BY <2>1, <3>2, <1>2, Empty
  <2>2. CASE k # Len(s)
    <3>1. savebuf \in Seq(Byte) /\ Len(savebuf) <= savemax
      BY Empty
    <3> QED BY <2>2, <3>1, <1>2, <1>3, SaveEffect, Empty
  <2> QED BY <2>1, <2>2
<1>5. Os(oocount') \o b = Os(oocount) \o s
  <2>1. /\ Os(oocount) \in Seq(Byte) /\ Len(Os(oocount)) = oocount
        /\ Os(oocount') \in Seq(Byte) /\ Len(Os(oocount')) = oocount'
        /\ (\A i \in 1..oocount : Os(oocount)[i] = O)
        /\ (\A i \in 1..oocount' : Os(oocount')[i] = O)
    <3>1. oocount \in Nat /\ oocount' \in Nat
      BY <1>1, <1>2
    <3> QED BY <3>1, OsIsSeq
  <2>2. /\ Os(oocount) \o a \in Seq(Byte) /\ Len(Os(oocount) \o a) = oocount'
        /\ \A i \in 1..oocount' : (Os(oocount) \o a)[i] = O
    <3>1. /\ Os(oocount) \o a \in Seq(Byte) /\ Len(Os(oocount) \o a) = oocount + k
          /\ \A i \in 1..oocount : (Os(oocount) \o a)[i] = Os(oocount)[i]
          /\ \A i \in 1..k : (Os(oocount) \o a)[oocount + i] = a[i]
      <4>1. Os(oocount) \in Seq(Byte) /\ Len(Os(oocount)) = oocount /\ Len(a) = k
        BY <2>1, <1>3
      <4> DEFINE u == Os(oocount)
      <4> HIDE DEF u
      <4>2. u \in Seq(Byte) /\ a \in Seq(Byte) /\ Len(u) = oocount
        BY <4>1, <1>3 DEF u
      <4>3. /\ u \o a \in Seq(Byte) /\ Len(u \o a) = Len(u) + Len(a)
            /\ (\A i \in 1..Len(u) : (u \o a)[i] = u[i])
            /\ (\A i \in 1..Len(a) : (u \o a)[Len(u) + i] = a[i])
        BY <4>2, Joined
      <4> QED BY <4>1, <4>2, <4>3 DEF u
    <3>2. ASSUME NEW i \in 1..oocount' PROVE (Os(oocount) \o a)[i] = O
      <4>1. CASE i <= oocount
        BY <4>1, <3>1, <2>1, <1>2
      <4>2. CASE ~(i <= oocount)
        <5>1. i - oocount \in 1..k /\ oocount + (i - oocount) = i
          BY <4>2, <1>1, <1>2
        <5> QED BY <5>1, <3>1, <1>1, <1>3
      <4> QED BY <4>1, <4>2
    <3> QED BY <3>1, <3>2, <1>2
  <2>3. Os(oocount) \o a = Os(oocount')
    BY <2>1, <2>2, SeqEqual
  <2>4. (Os(oocount) \o a) \o b = Os(oocount) \o (a \o b)
    BY ZenonT(60), <2>1, <1>3, Associative
  <2> QED BY <2>3, <2>4, <1>3
<1>6. CASE k = Len(s)
  <2>1. Len(b) = 0
    BY <1>6, <1>3
  <2>2. b = <<>>
    BY <2>1, <1>3, EmptySeq
  <2> QED BY <1>1, <1>2, <1>3, <1>4, <1>5, <1>6, <2>2
<1>7. CASE k # Len(s)
  <2>1. Len(b) # 0 /\ 1 \in 1..Len(s) - k /\ k + 1 \in Int
    BY <1>7, <1>1, <1>3
  <2>2. b # <<>> /\ b[1] = s[k + 1]
    BY <2>1, <1>3, Empty
  <2> QED BY <1>1, <1>2, <1>3, <1>4, <1>5, <1>7, <2>2
<1> QED BY <1>6, <1>7

-----------------------------------------------------------------------------
\* One byte of the scan, which stops at the end of the string.
Step(j, c) == IF j = N THEN N ELSE Match(j, c)

LEMMA StepType == \A c : \A j \in 0..N : Step(j, c) \in 0..N
BY Constants DEF Step, Match

\* f is the progress of a scan over the first n bytes of s that resumes after k.
Follows(f, k, s, n) ==
  f \in [0..n -> 0..N] /\ f[0] = k /\ \A i \in 1..n : f[i] = Step(f[i - 1], s[i])

\* A scan has a progress: the function that Progress defines exists.
LEMMA ProgressExists ==
  ASSUME NEW s \in Seq(Byte), NEW k \in 0..N
  PROVE  \E f : Follows(f, k, s, Len(s))
<1> DEFINE A == {n \in 0..Len(s) : \E f : Follows(f, k, s, n)}
<1>0. Len(s) \in Nat /\ N \in Nat
  BY Constants
<1>1. 0 \in A
  <2> DEFINE f == [i \in 0..0 |-> k]
  <2>1. Follows(f, k, s, 0)
    BY DEF Follows
  <2> HIDE DEF f
  <2> QED BY <2>1, <1>0
<1>2. ASSUME NEW n \in 1..Len(s), n - 1 \in A PROVE n \in A
  <2>1. PICK f : Follows(f, k, s, n - 1)
    BY <1>2
  <2> DEFINE g == [i \in 0..n |-> IF i = n THEN Step(f[n - 1], s[n]) ELSE f[i]]
  <2>2. f \in [0..n - 1 -> 0..N] /\ n \in Nat /\ n - 1 \in 0..n - 1 /\ n - 1 \in 0..n
    BY <2>1, <1>0 DEF Follows
  <2>3. g \in [0..n -> 0..N]
    <3>1. Step(f[n - 1], s[n]) \in 0..N
      BY <2>2, StepType
    <3>2. \A i \in 0..n : i # n => i \in 0..n - 1
      BY <2>2
    <3> QED BY <3>1, <3>2, <2>2
  <2>4. g[0] = k
    BY <2>1, <2>2 DEF Follows
  <2>5. ASSUME NEW i \in 1..n PROVE g[i] = Step(g[i - 1], s[i])
    <3>1. g[i - 1] = f[i - 1]
      BY <2>2
    <3>2. i # n => i \in 1..n - 1 /\ f[i] = Step(f[i - 1], s[i])
      BY <2>1, <2>2 DEF Follows
    <3> QED BY <3>1, <3>2
  <2> HIDE DEF g
  <2>6. Follows(g, k, s, n)
    BY <2>3, <2>4, <2>5 DEF Follows
  <2> QED BY <2>6
<1>3. A \in SUBSET (0..Len(s))
  OBVIOUS
<1> HIDE DEF A
<1>4. A = 0..Len(s)
  BY <1>0, <1>1, <1>2, <1>3, Upwards
<1> QED BY <1>0, <1>4 DEF A

\* Progress is the progress.
LEMMA ProgressFollows ==
  ASSUME NEW s \in Seq(Byte), NEW k \in 0..N
  PROVE  Follows(Progress(k, s), k, s, Len(s))
<1> DEFINE L == Len(s)
           Next1(f, i) == IF i = 0 THEN k ELSE IF f[i - 1] = N THEN N ELSE Match(f[i - 1], s[i])
           p == Progress(k, s)
<1>0. L \in Nat /\ N \in Nat
  BY Constants
<1>1. p = CHOOSE f : f = [i \in 0..L |-> Next1(f, i)]
  BY DEF Progress
<1>2. PICK f : Follows(f, k, s, L)
  BY ProgressExists
<1>3. f = [i \in 0..L |-> Next1(f, i)]
  <2>1. f \in [0..L -> 0..N]
    BY <1>2 DEF Follows
  <2>2. ASSUME NEW i \in 0..L PROVE f[i] = Next1(f, i)
    BY <1>0, <1>2 DEF Follows, Step
  <2> HIDE DEF Next1, L
  <2> QED BY <2>1, <2>2
<1>4. p = [i \in 0..L |-> Next1(p, i)]
  <2> HIDE DEF Next1, L, p
  <2> QED BY <1>1, <1>3
<1> HIDE DEF p
<1>5. p[0] = k /\ \A i \in 1..L : p[i] = Step(p[i - 1], s[i])
  <2>1. p[0] = k
    BY <1>0, <1>4
  <2>2. ASSUME NEW i \in 1..L PROVE p[i] = Step(p[i - 1], s[i])
    BY <1>0, <1>4 DEF Step
  <2> QED BY <2>1, <2>2
<1>6. \A i \in 0..L : p[i] \in 0..N
  <2> DEFINE A == {i \in 0..L : p[i] \in 0..N}
  <2>1. 0 \in A
    BY <1>0, <1>5
  <2>2. ASSUME NEW i \in 1..L, i - 1 \in A PROVE i \in A
    BY <2>2, <1>0, <1>5, StepType
  <2>3. A \in SUBSET (0..L)
    OBVIOUS
  <2> HIDE DEF A, L
  <2>4. A = 0..L
    BY <1>0, <2>1, <2>2, <2>3, Upwards
  <2> QED BY <2>4 DEF A
<1>7. p \in [0..L -> 0..N]
  <2> HIDE DEF Next1, L
  <2> QED BY <1>4, <1>6
<1> QED BY <1>5, <1>7 DEF Follows, p

\* Where the scan ends, or that it does not.
LEMMA EndsFacts ==
  ASSUME NEW s \in Seq(Byte), s # <<>>, NEW k \in 0..N - 1
  PROVE  /\ Ends(k, s) = {} => Progress(k, s)[Len(s)] \in 0..N - 1
         /\ Ends(k, s) # {} =>
              LET n == Least(Ends(k, s))
              IN  /\ n \in 1..Len(s) /\ Progress(k, s)[n] = N
                  /\ \A i \in 0..n - 1 : Progress(k, s)[i] # N
<1> DEFINE p == Progress(k, s)
           E == Ends(k, s)
<1>0. Len(s) \in Nat \ {0} /\ N \in Nat \ {0} /\ k \in 0..N
  BY Constants, EmptySeq
<1>1. p \in [0..Len(s) -> 0..N] /\ p[0] = k
  BY <1>0, ProgressFollows DEF Follows
<1>2. E = {i \in 1..Len(s) : p[i] = N}
  BY DEF Ends
<1> HIDE DEF p, E
<1>3. E = {} => p[Len(s)] \in 0..N - 1
  BY <1>0, <1>1, <1>2
<1>4. ASSUME E # {} PROVE /\ Least(E) \in 1..Len(s) /\ p[Least(E)] = N
                          /\ \A i \in 0..Least(E) - 1 : p[i] # N
  <2>1. E \in SUBSET Nat
    BY <1>2
  <2>2. Least(E) \in E /\ \A y \in E : Least(E) <= y
    BY <1>4, <2>1, LeastIn
  <2>3. ASSUME NEW i \in 0..Least(E) - 1 PROVE p[i] # N
    <3>1. i = 0 => p[i] # N
      BY <1>0, <1>1
    <3>2. i # 0 => i \in 1..Len(s) /\ ~(Least(E) <= i)
      BY <1>0, <1>2, <2>2
    <3> QED BY <3>1, <3>2, <2>2, <1>2
  <2> QED BY <2>2, <2>3, <1>2
<1> QED BY <1>3, <1>4 DEF p, E

-----------------------------------------------------------------------------
(***************************************************************************)
(* What is true between two reads, apart from the matching: while nothing  *)
(* has been found, everything was passed on; a terminated transfer saves   *)
(* nothing, the other drops nothing.                                       *)
(***************************************************************************)
Kept ==
  /\ TypeOK /\ Conservation /\ OverAndOut
  /\ proc = "zfin_scan" => oocount = 0 /\ savebuf = <<>> /\ dropped = <<>> /\ kills = 0
  /\ proc = "zfin_nooo" => savebuf = <<>>
  /\ proc = "zfin_save" => savebuf # <<>>
  /\ found = "zfin_nooo" => dropped = <<>>
  /\ found = "zfin_term" => oocount = 0 /\ savebuf = <<>>

LEMMA InitKept == Init => Kept
<1> SUFFICES ASSUME Init PROVE Kept
  OBVIOUS
<1>1. TypeOK
  BY Constants, Empty DEF Init, TypeOK
<1>2. stream = passed \o Os(oocount) \o savebuf \o dropped
  BY NoOs, Empty DEF Init
<1> QED BY <1>1, <1>2 DEF Init, Kept, Conservation, OverAndOut, Os

\* The pieces of the stream.
LEMMA Pieces ==
  ASSUME Kept
  PROVE  /\ {passed, savebuf, dropped, stream} \subseteq Seq(Byte)
         /\ oocount \in 0..2 /\ oocount \in Nat /\ Os(oocount) \in Seq(Byte)
         /\ stream = ((passed \o Os(oocount)) \o savebuf) \o dropped
         /\ proc = "zfin_scan" => stream = passed
<1>1. /\ {passed, savebuf, dropped, stream} \subseteq Seq(Byte)
      /\ oocount \in 0..2 /\ oocount \in Nat
  BY DEF Kept, TypeOK
<1>2. Os(oocount) \in Seq(Byte)
  BY <1>1, OsIsSeq
<1>3. stream = ((passed \o Os(oocount)) \o savebuf) \o dropped
  BY DEF Kept, Conservation, Os
<1>4. ASSUME proc = "zfin_scan" PROVE stream = passed
  BY <1>1, <1>3, <1>4, NoOs, Empty DEF Kept
<1> QED BY <1>1, <1>2, <1>3, <1>4

\* A read while nothing has been found.
LEMMA ScanKept ==
  ASSUME Kept, NEW s \in Seq(Byte), s # <<>>, stream' = stream \o s, UNCHANGED found,
         proc = "zfin_scan", zfin_scan(s)
  PROVE  Kept'
<1> DEFINE n == Least(Ends(ref, s))
           a == SubSeq(s, 1, n)
           b == Suffix(s, n)
<1>0. /\ ref \in 0..N - 1 /\ partial \subseteq 0..N - 1 /\ savemax \in Nat
      /\ found \in {"zfin_nooo", "zfin_term"} /\ N \in Nat \ {0}
      /\ oocount = 0 /\ savebuf = <<>> /\ dropped = <<>> /\ kills = 0
      /\ passed \in Seq(Byte) /\ stream = passed /\ stream' \in Seq(Byte)
  BY Constants, Pieces, Joined DEF Kept, TypeOK
<1>1. CASE Ends(ref, s) = {}
  <2>1. /\ passed' = passed \o s /\ ref' = Resume(Progress(ref, s)[Len(s)])
        /\ partial' = partial \union {ref'}
        /\ UNCHANGED <<proc, oocount, savebuf, savemax, dropped, kills>>
    BY <1>1 DEF zfin_scan
  <2>2. ref' \in 0..N - 1
    BY <1>0, <1>1, <2>1, EndsFacts DEF Resume
  <2>3. TypeOK'
    BY <1>0, <2>1, <2>2, Empty DEF TypeOK, Kept
  <2>4. stream' = passed' \o Os(oocount') \o savebuf' \o dropped'
    BY <1>0, <2>1, NoOs, Empty
  <2> QED BY <1>0, <2>1, <2>3, <2>4 DEF Kept, Conservation, OverAndOut, Os
<1>2. CASE Ends(ref, s) # {}
  <2>1. /\ passed' = passed \o a /\ Found(b) /\ UNCHANGED <<ref, partial>>
    BY <1>2 DEF zfin_scan
  <2>2. n \in 0..Len(s)
    BY <1>0, <1>2, EndsFacts
  <2> HIDE DEF n
  <2>3. a \in Seq(Byte) /\ b \in Seq(Byte) /\ a \o b = s
    BY <2>2, Parts
  <2> HIDE DEF a, b
  <2>4. passed' \in Seq(Byte) /\ passed' \o b = stream'
    <3>1. passed' = passed \o a /\ passed \o a \in Seq(Byte)
      BY <1>0, <2>1, <2>3, Joined
    <3>2. (passed \o a) \o b = passed \o (a \o b)
      <4>1. passed \in Seq(Byte) /\ a \in Seq(Byte) /\ b \in Seq(Byte)
        BY <1>0, <2>3
      <4> QED BY <4>1, Associative
    <3> QED BY <1>0, <2>3, <3>1, <3>2
  <2>5. CASE found = "zfin_nooo"
    <3>1. zfin_nooo(b) /\ UNCHANGED <<dropped, kills>>
      BY <2>1, <2>5 DEF Found
    <3>2. /\ oocount' \in 0..2 /\ savebuf' \in Seq(Byte)
          /\ savemax' \in Nat /\ Len(savebuf') <= savemax'
          /\ Os(oocount') \o savebuf' = Os(oocount) \o b
          /\ \/ proc' = "zfin_nooo" /\ savebuf' = <<>>
             \/ proc' = "zfin_save" /\ savebuf' # <<>>
          /\ savebuf' # <<>> => oocount' = 2 \/ savebuf'[1] # O
      <4>1. oocount \in 0..2
        BY <1>0
      <4> QED BY <1>0, <2>3, <3>1, <4>1, NoooEffect
    <3>3. Os(oocount') \in Seq(Byte) /\ Os(oocount') \o savebuf' = b
      <4>1. oocount' \in Nat
        BY <3>2
      <4>2. Os(oocount) = <<>>
        BY <1>0, NoOs
      <4>3. Os(oocount) \o b = b
        BY <2>3, <4>2, Empty
      <4> QED BY <3>2, <4>1, <4>3, OsIsSeq
    <3>4. stream' = ((passed' \o Os(oocount')) \o savebuf') \o dropped'
      <4>1. (passed' \o Os(oocount')) \o savebuf' = stream'
        BY <2>4, <3>2, <3>3, Associative
      <4> QED BY <1>0, <3>1, <4>1, Empty
    <3>5. TypeOK'
      BY <1>0, <2>1, <2>4, <2>5, <3>1, <3>2, Empty DEF TypeOK
    <3> QED BY <1>0, <2>5, <3>1, <3>2, <3>4, <3>5 DEF Kept, Conservation, OverAndOut, Os
  <2>6. CASE found = "zfin_term"
    <3>1. /\ kills' = 1 /\ proc' = "zfin_drop" /\ dropped' = b
          /\ UNCHANGED <<oocount, savebuf, savemax>>
      BY <1>0, <2>1, <2>3, <2>6, Empty DEF Found, zfin_term, zfin_drop
    <3>2. stream' = ((passed' \o Os(oocount')) \o savebuf') \o dropped'
      BY <1>0, <2>4, <3>1, NoOs, Empty
    <3>3. TypeOK'
      BY <1>0, <2>1, <2>3, <2>4, <2>6, <3>1, Empty DEF TypeOK, Kept
    <3> QED BY <1>0, <2>6, <3>1, <3>2, <3>3 DEF Kept, Conservation, OverAndOut, Os
  <2> QED BY <1>0, <2>5, <2>6
<1> QED BY <1>1, <1>2

\* A read after that.
LEMMA BehindKept ==
  ASSUME Kept, NEW s \in Seq(Byte), s # <<>>, proc # "zfin_scan", fifo_read(s)
  PROVE  Kept'
<1>0. /\ stream' = stream \o s /\ UNCHANGED found /\ savemax \in Nat /\ Len(savebuf) <= savemax
      /\ stream' \in Seq(Byte) /\ N \in Nat \ {0}
  BY Constants, Pieces, Joined DEF Kept, TypeOK, fifo_read
<1> DEFINE w == passed \o Os(oocount)
<1>1. /\ {passed, savebuf, dropped, stream, Os(oocount), w} \subseteq Seq(Byte)
      /\ oocount \in 0..2 /\ stream = (w \o savebuf) \o dropped
  BY Pieces, Joined
<1>2. CASE proc = "zfin_nooo" /\ zfin_nooo(s) /\ UNCHANGED <<ref, passed, dropped, kills, partial>>
  <2>1. savebuf = <<>> /\ found = "zfin_nooo" /\ dropped = <<>>
    BY <1>2 DEF Kept, TypeOK
  <2>2. /\ oocount' \in 0..2 /\ savebuf' \in Seq(Byte)
        /\ savemax' \in Nat /\ Len(savebuf') <= savemax'
        /\ Os(oocount') \o savebuf' = Os(oocount) \o s
        /\ \/ proc' = "zfin_nooo" /\ savebuf' = <<>>
           \/ proc' = "zfin_save" /\ savebuf' # <<>>
        /\ savebuf' # <<>> => oocount' = 2 \/ savebuf'[1] # O
    BY <1>0, <1>1, <1>2, <2>1, NoooEffect
  <2>3. Os(oocount') \in Seq(Byte)
    BY <2>2, OsIsSeq
  <2>4. stream' = (passed' \o Os(oocount')) \o savebuf'
    <3>1. (passed \o Os(oocount')) \o savebuf' = passed \o (Os(oocount') \o savebuf')
      <4>1. passed \in Seq(Byte) /\ savebuf' \in Seq(Byte)
        BY <1>1, <2>2
      <4> QED BY <2>3, <4>1, Associative
    <3>2. stream = w
      BY <1>1, <2>1, Empty
    <3>3. w \o s = passed \o (Os(oocount) \o s)
      BY SMTT(30), <1>1, Associative
    <3> HIDE DEF w
    <3> QED BY <1>0, <1>2, <2>2, <3>1, <3>2, <3>3
  <2>5. stream' = ((passed' \o Os(oocount')) \o savebuf') \o dropped'
    BY <1>0, <1>2, <2>1, <2>4, Empty
  <2>6. TypeOK'
    BY <1>0, <1>1, <1>2, <2>1, <2>2 DEF TypeOK, Kept
  <2> QED BY <1>0, <1>2, <2>1, <2>2, <2>5, <2>6 DEF Kept, Conservation, OverAndOut, Os
<1>3. CASE proc = "zfin_save" /\ zfin_save(s)
           /\ UNCHANGED <<ref, oocount, passed, dropped, kills, partial>>
  <2>1. savebuf # <<>> /\ found = "zfin_nooo" /\ dropped = <<>>
        /\ (oocount = 2 \/ savebuf[1] # O)
    BY <1>3 DEF Kept, TypeOK, OverAndOut
  <2>2. /\ proc' = "zfin_save" /\ savebuf' = savebuf \o s /\ savebuf' \in Seq(Byte)
        /\ savemax' \in Nat /\ Len(savebuf') <= savemax'
    BY <1>0, <1>1, <1>3, SaveEffect
  <2>3. savebuf' # <<>> /\ savebuf'[1] = savebuf[1]
    <3>1. Len(savebuf) \in Nat \ {0} /\ Len(s) \in Nat
      BY <1>1, <2>1, EmptySeq
    <3>2. Len(savebuf') = Len(savebuf) + Len(s) /\ 1 \in 1..Len(savebuf)
          /\ \A i \in 1..Len(savebuf) : savebuf'[i] = savebuf[i]
      BY <1>1, <2>2, <3>1, Joined
    <3>3. Len(savebuf') # 0
      BY <3>1, <3>2
    <3> QED BY <3>2, <3>3, Empty
  <2>4. stream' = (w \o savebuf') \o dropped'
    <3> HIDE DEF w
    <3>1. stream = w \o savebuf
      BY <1>1, <2>1, Joined, Empty
    <3>2. (w \o savebuf) \o s = w \o (savebuf \o s)
      BY ZenonT(60), <1>1, Associative
    <3>3. w \o savebuf' \in Seq(Byte)
      BY <1>1, <2>2, Joined
    <3> QED BY <1>0, <1>3, <2>1, <2>2, <3>1, <3>2, <3>3, Empty
  <2>5. TypeOK'
    BY <1>0, <1>1, <1>3, <2>1, <2>2 DEF TypeOK, Kept
  <2>6. stream' = ((passed' \o Os(oocount')) \o savebuf') \o dropped'
    BY <1>3, <2>4
  <2> QED BY <1>0, <1>3, <2>1, <2>2, <2>3, <2>5, <2>6 DEF Kept, Conservation, OverAndOut, Os
<1>4. CASE proc = "zfin_drop" /\ zfin_drop(s)
           /\ UNCHANGED <<ref, oocount, savebuf, savemax, passed, kills, partial>>
  <2>1. found = "zfin_term" /\ oocount = 0 /\ savebuf = <<>>
    BY <1>4 DEF Kept, TypeOK
  <2>2. proc' = "zfin_drop" /\ dropped' = dropped \o s /\ dropped' \in Seq(Byte)
    BY <1>1, <1>4, Joined DEF zfin_drop
  <2>3. stream' = (w \o savebuf) \o dropped'
    <3> HIDE DEF w
    <3>1. w \o savebuf \in Seq(Byte)
      BY <1>1, Joined
    <3>2. ((w \o savebuf) \o dropped) \o s = (w \o savebuf) \o (dropped \o s)
      BY SMTT(30), <1>1, <3>1, Associative
    <3> QED BY <1>0, <1>1, <2>2, <3>2
  <2>4. TypeOK'
    BY <1>0, <1>1, <1>4, <2>1, <2>2 DEF TypeOK, Kept
  <2>5. stream' = ((passed' \o Os(oocount')) \o savebuf') \o dropped'
    BY <1>4, <2>3
  <2> QED BY <1>0, <1>4, <2>1, <2>2, <2>4, <2>5 DEF Kept, Conservation, OverAndOut, Os
<1> QED BY <1>2, <1>3, <1>4 DEF fifo_read

LEMMA NextKept == Kept /\ [Next]_vars => Kept'
<1> SUFFICES ASSUME Kept, [Next]_vars PROVE Kept'
  OBVIOUS
<1>1. CASE UNCHANGED vars
  BY <1>1 DEF vars, Kept, TypeOK, Conservation, OverAndOut
<1>2. CASE Next
  <2>1. PICK s \in Packet : fifo_read(s)
    BY <1>2 DEF Next
  <2>2. s \in Seq(Byte) /\ s # <<>>
    BY <2>1, PacketIsSeq DEF fifo_read
  <2>3. CASE proc = "zfin_scan"
    BY <2>1, <2>2, <2>3, ScanKept DEF fifo_read
  <2>4. CASE proc # "zfin_scan"
    BY <2>1, <2>2, <2>4, BehindKept
  <2> QED BY <2>3, <2>4
<1> QED BY <1>1, <1>2

-----------------------------------------------------------------------------
(***************************************************************************)
(* The matching.  A scan that resumed after r bytes and is at m has just   *)
(* read the first m, or everything it read continues what it resumed.      *)
(***************************************************************************)
\* The m bytes of y that end at place e are the first m of the string.
EndsAt(y, e, m) == m <= e /\ \A j \in 1..m : y[e - m + j] = ZFIN[j]

Read(s, i, r, m) == \/ EndsAt(s, i, m)
                    \/ m = r + i /\ \A j \in 1..i : s[j] = ZFIN[r + j]

LEMMA ProgressIsRead ==
  ASSUME NEW s \in Seq(Byte), NEW r \in 0..N - 1, NEW n \in 0..Len(s),
         \A i \in 0..n - 1 : Progress(r, s)[i] # N
  PROVE  Read(s, n, r, Progress(r, s)[n])
<1> DEFINE p == Progress(r, s)
           A == {i \in 0..n : Read(s, i, r, p[i])}
<1>0. Len(s) \in Nat /\ N \in Nat \ {0} /\ n \in Nat /\ r \in 0..N /\ r \in Nat
  BY Constants
<1>1. /\ p \in [0..Len(s) -> 0..N] /\ p[0] = r
      /\ \A i \in 1..Len(s) : p[i] = Step(p[i - 1], s[i])
  BY <1>0, ProgressFollows DEF Follows
<1>8. \A i \in 0..n - 1 : p[i] # N
  OBVIOUS
<1> HIDE DEF p
<1>2. 0 \in A
  BY <1>0, <1>1 DEF Read
<1>3. ASSUME NEW i \in 1..n, i - 1 \in A PROVE i \in A
  <2> DEFINE k == p[i - 1]
  <2>0. /\ i \in 1..Len(s) /\ i \in Nat /\ i - 1 \in Nat /\ i - 1 \in 0..n - 1
        /\ i - 1 \in 0..Len(s)
    BY <1>0
  <2>1. /\ i \in 1..Len(s) /\ i \in Nat /\ i - 1 \in Nat /\ i - 1 \in 0..n - 1
        /\ i - 1 \in 0..Len(s) /\ k \in 0..N /\ k # N /\ k \in Nat
    <3>1. k \in 0..N
      BY <2>0, <1>1
    <3>2. k # N
      BY <2>0, <1>8
    <3> HIDE DEF k
    <3> QED BY <2>0, <1>0, <3>1, <3>2
  <2>2. p[i] = IF s[i] = ZFIN[k + 1] THEN k + 1 ELSE IF s[i] = ZFIN[1] THEN 1 ELSE 0
    BY <2>1, <1>1 DEF Step, Match
  <2>3. Read(s, i - 1, r, k)
    BY <1>3
  <2> HIDE DEF k
  <2>4. CASE s[i] = ZFIN[k + 1] /\ p[i] = k + 1 /\ EndsAt(s, i - 1, k)
    <3>1. ASSUME NEW j \in 1..k + 1 PROVE s[i - (k + 1) + j] = ZFIN[j]
      <4>1. j = k + 1 => i - (k + 1) + j = i
        BY <2>1
      <4>2. j # k + 1 => j \in 1..k /\ i - (k + 1) + j = i - 1 - k + j
        BY <2>1
      <4> QED BY <4>1, <4>2, <2>4 DEF EndsAt
    <3>2. k + 1 <= i
      BY <2>1, <2>4 DEF EndsAt
    <3> QED BY <3>1, <3>2, <2>4 DEF Read, EndsAt
  <2>5. CASE s[i] = ZFIN[k + 1] /\ p[i] = k + 1 /\ k = r + (i - 1)
             /\ \A j \in 1..i - 1 : s[j] = ZFIN[r + j]
    <3>1. k + 1 = r + i
      BY <1>0, <2>1, <2>5
    <3>2. ASSUME NEW j \in 1..i PROVE s[j] = ZFIN[r + j]
      <4>1. j # i => j \in 1..i - 1
        BY <2>1
      <4> QED BY <4>1, <3>1, <2>5
    <3> QED BY <3>1, <3>2, <2>5 DEF Read
  <2>6. CASE s[i] = ZFIN[1] /\ p[i] = 1
    BY <2>1, <2>6 DEF Read, EndsAt
  <2>7. CASE p[i] = 0
    BY <2>1, <2>7 DEF Read, EndsAt
  <2> QED BY <2>2, <2>3, <2>4, <2>5, <2>6, <2>7 DEF Read
<1>4. A \in SUBSET (0..n)
  OBVIOUS
<1> HIDE DEF A
<1>5. A = 0..n
  BY <1>0, <1>2, <1>3, <1>4, Upwards
<1>6. n \in A
  BY <1>0, <1>5
<1> QED BY <1>6 DEF A, p

(***************************************************************************)
(* The other way round: a match there is, however far back it began, is    *)
(* the one the scan is at.  Only here it matters that the star is the      *)
(* first byte and no other.                                                *)
(***************************************************************************)
Tracks(x, e, k) == \A m \in 1..N : EndsAt(x, e, m) => k = m

LEMMA TracksWhole ==
  ASSUME NEW y, NEW e, NEW k, Tracks(y, e, k), EndsAt(y, e, N)
  PROVE  k = N
BY Constants DEF Tracks

LEMMA ProgressTracks ==
  ASSUME NEW x \in Seq(Byte), NEW s \in Seq(Byte), NEW r \in 0..N - 1, NEW n \in 0..Len(s),
         Tracks(x, Len(x), r), \A i \in 0..n - 1 : Progress(r, s)[i] # N
  PROVE  Tracks(x \o s, Len(x) + n, Progress(r, s)[n])
<1> DEFINE p == Progress(r, s)
           y == x \o s
           l == Len(x)
           A == {i \in 0..n : Tracks(y, l + i, p[i])}
<1>0. Len(s) \in Nat /\ N \in Nat \ {0} /\ n \in Nat /\ l \in Nat /\ r \in 0..N
  BY Constants
<1>1. /\ p \in [0..Len(s) -> 0..N] /\ p[0] = r
      /\ \A i \in 1..Len(s) : p[i] = Step(p[i - 1], s[i])
  BY <1>0, ProgressFollows DEF Follows
<1>2. (\A i \in 1..l : y[i] = x[i]) /\ (\A i \in 1..Len(s) : y[l + i] = s[i])
  BY Joined
<1>8. \A i \in 0..n - 1 : p[i] # N
  OBVIOUS
<1> HIDE DEF p, y, l
<1>3. 0 \in A
  <2>1. ASSUME NEW m \in 1..N, EndsAt(y, l + 0, m) PROVE r = m
    <3>1. m <= l /\ \A j \in 1..m : y[l - m + j] = ZFIN[j]
      BY <1>0, <2>1 DEF EndsAt
    <3>2. \A j \in 1..m : l - m + j \in 1..l
      BY <1>0, <3>1
    <3>3. EndsAt(x, l, m)
      BY <1>2, <3>1, <3>2 DEF EndsAt
    <3> QED BY <3>3 DEF Tracks, l
  <2> QED BY <1>0, <1>1, <2>1 DEF Tracks
<1>4. ASSUME NEW i \in 1..n, i - 1 \in A PROVE i \in A
  <2> DEFINE k == p[i - 1]
  <2>0. /\ i \in 1..Len(s) /\ i \in Nat /\ i - 1 \in Nat /\ i - 1 \in 0..n - 1
        /\ i - 1 \in 0..Len(s)
    BY <1>0
  <2>1. /\ i \in 1..Len(s) /\ i \in Nat /\ i - 1 \in Nat /\ i - 1 \in 0..n - 1
        /\ i - 1 \in 0..Len(s) /\ k \in 0..N /\ k # N /\ k \in Nat
    <3>1. k \in 0..N
      BY <2>0, <1>1
    <3>2. k # N
      BY <2>0, <1>8
    <3> HIDE DEF k
    <3> QED BY <2>0, <1>0, <3>1, <3>2
  <2>2. /\ p[i] = IF s[i] = ZFIN[k + 1] THEN k + 1 ELSE IF s[i] = ZFIN[1] THEN 1 ELSE 0
        /\ y[l + i] = s[i]
    BY <2>1, <1>1, <1>2 DEF Step, Match
  <2> DEFINE e == l + i
  <2>3. Tracks(y, e - 1, k) /\ e \in Nat \ {0} /\ y[e] = s[i]
    <3>1. l + (i - 1) = e - 1 /\ e \in Nat \ {0}
      BY <1>0, <2>1
    <3>2. Tracks(y, l + (i - 1), k)
      BY <1>4
    <3> QED BY <3>1, <3>2, <2>2
  <2> HIDE DEF k, e
  <2>4. ASSUME NEW m \in 1..N, EndsAt(y, e, m) PROVE p[i] = m
    <3>0. m \in Nat \ {0}
      BY <1>0
    <3>1. m <= e /\ \A j \in 1..m : y[e - m + j] = ZFIN[j]
      BY <2>4 DEF EndsAt
    <3>2. s[i] = ZFIN[m]
      <4>1. m \in 1..m /\ e - m + m = e
        BY <2>3, <3>0
      <4> QED BY <4>1, <3>1, <2>3
    <3>3. CASE m = 1
      <4>1. s[i] = ZFIN[k + 1] => k + 1 = 1
        <5>1. k + 1 \in 2..N => ZFIN[k + 1] # ZFIN[1]
          BY ZfinAssumption DEF N
        <5> QED BY <1>0, <2>1, <3>2, <3>3, <5>1
      <4> QED BY <4>1, <2>2, <3>2, <3>3
    <3>4. CASE m # 1
      <4>1. m - 1 \in 1..N /\ m - 1 <= e - 1
        BY <1>0, <2>3, <3>0, <3>1, <3>4
      <4>2. ASSUME NEW j \in 1..m - 1 PROVE y[e - 1 - (m - 1) + j] = ZFIN[j]
        <5>1. j \in 1..m /\ e - 1 - (m - 1) + j = e - m + j
          BY <2>3, <3>0
        <5> QED BY <5>1, <3>1
      <4>3. EndsAt(y, e - 1, m - 1)
        BY <4>1, <4>2 DEF EndsAt
      <4>4. k = m - 1
        BY <2>3, <4>1, <4>3 DEF Tracks
      <4>5. k + 1 = m
        BY <4>4, <3>0
      <4> QED BY <4>5, <2>2, <3>2
    <3> QED BY <3>3, <3>4
  <2> QED BY <2>4 DEF Tracks, e
<1>5. A \in SUBSET (0..n)
  OBVIOUS
<1> HIDE DEF A
<1>6. A = 0..n
  BY <1>0, <1>3, <1>4, <1>5, Upwards
<1>7. n \in A
  BY <1>0, <1>6
<1> QED BY <1>7 DEF A, p, y, l

-----------------------------------------------------------------------------
\* While nothing has been found, a match in progress is the one that ref remembers.
Traced ==
  proc = "zfin_scan" => (ref = 0 \/ ref \in partial) /\ Tracks(stream, Len(stream), ref)

\* The end of the string is where a match of the whole of it ends.
LEMMA HoldsIsEnd ==
  ASSUME NEW y \in Seq(Byte), NEW i \in Nat \ {0}
  PROVE  HoldsFrom(y, i, 1) <=> i + N - 1 <= Len(y) /\ EndsAt(y, i + N - 1, N)
<1> DEFINE e == i + N - 1
<1>0. N \in Nat \ {0} /\ e \in Nat /\ e - N + 1 = i
  BY Constants
<1>1. \A j \in 1..N : e - N + j = i + j - 1
  BY <1>0
<1>2. (\A j \in 1..N : y[e - N + j] = ZFIN[j]) <=> (\A j \in 1..N : y[i + j - 1] = ZFIN[j])
  <2> HIDE DEF e
  <2> QED BY <1>1
<1>3. N <= e
  BY <1>0
<1> QED BY <1>0, <1>2, <1>3 DEF HoldsFrom, EndsAt

\* FoundCause and Complete: why a scan ended, and that it did.
Matching == Traced /\ FoundCause /\ Complete

LEMMA InitMatching == Init => Matching
<1> SUFFICES ASSUME Init PROVE Matching
  OBVIOUS
<1>1. stream = <<>> /\ Len(stream) = 0 /\ ref = 0 /\ proc = "zfin_scan" /\ N \in Nat \ {0}
  BY Empty, Constants DEF Init
<1>2. Tracks(stream, Len(stream), ref)
  BY <1>1 DEF Tracks, EndsAt
<1> QED BY <1>1, <1>2 DEF Matching, Traced, FoundCause, Complete

\* A ZFIN of the longer stream that the shorter one does not hold ends behind it.
LEMMA NewEnd ==
  ASSUME NEW x \in Seq(Byte), NEW s \in Seq(Byte), NEW i \in 1..Len(x \o s),
         HoldsFrom(x \o s, i, 1)
  PROVE  \/ i \in 1..Len(x) /\ HoldsFrom(x, i, 1)
         \/ \E n \in 1..Len(s) : i + N - 1 = Len(x) + n /\ EndsAt(x \o s, Len(x) + n, N)
<1> DEFINE e == i + N - 1
           y == x \o s
<1>0. /\ N \in Nat \ {0} /\ Len(x) \in Nat /\ Len(s) \in Nat /\ Len(y) = Len(x) + Len(s)
      /\ y \in Seq(Byte) /\ i \in Nat \ {0} /\ \A j \in 1..Len(x) : y[j] = x[j]
  BY Constants, Joined
<1> HIDE DEF y
<1>1. e <= Len(y) /\ EndsAt(y, e, N)
  BY <1>0, HoldsIsEnd DEF y
<1>2. CASE e <= Len(x)
  <2>1. i \in 1..Len(x)
    BY <1>0, <1>2
  <2>2. \A j \in 1..N : e - N + j \in 1..Len(x)
    BY <1>0, <1>2
  <2>3. EndsAt(x, e, N)
    <3> HIDE DEF e
    <3> QED BY <1>0, <1>1, <2>2 DEF EndsAt
  <2> QED BY <1>0, <1>2, <2>1, <2>3, HoldsIsEnd
<1>3. CASE ~(e <= Len(x))
  <2>1. e - Len(x) \in 1..Len(s) /\ Len(x) + (e - Len(x)) = e
    BY <1>0, <1>1, <1>3
  <2> QED BY <1>1, <2>1 DEF y
<1> QED BY <1>2, <1>3

\* A read while nothing has been found.
LEMMA ScanMatches ==
  ASSUME Kept, Kept', Matching, NEW s \in Seq(Byte), s # <<>>, stream' = stream \o s,
         proc = "zfin_scan", zfin_scan(s)
  PROVE  Matching'
<1> DEFINE n == Least(Ends(ref, s))
           p == Progress(ref, s)
<1>0. /\ ref \in 0..N - 1 /\ N \in Nat \ {0} /\ Len(s) \in Nat \ {0} /\ Len(stream) \in Nat
      /\ stream \in Seq(Byte) /\ passed = stream /\ Len(stream') = Len(stream) + Len(s)
      /\ Tracks(stream, Len(stream), ref) /\ (ref = 0 \/ ref \in partial)
      /\ \A i \in 1..Len(stream) : ~HoldsFrom(stream, i, 1)
  <2>1. stream \in Seq(Byte) /\ Len(stream') = Len(stream) + Len(s) /\ passed = stream
    BY Pieces, Joined
  <2>2. Len(s) \in Nat \ {0} /\ N \in Nat \ {0} /\ ref \in 0..N - 1
    BY EmptySeq, Constants DEF Kept, TypeOK
  <2> QED BY <2>1, <2>2 DEF Matching, Traced, Complete
<1>1. CASE Ends(ref, s) = {}
  <2>1. /\ ref' = Resume(p[Len(s)]) /\ partial' = partial \union {ref'} /\ proc' = "zfin_scan"
    BY <1>1 DEF zfin_scan
  <2>2. p[Len(s)] \in 0..N - 1 /\ \A i \in 0..Len(s) : p[i] # N
    <3>1. p[Len(s)] \in 0..N - 1
      BY <1>0, <1>1, EndsFacts
    <3>2. p[0] = ref
      BY <1>0, ProgressFollows DEF Follows
    <3>3. \A i \in 1..Len(s) : p[i] # N
      BY <1>1 DEF Ends
    <3> HIDE DEF p
    <3> QED BY <1>0, <3>1, <3>2, <3>3
  <2>3. \A i \in 0..Len(s) : Tracks(stream', Len(stream) + i, p[i])
    <3>1. ASSUME NEW i \in 0..Len(s) PROVE Tracks(stream', Len(stream) + i, p[i])
      <4>1. \A j \in 0..i - 1 : p[j] # N
        <5> HIDE DEF p
        <5> QED BY <1>0, <2>2
      <4> QED BY <1>0, <4>1, ProgressTracks
    <3> QED BY <3>1
  <2> HIDE DEF p
  <2>4. Tracks(stream', Len(stream'), ref')
    <3>1. Tracks(stream', Len(stream'), p[Len(s)])
      BY <1>0, <2>3
    <3>2. CASE p[Len(s)] = 0
      <4>1. \A m \in 1..N : ~EndsAt(stream', Len(stream'), m)
        BY <1>0, <3>1, <3>2 DEF Tracks
      <4> QED BY <4>1 DEF Tracks
    <3>3. CASE p[Len(s)] # 0
      BY <2>1, <3>1, <3>3 DEF Resume
    <3> QED BY <3>2, <3>3
  <2>5. ASSUME NEW i \in 1..Len(stream'), HoldsFrom(stream', i, 1) PROVE FALSE
    <3>1. PICK k \in 1..Len(s) : EndsAt(stream', Len(stream) + k, N)
      BY <1>0, <2>5, NewEnd
    <3>2. Tracks(stream', Len(stream) + k, p[k])
      BY <2>3
    <3>3. p[k] = N
      BY <3>1, <3>2, TracksWhole
    <3> QED BY <2>2, <3>3
  <2>6. ref' \in partial'
    BY <2>1
  <2> QED BY <2>1, <2>4, <2>5, <2>6 DEF Matching, Traced, FoundCause, Complete
<1>2. CASE Ends(ref, s) # {}
  <2>1. /\ passed' = stream \o SubSeq(s, 1, n) /\ partial' = partial
        /\ proc' # "zfin_scan"
    BY <1>0, <1>2 DEF zfin_scan, Found, zfin_nooo, zfin_term, zfin_drop, zfin_save
  <2>2. n \in 1..Len(s) /\ p[n] = N /\ \A i \in 0..n - 1 : p[i] # N
    BY <1>0, <1>2, EndsFacts
  <2>3. Read(s, n, ref, p[n])
    BY SMTT(30), <1>0, <2>2, ProgressIsRead
  <2>4. \A k \in 0..n - 1 : Tracks(stream', Len(stream) + k, p[k])
    <3>1. ASSUME NEW k \in 0..n - 1 PROVE Tracks(stream', Len(stream) + k, p[k])
      <4>1. k \in 0..Len(s) /\ \A i \in 0..k - 1 : p[i] # N
        BY <1>0, <2>2
      <4> QED BY <1>0, <4>1, ProgressTracks
    <3> QED BY <3>1
  <2> HIDE DEF n, p
  <2>5. /\ passed' \in Seq(Byte) /\ Len(passed') = Len(stream) + n
        /\ \A i \in 1..n : passed'[Len(stream) + i] = s[i]
    <3>1. /\ SubSeq(s, 1, n) \in Seq(Byte) /\ Len(SubSeq(s, 1, n)) = n
          /\ \A i \in 1..n : SubSeq(s, 1, n)[i] = s[i]
      <4>1. n \in 0..Len(s)
        BY <2>2
      <4> QED BY <4>1, Parts
    <3> QED BY <1>0, <2>1, <3>1, Joined
  <2>6. ASSUME NEW i \in 1..Len(stream'), HoldsFrom(stream', i, 1)
        PROVE  Len(passed') < i + N
    <3>1. PICK k \in 1..Len(s) : i + N - 1 = Len(stream) + k /\ EndsAt(stream', Len(stream) + k, N)
      BY <1>0, <2>6, NewEnd
    <3>2. k < n => p[k] = N
      <4>1. k < n => k \in 0..n - 1
        BY <2>2
      <4> QED BY <2>4, <3>1, <4>1, TracksWhole
    <3>3. n <= k
      BY <2>2, <3>2, <1>0
    <3> QED BY <1>0, <2>2, <2>5, <3>1, <3>3
  <2>7. FoundCause'
    <3>1. CASE EndsAt(s, n, N)
      <4>1. N <= n /\ \A j \in 1..N : s[n - N + j] = ZFIN[j]
        BY <3>1 DEF EndsAt
      <4>2. ASSUME NEW j \in 1..N PROVE passed'[Len(passed') - (N - 1) + j - 1] = ZFIN[j]
        <5>1. n - N + j \in 1..n
          BY <1>0, <2>2, <4>1
        <5>2. Len(stream) + (n - N + j) = Len(passed') - (N - 1) + j - 1
          BY <1>0, <2>2, <2>5
        <5> QED BY <2>5, <4>1, <5>1, <5>2
      <4>3. HoldsFrom(passed', Len(passed') - (N - 1), 1)
        <5>1. Len(passed') - (N - 1) >= 1 /\ Len(passed') - (N - 1) + N - 1 <= Len(passed')
          BY <1>0, <2>2, <2>5, <4>1
        <5> QED BY <4>2, <5>1 DEF HoldsFrom
      <4> QED BY <1>0, <4>3 DEF FoundCause
    <3>2. CASE N = ref + n /\ \A j \in 1..n : s[j] = ZFIN[ref + j]
      <4> DEFINE k == ref + 1
      <4>1. k \in 1..N /\ Len(passed') - (N - k) = Len(stream) + 1 /\ (k = 1 \/ k - 1 \in partial')
        BY <1>0, <2>1, <2>2, <2>5, <3>2
      <4>2. ASSUME NEW j \in k..N PROVE passed'[Len(stream) + 1 + j - k] = ZFIN[j]
        <5>1. j - ref \in 1..n /\ ref + (j - ref) = j /\ Len(stream) + (j - ref) = Len(stream) + 1 + j - k
          BY <1>0, <2>2, <3>2
        <5>2. passed'[Len(stream) + (j - ref)] = s[j - ref] /\ s[j - ref] = ZFIN[ref + (j - ref)]
          BY <2>5, <3>2, <5>1
        <5> HIDE DEF k
        <5> QED BY <5>1, <5>2
      <4>3. Len(stream) + 1 >= 1 /\ Len(stream) + 1 + N - k <= Len(passed')
        BY <1>0, <2>2, <2>5, <3>2
      <4> HIDE DEF k
      <4>4. HoldsFrom(passed', Len(passed') - (N - k), k)
        BY <4>1, <4>2, <4>3 DEF HoldsFrom
      <4> QED BY <4>1, <4>4 DEF FoundCause
    <3> QED BY <2>2, <2>3, <3>1, <3>2 DEF Read
  <2> QED BY <2>1, <2>6, <2>7 DEF Matching, Traced, Complete
<1> QED BY <1>1, <1>2

\* After that nothing is passed on, and a ZFIN that still comes ends behind what was.
LEMMA BehindMatches ==
  ASSUME Kept, Matching, NEW s \in Seq(Byte), proc # "zfin_scan", fifo_read(s)
  PROVE  Matching'
<1>1. /\ proc' # "zfin_scan" /\ UNCHANGED <<passed, partial>> /\ stream' = stream \o s
  BY DEF fifo_read, zfin_nooo, zfin_save, zfin_drop, Kept, TypeOK
<1>2. Traced' /\ FoundCause'
  BY <1>1 DEF Matching, Traced, FoundCause, HoldsFrom
<1>3. /\ stream \in Seq(Byte) /\ Len(passed) \in Nat /\ Len(passed) <= Len(stream)
      /\ N \in Nat \ {0} /\ Len(stream) \in Nat
  <2> DEFINE w == passed \o Os(oocount)
  <2>1. /\ {passed, savebuf, dropped, stream, Os(oocount)} \subseteq Seq(Byte)
        /\ stream = (w \o savebuf) \o dropped
    BY Pieces
  <2>2. w \in Seq(Byte) /\ Len(w) = Len(passed) + Len(Os(oocount))
    BY <2>1, Joined
  <2> HIDE DEF w
  <2>3. w \o savebuf \in Seq(Byte) /\ Len(w \o savebuf) = Len(w) + Len(savebuf)
    BY <2>1, <2>2, Joined
  <2>4. Len(stream) = Len(w \o savebuf) + Len(dropped)
    BY <2>1, <2>3, Joined
  <2>5. {Len(passed), Len(Os(oocount)), Len(savebuf), Len(dropped)} \subseteq Nat
    BY <2>1
  <2> QED BY <2>1, <2>2, <2>3, <2>4, <2>5, Constants
<1>4. ASSUME NEW i \in 1..Len(stream'), HoldsFrom(stream', i, 1) PROVE Len(passed) < i + N
  <2>1. CASE i \in 1..Len(stream) /\ HoldsFrom(stream, i, 1)
    BY <2>1 DEF Matching, Complete
  <2>2. CASE \E n \in 1..Len(s) : i + N - 1 = Len(stream) + n
    BY <1>3, <2>2
  <2> QED BY <1>1, <1>3, <1>4, <2>1, <2>2, NewEnd
<1> QED BY <1>1, <1>2, <1>4 DEF Matching, Complete

LEMMA NextMatching == Kept /\ Kept' /\ Matching /\ [Next]_vars => Matching'
<1> SUFFICES ASSUME Kept, Kept', Matching, [Next]_vars PROVE Matching'
  OBVIOUS
<1>1. CASE UNCHANGED vars
  BY <1>1 DEF vars, Matching, Traced, FoundCause, Complete, HoldsFrom, Tracks, EndsAt
<1>2. CASE Next
  <2>1. PICK s \in Packet : fifo_read(s)
    BY <1>2 DEF Next
  <2>2. s \in Seq(Byte) /\ s # <<>> /\ stream' = stream \o s
    BY <2>1, PacketIsSeq DEF fifo_read
  <2>3. CASE proc = "zfin_scan"
    BY <2>1, <2>2, <2>3, ScanMatches DEF fifo_read
  <2>4. CASE proc # "zfin_scan"
    BY <2>1, <2>2, <2>4, BehindMatches
  <2> QED BY <2>3, <2>4
<1> QED BY <1>1, <1>2

-----------------------------------------------------------------------------
\* The state of the scanner is sound, and the save buffer is large enough for what it holds.
THEOREM ZfinTypeOK == Spec => []TypeOK
<1>1. Kept => TypeOK
  BY DEF Kept
<1> QED BY <1>1, InitKept, NextKept, PTL DEF Spec

\* The filter loses, doubles and reorders nothing, however the stream is cut.
THEOREM ZfinConservation == Spec => []Conservation
<1>1. Kept => Conservation
  BY DEF Kept
<1> QED BY <1>1, InitKept, NextKept, PTL DEF Spec

\* Of what follows the ZFIN no more than the "OO" is kept from the terminal.
THEOREM ZfinOverAndOut == Spec => []OverAndOut
<1>1. Kept => OverAndOut
  BY DEF Kept
<1> QED BY <1>1, InitKept, NextKept, PTL DEF Spec

(***************************************************************************)
(* No ZFIN goes unnoticed, wherever reads cut it and whatever came before  *)
(* it.                                                                     *)
(***************************************************************************)
THEOREM ZfinComplete == Spec => []Complete
<1>1. Matching => Complete
  BY DEF Matching
<1> QED BY <1>1, InitKept, NextKept, InitMatching, NextMatching, PTL DEF Spec

(***************************************************************************)
(* A scan ends only where the string ends, and what is missing at its      *)
(* front a packet had ended with before.                                   *)
(***************************************************************************)
THEOREM ZfinFoundCause == Spec => []FoundCause
<1>1. Matching => FoundCause
  BY DEF Matching
<1> QED BY <1>1, InitKept, NextKept, InitMatching, NextMatching, PTL DEF Spec
=============================================================================
