----------------------------- MODULE ZrqProofs -----------------------------
(***************************************************************************)
(* The start scanner loses nothing, starts for a header only, overlooks    *)
(* none that it can see whole, and overruns its room by what it held at    *)
(* most: for any packets, any capacity and any stream.                     *)
(***************************************************************************)
EXTENDS ZrqScan, SequenceTheorems, WellFoundedInduction, TLAPS

RzKinds == {"RZNONE", "RZNL", "RZCR", "RZCRNL"}

\* How much of the stream the scanner has looked at.
Taken == Len(stream) - Len(input)

\* What parse_state, gotrz and starcnt stand for.
HeldFor(p, g, n) == Rz(g) \o Stars(n) \o SubSeq(Header, 1, IF p > 0 THEN p ELSE 0)

(***************************************************************************)
(* While no transfer has started, nothing is announced; a header is read   *)
(* behind at least one star.                                               *)
(***************************************************************************)
Fresh ==
  /\ phase = "echo" => announced = <<>> /\ remaining = <<>>
  /\ parse_state > 0 => starcnt > 0

\* A packet ends where the stream does, or in front of what is looked at now.
CutsBehind ==
  /\ cuts \subseteq 0..Len(stream)
  /\ Len(stream) > 0 => Len(stream) \in cuts
  /\ phase = "echo" => \A c \in cuts : c = Len(stream) \/ c <= Taken

\* No packet ends within an rz that is held, or between a star and the ZDLE.
Uncut ==
  phase = "echo" =>
    \A c \in cuts :
      LET first == Taken - Len(Held)
          rz == Len(Rz(gotrz))
      IN  /\ ~(first < c /\ c < first + rz)
          /\ starcnt > 0 => ~(first + rz < c /\ c <= first + rz + starcnt)

\* From the star at place i on, the stream may be a header.
Begun(i) ==
  /\ i < Len(stream) /\ stream[i] = "*"
  /\ \A j \in 1..4 : i + j <= Len(stream) => stream[i + j] = Header[j]

(***************************************************************************)
(* A header whose star has been looked at is the one that parse_state      *)
(* counts, unless its packet ended at the star.                            *)
(***************************************************************************)
Followed ==
  phase = "echo" =>
    \A i \in 1..Taken :
      Begun(i) => i \in cuts \/ (parse_state > 0 /\ i + parse_state = Taken)

Inv == /\ TypeOK /\ Conservation /\ RoomBound /\ StartIsHeader
       /\ Fresh /\ CutsBehind /\ Uncut /\ Followed

-----------------------------------------------------------------------------
\* The numbers that satisfy T have a least.
LEMMA LeastIn ==
  ASSUME NEW T \in SUBSET Nat, T # {}
  PROVE  \E x \in T : \A y \in T : x <= y
<1>1. PICK x \in T : \A y \in T : ~ (<<y, x>> \in OpToRel(<, Nat))
  BY NatLessThanWellFounded, WFMin
<1>2. ASSUME NEW y \in T PROVE x <= y
  <2>1. ~(y < x)
    BY <1>1 DEF OpToRel
  <2> QED BY <2>1
<1> QED BY <1>2

\* A sequence is what comes first and the rest of it.
LEMMA Parts ==
  ASSUME NEW s \in Seq(Byte), NEW n \in 0..Len(s)
  PROVE  /\ SubSeq(s, 1, n) \in Seq(Byte) /\ Len(SubSeq(s, 1, n)) = n
         /\ Suffix(s, n) \in Seq(Byte) /\ Len(Suffix(s, n)) = Len(s) - n
         /\ SubSeq(s, 1, n) \o Suffix(s, n) = s
         /\ \A i \in 1..n : SubSeq(s, 1, n)[i] = s[i]
         /\ \A i \in 1..Len(s) - n : Suffix(s, n)[i] = s[n + i]
<1> DEFINE a == SubSeq(s, 1, n)
           b == SubSeq(s, n + 1, Len(s))
<1>0. Len(s) \in Nat /\ n \in Int /\ 1 \in Int /\ n + 1 \in Int /\ Len(s) \in Int
  OBVIOUS
<1>1. (\A i \in 1..n : s[i] \in Byte) /\ (\A i \in n + 1..Len(s) : s[i] \in Byte)
  <2>1. \A i \in 1..Len(s) : s[i] \in Byte
    BY ElementOfSeq
  <2> QED BY <2>1, <1>0
<1>2. a \in Seq(Byte) /\ Len(a) = n /\ \A i \in 1..n : a[i] = s[i]
  <2>1. Len(a) = IF 1 <= n THEN n - 1 + 1 ELSE 0
    BY <1>0, <1>1, SubSeqProperties
  <2>2. a \in Seq(Byte) /\ \A i \in 1..n - 1 + 1 : a[i] = s[1 + i - 1]
    BY <1>0, <1>1, SubSeqProperties
  <2> HIDE DEF a
  <2> QED BY <2>1, <2>2, <1>0
<1>3. b \in Seq(Byte) /\ Len(b) = Len(s) - n /\ \A i \in 1..Len(s) - n : b[i] = s[n + i]
  <2>1. Len(b) = IF n + 1 <= Len(s) THEN Len(s) - (n + 1) + 1 ELSE 0
    BY <1>0, <1>1, SubSeqProperties
  <2>2. b \in Seq(Byte) /\ \A i \in 1..Len(s) - (n + 1) + 1 : b[i] = s[n + 1 + i - 1]
    BY <1>0, <1>1, SubSeqProperties
  <2> HIDE DEF b
  <2> QED BY <2>1, <2>2, <1>0
<1>4. a \o b = s
  <2>1. 1 \in 1..Len(s) + 1 /\ n \in 1 - 1..Len(s) /\ Len(s) \in n..Len(s)
    BY <1>0
  <2> QED BY <2>1, ConcatAdjacentSubSeq, SubSeqFull
<1> QED BY <1>2, <1>3, <1>4 DEF Suffix

\* What comes behind another sequence keeps its order.
LEMMA Joined ==
  ASSUME NEW s \in Seq(Byte), NEW t \in Seq(Byte)
  PROVE  /\ s \o t \in Seq(Byte) /\ Len(s \o t) = Len(s) + Len(t)
         /\ \A i \in 1..Len(s) : (s \o t)[i] = s[i]
         /\ \A i \in 1..Len(t) : (s \o t)[Len(s) + i] = t[i]
<1>1. Len(s) \in Nat /\ Len(t) \in Nat
  OBVIOUS
<1>2. /\ s \o t \in Seq(Byte) /\ Len(s \o t) = Len(s) + Len(t)
      /\ \A i \in 1..Len(s) + Len(t) : (s \o t)[i] = IF i <= Len(s) THEN s[i] ELSE t[i - Len(s)]
  BY ConcatProperties
<1>3. \A i \in 1..Len(s) : (s \o t)[i] = s[i]
  BY <1>1, <1>2
<1>4. ASSUME NEW i \in 1..Len(t) PROVE (s \o t)[Len(s) + i] = t[i]
  <2>1. Len(s) + i \in 1..Len(s) + Len(t) /\ ~(Len(s) + i <= Len(s)) /\ Len(s) + i - Len(s) = i
    BY <1>1
  <2> QED BY <2>1, <1>2
<1> QED BY <1>2, <1>3, <1>4

LEMMA Empty == /\ <<>> \in Seq(Byte) /\ Len(<<>>) = 0
               /\ \A s \in Seq(Byte) : s \o <<>> = s /\ <<>> \o s = s
BY EmptySeq, ConcatEmptySeq

(***************************************************************************)
(* Concatenation by a name of its own: its laws, without its elements.     *)
(***************************************************************************)
Cat(s, t) == s \o t

LEMMA Associative ==
  ASSUME NEW w \in Seq(Byte), NEW s \in Seq(Byte), NEW t \in Seq(Byte)
  PROVE  (w \o s) \o t = w \o (s \o t)
BY ConcatAssociative, SMTT(30)

LEMMA CatLaws ==
  /\ \A s, t \in Seq(Byte) : Cat(s, t) \in Seq(Byte) /\ Len(Cat(s, t)) = Len(s) + Len(t)
  /\ \A w, s, t \in Seq(Byte) : Cat(Cat(w, s), t) = Cat(w, Cat(s, t))
  /\ \A s \in Seq(Byte) : Cat(s, <<>>) = s /\ Cat(<<>>, s) = s
<1>1. \A s, t \in Seq(Byte) : Cat(s, t) \in Seq(Byte) /\ Len(Cat(s, t)) = Len(s) + Len(t)
  BY Joined DEF Cat
<1>2. \A w, s, t \in Seq(Byte) : Cat(Cat(w, s), t) = Cat(w, Cat(s, t))
  BY Associative DEF Cat
<1>3. \A s \in Seq(Byte) : Cat(s, <<>>) = s /\ Cat(<<>>, s) = s
  BY Empty DEF Cat
<1> QED BY <1>1, <1>2, <1>3

-----------------------------------------------------------------------------
\* What the scanner may hold: an rz, stars, the first letters of the header.
LEMMA Letters ==
  /\ "r" \in Byte /\ "z" \in Byte /\ "CR" \in Byte /\ "NL" \in Byte
  /\ "*" \in Byte /\ "ZDLE" \in Byte /\ "B" \in Byte /\ "0" \in Byte
BY ZrqAssumption

LEMMA RzIs ==
  /\ Rz("RZNONE") = <<>> /\ Rz("RZNL") = <<"r", "z", "NL">>
  /\ Rz("RZCR") = <<"r", "z", "CR">> /\ Rz("RZCRNL") = <<"r", "z", "CR", "NL">>
BY DEF Rz

LEMMA RzIsSeq ==
  ASSUME NEW g \in RzKinds
  PROVE  Rz(g) \in Seq(Byte) /\ Len(Rz(g)) \in 0..4
<1>1. <<>> \in Seq(Byte) /\ Len(<<>>) = 0
  BY Empty
<1>2. <<"r", "z", "NL">> \in Seq(Byte) /\ Len(<<"r", "z", "NL">>) = 3
  BY Letters
<1>3. <<"r", "z", "CR">> \in Seq(Byte) /\ Len(<<"r", "z", "CR">>) = 3
  BY Letters
<1>4. <<"r", "z", "CR", "NL">> \in Seq(Byte) /\ Len(<<"r", "z", "CR", "NL">>) = 4
  BY Letters
<1>5. g = "RZNONE" \/ g = "RZNL" \/ g = "RZCR" \/ g = "RZCRNL"
  BY DEF RzKinds
<1>6. /\ Rz("RZNONE") \in Seq(Byte) /\ Len(Rz("RZNONE")) = 0
      /\ Rz("RZNL") \in Seq(Byte) /\ Len(Rz("RZNL")) = 3
      /\ Rz("RZCR") \in Seq(Byte) /\ Len(Rz("RZCR")) = 3
      /\ Rz("RZCRNL") \in Seq(Byte) /\ Len(Rz("RZCRNL")) = 4
  BY <1>1, <1>2, <1>3, <1>4, RzIs, Zenon
<1> QED BY <1>5, <1>6

LEMMA StarsIsSeq ==
  ASSUME NEW n \in Nat
  PROVE  /\ Stars(n) \in Seq(Byte) /\ Len(Stars(n)) = n
         /\ \A i \in 1..n : Stars(n)[i] = "*"
<1>1. Stars(n) \in [1..n -> Byte]
  BY Letters DEF Stars
<1>2. Stars(n) \in Seq(Byte)
  BY <1>1, SeqDef
<1> QED BY <1>1, <1>2 DEF Stars

LEMMA HeaderIsSeq ==
  /\ Header \in Seq(Byte) /\ Len(Header) = 4
  /\ Header[1] = "ZDLE" /\ Header[2] = "B" /\ Header[3] = "0" /\ Header[4] = "0"
BY Letters DEF Header

LEMMA HeldForIsSeq ==
  ASSUME NEW p \in -1..3, NEW g \in RzKinds, NEW n \in Nat
  PROVE  LET d == IF p > 0 THEN p ELSE 0
         IN  /\ HeldFor(p, g, n) \in Seq(Byte)
             /\ Rz(g) \o Stars(n) \in Seq(Byte)
             /\ SubSeq(Header, 1, d) \in Seq(Byte)
             /\ Len(HeldFor(p, g, n)) = Len(Rz(g)) + n + d
<1> DEFINE d == IF p > 0 THEN p ELSE 0
           h == SubSeq(Header, 1, d)
<1>1. d \in 0..Len(Header)
  BY HeaderIsSeq
<1>2. h \in Seq(Byte) /\ Len(h) = d
  BY <1>1, HeaderIsSeq, Parts
<1> HIDE DEF d
<1>3. /\ Rz(g) \in Seq(Byte) /\ Len(Rz(g)) \in Nat /\ Stars(n) \in Seq(Byte) /\ Len(Stars(n)) = n
  BY RzIsSeq, StarsIsSeq
<1>4. /\ Rz(g) \o Stars(n) \in Seq(Byte) /\ Len(Rz(g) \o Stars(n)) = Len(Rz(g)) + n
  BY <1>3, Joined
<1> HIDE DEF h
<1>5. /\ (Rz(g) \o Stars(n)) \o h \in Seq(Byte)
      /\ Len((Rz(g) \o Stars(n)) \o h) = Len(Rz(g)) + n + d
  BY <1>2, <1>4, Joined
<1>6. HeldFor(p, g, n) = (Rz(g) \o Stars(n)) \o h
  BY DEF HeldFor, h, d
<1> QED BY <1>2, <1>4, <1>5, <1>6 DEF h, d

LEMMA HeldIs ==
  /\ Held = HeldFor(parse_state, gotrz, starcnt)
  /\ Held' = HeldFor(parse_state', gotrz', starcnt')
BY DEF Held, HeldFor, Depth

LEMMA NothingHeld == HeldFor(0, "RZNONE", 0) = <<>>
<1>1. HeldFor(0, "RZNONE", 0) \in Seq(Byte) /\ Len(HeldFor(0, "RZNONE", 0)) = 0
  <2>1. Rz("RZNONE") = <<>>
    BY RzIs
  <2> QED BY <2>1, HeldForIsSeq, Empty DEF RzKinds
<1> QED BY <1>1, EmptySeq

\* An rz alone.
LEMMA RzHeld ==
  ASSUME NEW g \in RzKinds
  PROVE  HeldFor(-1, g, 0) = Rz(g)
<1>1. Stars(0) = <<>>
  BY StarsIsSeq, EmptySeq
<1>2. SubSeq(Header, 1, 0) = <<>>
  <2>1. SubSeq(Header, 1, 0) \in Seq(Byte) /\ Len(SubSeq(Header, 1, 0)) = 0
    BY HeaderIsSeq, Parts
  <2> QED BY <2>1, EmptySeq
<1>3. HeldFor(-1, g, 0) = Rz(g) \o Stars(0) \o SubSeq(Header, 1, 0)
  BY DEF HeldFor
<1> QED BY <1>1, <1>2, <1>3, RzIsSeq, Empty

\* What begins with t is t and the rest.
LEMMA Prefixed ==
  ASSUME NEW s \in Seq(Byte), NEW t \in Seq(Byte), Len(t) <= Len(s),
         \A i \in 1..Len(t) : s[i] = t[i]
  PROVE  Len(t) \in 0..Len(s) /\ SubSeq(s, 1, Len(t)) = t
<1>1. Len(t) \in 0..Len(s)
  OBVIOUS
<1> DEFINE a == SubSeq(s, 1, Len(t))
<1>2. a \in Seq(Byte) /\ Len(a) = Len(t) /\ \A i \in 1..Len(t) : a[i] = s[i]
  BY <1>1, Parts
<1> HIDE DEF a
<1>3. a = t
  BY <1>2, SeqEqual
<1> QED BY <1>1, <1>3 DEF a

\* How far the bytes reach that are no r and no star.
LEMMA GarbageFacts ==
  ASSUME NEW s \in Seq(Byte)
  PROVE  /\ Garbage(s) \in 0..Len(s)
         /\ \A i \in 1..Garbage(s) : s[i] \notin {"r", "*"}
<1> DEFINE P(n) == /\ \A i \in 1..n : s[i] \notin {"r", "*"}
                   /\ n = Len(s) \/ s[n + 1] \in {"r", "*"}
           T == {n \in 0..Len(s) : n = Len(s) \/ s[n + 1] \in {"r", "*"}}
<1>0. Len(s) \in Nat
  OBVIOUS
<1>1. T \in SUBSET Nat /\ T # {}
  BY <1>0
<1>2. PICK x \in T : \A y \in T : x <= y
  <2> HIDE DEF T
  <2> QED BY <1>1, LeastIn
<1>3. ASSUME NEW i \in 1..x PROVE s[i] \notin {"r", "*"}
  <2>1. i - 1 \in 0..Len(s) /\ i - 1 # Len(s) /\ ~(x <= i - 1) /\ i - 1 + 1 = i
    BY <1>0, <1>2
  <2>2. i - 1 \notin T
    BY <1>2, <2>1
  <2> QED BY <2>1, <2>2
<1>4. \E n \in 0..Len(s) : P(n)
  BY <1>2, <1>3
<1>5. Garbage(s) = CHOOSE n \in 0..Len(s) : P(n)
  BY DEF Garbage
<1> HIDE DEF P
<1>6. Garbage(s) \in 0..Len(s) /\ P(Garbage(s))
  BY <1>4, <1>5
<1> QED BY <1>6 DEF P

\* How far the stars reach.
LEMMA LeadingStarsFacts ==
  ASSUME NEW s \in Seq(Byte)
  PROVE  LET n == LeadingStars(s)
         IN  /\ n \in 0..Len(s) /\ \A i \in 1..n : s[i] = "*"
             /\ n = Len(s) \/ s[n + 1] # "*"
<1> DEFINE P(n) == (\A i \in 1..n : s[i] = "*") /\ (n = Len(s) \/ s[n + 1] # "*")
           T == {n \in 0..Len(s) : n = Len(s) \/ s[n + 1] # "*"}
<1>0. Len(s) \in Nat
  OBVIOUS
<1>1. T \in SUBSET Nat /\ T # {}
  BY <1>0
<1>2. PICK x \in T : \A y \in T : x <= y
  <2> HIDE DEF T
  <2> QED BY <1>1, LeastIn
<1>3. ASSUME NEW i \in 1..x PROVE s[i] = "*"
  <2>1. i - 1 \in 0..Len(s) /\ i - 1 # Len(s) /\ ~(x <= i - 1) /\ i - 1 + 1 = i
    BY <1>0, <1>2
  <2>2. i - 1 \notin T
    BY <1>2, <2>1
  <2> QED BY <2>1, <2>2
<1>4. \E n \in 0..Len(s) : P(n)
  BY <1>2, <1>3
<1>5. LeadingStars(s) = CHOOSE n \in 0..Len(s) : P(n)
  BY DEF LeadingStars
<1> HIDE DEF P
<1>6. LeadingStars(s) \in 0..Len(s) /\ P(LeadingStars(s))
  BY <1>4, <1>5
<1> QED BY <1>6 DEF P

-----------------------------------------------------------------------------
\* Before a transfer the stream is what was passed on, what is held and what is ahead.
LEMMA Ahead ==
  ASSUME Inv, phase = "echo"
  PROVE  /\ Held \in Seq(Byte) /\ Len(Held) = Len(Rz(gotrz)) + starcnt + Depth
         /\ Len(Rz(gotrz)) \in 0..4 /\ Depth \in 0..3
         /\ passed \in Seq(Byte) /\ input \in Seq(Byte) /\ stream \in Seq(Byte)
         /\ stream = Cat(Cat(passed, Held), input)
         /\ Len(stream) = Len(passed) + Len(Held) + Len(input)
         /\ Taken = Len(passed) + Len(Held)
         /\ \A j \in 1..Len(input) : stream[Taken + j] = input[j]
<1>0. TypeOK /\ Conservation /\ announced = <<>> /\ remaining = <<>>
  BY DEF Inv, Fresh
<1>1. /\ parse_state \in -1..3 /\ gotrz \in RzKinds /\ starcnt \in Nat
      /\ passed \in Seq(Byte) /\ input \in Seq(Byte) /\ stream \in Seq(Byte)
  BY <1>0 DEF TypeOK, RzKinds
<1>2. /\ Held \in Seq(Byte) /\ Len(Held) = Len(Rz(gotrz)) + starcnt + Depth
      /\ Len(Rz(gotrz)) \in 0..4 /\ Depth \in 0..3
  <2>1. Depth = IF parse_state > 0 THEN parse_state ELSE 0
    BY DEF Depth
  <2>2. /\ HeldFor(parse_state, gotrz, starcnt) \in Seq(Byte)
        /\ Len(HeldFor(parse_state, gotrz, starcnt)) = Len(Rz(gotrz)) + starcnt + Depth
    BY <1>1, <2>1, HeldForIsSeq
  <2> QED BY <1>1, <2>1, <2>2, HeldIs, RzIsSeq
<1>3. stream = Cat(Cat(passed, Held), input)
  <2>1. stream = Cat(Cat(Cat(Cat(passed, <<>>), Held), input), <<>>)
    BY <1>0, Zenon DEF Conservation, Cat
  <2>2. Cat(Cat(passed, Held), input) \in Seq(Byte)
    BY <1>1, <1>2, CatLaws
  <2> QED BY <2>1, <2>2, <1>1, CatLaws
<1>4. /\ Cat(passed, Held) \in Seq(Byte) /\ Len(Cat(passed, Held)) = Len(passed) + Len(Held)
  BY <1>1, <1>2, CatLaws
<1> DEFINE ph == Cat(passed, Held)
<1> HIDE DEF ph
<1>5. /\ ph \in Seq(Byte) /\ Len(ph) = Len(passed) + Len(Held) /\ stream = ph \o input
  BY <1>3, <1>4, Zenon DEF ph, Cat
<1>6. /\ Len(ph \o input) = Len(ph) + Len(input)
      /\ \A j \in 1..Len(input) : (ph \o input)[Len(ph) + j] = input[j]
  BY <1>1, <1>5, Joined
<1>7. Len(stream) = Len(ph) + Len(input) /\ Taken = Len(ph)
  <2>1. Len(stream) = Len(ph) + Len(input)
    BY <1>5, <1>6
  <2>2. Len(ph) \in Nat /\ Len(input) \in Nat
    BY <1>1, <1>5
  <2> QED BY <2>1, <2>2 DEF Taken
<1> QED BY <1>1, <1>2, <1>3, <1>5, <1>6, <1>7

\* A turn that passes s on loses nothing.
Regains(s) == Cat(s, Cat(Held', input')) = Cat(Held, input)

\* What a turn that starts no transfer keeps, if it passes s on and loses nothing.
LEMMA TurnKeeps ==
  ASSUME Inv, Scanning, NEW s \in Seq(Byte), fifo_append(s),
         Held' \in Seq(Byte), input' \in Seq(Byte), Len(input') <= Len(input),
         Regains(s), UNCHANGED traffic
  PROVE  /\ passed' \in Seq(Byte) /\ count' \in 0..Capacity /\ phase' \in {"echo", "overflow"}
         /\ Conservation' /\ RoomBound' /\ StartIsHeader' /\ CutsBehind'
         /\ announced' = <<>> /\ remaining' = <<>>
<1>0. /\ phase = "echo" /\ count \in 0..Capacity /\ Capacity \in Nat /\ carried \in Nat
      /\ announced' = <<>> /\ remaining' = <<>> /\ stream' = stream /\ carried' = carried
      /\ cuts' = cuts
  BY ZrqAssumption DEF Inv, TypeOK, Fresh, Scanning, traffic
<1>1. /\ Held \in Seq(Byte) /\ passed \in Seq(Byte) /\ input \in Seq(Byte)
      /\ stream \in Seq(Byte) /\ stream = Cat(Cat(passed, Held), input)
  BY <1>0, Ahead
<1>2. passed' = Cat(passed, s) /\ passed' \in Seq(Byte)
  <2>1. passed' = Cat(passed, s)
    BY Zenon DEF fifo_append, Cat
  <2> QED BY <2>1, <1>1, CatLaws
<1>3. Len(s) + Len(Held') + Len(input') = Len(Held) + Len(input)
  <2>1. Cat(Held', input') \in Seq(Byte) /\ Len(Cat(Held', input')) = Len(Held') + Len(input')
    BY CatLaws
  <2>2. Len(Cat(s, Cat(Held', input'))) = Len(s) + Len(Cat(Held', input'))
    BY <2>1, CatLaws
  <2>3. Len(Cat(Held, input)) = Len(Held) + Len(input)
    BY <1>1, CatLaws
  <2>4. Len(s) \in Nat /\ Len(Held') \in Nat /\ Len(input') \in Nat
    OBVIOUS
  <2>5. Len(Cat(s, Cat(Held', input'))) = Len(Cat(Held, input))
    BY Zenon DEF Regains
  <2>6. Len(s) + (Len(Held') + Len(input')) = Len(Held) + Len(input)
    BY <2>1, <2>2, <2>3, <2>5
  <2> QED BY <2>4, <2>6
<1>4. /\ Len(s) \in Nat /\ Len(Held') \in Nat /\ Len(input') \in Nat
      /\ Len(Held) \in Nat /\ Len(input) \in Nat /\ Len(stream) \in Nat
  BY <1>1
<1>5. \/ count' = count + Len(s) /\ count + Len(s) <= Capacity /\ phase' = "echo"
      \/ /\ count' = (count + Len(s)) % (Capacity + 1) /\ count + Len(s) > Capacity
         /\ phase' = "overflow"
  BY <1>0, <1>4 DEF fifo_append
<1>6. count' \in 0..Capacity
  <2>1. CASE phase' = "echo"
    BY <2>1, <1>0, <1>4, <1>5
  <2>2. CASE phase' = "overflow"
    <3>1. \A x \in Nat, k \in Nat : x % (k + 1) \in 0..k
      OBVIOUS
    <3>2. count + Len(s) \in Nat
      BY <1>0, <1>4
    <3> QED BY <2>2, <3>1, <3>2, <1>0, <1>5
  <2> QED BY <2>1, <2>2, <1>5
<1>7. Conservation'
  <2>1. Cat(Cat(passed, Held), input) = Cat(passed, Cat(Held, input))
    BY <1>1, CatLaws
  <2>2. Cat(passed, s) \in Seq(Byte) /\ Cat(Held', input') \in Seq(Byte)
    BY <1>1, CatLaws
  <2>3. Cat(Cat(Cat(passed, s), Held'), input') = Cat(Cat(passed, s), Cat(Held', input'))
    BY <2>2, CatLaws
  <2>4. Cat(Cat(passed, s), Cat(Held', input')) = Cat(passed, Cat(s, Cat(Held', input')))
    BY <1>1, <2>2, CatLaws
  <2>5. stream' = Cat(Cat(passed', Held'), input')
    BY <1>0, <1>1, <1>2, <2>1, <2>3, <2>4 DEF Regains
  <2>6. Cat(passed', Held') \in Seq(Byte) /\ Cat(Cat(passed', Held'), input') \in Seq(Byte)
    BY <1>2, CatLaws
  <2>7. stream' = Cat(Cat(Cat(Cat(passed', announced'), Held'), input'), remaining')
    BY <2>5, <2>6, <1>0, <1>2, CatLaws
  <2> QED BY <2>7, Zenon DEF Conservation, Cat
<1>8. RoomBound'
  <2>1. count + Len(Held) + Len(input) <= Capacity + carried
    BY <1>0 DEF Inv, RoomBound
  <2>2. phase' = "echo" => count' + Len(Held') + Len(input') <= Capacity + carried
    BY <2>1, <1>0, <1>3, <1>4, <1>5
  <2>3. phase' = "overflow" => carried > 0
    BY <2>1, <1>0, <1>3, <1>4, <1>5
  <2> QED BY <2>2, <2>3, <1>0 DEF RoomBound
<1>9. StartIsHeader'
  BY <1>0 DEF StartIsHeader
<1>10. CutsBehind'
  <2>1. CutsBehind /\ Taken' >= Taken /\ Taken \in Int /\ Taken' \in Int
    BY <1>0, <1>4 DEF Inv, Taken
  <2>2. \A c \in cuts : c \in Int /\ (c = Len(stream) \/ c <= Taken')
    BY <2>1, <1>0, <1>4 DEF CutsBehind
  <2> QED BY <2>1, <2>2, <1>0 DEF CutsBehind
<1> QED BY <1>0, <1>2, <1>5, <1>6, <1>7, <1>8, <1>9, <1>10

\* Each star that ends the n bytes before a ZDLE is counted afterwards.
Counted(n) ==
  \A j \in 1..n : input[j] = "*" /\ j < Len(input) /\ input[j + 1] = "ZDLE"
                    => parse_state' > 0 /\ j + parse_state' = n

\* How Followed moves on over n bytes that nothing was counted for before.
LEMMA FollowedOver ==
  ASSUME Inv, phase = "echo", parse_state <= 0, NEW n \in 0..Len(input),
         Len(input') = Len(input) - n, UNCHANGED traffic, parse_state' \in -1..3, Counted(n)
  PROVE  Followed'
<1>0. /\ stream' = stream /\ cuts' = cuts /\ input \in Seq(Byte) /\ stream \in Seq(Byte)
      /\ parse_state \in -1..3
  BY DEF Inv, TypeOK, traffic
<1>1. Len(stream) \in Nat /\ Len(input) \in Nat /\ Taken = Len(stream) - Len(input)
  BY <1>0 DEF Taken
<1>2. Taken \in Nat /\ \A j \in 1..Len(input) : stream[Taken + j] = input[j]
  BY <1>1, Ahead
<1>3. Taken' = Taken + n
  BY <1>0, <1>1 DEF Taken
<1>4. SUFFICES ASSUME NEW i \in 1..Taken + n, Begun(i), i \notin cuts
               PROVE  parse_state' > 0 /\ i + parse_state' = Taken + n
  BY <1>0, <1>3 DEF Followed, Begun
<1>5. CASE i <= Taken
  BY <1>1, <1>2, <1>4, <1>5, <1>0 DEF Inv, Followed
<1>6. CASE ~(i <= Taken)
  <2> DEFINE j == i - Taken
  <2>1. j \in 1..n /\ j \in 1..Len(input) /\ Taken + j = i
    BY <1>1, <1>2, <1>6
  <2>2. i < Len(stream) /\ stream[i] = "*" /\ stream[i + 1] = "ZDLE"
    <3>1. i < Len(stream) /\ stream[i] = "*" /\ \A k \in 1..4 : i + k <= Len(stream) => stream[i + k] = Header[k]
      BY <1>4 DEF Begun
    <3>2. 1 \in 1..4 /\ i + 1 <= Len(stream)
      BY <3>1, <1>1, <1>2
    <3> QED BY <3>1, <3>2, HeaderIsSeq
  <2>3. j < Len(input) /\ j + 1 \in 1..Len(input) /\ Taken + (j + 1) = i + 1
    BY <2>1, <2>2, <1>1
  <2>4. input[j] = "*" /\ input[j + 1] = "ZDLE"
    BY <2>1, <2>2, <2>3, <1>2
  <2>5. parse_state' > 0 /\ j + parse_state' = n
    BY <2>1, <2>3, <2>4 DEF Counted
  <2>6. j \in Int /\ i = Taken + j
    BY <1>2
  <2> HIDE DEF j
  <2>7. Taken \in Nat /\ n \in Int
    BY <1>1, <1>2
  <2> DEFINE k == parse_state'
  <2>8. k > 0 /\ j + k = n /\ k \in Int
    BY <2>5
  <2> HIDE DEF k
  <2>9. i + k = Taken + n
    BY <2>6, <2>7, <2>8
  <2> QED BY <2>8, <2>9 DEF k
<1> QED BY <1>5, <1>6, <1>2

\* Nothing is held after a mismatch, or before an rz or a star.
LEMMA GiveKeeps ==
  ASSUME Inv, Scanning, NEW n \in 0..Len(input), fifo_append(Held \o SubSeq(input, 1, n)),
         input' = Suffix(input, n), parse_state' = 0, gotrz' = "RZNONE", starcnt' = 0,
         UNCHANGED traffic, Followed'
  PROVE  Inv'
<1> DEFINE a == SubSeq(input, 1, n)
<1>0. /\ phase = "echo" /\ input \in Seq(Byte) /\ Held \in Seq(Byte)
      /\ misrouted' = misrouted /\ stream' = stream /\ cuts' = cuts /\ carried' = carried
  BY Ahead DEF Scanning, traffic
<1>1. /\ a \in Seq(Byte) /\ input' \in Seq(Byte) /\ a \o input' = input
      /\ Len(input') = Len(input) - n
  BY <1>0, Parts
<1>2. Held' = <<>>
  BY HeldIs, NothingHeld
<1> DEFINE s == Held \o a
<1>3. s \in Seq(Byte) /\ fifo_append(s)
  BY <1>0, <1>1, Joined
<1> HIDE DEF a
<1>4. Regains(s)
  <2>1. Cat(Held', input') = input'
    BY <1>1, <1>2, CatLaws
  <2>2. Cat(Cat(Held, a), input') = Cat(Held, Cat(a, input'))
    BY <1>0, <1>1, CatLaws
  <2>3. s = Cat(Held, a) /\ Cat(a, input') = input
    BY <1>1, Zenon DEF Cat
  <2> HIDE DEF s
  <2> QED BY <2>1, <2>2, <2>3 DEF Regains
<1> HIDE DEF s
<1>5. Held' \in Seq(Byte) /\ Len(input') <= Len(input)
  BY <1>0, <1>1, <1>2, Empty
<1>6. /\ passed' \in Seq(Byte) /\ count' \in 0..Capacity /\ phase' \in {"echo", "overflow"}
      /\ Conservation' /\ RoomBound' /\ StartIsHeader' /\ CutsBehind'
      /\ announced' = <<>> /\ remaining' = <<>>
  BY <1>1, <1>3, <1>4, <1>5, TurnKeeps
<1>7. TypeOK'
  <2>1. TypeOK
    BY DEF Inv
  <2> QED BY <2>1, <1>0, <1>1, <1>6, Empty DEF TypeOK
<1>8. Fresh'
  BY <1>6 DEF Fresh
<1>9. Uncut'
  <2>1. Len(Rz(gotrz')) = 0 /\ Len(Held') = 0
    BY RzIs, Empty, <1>2
  <2>2. Taken' \in Int /\ \A c \in cuts : c \in Int
    <3>1. Len(stream) \in Nat /\ Len(input') \in Nat /\ cuts \subseteq 0..Len(stream)
      BY <1>1 DEF Inv, TypeOK, CutsBehind
    <3> QED BY <3>1, <1>0 DEF Taken
  <2> SUFFICES ASSUME NEW c \in cuts
               PROVE  LET first == Taken' - Len(Held')
                          rz == Len(Rz(gotrz'))
                      IN  /\ ~(first < c /\ c < first + rz)
                          /\ starcnt' > 0 => ~(first + rz < c /\ c <= first + rz + starcnt')
    BY <1>0 DEF Uncut
  <2> DEFINE t == Taken'
  <2> HIDE DEF t
  <2>3. t \in Int /\ c \in Int
    BY <2>2 DEF t
  <2>4. t - Len(Held') = t /\ t + Len(Rz(gotrz')) = t
    BY <2>1, <2>3
  <2>5. ~(t < c /\ c < t) /\ ~(starcnt' > 0)
    BY <2>3
  <2> QED BY <2>4, <2>5, Zenon DEF t
<1> QED BY <1>6, <1>7, <1>8, <1>9 DEF Inv

\* What the scanner takes and holds.
LEMMA HoldKeeps ==
  ASSUME Inv, Scanning, NEW n \in 0..Len(input),
         input' = Suffix(input, n), Held' = Held \o SubSeq(input, 1, n),
         UNCHANGED <<count, phase, passed, traffic>>,
         parse_state' \in -1..3, gotrz' \in RzKinds, starcnt' \in Nat, parse_state' # 0,
         parse_state' < 1 => starcnt' = 0, parse_state' > 0 => starcnt' > 0,
         Followed', Uncut'
  PROVE  Inv'
<1> DEFINE a == SubSeq(input, 1, n)
<1>0. /\ phase = "echo" /\ input \in Seq(Byte) /\ Held \in Seq(Byte) /\ passed \in Seq(Byte)
      /\ misrouted' = misrouted /\ stream' = stream /\ cuts' = cuts /\ carried' = carried
      /\ count' = count /\ phase' = phase /\ passed' = passed
  BY Ahead DEF Scanning, traffic
<1>1. /\ a \in Seq(Byte) /\ input' \in Seq(Byte) /\ a \o input' = input
      /\ Len(input') = Len(input) - n
  BY <1>0, Parts
<1>2. Held' \in Seq(Byte)
  BY <1>0, <1>1, Joined
<1>3. fifo_append(<<>>)
  <2>1. count \in 0..Capacity /\ Capacity \in Nat /\ Len(<<>>) = 0 /\ passed \o <<>> = passed
    BY <1>0, Empty, ZrqAssumption DEF Inv, TypeOK
  <2>2. count + 0 = count /\ count + 0 <= Capacity
    BY <2>1
  <2> QED BY <2>1, <2>2, <1>0 DEF fifo_append
<1> HIDE DEF a
<1>4. Regains(<<>>)
  <2>1. Cat(Held', input') \in Seq(Byte)
    BY <1>1, <1>2, CatLaws
  <2>2. Cat(Cat(Held, a), input') = Cat(Held, Cat(a, input'))
    BY <1>0, <1>1, CatLaws
  <2>3. Held' = Cat(Held, a) /\ Cat(a, input') = input
    BY <1>1, Zenon DEF Cat, a
  <2> QED BY <2>1, <2>2, <2>3, CatLaws DEF Regains
<1>5. <<>> \in Seq(Byte) /\ Len(input') <= Len(input)
  BY <1>0, <1>1, Empty
<1>6. /\ passed' \in Seq(Byte) /\ count' \in 0..Capacity /\ phase' \in {"echo", "overflow"}
      /\ Conservation' /\ RoomBound' /\ StartIsHeader' /\ CutsBehind'
      /\ announced' = <<>> /\ remaining' = <<>>
  BY <1>1, <1>2, <1>3, <1>4, <1>5, TurnKeeps
<1>7. TypeOK'
  <2>1. TypeOK
    BY DEF Inv
  <2> QED BY <2>1, <1>0, <1>1, <1>6, Empty DEF TypeOK, RzKinds
<1>8. Fresh'
  BY <1>6 DEF Fresh
<1> QED BY <1>6, <1>7, <1>8 DEF Inv

-----------------------------------------------------------------------------
\* In parse_state 0 nothing is held.
LEMMA StartOver ==
  ASSUME Inv, parse_state = 0
  PROVE  /\ gotrz = "RZNONE" /\ starcnt = 0 /\ Held = <<>>
         /\ \A t \in Seq(Byte) : Held \o t = t
<1>1. gotrz = "RZNONE" /\ starcnt = 0
  BY DEF Inv, TypeOK
<1>2. Held = <<>>
  BY <1>1, HeldIs, NothingHeld
<1> QED BY <1>1, <1>2, Empty

\* Bytes passed on at once.
LEMMA PassKeeps ==
  ASSUME Inv, Scanning, parse_state = 0, NEW n \in 0..Len(input),
         fifo_append(SubSeq(input, 1, n)), input' = Suffix(input, n),
         UNCHANGED <<conn, traffic>>, Counted(n)
  PROVE  Inv'
<1>0. phase = "echo" /\ input \in Seq(Byte)
  BY DEF Inv, TypeOK, Scanning
<1>1. SubSeq(input, 1, n) \in Seq(Byte) /\ Len(input') = Len(input) - n
  BY <1>0, Parts
<1>2. Held \o SubSeq(input, 1, n) = SubSeq(input, 1, n)
  BY <1>1, StartOver
<1>3. fifo_append(Held \o SubSeq(input, 1, n))
  BY <1>2
<1>4. parse_state' = 0 /\ gotrz' = "RZNONE" /\ starcnt' = 0
  BY StartOver DEF conn
<1>5. Followed'
  BY <1>0, <1>1, <1>4, FollowedOver
<1> QED BY <1>3, <1>4, <1>5, GiveKeeps

LEMMA SkipKeeps == ASSUME Inv, SkipGarbage PROVE Inv'
<1> DEFINE n == Garbage(input)
<1>1. input \in Seq(Byte)
  BY DEF Inv, TypeOK
<1>2. n \in 0..Len(input) /\ \A i \in 1..n : input[i] \notin {"r", "*"}
  BY <1>1, GarbageFacts
<1>3. /\ Scanning /\ parse_state = 0 /\ fifo_append(SubSeq(input, 1, n))
      /\ input' = Suffix(input, n) /\ UNCHANGED <<conn, traffic>>
  BY DEF SkipGarbage
<1> HIDE DEF n
<1>4. Counted(n)
  BY <1>2 DEF Counted
<1> QED BY <1>2, <1>3, <1>4, PassKeeps

\* An r, and a z, that are no rz: no star among them that a ZDLE follows.
LEMMA PassRKeeps == ASSUME Inv, PassR PROVE Inv'
<1> DEFINE n == NoRz(input)
<1>1. input \in Seq(Byte) /\ Len(input) \in Nat /\ Len(input) > 0
  <2>1. input \in Seq(Byte) /\ input # <<>>
    BY DEF Inv, TypeOK, PassR, Scanning
  <2> QED BY <2>1, EmptySeq
<1>2. /\ Scanning /\ parse_state = 0 /\ fifo_append(SubSeq(input, 1, n)) /\ input[1] = "r"
      /\ input' = Suffix(input, n) /\ UNCHANGED <<conn, traffic>>
  BY DEF PassR
<1>3. n \in 0..Len(input) /\ Counted(n)
  <2>1. CASE Len(input) < 3
    <3>1. n = Len(input)
      BY <2>1 DEF NoRz
    <3>2. \A j \in 1..n : j = 1 \/ ~(j < Len(input))
      BY <2>1, <3>1, <1>1
    <3> HIDE DEF n
    <3> QED BY <3>1, <3>2, <1>1, <1>2 DEF Counted
  <2>2. CASE Len(input) >= 3 /\ input[2] = "z"
    <3>1. n = 2
      BY <2>2, <1>1 DEF NoRz
    <3>2. \A j \in 1..n : input[j] # "*"
      BY <2>2, <3>1, <1>2
    <3> HIDE DEF n
    <3> QED BY <2>2, <3>1, <3>2 DEF Counted
  <2>3. CASE Len(input) >= 3 /\ input[2] # "z"
    <3>1. n = 1
      BY <2>3, <1>1 DEF NoRz
    <3>2. \A j \in 1..n : input[j] # "*"
      BY <3>1, <1>2
    <3> HIDE DEF n
    <3> QED BY <2>3, <3>1, <3>2 DEF Counted
  <2> QED BY <2>1, <2>2, <2>3, <1>1
<1> HIDE DEF n
<1> QED BY <1>2, <1>3, PassKeeps

\* An rz that is found is at the front of s, and no star is part of it.
LEMMA RzFound ==
  ASSUME NEW s \in Seq(Byte), s[1] = "r", FoundRz(s) # "RZNONE"
  PROVE  LET g == FoundRz(s)
         IN  /\ g \in RzKinds /\ Len(Rz(g)) \in 1..Len(s)
             /\ \A i \in 1..Len(Rz(g)) : s[i] = Rz(g)[i] /\ s[i] # "*"
<1> DEFINE g == FoundRz(s)
<1>0. Len(s) \in Nat
  OBVIOUS
<1>1. Len(s) >= 3 /\ s[2] = "z" /\ s[3] \in {"CR", "NL"}
  BY DEF FoundRz
<1>2. CASE s[3] = "NL"
  <2>1. g = "RZNL"
    BY <1>1, <1>2 DEF FoundRz
  <2>2. /\ Len(<<"r", "z", "NL">>) = 3 /\ <<"r", "z", "NL">>[1] = "r"
        /\ <<"r", "z", "NL">>[2] = "z" /\ <<"r", "z", "NL">>[3] = "NL"
    OBVIOUS
  <2>3. Len(Rz(g)) = 3 /\ Rz(g)[1] = "r" /\ Rz(g)[2] = "z" /\ Rz(g)[3] = "NL"
    BY <2>1, <2>2, RzIs, Zenon
  <2> HIDE DEF g
  <2>4. \A i \in 1..3 : s[i] = Rz(g)[i] /\ s[i] # "*"
    BY <2>3, <1>1, <1>2
  <2>5. g \in RzKinds
    BY <2>1 DEF RzKinds
  <2> QED BY <2>3, <2>4, <2>5, <1>0, <1>1 DEF g
<1>3. CASE s[3] = "CR" /\ Len(s) >= 4 /\ s[4] = "NL"
  <2>1. g = "RZCRNL"
    BY <1>1, <1>3 DEF FoundRz
  <2>2. /\ Len(<<"r", "z", "CR", "NL">>) = 4 /\ <<"r", "z", "CR", "NL">>[1] = "r"
        /\ <<"r", "z", "CR", "NL">>[2] = "z" /\ <<"r", "z", "CR", "NL">>[3] = "CR"
        /\ <<"r", "z", "CR", "NL">>[4] = "NL"
    OBVIOUS
  <2>3. /\ Len(Rz(g)) = 4 /\ Rz(g)[1] = "r" /\ Rz(g)[2] = "z" /\ Rz(g)[3] = "CR"
        /\ Rz(g)[4] = "NL"
    BY <2>1, <2>2, RzIs, Zenon
  <2> HIDE DEF g
  <2>4. \A i \in 1..4 : s[i] = Rz(g)[i] /\ s[i] # "*"
    BY <2>3, <1>1, <1>3
  <2>5. g \in RzKinds
    BY <2>1 DEF RzKinds
  <2> QED BY <2>3, <2>4, <2>5, <1>0, <1>3 DEF g
<1>4. CASE s[3] = "CR" /\ ~(Len(s) >= 4 /\ s[4] = "NL")
  <2>1. g = "RZCR"
    BY <1>1, <1>4 DEF FoundRz
  <2>2. /\ Len(<<"r", "z", "CR">>) = 3 /\ <<"r", "z", "CR">>[1] = "r"
        /\ <<"r", "z", "CR">>[2] = "z" /\ <<"r", "z", "CR">>[3] = "CR"
    OBVIOUS
  <2>3. Len(Rz(g)) = 3 /\ Rz(g)[1] = "r" /\ Rz(g)[2] = "z" /\ Rz(g)[3] = "CR"
    BY <2>1, <2>2, RzIs, Zenon
  <2> HIDE DEF g
  <2>4. \A i \in 1..3 : s[i] = Rz(g)[i] /\ s[i] # "*"
    BY <2>3, <1>1, <1>4
  <2>5. g \in RzKinds
    BY <2>1 DEF RzKinds
  <2> QED BY <2>3, <2>4, <2>5, <1>0, <1>1 DEF g
<1> QED BY <1>1, <1>2, <1>3, <1>4

\* Where the scanner is once it has looked at n bytes more.
LEMMA Position ==
  ASSUME Inv, phase = "echo", NEW n \in 0..Len(input), Len(input') = Len(input) - n,
         UNCHANGED traffic
  PROVE  /\ Taken \in Nat /\ Len(input) \in Nat /\ Len(stream) = Taken + Len(input)
         /\ Taken' = Taken + n /\ cuts' = cuts /\ stream' = stream
         /\ \A c \in cuts : c \in Int /\ (c = Taken + Len(input) \/ c <= Taken)
<1>0. /\ stream' = stream /\ cuts' = cuts /\ input \in Seq(Byte) /\ stream \in Seq(Byte)
  BY DEF Inv, TypeOK, traffic
<1>1. Len(stream) \in Nat /\ Len(input) \in Nat /\ Taken = Len(stream) - Len(input)
  BY <1>0 DEF Taken
<1>2. Taken \in Nat
  BY <1>1, Ahead
<1>3. Taken' = Taken + n
  BY <1>0, <1>1 DEF Taken
<1>4. \A c \in cuts : c \in Int /\ (c = Taken + Len(input) \/ c <= Taken)
  BY <1>1 DEF Inv, CutsBehind
<1> QED BY <1>0, <1>1, <1>2, <1>3, <1>4

LEMMA HoldRzKeeps == ASSUME Inv, HoldRz PROVE Inv'
<1> DEFINE g == FoundRz(input)
           n == Len(Rz(g))
<1>0. /\ Scanning /\ phase = "echo" /\ parse_state = 0 /\ input[1] = "r" /\ g # "RZNONE"
      /\ gotrz' = g /\ input' = Suffix(input, n) /\ parse_state' = -1 /\ starcnt' = starcnt
      /\ UNCHANGED <<count, phase, passed, traffic>>
  BY DEF HoldRz, Scanning
<1>1. input \in Seq(Byte) /\ starcnt = 0 /\ Held = <<>>
  BY <1>0, StartOver DEF Inv, TypeOK
<1>2. /\ g \in RzKinds /\ n \in 1..Len(input)
      /\ \A i \in 1..n : input[i] = Rz(g)[i] /\ input[i] # "*"
  BY <1>0, <1>1, RzFound
<1> HIDE DEF g
<1>3. Rz(g) \in Seq(Byte)
  BY <1>2, RzIsSeq
<1>4. SubSeq(input, 1, n) = Rz(g)
  BY <1>1, <1>2, <1>3, Prefixed
<1>5. Held' = Rz(g)
  BY <1>0, <1>1, <1>2, HeldIs, RzHeld
<1> HIDE DEF n
<1>6. n \in 0..Len(input) /\ Len(input') = Len(input) - n /\ Len(Held') = n
  <2>1. n \in 0..Len(input)
    BY <1>2
  <2> QED BY <2>1, <1>0, <1>1, <1>5, Parts DEF n
<1>7. Held' = Held \o SubSeq(input, 1, n)
  BY <1>1, <1>3, <1>4, <1>5, Empty
<1>8. Followed'
  <2>1. Counted(n)
    BY <1>2 DEF Counted
  <2> QED BY <2>1, <1>0, <1>6, FollowedOver
<1>9. Uncut'
  <2>1. /\ Taken \in Nat /\ Len(input) \in Nat /\ Taken' = Taken + n /\ cuts' = cuts
        /\ \A c \in cuts : c \in Int /\ (c = Taken + Len(input) \/ c <= Taken)
    BY <1>0, <1>6, Position
  <2>2. Taken' - Len(Held') = Taken /\ Len(Rz(gotrz')) = n /\ ~(starcnt' > 0)
    BY <2>1, <1>0, <1>1, <1>6 DEF n
  <2>3. \A c \in cuts : ~(Taken < c /\ c < Taken + n)
    BY <2>1, <1>6
  <2> QED BY <2>1, <2>2, <2>3, Zenon DEF Uncut
<1>10. /\ gotrz' \in RzKinds /\ starcnt' = 0 /\ parse_state' \in -1..3 /\ parse_state' # 0
       /\ ~(parse_state' > 0)
  BY <1>0, <1>1, <1>2
<1> QED BY <1>0, <1>6, <1>7, <1>8, <1>9, <1>10, HoldKeeps

-----------------------------------------------------------------------------
\* Before the stars an rz is held, or nothing.
LEMMA HeldBeforeStars ==
  ASSUME Inv, parse_state = -1 \/ parse_state = 0
  PROVE  starcnt = 0 /\ gotrz \in RzKinds /\ Held = Rz(gotrz)
<1>1. starcnt = 0 /\ gotrz \in RzKinds /\ (parse_state = 0 => gotrz = "RZNONE")
  BY DEF Inv, TypeOK, RzKinds
<1>2. CASE parse_state = -1
  BY <1>1, <1>2, HeldIs, RzHeld
<1>3. CASE parse_state = 0
  BY <1>1, <1>3, StartOver, RzIs
<1> QED BY <1>1, <1>2, <1>3

LEMMA StarsRead ==
  ASSUME NEW s \in Seq(Byte), NEW n \in 0..Len(s), \A i \in 1..n : s[i] = "*"
  PROVE  /\ SubSeq(s, 1, n) = Stars(n)
         /\ n < Len(s) /\ s[n + 1] = "ZDLE" => SubSeq(s, 1, n + 1) = Cat(Stars(n), SubSeq(Header, 1, 1))
<1>0. n \in Nat /\ Len(s) \in Nat
  OBVIOUS
<1>1. Stars(n) \in Seq(Byte) /\ Len(Stars(n)) = n /\ \A i \in 1..n : Stars(n)[i] = "*"
  BY <1>0, StarsIsSeq
<1>2. SubSeq(s, 1, n) = Stars(n)
  BY <1>1, Prefixed
<1>3. ASSUME n < Len(s), s[n + 1] = "ZDLE"
      PROVE  SubSeq(s, 1, n + 1) = Cat(Stars(n), SubSeq(Header, 1, 1))
  <2> DEFINE a == Stars(n)
             h == SubSeq(Header, 1, 1)
             t == Cat(a, h)
  <2>1. h \in Seq(Byte) /\ Len(h) = 1 /\ h[1] = "ZDLE"
    <3>1. 1 \in 0..Len(Header) /\ Header \in Seq(Byte)
      BY HeaderIsSeq
    <3>2. h \in Seq(Byte) /\ Len(h) = 1 /\ \A i \in 1..1 : h[i] = Header[i]
      BY <3>1, Parts
    <3> HIDE DEF h
    <3> QED BY <3>2, HeaderIsSeq
  <2>2. a \in Seq(Byte) /\ Len(a) = n /\ \A i \in 1..n : a[i] = "*"
    BY <1>1
  <2> HIDE DEF a, h
  <2>3. /\ a \o h \in Seq(Byte) /\ Len(a \o h) = Len(a) + Len(h)
        /\ \A i \in 1..Len(a) : (a \o h)[i] = a[i]
        /\ \A i \in 1..Len(h) : (a \o h)[Len(a) + i] = h[i]
    BY <2>1, <2>2, Joined
  <2>4. /\ t \in Seq(Byte) /\ Len(t) = Len(a) + Len(h)
        /\ \A i \in 1..Len(a) : t[i] = a[i]
        /\ \A i \in 1..Len(h) : t[Len(a) + i] = h[i]
    BY <2>3, Zenon DEF Cat
  <2> HIDE DEF t
  <2>5. Len(t) = n + 1 /\ Len(t) <= Len(s) /\ \A i \in 1..Len(t) : s[i] = t[i]
    <3>1. Len(t) = n + 1 /\ Len(t) <= Len(s)
      BY <2>1, <2>2, <2>4, <1>0, <1>3
    <3>2. \A i \in 1..n : s[i] = t[i]
      BY <2>2, <2>4
    <3>3. s[n + 1] = t[n + 1]
      BY <2>1, <2>2, <2>4, <1>3
    <3> QED BY <3>1, <3>2, <3>3, <1>0
  <2>6. SubSeq(s, 1, Len(t)) = t
    BY <2>4, <2>5, Prefixed
  <2> QED BY <2>5, <2>6 DEF t, a, h
<1> QED BY <1>2, <1>3

\* The stars and the ZDLE are held, or the stars are passed on.
LEMMA HoldStarsKeeps == ASSUME Inv, HoldStars PROVE Inv'
<1> DEFINE n == LeadingStars(input)
           h == SubSeq(Header, 1, 1)
           Announces == n > 0 /\ n < Len(input) /\ input[n + 1] = Header[1]
<1>0. /\ Scanning /\ phase = "echo" /\ (parse_state = -1 \/ parse_state = 0)
      /\ UNCHANGED traffic
      /\ IF Announces
         THEN /\ starcnt' = starcnt + n /\ parse_state' = 1 /\ input' = Suffix(input, n + 1)
              /\ UNCHANGED <<gotrz, count, phase, passed>>
         ELSE Flush(Held \o Stars(n)) /\ input' = Suffix(input, n)
  BY DEF HoldStars, Scanning
<1>1. input \in Seq(Byte) /\ Len(input) \in Nat
  BY DEF Inv, TypeOK
<1>2. /\ n \in 0..Len(input) /\ (\A i \in 1..n : input[i] = "*")
      /\ n = Len(input) \/ input[n + 1] # "*"
  BY <1>1, LeadingStarsFacts
<1>3. starcnt = 0 /\ gotrz \in RzKinds /\ Held = Rz(gotrz)
  BY <1>0, HeldBeforeStars
<1> HIDE DEF n
<1>4. CASE Announces
  <2>1. /\ starcnt' = n /\ parse_state' = 1 /\ input' = Suffix(input, n + 1) /\ gotrz' = gotrz
        /\ UNCHANGED <<count, phase, passed, traffic>>
    BY <1>0, <1>2, <1>3, <1>4
  <2>2. n > 0 /\ n < Len(input) /\ input[n + 1] = "ZDLE" /\ n + 1 \in 0..Len(input) /\ n \in Nat
    BY <1>1, <1>2, <1>4, HeaderIsSeq
  <2>3. Len(input') = Len(input) - (n + 1)
    BY <1>1, <2>1, <2>2, Parts
  <2>4. SubSeq(input, 1, n + 1) = Cat(Stars(n), h)
    BY <1>1, <1>2, <2>2, StarsRead
  <2>5. Held' = Cat(Cat(Rz(gotrz), Stars(n)), h) /\ Len(Held') = Len(Rz(gotrz)) + n + 1
    <3>1. Held' = HeldFor(1, gotrz, n)
      BY <2>1, HeldIs
    <3>2. HeldFor(1, gotrz, n) = Cat(Cat(Rz(gotrz), Stars(n)), h)
      BY DEF HeldFor, Cat
    <3>3. Len(HeldFor(1, gotrz, n)) = Len(Rz(gotrz)) + n + 1
      <4>1. 1 \in -1..3 /\ n \in Nat /\ gotrz \in RzKinds
        BY <1>3, <2>2
      <4>2. Len(HeldFor(1, gotrz, n)) = Len(Rz(gotrz)) + n + (IF 1 > 0 THEN 1 ELSE 0)
        BY <4>1, HeldForIsSeq, Zenon
      <4> QED BY <4>2
    <3> QED BY <3>1, <3>2, <3>3
  <2>6. Held' = Held \o SubSeq(input, 1, n + 1)
    <3>1. Rz(gotrz) \in Seq(Byte) /\ Stars(n) \in Seq(Byte) /\ h \in Seq(Byte)
      <4>1. 1 \in 0..Len(Header) /\ Header \in Seq(Byte)
        BY HeaderIsSeq
      <4> QED BY <4>1, <1>3, <2>2, RzIsSeq, StarsIsSeq, Parts
    <3> HIDE DEF h
    <3>2. Held' = Cat(Rz(gotrz), Cat(Stars(n), h))
      BY <2>5, <3>1, CatLaws
    <3>3. Held' = Cat(Held, SubSeq(input, 1, n + 1))
      BY <3>2, <1>3, <2>4
    <3> QED BY <3>3, Zenon DEF Cat
  <2>7. Followed'
    <3>1. Counted(n + 1)
      <4> SUFFICES ASSUME NEW j \in 1..n + 1, input[j] = "*", j < Len(input), input[j + 1] = "ZDLE"
                   PROVE  parse_state' > 0 /\ j + parse_state' = n + 1
        BY DEF Counted
      <4>1. j # n + 1
        BY <2>2
      <4>2. ~(j < n)
        <5>1. ASSUME j < n PROVE FALSE
          <6>1. j + 1 \in 1..n
            BY <5>1, <2>2
          <6>2. input[j + 1] = "*"
            BY <6>1, <1>2
          <6> QED BY <6>2
        <5> QED BY <5>1
      <4>3. j = n
        BY <4>1, <4>2, <2>2
      <4> QED BY <4>3, <2>1
    <3> QED BY SMTT(30), <3>1, <1>0, <2>1, <2>2, <2>3, FollowedOver
  <2>8. Uncut'
    <3> DEFINE rz == Len(Rz(gotrz))
               first == Taken - rz
    <3>1. /\ Taken \in Nat /\ Taken' = Taken + (n + 1) /\ cuts' = cuts
          /\ \A c \in cuts : c \in Int /\ (c = Taken + Len(input) \/ c <= Taken)
      BY <1>0, <2>2, <2>3, Position
    <3>2. rz \in Nat
      BY <1>3, RzIsSeq
    <3>3. \A c \in cuts : ~(first < c /\ c < first + rz)
      BY <1>0, <1>3 DEF Inv, Uncut
    <3> HIDE DEF rz
    <3>4. \A c \in cuts : ~(first + rz < c /\ c <= first + rz + n)
      BY <3>1, <3>2, <2>2
    <3>5. Taken' - Len(Held') = first
      BY <3>1, <3>2, <2>2, <2>5 DEF rz
    <3> HIDE DEF first
    <3> QED BY <3>1, <3>3, <3>4, <3>5, <2>1, Zenon DEF Uncut, rz
  <2>9. starcnt' \in Nat /\ starcnt' > 0 /\ gotrz' \in RzKinds /\ parse_state' = 1
    BY <2>1, <2>2, <1>3
  <2> QED BY <1>0, <2>1, <2>2, <2>6, <2>7, <2>8, <2>9, HoldKeeps
<1>5. CASE ~Announces
  <2>1. /\ fifo_append(Held \o Stars(n)) /\ input' = Suffix(input, n)
        /\ parse_state' = 0 /\ gotrz' = "RZNONE" /\ starcnt' = 0
    BY <1>0, <1>5 DEF Flush, zscanstate_init
  <2>2. fifo_append(Held \o SubSeq(input, 1, n))
    BY <2>1, <1>1, <1>2, StarsRead
  <2>3. Len(input') = Len(input) - n
    BY <2>1, <1>1, <1>2, Parts
  <2>4. Counted(n)
    <3> SUFFICES ASSUME NEW j \in 1..n, input[j] = "*", j < Len(input), input[j + 1] = "ZDLE"
                 PROVE  FALSE
      BY DEF Counted
    <3>1. CASE j = n
      BY <3>1, <1>1, <1>2, <1>5, HeaderIsSeq
    <3>2. CASE j < n
      <4>1. j + 1 \in 1..n
        BY <3>2, <1>2
      <4>2. input[j + 1] = "*"
        BY <4>1, <1>2
      <4> QED BY <4>2
    <3> QED BY <3>1, <3>2, <1>2
  <2>5. Followed'
    BY <1>0, <1>2, <2>1, <2>3, <2>4, FollowedOver
  <2> QED BY <1>0, <1>2, <2>1, <2>2, <2>5, GiveKeeps
<1> QED BY <1>4, <1>5

-----------------------------------------------------------------------------
LEMMA TailIsSuffix ==
  ASSUME NEW s \in Seq(Byte), s # <<>>
  PROVE  /\ Tail(s) = Suffix(s, 1) /\ 1 \in 0..Len(s) /\ s[1] \in Byte
         /\ SubSeq(s, 1, 1) = <<s[1]>>
<1>1. 1 \in 0..Len(s) /\ 1 \in 1..Len(s)
  BY EmptySeq
<1>2. s[1] \in Byte
  BY <1>1, ElementOfSeq
<1>3. <<s[1]>> \in Seq(Byte) /\ Len(<<s[1]>>) = 1 /\ <<s[1]>>[1] = s[1]
  BY <1>2
<1>4. SubSeq(s, 1, Len(<<s[1]>>)) = <<s[1]>>
  <2> DEFINE t == <<s[1]>>
  <2>1. t \in Seq(Byte) /\ Len(t) <= Len(s) /\ \A i \in 1..Len(t) : s[i] = t[i]
    BY <1>1, <1>3
  <2> HIDE DEF t
  <2>2. SubSeq(s, 1, Len(t)) = t
    BY <2>1, Prefixed
  <2> QED BY <2>2 DEF t
<1>5. Tail(s) = Suffix(s, 1)
  BY <1>1 DEF Suffix
<1> QED BY <1>1, <1>2, <1>3, <1>4, <1>5

\* One letter more of the header.
LEMMA HeaderGrows ==
  ASSUME NEW k \in 1..3
  PROVE  SubSeq(Header, 1, k + 1) = Cat(SubSeq(Header, 1, k), <<Header[k + 1]>>)
<1>1. Header \in Seq(Byte) /\ Len(Header) = 4 /\ k + 1 \in 1..4 /\ k \in 1..4
  BY HeaderIsSeq
<1>2. \A i \in 1..4 : Header[i] \in Byte
  BY <1>1, ElementOfSeq
<1> DEFINE a == SubSeq(Header, 1, k)
           c == <<Header[k + 1]>>
           t == Cat(a, c)
<1>3. a \in Seq(Byte) /\ Len(a) = k /\ \A i \in 1..k : a[i] = Header[i]
  <2>1. k \in 0..Len(Header)
    BY <1>1
  <2> QED BY <1>1, <2>1, Parts
<1>4. c \in Seq(Byte) /\ Len(c) = 1 /\ c[1] = Header[k + 1]
  BY <1>1, <1>2
<1> HIDE DEF a, c
<1>5. /\ a \o c \in Seq(Byte) /\ Len(a \o c) = Len(a) + Len(c)
      /\ \A i \in 1..Len(a) : (a \o c)[i] = a[i]
      /\ \A i \in 1..Len(c) : (a \o c)[Len(a) + i] = c[i]
  BY <1>3, <1>4, Joined
<1>6. /\ t \in Seq(Byte) /\ Len(t) = Len(a) + Len(c)
      /\ \A i \in 1..Len(a) : t[i] = a[i]
      /\ \A i \in 1..Len(c) : t[Len(a) + i] = c[i]
  BY <1>5, Zenon DEF Cat
<1> HIDE DEF t
<1>7. Len(t) = k + 1 /\ Len(t) <= Len(Header) /\ \A i \in 1..Len(t) : Header[i] = t[i]
  <2>1. Len(t) = k + 1 /\ Len(t) <= Len(Header)
    BY <1>1, <1>3, <1>4, <1>6
  <2>2. \A i \in 1..k : Header[i] = t[i]
    BY <1>3, <1>6
  <2>3. Header[k + 1] = t[k + 1]
    BY <1>3, <1>4, <1>6
  <2> QED BY <2>1, <2>2, <2>3
<1>8. SubSeq(Header, 1, Len(t)) = t
  BY <1>1, <1>6, <1>7, Prefixed
<1> QED BY <1>7, <1>8 DEF t, a, c

\* What is held while the header is read.
LEMMA HeldInHeader ==
  ASSUME Inv, parse_state \in 1..3
  PROVE  /\ gotrz \in RzKinds /\ starcnt \in Nat /\ starcnt > 0
         /\ Rz(gotrz) \in Seq(Byte) /\ Stars(starcnt) \in Seq(Byte)
         /\ SubSeq(Header, 1, parse_state) \in Seq(Byte)
         /\ Held = Cat(Cat(Rz(gotrz), Stars(starcnt)), SubSeq(Header, 1, parse_state))
<1>1. gotrz \in RzKinds /\ starcnt \in Nat /\ starcnt > 0
  BY DEF Inv, TypeOK, Fresh, RzKinds
<1>2. parse_state \in 0..Len(Header) /\ Header \in Seq(Byte)
  BY HeaderIsSeq
<1>3. Held = Rz(gotrz) \o Stars(starcnt) \o SubSeq(Header, 1, parse_state)
  <2>1. Depth = parse_state
    BY DEF Depth
  <2> QED BY <2>1, Zenon DEF Held
<1> QED BY <1>1, <1>2, <1>3, RzIsSeq, StarsIsSeq, Parts, Zenon DEF Cat

\* The letter that is next goes to what is held.
LEMMA HeldGrows ==
  ASSUME Inv, parse_state \in 1..3, NEW c \in Byte, c = Header[parse_state + 1]
  PROVE  Cat(Held, <<c>>)
           = Cat(Cat(Rz(gotrz), Stars(starcnt)), SubSeq(Header, 1, parse_state + 1))
<1> DEFINE a == Cat(Rz(gotrz), Stars(starcnt))
           h == SubSeq(Header, 1, parse_state)
           l == <<c>>
<1>1. a \in Seq(Byte) /\ h \in Seq(Byte) /\ Held = Cat(a, h)
  BY HeldInHeader, CatLaws
<1>2. l \in Seq(Byte)
  OBVIOUS
<1>3. SubSeq(Header, 1, parse_state + 1) = Cat(h, l)
  BY HeaderGrows
<1> HIDE DEF a, h, l
<1>4. Cat(Cat(a, h), l) = Cat(a, Cat(h, l))
  BY <1>1, <1>2, CatLaws
<1> QED BY <1>1, <1>3, <1>4, Zenon DEF a, l

LEMMA HoldHeaderKeeps == ASSUME Inv, HoldHeader PROVE Inv'
<1> DEFINE k == parse_state
<1>0. /\ Scanning /\ phase = "echo" /\ input # <<>> /\ k \in {1, 2}
      /\ input[1] = Header[k + 1] /\ parse_state' = k + 1 /\ input' = Tail(input)
      /\ gotrz' = gotrz /\ starcnt' = starcnt
      /\ UNCHANGED <<count, phase, passed, traffic>>
  BY DEF HoldHeader, Scanning
<1>1. input \in Seq(Byte)
  BY DEF Inv, TypeOK
<1>2. /\ input' = Suffix(input, 1) /\ 1 \in 0..Len(input) /\ input[1] \in Byte
      /\ SubSeq(input, 1, 1) = <<input[1]>> /\ Len(input) \in Nat
  BY <1>0, <1>1, TailIsSuffix
<1>3. Len(input') = Len(input) - 1
  BY <1>1, <1>2, Parts
<1>4. /\ k \in 1..3 /\ k + 1 \in -1..3 /\ k + 1 > 0 /\ gotrz \in RzKinds /\ starcnt \in Nat
      /\ starcnt > 0
  BY <1>0, HeldInHeader
<1>5. Held' = Held \o SubSeq(input, 1, 1) /\ Len(Held') = Len(Held) + 1
  <2>1. Held' = HeldFor(k + 1, gotrz, starcnt)
    BY <1>0, HeldIs
  <2>2. HeldFor(k + 1, gotrz, starcnt) = Cat(Cat(Rz(gotrz), Stars(starcnt)), SubSeq(Header, 1, k + 1))
    <3>1. (IF k + 1 > 0 THEN k + 1 ELSE 0) = k + 1
      BY <1>4
    <3> QED BY <3>1, Zenon DEF HeldFor, Cat
  <2>3. Cat(Held, <<input[1]>>) = Cat(Cat(Rz(gotrz), Stars(starcnt)), SubSeq(Header, 1, k + 1))
    BY <1>0, <1>2, <1>4, HeldGrows
  <2>4. Held' = Cat(Held, <<input[1]>>)
    BY <2>1, <2>2, <2>3, Zenon
  <2>5. Held \in Seq(Byte) /\ <<input[1]>> \in Seq(Byte) /\ Len(<<input[1]>>) = 1
    BY <1>0, <1>2, Ahead
  <2>6. Len(Cat(Held, <<input[1]>>)) = Len(Held) + Len(<<input[1]>>)
    BY <2>5, CatLaws, Zenon
  <2>7. Len(Held') = Len(Held) + 1
    BY <2>4, <2>5, <2>6, Zenon
  <2> QED BY <2>4, <2>7, <1>2, Zenon DEF Cat
<1>6. /\ Taken \in Nat /\ Taken' = Taken + 1 /\ cuts' = cuts /\ stream' = stream
      /\ Len(stream) = Taken + Len(input)
  BY <1>0, <1>2, <1>3, Position
<1>7. Followed'
  <2> SUFFICES ASSUME NEW i \in 1..Taken + 1, Begun(i), i \notin cuts
               PROVE  k + 1 > 0 /\ i + (k + 1) = Taken + 1
    BY <1>0, <1>6 DEF Followed, Begun
  <2>1. CASE i \in 1..Taken
    <3>1. i + k = Taken
      BY <2>1, <1>0 DEF Inv, Followed
    <3> HIDE DEF k
    <3> QED BY <3>1, <1>4, <1>6
  <2>2. CASE i = Taken + 1
    <3>1. stream[i] = "*"
      BY DEF Begun
    <3>2. 1 \in 1..Len(input)
      BY <1>2
    <3>3. stream[i] = input[1]
      BY <2>2, <3>2, <1>0, Ahead
    <3>4. Header[k + 1] # "*"
      BY <1>0, HeaderIsSeq
    <3> QED BY <3>1, <3>3, <3>4, <1>0
  <2> QED BY <2>1, <2>2, <1>6
<1>8. Uncut'
  <2>1. Taken' - Len(Held') = Taken - Len(Held)
    <3>1. Len(Held) \in Nat
      BY <1>0, Ahead
    <3> QED BY <3>1, <1>5, <1>6
  <2> QED BY <2>1, <1>0, <1>6, Zenon DEF Inv, Uncut
<1>9. /\ parse_state' \in -1..3 /\ parse_state' # 0 /\ ~(parse_state' < 1) /\ parse_state' > 0
      /\ gotrz' \in RzKinds /\ starcnt' \in Nat /\ starcnt' > 0
  BY <1>0, <1>4
<1> QED BY <1>0, <1>2, <1>5, <1>7, <1>8, <1>9, HoldKeeps

\* What was held was no header: its next letter is another.
LEMMA NoHeaderKeeps == ASSUME Inv, NoHeader PROVE Inv'
<1> DEFINE k == parse_state
<1>0. /\ Scanning /\ phase = "echo" /\ input # <<>> /\ k \in 1..3
      /\ input[1] # Header[k + 1] /\ input' = input
      /\ fifo_append(Held) /\ parse_state' = 0 /\ gotrz' = "RZNONE" /\ starcnt' = 0
      /\ UNCHANGED traffic
  BY DEF NoHeader, Scanning, Flush, zscanstate_init
<1>1. input \in Seq(Byte) /\ Len(input) \in Nat /\ 0 \in 0..Len(input) /\ Len(input) > 0
  <2>1. input \in Seq(Byte)
    BY DEF Inv, TypeOK
  <2> QED BY <2>1, <1>0, EmptySeq
<1>2. fifo_append(Held \o SubSeq(input, 1, 0)) /\ input' = Suffix(input, 0)
  <2> DEFINE a == SubSeq(input, 1, 0)
             b == Suffix(input, 0)
  <2>1. a \in Seq(Byte) /\ Len(a) = 0 /\ b \in Seq(Byte) /\ a \o b = input
    BY <1>1, Parts
  <2> HIDE DEF a, b
  <2>2. a = <<>>
    BY <2>1, EmptySeq
  <2>3. b = input
    BY <2>1, <2>2, Empty
  <2>4. Held \o a = Held
    BY <2>2, <1>0, Ahead, Empty
  <2> QED BY <2>3, <2>4, <1>0 DEF a, b
<1>3. /\ Taken \in Nat /\ Taken' = Taken /\ cuts' = cuts /\ stream' = stream
      /\ Len(stream) = Taken + Len(input)
  <2>1. Len(input') = Len(input) - 0 /\ Len(input) \in Nat
    BY <1>0, <1>1
  <2>2. /\ Taken \in Nat /\ Taken' = Taken + 0 /\ cuts' = cuts /\ stream' = stream
        /\ Len(stream) = Taken + Len(input)
    BY <2>1, <1>0, <1>1, Position
  <2> QED BY <2>2
<1>4. Followed'
  <2> SUFFICES ASSUME NEW i \in 1..Taken, Begun(i), i \notin cuts
               PROVE  FALSE
    BY <1>3 DEF Followed, Begun
  <2>1. i + k = Taken
    BY <1>0 DEF Inv, Followed
  <2> HIDE DEF k
  <2>2. k + 1 \in 1..4 /\ i + (k + 1) = Taken + 1 /\ i + (k + 1) <= Len(stream) /\ 1 \in 1..Len(input)
    BY <2>1, <1>0, <1>1, <1>3
  <2>3. stream[i + (k + 1)] = Header[k + 1]
    BY <2>2 DEF Begun
  <2>4. stream[Taken + 1] = input[1]
    BY <2>2, <1>0, Ahead
  <2> QED BY <2>2, <2>3, <2>4, <1>0
<1> QED BY <1>0, <1>1, <1>2, <1>4, GiveKeeps

-----------------------------------------------------------------------------
\* A packet: its end is a new place in the stream, in front of nothing that is held.
LEMMA ReadKeeps == ASSUME Inv, NEW s \in Packets, fifo_read(s) PROVE Inv'
<1>0. /\ phase = "echo" /\ phase' = "echo" /\ input = <<>> /\ Len(s) <= Capacity - count
      /\ input' = s /\ stream' = stream \o s /\ cuts' = cuts \union {Len(stream) + Len(s)}
      /\ carried' = Len(Held) /\ count' = count /\ passed' = passed
      /\ announced' = announced /\ remaining' = remaining /\ misrouted' = misrouted
      /\ parse_state' = parse_state /\ gotrz' = gotrz /\ starcnt' = starcnt
  BY DEF fifo_read, Room, conn
<1>1. s \in Seq(Byte) /\ s # <<>> /\ Len(s) \in Nat /\ Len(s) > 0 /\ Capacity \in Nat
  <2>1. s \in Seq(Byte) /\ s # <<>> /\ Capacity \in Nat
    BY ZrqAssumption
  <2> QED BY <2>1, EmptySeq
<1>2. /\ Held \in Seq(Byte) /\ Len(Held) \in Nat /\ passed \in Seq(Byte) /\ stream \in Seq(Byte)
      /\ stream = Cat(Cat(passed, Held), input) /\ count \in 0..Capacity
      /\ announced = <<>> /\ remaining = <<>> /\ Len(stream) \in Nat
  BY <1>0, Ahead DEF Inv, Fresh, TypeOK
<1>3. Held' = Held
  BY <1>0, HeldIs
<1>4. /\ stream' = Cat(stream, s) /\ stream' \in Seq(Byte) /\ Len(stream') = Len(stream) + Len(s)
  <2>1. stream' = Cat(stream, s)
    BY <1>0, Zenon DEF Cat
  <2> QED BY <2>1, <1>1, <1>2, CatLaws
<1>5. Taken = Len(stream) /\ Taken' = Len(stream)
  <2>1. Len(input) = 0
    BY <1>0, Empty
  <2> QED BY <2>1, <1>0, <1>1, <1>2, <1>4 DEF Taken
<1> DEFINE e == Len(stream) + Len(s)
<1>6. cuts' = cuts \union {e} /\ e \in Nat /\ e = Len(stream') /\ e > Len(stream)
  BY <1>0, <1>1, <1>2, <1>4
<1> HIDE DEF e
<1>7. TypeOK'
  <2>1. cuts \subseteq Nat
    BY DEF Inv, TypeOK
  <2>2. cuts' \subseteq Nat
    BY <2>1, <1>6
  <2> QED BY <2>2, <1>0, <1>1, <1>2, <1>4 DEF Inv, TypeOK
<1>8. Conservation'
  <2>1. Cat(passed, Held) \in Seq(Byte)
    BY <1>2, CatLaws
  <2>2. stream = Cat(passed, Held)
    BY <2>1, <1>0, <1>2, CatLaws
  <2>3. Cat(Cat(passed, Held), s) \in Seq(Byte) /\ Cat(passed, <<>>) = passed
    BY <2>1, <1>1, <1>2, CatLaws
  <2>4. Cat(Cat(Cat(passed, Held), s), <<>>) = Cat(Cat(passed, Held), s)
    BY <2>3, CatLaws
  <2>5. stream' = Cat(Cat(Cat(Cat(passed, <<>>), Held), s), <<>>)
    BY <2>2, <2>3, <2>4, <1>4, Zenon
  <2>6. stream' = Cat(Cat(Cat(Cat(passed', announced'), Held'), input'), remaining')
    BY <2>5, <1>0, <1>2, <1>3, Zenon
  <2> QED BY <2>6, Zenon DEF Conservation, Cat
<1>9. RoomBound'
  BY <1>0, <1>1, <1>2, <1>3 DEF RoomBound
<1>10. StartIsHeader' /\ Fresh'
  BY <1>0, <1>2 DEF Inv, StartIsHeader, Fresh
<1>11. CutsBehind'
  <2>1. cuts \subseteq 0..Len(stream)
    BY DEF Inv, CutsBehind
  <2>2. ASSUME NEW c \in cuts' PROVE c \in 0..e
    <3>1. CASE c \in cuts
      BY <3>1, <2>1, <1>2, <1>6
    <3>2. CASE c = e
      BY <3>2, <1>6
    <3> QED BY <3>1, <3>2, <1>6
  <2>3. \A c \in cuts' : c = e \/ c <= Len(stream)
    BY <2>1, <1>2, <1>6
  <2>4. e \in cuts'
    BY <1>6
  <2> QED BY <2>2, <2>3, <2>4, <1>5, <1>6, Zenon DEF CutsBehind
<1>12. Uncut'
  <2> DEFINE first == Taken - Len(Held)
             rz == Len(Rz(gotrz))
  <2>1. Taken' - Len(Held') = first
    BY <1>3, <1>5
  <2>2. \A c \in cuts : /\ ~(first < c /\ c < first + rz)
                        /\ starcnt > 0 => ~(first + rz < c /\ c <= first + rz + starcnt)
    BY <1>0 DEF Inv, Uncut
  <2>3. /\ Len(Held) = rz + starcnt + Depth /\ rz \in Nat /\ Depth \in Nat /\ starcnt \in Nat
    BY <1>0, Ahead DEF Inv, TypeOK
  <2> HIDE DEF rz
  <2>4. first \in Int /\ first + rz + starcnt <= Len(stream)
    BY <2>3, <1>2, <1>5
  <2>5. e \in Int /\ e > Len(stream)
    BY <1>6
  <2> HIDE DEF first
  <2>6. ~(first < e /\ e < first + rz) /\ ~(first + rz < e /\ e <= first + rz + starcnt)
    BY <2>3, <2>4, <2>5, <1>2
  <2>7. cuts' = cuts \union {e}
    BY <1>6
  <2>8. \A c \in cuts' : /\ ~(first < c /\ c < first + rz)
                         /\ starcnt > 0 => ~(first + rz < c /\ c <= first + rz + starcnt)
    BY <2>2, <2>6, <2>7, Zenon
  <2> QED BY <2>1, <2>8, <1>0, Zenon DEF Uncut, rz
<1>13. Followed'
  <2> SUFFICES ASSUME NEW i \in 1..Taken, Begun(i)', i \notin cuts'
               PROVE  parse_state > 0 /\ i + parse_state = Taken
    BY <1>0, <1>5 DEF Followed
  <2>1. i \in 1..Len(stream) /\ i \notin cuts
    BY <1>0, <1>5
  <2>2. i # Len(stream)
    <3>1. Len(stream) > 0 => Len(stream) \in cuts
      BY DEF Inv, CutsBehind
    <3> QED BY <2>1, <3>1, <1>2
  <2>3. \A j \in 1..Len(stream) : stream'[j] = stream[j]
    <3>1. \A j \in 1..Len(stream) : (stream \o s)[j] = stream[j]
      BY <1>1, <1>2, Joined
    <3> QED BY <3>1, <1>0, Zenon
  <2>4. Begun(i)
    <3>1. stream'[i] = "*" /\ \A j \in 1..4 : i + j <= Len(stream') => stream'[i + j] = Header[j]
      BY DEF Begun
    <3>2. i < Len(stream) /\ stream[i] = "*"
      BY <3>1, <2>1, <2>2, <2>3, <1>2
    <3>3. ASSUME NEW j \in 1..4, i + j <= Len(stream) PROVE stream[i + j] = Header[j]
      <4>1. i + j \in 1..Len(stream) /\ i + j <= Len(stream')
        BY <3>3, <2>1, <1>1, <1>2, <1>4
      <4>2. stream'[i + j] = Header[j]
        BY <3>1, <4>1
      <4> QED BY <4>1, <4>2, <2>3
    <3> QED BY <3>2, <3>3 DEF Begun
  <2> QED BY <2>1, <2>4, <1>0 DEF Inv, Followed
<1> QED BY <1>7, <1>8, <1>9, <1>10, <1>11, <1>12, <1>13 DEF Inv

LEMMA WriteKeeps == ASSUME Inv, fifo_write PROVE Inv'
<1>0. /\ phase' = phase /\ UNCHANGED <<parse_state, gotrz, starcnt, input, passed>>
      /\ UNCHANGED <<announced, remaining, misrouted, stream, cuts, carried>>
      /\ phase = "echo"
  BY DEF fifo_write, conn, traffic
<1>1. count \in 0..Capacity /\ Capacity \in Nat /\ count' \in 0..Capacity /\ count' <= count
  <2>1. count \in 0..Capacity /\ Capacity \in Nat
    BY ZrqAssumption DEF Inv, TypeOK
  <2> QED BY <2>1 DEF fifo_write
<1>2. Held' = Held /\ Taken' = Taken
  BY <1>0, HeldIs DEF Taken
<1>3. TypeOK'
  BY <1>0, <1>1 DEF Inv, TypeOK
<1>4. RoomBound'
  <2>1. count + Len(Held) + Len(input) <= Capacity + carried
    BY <1>0 DEF Inv, RoomBound
  <2>2. Len(Held) \in Nat /\ Len(input) \in Nat /\ carried \in Nat
    BY <1>0, Ahead DEF Inv, TypeOK
  <2>3. count' + Len(Held) + Len(input) <= Capacity + carried
    BY <2>1, <2>2, <1>1
  <2> QED BY <2>3, <1>0, <1>2 DEF RoomBound
<1>5. Conservation' /\ StartIsHeader' /\ Fresh' /\ CutsBehind' /\ Uncut' /\ Followed'
  BY <1>0, <1>2, Zenon DEF Inv, Conservation, StartIsHeader, Fresh, CutsBehind, Uncut, Followed, Begun
<1> QED BY <1>3, <1>4, <1>5 DEF Inv

-----------------------------------------------------------------------------
\* The header is complete: it and what follows it leave the scanner.
LEMMA StartKeeps ==
  ASSUME Inv, Started, phase' \in {"rz", "bailed", "overflow"}, count' \in 0..Capacity,
         misrouted' \in Nat, phase' = "overflow" => Capacity < StartLength
  PROVE  Inv'
<1>0. /\ Scanning /\ phase = "echo" /\ input # <<>> /\ parse_state = 3 /\ input[1] = Header[4]
      /\ announced' = Held \o <<input[1]>> /\ remaining' = Tail(input) /\ input' = <<>>
      /\ parse_state' = 0 /\ gotrz' = "RZNONE" /\ starcnt' = 0
      /\ passed' = passed /\ stream' = stream /\ cuts' = cuts /\ carried' = carried
  BY DEF Started, HeaderDone, Scanning, zscanstate_init
<1>1. input \in Seq(Byte) /\ announced = <<>> /\ remaining = <<>>
  BY <1>0 DEF Inv, TypeOK, Fresh
<1>2. /\ remaining' = Suffix(input, 1) /\ 1 \in 0..Len(input) /\ input[1] \in Byte
      /\ SubSeq(input, 1, 1) = <<input[1]>>
  BY <1>0, <1>1, TailIsSuffix
<1> DEFINE l == <<input[1]>>
<1>3. l \in Seq(Byte) /\ remaining' \in Seq(Byte) /\ Cat(l, remaining') = input
  <2>1. SubSeq(input, 1, 1) \in Seq(Byte) /\ Suffix(input, 1) \in Seq(Byte)
        /\ SubSeq(input, 1, 1) \o Suffix(input, 1) = input
    BY <1>1, <1>2, Parts
  <2> QED BY <2>1, <1>2, Zenon DEF Cat
<1>4. /\ Held \in Seq(Byte) /\ passed \in Seq(Byte) /\ stream = Cat(Cat(passed, Held), input)
  BY <1>0, Ahead
<1>5. announced' = Cat(Held, l)
  BY <1>0, Zenon DEF Cat
<1> HIDE DEF l
<1>6. announced' \in Seq(Byte)
  BY <1>3, <1>4, <1>5, CatLaws
<1>7. Held' = <<>>
  BY <1>0, HeldIs, NothingHeld
<1>8. TypeOK'
  BY <1>0, <1>3, <1>6, Empty DEF Inv, TypeOK
<1>9. Conservation'
  <2>1. Cat(passed, Held) \in Seq(Byte)
    BY <1>4, CatLaws
  <2>2. Cat(Cat(passed, Held), Cat(l, remaining')) = Cat(Cat(Cat(passed, Held), l), remaining')
    BY <2>1, <1>3, CatLaws
  <2>3. Cat(Cat(passed, Held), l) = Cat(passed, Cat(Held, l))
    BY <1>3, <1>4, CatLaws
  <2>4. stream = Cat(Cat(passed, announced'), remaining')
    BY <2>2, <2>3, <1>3, <1>4, <1>5, Zenon
  <2>5. Cat(passed, announced') \in Seq(Byte)
    BY <1>4, <1>6, CatLaws
  <2>6. Cat(Cat(Cat(passed, announced'), <<>>), <<>>) = Cat(passed, announced')
    BY <2>5, CatLaws
  <2>7. stream' = Cat(Cat(Cat(Cat(passed', announced'), Held'), input'), remaining')
    BY <2>4, <2>6, <1>0, <1>7, Zenon
  <2> QED BY <2>7, Zenon DEF Conservation, Cat
<1>10. StartIsHeader'
  <2>1. parse_state \in 1..3 /\ parse_state + 1 = 4
    BY <1>0
  <2>2. gotrz \in RzKinds /\ starcnt \in Nat /\ starcnt > 0 /\ Rz(gotrz) \in Seq(Byte)
        /\ Stars(starcnt) \in Seq(Byte)
    BY <2>1, HeldInHeader
  <2>3. Cat(Held, l) = Cat(Cat(Rz(gotrz), Stars(starcnt)), SubSeq(Header, 1, 4))
    <3>1. Cat(Held, l) = Cat(Cat(Rz(gotrz), Stars(starcnt)), SubSeq(Header, 1, parse_state + 1))
      BY <1>0, <1>2, <2>1, HeldGrows DEF l
    <3> QED BY <3>1, <2>1, Zenon
  <2>4. SubSeq(Header, 1, 4) = Header
    BY HeaderIsSeq, SubSeqFull
  <2>5. announced' = Cat(Cat(Rz(gotrz), Stars(starcnt)), Header)
    BY <2>3, <2>4, <1>5, Zenon
  <2>6. announced' = Rz(gotrz) \o Stars(starcnt) \o Header
    BY <2>5, Zenon DEF Cat
  <2>7. starcnt \in 1..Len(announced')
    <3>1. Len(Stars(starcnt)) = starcnt /\ Len(Header) = 4 /\ Header \in Seq(Byte)
      BY <2>2, StarsIsSeq, HeaderIsSeq
    <3>2. /\ Cat(Rz(gotrz), Stars(starcnt)) \in Seq(Byte)
          /\ Len(Cat(Rz(gotrz), Stars(starcnt))) = Len(Rz(gotrz)) + Len(Stars(starcnt))
      BY <2>2, CatLaws
    <3>3. Len(Cat(Cat(Rz(gotrz), Stars(starcnt)), Header))
            = Len(Cat(Rz(gotrz), Stars(starcnt))) + Len(Header)
      BY <3>1, <3>2, CatLaws
    <3>4. Len(Rz(gotrz)) \in Nat
      BY <2>2, RzIsSeq
    <3>5. Len(announced') = Len(Cat(Cat(Rz(gotrz), Stars(starcnt)), Header))
      BY <2>5, Zenon
    <3> QED BY <3>1, <3>2, <3>3, <3>4, <3>5, <2>2
  <2> QED BY <2>2, <2>6, <2>7, Zenon DEF StartIsHeader, RzKinds
<1>11. RoomBound' /\ Fresh' /\ Uncut' /\ Followed'
  BY <1>0 DEF RoomBound, Fresh, Uncut, Followed
<1>12. CutsBehind'
  BY <1>0 DEF Inv, CutsBehind
<1> QED BY <1>8, <1>9, <1>10, <1>11, <1>12 DEF Inv

LEMMA ZscanStartKeeps == ASSUME Inv, zscan_start PROVE Inv'
<1>0. Started /\ count \in 0..Capacity /\ misrouted \in Nat /\ Capacity \in Nat
  BY ZrqAssumption DEF zscan_start, Inv, TypeOK
<1>1. CASE StartLength > Capacity
  <2>1. phase' = "overflow" /\ misrouted' = misrouted + count /\ count' = count
    BY <1>1 DEF zscan_start
  <2>2. misrouted' \in Nat /\ Capacity < StartLength
    BY <2>1, <1>0, <1>1 DEF StartLength
  <2> QED BY <2>1, <2>2, <1>0, StartKeeps
<1>2. CASE ~(StartLength > Capacity)
  <2> DEFINE r == Len(remaining')
  <2>1. r \in Nat
    <3>1. input \in Seq(Byte) /\ input # <<>> /\ remaining' = Tail(input)
      BY <1>0 DEF Inv, TypeOK, Started, Scanning
    <3>2. remaining' = Suffix(input, 1) /\ 1 \in 0..Len(input)
      BY <3>1, TailIsSuffix
    <3> QED BY <3>1, <3>2, Parts
  <2>2. PICK n \in Freed : /\ phase' = "rz" /\ misrouted' = misrouted + count + n
                           /\ count' = StartLength - n + r
    BY <1>2 DEF zscan_start
  <2>3. n \in IF r > Capacity - StartLength THEN r + StartLength - Capacity..StartLength ELSE {0}
    BY DEF Freed
  <2> HIDE DEF r
  <2>4. n \in 0..6 /\ 6 - n + r \in 0..Capacity
    <3>1. CASE r > Capacity - 6
      <4>1. n \in r + 6 - Capacity..6
        BY <3>1, <2>3 DEF StartLength
      <4> QED BY <3>1, <4>1, <2>1, <1>0
    <3>2. CASE ~(r > Capacity - 6)
      <4>1. n = 0
        BY <3>2, <2>3 DEF StartLength
      <4> QED BY <3>2, <4>1, <2>1, <1>0
    <3> QED BY <3>1, <3>2
  <2>5. misrouted + count + n \in Nat
    BY <2>4, <1>0
  <2>6. misrouted' \in Nat /\ count' \in 0..Capacity
    BY <2>2, <2>4, <2>5 DEF StartLength
  <2> QED BY <2>2, <2>6, <1>0, StartKeeps
<1> QED BY <1>1, <1>2

LEMMA BailKeeps == ASSUME Inv, Bail PROVE Inv'
<1>0. Started /\ count \in 0..Capacity /\ misrouted \in Nat /\ Capacity \in Nat
      /\ phase' = "bailed" /\ count' = count
  BY ZrqAssumption DEF Bail, Inv, TypeOK
<1>1. misrouted' \in Nat
  BY <1>0 DEF Bail, StartLength
<1> QED BY <1>0, <1>1, StartKeeps

-----------------------------------------------------------------------------
LEMMA InitInv == ASSUME Init PROVE Inv
<1>0. /\ parse_state = 0 /\ gotrz = "RZNONE" /\ starcnt = 0 /\ input = <<>> /\ count = 0
      /\ phase = "echo" /\ passed = <<>> /\ announced = <<>> /\ remaining = <<>>
      /\ misrouted = 0 /\ stream = <<>> /\ cuts = {} /\ carried = 0 /\ Capacity \in Nat
  BY ZrqAssumption DEF Init
<1>1. <<>> \in Seq(Byte) /\ Len(<<>>) = 0 /\ Held = <<>> /\ <<>> \o <<>> = <<>>
  BY <1>0, HeldIs, NothingHeld, Empty
<1>2. TypeOK
  BY <1>0, <1>1 DEF TypeOK
<1>3. Conservation
  BY <1>0, <1>1, Zenon DEF Conservation
<1>4. Taken = 0
  BY <1>0, <1>1 DEF Taken
<1>5. RoomBound
  BY <1>0, <1>1 DEF RoomBound
<1>6. StartIsHeader /\ Fresh
  BY <1>0 DEF StartIsHeader, Fresh
<1>7. CutsBehind /\ Uncut
  BY <1>0, <1>1 DEF CutsBehind, Uncut
<1>8. Followed
  BY <1>4 DEF Followed
<1> QED BY <1>2, <1>3, <1>5, <1>6, <1>7, <1>8 DEF Inv

LEMMA NextInv == ASSUME Inv, [Next]_vars PROVE Inv'
<1>1. CASE Next
  BY <1>1, ReadKeeps, WriteKeeps, SkipKeeps, PassRKeeps, HoldRzKeeps, HoldStarsKeeps,
     HoldHeaderKeeps, NoHeaderKeeps, ZscanStartKeeps, BailKeeps DEF Next
<1>2. CASE UNCHANGED vars
  BY <1>2, Zenon DEF vars, conn, traffic, Inv, TypeOK, Conservation, RoomBound, StartIsHeader,
     Fresh, CutsBehind, Uncut, Followed, Begun, Taken, Held, Depth
<1> QED BY <1>1, <1>2

LEMMA Invariance == Spec => []Inv
BY InitInv, NextInv, PTL DEF Spec

-----------------------------------------------------------------------------
(***************************************************************************)
(* The state of the scanner fits together: in parse_state 0 nothing is     *)
(* held, and the fifo's count is one it can have.                          *)
(***************************************************************************)
THEOREM ZrqTypeOK == Spec => []TypeOK
<1>1. Inv => TypeOK
  BY DEF Inv
<1> QED BY <1>1, Invariance, PTL

(***************************************************************************)
(* Whatever the shell prints and however read() cuts it, no byte is lost,  *)
(* doubled or reordered by the scanner.                                    *)
(***************************************************************************)
THEOREM ZrqConservation == Spec => []Conservation
<1>1. Inv => Conservation
  BY DEF Inv
<1> QED BY <1>1, Invariance, PTL

(***************************************************************************)
(* What zrq.c asks of packets is what it does: an rz, or a star and its    *)
(* ZDLE, in two packets are never held.                                    *)
(***************************************************************************)
THEOREM ZrqHeldWhole == Spec => []HeldWhole
<1>1. ASSUME Inv PROVE HeldWhole
  <2>1. SUFFICES ASSUME phase = "echo", input = <<>> PROVE HeldWhole
    BY DEF HeldWhole
  <2>2. Taken = Len(stream)
    <3>1. Len(input) = 0 /\ stream \in Seq(Byte)
      BY <1>1, <2>1, Empty DEF Inv, TypeOK
    <3>2. Len(stream) \in Nat
      BY <3>1
    <3> QED BY <3>1, <3>2 DEF Taken
  <2> QED BY <1>1, <2>1, <2>2, Zenon DEF Inv, Uncut, HeldWhole
<1> QED BY <1>1, Invariance, PTL

(***************************************************************************)
(* No header passes unnoticed, whatever came before it, unless a packet    *)
(* ended between its star and its ZDLE.                                    *)
(***************************************************************************)
THEOREM ZrqComplete == Spec => []Complete
<1>1. ASSUME Inv PROVE Complete
  <2> SUFFICES ASSUME phase = "echo", input = <<>>, NEW i \in 1..Len(stream) - 4,
                      SubSeq(stream, i, i + 4) = <<"*">> \o Header, i \notin cuts
               PROVE  FALSE
    BY DEF Complete
  <2>1. stream \in Seq(Byte) /\ parse_state \in -1..3
    BY <1>1 DEF Inv, TypeOK
  <2> DEFINE L == Len(stream)
  <2>2. L \in Nat /\ Taken = L
    <3>1. Len(input) = 0
      BY Empty
    <3> QED BY <2>1, <3>1 DEF Taken
  <2>3. \A j \in 0..4 : SubSeq(stream, i, i + 4)[1 + j] = stream[i + j]
    <3>1. i \in 1..L /\ i \in Int /\ i + 4 \in Int /\ i + 4 <= L
      BY <2>2
    <3>2. \A j \in i..i + 4 : stream[j] \in Byte
      BY <2>1, <3>1, ElementOfSeq
    <3>3. \A j \in 1..i + 4 - i + 1 : SubSeq(stream, i, i + 4)[j] = stream[i + j - 1]
      BY <3>1, <3>2, SubSeqProperties
    <3>4. ASSUME NEW j \in 0..4 PROVE SubSeq(stream, i, i + 4)[1 + j] = stream[i + j]
      <4>1. 1 + j \in 1..i + 4 - i + 1 /\ i + (1 + j) - 1 = i + j
        BY <3>1
      <4> QED BY <4>1, <3>3
    <3> QED BY <3>4
  <2> DEFINE w == <<"*">> \o Header
  <2>4. w[1] = "*" /\ \A j \in 1..4 : w[1 + j] = Header[j]
    <3> DEFINE a == <<"*">>
    <3>1. a \in Seq(Byte) /\ Len(a) = 1 /\ a[1] = "*"
      BY Letters
    <3> HIDE DEF a
    <3>2. /\ \A j \in 1..Len(a) : (a \o Header)[j] = a[j]
          /\ \A j \in 1..Len(Header) : (a \o Header)[Len(a) + j] = Header[j]
      BY <3>1, HeaderIsSeq, Joined
    <3>3. (a \o Header)[1] = "*" /\ \A j \in 1..4 : (a \o Header)[1 + j] = Header[j]
      BY <3>1, <3>2, HeaderIsSeq
    <3> QED BY <3>3 DEF a
  <2>5. SubSeq(stream, i, i + 4) = w
    OBVIOUS
  <2> HIDE DEF w
  <2>6. w[1] = stream[i] /\ \A j \in 1..4 : w[1 + j] = stream[i + j]
    <3> DEFINE u == SubSeq(stream, i, i + 4)
    <3>1. u = w
      BY <2>5
    <3>2. \A j \in 0..4 : u[1 + j] = stream[i + j]
      BY <2>3
    <3> HIDE DEF u
    <3>3. u[1] = stream[i] /\ \A j \in 1..4 : u[1 + j] = stream[i + j]
      <4>1. 0 \in 0..4 /\ 1 + 0 = 1 /\ i + 0 = i
        OBVIOUS
      <4>2. \A j \in 1..4 : j \in 0..4
        OBVIOUS
      <4> QED BY <3>2, <4>1, <4>2
    <3> QED BY <3>1, <3>3, Zenon
  <2>7. Begun(i) /\ i \in 1..Taken
    BY <2>2, <2>4, <2>6 DEF Begun
  <2>8. parse_state > 0 /\ i + parse_state = Taken
    BY <1>1, <2>7 DEF Inv, Followed
  <2> QED BY <2>1, <2>2, <2>8
<1> QED BY <1>1, Invariance, PTL

(***************************************************************************)
(* A transfer starts for nothing less than a header, with one rz in front  *)
(* at most.                                                                *)
(***************************************************************************)
THEOREM ZrqStartIsHeader == Spec => []StartIsHeader
<1>1. Inv => StartIsHeader
  BY DEF Inv
<1> QED BY <1>1, Invariance, PTL

(***************************************************************************)
(* For any capacity the scanner overruns what fifo_read had room for by no *)
(* more than what it held when the packet came.                            *)
(***************************************************************************)
THEOREM ZrqRoomBound == Spec => []RoomBound
<1>1. Inv => RoomBound
  BY DEF Inv
<1> QED BY <1>1, Invariance, PTL
=============================================================================
