----------------------------- MODULE FifoProofs -----------------------------
(***************************************************************************)
(* Fifo implements BoundedQueue for every Size and every set of bytes.     *)
(***************************************************************************)
EXTENDS Fifo, SequenceTheorems, TLAPS

\* % on a sum less than twice the size takes at most one size off.
LEMMA Mod ==
  ASSUME NEW x \in 0..2 * Size - 1
  PROVE  /\ x % Size = IF x < Size THEN x ELSE x - Size
         /\ x % Size \in Index
<1>1. x % Size = IF x < Size THEN x ELSE x - Size
  BY SizeAssumption, SMTT(20)
<1>2. x \in Int /\ x % Size \in 0..Size - 1
  BY SizeAssumption, SMTT(20)
<1> QED BY <1>1, <1>2 DEF Index

\* What fifo_count and fifo_avail compute from the two indices; between them they always
\* leave one place of the array unused, which tells full from empty.
LEMMA CountFacts ==
  ASSUME NEW b \in Index, NEW e \in Index
  PROVE  /\ CountOf(b, e) = IF b <= e THEN e - b ELSE Size + e - b
         /\ AvailOf(b, e) = Size - 1 - CountOf(b, e)
         /\ CountOf(b, e) \in 0..Size - 1
<1>1. Size + e - b \in 0..2 * Size - 1 /\ Size + b - e - 1 \in 0..2 * Size - 1
  BY SizeAssumption DEF Index
<1>2. CountOf(b, e) = IF Size + e - b < Size THEN Size + e - b ELSE e - b
  BY <1>1, Mod, SizeAssumption DEF CountOf, Index
<1>3. AvailOf(b, e) = IF Size + b - e - 1 < Size THEN Size + b - e - 1 ELSE b - e - 1
  BY <1>1, Mod, SizeAssumption DEF AvailOf, Index
<1> QED BY <1>2, <1>3, SizeAssumption DEF Index

\* A block that fits.
LEMMA RoomFacts ==
  ASSUME NEW b \in Index, NEW e \in Index, NEW s \in Seq(Byte), Len(s) <= AvailOf(b, e)
  PROVE  /\ Len(s) \in 0..Size - 1
         /\ CountOf(b, e) \in 0..Size - 1 - Len(s)
<1>1. Len(s) \in Nat
  OBVIOUS
<1>2. AvailOf(b, e) = Size - 1 - CountOf(b, e) /\ CountOf(b, e) \in 0..Size - 1
  BY CountFacts
<1> QED BY <1>1, <1>2, SizeAssumption

\* The array index of the i-th byte after index b.
LEMMA Wrap ==
  ASSUME NEW b \in Index, NEW i \in 0..Size
  PROVE  /\ (b + i) % Size = IF b + i < Size THEN b + i ELSE b + i - Size
         /\ (b + i) % Size \in Index
<1>1. b + i \in 0..2 * Size - 1
  BY SizeAssumption DEF Index
<1> DEFINE j == b + i
<1> HIDE DEF j
<1>2. /\ j % Size = IF j < Size THEN j ELSE j - Size
      /\ j % Size \in Index
  BY <1>1, Mod DEF j
<1> QED BY <1>1, <1>2, SizeAssumption DEF j, Index

\* Where the i-th byte of a fifo that begins at b lies.
Place(b, i) == IF b + i - 1 < Size THEN b + i - 1 ELSE b + i - 1 - Size

\* The contents of a fifo are as many bytes as fifo_count says.
LEMMA ContentsType ==
  ASSUME NEW bf \in [Index -> Byte], NEW b \in Index, NEW e \in Index
  PROVE  /\ Contents(bf, b, e) \in Seq(Byte)
         /\ Len(Contents(bf, b, e)) = CountOf(b, e)
         /\ \A i \in 1..CountOf(b, e) :
              Place(b, i) \in Index /\ Contents(bf, b, e)[i] = bf[Place(b, i)]
<1>1. CountOf(b, e) \in 0..Size - 1
  BY CountFacts
<1>2. ASSUME NEW i \in 1..CountOf(b, e)
      PROVE  /\ (b + i - 1) % Size = Place(b, i)
             /\ (b + i - 1) % Size \in Index
  <2>1. b + i - 1 \in 0..2 * Size - 1
    BY <1>1, SizeAssumption DEF Index
  <2> DEFINE j == b + i - 1
  <2> HIDE DEF j
  <2>2. /\ j % Size = IF j < Size THEN j ELSE j - Size
        /\ j % Size \in Index
    BY <2>1, Mod DEF j
  <2> QED BY <2>1, <2>2, <1>1, SizeAssumption DEF j, Place, Index
<1> QED BY <1>1, <1>2 DEF Contents

\* What memory holds after a block was stored.
LEMMA StoreAt ==
  ASSUME NEW bf \in [Index -> Byte], NEW at \in Index, NEW s \in Seq(Byte), Len(s) < Size
  PROVE  /\ Store(bf, at, s) \in [Index -> Byte]
         /\ \A j \in Index :
              Store(bf, at, s)[j] =
                IF j >= at /\ j - at < Len(s) THEN s[j - at + 1]
                ELSE IF j < at /\ j + Size - at < Len(s) THEN s[j + Size - at + 1]
                ELSE bf[j]
<1> DEFINE n == Size - at
<1>1. CASE at + Len(s) > Size
  <2> DEFINE h == SubSeq(s, 1, n)
             t == SubSeq(s, n + 1, Len(s))
             m == memcpy(bf, at, h)
  <2>1. n \in 1..Len(s) /\ Len(s) \in Nat
    BY <1>1, SizeAssumption DEF Index
  <2>2. h \in Seq(Byte) /\ Len(h) = n /\ \A i \in 1..n : h[i] = s[i]
    BY <2>1
  <2>3. t \in Seq(Byte) /\ Len(t) = Len(s) - n /\ \A i \in 1..Len(s) - n : t[i] = s[i + n]
    BY <2>1
  <2> HIDE DEF h, t
  <2>4. m \in [Index -> Byte] /\ \A j \in Index : m[j] = IF j >= at THEN s[j - at + 1] ELSE bf[j]
    BY <2>1, <2>2, SizeAssumption DEF memcpy, Index
  <2>5. Store(bf, at, s) = memcpy(m, 0, t)
    BY <1>1 DEF Store, h, t
  <2> HIDE DEF m
  <2>6. /\ memcpy(m, 0, t) \in [Index -> Byte]
        /\ \A j \in Index : memcpy(m, 0, t)[j] = IF j < Len(s) - n THEN s[j + n + 1] ELSE m[j]
    BY SMTT(30), <2>1, <2>3, <2>4, SizeAssumption DEF memcpy, Index
  <2> QED BY <2>1, <2>4, <2>5, <2>6, SizeAssumption DEF Index
<1>2. CASE ~(at + Len(s) > Size)
  <2>1. Store(bf, at, s) = memcpy(bf, at, s)
    BY <1>2 DEF Store
  <2> QED BY <2>1, <1>2, SizeAssumption DEF memcpy, Index
<1> QED BY <1>1, <1>2

\* Appending puts the block behind what is there.
LEMMA AppendContents ==
  ASSUME NEW bf \in [Index -> Byte], NEW b \in Index, NEW e \in Index,
         NEW s \in Seq(Byte), Len(s) <= AvailOf(b, e)
  PROVE  /\ (e + Len(s)) % Size \in Index
         /\ Store(bf, e, s) \in [Index -> Byte]
         /\ Contents(Store(bf, e, s), b, (e + Len(s)) % Size) = Contents(bf, b, e) \o s
<1> DEFINE x == (e + Len(s)) % Size
           bg == Store(bf, e, s)
<1>0. /\ CountOf(b, e) = IF b <= e THEN e - b ELSE Size + e - b
      /\ CountOf(b, e) \in 0..Size - 1
  BY CountFacts
<1>1. Len(s) \in 0..Size - 1 /\ CountOf(b, e) \in 0..Size - 1 - Len(s)
  BY RoomFacts
<1>2. x = (IF e + Len(s) < Size THEN e + Len(s) ELSE e + Len(s) - Size) /\ x \in Index
  <2>1. Len(s) \in 0..Size
    BY <1>1, SizeAssumption
  <2> QED BY <2>1, Wrap
<1>3. bg \in [Index -> Byte] /\ \A j \in Index :
         bg[j] = IF j >= e /\ j - e < Len(s) THEN s[j - e + 1]
                 ELSE IF j < e /\ j + Size - e < Len(s) THEN s[j + Size - e + 1]
                 ELSE bf[j]
  BY <1>1, StoreAt, SizeAssumption
<1> HIDE DEF x, bg
<1>4. CountOf(b, x) = CountOf(b, e) + Len(s)
  <2>1. CountOf(b, x) = IF b <= x THEN x - b ELSE Size + x - b
    BY <1>2, CountFacts
  <2> QED BY <2>1, <1>0, <1>1, <1>2, SizeAssumption DEF Index
<1>5. /\ Contents(bg, b, x) \in Seq(Byte)
      /\ Len(Contents(bg, b, x)) = CountOf(b, e) + Len(s)
      /\ \A i \in 1..CountOf(b, e) + Len(s) :
            Place(b, i) \in Index /\ Contents(bg, b, x)[i] = bg[Place(b, i)]
  <2>1. /\ Contents(bg, b, x) \in Seq(Byte)
        /\ Len(Contents(bg, b, x)) = CountOf(b, x)
        /\ \A i \in 1..CountOf(b, x) :
              Place(b, i) \in Index /\ Contents(bg, b, x)[i] = bg[Place(b, i)]
    BY <1>2, <1>3, ContentsType
  <2> QED BY <2>1, <1>4
<1>6. /\ Contents(bf, b, e) \in Seq(Byte)
      /\ Len(Contents(bf, b, e)) = CountOf(b, e)
      /\ \A i \in 1..CountOf(b, e) : Contents(bf, b, e)[i] = bf[Place(b, i)]
  BY ContentsType
<1>7. /\ Contents(bf, b, e) \o s \in Seq(Byte)
      /\ Len(Contents(bf, b, e) \o s) = CountOf(b, e) + Len(s)
      /\ \A i \in 1..CountOf(b, e) + Len(s) :
           (Contents(bf, b, e) \o s)[i] =
             IF i <= CountOf(b, e) THEN Contents(bf, b, e)[i] ELSE s[i - CountOf(b, e)]
  <2> DEFINE c == Contents(bf, b, e)
  <2>1. c \in Seq(Byte) /\ Len(c) = CountOf(b, e)
    BY <1>6
  <2> HIDE DEF c
  <2>2. /\ c \o s \in Seq(Byte)
        /\ Len(c \o s) = Len(c) + Len(s)
        /\ \A i \in 1..Len(c) + Len(s) : (c \o s)[i] = IF i <= Len(c) THEN c[i] ELSE s[i - Len(c)]
    BY <2>1, ConcatProperties
  <2> QED BY <2>1, <2>2 DEF c
<1>8. ASSUME NEW i \in 1..CountOf(b, e) + Len(s)
      PROVE  Contents(bg, b, x)[i] = (Contents(bf, b, e) \o s)[i]
  <2>1. CASE i <= CountOf(b, e)
    <3>1. /\ Place(b, i) \in Index
          /\ ~(Place(b, i) >= e /\ Place(b, i) - e < Len(s))
          /\ ~(Place(b, i) < e /\ Place(b, i) + Size - e < Len(s))
      BY <2>1, <1>0, <1>1, SizeAssumption DEF Index, Place
    <3>2. bg[Place(b, i)] = bf[Place(b, i)]
      BY <3>1, <1>3
    <3>3. Contents(bf, b, e)[i] = bf[Place(b, i)]
      BY <2>1, <1>0, <1>1, <1>6
    <3> QED BY <3>2, <3>3, <2>1, <1>5, <1>7
  <2>2. CASE i > CountOf(b, e)
    <3> DEFINE q == i - CountOf(b, e)
    <3>1. q \in 1..Len(s) /\ ~(i <= CountOf(b, e))
      BY <2>2, <1>0, <1>1
    <3>2. /\ Place(b, i) \in Index
          /\ Place(b, i) >= e => Place(b, i) - e + 1 = q /\ Place(b, i) - e < Len(s)
          /\ Place(b, i) < e => Place(b, i) + Size - e + 1 = q /\ Place(b, i) + Size - e < Len(s)
          /\ Place(b, i) >= e \/ Place(b, i) < e
      BY <3>1, <1>0, <1>1, SizeAssumption DEF Index, Place
    <3> HIDE DEF q
    <3>3. bg[Place(b, i)] = s[q]
      BY <3>2, <1>3
    <3> QED BY <3>1, <3>3, <1>5, <1>7 DEF q
  <2>3. i <= CountOf(b, e) \/ i > CountOf(b, e)
    BY <1>0, <1>1
  <2> QED BY <2>1, <2>2, <2>3
<1>9. Contents(bg, b, x) = Contents(bf, b, e) \o s
  BY <1>5, <1>7, <1>8, SeqEqual
<1> QED BY <1>2, <1>3, <1>9 DEF x, bg

\* What memory holds after a block was stored in front.
LEMMA StoreBeforeAt ==
  ASSUME NEW bf \in [Index -> Byte], NEW b \in Index, NEW s \in Seq(Byte), Len(s) < Size
  PROVE  /\ StoreBefore(bf, b, s) \in [Index -> Byte]
         /\ Back(b, Len(s)) \in Index
         /\ \A j \in Index :
              StoreBefore(bf, b, s)[j] =
                IF j < b /\ j + Len(s) >= b THEN s[j + Len(s) - b + 1]
                ELSE IF j >= b /\ j + Len(s) >= Size + b THEN s[j + Len(s) - b - Size + 1]
                ELSE bf[j]
<1> DEFINE n == Len(s) - b
<1>0. Back(b, Len(s)) \in Index
  BY SizeAssumption DEF Back, Index
<1>1. CASE b < Len(s)
  <2> DEFINE h == SubSeq(s, 1, n)
             t == SubSeq(s, n + 1, Len(s))
             m == memcpy(bf, 0, t)
  <2>1. n \in 1..Len(s) /\ Len(s) \in Nat
    BY <1>1 DEF Index
  <2>2. h \in Seq(Byte) /\ Len(h) = n /\ \A i \in 1..n : h[i] = s[i]
    BY <2>1
  <2>3. t \in Seq(Byte) /\ Len(t) = b /\ \A i \in 1..b : t[i] = s[i + n]
    BY <2>1 DEF Index
  <2> HIDE DEF h, t
  <2>4. m \in [Index -> Byte] /\ \A j \in Index : m[j] = IF j < b THEN s[j + n + 1] ELSE bf[j]
    BY <2>1, <2>3, SizeAssumption DEF memcpy, Index
  <2>5. StoreBefore(bf, b, s) = memcpy(m, Size - n, h)
    BY <1>1 DEF StoreBefore, h, t
  <2> HIDE DEF m
  <2>6. ASSUME NEW j \in Index
        PROVE  /\ j - (Size - n) \in 0..Len(h) - 1 <=> j >= Size - n
               /\ j >= Size - n => j - (Size - n) + 1 \in 1..n
    BY <2>1, <2>2, SizeAssumption DEF Index
  <2>7. \A j \in Index : memcpy(m, Size - n, h)[j] =
                            IF j >= Size - n THEN s[j - (Size - n) + 1] ELSE m[j]
    BY <2>2, <2>4, <2>6 DEF memcpy
  <2>8. memcpy(m, Size - n, h) \in [Index -> Byte]
    BY <2>1, <2>2, <2>4, <2>6 DEF memcpy
  <2>9. \A j \in Index :
          /\ j >= Size - n <=> j >= b /\ j + Len(s) >= Size + b
          /\ j - (Size - n) + 1 = j + Len(s) - b - Size + 1
          /\ j + n + 1 = j + Len(s) - b + 1
          /\ j < b => j + Len(s) >= b /\ ~(j >= Size - n)
    BY <1>1, <2>1, SizeAssumption DEF Index
  <2> QED BY <1>0, <2>4, <2>5, <2>7, <2>8, <2>9
<1>2. CASE ~(b < Len(s))
  <2>1. StoreBefore(bf, b, s) = memcpy(bf, b - Len(s), s)
    BY <1>2 DEF StoreBefore
  <2> QED BY <1>0, <2>1, <1>2, SizeAssumption DEF memcpy, Index
<1> QED BY <1>1, <1>2

\* The places of a fifo of c bytes after n bytes were put in front of it.
LEMMA PrependPlaces ==
  ASSUME NEW b \in Index, NEW n \in 0..Size - 1, NEW c \in 0..Size - 1 - n, NEW i \in 1..c + n
  PROVE  LET x == Back(b, n)
             p == Place(x, i)
         IN  /\ p \in Index
             /\ i <= n => \/ /\ p < b /\ p + n >= b /\ p + n - b + 1 = i
                          \/ /\ p >= b /\ p + n >= Size + b /\ p + n - b - Size + 1 = i
             /\ i > n => /\ p = Place(b, i - n)
                         /\ ~(p < b /\ p + n >= b)
                         /\ ~(p >= b /\ p + n >= Size + b)
<1>1. CASE b < n
  <2>1. Back(b, n) = Size - (n - b)
    BY <1>1 DEF Back
  <2> QED BY <1>1, <2>1, SizeAssumption DEF Place, Index
<1>2. CASE ~(b < n)
  <2>1. Back(b, n) = b - n
    BY <1>2 DEF Back
  <2> QED BY <1>2, <2>1, SizeAssumption DEF Place, Index
<1> QED BY <1>1, <1>2

\* Prepending puts the block in front of what is there.
LEMMA PrependContents ==
  ASSUME NEW bf \in [Index -> Byte], NEW b \in Index, NEW e \in Index,
         NEW s \in Seq(Byte), Len(s) <= AvailOf(b, e)
  PROVE  Contents(StoreBefore(bf, b, s), Back(b, Len(s)), e) = s \o Contents(bf, b, e)
<1> DEFINE x == Back(b, Len(s))
           bg == StoreBefore(bf, b, s)
           c == Contents(bf, b, e)
           d == Contents(bg, x, e)
<1> HIDE DEF x, bg, c, d
<1>0. /\ CountOf(b, e) = IF b <= e THEN e - b ELSE Size + e - b
      /\ CountOf(b, e) \in 0..Size - 1
  BY CountFacts
<1>1. Len(s) \in 0..Size - 1 /\ CountOf(b, e) \in 0..Size - 1 - Len(s)
  BY RoomFacts
<1>2. x = (IF b < Len(s) THEN Size - (Len(s) - b) ELSE b - Len(s)) /\ x \in Index
  BY <1>1, StoreBeforeAt, SizeAssumption DEF Back, x
<1>3. bg \in [Index -> Byte] /\ \A j \in Index :
         bg[j] = IF j < b /\ j + Len(s) >= b THEN s[j + Len(s) - b + 1]
                 ELSE IF j >= b /\ j + Len(s) >= Size + b THEN s[j + Len(s) - b - Size + 1]
                 ELSE bf[j]
  BY <1>1, StoreBeforeAt, SizeAssumption DEF bg
<1>4. CountOf(x, e) = CountOf(b, e) + Len(s)
  <2>1. CountOf(x, e) = IF x <= e THEN e - x ELSE Size + e - x
    BY <1>2, CountFacts
  <2>2. CountOf(b, e) = IF b <= e THEN e - b ELSE Size + e - b
    BY <1>0
  <2>3. CASE b < Len(s) BY <2>1, <2>2, <2>3, <1>1, <1>2, SizeAssumption DEF Index
  <2>4. CASE ~(b < Len(s)) BY <2>1, <2>2, <2>4, <1>1, <1>2, SizeAssumption DEF Index
  <2> QED BY <2>3, <2>4
<1>5. /\ d \in Seq(Byte)
      /\ Len(d) = CountOf(b, e) + Len(s)
      /\ \A i \in 1..CountOf(b, e) + Len(s) : Place(x, i) \in Index /\ d[i] = bg[Place(x, i)]
  <2>1. /\ d \in Seq(Byte)
        /\ Len(d) = CountOf(x, e)
        /\ \A i \in 1..CountOf(x, e) : Place(x, i) \in Index /\ d[i] = bg[Place(x, i)]
    BY <1>2, <1>3, ContentsType DEF d
  <2> QED BY <2>1, <1>4
<1>6. /\ c \in Seq(Byte)
      /\ Len(c) = CountOf(b, e)
      /\ \A i \in 1..CountOf(b, e) : Place(b, i) \in Index /\ c[i] = bf[Place(b, i)]
  BY ContentsType DEF c
<1>7. /\ s \o c \in Seq(Byte)
      /\ Len(s \o c) = CountOf(b, e) + Len(s)
      /\ \A i \in 1..CountOf(b, e) + Len(s) :
           (s \o c)[i] = IF i <= Len(s) THEN s[i] ELSE c[i - Len(s)]
  <2>1. /\ s \o c \in Seq(Byte)
        /\ Len(s \o c) = Len(s) + Len(c)
        /\ \A i \in 1..Len(s) + Len(c) : (s \o c)[i] = IF i <= Len(s) THEN s[i] ELSE c[i - Len(s)]
    BY <1>6, ConcatProperties
  <2> QED BY <2>1, <1>0, <1>1, <1>6
<1>8. ASSUME NEW i \in 1..CountOf(b, e) + Len(s)
      PROVE  d[i] = (s \o c)[i]
  <2> DEFINE p == Place(x, i)
             n == Len(s)
  <2>0. /\ p \in Index
        /\ i <= n => \/ /\ p < b /\ p + n >= b /\ p + n - b + 1 = i
                     \/ /\ p >= b /\ p + n >= Size + b /\ p + n - b - Size + 1 = i
        /\ i > n => /\ p = Place(b, i - n)
                    /\ ~(p < b /\ p + n >= b)
                    /\ ~(p >= b /\ p + n >= Size + b)
    BY <1>1, PrependPlaces DEF x
  <2>1. CASE i <= n
    <3>1. ~(p < b /\ p >= b)
      BY <2>0 DEF Index
    <3>2. bg[p] = s[i]
      BY <2>0, <2>1, <3>1, <1>3
    <3> QED BY <3>2, <2>1, <1>5, <1>7
  <2>2. CASE i > n
    <3>1. i - n \in 1..CountOf(b, e) /\ ~(i <= n)
      BY <2>2, <1>0, <1>1
    <3>2. bg[p] = bf[Place(b, i - n)]
      BY <2>0, <2>2, <1>3
    <3> QED BY <3>1, <3>2, <1>5, <1>6, <1>7
  <2>3. i <= n \/ i > n
    BY <1>0, <1>1
  <2> QED BY <2>1, <2>2, <2>3
<1>9. d = s \o c
  BY <1>5, <1>7, <1>8, SeqEqual
<1> QED BY <1>9 DEF x, bg, c, d

\* A block copied out of the array in one piece, and in two.
LEMMA RegionFacts ==
  ASSUME NEW bf \in [Index -> Byte], NEW b \in Index, NEW n \in 0..Size - b
  PROVE  /\ Region(bf, b, n) \in Seq(Byte) /\ Len(Region(bf, b, n)) = n
         /\ \A i \in 1..n : Region(bf, b, n)[i] = bf[Place(b, i)]
<1>1. \A i \in 1..n : b + i - 1 \in Index /\ Place(b, i) = b + i - 1
  BY SizeAssumption DEF Place, Index
<1> QED BY <1>1, SizeAssumption DEF Region, Index

\* What fifo_unsafe_unpend hands out when it copies two pieces.
LEMMA JoinFacts ==
  ASSUME NEW bf \in [Index -> Byte], NEW b \in Index, NEW m \in 0..b
  PROVE  LET t == Region(bf, b, Size - b) \o Region(bf, 0, m)
         IN  /\ t \in Seq(Byte) /\ Len(t) = Size - b + m
             /\ \A i \in 1..Size - b + m : t[i] = bf[Place(b, i)]
<1> DEFINE r == Region(bf, b, Size - b)
           w == Region(bf, 0, m)
<1>0. /\ 0 \in Index /\ Size - b \in 0..Size - b /\ m \in 0..Size - 0
      /\ Size - b \in Nat /\ m \in Nat
  BY SizeAssumption DEF Index
<1>1. /\ r \in Seq(Byte) /\ Len(r) = Size - b
      /\ \A i \in 1..Size - b : r[i] = bf[Place(b, i)]
  BY <1>0, RegionFacts
<1>2. /\ w \in Seq(Byte) /\ Len(w) = m
      /\ \A i \in 1..m : w[i] = bf[Place(0, i)]
  BY <1>0, RegionFacts
<1> HIDE DEF r, w
<1>3. /\ r \o w \in Seq(Byte)
      /\ Len(r \o w) = Len(r) + Len(w)
      /\ \A i \in 1..Len(r) + Len(w) : (r \o w)[i] = IF i <= Len(r) THEN r[i] ELSE w[i - Len(r)]
  BY <1>1, <1>2, ConcatProperties
<1>4. ASSUME NEW i \in 1..Size - b + m
      PROVE  (r \o w)[i] = bf[Place(b, i)]
  <2>1. CASE i <= Size - b
    <3>1. i \in 1..Size - b
      BY <2>1, <1>0
    <3> QED BY <3>1, <2>1, <1>1, <1>2, <1>3
  <2>2. CASE ~(i <= Size - b)
    <3>1. i - (Size - b) \in 1..m
      BY <2>2, <1>0
    <3>2. Place(0, i - (Size - b)) = Place(b, i)
      BY <2>2, <1>0, SizeAssumption DEF Place, Index
    <3> QED BY <3>1, <3>2, <2>2, <1>1, <1>2, <1>3
  <2> QED BY <2>1, <2>2
<1> QED BY <1>1, <1>2, <1>3, <1>4 DEF r, w

\* Either way fifo_unsafe_unpend hands out the n bytes after the index, around the ring.
LEMMA LoadFacts ==
  ASSUME NEW bf \in [Index -> Byte], NEW b \in Index, NEW n \in 0..Size - 1
  PROVE  /\ Load(bf, b, n) \in Seq(Byte) /\ Len(Load(bf, b, n)) = n
         /\ \A i \in 1..n : Load(bf, b, n)[i] = bf[Place(b, i)]
<1>1. CASE b + n > Size
  <2>1. n - (Size - b) \in 0..b /\ Size - b + (n - (Size - b)) = n
    BY <1>1, SizeAssumption DEF Index
  <2>2. Load(bf, b, n) = Region(bf, b, Size - b) \o Region(bf, 0, n - (Size - b))
    BY <1>1 DEF Load
  <2> DEFINE m == n - (Size - b)
  <2> HIDE DEF m
  <2>3. /\ Load(bf, b, n) \in Seq(Byte) /\ Len(Load(bf, b, n)) = Size - b + m
        /\ \A i \in 1..Size - b + m : Load(bf, b, n)[i] = bf[Place(b, i)]
    BY <2>1, <2>2, JoinFacts DEF m
  <2> QED BY <2>1, <2>3 DEF m
<1>2. CASE ~(b + n > Size)
  <2>1. n \in 0..Size - b /\ Load(bf, b, n) = Region(bf, b, n)
    BY <1>2, SizeAssumption DEF Load, Index
  <2> QED BY <2>1, RegionFacts
<1> QED BY <1>1, <1>2

\* Taking n bytes hands out the oldest n and leaves the rest.
LEMMA TakeContents ==
  ASSUME NEW bf \in [Index -> Byte], NEW b \in Index, NEW e \in Index,
         NEW n \in 0..CountOf(b, e), NEW x \in Index, x = (b + n) % Size,
         NEW t \in Seq(Byte), Len(t) = n, \A i \in 1..n : t[i] = bf[Place(b, i)]
  PROVE  LET c == Contents(bf, b, e)
         IN  t = SubSeq(c, 1, n) /\ Contents(bf, x, e) = SubSeq(c, n + 1, Len(c))
<1> DEFINE c == Contents(bf, b, e)
           d == Contents(bf, x, e)
           k == CountOf(b, e)
<1> HIDE DEF c, d, k
<1>1. /\ k = IF b <= e THEN e - b ELSE Size + e - b
      /\ k \in 0..Size - 1 /\ n \in 0..k
  BY CountFacts DEF k
<1>2. x = IF b + n < Size THEN b + n ELSE b + n - Size
  <2>1. n \in 0..Size
    BY <1>1, SizeAssumption
  <2> QED BY <2>1, Wrap
<1>3. CountOf(x, e) = k - n
  <2>1. CountOf(x, e) = IF x <= e THEN e - x ELSE Size + e - x
    BY CountFacts
  <2> QED BY <2>1, <1>1, <1>2, SizeAssumption DEF Index
<1>4. /\ c \in Seq(Byte) /\ Len(c) = k
      /\ \A i \in 1..k : c[i] = bf[Place(b, i)]
  BY ZenonT(60), ContentsType DEF c, k
<1>5. /\ d \in Seq(Byte) /\ Len(d) = k - n
      /\ \A i \in 1..k - n : d[i] = bf[Place(x, i)]
  <2>1. /\ d \in Seq(Byte) /\ Len(d) = CountOf(x, e)
        /\ \A i \in 1..CountOf(x, e) : d[i] = bf[Place(x, i)]
    BY ContentsType DEF d
  <2> QED BY <2>1, <1>3
<1>6. ASSUME NEW i \in 1..k - n
      PROVE  Place(x, i) = Place(b, n + i) /\ n + i \in 1..k
  <2>0. n + i \in 1..k /\ b \in 0..Size - 1 /\ x \in 0..Size - 1
    BY <1>1, SizeAssumption DEF Index
  <2>1. CASE b + n < Size
    <3>1. x = b + n
      BY <2>1, <1>2
    <3> QED BY <2>0, <3>1, <1>1, SizeAssumption DEF Place
  <2>2. CASE ~(b + n < Size)
    <3>1. x = b + n - Size
      BY <2>2, <1>2
    <3>2. Place(x, i) = x + i - 1
      BY <2>0, <3>1, <1>1, SizeAssumption DEF Place
    <3>3. Place(b, n + i) = b + (n + i) - 1 - Size
      BY <2>0, <2>2, <1>1, SizeAssumption DEF Place
    <3> QED BY <2>0, <3>1, <3>2, <3>3, <1>1, SizeAssumption
  <2> QED BY <2>1, <2>2
<1>7. /\ SubSeq(c, 1, n) \in Seq(Byte) /\ Len(SubSeq(c, 1, n)) = n
      /\ \A i \in 1..n : SubSeq(c, 1, n)[i] = c[i]
  <2>1. 1 \in Int /\ n \in Int /\ \A i \in 1..n : c[i] \in Byte
    BY <1>1, <1>4
  <2>2. /\ SubSeq(c, 1, n) \in Seq(Byte)
        /\ Len(SubSeq(c, 1, n)) = IF 1 <= n THEN n - 1 + 1 ELSE 0
        /\ \A i \in 1..n - 1 + 1 : SubSeq(c, 1, n)[i] = c[1 + i - 1]
    BY <2>1, SubSeqProperties
  <2> QED BY <2>2, <1>1
<1>8. /\ SubSeq(c, n + 1, k) \in Seq(Byte) /\ Len(SubSeq(c, n + 1, k)) = k - n
      /\ \A i \in 1..k - n : SubSeq(c, n + 1, k)[i] = c[n + i]
  <2>1. n + 1 \in Int /\ k \in Int /\ \A i \in n + 1..k : c[i] \in Byte
    BY <1>1, <1>4
  <2>2. /\ SubSeq(c, n + 1, k) \in Seq(Byte)
        /\ Len(SubSeq(c, n + 1, k)) = IF n + 1 <= k THEN k - (n + 1) + 1 ELSE 0
        /\ \A i \in 1..k - (n + 1) + 1 : SubSeq(c, n + 1, k)[i] = c[n + 1 + i - 1]
    BY <2>1, SubSeqProperties
  <2> QED BY SMTT(30), <2>2, <1>1
<1>9. t = SubSeq(c, 1, n)
  <2> DEFINE u == SubSeq(c, 1, n)
  <2> HIDE DEF u
  <2>1. \A i \in 1..Len(t) : t[i] = u[i]
    BY <1>1, <1>4, <1>7 DEF u
  <2>2. u \in Seq(Byte) /\ Len(t) = Len(u)
    BY <1>7 DEF u
  <2> QED BY <2>1, <2>2, SeqEqual DEF u
<1>10. d = SubSeq(c, n + 1, k)
  <2> DEFINE u == SubSeq(c, n + 1, k)
  <2> HIDE DEF u
  <2>1. \A i \in 1..k - n : d[i] = u[i]
    <3>1. \A i \in 1..k - n : d[i] = bf[Place(b, n + i)]
      BY <1>5, <1>6
    <3>2. \A i \in 1..k - n : u[i] = bf[Place(b, n + i)]
      BY <1>4, <1>6, <1>8 DEF u
    <3> QED BY <3>1, <3>2
  <2>2. u \in Seq(Byte) /\ Len(d) = Len(u)
    BY <1>5, <1>8 DEF u
  <2> QED BY <2>1, <2>2, <1>5, SeqEqual DEF u
<1> QED BY <1>4, <1>9, <1>10 DEF c, d

-----------------------------------------------------------------------------
\* A block of Block is a sequence, and one that has room is a block the abstract queue takes.
LEMMA BlockFacts ==
  ASSUME NEW s \in Block
  PROVE  s \in Seq(Byte) /\ Len(s) \in 0..Size - 1
  BY SizeAssumption DEF Block

\* What fifo_avail admits is what the abstract queue has room for.
LEMMA FittingFacts ==
  ASSUME TypeOK, NEW s \in Seq(Byte), Len(s) <= fifo_avail
  PROVE  s \in Queue!Fitting
<1>1. Len(Contents(buf, beg, end)) = CountOf(beg, end)
  BY ContentsType DEF TypeOK
<1>2. Len(s) \in 0..(Size - 1) - CountOf(beg, end)
  BY RoomFacts, SizeAssumption DEF TypeOK, fifo_avail
<1>3. s \in [1..Len(s) -> Byte]
  OBVIOUS
<1> QED BY <1>1, <1>2, <1>3 DEF Queue!Fitting

\* A routine that stores a block behind the contents and moves end is Put.
LEMMA PutStep ==
  ASSUME TypeOK, NEW s \in Seq(Byte), Len(s) <= fifo_avail,
         buf' = Store(buf, end, s), end' = (end + Len(s)) % Size, beg' = beg, moved' = s
  PROVE  TypeOK' /\ Queue!QNext
<1>1. /\ end' \in Index /\ buf' \in [Index -> Byte]
      /\ Contents(buf', beg', end') = Contents(buf, beg, end) \o s
  BY ZenonT(60), AppendContents DEF TypeOK, fifo_avail
<1>2. TypeOK'
  BY <1>1 DEF TypeOK
<1> QED BY <1>1, <1>2, FittingFacts DEF Queue!QNext, Queue!Put

\* fifo_unsafe_prepend is PutFront.
LEMMA PutFrontStep ==
  ASSUME TypeOK, NEW s \in Seq(Byte), Len(s) <= fifo_avail,
         fifo_unsafe_prepend(s)
  PROVE  TypeOK' /\ Queue!QNext
<1>1. Len(s) \in 0..Size - 1 /\ Len(s) < Size
  BY RoomFacts, SizeAssumption DEF TypeOK, fifo_avail
<1>2. beg' \in Index /\ buf' \in [Index -> Byte]
  BY <1>1, StoreBeforeAt DEF TypeOK, fifo_unsafe_prepend
<1>3. Contents(buf', beg', end') = s \o Contents(buf, beg, end)
  BY PrependContents DEF TypeOK, fifo_avail, fifo_unsafe_prepend
<1>4. TypeOK'
  BY <1>2 DEF TypeOK, fifo_unsafe_prepend
<1> QED BY <1>3, <1>4, FittingFacts DEF Queue!QNext, Queue!PutFront, fifo_unsafe_prepend

\* A routine that hands out the oldest n bytes and steps beg over them is Take.
LEMMA TakeStep ==
  ASSUME TypeOK, NEW n \in 0..fifo_count, moved' \in Seq(Byte), Len(moved') = n,
         \A i \in 1..n : moved'[i] = buf[Place(beg, i)],
         beg' = (beg + n) % Size, buf' = buf, end' = end
  PROVE  TypeOK' /\ Queue!QNext
<1>1. n \in 0..Size /\ n \in 0..CountOf(beg, end)
  BY CountFacts, SizeAssumption DEF TypeOK, fifo_count
<1>2. beg' \in Index
  BY <1>1, Wrap DEF TypeOK
<1>3. /\ moved' = SubSeq(Contents(buf, beg, end), 1, n)
      /\ Contents(buf, beg', end) =
           SubSeq(Contents(buf, beg, end), n + 1, Len(Contents(buf, beg, end)))
  BY SMTT(30), <1>1, <1>2, TakeContents DEF TypeOK
<1>4. n \in 0..Len(Contents(buf, beg, end))
  BY <1>1, ContentsType DEF TypeOK
<1>5. TypeOK'
  BY <1>2 DEF TypeOK
<1> QED BY <1>3, <1>4, <1>5 DEF Queue!QNext, Queue!Take

\* fifo_init makes an empty queue.
LEMMA InitFacts == Init => TypeOK /\ Queue!QInit
<1> SUFFICES ASSUME Init PROVE TypeOK /\ Queue!QInit
  OBVIOUS
<1>1. 0 \in Index
  BY SizeAssumption DEF Index
<1>2. TypeOK
  BY <1>1 DEF Init, fifo_init, TypeOK
<1>3. CountOf(beg, end) = 0
  BY <1>1, CountFacts DEF Init, fifo_init
<1>4. Contents(buf, beg, end) \in Seq(Byte) /\ Len(Contents(buf, beg, end)) = 0
  BY <1>2, <1>3, ContentsType DEF TypeOK
<1> QED BY <1>2, <1>4 DEF Queue!QInit, Init, fifo_init

\* Every routine keeps the indices inside the array and is a step of the abstract queue.
LEMMA StepFacts == TypeOK /\ [Next]_vars => TypeOK' /\ [Queue!QNext]_(Queue!qvars)
<1> SUFFICES ASSUME TypeOK, [Next]_vars
             PROVE  TypeOK' /\ [Queue!QNext]_(Queue!qvars)
  OBVIOUS
<1>0. /\ buf \in [Index -> Byte] /\ beg \in Index /\ end \in Index
      /\ fifo_avail = Size - 1 - fifo_count /\ fifo_count \in 0..Size - 1
      /\ fifo_count = IF beg <= end THEN end - beg ELSE Size + end - beg
      /\ beg \in 0..Size - 1 /\ end \in 0..Size - 1
  BY CountFacts DEF TypeOK, fifo_avail, fifo_count, Index
<1>1. CASE fifo_clear
  <2>1. 0 \in Index
    BY SizeAssumption DEF Index
  <2>2. CountOf(0, 0) = 0
    BY <2>1, CountFacts
  <2>3. Contents(buf, 0, 0) \in Seq(Byte) /\ Len(Contents(buf, 0, 0)) = 0
    BY <1>0, <2>1, <2>2, ContentsType
  <2>4. Contents(buf', beg', end') = <<>>
    BY <1>1, <2>3 DEF fifo_clear
  <2>5. TypeOK'
    BY <1>0, <1>1, <2>1 DEF fifo_clear, TypeOK
  <2> QED BY <1>1, <2>4, <2>5 DEF Queue!QNext, Queue!Discard, fifo_clear
<1>2. ASSUME NEW c \in Byte, fifo_unsafe_addchar(c)
      PROVE  TypeOK' /\ Queue!QNext
  <2> DEFINE s == <<c>>
  <2>1. s \in Seq(Byte) /\ Len(s) = 1 /\ s[1] = c
    OBVIOUS
  <2> HIDE DEF s
  <2>2. Len(s) <= fifo_avail /\ Len(s) < Size
    BY <1>0, <1>2, <2>1, SizeAssumption DEF fifo_unsafe_addchar
  <2>3. end' = (end + Len(s)) % Size
    <3>1. 1 \in 0..Size
      BY SizeAssumption
    <3>2. (end + 1) % Size = IF end + 1 < Size THEN end + 1 ELSE end + 1 - Size
      BY <1>0, <3>1, Wrap
    <3> QED BY <1>0, <1>2, <2>1, <3>2, SizeAssumption DEF fifo_unsafe_addchar
  <2>4. \A j \in Index :
          Store(buf, end, s)[j] = IF j >= end /\ j - end < Len(s) THEN s[j - end + 1]
                                  ELSE IF j < end /\ j + Size - end < Len(s) THEN s[j + Size - end + 1]
                                  ELSE buf[j]
    BY <1>0, <2>1, <2>2, StoreAt
  <2>5. ASSUME NEW j \in Index
        PROVE  Store(buf, end, s)[j] = [buf EXCEPT ![end] = c][j]
    <3>1. CASE j = end
      <4>1. j >= end /\ j - end < Len(s) /\ j - end + 1 = 1
        BY <1>0, <2>1, <3>1
      <4>2. Store(buf, end, s)[j] = s[j - end + 1]
        BY <2>4, <4>1
      <4> QED BY <1>0, <2>1, <3>1, <4>1, <4>2
    <3>2. CASE j # end
      <4>1. ~(j >= end /\ j - end < Len(s)) /\ ~(j < end /\ j + Size - end < Len(s))
        BY <1>0, <2>1, <3>2, SizeAssumption DEF Index
      <4>2. Store(buf, end, s)[j] = buf[j]
        BY <2>4, <4>1
      <4> QED BY <1>0, <3>2, <4>2
    <3> QED BY <3>1, <3>2
  <2>6. buf' = Store(buf, end, s)
    <3>1. Store(buf, end, s) \in [Index -> Byte]
      BY <1>0, <2>1, <2>2, StoreAt
    <3> QED BY <1>0, <1>2, <2>5, <3>1 DEF fifo_unsafe_addchar
  <2>7. moved' = s /\ beg' = beg
    BY <1>2 DEF fifo_unsafe_addchar, s
  <2> QED BY <2>1, <2>2, <2>3, <2>6, <2>7, PutStep
<1>3. CASE fifo_unsafe_getchar
  <2>1. 1 \in 0..fifo_count /\ 1 \in 0..Size /\ Place(beg, 1) = beg
    BY <1>0, <1>3, SizeAssumption DEF fifo_unsafe_getchar, Place
  <2>2. (beg + 1) % Size = IF beg + 1 < Size THEN beg + 1 ELSE beg + 1 - Size
    BY <1>0, <2>1, Wrap
  <2>3. beg' = (beg + 1) % Size
    BY <1>0, <1>3, <2>2, SizeAssumption DEF fifo_unsafe_getchar
  <2>4. moved' \in Seq(Byte) /\ Len(moved') = 1 /\ moved'[1] = buf[beg]
    BY <1>0, <1>3 DEF fifo_unsafe_getchar
  <2>5. \A i \in 1..1 : moved'[i] = buf[Place(beg, i)]
    BY <2>1, <2>4
  <2> QED BY <1>3, <2>1, <2>3, <2>4, <2>5, TakeStep DEF fifo_unsafe_getchar
<1>4. ASSUME NEW s \in Block, fifo_unsafe_append(s)
      PROVE  TypeOK' /\ Queue!QNext
  BY <1>4, BlockFacts, PutStep DEF fifo_unsafe_append
<1>5. ASSUME NEW s \in Block, fifo_unsafe_prepend(s)
      PROVE  TypeOK' /\ Queue!QNext
  BY <1>5, BlockFacts, PutFrontStep DEF fifo_unsafe_prepend
<1>6. ASSUME NEW n \in 0..Size - 1, fifo_unsafe_unpend(n)
      PROVE  TypeOK' /\ Queue!QNext
  <2>1. n \in 0..fifo_count
    BY <1>0, <1>6 DEF fifo_unsafe_unpend
  <2>2. /\ moved' \in Seq(Byte) /\ Len(moved') = n
        /\ \A i \in 1..n : moved'[i] = buf[Place(beg, i)]
    BY <1>0, <1>6, LoadFacts DEF fifo_unsafe_unpend
  <2> QED BY <1>6, <2>1, <2>2, TakeStep DEF fifo_unsafe_unpend
<1>7. ASSUME NEW s \in Block, fifo_read(s)
      PROVE  TypeOK' /\ Queue!QNext
  BY <1>4, <1>7 DEF fifo_read
<1>8. CASE fifo_write
  <2>1. CASE beg < end
    <3>1. PICK k \in 0..end - beg : beg' = beg + k /\ moved' = Region(buf, beg, k)
      BY <1>0, <1>8, <2>1 DEF fifo_write
    <3>2. k \in 0..fifo_count /\ k \in 0..Size - beg /\ k \in 0..Size /\ beg + k < Size
      BY <1>0, <2>1, SizeAssumption
    <3>3. beg' = (beg + k) % Size
      BY <1>0, <3>1, <3>2, Wrap
    <3>4. /\ moved' \in Seq(Byte) /\ Len(moved') = k
          /\ \A i \in 1..k : moved'[i] = buf[Place(beg, i)]
      BY <1>0, <3>1, <3>2, RegionFacts
    <3> QED BY <1>8, <3>2, <3>3, <3>4, TakeStep DEF fifo_write
  <2>2. CASE beg > end
    <3>1. PICK k \in 0..Size - beg :
            IF beg + k < Size
            THEN beg' = beg + k /\ moved' = Region(buf, beg, k)
            ELSE \E m \in 0..end :
                   beg' = m /\ moved' = Region(buf, beg, k) \o Region(buf, 0, m)
      <4>1. ~(beg < end) /\ beg # end
        BY <1>0, <2>2
      <4> QED BY <1>8, <4>1 DEF fifo_write
    <3>2. CASE beg + k < Size
      <4>1. k \in 0..fifo_count /\ k \in 0..Size
        <5>1. fifo_count = Size + end - beg
          BY <1>0, <2>2
        <5> QED BY <1>0, <5>1, <2>2, <3>2, SizeAssumption
      <4>2. beg' = (beg + k) % Size
        BY <1>0, <3>1, <3>2, <4>1, Wrap
      <4>3. /\ moved' \in Seq(Byte) /\ Len(moved') = k
            /\ \A i \in 1..k : moved'[i] = buf[Place(beg, i)]
        BY <1>0, <3>1, <3>2, RegionFacts
      <4> QED BY <1>8, <4>1, <4>2, <4>3, TakeStep DEF fifo_write
    <3>3. CASE ~(beg + k < Size)
      <4>1. k = Size - beg
        BY <1>0, <3>3, SizeAssumption
      <4>2. PICK m \in 0..end :
              beg' = m /\ moved' = Region(buf, beg, Size - beg) \o Region(buf, 0, m)
        BY <3>1, <3>3, <4>1
      <4> DEFINE n == Size - beg + m
      <4>3. m \in 0..beg /\ n \in 0..fifo_count /\ n \in 0..Size /\ beg + n - Size = m /\ ~(beg + n < Size)
        <5>1. fifo_count = Size + end - beg
          BY <1>0, <2>2
        <5> QED BY <1>0, <5>1, <2>2, <4>2, SizeAssumption
      <4>4. /\ moved' \in Seq(Byte) /\ Len(moved') = n
            /\ \A i \in 1..n : moved'[i] = buf[Place(beg, i)]
        BY <1>0, <4>2, <4>3, JoinFacts
      <4> HIDE DEF n
      <4>5. beg' = (beg + n) % Size
        BY <1>0, <4>2, <4>3, Wrap
      <4> QED BY <1>8, <4>3, <4>4, <4>5, TakeStep DEF fifo_write
    <3> QED BY <3>2, <3>3
  <2>3. CASE beg = end /\ UNCHANGED beg /\ moved' = <<>>
    <3>1. 0 \in 0..fifo_count /\ 0 \in 0..Size /\ (beg + 0) % Size = beg
      BY <1>0, Wrap, SizeAssumption
    <3> QED BY <1>8, <2>3, <3>1, TakeStep DEF fifo_write
  <2> QED BY <1>8, <2>1, <2>2, <2>3 DEF fifo_write
<1>9. CASE UNCHANGED vars
  BY <1>9 DEF vars, TypeOK, Queue!qvars, Contents, CountOf, Index
<1> QED BY <1>1, <1>2, <1>3, <1>4, <1>5, <1>6, <1>7, <1>8, <1>9 DEF Next

-----------------------------------------------------------------------------
(***************************************************************************)
(* The indices and the array stay well-formed: no routine of fifo.c leaves *)
(* beg or end outside the array.                                           *)
(***************************************************************************)
THEOREM FifoTypeOK == Spec => []TypeOK
<1>1. Init => TypeOK
  BY InitFacts
<1>2. TypeOK /\ [Next]_vars => TypeOK'
  BY StepFacts
<1> QED BY <1>1, <1>2, PTL DEF Spec

(***************************************************************************)
(* fifo.c implements the bounded queue: whatever the array size, and       *)
(* wherever in the array a block falls, every routine does to the bytes    *)
(* held what its description in fifo.h says and to no other byte.          *)
(***************************************************************************)
THEOREM FifoImplementsQueue == Spec => ImplementsQueue
<1>1. Init => TypeOK /\ Queue!QInit
  BY InitFacts
<1>2. TypeOK /\ [Next]_vars => TypeOK' /\ [Queue!QNext]_(Queue!qvars)
  BY StepFacts
<1> QED BY <1>1, <1>2, PTL DEF Spec, ImplementsQueue, Queue!QSpec
=============================================================================
