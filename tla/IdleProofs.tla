---------------------------- MODULE IdleProofs ----------------------------
(***************************************************************************)
(* The pace of the status line, for every sleeptime and fuzztime: the loop *)
(* never sleeps past the moment at which the line is due, whatever the     *)
(* calls in between were answered.  And that the line is true, for every   *)
(* width of an int and of the window.                                      *)
(***************************************************************************)
EXTENDS Idle, TLAPS

\* The clock, the deadline of select() and the time of the last line.
Times ==
  /\ now \in Nat /\ wake \in Nat /\ now <= wake
  /\ last_time \in Nat \union {NULL}
  /\ last_time # NULL => last_time <= now /\ wake <= last_time + sleeptime

\* What Pace says of one step.
PaceStep ==
  /\ last_time # NULL /\ last_time' # last_time =>
       last_time' - last_time \in sleeptime - fuzztime..sleeptime
  /\ ~ended' /\ last_time' # NULL => now' - last_time' <= sleeptime

\* No time has passed when the transfer begins.
LEMMA InitTimes == Init => Times
BY DEF Init, Times

\* Every step keeps the deadline within sleeptime of the last line.
LEMMA NextTimes == Times /\ [Next]_vars => Times'
<1> SUFFICES ASSUME Times, [Next]_vars PROVE Times'
  OBVIOUS
<1>0. sleeptime \in Nat /\ fuzztime \in Nat /\ fuzztime < sleeptime /\ NULL \notin Int
  BY IdleAssumption
<1> USE <1>0 DEF Times
<1>1. CASE Clock
  BY <1>1 DEF Clock
<1>2. CASE window_resize
  BY <1>2 DEF window_resize
<1>3. CASE idle_proc
  <2>1. CASE Due
    BY <1>3, <2>1 DEF idle_proc
  <2>2. CASE ~Due
    BY <1>3, <2>2 DEF idle_proc, Due, Rest
  <2> QED
    BY <2>1, <2>2
<1>4. CASE idle_end
  BY <1>4 DEF idle_end
<1>5. ASSUME NEW p \in Pipe, pipe_fifo_write(p) PROVE Times'
  BY <1>5 DEF pipe_fifo_write
<1>6. CASE UNCHANGED vars
  BY <1>6 DEF vars
<1> QED
  BY <1>1, <1>2, <1>3, <1>4, <1>5, <1>6 DEF Next

\* A line is written only when it is due, and never later than that.
LEMMA StepPace == Times /\ Times' /\ [Next]_vars => [PaceStep]_vars
<1> SUFFICES ASSUME Times, Times', Next PROVE PaceStep
  OBVIOUS
<1>0. sleeptime \in Nat /\ fuzztime \in Nat /\ fuzztime < sleeptime /\ NULL \notin Int
  BY IdleAssumption
<1>1. ~ended' /\ last_time' # NULL => now' - last_time' <= sleeptime
  <2>1. now' \in Nat /\ wake' \in Nat /\ now' <= wake'
    BY DEF Times
  <2>2. ASSUME last_time' # NULL PROVE now' - last_time' <= sleeptime
    <3>1. last_time' \in Nat /\ wake' <= last_time' + sleeptime
      BY <2>2 DEF Times
    <3>2. sleeptime \in Nat
      BY <1>0
    <3> DEFINE a == now'
               b == wake'
               c == last_time'
    <3>3. a \in Nat /\ b \in Nat /\ c \in Nat /\ a <= b /\ b <= c + sleeptime
      BY <2>1, <3>1
    <3> HIDE DEF a, b, c
    <3>4. a - c <= sleeptime
      BY <3>2, <3>3
    <3> QED BY <3>4 DEF a, c
  <2> QED BY <2>2
<1>2. ASSUME last_time # NULL, last_time' # last_time
      PROVE  last_time' - last_time \in sleeptime - fuzztime..sleeptime
  <2>1. idle_proc /\ Due
    BY <1>2 DEF Next, Clock, window_resize, idle_proc, idle_end, pipe_fifo_write
  <2>2. last_time' = now /\ sleeptime - (now - last_time) <= fuzztime
    BY <1>2, <2>1 DEF idle_proc, Due
  <2>3. last_time \in Nat /\ last_time <= now /\ now \in Nat /\ wake \in Nat /\ now <= wake
        /\ wake <= last_time + sleeptime
    BY <1>0, <1>2 DEF Times
  <2> QED
    BY <1>0, <2>2, <2>3
<1> QED
  BY <1>1, <1>2 DEF PaceStep

(***************************************************************************)
(* idle.c:207: at least sleeptime - fuzztime and at most sleeptime pass    *)
(* from one line to the next.                                              *)
(***************************************************************************)
THEOREM IdlePace == Spec => Pace
<1>1. Init => Times
  BY InitTimes
<1>2. Times /\ [Next]_vars => Times'
  BY NextTimes
<1>3. Times /\ Times' /\ [Next]_vars => [PaceStep]_vars
  BY StepPace
<1>4. Spec => [][PaceStep]_vars
  BY <1>1, <1>2, <1>3, PTL DEF Spec
<1> QED
  BY <1>4 DEF Pace, PaceStep

-----------------------------------------------------------------------------
(***************************************************************************)
(* Quotients and remainders.                                               *)
(***************************************************************************)
LEMMA Divided ==
  ASSUME NEW d \in Nat \ {0}, NEW n \in Int
  PROVE  n \div d \in Int /\ n % d \in 0..d - 1 /\ n = d * (n \div d) + (n % d)
<1>1. n \div d \in Int /\ n % d \in 0..d - 1 /\ n % d = n - d * (n \div d)
  OBVIOUS
<1> DEFINE q == n \div d
           r == n % d
<1>2. q \in Int /\ r \in Int /\ d * q \in Int /\ r = n - d * q
  BY <1>1
<1> HIDE DEF q, r
<1>3. n = d * q + r
  BY <1>2
<1> QED BY <1>1, <1>3 DEF q, r

LEMMA OneQuotient ==
  ASSUME NEW d \in Nat \ {0}, NEW a \in Int, NEW b \in Int, NEW r \in 0..d - 1, NEW q \in 0..d - 1,
         d * a + r = d * b + q
  PROVE  a = b /\ r = q
<1>1. ASSUME NEW x \in Int, NEW y \in Int, x < y PROVE d * x + d <= d * y
  <2>1. x + 1 <= y /\ d > 0
    BY <1>1
  <2>2. d * (x + 1) <= d * y
    BY <2>1
  <2>3. d * (x + 1) = d * x + d
    OBVIOUS
  <2> QED BY <2>2, <2>3
<1>2. d * a \in Int /\ d * b \in Int
  OBVIOUS
<1>3. ~(a < b) /\ ~(b < a)
  <2>1. CASE a < b
    <3>1. d * a + d <= d * b
      BY <1>1, <2>1
    <3> QED BY <1>2, <3>1
  <2>2. CASE b < a
    <3>1. d * b + d <= d * a
      BY <1>1, <2>2
    <3> QED BY <1>2, <3>1
  <2> QED BY <2>1, <2>2
<1>4. a = b
  BY <1>3
<1> QED BY <1>2, <1>4

\* To divide by one number and then by another is to divide by their product.
LEMMA Nested ==
  ASSUME NEW n \in Nat, NEW a \in Nat \ {0}, NEW b \in Nat \ {0}
  PROVE  n \div (a * b) = (n \div a) \div b
<1> DEFINE q == n \div a
           r == n % a
           u == q \div b
           v == q % b
           w == n \div (a * b)
           x == n % (a * b)
<1>1. q \in Int /\ r \in 0..a - 1 /\ n = a * q + r
  BY Divided
<1>2. u \in Int /\ v \in 0..b - 1 /\ q = b * u + v
  <2> HIDE DEF q
  <2> QED BY <1>1, Divided
<1>3. a * b \in Nat \ {0}
  OBVIOUS
<1>4. w \in Int /\ x \in 0..a * b - 1 /\ n = (a * b) * w + x
  <2> DEFINE c == a * b
  <2>1. c \in Nat \ {0} /\ n \in Int
    BY <1>3
  <2> HIDE DEF c
  <2>2. n \div c \in Int /\ n % c \in 0..c - 1 /\ n = c * (n \div c) + (n % c)
    BY <2>1, Divided
  <2> QED BY <2>2 DEF c
<1> HIDE DEF q, r, u, v, w, x
<1>5. n = (a * b) * u + (a * v + r)
  <2>1. a * (b * u + v) + r = (a * b) * u + (a * v + r)
    BY <1>1, <1>2
  <2> QED BY <1>1, <1>2, <2>1
<1>6. a * v + r \in 0..a * b - 1
  <2>1. v >= 0 /\ v <= b - 1 /\ a > 0 /\ r >= 0 /\ r <= a - 1
    BY <1>1, <1>2
  <2>2. a * v <= a * (b - 1) /\ a * v >= 0
    BY <1>2, <2>1
  <2>3. a * (b - 1) = a * b - a
    OBVIOUS
  <2>4. a * v \in Int /\ a * b \in Int
    BY <1>2
  <2> QED BY <1>1, <2>1, <2>2, <2>3, <2>4
<1>7. w = u
  BY <1>3, <1>4, <1>2, <1>5, <1>6, OneQuotient
<1> QED BY <1>7 DEF w, u, q

-----------------------------------------------------------------------------
\* What does not fit in an int is off by whole rounds of it; what fits is found again behind them.
LEMMA ToIntIs ==
  ASSUME NEW n \in Int
  PROVE  \E k \in Int : ToInt(n) = n + k * Ints
<1> DEFINE q == n \div Ints
           r == n % Ints
<1>1. Ints \in Nat \ {0}
  BY IdleAssumption DEF Ints
<1>2. q \in Int /\ r \in Int /\ n = Ints * q + r
  BY <1>1, Divided
<1>3. ToInt(n) = IF r > IntMax THEN r - Ints ELSE r
  BY DEF ToInt
<1> HIDE DEF q, r
<1>4. Ints * q = q * Ints /\ -q \in Int /\ -q - 1 \in Int
  BY <1>1, <1>2
<1>5. (-q) * Ints = -(q * Ints) /\ (-q - 1) * Ints = -(q * Ints) - Ints /\ q * Ints \in Int
  BY <1>1, <1>2
<1>6. r = n + (-q) * Ints /\ r - Ints = n + (-q - 1) * Ints
  BY <1>1, <1>2, <1>4, <1>5
<1> QED BY <1>3, <1>4, <1>6

LEMMA ToIntOf ==
  ASSUME NEW m \in 0..IntMax, NEW k \in Int
  PROVE  ToInt(m + k * Ints) = m
<1> DEFINE n == m + k * Ints
           q == n \div Ints
           r == n % Ints
<1>1. Ints \in Nat \ {0} /\ IntMax \in Nat /\ IntMax < Ints
  BY IdleAssumption DEF Ints
<1>2. n \in Int /\ n = Ints * k + m /\ m \in 0..Ints - 1
  <2>1. k * Ints \in Int /\ k * Ints = Ints * k /\ m \in Int
    BY <1>1
  <2> QED BY <1>1, <2>1
<1>3. q \in Int /\ r \in 0..Ints - 1 /\ n = Ints * q + r
  <2> HIDE DEF n
  <2> QED BY <1>1, <1>2, Divided
<1>4. ToInt(n) = IF r > IntMax THEN r - Ints ELSE r
  BY DEF ToInt
<1> HIDE DEF n, q, r
<1>5. r = m
  BY <1>1, <1>2, <1>3, OneQuotient
<1>6. ToInt(n) = m
  BY <1>1, <1>4, <1>5
<1> QED BY <1>6 DEF n

-----------------------------------------------------------------------------
\* The bytes, to the hundredth of their unit.
LEMMA BytesTrue == ASSUME NEW n \in Nat PROVE Denotes(human_bytes(n), n)
<1> DEFINE fits == {k \in 1..4 : n >= Base[k] /\ n < Base[k] * Step}
           base == Base[Min(fits)]
<1>1. CASE fits = {}
  <2>1. human_bytes(n) = [num |-> n, rem |-> 0, unit |-> 1]
    BY <1>1 DEF human_bytes
  <2> QED BY <2>1 DEF Denotes
<1>2. CASE fits # {}
  <2>1. \A k \in 1..4 : Base[k] \in Nat \ {0}
    <3>1. Step \in Nat \ {0}
      BY IdleAssumption
    <3>2. Step * Step \in Nat \ {0}
      BY <3>1
    <3>3. Step * Step * Step \in Nat \ {0}
      BY <3>1, <3>2
    <3>4. \A k \in 1..4 : k = 1 \/ k = 2 \/ k = 3 \/ k = 4
      OBVIOUS
    <3> QED BY <3>1, <3>2, <3>3, <3>4 DEF Base
  <2>2. Min(fits) \in fits
    <3> DEFINE Low(k) == k \in fits /\ \A j \in fits : k <= j
    <3>1. \A k \in fits : k = 1 \/ k = 2 \/ k = 3 \/ k = 4
      OBVIOUS
    <3>2. \E k \in fits : k = 1 \/ (k = 2 /\ 1 \notin fits) \/ (k = 3 /\ 1 \notin fits /\ 2 \notin fits)
                          \/ (k = 4 /\ 1 \notin fits /\ 2 \notin fits /\ 3 \notin fits)
      <4> HIDE DEF fits
      <4> QED BY <1>2, <3>1
    <3>3. \E k \in fits : \A j \in fits : k <= j
      <4> HIDE DEF fits
      <4> QED BY <3>1, <3>2
    <3> HIDE DEF fits
    <3> QED BY <3>3 DEF Min
  <2>3. base \in Nat \ {0}
    <3> DEFINE k == Min(fits)
    <3>1. k \in 1..4
      BY <2>2
    <3> HIDE DEF k
    <3>2. Base[k] \in Nat \ {0}
      BY <2>1, <3>1
    <3> QED BY <3>2 DEF k
  <2>4. human_bytes(n) = [num |-> n \div base, rem |-> ((n * 100) \div base) % 100, unit |-> base]
    BY <1>2 DEF human_bytes
  <2> HIDE DEF base
  <2> DEFINE q == n \div base
             r == n % base
             h == (n * 100) \div base
             s == (n * 100) % base
  <2>5. q \in Int /\ r \in 0..base - 1 /\ n = base * q + r
    BY <2>3, Divided
  <2>6. h \in Int /\ s \in 0..base - 1 /\ n * 100 = base * h + s
    BY <2>3, Divided
  <2>7. h % 100 \in 0..99 /\ h = 100 * (h \div 100) + (h % 100) /\ h \div 100 \in Int
    <3> HIDE DEF h
    <3> QED BY <2>6, Divided
  <2>8. h \div 100 = q
    <3>1. (n * 100) \div (base * 100) = h \div 100
      <4> DEFINE N == n * 100
      <4>1. N \in Nat /\ 100 \in Nat \ {0}
        OBVIOUS
      <4> HIDE DEF N
      <4>2. N \div (base * 100) = (N \div base) \div 100
        BY <2>3, <4>1, Nested
      <4> QED BY <4>2 DEF N
    <3>2. n * 100 = (base * 100) * q + r * 100
      <4> HIDE DEF q, r
      <4>1. (base * q + r) * 100 = (base * 100) * q + r * 100
        BY <2>3, <2>5
      <4> QED BY <2>5, <4>1
    <3> DEFINE b == base * 100
               N == n * 100
               x == r * 100
    <3>3. b \in Nat \ {0} /\ N \in Int
      BY <2>3
    <3>4. x \in 0..b - 1
      <4> HIDE DEF r
      <4> QED BY <2>3, <2>5
    <3>5. N \div b \in Int /\ N % b \in 0..b - 1 /\ N = b * (N \div b) + (N % b)
      <4> HIDE DEF N, b
      <4> QED BY <3>3, Divided
    <3>6. N \div b = q
      <4>1. N = b * q + x
        BY <3>2
      <4> DEFINE u == N \div b
                 v == N % b
      <4>2. u \in Int /\ v \in 0..b - 1 /\ N = b * u + v
        BY <3>5
      <4> HIDE DEF N, b, x, q, u, v
      <4>3. b * u + v = b * q + x
        BY <4>1, <4>2
      <4>4. u = q
        BY <2>5, <3>3, <3>4, <4>2, <4>3, OneQuotient
      <4> QED BY <4>4 DEF u
    <3>7. (n * 100) \div (base * 100) = q
      BY <3>6
    <3> HIDE DEF q, h
    <3> QED BY <3>1, <3>7
  <2> DEFINE p == h % 100
  <2>9. 100 * q + p = h
    BY <2>7, <2>8
  <2>10. h * base <= 100 * n /\ 100 * n < (h + 1) * base
    <3> HIDE DEF h, s, q
    <3>1. h * base = base * h /\ (h + 1) * base = base * h + base /\ base * h \in Int /\ n * 100 = 100 * n
      BY <2>3, <2>6
    <3> QED BY <2>3, <2>6, <3>1
  <2>11. human_bytes(n).num = q /\ human_bytes(n).rem = p /\ human_bytes(n).unit = base
    BY <2>4
  <2> HIDE DEF q, p, h
  <2> QED BY <2>9, <2>10, <2>11 DEF Denotes
<1> QED BY <1>1, <1>2

\* Of two numbers one is the least.
LEMMA LeastOfTwo ==
  ASSUME NEW a \in Int, NEW b \in Int
  PROVE  Min({a, b}) \in Int /\ Min({a, b}) \in {a, b} /\ Min({a, b}) <= a /\ Min({a, b}) <= b
<1>1. CASE a <= b
  <2>1. \A y \in {a, b} : a <= y
    BY <1>1
  <2> QED BY <1>1, <2>1 DEF Min
<1>2. CASE b <= a
  <2>1. \A y \in {a, b} : b <= y
    BY <1>2
  <2> QED BY <1>2, <2>1 DEF Min
<1> QED BY <1>1, <1>2

\* The \r stay inside the buffer and the window.
LEMMA PlacesTrue ==
  ASSUME NEW marks \in 1..2, ws_col \in Nat, bgio_get_window_width >= 2
  PROVE  LineLength - marks..LineLength - 1 \subseteq 0..Min({BufSize, bgio_get_window_width}) - 1
<1> DEFINE w == bgio_get_window_width
           b == BufSize - 1
           l == Min({w, b})
           m == Min({BufSize, w})
<1>1. w \in Int /\ w >= 2 /\ BufSize \in Int /\ BufSize > 2 /\ b \in Int /\ b = BufSize - 1
  BY IdleAssumption DEF bgio_get_window_width
<1>2. LineLength = l
  BY DEF LineLength
<1> HIDE DEF w, b
<1>3. l \in Int /\ l \in {w, b} /\ l <= w /\ l <= b
  BY <1>1, LeastOfTwo
<1>4. m \in Int /\ m \in {BufSize, w}
  BY <1>1, LeastOfTwo
<1> HIDE DEF l, m
<1>5. l >= 2 /\ l <= m
  BY <1>1, <1>3, <1>4
<1>6. l - marks..l - 1 \subseteq 0..m - 1
  BY <1>3, <1>4, <1>5
<1> QED BY <1>2, <1>6 DEF m, w
-----------------------------------------------------------------------------
\* The time, up to full hours and to the tenth of a second.
LEMMA TimeTrue ==
  ASSUME NEW t \in Nat
  PROVE  LET h == human_time(t)
             late == t - ((h.minutes * Sixty + h.seconds) * Second + h.tenths * Tenth)
         IN  late >= 0 /\ late % (Sixty * Sixty * Second) < Tenth
<1> DEFINE s == t \div Second
           m == s \div Sixty
           hours == m \div Sixty
           minutes == m % Sixty
           seconds == s % Sixty
           T == t \div Tenth
           tenths == T % Ten
           x == t % Tenth
           full == Sixty * Sixty * Second
           shown == (minutes * Sixty + seconds) * Second + tenths * Tenth
<1>1. Tenth \in Nat \ {0} /\ Ten \in Nat \ {0} /\ Sixty \in Nat \ {0}
  BY IdleAssumption
<1>2. Second \in Nat \ {0} /\ Second = Tenth * Ten
  BY <1>1 DEF Second
<1>3. T \in Int /\ x \in 0..Tenth - 1 /\ t = Tenth * T + x
  BY <1>1, Divided
<1>4. T \div Ten = s
  BY <1>1, <1>2, Nested
<1>5. s \in Int /\ s >= 0
  <2>0. Second \in Nat \ {0}
    BY <1>2
  <2>1. s \in Int /\ t % Second \in 0..Second - 1 /\ t = Second * s + (t % Second)
    BY <2>0, Divided
  <2> DEFINE y == t % Second
  <2> HIDE DEF s, y
  <2>2. ~(s <= -1)
    <3>1. s <= -1 => Second * s <= Second * (-1)
      BY <1>2, <2>1
    <3>2. Second * s \in Int /\ y \in 0..Second - 1 /\ t = Second * s + y
      BY <1>2, <2>1 DEF y
    <3> QED BY <1>2, <3>1, <3>2
  <2> QED BY <2>1, <2>2
<1>6. tenths \in 0..Ten - 1 /\ T = Ten * s + tenths
  <2> HIDE DEF T
  <2>1. T % Ten \in 0..Ten - 1 /\ T = Ten * (T \div Ten) + (T % Ten)
    BY <1>1, <1>3, Divided
  <2> QED BY <1>4, <2>1
<1>7. m \in Int /\ seconds \in 0..Sixty - 1 /\ s = Sixty * m + seconds
  <2> HIDE DEF s
  <2> QED BY <1>1, <1>5, Divided
<1>8. hours \in Int /\ minutes \in 0..Sixty - 1 /\ m = Sixty * hours + minutes
  <2> HIDE DEF m
  <2> QED BY <1>1, <1>7, Divided
<1>9. human_time(t) = [minutes |-> minutes, seconds |-> seconds, tenths |-> tenths]
  BY DEF human_time
<1> HIDE DEF T, m, minutes, seconds, tenths, x, hours, s
<1>10. t = full * hours + (shown + x)
  <2>1. t = Tenth * (Ten * s + tenths) + x
    BY <1>3, <1>6
  <2>2. Tenth * (Ten * s + tenths) = Second * s + tenths * Tenth
    BY <1>1, <1>2, <1>5, <1>6
  <2>3. s = Sixty * (Sixty * hours + minutes) + seconds
    BY <1>7, <1>8
  <2>4. Second * (Sixty * (Sixty * hours + minutes) + seconds)
          = full * hours + (minutes * Sixty + seconds) * Second
    BY <1>1, <1>2, <1>7, <1>8
  <2> DEFINE a == Second * s
             b == tenths * Tenth
             c == full * hours
             d == (minutes * Sixty + seconds) * Second
  <2>5. a \in Int /\ b \in Int /\ c \in Int /\ d \in Int
    BY <1>1, <1>2, <1>5, <1>6, <1>7, <1>8
  <2>6. t = (a + b) + x /\ a = c + d
    BY <2>1, <2>2, <2>3, <2>4
  <2> HIDE DEF a, b, c, d
  <2>7. t = c + ((d + b) + x)
    BY <1>3, <2>5, <2>6
  <2> QED BY <2>7 DEF b, c, d
<1>11. hours >= 0
  <2>1. m >= 0
    <3>1. m <= -1 => Sixty * m <= Sixty * (-1)
      BY <1>1, <1>7
    <3>2. Sixty * m \in Int
      BY <1>1, <1>7
    <3> QED BY <1>1, <1>5, <1>7, <3>1, <3>2
  <2>2. hours <= -1 => Sixty * hours <= Sixty * (-1)
    BY <1>1, <1>8
  <2>3. Sixty * hours \in Int
    BY <1>1, <1>8
  <2> QED BY <1>1, <1>7, <1>8, <2>1, <2>2, <2>3
<1>12. full \in Nat \ {0} /\ Tenth <= full /\ full * hours >= 0 /\ full * hours \in Int /\ shown \in Int
  <2>1. Sixty * Sixty \in Nat \ {0}
    BY <1>1
  <2>2. Ten * (Sixty * Sixty) \in Nat \ {0}
    BY <1>1, <2>1
  <2> DEFINE k == Ten * (Sixty * Sixty)
  <2>3. full = Tenth * k
    BY <1>1, <1>2
  <2> HIDE DEF k, full
  <2>4. k \in Nat \ {0}
    BY <2>2 DEF k
  <2>5. Tenth * 1 <= Tenth * k
    BY <1>1, <2>4
  <2>6. full \in Nat \ {0} /\ Tenth <= full
    BY <1>1, <2>3, <2>4, <2>5
  <2>7. full * hours >= 0 /\ full * hours \in Int
    BY <1>8, <1>11, <2>6
  <2>8. shown \in Int
    BY <1>1, <1>2, <1>6, <1>7, <1>8
  <2> QED BY <2>6, <2>7, <2>8
<1> DEFINE late == t - shown
<1>13. late = full * hours + x /\ late \in Int
  <2> DEFINE c == full * hours
  <2>1. c \in Int /\ shown \in Int /\ x \in Int /\ t = c + (shown + x)
    BY <1>3, <1>10, <1>12
  <2> HIDE DEF c, shown
  <2>2. t - shown = c + x
    BY <2>1
  <2> QED BY <2>1, <2>2 DEF c
<1> HIDE DEF full, late
<1>14. late >= 0
  BY <1>3, <1>12, <1>13
<1>15. late % full = x
  <2>1. late \div full \in Int /\ late % full \in 0..full - 1 /\ late = full * (late \div full) + (late % full)
    BY <1>12, <1>13, Divided
  <2>2. x \in 0..full - 1
    BY <1>1, <1>3, <1>12
  <2> DEFINE u == late \div full
             v == late % full
  <2>3. u \in Int /\ v \in 0..full - 1 /\ full * u + v = full * hours + x
    BY <1>13, <2>1
  <2> HIDE DEF u, v
  <2>4. v = x
    BY <1>8, <1>12, <2>2, <2>3, OneQuotient
  <2> QED BY <2>4 DEF v
<1>16. late >= 0 /\ late % full < Tenth
  BY <1>1, <1>3, <1>14, <1>15
<1>17. /\ human_time(t).minutes = minutes /\ human_time(t).seconds = seconds
       /\ human_time(t).tenths = tenths
  BY <1>9
<1> QED BY <1>16, <1>17 DEF late, full

-----------------------------------------------------------------------------
(***************************************************************************)
(* What is counted since the transfer began, but for whole rounds of the   *)
(* counter, is what went through the pipe; and the last line was true.     *)
(***************************************************************************)
Told ==
  /\ now \in Nat /\ start_time = 0 /\ ws_col \in Nat
  /\ moved \in [Pipe -> Nat] /\ bytes_written \in [Pipe -> Int] /\ start_count \in [Pipe -> Int]
  /\ \A p \in Pipe : \E k \in Int : bytes_written[p] - start_count[p] = moved[p] + k * Ints
  /\ LineTrue

\* A line is true when it is written.
LEMMA LineIsTrue ==
  ASSUME Told, NEW marks \in 1..2, line' = Line(marks), UNCHANGED start_time
  PROVE  LineTrue'
<1> DEFINE l == Line(marks)
<1>1. /\ l.count = [p \in Pipe |-> human_bytes(Count(p))] /\ l.time = human_time(now - start_time)
      /\ l.places = LineLength - marks..LineLength - 1 /\ l.moved = moved /\ l.at = now
      /\ l.width = bgio_get_window_width
  BY DEF Line
<1>2. ASSUME NEW p \in Pipe, l.moved[p] <= IntMax PROVE Denotes(l.count[p], l.moved[p])
  <2>1. moved[p] \in 0..IntMax /\ moved[p] \in Nat
    BY <1>1, <1>2, IdleAssumption DEF Told
  <2>2. PICK k \in Int : bytes_written[p] - start_count[p] = moved[p] + k * Ints
    BY DEF Told
  <2>3. Count(p) = moved[p]
    BY <2>1, <2>2, ToIntOf DEF Count
  <2>4. Denotes(human_bytes(moved[p]), moved[p])
    BY <2>1, BytesTrue
  <2>5. l.count[p] = human_bytes(moved[p])
    BY <1>1, <2>3
  <2> QED BY <1>1, <2>4, <2>5
<1>3. LET t == l.time
          shown == (t.minutes * Sixty + t.seconds) * Second + t.tenths * Tenth
          late == l.at - start_time - shown
      IN  late >= 0 /\ late % (Sixty * Sixty * Second) < Tenth
  <2>1. now - start_time = now /\ now \in Nat
    BY DEF Told
  <2> QED BY <1>1, <2>1, TimeTrue
<1>4. l.width >= 2 => l.places \subseteq 0..Min({BufSize, l.width}) - 1
  BY <1>1, PlacesTrue DEF Told
<1> HIDE DEF l
<1>5. line' = l /\ start_time' = start_time
  BY DEF l
<1> QED BY <1>2, <1>3, <1>4, <1>5 DEF LineTrue

\* A line stays as true as it was.
LEMMA LineStays == ASSUME LineTrue, UNCHANGED <<line, start_time>> PROVE LineTrue'
BY DEF LineTrue

LEMMA NextTold == Told /\ [Next]_vars => Told'
<1> SUFFICES ASSUME Told, [Next]_vars PROVE Told'
  OBVIOUS
<1>1. CASE Clock
  BY <1>1, LineStays DEF Clock, Told
<1>2. CASE window_resize
  <2>1. ws_col' \in Nat
    BY <1>2, IdleAssumption DEF window_resize
  <2> QED BY <1>2, <2>1, LineStays DEF window_resize, Told
<1>3. CASE idle_proc
  <2>1. LineTrue'
    <3>1. CASE Due
      <4>1. line' = Line(1) /\ start_time' = start_time
        BY <1>3, <3>1 DEF idle_proc
      <4> QED BY <4>1, LineIsTrue
    <3>2. CASE ~Due
      BY <1>3, <3>2, LineStays DEF idle_proc, Told
    <3> QED BY <3>1, <3>2
  <2> QED BY <1>3, <2>1 DEF idle_proc, Told
<1>4. CASE idle_end
  <2>1. line' = Line(2) /\ start_time' = start_time
    BY <1>4 DEF idle_end
  <2>2. LineTrue'
    BY <2>1, LineIsTrue
  <2> QED BY <1>4, <2>2 DEF idle_end, Told
<1>5. ASSUME NEW p \in Pipe, pipe_fifo_write(p) PROVE Told'
  <2>1. PICK cnt \in Chunks : /\ bytes_written' = [bytes_written EXCEPT ![p] = ToInt(@ + cnt)]
                              /\ moved' = [moved EXCEPT ![p] = @ + cnt]
    BY <1>5 DEF pipe_fifo_write
  <2>2. cnt \in Nat /\ Ints \in Int
    BY IdleAssumption DEF Ints
  <2>3. PICK j \in Int : ToInt(bytes_written[p] + cnt) = (bytes_written[p] + cnt) + j * Ints
    <3> DEFINE n == bytes_written[p] + cnt
    <3>1. n \in Int
      BY <2>2 DEF Told
    <3> HIDE DEF n
    <3>2. \E j \in Int : ToInt(n) = n + j * Ints
      BY <3>1, ToIntIs
    <3> QED BY <3>2 DEF n
  <2>4. PICK k \in Int : bytes_written[p] - start_count[p] = moved[p] + k * Ints
    BY DEF Told
  <2>5. bytes_written[p] \in Int /\ start_count[p] \in Int /\ moved[p] \in Nat
    BY DEF Told
  <2>6. bytes_written'[p] \in Int /\ bytes_written'[p] - start_count[p] = moved'[p] + (k + j) * Ints
    <3>1. (k + j) * Ints = k * Ints + j * Ints /\ j * Ints \in Int /\ k * Ints \in Int
      BY <2>2
    <3>2. bytes_written'[p] = (bytes_written[p] + cnt) + j * Ints /\ moved'[p] = moved[p] + cnt
      BY <2>1, <2>3 DEF Told
    <3> QED BY SMTT(30), <2>2, <2>4, <2>5, <3>1, <3>2
  <2>7. moved' \in [Pipe -> Nat] /\ bytes_written' \in [Pipe -> Int]
    BY <2>1, <2>2, <2>3, <2>6 DEF Told
  <2>8. \A q \in Pipe : \E i \in Int : bytes_written'[q] - start_count[q] = moved'[q] + i * Ints
    <3> SUFFICES ASSUME NEW q \in Pipe
                 PROVE  \E i \in Int : bytes_written'[q] - start_count[q] = moved'[q] + i * Ints
      OBVIOUS
    <3>1. CASE q = p
      <4>1. k + j \in Int
        OBVIOUS
      <4> QED BY <2>6, <3>1, <4>1
    <3>2. CASE q # p
      <4>1. bytes_written'[q] = bytes_written[q] /\ moved'[q] = moved[q]
        BY <2>1, <3>2 DEF Told
      <4> QED BY <4>1 DEF Told
    <3> QED BY <3>1, <3>2
  <2> QED BY <1>5, <2>7, <2>8, LineStays DEF pipe_fifo_write, Told
<1>6. CASE UNCHANGED vars
  BY <1>6, LineStays DEF vars, Told
<1> QED BY <1>1, <1>2, <1>3, <1>4, <1>5, <1>6 DEF Next

(***************************************************************************)
(* What the line says is true when it is written (idle.c:149-177), however *)
(* often the counters have wrapped.                                        *)
(***************************************************************************)
THEOREM IdleLineTrue == Spec => []LineTrue
<1>1. Init => Told
  <2> SUFFICES ASSUME Init PROVE Told
    OBVIOUS
  <2>1. PICK n \in Earlier : bytes_written = [p \in Pipe |-> n]
    BY DEF Init
  <2>2. n \in Int /\ ws_col \in Nat /\ Ints \in Int
    BY IdleAssumption DEF Init, Ints
  <2>3. \A p \in Pipe : bytes_written[p] - start_count[p] = moved[p] + 0 * Ints
    <3>1. 0 * Ints = 0
      BY <2>2
    <3> QED BY <2>1, <2>2, <3>1 DEF Init
  <2>4. \A p \in Pipe : \E k \in Int : bytes_written[p] - start_count[p] = moved[p] + k * Ints
    <3>1. 0 \in Int
      OBVIOUS
    <3> QED BY <2>3, <3>1
  <2> QED BY <2>1, <2>2, <2>4 DEF Init, Told, LineTrue
<1>2. Told => LineTrue
  BY DEF Told
<1> QED BY <1>1, <1>2, NextTold, PTL DEF Spec
=============================================================================
