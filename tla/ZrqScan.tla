------------------------------ MODULE ZrqScan ------------------------------
(***************************************************************************)
(* zrq.c: the scanner on the echo task's output, which looks for the       *)
(* ZRQINIT header that starts a transfer ("**\030B00"), and for the "rz\r" *)
(* that may precede it, in what the shell prints.  It is a coroutine: when *)
(* a packet ends inside a header, parse_state says where to go on, and the *)
(* bytes matched so far are held back, not yet in the fifo.                *)
(*                                                                         *)
(* fifo_read hands it one packet; each turn of the coroutine over the      *)
(* packet is a step, and nothing else runs until the packet is used up.    *)
(***************************************************************************)
EXTENDS Integers, Sequences

CONSTANTS
  Byte,         \* what the shell may print
  Packets,      \* what read() may return
  Capacity,     \* bytes the fifo holds: its size less one
  MaxStream     \* bound: bytes the shell prints in all

ASSUME ZrqAssumption ==
  /\ {"r", "z", "CR", "NL", "*", "ZDLE", "B", "0"} \subseteq Byte
  /\ Packets \subseteq Seq(Byte) \ {<<>>}
  /\ Capacity \in Nat /\ MaxStream \in Nat

VARIABLES
  parse_state, gotrz, starcnt,   \* zscanstate
  input,      \* what the scanner has yet to look at (cp..ce)
  count,      \* bytes in the fifo
  phase,      \* "echo"; "rz" once the transfer started; or how the program came to grief
  passed,     \* history: what was appended to the fifo for the terminal
  announced,  \* history: the rz and the header that started the transfer
  remaining,  \* history: what followed the header in its packet
  misrouted,  \* history: bytes written to the shell, not to the terminal
  stream,     \* history: what the shell printed
  cuts,       \* history: where packets end in it
  carried     \* history: bytes held back when the packet arrived

conn == <<parse_state, gotrz, starcnt>>
traffic == <<announced, remaining, misrouted, stream, cuts, carried>>
vars == <<conn, input, count, phase, passed, traffic>>

-----------------------------------------------------------------------------
Header == <<"ZDLE", "B", "0", "0">>     \* what follows the stars
StartLength == 6                        \* "**\030B00"

Suffix(s, n) == SubSeq(s, n + 1, Len(s))
Stars(n) == [i \in 1..n |-> "*"]
Rz(g) == [RZNONE |-> <<>>,
          RZNL   |-> <<"r", "z", "NL">>,
          RZCR   |-> <<"r", "z", "CR">>,
          RZCRNL |-> <<"r", "z", "CR", "NL">>][g]

\* How much of the header parse_state stands for.
Depth == IF parse_state > 0 THEN parse_state ELSE 0

\* What the scanner has taken from the stream and would give back on a mismatch.
Held == Rz(gotrz) \o Stars(starcnt) \o SubSeq(Header, 1, Depth)

\* How many bytes at the front of s can begin neither an rz nor a header.
Garbage(s) == CHOOSE n \in 0..Len(s) :
                /\ \A i \in 1..n : s[i] \notin {"r", "*"}
                /\ n = Len(s) \/ s[n + 1] \in {"r", "*"}

LeadingStars(s) == CHOOSE n \in 0..Len(s) :
                     /\ \A i \in 1..n : s[i] = "*"
                     /\ n = Len(s) \/ s[n + 1] # "*"

\* The rz that s, which begins with an r, contains in full.
FoundRz(s) ==
  IF Len(s) >= 3 /\ s[2] = "z" /\ s[3] \in {"CR", "NL"}
  THEN IF s[3] = "NL" THEN "RZNL"
       ELSE IF Len(s) >= 4 /\ s[4] = "NL" THEN "RZCRNL" ELSE "RZCR"
  ELSE "RZNONE"

\* How many bytes of s, which begins with an r but no rz, are passed on at once.
NoRz(s) == IF Len(s) < 3 THEN Len(s) ELSE IF s[2] = "z" THEN 2 ELSE 1

-----------------------------------------------------------------------------
Init ==
  /\ parse_state = 0 /\ gotrz = "RZNONE" /\ starcnt = 0
  /\ input = <<>> /\ count = 0 /\ phase = "echo"
  /\ passed = <<>> /\ announced = <<>> /\ remaining = <<>> /\ misrouted = 0
  /\ stream = <<>> /\ cuts = {} /\ carried = 0

\* Faulty variants, here and below: a slip in the definition that follows.
RoomOneMore == Capacity + 1 - count
Room == Capacity - count

\* read() returns at most as many bytes as the fifo has room for now.
fifo_read(s) ==
  /\ phase = "echo" /\ input = <<>>
  /\ Len(s) <= Room
  /\ Len(stream) + Len(s) <= MaxStream
  /\ input' = s
  /\ stream' = stream \o s
  /\ cuts' = cuts \union {Len(stream) + Len(s)}
  /\ carried' = Len(Held)
  /\ UNCHANGED <<conn, count, phase, passed, announced, remaining, misrouted>>

fifo_write ==
  /\ phase = "echo" /\ input = <<>>
  /\ \E n \in 1..count : count' = count - n
  /\ UNCHANGED <<conn, input, phase, passed, traffic>>

\* fifo_unsafe_append looks at no limit; beyond it the fifo's contents are lost.
fifo_append(s) ==
  /\ passed' = passed \o s
  /\ IF count + Len(s) <= Capacity
     THEN count' = count + Len(s) /\ UNCHANGED phase
     ELSE count' = (count + Len(s)) % (Capacity + 1) /\ phase' = "overflow"

zscanstate_init == parse_state' = 0 /\ gotrz' = "RZNONE" /\ starcnt' = 0

-----------------------------------------------------------------------------
Scanning == phase = "echo" /\ input # <<>>

SkipGarbage ==
  /\ Scanning /\ parse_state = 0
  /\ Garbage(input) > 0
  /\ fifo_append(SubSeq(input, 1, Garbage(input)))
  /\ input' = Suffix(input, Garbage(input))
  /\ UNCHANGED <<conn, traffic>>

PassR ==
  /\ Scanning /\ parse_state = 0
  /\ input[1] = "r" /\ FoundRz(input) = "RZNONE"
  /\ fifo_append(SubSeq(input, 1, NoRz(input)))
  /\ input' = Suffix(input, NoRz(input))
  /\ UNCHANGED <<conn, traffic>>

HoldRz ==
  /\ Scanning /\ parse_state = 0
  /\ input[1] = "r" /\ FoundRz(input) # "RZNONE"
  /\ gotrz' = FoundRz(input)
  /\ input' = Suffix(input, Len(Rz(gotrz')))
  /\ parse_state' = -1
  /\ UNCHANGED <<starcnt, count, phase, passed, traffic>>

\* What was held turns out to be ordinary output.
FlushKeepState(held) == fifo_append(held) /\ parse_state' = 0 /\ UNCHANGED <<gotrz, starcnt>>

Flush(held) == fifo_append(held) /\ zscanstate_init

HoldStarsTyped ==
  /\ Scanning
  /\ parse_state = -1 \/ (parse_state = 0 /\ input[1] = "*")
  /\ LET n == LeadingStars(input)
     IN  IF n > 0 /\ (n = Len(input) \/ input[n + 1] = Header[1])
         THEN /\ starcnt' = starcnt + n
              /\ parse_state' = IF n = Len(input) THEN -1 ELSE 1
              /\ input' = Suffix(input, n + 1)
              /\ UNCHANGED <<gotrz, count, phase, passed>>
         ELSE Flush(Held \o Stars(n)) /\ input' = Suffix(input, n)
  /\ UNCHANGED traffic

\* After an rz, or where a star begins: any number of stars and the ZDLE, or nothing.
HoldStars ==
  /\ Scanning
  /\ parse_state = -1 \/ (parse_state = 0 /\ input[1] = "*")
  /\ LET n == LeadingStars(input)
     IN  IF n > 0 /\ n < Len(input) /\ input[n + 1] = Header[1]
         THEN /\ starcnt' = starcnt + n
              /\ parse_state' = 1
              /\ input' = Suffix(input, n + 1)
              /\ UNCHANGED <<gotrz, count, phase, passed>>
         ELSE Flush(Held \o Stars(n)) /\ input' = Suffix(input, n)
  /\ UNCHANGED traffic

HoldHeader ==
  /\ Scanning /\ parse_state \in {1, 2}
  /\ input[1] = Header[parse_state + 1]
  /\ parse_state' = parse_state + 1
  /\ input' = Tail(input)
  /\ UNCHANGED <<gotrz, starcnt, count, phase, passed, traffic>>

NoHeaderStarless ==
  /\ Scanning /\ parse_state \in 1..3
  /\ input[1] # Header[parse_state + 1]
  /\ Flush(Rz(gotrz) \o SubSeq(Header, 1, Depth))
  /\ UNCHANGED <<input, traffic>>

NoHeaderSkip ==
  /\ Scanning /\ parse_state \in 1..3
  /\ input[1] # Header[parse_state + 1]
  /\ Flush(Held \o <<input[1]>>)
  /\ input' = Tail(input)
  /\ UNCHANGED traffic

NoHeader ==
  /\ Scanning /\ parse_state \in 1..3
  /\ input[1] # Header[parse_state + 1]
  /\ Flush(Held)
  /\ UNCHANGED <<input, traffic>>

-----------------------------------------------------------------------------
(***************************************************************************)
(* The header is complete: zscan_start empties the fifo by writing to the  *)
(* descriptor it was given, which is the one the packet was read from, the *)
(* shell's; puts the header into the fifo for rz, and the rest of the      *)
(* packet behind it, after freeing what that needs.  Either wait may use   *)
(* up its five tries; then the program exits.                              *)
(***************************************************************************)
HeaderDoneEarly(s) == parse_state = 3

HeaderDone(s) == parse_state = 3 /\ s[1] = Header[4]

Started ==
  /\ Scanning /\ HeaderDone(input)
  /\ announced' = Held \o <<input[1]>>
  /\ remaining' = Tail(input)
  /\ input' = <<>>
  /\ zscanstate_init
  /\ UNCHANGED <<passed, stream, cuts, carried>>

\* What fifo_drain_avail may write, of the header, to make room for the rest.
Freed == IF Len(remaining') > Capacity - StartLength
         THEN Len(remaining') + StartLength - Capacity..StartLength
         ELSE {0}

zscan_start ==
  /\ Started
  /\ IF StartLength > Capacity
     THEN phase' = "overflow" /\ misrouted' = misrouted + count /\ UNCHANGED count
     ELSE \E n \in Freed :
            /\ phase' = "rz"
            /\ misrouted' = misrouted + count + n
            /\ count' = StartLength - n + Len(remaining')

Bail ==
  /\ Started
  /\ count > 0 \/ Freed # {0}
  /\ phase' = "bailed"
  /\ \E n \in 0..count + StartLength : misrouted' = misrouted + n
  /\ UNCHANGED count

Next ==
  \/ \E s \in Packets : fifo_read(s)
  \/ fifo_write
  \/ SkipGarbage \/ PassR \/ HoldRz \/ HoldStars \/ HoldHeader \/ NoHeader
  \/ zscan_start \/ Bail

Spec == Init /\ [][Next]_vars

-----------------------------------------------------------------------------
TypeOK ==
  /\ parse_state \in -1..3
  /\ gotrz \in {"RZNONE", "RZNL", "RZCR", "RZCRNL"}
  /\ starcnt \in Nat
  /\ parse_state = 0 => gotrz = "RZNONE"
  /\ parse_state < 1 => starcnt = 0
  /\ input \in Seq(Byte) /\ count \in 0..Capacity
  /\ phase \in {"echo", "rz", "bailed", "overflow"}
  /\ passed \in Seq(Byte) /\ announced \in Seq(Byte) /\ remaining \in Seq(Byte)
  /\ stream \in Seq(Byte) /\ cuts \subseteq Nat
  /\ misrouted \in Nat /\ carried \in Nat

(***************************************************************************)
(* Whatever the shell prints and however read() cuts it, every byte is     *)
(* passed on in order, or is held, or announced the transfer, or follows   *)
(* the header: a mismatch gives back all that was held.                    *)
(***************************************************************************)
Conservation ==
  stream = passed \o announced \o Held \o input \o remaining

(***************************************************************************)
(* "rz\n must all appear in a single packet ... same with the **\030      *)
(* sequence": between packets nothing is held whose rz, or whose stars and *)
(* ZDLE, a packet boundary cuts.  So what the user types one by one is     *)
(* never held.                                                             *)
(***************************************************************************)
HeldWhole ==
  phase = "echo" /\ input = <<>> =>
    LET first == Len(stream) - Len(Held)
        rz == Len(Rz(gotrz))
    IN  \A c \in cuts :
          /\ ~(first < c /\ c < first + rz)
          /\ starcnt > 0 => ~(first + rz < c /\ c <= first + rz + starcnt)

(***************************************************************************)
(* "Other than those two sequences, the packet boundaries may fall         *)
(* wherever": no header passes unnoticed unless a boundary separates its   *)
(* star from its ZDLE.                                                     *)
(***************************************************************************)
Complete ==
  phase = "echo" /\ input = <<>> =>
    \A i \in 1..Len(stream) - 4 :
      SubSeq(stream, i, i + 4) = <<"*">> \o Header => i \in cuts

(***************************************************************************)
(* A transfer starts for nothing less than a header, and what it swallows  *)
(* in front of the header is one rz at most.                               *)
(***************************************************************************)
StartIsHeader ==
  announced # <<>> =>
    \E g \in {"RZNONE", "RZNL", "RZCR", "RZCRNL"}, n \in 1..Len(announced) :
      announced = Rz(g) \o Stars(n) \o Header

(***************************************************************************)
(* fifo_read reads what the fifo has room for, and the scanner may append  *)
(* more than it was given, but no more than it held from earlier packets.  *)
(***************************************************************************)
RoomBound ==
  /\ phase = "echo" => count + Len(Held) + Len(input) <= Capacity + carried
  /\ phase = "overflow" => carried > 0 \/ Capacity < StartLength

(***************************************************************************)
(* fifo_drain_completely waits until the fifo is empty before it switches  *)
(* tasks, "else the data would go to the wrong place": what the shell had  *)
(* printed goes to the terminal.                                           *)
(***************************************************************************)
NothingMisrouted == misrouted = 0
=============================================================================
