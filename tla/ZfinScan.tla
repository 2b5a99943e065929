------------------------------ MODULE ZfinScan ------------------------------
(***************************************************************************)
(* zfin.c: the fifo procs that watch a transfer for the ZFIN packet.  One  *)
(* zfinscanstate per direction: from rz to the sender (found = zfin_term:  *)
(* kill rz, drop what it still says) and from the sender to rz (found =    *)
(* zfin_nooo: swallow an optional "OO", then save what follows for the     *)
(* terminal).                                                              *)
(*                                                                         *)
(* Data arrives in packets, one per read(), cut anywhere; each packet is   *)
(* one step, from fifo_read's call of the proc to the proc's last tail     *)
(* call.                                                                   *)
(***************************************************************************)
EXTENDS Integers, Sequences

CONSTANTS
  Byte,
  ZFIN,         \* the string searched, "*\030B0800000000022d\015\212"
  O,            \* the letter of "OO"
  Slack,        \* the extra room the save buffer grows by, 512
  MaxStream,    \* bound: bytes that arrive in all
  MaxPacket     \* bound: bytes in one packet

ASSUME ZfinAssumption ==
  /\ ZFIN \in Seq(Byte) /\ Len(ZFIN) > 0 /\ O \in Byte
  /\ \A i \in 2..Len(ZFIN) : ZFIN[i] # ZFIN[1]      \* one star, at the front
  /\ \A i \in 1..Len(ZFIN) : ZFIN[i] # O
  /\ Slack \in Nat /\ MaxStream \in Nat /\ MaxPacket \in Nat

VARIABLES
  found,                       \* the proc to run once the string is found
  proc,                        \* the fifo's proc
  ref,                         \* bytes of ZFIN matched when a packet last ended; 0 is NULL
  oocount, savebuf, savemax,   \* zfinscanstate; savecnt is Len(savebuf)
  passed,                      \* what was appended to the fifo
  dropped,                     \* what zfin_drop ignored
  kills,                       \* calls of task_terminate
  stream,                      \* history: all that arrived
  partial                      \* history: the matches that packets ended in

vars == <<found, proc, ref, oocount, savebuf, savemax, passed, dropped, kills, stream, partial>>

N == Len(ZFIN)

Suffix(s, n) == SubSeq(s, n + 1, Len(s))
Least(S) == CHOOSE n \in S : \A m \in S : n <= m

-----------------------------------------------------------------------------
(***************************************************************************)
(* The loop of zfin_scan: after i bytes of s it has matched Progress[i]    *)
(* bytes of ZFIN.  A byte that does not match may still be the star of the *)
(* next attempt.                                                           *)
(***************************************************************************)
\* Faulty variants, here and below: a slip in the definition that follows.
MatchOnwards(k, c) ==
  IF c = ZFIN[k + 1] THEN k + 1 ELSE IF c = ZFIN[1] THEN 1 ELSE k

Match(k, c) ==
  IF c = ZFIN[k + 1] THEN k + 1 ELSE IF c = ZFIN[1] THEN 1 ELSE 0

Progress(k, s) ==
  LET p[i \in 0..Len(s)] == IF i = 0 THEN k
                            ELSE IF p[i - 1] = N THEN N
                            ELSE Match(p[i - 1], s[i])
  IN  p

\* After how many bytes of s the string is complete, if it is.
Ends(k, s) == {i \in 1..Len(s) : Progress(k, s)[i] = N}

-----------------------------------------------------------------------------
Init ==
  /\ found \in {"zfin_nooo", "zfin_term"} /\ proc = "zfin_scan"
  /\ ref = 0 /\ oocount = 0 /\ savebuf = <<>> /\ savemax = 0
  /\ passed = <<>> /\ dropped = <<>> /\ kills = 0
  /\ stream = <<>> /\ partial = {}

GrownTight(s) == Len(s) + Slack

\* realloc: the size the save buffer grows to when s does not fit.
Grown(s) == savemax + Len(s) + Slack

zfin_save_from_start(s) ==
  /\ proc' = "zfin_save"
  /\ savebuf' = s
  /\ savemax' = IF Len(s) + Len(savebuf) > savemax THEN Grown(s) ELSE savemax

zfin_save(s) ==
  /\ proc' = "zfin_save"
  /\ savebuf' = savebuf \o s
  /\ savemax' = IF Len(s) + Len(savebuf) > savemax THEN Grown(s) ELSE savemax

\* How many O's at the front of s are suppressed, two in all.
SuppressedEach(s) ==
  LET n == Least({i \in 0..Len(s) : i = Len(s) \/ s[i + 1] # O})
  IN  IF n < 2 THEN n ELSE 2

Suppressed(s) ==
  LET n == Least({i \in 0..Len(s) : i = Len(s) \/ s[i + 1] # O})
  IN  IF n < 2 - oocount THEN n ELSE 2 - oocount

zfin_nooo(s) ==
  /\ oocount' = oocount + Suppressed(s)
  /\ IF Suppressed(s) = Len(s)
     THEN proc' = "zfin_nooo" /\ UNCHANGED <<savebuf, savemax>>
     ELSE zfin_save(Suffix(s, Suppressed(s)))

zfin_drop(s) ==
  /\ proc' = "zfin_drop"
  /\ dropped' = dropped \o s

zfin_term(s) == kills' = kills + 1 /\ zfin_drop(s)

\* (*f->proc)(f, buf, size, fd) with proc = found.
Found(s) ==
  \/ /\ found = "zfin_nooo" /\ zfin_nooo(s)
     /\ UNCHANGED <<dropped, kills>>
  \/ /\ found = "zfin_term" /\ zfin_term(s)
     /\ UNCHANGED <<oocount, savebuf, savemax>>

\* The match the scanner will resume: a packet that ends outside any leaves ref alone.
ResumeNothing(k) == 0

Resume(k) == IF k = 0 THEN ref ELSE k

zfin_scan(s) ==
  \/ /\ Ends(ref, s) = {}
     /\ passed' = passed \o s
     /\ ref' = Resume(Progress(ref, s)[Len(s)])
     /\ partial' = partial \union {ref'}
     /\ UNCHANGED <<proc, oocount, savebuf, savemax, dropped, kills>>
  \/ /\ Ends(ref, s) # {}
     /\ LET n == Least(Ends(ref, s))
        IN  passed' = passed \o SubSeq(s, 1, n) /\ Found(Suffix(s, n))
     /\ UNCHANGED <<ref, partial>>

-----------------------------------------------------------------------------
fifo_read(s) ==
  /\ s # <<>>
  /\ stream' = stream \o s
  /\ UNCHANGED found
  /\ \/ proc = "zfin_scan" /\ zfin_scan(s)
     \/ /\ proc = "zfin_nooo" /\ zfin_nooo(s)
        /\ UNCHANGED <<ref, passed, dropped, kills, partial>>
     \/ /\ proc = "zfin_save" /\ zfin_save(s)
        /\ UNCHANGED <<ref, oocount, passed, dropped, kills, partial>>
     \/ /\ proc = "zfin_drop" /\ zfin_drop(s)
        /\ UNCHANGED <<ref, oocount, savebuf, savemax, passed, kills, partial>>

Packet == UNION {[1..n -> Byte] : n \in 1..MaxPacket}

Next == \E s \in Packet : Len(stream) + Len(s) <= MaxStream /\ fifo_read(s)

Spec == Init /\ [][Next]_vars

-----------------------------------------------------------------------------
\* s holds the string from place i on, from its k-th byte.
HoldsFrom(s, i, k) ==
  /\ i >= 1 /\ i + N - k <= Len(s)
  /\ \A j \in k..N : s[i + j - k] = ZFIN[j]

TypeOK ==
  /\ found \in {"zfin_nooo", "zfin_term"}
  /\ proc \in {"zfin_scan"} \union
              (IF found = "zfin_nooo" THEN {"zfin_nooo", "zfin_save"} ELSE {"zfin_drop"})
  /\ ref \in 0..N - 1 /\ partial \subseteq 0..N - 1
  /\ oocount \in 0..2 /\ kills \in 0..1
  /\ savebuf \in Seq(Byte) /\ savemax \in Nat /\ Len(savebuf) <= savemax
  /\ passed \in Seq(Byte) /\ dropped \in Seq(Byte) /\ stream \in Seq(Byte)

(***************************************************************************)
(* The filter loses, doubles and reorders nothing, however the stream is   *)
(* cut: what went to the other side, the suppressed O's, and what was      *)
(* saved or dropped are the stream.                                        *)
(***************************************************************************)
Conservation ==
  stream = passed \o [i \in 1..oocount |-> O] \o savebuf \o dropped

(***************************************************************************)
(* No ZFIN goes unnoticed: whatever came before it and wherever the        *)
(* packets were cut, the scanner stops scanning once one has arrived, and  *)
(* nothing behind it passes.                                               *)
(***************************************************************************)
Complete ==
  \A i \in 1..Len(stream) :
    HoldsFrom(stream, i, 1) => proc # "zfin_scan" /\ Len(passed) < i + N

(***************************************************************************)
(* Of what follows the ZFIN exactly the "OO" is kept from the terminal.    *)
(***************************************************************************)
OverAndOut ==
  savebuf # <<>> => oocount = 2 \/ savebuf[1] # O

(***************************************************************************)
(* What ended the scan, at least: the end of the string from some byte on, *)
(* and a packet that had broken off just before that byte, not necessarily *)
(* the previous packet.                                                    *)
(***************************************************************************)
FoundCause ==
  proc # "zfin_scan" =>
    \E k \in 1..N : /\ HoldsFrom(passed, Len(passed) - (N - k), k)
                    /\ k = 1 \/ k - 1 \in partial

(***************************************************************************)
(* zfin.h: ref "remembers where in the zfin string we're scanning".  If it *)
(* did, a scan would end only behind a ZFIN.                               *)
(***************************************************************************)
Sound ==
  proc # "zfin_scan" => N <= Len(passed) /\ HoldsFrom(passed, Len(passed) - (N - 1), 1)
=============================================================================
