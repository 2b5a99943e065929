---------------------------- MODULE Descriptors ----------------------------
(***************************************************************************)
(* The kernel's side of a process: the table from descriptors to open      *)
(* files, field t of the process, as open, close, dup2 and fork use it.    *)
(* Field foreign is history: the open files the process closed, or wrote   *)
(* to, by a descriptor number it had for another file.                     *)
(***************************************************************************)
EXTENDS Integers, Sequences, FiniteSets, FiniteSetsExt

CONSTANT MaxFd    \* bound: the highest descriptor the process may have (RLIMIT_NOFILE)

\* There is a place for the standard descriptors.
ASSUME MaxFdAssumption == MaxFd \in Nat /\ MaxFd >= 2

Fd == 0..MaxFd
Closed == "closed"

Free(m) == {f \in Fd : m.t[f] = Closed}
Room(m) == Cardinality(Free(m))
Opened(m) == Fd \ Free(m)

\* Where the k-th of some files opened in a row goes: each takes the lowest free descriptor.
Place(m, k) == CHOOSE f \in Free(m) : Cardinality({g \in Free(m) : g <= f}) = k

\* open(), socket(), pipe(), openpty(): the caller makes sure that there is room.
open(m, files) ==
  [m EXCEPT !.t = [f \in Fd |-> IF \E k \in DOMAIN files : Place(m, k) = f
                                THEN files[CHOOSE k \in DOMAIN files : Place(m, k) = f]
                                ELSE @[f]]]

\* Descriptor f is used for the file own: the file that is really there, if it is another.
Misused(m, f, own) == IF f \in Fd THEN {m.t[f]} \ {own, Closed} ELSE {}

(***************************************************************************)
(* close() for each pair of a descriptor and the file that is meant; on a  *)
(* descriptor that is closed, or -1, it fails with EBADF.                  *)
(***************************************************************************)
close(m, pairs) ==
  [m EXCEPT !.t = [f \in Fd |-> IF \E p \in pairs : p[1] = f THEN Closed ELSE @[f]],
            !.foreign = @ \union UNION {Misused(m, p[1], p[2]) : p \in pairs}]

dup2(m, f, g) == IF f \in Opened(m) THEN [m EXCEPT !.t[g] = m.t[f]] ELSE m
=============================================================================
