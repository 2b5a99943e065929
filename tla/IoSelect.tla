------------------------------ MODULE IoSelect ------------------------------
(***************************************************************************)
(* io_select.c by descriptor number: connections[], one atom per           *)
(* descriptor, and max_fd, which tells select() how far to look.  A        *)
(* process is a record; the operators here read and change its fields      *)
(* connections, max_fd, fd (the fd field of each atom) and err, the error  *)
(* that made the program give up, after which nothing more is registered.  *)
(* Which of the registered descriptors are watched, and for what, is       *)
(* Pipes: here all of them may be.                                         *)
(***************************************************************************)
EXTENDS Integers, FiniteSets, FiniteSetsExt

CONSTANTS FD_SETSIZE, NoAtom

ASSUME FdSetAssumption == FD_SETSIZE \in Nat \ {0}

\* Descriptors that connections[] and an fd_set have a place for.
Slot == 0..FD_SETSIZE - 1

\* What the process starts with: the array is static, and so is max_fd.
NoConnections == [f \in Slot |-> NoAtom]
NoMax == 0

\* The atom registered for f; what lies past the end of the array is no atom.
Connection(m, f) == IF f \in Slot THEN m.connections[f] ELSE NoAtom

\* Faulty variant: the range is not checked above.
io_add_error_unbounded(m, f) ==
  CASE f < 0                          -> "ERANGE"
    [] Connection(m, f) # NoAtom      -> "EALREADY"
    [] OTHER                          -> "none"

(***************************************************************************)
(* io_add lets fd = FD_SETSIZE pass and then writes past the array.        *)
(***************************************************************************)
io_add_error(m, f) ==
  CASE f < 0 \/ f > FD_SETSIZE        -> "ERANGE"
    [] f = FD_SETSIZE                 -> "overrun"
    [] Connection(m, f) # NoAtom        -> "EALREADY"
    [] OTHER                          -> "none"

\* io_atom_init and io_add; every caller in rzh bails on an error.
io_add(m, a, f) ==
  LET err == io_add_error(m, f)
  IN  IF m.err # "none" THEN m
      ELSE IF err # "none" THEN [m EXCEPT !.err = err]
      ELSE [m EXCEPT !.connections[f] = a, !.fd[a] = f, !.max_fd = Max({@, f})]

\* max_fd goes down to the highest descriptor that is left, or -1.
io_del_fd(m, f) ==
  IF Connection(m, f) = NoAtom THEN m
  ELSE LET left == [m.connections EXCEPT ![f] = NoAtom]
       IN  [m EXCEPT !.connections = left,
                     !.max_fd = Max({-1} \union {g \in 0..@ : g \in Slot /\ left[g] # NoAtom})]

\* Faulty variant: a descriptor that is already closed stays registered.
io_del_kept(m, a) == [m EXCEPT !.fd[a] = -1]

\* The atom is taken out, and its fd forgotten: the callers set it to -1 or free the atom.
io_del(m, a) == [io_del_fd(m, m.fd[a]) EXCEPT !.fd[a] = -1]

\* io_exit_check: atoms left.
io_exit_check(m) == {m.connections[f] : f \in Slot} \ {NoAtom}

-----------------------------------------------------------------------------
(***************************************************************************)
(* select(1 + max_fd) sees every registered descriptor, and an atom is     *)
(* registered exactly where its fd field says: otherwise an event goes     *)
(* unnoticed or to an atom that has been freed.                            *)
(***************************************************************************)
Covered(m) == \A f \in Slot : m.connections[f] # NoAtom => f <= m.max_fd

Matched(m) ==
  /\ \A a \in DOMAIN m.fd : m.fd[a] >= 0 => Connection(m, m.fd[a]) = a
  /\ \A f \in Slot : m.connections[f] # NoAtom => m.fd[m.connections[f]] = f
=============================================================================
