-------------------------------- MODULE Idle --------------------------------
(***************************************************************************)
(* idle.c without --quiet: the status line of one transfer.  The main loop *)
(* calls idle_proc at least whenever its timeout has passed, and as often  *)
(* as there is I/O; the line is rewritten when it is due, and once more by *)
(* idle_end.  Time is counted in ticks; text and rates are left out.       *)
(***************************************************************************)
EXTENDS Integers, FiniteSets, FiniteSetsExt

CONSTANTS
  sleeptime, fuzztime,     \* in ticks: between two lines; what is near enough to that
  Tenth, Ten, Sixty,       \* ticks in a tenth of a second; 10; 60
  IntMax,                  \* INT_MAX
  Step,                    \* 1024
  BufSize, DefaultWidth,   \* 256 and 80
  Widths, Chunks,          \* what ws_col may be; what one write may take
  Earlier,                 \* what a counter may have come to before the transfer
  MaxTime, MaxBytes,       \* bounds: ticks; bytes of a transfer each way
  NULL

ASSUME IdleAssumption ==
  /\ fuzztime \in Nat /\ sleeptime \in Nat /\ fuzztime < sleeptime
  /\ {Tenth, Ten, Sixty, Step} \subseteq Nat \ {0} /\ Step > 1 /\ IntMax \in Nat
  /\ NULL \notin Int
  /\ Widths \subseteq Nat /\ Chunks \subseteq Nat /\ Earlier \subseteq Int
  /\ DefaultWidth \in Nat \ {0, 1} /\ BufSize \in Nat /\ BufSize > 2

VARIABLES
  now, start_time, last_time,    \* CLOCK_MONOTONIC; NULL for a last_time that was never set
  wake,                          \* when select() returns at the latest
  bytes_written, start_count,    \* of each pipe, as ints
  ws_col,                        \* the width of the window
  line,                          \* the last line written, and what was true then
  moved,                         \* history: the bytes of the transfer through each pipe
  ended

vars == <<now, start_time, last_time, wake, bytes_written, start_count, ws_col, line, moved, ended>>

-----------------------------------------------------------------------------
Pipe == {"input_master", "master_output"}
Second == Ten * Tenth

\* The sum or difference as it fits in an int.
Ints == 2 * (IntMax + 1)
ToInt(n) == LET r == n % Ints IN IF r > IntMax THEN r - Ints ELSE r

\* What B, kB, MB and GB stand for.
Base == <<1, Step, Step * Step, Step * Step * Step>>

\* A size that is in none of these, or negative, is printed as it is.
human_bytes(size) ==
  LET fits == {k \in 1..4 : size >= Base[k] /\ size < Base[k] * Step}
      base == Base[Min(fits)]
  IN  IF fits = {} THEN [num |-> size, rem |-> 0, unit |-> 1]
      ELSE [num |-> size \div base, rem |-> ((size * 100) \div base) % 100, unit |-> base]

\* The hours are overwritten by the minutes.
human_time(t) ==
  LET seconds == t \div Second
  IN  [minutes |-> (seconds \div Sixty) % Sixty, seconds |-> seconds % Sixty,
       tenths |-> (t \div Tenth) % Ten]

bgio_get_window_width == IF ws_col = 0 THEN DefaultWidth ELSE ws_col
LineLength == Min({bgio_get_window_width, BufSize - 1})

\* The bytes since the transfer began.  Faulty variant: since rzh was started.
CountTotal(p) == bytes_written[p]

Count(p) == ToInt(bytes_written[p] - start_count[p])

\* A line, with its last marks characters replaced by \r, or \r\n.
Line(marks) ==
  [count |-> [p \in Pipe |-> human_bytes(Count(p))],
   time |-> human_time(now - start_time),
   places |-> LineLength - marks..LineLength - 1,
   moved |-> moved, at |-> now, width |-> bgio_get_window_width]

-----------------------------------------------------------------------------
\* Earlier transfers have left their counts.
Init ==
  /\ now = 0 /\ start_time = 0 /\ last_time = NULL /\ wake = 0
  /\ \E n \in Earlier : bytes_written = [p \in Pipe |-> n]
  /\ start_count = bytes_written
  /\ ws_col \in Widths /\ line = NULL /\ moved = [p \in Pipe |-> 0] /\ ended = FALSE

Clock == now < MaxTime /\ now < wake /\ now' = now + 1
         /\ UNCHANGED <<start_time, last_time, wake, bytes_written, start_count, ws_col, line,
                        moved, ended>>

\* pipe_fifo_write adds what was written to the pipe's count.
pipe_fifo_write(p) ==
  /\ ~ended /\ moved[p] < MaxBytes
  /\ \E cnt \in Chunks : /\ bytes_written' = [bytes_written EXCEPT ![p] = ToInt(@ + cnt)]
                        /\ moved' = [moved EXCEPT ![p] = @ + cnt]
  /\ UNCHANGED <<now, start_time, last_time, wake, start_count, ws_col, line, ended>>

window_resize ==
  /\ ~ended /\ ws_col' \in Widths
  /\ UNCHANGED <<now, start_time, last_time, wake, bytes_written, start_count, line, moved, ended>>

\* How long to wait if the line is not due.  Faulty variant: as long as if it had been written.
RestFull == sleeptime

Rest == sleeptime - (now - last_time)

Due == last_time = NULL \/ sleeptime - (now - last_time) <= fuzztime

idle_proc ==
  /\ ~ended
  /\ IF Due THEN line' = Line(1) /\ last_time' = now /\ wake' = now + sleeptime
            ELSE UNCHANGED <<line, last_time>> /\ wake' = now + Rest
  /\ UNCHANGED <<now, start_time, bytes_written, start_count, ws_col, moved, ended>>

idle_end ==
  /\ ~ended /\ ended' = TRUE
  /\ line' = Line(2)
  /\ UNCHANGED <<now, start_time, last_time, wake, bytes_written, start_count, ws_col, moved>>

Next == Clock \/ window_resize \/ idle_proc \/ idle_end \/ \E p \in Pipe : pipe_fifo_write(p)

Spec == Init /\ [][Next]_vars

-----------------------------------------------------------------------------
(***************************************************************************)
(* "minimum time to next idleproc: sleeptime - fuzztime, maximum time to   *)
(* next idleproc: sleeptime" (idle.c:207): however often I/O wakes the     *)
(* loop, and without a timer of its own, the line is rewritten that often. *)
(***************************************************************************)
Pace ==
  [][/\ last_time # NULL /\ last_time' # last_time =>
          last_time' - last_time \in sleeptime - fuzztime..sleeptime
     /\ ~ended' /\ last_time' # NULL => now' - last_time' <= sleeptime]_vars

(***************************************************************************)
(* What the line says was true when it was written: the bytes, to the      *)
(* hundredth of their unit, as long as the transfer is not too long for an *)
(* int, whatever the counters have come to in the whole session; the time, *)
(* up to full hours; and the \r is put inside the buffer and inside the    *)
(* window, if that is two wide at least.                                   *)
(***************************************************************************)
Denotes(r, n) ==
  LET hundredths == 100 * r.num + r.rem
  IN  hundredths * r.unit <= 100 * n /\ 100 * n < (hundredths + 1) * r.unit

LineTrue ==
  line # NULL =>
    /\ \A p \in Pipe : line.moved[p] <= IntMax => Denotes(line.count[p], line.moved[p])
    /\ LET t == line.time
           shown == (t.minutes * Sixty + t.seconds) * Second + t.tenths * Tenth
           late == line.at - start_time - shown
       IN  late >= 0 /\ late % (Sixty * Sixty * Second) < Tenth
    /\ line.width >= 2 => line.places \subseteq 0..Min({BufSize, line.width}) - 1
=============================================================================
