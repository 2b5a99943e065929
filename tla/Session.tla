------------------------------ MODULE Session ------------------------------
(***************************************************************************)
(* task.c, rztask.c, echotask.c and consoletask.c on top of pipe.c: the    *)
(* life of rzh.  The echo task joins the terminal to the shell's pty (the  *)
(* master); when the shell's output announces a transfer, an rz task is    *)
(* installed above it, its pipes spliced in the place of the terminal,     *)
(* under whatever the two fifos hold; when rz is reaped it is removed.     *)
(*                                                                         *)
(* Data is tokens: a piece of text, the start header, a piece of zmodem    *)
(* data, the ZFIN of either side.  How the scanners find these in bytes,   *)
(* and where those bytes are cut, is ZrqScan and ZfinScan; how a fifo      *)
(* stores them is Fifo.  A pass of the loop of main() is the actions       *)
(* io_wait, Dispatch..., master_check_sigchild; the shell, rz, the user    *)
(* and the kernel act between any two of them.                             *)
(***************************************************************************)
EXTENDS Integers, Sequences

CONSTANTS
  Script,       \* the tokens the shell and the sender print, all different
  Text,         \* those of them meant for the terminal
  Capacity,     \* tokens a fifo holds
  MaxRoom,      \* bound: tokens the kernel takes before a write would block
  MaxTyped,     \* bound: keys typed
  NDEBUG,       \* the production build, without asserts
  opt_quiet,    \* no status lines
  PtyEnd,       \* what read() of the master gives once the shell is gone: 0 where that makes
                \* it readable, -1 where rzh's own descriptor of the slave keeps the pty open
  RzMayDie,     \* rz may exit before the transfer is over
  ShellMayExit

ASSUME SessionAssumption ==
  /\ Script \in Seq(STRING) /\ Text \subseteq STRING
  /\ Capacity \in Nat \ {0} /\ MaxRoom \in Nat \ {0} /\ MaxTyped \in Nat
  /\ PtyEnd \subseteq {0, -1} /\ PtyEnd # {}
  /\ {NDEBUG, opt_quiet, RzMayDie, ShellMayExit} \subseteq BOOLEAN

\* One of the tokens from the start header up to the ZFIN, or up to the end if there is none.
InTransfer(i) == \E j \in 1..i : Script[j] = "start" /\ \A k \in j..i - 1 : Script[k] # "fin"

ASSUME ScriptAssumption ==
  /\ \A i, j \in DOMAIN Script : Script[i] = Script[j] => i = j
  /\ \A i \in DOMAIN Script : Script[i] \in Text <=> ~InTransfer(i)
  /\ "status" \notin Text

VARIABLES
  head,                      \* the topmost task; below rz there is echo
  fifo, proc, block_read,    \* the two struct pipes of the master_pipe
  savebuf,                   \* the master_output fifo's zfinscanstate
  conn, fd_read, fd_write, gfd_read, gfd_write,    \* io_select
  pc,                        \* where the loop of main() is, or how it ended
  sigchild_received,
  rz, shell, killed,         \* the two children; who had rz killed
  script, typed,             \* what is still to print; how many keys were typed
  inbox, room, rzin,         \* what can be read; what can be written; rz's stdin
  shown, astray, dropped,    \* history: what the terminal got; what the shell got instead;
                             \* what pipe_write had no room for
  late, crashed              \* history: the shell got a late packet of rz; rz ended too early

structs == <<head, fifo, proc, block_read, savebuf>>
select  == <<conn, fd_read, fd_write>>
events  == <<gfd_read, gfd_write>>
children == <<sigchild_received, rz, shell, killed>>
outside == <<script, typed, inbox, room, rzin>>
history == <<shown, astray, dropped, late, crashed>>
vars == <<structs, select, events, pc, children, outside, history>>

-----------------------------------------------------------------------------
Pipe == {"input_master", "master_output"}
Echo == {"stdin", "stdout"}
RzAtoms == {"rzread", "rzwrite"}
Atom == Echo \union {"master"} \union RzAtoms

\* The descriptors in ascending order, as io_dispatch takes them.
Rank == [stdin |-> 0, stdout |-> 1, master |-> 2, rzwrite |-> 3, rzread |-> 4]

\* task_pipe_setup: how the pipes are spliced while the topmost task is h.
Source(h, p) == IF p = "master_output" THEN "master" ELSE IF h = "rz" THEN "rzread" ELSE "stdin"
Sink(h, p) == IF p = "input_master" THEN "master" ELSE IF h = "rz" THEN "rzwrite" ELSE "stdout"

Procs(h) == IF h = "rz" THEN [p \in Pipe |-> "zfin_scan"]
            ELSE [input_master |-> "none", master_output |-> "zrq_scan"]

Fail == -1
Epipe == -2
Least(m, n) == IF m < n THEN m ELSE n
Positive(k) == IF k > 0 THEN k ELSE 0
Suffix(s, n) == SubSeq(s, n + 1, Len(s))
Elements(s) == {s[i] : i \in DOMAIN s}

\* Where token t is in s; 0 if nowhere.
Place(s, t) == IF t \in Elements(s) THEN CHOOSE i \in DOMAIN s : s[i] = t ELSE 0

\* Faulty variants, of this definition and below: a slip in the definition that follows.
fifo_avail_size(p) == Capacity + 1 - Len(fifo[p])

fifo_avail(p) == Capacity - Len(fifo[p])

Full(q) == Len(q) = Capacity

ReadResults(a, n) ==
  IF n = 0 THEN {0}
  ELSE IF inbox[a] # <<>> THEN 1..Least(n, Len(inbox[a]))
  ELSE IF a = "rzread" /\ rz = "zombie" THEN {0}
  ELSE IF a = "master" /\ shell # "running" THEN PtyEnd
  ELSE {Fail}

RoomIn(a) == IF a = "rzwrite" THEN MaxRoom - Len(rzin) ELSE room[a]

\* Whether the reader of sink a is gone; the terminal and the pty's slave never break.
Broken(a) == a = "rzwrite" /\ rz = "zombie"

WriteResults(c, a, n) ==
  IF a \notin c THEN {Fail}
  ELSE IF Broken(a) THEN {Epipe}
  ELSE IF RoomIn(a) = 0 THEN {Fail} ELSE 1..Least(n, RoomIn(a))

\* write() gave s to the sink a.
Deliver(a, s) ==
  /\ room' = IF a = "rzwrite" THEN room ELSE [room EXCEPT ![a] = @ - Len(s)]
  /\ rzin' = IF a = "rzwrite" THEN rzin \o s ELSE rzin
  /\ shown' = IF a = "stdout" THEN shown \o s ELSE shown
  /\ late' = (late \/ (a = "master" /\ "late" \in Elements(s)))

-----------------------------------------------------------------------------
(***************************************************************************)
(* The fifo procs on the tokens s of one read: the first Cut are appended  *)
(* to the fifo, the rest is saved (master_output) or dropped (input_master)*)
(* because a ZFIN has passed.  zfin_nooo is part of zfin_save here.        *)
(***************************************************************************)
Zfin(p) == IF p = "master_output" THEN "fin" ELSE "rzfin"
Found(p) == IF p = "master_output" THEN "zfin_save" ELSE "zfin_drop"

Finds(p, pr, s) == pr = "zfin_scan" /\ Zfin(p) \in Elements(s)
CutOnce(p, pr, s) == IF Finds(p, pr, s) THEN Place(s, Zfin(p)) ELSE Len(s)

Cut(p, pr, s) == IF Finds(p, pr, s) THEN Place(s, Zfin(p))
                 ELSE IF pr = Found(p) THEN 0 ELSE Len(s)
NextProcSame(p, pr, s) == pr

NextProc(p, pr, s) == IF Finds(p, pr, s) THEN Found(p) ELSE pr

\* zfin_term: rz is killed for its own ZFIN, not for the sender's.
TerminatesEither(p, s) == Finds(p, proc[p], s)

Terminates(p, s) == p = "input_master" /\ Finds(p, proc[p], s)
KilledFor(why) == IF killed = "no" THEN why ELSE killed

(***************************************************************************)
(* What pipe_auto_read does after the read: the fifo of p now holds q, the *)
(* topmost task is h, the open atoms are c, those watched for reading fr,  *)
(* and the pipes that block b.                                             *)
(***************************************************************************)
AfterRead(p, q, h, c, fr, b) ==
  LET a == Sink(h, p)
  IN  \E k \in IF q = <<>> THEN {0} ELSE WriteResults(c, a, Len(q)) :
        LET left == Suffix(q, Positive(k))
            full == Full(left)
        IN  /\ fifo' = [fifo EXCEPT ![p] = left]
            /\ Deliver(a, SubSeq(q, 1, Positive(k)))
            /\ conn' = IF k = Epipe THEN c \ {a} ELSE c
            /\ fd_write' = (IF left = <<>> THEN fd_write ELSE fd_write \union {a}) \intersect conn'
            /\ fd_read' = (IF full THEN fr \ {Source(h, p)} ELSE fr) \intersect conn'
            /\ block_read' = [b EXCEPT ![p] = @ \/ full]

Took(a, n) == inbox' = [inbox EXCEPT ![a] = Suffix(@, n)]

\* The program ends: a failed assert, a fifo that could not be drained.
End(how) == pc' = how /\ UNCHANGED <<structs, select, children, outside, history>>

\* A read that announces no transfer, finds nothing or meets the end of the file.
ReadData(p) ==
  LET a == Source(head, p)
  IN  \E r \in ReadResults(a, fifo_avail(p)) :
        LET s == SubSeq(inbox[a], 1, Positive(r))
            n == Cut(p, proc[p], s)
        IN  /\ ~(proc[p] = "zrq_scan" /\ "start" \in Elements(s))
            /\ Took(a, Positive(r))
            /\ proc' = [proc EXCEPT ![p] = NextProc(p, @, s)]
            /\ savebuf' = IF p = "master_output" THEN savebuf \o Suffix(s, n) ELSE savebuf
            /\ killed' = IF Terminates(p, s) THEN KilledFor("zfin") ELSE killed
            /\ AfterRead(p, fifo[p] \o SubSeq(s, 1, n), head,
                         IF r = 0 THEN conn \ {a} ELSE conn, fd_read, block_read)
            /\ UNCHANGED <<head, pc, sigchild_received, rz, shell, script, typed, astray, dropped,
                           crashed>>

(***************************************************************************)
(* The read that announces a transfer: zscan_start writes what the fifo    *)
(* holds to the master, or gives up after a few seconds (the shell reads   *)
(* meanwhile, so the master's room is what it was); rztask_install forks   *)
(* rz, task_install splices its atoms in, and what follows the start       *)
(* header goes through the new task's proc.                                *)
(***************************************************************************)
StdinOpen == {"stdin"} \intersect conn

ReadStart ==
  LET p == "master_output"
  IN  \E r \in 1..Least(fifo_avail(p), Len(inbox["master"])) :
        LET s == SubSeq(inbox["master"], 1, r)
            i == Place(s, "start")
            ahead == fifo[p] \o SubSeq(s, 1, i - 1)
            rest == Suffix(s, i)
            n == Cut(p, "zfin_scan", rest)
        IN  /\ proc[p] = "zrq_scan" /\ i > 0
            /\ \/ ahead # <<>> /\ End("bailed")
               \/ /\ Took("master", r)
                  /\ astray' = astray \o ahead
                  /\ head' = "rz" /\ rz' = "running"
                  /\ proc' = [Procs("rz") EXCEPT ![p] = NextProc(p, @, rest)]
                  /\ savebuf' = Suffix(rest, n)
                  /\ AfterRead(p, <<"start">> \o SubSeq(rest, 1, n), "rz", conn \union RzAtoms,
                               fd_read \union {"rzread"} \union StdinOpen,
                               [block_read EXCEPT !["input_master"] = FALSE])
                  /\ UNCHANGED <<pc, killed, sigchild_received, shell, script, typed, dropped,
                                 crashed>>

pipe_auto_read(p) ==
  \/ ~NDEBUG /\ fifo_avail(p) = 0 /\ End("full before read")
  \/ /\ NDEBUG \/ fifo_avail(p) > 0
     /\ ReadData(p) \/ (p = "master_output" /\ ReadStart)

\* The assert of pipe_auto_write, on the fifo before and after the write.
AssertFailsEarly(q, left) == Full(q)

AssertFails(q, left) == Full(left)

pipe_auto_write(p) ==
  LET a == Sink(head, p)
      q == fifo[p]
  IN  \E k \in IF q = <<>> THEN {0} ELSE WriteResults(conn, a, Len(q)) :
        LET left == Suffix(q, Positive(k))
            src == Source(head, p)
            resume == block_read[p] /\ src \in (IF k = Epipe THEN conn \ {a} ELSE conn)
        IN  \/ ~NDEBUG /\ AssertFails(q, left) /\ End("full after write")
            \/ /\ NDEBUG \/ ~AssertFails(q, left)
               /\ fifo' = [fifo EXCEPT ![p] = left]
               /\ Deliver(a, SubSeq(q, 1, Positive(k)))
               /\ conn' = IF k = Epipe THEN conn \ {a} ELSE conn
               /\ block_read' = [block_read EXCEPT ![p] = @ /\ ~resume]
               /\ fd_read' = (IF resume THEN fd_read \union {src} ELSE fd_read) \intersect conn'
               /\ fd_write' = (IF left = <<>> THEN fd_write \ {a} ELSE fd_write) \intersect conn'
               /\ UNCHANGED <<head, proc, savebuf, pc, children, script, typed, inbox,
                              astray, dropped, crashed>>

-----------------------------------------------------------------------------
Init ==
  /\ head = "echo" /\ proc = Procs("echo") /\ savebuf = <<>>
  /\ fifo = [p \in Pipe |-> <<>>] /\ block_read = [p \in Pipe |-> FALSE]
  /\ conn = Echo \union {"master"} /\ fd_read = {"stdin", "master"} /\ fd_write = {}
  /\ gfd_read = {} /\ gfd_write = {}
  /\ pc = "wait" /\ sigchild_received = FALSE
  /\ rz = "none" /\ shell = "running" /\ killed = "no"
  /\ script = Script /\ typed = 0
  /\ inbox = [a \in {"stdin", "master", "rzread"} |-> <<>>]
  /\ room = [a \in {"stdout", "master"} |-> MaxRoom] /\ rzin = <<>>
  /\ shown = <<>> /\ astray = <<>> /\ dropped = <<>> /\ late = FALSE
  /\ crashed = FALSE

Readable(a) == \/ inbox[a] # <<>>
               \/ a = "rzread" /\ rz = "zombie"
               \/ a = "master" /\ shell = "zombie" /\ 0 \in PtyEnd
Writable(a) == RoomIn(a) > 0 \/ Broken(a)

\* The shell was reaped or the master closed: all tasks are removed, rz's first.
Ending == shell = "reaped" \/ "master" \notin conn
RemoveAll == pc' = IF head = "rz" THEN "remove" ELSE "exited"

(***************************************************************************)
(* The top of the loop: master_idle sees the master closed, or select      *)
(* returns, with events or, during a transfer, after idle_proc's 300 ms.   *)
(* A signal does not wake it: io_wait calls select again on EINTR.         *)
(***************************************************************************)
master_idle ==
  /\ pc = "wait" /\ "master" \notin conn
  /\ RemoveAll
  /\ UNCHANGED <<structs, select, events, children, outside, history>>

TimesOutNever == FALSE

TimesOut == head = "rz"

io_wait ==
  /\ pc = "wait" /\ "master" \in conn
  /\ gfd_read' = {a \in fd_read : Readable(a)}
  /\ gfd_write' = {a \in fd_write : Writable(a)}
  /\ gfd_read' \union gfd_write' # {} \/ TimesOut
  /\ pc' = "dispatch"
  /\ UNCHANGED <<structs, select, children, outside, history>>

(***************************************************************************)
(* io_dispatch: the atoms in the order of their descriptors, each one's    *)
(* read event before its write event.  The terminal's stdout still writes  *)
(* for master_output during a transfer.                                    *)
(***************************************************************************)
Turn(a) ==
  /\ pc = "dispatch" /\ a \in gfd_read \union gfd_write
  /\ \A b \in gfd_read \union gfd_write : Rank[a] <= Rank[b]

Typing(a) == a = "stdin" /\ head = "rz"

DispatchRead(a) ==
  /\ Turn(a) /\ a \in gfd_read /\ a \in conn /\ ~Typing(a)
  /\ gfd_read' = gfd_read \ {a} /\ UNCHANGED gfd_write
  /\ pipe_auto_read(IF a = "master" THEN "master_output" ELSE "input_master")

typing_io_proc ==
  /\ Turn("stdin") /\ "stdin" \in gfd_read /\ Typing("stdin")
  /\ gfd_read' = gfd_read \ {"stdin"} /\ UNCHANGED gfd_write
  /\ \E r \in 1..Len(inbox["stdin"]) :
       /\ Took("stdin", r)
       /\ killed' = IF "cancel" \in Elements(SubSeq(inbox["stdin"], 1, r))
                    THEN KilledFor("user") ELSE killed
  /\ UNCHANGED <<structs, select, pc, sigchild_received, rz, shell, script, typed, room, rzin,
                 history>>

\* The master's read event may have closed it; its write event is handled all the same.
DispatchWrite(a) ==
  /\ Turn(a) /\ a \in gfd_write \ gfd_read /\ (a \in conn \/ a = "master")
  /\ gfd_write' = gfd_write \ {a} /\ UNCHANGED gfd_read
  /\ pipe_auto_write(IF a = "master" THEN "input_master" ELSE "master_output")

DispatchStale(a) ==
  /\ Turn(a) /\ a \notin conn /\ a # "master"
  /\ gfd_read' = gfd_read \ {a} /\ gfd_write' = gfd_write \ {a}
  /\ UNCHANGED <<structs, select, pc, children, outside, history>>

-----------------------------------------------------------------------------
(***************************************************************************)
(* master_check_sigchild: one child is waited for, whatever the number of  *)
(* signals, and sigchild_received is reset when all that follows is done.  *)
(***************************************************************************)
NoChild == ~sigchild_received \/ (rz # "zombie" /\ shell # "zombie")

master_check_sigchild ==
  /\ pc = "dispatch" /\ gfd_read = {} /\ gfd_write = {}
  /\ \/ NoChild /\ pc' = "wait" /\ UNCHANGED shell
     \/ /\ sigchild_received /\ rz = "zombie"
        /\ pc' = IF "rzread" \in conn THEN "reap" ELSE "remove"
        /\ UNCHANGED shell
     \/ sigchild_received /\ shell = "zombie" /\ shell' = "reaped" /\ RemoveAll
  /\ UNCHANGED <<structs, select, events, sigchild_received, rz, killed, outside, history>>

\* task_default_sigchild reads what rz left in its pipe, up to the end of the file ...
task_default_sigchild ==
  /\ pc = "reap" /\ "rzread" \in conn
  /\ pipe_auto_read("input_master")
  /\ UNCHANGED events

\* ... and writes to the master what it takes of it at once.
fifo_write ==
  /\ pc = "reap" /\ "rzread" \notin conn
  /\ LET q == fifo["input_master"]
     IN  \E k \in IF q = <<>> THEN {0} ELSE WriteResults(conn, "master", Len(q)) :
           /\ fifo' = [fifo EXCEPT !["input_master"] = Suffix(q, Positive(k))]
           /\ Deliver("master", SubSeq(q, 1, Positive(k)))
  /\ pc' = "remove"
  /\ UNCHANGED <<head, proc, block_read, savebuf, select, events, children, script, typed, inbox,
                 astray, dropped, crashed>>

\* task_remove: the echo task is spliced in again, then rz's atoms are destroyed.
AfterRemoveQuiet == "restore"

AfterRemove == IF opt_quiet THEN "restore" ELSE "idle_end"

task_remove ==
  /\ pc = "remove"
  /\ head' = "echo" /\ proc' = Procs("echo")
  /\ block_read' = [block_read EXCEPT !["input_master"] = FALSE]
  /\ conn' = conn \ RzAtoms
  /\ fd_read' = (fd_read \ RzAtoms) \union StdinOpen /\ fd_write' = fd_write \ RzAtoms
  /\ inbox' = [inbox EXCEPT !["rzread"] = <<>>] /\ rzin' = <<>>
  /\ rz' = "none" /\ killed' = "no"
  /\ pc' = AfterRemove
  /\ UNCHANGED <<fifo, savebuf, events, sigchild_received, shell, script, typed, room, history>>

\* Puts s into master_output, whose sink is the terminal again.
pipe_write(s) ==
  LET q == fifo["master_output"]
  IN  \E k \in IF q = <<>> THEN WriteResults(conn, "stdout", Len(s)) ELSE {0} :
        LET sent == Positive(k)
            kept == Least(Len(s) - sent, fifo_avail("master_output"))
        IN  /\ fifo' = [fifo EXCEPT !["master_output"] = @ \o SubSeq(s, sent + 1, sent + kept)]
            /\ Deliver("stdout", SubSeq(s, 1, sent))
            /\ dropped' = dropped \o Suffix(s, sent + kept)
            /\ fd_write' = IF sent = Len(s) THEN fd_write \ {"stdout"}
                           ELSE fd_write \union {"stdout"}

idle_end ==
  /\ pc = "idle_end"
  /\ pipe_write(<<"status">>)
  /\ pc' = "restore"
  /\ UNCHANGED <<head, proc, block_read, savebuf, conn, fd_read, events, children, script, typed,
                 inbox, astray, crashed>>

\* The rest of rzt_destructor_proc, and what the callers of task_remove do then.
rzt_destructor_proc_forgets ==
  /\ pc = "restore"
  /\ savebuf' = <<>>
  /\ pc' = IF Ending THEN "exited" ELSE "wait"
  /\ sigchild_received' = (sigchild_received /\ Ending)
  /\ UNCHANGED <<head, fifo, proc, block_read, select, events, rz, shell, killed, outside, history>>

rzt_destructor_proc ==
  /\ pc = "restore"
  /\ IF savebuf = <<>> THEN UNCHANGED <<fifo, room, rzin, shown, late, dropped, fd_write>>
     ELSE pipe_write(savebuf)
  /\ savebuf' = <<>>
  /\ pc' = IF Ending THEN "exited" ELSE "wait"
  /\ sigchild_received' = (sigchild_received /\ Ending)
  /\ UNCHANGED <<head, proc, block_read, conn, fd_read, events, rz, shell, killed, script, typed,
                 inbox, astray, crashed>>

-----------------------------------------------------------------------------
\* The shell and what it runs, rz, the user.  They go on while rzh does.
Running == pc \in {"wait", "dispatch", "reap", "remove", "idle_end", "restore"}

ShellPrint ==
  /\ Running /\ shell = "running" /\ script # <<>>
  /\ inbox' = [inbox EXCEPT !["master"] = Append(@, Head(script))]
  /\ script' = Tail(script)
  /\ UNCHANGED <<structs, select, events, pc, children, typed, room, rzin, history>>

ShellExit ==
  /\ Running /\ ShellMayExit /\ shell = "running"
  /\ shell' = "zombie" /\ sigchild_received' = TRUE
  /\ UNCHANGED <<structs, select, events, pc, rz, killed, outside, history>>

\* rz acknowledges what it is sent, a ZFIN by its own.
RzRead ==
  /\ Running /\ rz = "running" /\ rzin # <<>>
  /\ rzin' = Tail(rzin)
  /\ inbox' = [inbox EXCEPT !["rzread"] = Append(@, IF Head(rzin) = "fin" THEN "rzfin" ELSE "ack")]
  /\ rz' = IF Head(rzin) = "fin" THEN "finished" ELSE rz
  /\ UNCHANGED <<structs, select, events, pc, sigchild_received, shell, killed, script, typed, room,
                 history>>

\* It may have more to say than that.
RzSpeaks ==
  /\ Running /\ rz = "finished" /\ "late" \notin Elements(inbox["rzread"])
  /\ inbox' = [inbox EXCEPT !["rzread"] = Append(@, "late")]
  /\ UNCHANGED <<structs, select, events, pc, children, script, typed, room, rzin, history>>

RzExit ==
  /\ Running
  /\ rz = "finished" \/ (rz = "running" /\ (killed # "no" \/ RzMayDie))
  /\ rz' = "zombie" /\ sigchild_received' = TRUE
  /\ crashed' = (crashed \/ (rz = "running" /\ killed # "zfin"))
  /\ UNCHANGED <<structs, select, events, pc, shell, killed, outside, shown, astray, dropped, late>>

UserTypes ==
  /\ Running /\ typed < MaxTyped
  /\ typed' = typed + 1
  /\ \E key \in {"key", "cancel"} : inbox' = [inbox EXCEPT !["stdin"] = Append(@, key)]
  /\ UNCHANGED <<structs, select, events, pc, children, script, room, rzin, history>>

Consume(a) ==
  /\ Running /\ room[a] < MaxRoom /\ (a = "master" => shell = "running")
  /\ room' = [room EXCEPT ![a] = @ + 1]
  /\ UNCHANGED <<structs, select, events, pc, children, script, typed, inbox, rzin, history>>

Dispatch == \/ \E a \in Atom : DispatchRead(a) \/ DispatchWrite(a) \/ DispatchStale(a)
            \/ typing_io_proc

Loop == \/ master_idle \/ io_wait \/ Dispatch \/ master_check_sigchild
        \/ task_default_sigchild \/ fifo_write \/ task_remove \/ idle_end \/ rzt_destructor_proc

Environment == \/ ShellPrint \/ ShellExit \/ RzRead \/ RzSpeaks \/ RzExit \/ UserTypes
               \/ Consume("stdout") \/ Consume("master")

Next == Loop \/ Environment

Spec == Init /\ [][Next]_vars

\* The loop of main() goes on.
FairSpec == Spec /\ WF_vars(Loop)

-----------------------------------------------------------------------------
Tokens == Elements(Script) \union {"status", "key", "cancel", "ack", "rzfin", "late"}
Asserts == {"full before read", "full after write"}

TypeOK ==
  /\ head \in {"echo", "rz"}
  /\ fifo \in [Pipe -> Seq(Tokens)] /\ \A p \in Pipe : Len(fifo[p]) <= Capacity
  /\ proc \in [Pipe -> {"none", "zrq_scan", "zfin_scan", "zfin_save", "zfin_drop"}]
  /\ block_read \in [Pipe -> BOOLEAN]
  /\ conn \subseteq Atom /\ fd_read \subseteq conn /\ fd_write \subseteq conn
  /\ gfd_read \subseteq Atom /\ gfd_write \subseteq Atom
  /\ Running \/ pc \in Asserts \union {"bailed", "exited"}
  /\ {sigchild_received, late, crashed} \subseteq BOOLEAN
  /\ killed \in {"no", "user", "zfin"}
  /\ rz \in {"none", "running", "finished", "zombie"}
  /\ shell \in {"running", "zombie", "reaped"}
  /\ \A s \in {script, savebuf, rzin, shown, astray, dropped} : s \in Seq(Tokens)
  /\ inbox \in [{"stdin", "master", "rzread"} -> Seq(Tokens)]
  /\ room \in [{"stdout", "master"} -> 0..MaxRoom]
  /\ Len(rzin) <= MaxRoom /\ typed \in 0..MaxTyped

(***************************************************************************)
(* What the shell prints for the terminal arrives there once, in order,    *)
(* whatever a transfer, its end or a crash of rz does to the pipe it is    *)
(* in: what was shown, is in the fifo, was saved behind the ZFIN and is    *)
(* yet to be read make up the script.  Missing is only what zscan_start    *)
(* sent to the shell and what pipe_write had no room for.                  *)
(***************************************************************************)
Ordered(s) == \A i, j \in DOMAIN s :
                i < j /\ s[i] \in Text /\ s[j] \in Text => Place(Script, s[i]) < Place(Script, s[j])

TextInOrder ==
  LET all == shown \o fifo["master_output"] \o savebuf \o (inbox["master"] \o script)
      missing == Elements(astray) \union Elements(dropped)
  IN  Ordered(all) /\ Elements(all) \intersect Text = (Elements(Script) \intersect Text) \ missing

(***************************************************************************)
(* No text of the shell is taken for zmodem data: neither what was in the  *)
(* pipe before the transfer nor what follows its ZFIN goes to rz.          *)
(***************************************************************************)
NoTextToRz ==
  /\ Elements(rzin) \intersect Text = {}
  /\ head = "rz" => Elements(fifo["master_output"]) \intersect Text = {}

(***************************************************************************)
(* "Terminating the connection without sending garbage onto the user's     *)
(* terminal" (zfin.c:12): no part of the transfer is shown, unless rz died *)
(* or the user had it killed before it was done.                           *)
(***************************************************************************)
CleanTerminal == ~crashed => Elements(shown) \subseteq Text \union {"status"}

(***************************************************************************)
(* "This prevents further packets from hitting the sender and being        *)
(* interpreted as shell commands" (zfin.c:22): the shell gets nothing that *)
(* rz says after its ZFIN, the pipe being spliced to the user or not.      *)
(***************************************************************************)
NoLatePacket == ~late /\ "late" \notin Elements(fifo["input_master"])

(***************************************************************************)
(* A pipe that holds something waits for its sink, across the splices of   *)
(* task_install and task_remove: "There's still data in the fifo so the    *)
(* last write didn't complete.  We need to be notified when we can write   *)
(* again" (pipe.c:120); a source is not read only while that holds and the *)
(* fifo is full.  It is false with opt_quiet.                              *)
(***************************************************************************)
WriteNotified ==
  pc = "wait" => \A p \in Pipe :
    /\ fifo[p] # <<>> /\ Sink(head, p) \in conn => Sink(head, p) \in fd_write
    /\ Source(head, p) \in conn \ fd_read => block_read[p] /\ fifo_avail(p) = 0

(***************************************************************************)
(* "if there's no more room in the fifo then we need to stop trying to     *)
(* read.  We'll restart reading when we manage to write some bytes"        *)
(* (pipe.c:126): a pipe that has stopped reading waits to write.  It       *)
(* follows from WriteNotified, and is false with opt_quiet.                *)
(***************************************************************************)
ReadRestarts ==
  pc = "wait" => \A p \in Pipe :
    Source(head, p) \in conn \ fd_read /\ Sink(head, p) \in conn => Sink(head, p) \in fd_write

(***************************************************************************)
(* The asserts of pipe.c have few causes.  The one of pipe_auto_read fails *)
(* only once a transfer has begun, because task_pipe_setup reads again     *)
(* into a fifo that is full or pipe_write filled it; the one of            *)
(* pipe_auto_write only when the sink is gone or a write event of the      *)
(* terminal is taken for one of rz.                                        *)
(***************************************************************************)
AssertCause ==
  /\ pc = "full before read" => "start" \notin Elements(inbox["master"] \o script)
  /\ pc = "full after write" =>
       "master" \notin conn \/ (head = "rz" /\ (rz = "zombie" \/ "stdout" \in fd_write))

(***************************************************************************)
(* A transfer that is over, or whose rz crashed or was cancelled, gives    *)
(* the terminal back: rz is reaped and its task removed.                   *)
(***************************************************************************)
RzReaped == rz = "zombie" ~> (rz # "zombie" \/ ~Running)

(***************************************************************************)
(* "The signal causes select to return early so we'll handle it before     *)
(* doing any I/O" (consoletask.c:38): a shell that ends is reaped, and     *)
(* rzh ends, with no help from outside.                                    *)
(***************************************************************************)
ShellReaped == shell = "zombie" ~> ~Running
=============================================================================
