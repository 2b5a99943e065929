------------------------------ MODULE Process ------------------------------
(***************************************************************************)
(* The life of the rzh process from the pty to exit(): the descriptors,    *)
(* the terminal and the children.  It opens a pty and forks the shell      *)
(* (bgio.c), forks rz with three pipes when the shell's output announces a *)
(* transfer (rztask.c), closes what ends, and removes a task, and with the *)
(* last the program, when its child is gone (task.c, consoletask.c).       *)
(*                                                                         *)
(* What the bytes are and when a fifo is full is Session and Pipes: here a *)
(* registered descriptor may become ready whenever select is called.       *)
(***************************************************************************)
EXTENDS Startup

CONSTANT MaxTransfers     \* bound: transfers in one session

ASSUME MaxTransfersAssumption == MaxTransfers \in Nat

RzAtoms == {"rzread", "rzwrite", "rzerr"}

\* The files of the three pipes, each pipe as pipe() returns it.
RzPipes == <<"chstdin.r", "chstdin.w", "chstdout.r", "chstdout.w", "chstderr.r", "chstderr.w">>

\* The file an atom is for.
FileOf(m, a) ==
  CASE a = "stdin"   -> "in"
    [] a = "stdout"  -> "out"
    [] a = "master"  -> IF m.conn_fd >= 0 THEN "socket" ELSE "ptm"
    [] a = "rzread"  -> "chstdout.r"
    [] a = "rzwrite" -> "chstdin.w"
    [] OTHER         -> "chstderr.r"

\* tcsetattr(0), where that is the terminal.
Terminal == me.t[0] = "in"

bgio_close(m) == close(m, {<<m.st_master_fd, "ptm">>, <<m.st_slave_fd, "pts">>})

\* Faulty variant: the log file is not closed.
rzh_fork_prepare_log(m) == close(m, {<<m.conn_fd, "socket">>})

rzh_fork_prepare(m) == log_close(close(m, {<<m.conn_fd, "socket">>}))

\* The standard descriptors are what they were, and there is a pty.
Plain(m) == \A f \in Standard : m.t[f] = Given(f)
Pty(m) == m.conn_fd < 0

\* What is remembered of a child when it is exec'ed by a process like m.
Execed(child, m, dir) ==
  [t |-> child.t, foreign |-> child.foreign, atoms |-> io_exit_check(child),
   checked |-> fdcheck(child), dir |-> dir, plain |-> Plain(m)]

-----------------------------------------------------------------------------
(***************************************************************************)
(* bgio_start, and the shell's side of its fork.  If there is no pty or no *)
(* process, "kill(0, SIGTERM)" ends rzh itself.                            *)
(***************************************************************************)
do_child(m) ==
  LET own == close(m, {<<m.st_master_fd, "ptm">>})
      std == dup2(dup2(dup2(own, m.st_slave_fd, 0), m.st_slave_fd, 1), m.st_slave_fd, 2)
  IN  log_close(close(std, {<<m.st_slave_fd, "pts">>}))

Openpty(m) == [open(m, <<"ptm", "pts">>) EXCEPT !.st_master_fd = Place(m, 1),
                                                !.st_slave_fd = Place(m, 2)]

openpty_fails ==
  /\ pc = "setup" /\ Pty(me)
  /\ st_stdin_ios' = IF Terminal THEN termios ELSE st_stdin_ios
  /\ Goto("killed")
  /\ UNCHANGED <<setup, me, head, events, transfers, children, termios, place>>

bgio_start ==
  /\ pc = "setup" /\ Pty(me) /\ Room(me) >= 2
  /\ me' = Openpty(me)
  /\ IF Terminal THEN st_stdin_ios' = termios /\ termios' = "raw" ELSE UNCHANGED terminal
  /\ \/ Goto("killed") /\ UNCHANGED <<shell, shellat>>
     \/ /\ Goto("install")
        /\ shell' = "running" /\ shellat' = Execed(do_child(me'), me, cwd)
  /\ UNCHANGED <<setup, head, events, transfers, rzat, rz, sigchild_received, place>>

(***************************************************************************)
(* The rest of master_setup, and the echo task.  A SIGCHLD that came       *)
(* before the handler was installed here is lost.                          *)
(***************************************************************************)
Install == pc = "install" \/ (pc = "setup" /\ ~Pty(me))

\* The first register that failed is the end: bail(c), or memory is overwritten.
Bails(m, c) == IF m.err = "overrun" THEN Goto("overrun") ELSE Exit(c)

master_setup ==
  /\ Install
  /\ LET mp == io_add(me, "master", IF Pty(me) THEN me.st_master_fd ELSE me.conn_fd)
         echo == io_add(io_add(mp, "stdin", 0), "stdout", 1)
         alloc == opt.inma >= 0 /\ opt.maou >= 0
     IN  /\ me' = IF alloc THEN echo ELSE mp
         /\ \/ mp.err # "none" /\ Bails(mp, 77) /\ UNCHANGED head
            \/ mp.err = "none" /\ ~alloc /\ Exit(99) /\ UNCHANGED head
            \/ mp.err = "none" /\ alloc /\ echo.err # "none" /\ Exit(77) /\ UNCHANGED head
            \/ alloc /\ echo.err = "none" /\ Goto("idle") /\ head' = "echo"
  /\ UNCHANGED <<setup, events, transfers, children, terminal, place>>

-----------------------------------------------------------------------------
(***************************************************************************)
(* The end of a file or of a reader (pipe_fifo_read, pipe_fifo_write): the *)
(* descriptor is closed, its atom taken out.  The pty lasts as long as rzh *)
(* keeps a descriptor of the slave.                                        *)
(***************************************************************************)
Ended(m, a) == io_del(close(m, {<<m.fd[a], FileOf(m, a)>>}), a)
MayEnd(m, a) == {m} \union IF m.fd[a] >= 0 /\ (a = "master" => ~Pty(m)) THEN {Ended(m, a)} ELSE {}

\* task_pipe_setup: where master_output is written to.
Output == IF head = "rz" THEN "rzwrite" ELSE "stdout"
SinkOf(a) == IF a = "master" THEN Output ELSE "master"

(***************************************************************************)
(* rzt_destructor_proc after task_destroy: the descriptors of the spec are *)
(* closed, also those that are closed already.                             *)
(***************************************************************************)
task_default_destructor(m) ==
  close(m, {<<m.spec.infd, "chstdout.r">>, <<m.spec.outfd, "chstdin.w">>,
            <<m.spec.errfd, "chstderr.r">>})

RzRemoved(m) ==
  [task_default_destructor(io_del(io_del(io_del(m, "rzerr"), "rzwrite"), "rzread"))
     EXCEPT !.spec = NoRz]

\* echo_destructor: "Don't want to close stdin/stdout/stderr".  Faulty variant: it does.
EchoRemovedClosing(m) == close(io_del(io_del(m, "stdin"), "stdout"), {<<0, "in">>, <<1, "out">>})

EchoRemoved(m) == io_del(io_del(m, "stdin"), "stdout")

(***************************************************************************)
(* The last task_remove: master_pipe_destructor, bail(0), and the end of   *)
(* main().                                                                 *)
(***************************************************************************)
\* Faulty variant: the files are closed as before a fork.
bgio_stop_files == UNCHANGED termios

bgio_stop == termios' = IF Terminal THEN st_stdin_ios ELSE termios

RemoveAll ==
  /\ me' = rzh_fork_prepare(bgio_close(io_del(EchoRemoved(
             IF head = "rz" THEN RzRemoved(me) ELSE me), "master")))
  /\ bgio_stop
  /\ head' = None /\ Exit(0)
  /\ UNCHANGED <<setup, transfers, rzat, shellat, rz, sigchild_received, st_stdin_ios, place>>

-----------------------------------------------------------------------------
\* Faulty variant: "we need to dispatch before handling sigchlds".
FollowingEarly == [idle |-> "wait", wait |-> "sigchild", sigchild |-> "dispatch", dispatch |-> "idle"]

\* The loop of main().
Following == [idle |-> "wait", wait |-> "dispatch", dispatch |-> "sigchild", sigchild |-> "idle"]

\* idle_proc may write its line, to the descriptor of the task below.
IdleProc(m) == IF head = "rz" /\ ~opt.quiet
               THEN {m, [m EXCEPT !.foreign = @ \union Misused(m, 1, "out")]}
               ELSE {m}

master_idle ==
  /\ pc = "idle"
  /\ \/ me.fd["master"] < 0 /\ RemoveAll /\ UNCHANGED <<shell, events>>
     \/ /\ me.fd["master"] >= 0
        /\ me' \in IdleProc(me) /\ Goto(Following["idle"])
        /\ UNCHANGED <<setup, head, events, transfers, children, terminal, place>>

\* What select() watches: only descriptors up to max_fd, of atoms that are read or written.
Watched(atoms) == {f \in 0..me.max_fd : Connection(me, f) \in atoms}

io_wait ==
  /\ pc = "wait"
  /\ gfd_read' \in SUBSET Watched({"stdin", "master", "rzread", "rzerr"})
  /\ gfd_write' \in SUBSET Watched({"stdout", "master", "rzwrite"})
  /\ gfd_read' \union gfd_write' # {} \/ head = "rz"
  /\ reported' = transfers
  /\ Goto(Following["wait"])
  /\ UNCHANGED <<setup, me, head, transfers, children, terminal, place>>

(***************************************************************************)
(* io_dispatch: the descriptors in ascending order, the read of one before *)
(* its write.                                                              *)
(***************************************************************************)
Pending == gfd_read \union gfd_write
Turn == Min(Pending)
Reading == Turn \in gfd_read
AtomOf == Connection(me, Turn)

Take == /\ pc = "dispatch" /\ Pending # {}
        /\ gfd_read' = gfd_read \ {Turn}
        /\ gfd_write' = IF Reading THEN gfd_write ELSE gfd_write \ {Turn}
        /\ UNCHANGED reported

Settled == UNCHANGED <<setup, children, terminal, place, transfers>>

Verso == AtomOf = "stdin" /\ head = "rz"
PipeEvent == AtomOf \notin {NoAtom, "rzerr"} /\ ~Verso

\* The fifo of an event.  With a size of 0, counting divides by 0; with 1, there never is room.
FifoOf(a, read) == IF read = (a = "master") THEN opt.maou ELSE opt.inma
Useless(size) == size \in {0, 1}

Crash == /\ Take /\ PipeEvent /\ Useless(FifoOf(AtomOf, Reading))
         /\ Goto("crashed") /\ UNCHANGED <<me, head>> /\ Settled

\* A read may find the end of the file, and what it read a sink whose reader is gone.
pipe_auto_read ==
  /\ Take /\ Reading /\ PipeEvent /\ ~Useless(FifoOf(AtomOf, TRUE))
  /\ me' \in UNION {MayEnd(m, SinkOf(AtomOf)) : m \in MayEnd(me, AtomOf)}
  /\ UNCHANGED <<pc, code, head>> /\ Settled

pipe_auto_write ==
  /\ Take /\ ~Reading /\ PipeEvent /\ ~Useless(FifoOf(AtomOf, FALSE))
  /\ me' \in MayEnd(me, IF AtomOf = "master" THEN "master" ELSE Output)
  /\ UNCHANGED <<pc, code, head>> /\ Settled

\* typing_io_proc ignores the end of the file; so does a stale event.
IgnoredEvent == /\ Take /\ (AtomOf = NoAtom \/ Verso)
                /\ UNCHANGED <<pc, code, me, head>> /\ Settled

\* At the end of rz's errors the atom goes, the descriptor stays open.
cherr_proc == /\ Take /\ AtomOf = "rzerr"
              /\ me' \in {me, io_del(me, "rzerr")}
              /\ UNCHANGED <<pc, code, head>> /\ Settled

-----------------------------------------------------------------------------
(***************************************************************************)
(* fork_rz_process.  Where its six descriptors are, the parent's ends and  *)
(* the child's.                                                            *)
(***************************************************************************)
RzFds(m) == [k \in 1..6 |-> Place(m, k)]
Ends(m, end, K) == close(m, {<<end[k], RzPipes[k]>> : k \in K})
ParentEnds == {2, 3, 5}

\* Faulty variant: the child's ends are left open in the parent.
ChildEndsNone == {}

ChildEnds == {1, 4, 6}

\* The bail() when the first, second or third pipe cannot be made.
PipesFail == IF Room(me) < 2 THEN 77 ELSE IF Room(me) < 4 THEN 78 ELSE 79

\* task_fork_prepare: the echo task and the master are destroyed, nothing is freed.
task_fork_prepare(m) == bgio_close(io_del(EchoRemoved(m), "master"))

\* Faulty variant: rz gets the other end of its stdin.
RzChildOtherEnd(m, end) ==
  LET std == dup2(dup2(dup2(m, end[2], 0), end[4], 1), end[6], 2)
  IN  rzh_fork_prepare(task_fork_prepare(Ends(Ends(std, end, ParentEnds), end, {1, 4, 6})))

RzChild(m, end) ==
  LET own == Ends(m, end, ParentEnds)
      std == dup2(dup2(dup2(own, end[1], 0), end[4], 1), end[6], 2)
  IN  rzh_fork_prepare(task_fork_prepare(Ends(std, end, {1, 4, 6})))

chdir_to_dldir == IF opt.dir /\ dldir THEN "dldir" ELSE cwd

RzInstalled(m, end) ==
  LET spec == [infd |-> end[3], outfd |-> end[2], errfd |-> end[5]]
      parent == [Ends(m, end, ChildEnds) EXCEPT !.spec = spec]
  IN  io_add(io_add(io_add(parent, "rzread", spec.infd), "rzwrite", spec.outfd),
             "rzerr", spec.errfd)

(***************************************************************************)
(* The master's output holds the start header: zscan_start may give up on  *)
(* the drain, the pipes or the fork may fail.                              *)
(***************************************************************************)
Announced == /\ Take /\ Reading /\ AtomOf = "master" /\ head = "echo"
             /\ ~Useless(opt.maou) /\ transfers < MaxTransfers

StartFails ==
  /\ Announced
  /\ \/ Exit(33) /\ UNCHANGED me
     \/ Room(me) < 6 /\ Exit(PipesFail)
        /\ me' = open(me, SubSeq(RzPipes, 1, 2 * (Room(me) \div 2)))
     \/ Room(me) >= 6 /\ Exit(23) /\ me' = open(me, RzPipes)
  /\ UNCHANGED head /\ Settled

rztask_install ==
  /\ Announced /\ Room(me) >= 6
  /\ LET m == open(me, RzPipes)
         end == RzFds(me)
         installed == RzInstalled(m, end)
     IN  /\ rzat' = Execed(RzChild(m, end), me, chdir_to_dldir)
         /\ IF installed.err = "none"
            THEN head' = "rz" /\ UNCHANGED <<pc, code>>
            ELSE /\ Bails(installed, IF installed.fd["rzwrite"] < 0 THEN 77 ELSE 72)
                 /\ UNCHANGED head
         /\ me' \in {installed} \union
                   (IF installed.err = "none" THEN {Ended(installed, "rzwrite")} ELSE {})
  /\ rz' = "running" /\ transfers' = transfers + 1
  /\ UNCHANGED <<setup, shellat, shell, sigchild_received, terminal, place>>

DispatchDone ==
  /\ pc = "dispatch" /\ Pending = {}
  /\ Goto(Following["dispatch"])
  /\ UNCHANGED <<setup, me, head, events, transfers, children, terminal, place>>

-----------------------------------------------------------------------------
(***************************************************************************)
(* master_check_sigchild: one of the dead children is waited for.  For rz, *)
(* its pipe is read to the end, which may find the master closed, and its  *)
(* task removed; for the shell, all tasks are.                             *)
(***************************************************************************)
Dead == {c \in {"rz", "shell"} : (IF c = "rz" THEN rz ELSE shell) = "dead"}

NoSigchild ==
  /\ pc = "sigchild" /\ (~sigchild_received \/ Dead = {})
  /\ Goto(Following["sigchild"])
  /\ UNCHANGED <<setup, me, head, events, transfers, children, terminal, place>>

Unread == me.fd["rzread"] >= 0

task_default_sigchild ==
  /\ pc = "sigchild" /\ sigchild_received /\ rz = "dead"
  /\ rz' = None
  /\ IF Unread /\ Useless(opt.inma)
     THEN Goto("crashed") /\ UNCHANGED <<me, head>>
     ELSE /\ \E m \in IF Unread THEN MayEnd(me, "master") ELSE {me} :
               me' = RzRemoved(IF Unread THEN Ended(m, "rzread") ELSE m)
          /\ head' = "echo" /\ Goto("clear")
  /\ UNCHANGED <<setup, events, transfers, rzat, shellat, shell, sigchild_received, terminal, place>>

master_pipe_sigchild ==
  /\ pc = "sigchild" /\ sigchild_received /\ shell = "dead"
  /\ shell' = None /\ RemoveAll /\ UNCHANGED events

\* The flag is cleared when all that is done, a later signal with it.
SigchildCleared ==
  /\ pc = "clear"
  /\ sigchild_received' = FALSE
  /\ Goto(Following["sigchild"])
  /\ UNCHANGED <<setup, me, head, events, transfers, rzat, shellat, rz, shell, terminal, place>>

-----------------------------------------------------------------------------
Final == {"aborted", "exited", "killed", "crashed", "overrun"}

Running == pc \notin Final

\* The children end; before master_setup the signal finds no handler.
ShellExit ==
  /\ Running /\ shell = "running" /\ shell' = "dead"
  /\ sigchild_received' = (pc # "install")
  /\ UNCHANGED <<pc, code, setup, me, head, events, transfers, rzat, shellat, rz, terminal, place>>

RzExit ==
  /\ Running /\ rz = "running" /\ rz' = "dead"
  /\ sigchild_received' = TRUE
  /\ UNCHANGED <<pc, code, setup, me, head, events, transfers, rzat, shellat, shell, terminal, place>>

RemoveDir ==
  /\ Running /\ opt.dir /\ dldir /\ dldir' = FALSE
  /\ UNCHANGED <<pc, code, setup, me, head, events, transfers, children, terminal, cwd>>

Done == ~Running /\ UNCHANGED vars

Dispatch == \/ Crash \/ pipe_auto_read \/ pipe_auto_write \/ IgnoredEvent \/ cherr_proc
            \/ StartFails \/ rztask_install \/ DispatchDone

Loop == \/ master_idle \/ io_wait \/ Dispatch
        \/ NoSigchild \/ task_default_sigchild \/ master_pipe_sigchild \/ SigchildCleared

Next == \/ process_args \/ io_socket_connect_fd \/ preflight
        \/ openpty_fails \/ bgio_start \/ master_setup
        \/ Loop \/ ShellExit \/ RzExit \/ RemoveDir \/ Done

Spec == Init /\ [][Next]_vars

-----------------------------------------------------------------------------
TypeOK ==
  /\ pc \in Final \union DOMAIN Following \union
           {"args", "connect", "preflight", "setup", "install", "clear"}
  /\ code \in 0..99 /\ head \in {None, "echo", "rz"}
  /\ me.connections \in [Slot -> Atom \union {NoAtom}] /\ me.max_fd \in Slot \union {-1}
  /\ me.fd \in [Atom -> Slot \union {-1}]
  /\ DOMAIN me.t = Fd /\ me.conn_fd \in Fd \union {-1} /\ me.log_fd \in Fd \union {-1}
  /\ gfd_read \subseteq Slot /\ gfd_write \subseteq Slot
  /\ transfers \in 0..MaxTransfers /\ reported \in 0..transfers
  /\ {rz, shell} \subseteq {None, "running", "dead"} /\ sigchild_received \in BOOLEAN
  /\ {termios, st_stdin_ios} \subseteq {"cooked", "raw", "zero"}
  /\ cwd \in {"home", "dldir"} /\ dldir \in BOOLEAN
  /\ \A image \in {rzat, shellat} :
       image = None \/ (DOMAIN image = {"t", "foreign", "atoms", "checked", "dir", "plain"})

(***************************************************************************)
(* A descriptor number that is remembered (in an atom, a task_spec,        *)
(* st_master_fd, conn_fd, or the 1 of the progress line) is used only for  *)
(* the file it was noted for, although numbers are closed twice and used   *)
(* again: in rzh and before exec in either child.  Not so when stdin or    *)
(* stdout has been closed, or with --connect, where bgio_close takes       *)
(* descriptor 0 for the pty.  Whatever is closed, what an atom is          *)
(* registered for stays open.                                              *)
(***************************************************************************)
NoForeignUse ==
  /\ Pty(me) /\ Plain(me) => me.foreign = {}
  /\ \A image \in {rzat, shellat} \ {None} : Pty(me) /\ image.plain => image.foreign = {}
  /\ Running => \A a \in Atom : me.fd[a] >= 0 =>
       me.t[me.fd[a]] = FileOf(me, a) \/ (a \in {"stdin", "stdout"} /\ ~Plain(me))

(***************************************************************************)
(* The children run with what rzh meant to give them: the shell with the   *)
(* slave of the pty three times, rz with its ends of the three pipes;      *)
(* wherever pipe() and openpty() found room.  The exceptions are those of  *)
(* NoForeignUse.                                                           *)
(***************************************************************************)
Wired(image, stdin, stdout, stderr) ==
  image.t[0] = stdin /\ image.t[1] = stdout /\ image.t[2] = stderr

ChildWired ==
  /\ shellat # None /\ shellat.plain => Wired(shellat, "pts", "pts", "pts")
  /\ rzat # None /\ rzat.plain /\ Pty(me) =>
       Wired(rzat, "chstdin.r", "chstdout.w", "chstderr.w")

(***************************************************************************)
(* "helps verify we're not leaking filehandles to the kid ... a security   *)
(* risk" (rzh.c:398): the children, and rzh at its normal end, which is not *)
(* that of --help, have above the standard descriptors only what rzh       *)
(* inherited, and no atom is left.                                         *)
(***************************************************************************)
Clean(t, atoms) == atoms = {} /\ \A f \in Fd \ Standard : t[f] \in {Closed, "inherited"}

NothingLeaked ==
  /\ \A image \in {rzat, shellat} \ {None} :
       /\ \A f \in Fd \ Standard : image.t[f] \in {Closed, "inherited"}
       /\ image.plain => image.checked
  /\ rzat # None => rzat.atoms = {}
  /\ pc = "exited" /\ code = 0 /\ head = None /\ argv = <<>> => Clean(me.t, io_exit_check(me))

(***************************************************************************)
(* While the loop runs, select() looks far enough for every atom, and an   *)
(* atom is registered exactly at its descriptor: through closes at an end  *)
(* of file, a transfer that takes the numbers over, and the removal of     *)
(* tasks.                                                                  *)
(***************************************************************************)
Registered == Running => Covered(me) /\ Matched(me)

(***************************************************************************)
(* "Otherwise, since the sigchld probably causes fds to open and close, we *)
(* end up dispatching on stale events" (rzh.c:444): an event of one        *)
(* transfer's pipe is never given to the next, whose pipes have the same   *)
(* descriptors.                                                            *)
(***************************************************************************)
EventToOwner ==
  pc \in {"dispatch", "sigchild"} =>
    \A f \in Pending : Connection(me, f) \in RzAtoms => reported = transfers

(***************************************************************************)
(* rzh gives the terminal back in the mode it found it in, however it      *)
(* ends, except by a bail() after bgio_start, whose exit() restores        *)
(* nothing, and with --connect, where the mode was never saved.            *)
(***************************************************************************)
Restored ==
  pc = "exited" /\ Pty(me) /\ me.t[0] = "in" /\ termios # "cooked" =>
    code \in {23, 33, 72, 77, 78, 79, 99}

(***************************************************************************)
(* What was asked for on the command line is what is done: rz is the       *)
(* command of the last --rz that named one, word for word, and saves to    *)
(* the download directory as long as there is one; a port that is one is   *)
(* connected to, and nothing is if none was asked for.                     *)
(***************************************************************************)
AsAsked ==
  /\ rzcmd # NoCommand =>
       Runs(rzcmd, IF wanted = <<>> THEN Words(DefaultCommand) ELSE wanted)
  /\ rzat # None /\ dldir => rzat.dir = IF opt.dir THEN "dldir" ELSE "home"
  /\ asked # None /\ asked \in 1..PortMax /\ pc \notin {"args", "connect", "exited"} =>
       ~Pty(me) /\ opt.port = asked
  /\ ~Pty(me) => asked # None

(***************************************************************************)
(* rzh writes past connections[], or gives up because descriptors are      *)
(* short or taken, only if it inherited so many that nine more (log, pty,  *)
(* three pipes) do not fit, or was started without stdin or stdout: no     *)
(* number of transfers uses them up.  A fifo size of 0 or 1 ends it at the *)
(* first byte.                                                             *)
(***************************************************************************)
Crowded ==
  Cardinality({f \in Fd : me.t[f] \in {"in", "out", "err", "inherited"}}) + 9 > FD_SETSIZE

EndCause ==
  /\ me.err # "none" \/ (pc = "exited" /\ code \in 77..79) =>
       Crowded \/ \E f \in 0..1 : me.t[f] \in {"ptm", "pts", "socket", "log"}
  /\ pc = "crashed" => {opt.inma, opt.maou} \intersect {0, 1} # {}
=============================================================================
