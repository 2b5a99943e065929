------------------------------ MODULE Startup ------------------------------
(***************************************************************************)
(* rzh from its first instruction up to the pty: main() notes the highest  *)
(* descriptor, reads the arguments (rzh.c, cmd.c, io_socket.c, log.c),     *)
(* connects to a socket if it is asked to, and checks that rz can be run.  *)
(* The variables are those of the whole program; Process continues.        *)
(***************************************************************************)
EXTENDS Cmd, IoSelect, Descriptors

CONSTANTS
  Invocations,     \* how rzh is started: the descriptors it is given, and its arguments
  Executable,      \* the paths that stat() finds to be programs
  DefaultCommand,  \* DEFAULT_RZ_COMMAND
  IntMax, PortMax,     \* INT_MAX, and the highest port, 65535
  DefaultSize      \* of a fifo

\* What may be on a command line.
Argument == UNION {{i.argv[k] : k \in DOMAIN i.argv} : i \in Invocations}

ASSUME StartupAssumption ==
  /\ IntMax \in Nat /\ PortMax \in 1..IntMax
  /\ DefaultSize \in Nat /\ DefaultSize > 1 /\ DefaultCommand \in Seq(Char)
  /\ \A i \in Invocations : i.fds \subseteq Fd /\ i.argv \in Seq(Argument)

ASSUME ArgumentAssumption ==
  /\ NULL \notin Int
  /\ \A a \in Argument :
       /\ a.opt = "rz" => a.s \in Seq(Char)
       /\ a.opt = "connect" =>
            \A part \in {a.arg.left, a.arg.right} : part.kind = "number" => part.n \in Int

VARIABLES
  pc,                  \* where main() is, or how the process ended
  code,                \* the exit code
  argv, opt, rzcmd,    \* the arguments not yet processed, and what they set
  wanted, asked,       \* history: the command words and the port that were asked for
  me,                  \* the process: descriptors, atoms and the numbers it remembers
  head, rzat,          \* the topmost task; the latest rz as it was when it was exec'ed
  shellat,             \* the shell, likewise
  gfd_read, gfd_write, \* what select reported and io_dispatch has not come to
  transfers, reported, \* how many rz were forked; how many when select returned
  sigchild_received, rz, shell,
  termios, st_stdin_ios,  \* the mode of the terminal; the one to restore
  cwd, dldir           \* the current directory; whether the download directory exists

setup == <<argv, opt, rzcmd, wanted, asked>>
events == <<gfd_read, gfd_write, reported>>
children == <<rzat, shellat, rz, shell, sigchild_received>>
terminal == <<termios, st_stdin_ios>>
place == <<cwd, dldir>>
vars == <<pc, code, setup, me, head, events, transfers, children, terminal, place>>

-----------------------------------------------------------------------------
Atom == {"stdin", "stdout", "master", "rzread", "rzwrite", "rzerr"}
ASSUME NoAtomAssumption == NoAtom \notin Atom

Standard == 0..2

\* What the process is given at 0, 1 and 2, and what it may inherit besides.
Given(f) == CASE f = 0 -> "in" [] f = 1 -> "out" [] f = 2 -> "err" [] OTHER -> "inherited"

NoRz == [infd |-> -1, outfd |-> -1, errfd |-> -1]
None == NULL

\* find_highest_fd; it asserts that there is one above 0.  MaxFd is below its limit of 64.
find_highest_fd(m) == Max({0} \union Opened(m))
fdcheck(m) == find_highest_fd(m) = m.g_highest_fd

\* The process as the kernel starts it: static variables are zero.
Newborn(fds) ==
  [t |-> [f \in Fd |-> IF f \in fds THEN Given(f) ELSE Closed],
   foreign |-> {},
   connections |-> NoConnections, max_fd |-> NoMax, err |-> "none",
   fd |-> [a \in Atom |-> -1],
   spec |-> NoRz,
   st_master_fd |-> 0, st_slave_fd |-> 0,
   conn_fd |-> -1, log_fd |-> -1,
   g_highest_fd |-> Max({0} \union fds)]

log_close(m) == [close(m, {<<m.log_fd, "log">>}) EXCEPT !.log_fd = -1]

Exit(c) == pc' = "exited" /\ code' = c
Goto(where) == pc' = where /\ UNCHANGED code

Default == [quiet |-> FALSE, addr |-> FALSE, host |-> "localhost", port |-> 0, dir |-> FALSE,
            inma |-> DefaultSize, maou |-> DefaultSize]

Init ==
  /\ \E i \in Invocations :
       /\ me = Newborn(i.fds) /\ argv = i.argv
       /\ pc = IF me.g_highest_fd = 0 THEN "aborted" ELSE "args"
  /\ code = 0
  /\ opt = Default /\ rzcmd = NoCommand /\ wanted = <<>> /\ asked = None
  /\ head = None /\ rzat = None /\ shellat = None
  /\ gfd_read = {} /\ gfd_write = {} /\ transfers = 0 /\ reported = 0
  /\ sigchild_received = FALSE /\ rz = None /\ shell = None
  /\ termios = "cooked" /\ st_stdin_ios = "zero"
  /\ cwd = "home" /\ dldir = TRUE

-----------------------------------------------------------------------------
(***************************************************************************)
(* process_args, one option of argv at a time.                             *)
(***************************************************************************)
\* strtol() gives a long; io_safe_atoi stores it in an int.
Ints == 2 * (IntMax + 1)
ToInt(n) == LET r == n % Ints IN IF r > IntMax THEN r - Ints ELSE r

(***************************************************************************)
(* io_socket_parse: "host:port", "host" or "port", as left, colon, right.  *)
(* A part is empty, a number, a name gethostbyname() knows ("host"), or    *)
(* something else.                                                         *)
(***************************************************************************)
LonePort(arg) == ~arg.colon /\ arg.left.kind = "number"
AddressPart(arg) == IF LonePort(arg) THEN [kind |-> "empty"] ELSE arg.left
PortPart(arg) == IF LonePort(arg) THEN arg.left
                 ELSE IF arg.colon THEN arg.right ELSE [kind |-> "empty"]

\* "If the string doesn't specify either an address or a port" that part stays unchanged.
io_socket_parse(o, arg) ==
  [o EXCEPT !.host = IF AddressPart(arg).kind = "host" THEN "host" ELSE @,
            !.port = IF PortPart(arg).kind = "number" THEN ToInt(PortPart(arg).n) ELSE @]

io_socket_parse_fails(arg) ==
  \/ AddressPart(arg).kind \notin {"empty", "host"}
  \/ PortPart(arg).kind \notin {"empty", "number"}

Option(names) == pc = "args" /\ argv # <<>> /\ Head(argv).opt \in names
Proceed == argv' = Tail(argv) /\ UNCHANGED <<pc, code>>
Refuse == Exit(1) /\ UNCHANGED argv
Elsewhere == UNCHANGED <<head, events, children, terminal, dldir, transfers>>

RzOption ==
  /\ Option({"rz"})
  /\ rzcmd' = cmd_parse(rzcmd, Head(argv).s)
  /\ wanted' = IF Words(Head(argv).s) = <<>> THEN wanted ELSE Words(Head(argv).s)
  /\ Proceed /\ UNCHANGED <<opt, asked, me, cwd>> /\ Elsewhere

ConnectOption ==
  /\ Option({"connect"})
  /\ LET arg == Head(argv).arg
     IN  IF io_socket_parse_fails(arg) THEN Refuse /\ UNCHANGED <<opt, asked>>
         ELSE /\ opt' = [io_socket_parse(opt, arg) EXCEPT !.addr = TRUE]
              /\ asked' = IF PortPart(arg).kind = "number" THEN PortPart(arg).n ELSE asked
              /\ Proceed
  /\ UNCHANGED <<rzcmd, wanted, me, cwd>> /\ Elsewhere

\* log_init closes the file of an earlier --logfile first; fopen() may fail.
LogOption ==
  /\ Option({"logfile"})
  /\ LET m == log_close(me)
     IN  \/ Room(m) > 0 /\ me' = [open(m, <<"log">>) EXCEPT !.log_fd = Place(m, 1)] /\ Proceed
         \/ me' = m /\ Exit(99) /\ UNCHANGED argv
  /\ UNCHANGED <<opt, rzcmd, wanted, asked, cwd>> /\ Elsewhere

\* "Value out of range" is only a warning.
FifoOption ==
  /\ Option({"inma", "maou"})
  /\ opt' = [opt EXCEPT ![Head(argv).opt] = ToInt(Head(argv).n)]
  /\ Proceed /\ UNCHANGED <<rzcmd, wanted, asked, me, cwd>> /\ Elsewhere

QuietOption ==
  /\ Option({"quiet"})
  /\ opt' = [opt EXCEPT !.quiet = TRUE]
  /\ Proceed /\ UNCHANGED <<rzcmd, wanted, asked, me, cwd>> /\ Elsewhere

\* getopt_long puts it behind the options; a second one is an error.
Directory ==
  /\ Option({"dir"})
  /\ IF opt.dir THEN Refuse /\ UNCHANGED opt ELSE Proceed /\ opt' = [opt EXCEPT !.dir = TRUE]
  /\ UNCHANGED <<rzcmd, wanted, asked, me, cwd>> /\ Elsewhere

\* --help, --version, --info; an option there is not.
LastOption ==
  /\ Option({"info", "unknown"})
  /\ IF Head(argv).opt = "info" THEN \E c \in 0..1 : Exit(c) ELSE Exit(1)
  /\ UNCHANGED <<setup, me, cwd>> /\ Elsewhere

\* The end of process_args, and the default command.
ArgsDone ==
  /\ pc = "args" /\ argv = <<>>
  /\ IF opt.addr /\ opt.port = 0 THEN Exit(1) /\ UNCHANGED rzcmd
     ELSE /\ rzcmd' = IF rzcmd = NoCommand THEN cmd_parse(rzcmd, DefaultCommand) ELSE rzcmd
          /\ Goto("connect")
  /\ UNCHANGED <<argv, opt, wanted, asked, me, cwd>> /\ Elsewhere

process_args ==
  \/ RzOption \/ ConnectOption \/ LogOption \/ FifoOption \/ QuietOption
  \/ Directory \/ LastOption \/ ArgsDone

-----------------------------------------------------------------------------
\* A socket only for a port above 0; what fails after socket() closes it again.
io_socket_connect_fd ==
  /\ pc = "connect"
  /\ IF opt.port <= 0 THEN Goto("preflight") /\ UNCHANGED me
     ELSE \/ /\ Room(me) > 0 /\ Goto("preflight")
             /\ me' = [open(me, <<"socket">>) EXCEPT !.conn_fd = Place(me, 1)]
          \/ Exit(2) /\ UNCHANGED me
  /\ UNCHANGED <<setup, cwd>> /\ Elsewhere

\* The checks in their order, some of them made in the download directory.
Destination == IF opt.dir THEN "dldir" ELSE cwd
Reached == opt.dir => dldir
Runnable == rzcmd.path \in Executable

preflight ==
  /\ pc = "preflight"
  /\ \/ \E c \in {24} \union (IF opt.dir THEN {25} ELSE {}) : Exit(c) /\ UNCHANGED cwd
     \/ /\ Reached
        /\ \E c \in {26, 39, 49} \union (IF ~Runnable THEN 70..73
                                         ELSE IF opt.dir THEN {27} ELSE {}) : Exit(c)
        /\ cwd' = Destination
     \/ Reached /\ Runnable /\ Goto("setup") /\ UNCHANGED cwd
  /\ UNCHANGED <<setup, me>> /\ Elsewhere
=============================================================================
