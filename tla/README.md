# rzh in TLA+

rzh runs a shell behind a pty and watches its output.  When the output
announces a zmodem transfer, rzh starts `rz`, connects it to the shell in place
of the terminal, and gives the terminal back when the transfer is over.  This
directory models that program: the queue, the pipes, the two scanners, the
life of a session, the process with its descriptors from its arguments to its
exit code, and the status line; TLC checks them on small instances and TLAPS
proves all of the safety properties for every instance.

## Inventory

One process, one thread: `main` (rzh.c:438-448) repeats `master_idle`, `io_wait`
(select), `io_dispatch`, `master_check_sigchild`.  Concurrency comes from
outside: the kernel's answers to read and write, the shell, rz and the user, who
act between any two calls; the events of one select are a snapshot, handled
one after the other while the handlers change what they mean; SIGCHLD arrives
anywhere.

| Component | State | Operations | Talks to | What makes it correct |
|---|---|---|---|---|
| fifo (fifo.c) | ring buffer, begin, end, proc | add, get, append, prepend, unpend, read, write, clear | its proc on every read | it is a bounded queue; indices stay in bounds |
| pipe (pipe.c) | fifo, read and write atom, block_read | auto_read, auto_write, pipe_write | fifo, io | no byte lost or reordered, no sleeper forgotten, no overflow |
| zrq scanner (zrq.c) | parse_state, gotrz, starcnt | zrq_scan, zscan_start | fifo of master_output, start_proc | finds each header however it is cut; passes on the rest; keeps within the room |
| zfin scanner (zfin.c) | ref, oocount, savebuf | zfin_scan, nooo, save, term, drop | fifos of both pipes, task_terminate | finds the ZFIN and nothing else; loses nothing behind it |
| tasks (task.c, rztask.c, echotask.c) | stack of tasks, the splice of the two pipes | install, remove, terminate, sigchild, typing | pipe, io, scanners, idle | text stays text, data stays data across a splice; every rz is reaped |
| console (consoletask.c, main) | sigchild_received, master | check_sigchild, idle, destructor | tasks | every child that ends is noticed |
| io (io_select.c) | connections[], fd sets, event snapshot | add, del, enable, disable, wait, dispatch | kernel, handlers | events reach their handler, none for a closed one |
| idle (idle.c) | last time, counters | idle_proc, idle_end | pipe_write, bgio | it ends the wait in time; the line is true and fits; the final one goes through the pipe |
| bgio (bgio.c) | pty descriptors, saved termios | start, stop, close, window width | kernel | the shell gets the slave and nothing else; the terminal is given back |
| command line (rzh.c, cmd.c) | options, rz command | process_args, cmd_parse, preflight | log, io_socket | what was asked for is what is run |
| log, util | log file, highest descriptor | log_init, log_close, fdcheck, chdir_to_dldir | | the log does not reach the children |
| sockets (io_socket.c) | conn_fd | parse, connect | command line | the port is the one asked for |
| other back ends, test tools | | | | not modelled, see below |

`master_pipe` has two pipes: `input_master` (task's input to master) and
`master_output` (master to task's output).  The master's atom is shared: it
reads for one and writes for the other.  The echo task is at the bottom of the
stack; an rz task is above it during a transfer.

The list of what is hard to test, each item at its line, is `hazards` in
PROJECT.json.

## Modules

| Module | Models | Style |
|---|---|---|
| BoundedQueue | what fifo.h promises: a queue of bounded length | abstract specification |
| Fifo | fifo.c: begin, end, buf, split copies; read and write with partial results | refines BoundedQueue |
| Pipes | pipe.c over io_select.c, any set of pipes and atoms | one action per handler call |
| ZfinScan | zfin.c on one fifo | one action per read |
| ZrqScan | zrq.c, one turn of the coroutine per step | reads, turns, drains |
| Session | task.c, rztask.c, echotask.c, consoletask.c, main over the pipes | tokens instead of bytes |
| Cmd | cmd.c: a string becomes a path and an argument list | operators, with a reference |
| IoSelect | io_select.c by number: connections[], max_fd, the limits of the table | operators on a process |
| Descriptors | the kernel's descriptor table: open, close, dup2 | operators on a process |
| Startup | rzh.c up to the pty: options, socket, preflight | EXTENDS the three above |
| Process | bgio.c, the forks, closes and removals of task.c and rztask.c, main | EXTENDS Startup; the whole process |
| Idle | idle.c: when the status line is due and what it says | one transfer, time in ticks |
| MCPipes, MCZfinScan, MCZrqScan, MCSession, MCProcess | the instances TLC checks | constants only |
| FifoProofs, PipesProofs, ZfinProofs, ZrqProofs, SessionProofs, IdleProofs | theorems about the module of that name | TLAPS |
| ProcessProofs | what is registered, and to whom the events of select go, about Process; what cmd_parse makes of a string | TLAPS |
| TableProofs | the open files, the terminal, the arguments, the types and the ends of Process | EXTENDS ProcessProofs; TLAPS |

How they fit: Fifo is a ring of bytes and is shown to be the sequence that
every other module uses for a fifo.  Pipes shows what two pipes do with any
bytes and any behaviour of the kernel.  ZfinScan and ZrqScan show what the fifo
procs do with bytes cut in any way.  Session takes their results as atomic
(a header or a ZFIN is one token) and adds what no component sees: splicing
pipes under data that is still in them, children that end, the user.  Process
is the same life seen from the kernel: Session has bytes and no descriptor
numbers, Process descriptor numbers and no bytes.  What Session takes as given
(an event reaches its own atom, a task's descriptors are its own, rz is wired to
its pipes) is what Process checks; what Process leaves open (when a descriptor
is ready, when a fifo is full) is decided in Pipes and Session, and Process
allows it at any time.

Definitions named after a correct one with a suffix (`fifo_avail_size`,
`CutOnce`, ...) are faulty variants; nothing in a specification uses them.
Each shows that a property notices a plausible slip (`mutants` in
PROJECT.json).

### Fifo

`buf`, `begin`, `end` are the struct; an empty ring has begin = end, so one slot
stays free.  `Store`, `StoreBefore`, `Load` are the two memcpy calls of a split
copy.  The operations require what their callers ensure (room, or data), as the
comments "make sure there's room before calling" ask.  `moved` records what the
last operation took or gave; with it the queue of BoundedQueue is refined
operation by operation.  `fifo_copy` is called nowhere and left out.

### Pipes

`fifo`, `block_read`: struct pipe; `conn`: atoms registered in connections[];
`fd_read`, `fd_write`: the select sets; `gfd_read`, `gfd_write`: the rest of the
snapshot that io_dispatch works through; `inproc`: pipe_io_proc between its read
and its write half.  Bytes are numbered as they enter, so that order and loss
are visible.  read() gives any prefix of what is there, 0 at the end of file,
and 0 when asked for 0 bytes; write() takes any non-empty prefix that fits, fails
with EAGAIN or with EPIPE.  `NDEBUG` tells the two builds apart: with asserts a
failed assert ends the run in `abort`.

### ZfinScan, ZrqScan

The stream and its cuts are chosen nondeterministically from a small alphabet
(the letters of the header, a byte foreign to it).  The property always
compares what came out with what went in, or a scanner's answer with a
definition of the answer that reads the whole stream at once.

### Session

`head`, `fifo`, `proc`, `block_read`, `savebuf` are the splice; `pc` is the place
in the loop or how the program ended.  ReadStart is the whole of zscan_start,
rztask_install and task_install, which happen inside one read.  The reap loop
of task_default_sigchild, task_remove, idle_end and the restoring of the saved
text are steps of their own, since signals and the outside world act between
them.  The progress line that idle_proc writes directly to the terminal, past
the pipe, is left out.  `astray`, `dropped`, `late`, `shown`, `crashed` are
history variables.  The pty's master never reaches an end of file: rzh keeps the
slave open itself, so on Linux only SIGCHLD tells it that the shell is gone.

### Cmd, Startup

`for_tokens` and `cmd_parse` are cmd.c on sequences of characters of which only
blanks and the slash count; `Words` is the reference, by maximal pieces without
a blank.  Each option of process_args is an action that takes the head of `argv`;
ArgsDone is the end of the loop and the default command.  `io_socket_parse` gets
the parts of an address by kind; `ToInt` cuts a long to an int as
io_safe_atoi does, `IntMax` being the largest int and `PortMax` the highest
port.  `wanted` and `asked` are history: the words and the port that were asked
for.  preflight is one action: it ends in one of the
exit codes of the check that fails, or goes on.

### IoSelect, Descriptors, Process

The process is one record, `me`, because most of the code changes several of its
parts through a chain of calls: `t` (the kernel's table), `connections` and
`max_fd`, `fd` (the fd field of each atom), `spec` (rz's task_spec),
`st_master_fd`, `st_slave_fd`, `conn_fd`, `log_fd`, `g_highest_fd`.  A function
that does not choose is an operator from process to process with the name it
has in C (`io_add`, `io_del`, `bgio_close`, `rzh_fork_prepare`), and the child's
side of a fork is such a chain (`do_child`, `RzChild`); `shellat` and
`rzat` keep what a child was at its exec.  `MayEnd` is the one choice of a
handler: it meets the end of its file or not.  `head` is the topmost task, `pc`
the place in main or how it ended.  `foreign` is history: files closed or
written to through a number meant for another file.  A bail stops at the first
register that failed; a descriptor equal to FD_SETSIZE, which io_add lets pass,
ends in "overrun".

Writes to stderr are left out, and so is a grandchild that holds rz's pipe open
when rz is gone: reading rz's pipe "to the end" then ends.  A terminal is what is
on descriptor 0 of an interactive start ("in"); tcsetattr elsewhere does nothing.

### Idle

`wake` is when select returns at the latest; I/O may call idle_proc earlier,
whenever it likes.  No time passes inside a handler.  `human_bytes` gives the
number before and after the point and the unit, `human_time` the fields that are
printed (the hours are lost to the minutes, as in the code).  `Base` is what the
units stand for, `IntMax` the largest int, `Earlier` what the counters may have
come to.  `places` is where the \r is put in the buffer.

## Runs

| Run | Checks | Result |
|---|---|---|
| fifo | ring of 5 slots (4 used and a free one: every wrap position), 2 byte values | holds |
| pipes | two pipes over three atoms, capacity 2, pipe_write of 2 bytes, 3 bytes per pipe, one byte of kernel room, end of file and EPIPE | holds |
| pipes_live | the same with an end of file on the input only, no EPIPE or pipe_write, the production build, 4 bytes per pipe (twice the fifo) | holds |
| zfin | a ZFIN of 4 bytes, streams to 8, reads to 3 | holds |
| zrq | fifo of 6 (the start string fits exactly), streams to 8 | holds |
| session | six tokens, fifos of 2, one token of kernel room, one key typed, rz and the shell may end at any time | holds |
| zfin_sound | a found ZFIN is one | violated: a stale `ref` |
| zrq_misrouted | output goes to the terminal | violated: drained to the master |
| session_asleep | no transfer; a dead shell ends rzh | violated: a signal does not end the wait |
| session_quiet | a transfer with --quiet that the user may cancel: a pipe that stopped reading starts again | violated: a full fifo is left behind and the shell never read again |
| process | 12 places in connections[], 16 descriptors, every argument alone and the pairs that interact, no argument with any number of inherited descriptors, two transfers | holds |
| idle | a line every 3 ticks, 4-bit counters, windows 0, 1 and 9 wide, 10 ticks | holds |

The four violations are of what a comment of the source says; PROJECT.json
(`findings`) quotes it and the line that departs from it.

Bounds.  Capacity 2 is the least at which a fifo can be empty, partly full and
full, and a write partial.  Bytes per pipe exceed capacity plus kernel room, so
that a pipe blocks and resumes.  A ZFIN of four bytes, a star and then letters
of which one repeats, has every kind of mismatch that the real one has: after
the star, in the middle, before the last byte, and at a star that starts the
next match.
The zrq header is checked with its own seven bytes.  One transfer per session:
the state of the scanners and the splice is that of the start when it is over
(Init and task_remove set the same things, the fifos and block_read excepted,
which the checks vary), so a second would repeat the first from one of the
states the first leaves.

FD_SETSIZE is 12 and MaxFd 15: three standard descriptors and the nine of a
session (log, pty, six of the pipes) just fit, one inherited descriptor more
fills the table, and the kernel gives numbers on both sides of the limit.
MaxFd is below the 64 at which find_highest_fd stops looking.  Two transfers
reuse every number once; a third starts from a state that the second may start
from.  An int up to 31 and a port up to 15, six bits and four, keep the order of
the real 32 and 16, with ports that are cut to nothing, to another port, and to
a negative number.  Idle: 10 ticks are three lines with the longest pause
between them, a minute is four ticks and an hour eight, so that each field
wraps; the counters start at 0 and at the last value before they wrap.

Settings to try: `NDEBUG = TRUE` in Pipes.cfg breaks EofIsReal (a full fifo reads
as an end of file and the source is closed); WriteSizes = {} in Pipes.cfg leaves
no cause for the read assert.  MCScript and MCText in SessionAsleep.cfg show
another way to lose the end of the shell: its signal is cleared with that of rz
(consoletask.c:70).  `ChildWired` without `rzat.plain` is broken where rzh has no
descriptor 0, from the start or since the end of its stdin: the next pipe()
takes 0 for rz's stdin, and the child closes it after dup2(0, 0) (rztask.c:217).

## Fairness

Pipes: `WF(Loop)`, the loop of main never stops by itself, and the peers take
what the kernel holds for them (`WF(Consume)`).  Without the second a stalled
terminal keeps its bytes, rightly.  Nothing else that the outside does is fair:
bytes need never arrive.
Session: `WF(Loop)` only.  RzReaped needs no help from outside: once rz is dead
the 300 ms of idle_proc ends the wait even if no descriptor becomes ready.
session_asleep has the same fairness, and shows that the end of the shell needs
more: in a session without a transfer nothing ends the wait.
Process and Idle state safety only and assume no fairness.

## Proofs

FifoProofs proves, for every `Size` and `Byte` that SizeAssumption allows:

* `FifoTypeOK`: Spec => []TypeOK.  TypeOK is inductive: the indices move by the
  number of bytes copied and wrap at the size; each of the operators on the ring
  (CountOf, Store, StoreBefore, Load) has a lemma saying where it stays.
* `FifoImplementsQueue`: Spec => BoundedQueue's Spec under the mapping that reads
  the ring from begin to end.  The lemmas say what Contents becomes after each
  split copy; one step per operation shows that it is the queue's operation of
  the same name or leaves the queue alone.  TypeOK is the only invariant needed.

PipesProofs proves every safety property of Pipes for any set of pipes and atoms
in which no two pipes share a source or a sink, any capacity, block sizes, and
answers of the kernel.  Three invariants, each inductive on top of the one before:

* `Stored` (Queues, Report, Balanced): the types, and that what was written
  followed by what is held is 1, 2, ... up to what entered.  Neither is
  inductive alone: a read keeps within the capacity because of the type, and the
  bytes have their numbers because of the balance.  WriteKeeps, ReadAppends and
  WriteStep say what a write and a read do to a fifo; ReadHandler, WriteHandler
  and StuffHandler say it of pipe_auto_read, pipe_auto_write and pipe_write.
  Hence `PipesTypeOK`, `PipesConservation`.
* `Discipline` (Watched, Promised, Excused for each pipe): who is watched, what
  the report of select still promises, who may be full while watched.
  FlowControl needs the promise that a reported source is still watched (a read
  event never reaches a blocked pipe), the promise needs FlowControl, and the
  asserts need both.  ReadEffect, WriteEffect and StuffEffect say what a handler
  does to its own pipe, UntouchedKeeps that it leaves the others alone.  Hence
  `PipesFlowControl`, `PipesSnapshotHolds`.
* `Causes`: an assert that fires does so in a state of the Discipline
  (ReadAbort, WriteAbort), and after it only the other processes move.  Hence
  `PipesReadAssertCause`, `PipesWriteAssertCause`.

`PipesEofIsReal` follows from Stored, with asserts (~NDEBUG): read() is then never
asked for 0 bytes.  In the production build it does not hold (see above).

ZfinProofs proves every safety property of ZfinScan, for any string with its only
star at the front, any stream and any way to cut it:

* `Kept`: what is passed, suppressed, saved and dropped, in this order, is what
  was read; until the string is found all of it was passed on, and which of the
  others may be in use depends on the proc.  SaveEffect, NoooEffect and ScanKept
  say what each proc of the chain does. Hence `ZfinTypeOK`, `ZfinConservation`,
  `ZfinOverAndOut`.
* `Matching` (Traced, FoundCause, Complete): wherever the stream ends with a
  beginning of the string, ref counts that one, and ref counts nothing that a
  packet did not break off.  A mismatch gives up the whole match and looks at
  the byte again as a first one, which is right only because no other place of
  the string holds its first byte.  Hence `ZfinComplete`, `ZfinFoundCause`.
  That the reference function Progress exists and follows its equation is shown
  by well-founded induction on the numbers (ProgressExists, ProgressFollows).

ZrqProofs proves every safety property of ZrqScan, for any packets, any capacity and
any stream.  Its `Inv` adds to TypeOK, Conservation, RoomBound and StartIsHeader:

* `Fresh`: nothing is announced before a transfer, and no header is read without
  a star;
* `CutsBehind`, `Uncut`: the packets end behind all that was looked at, and not
  within what is held.  Between packets this is HeldWhole (`ZrqHeldWhole`);
* `Followed`: a star that a header may follow is the one parse_state counts
  from, unless its packet ended at it.  A whole header would be counted to its
  end and start the transfer, hence `ZrqComplete`.

TurnKeeps says once what each turn of the coroutine does to the balance and the
room: it takes some bytes off the input, and these and what was held are what is
passed on and what is held now.  GiveKeeps and HoldKeeps add the two kinds of
turn, one lemma per turn uses them.  StartKeeps is zscan_start.

SessionProofs proves every safety property of Session, for any script of one
transfer, any capacity and room, any typing, and children that end at any time.
Each invariant is inductive on top of the ones before it:

* `Typed` is TypeOK, and that the terminal's output is never closed.  Hence
  `SessionTypeOK`.
* `LateLast` (Speech): rz speaks of its end only when it has ended, and its ZFIN
  is in front of all that is late until the proc of its pipe has seen it.  Hence
  `SessionNoLatePacket`.
* `Followed` (Within, Past): what is yet to be read is the end of the script,
  and the procs of the fifos know on which side of the start and of the ZFIN the
  reading stands. Hence `SessionNoTextToRz`.
* `Cleanly` (Children, FinLast): as long as rz has not crashed it ended because
  it had its ZFIN, the last of what it got, so that when its task is removed
  nothing of the transfer is left in the fifo that goes to the terminal again.
  Hence `SessionCleanTerminal`.
* `Notified`: between removing rz's task and writing the last status line the
  output may hold something that nobody is asked to take; idle_end's pipe_write
  makes up for it.  This is why the theorem assumes ~opt_quiet: with it the
  property is false.  It needs Children, which says that only a dead rz is
  reaped.  Hence `SessionWriteNotified`, and from it `SessionReadRestarts`: a
  pipe that has stopped reading waits to write.  The run session_quiet shows
  what happens without that assumption: nothing asks for IO_WRITE on the sink
  that the splice has made the output's (task.c:134).
* `Caused` (Reported, Unfilled, Allowed): before a transfer nothing is read into
  a full fifo, and a write that select allowed finds room, since nobody wrote to
  the same sink since, or the one who did emptied the fifo.  Hence
  `SessionAssertCause`.
* `Saved` (InOrder): the text shown, in the fifo, saved, and yet to be read is
  in the order of the script and complete, but for what was drained to the shell
  and what pipe_write had no room for. TextInOrder joins these in one sequence;
  the parts say where a text is when it moves.  OrderedJoined, Regrouped and
  PartsJoined do the moves.  Hence `SessionTextInOrder`.

ProcessProofs proves `ProcessRegistered` for any invocations, any table sizes
and any number of transfers: while rzh runs, each atom is registered exactly
where its fd field says, and max_fd covers it.  Registered is not inductive:
io_add puts an atom into its new place and forgets the old one, which is right
only if the atom was not registered at the time.  `Inv` adds just that: before
the loop nothing is registered, and outside of a transfer the three atoms of rz
have no descriptor.  Least, Greatest, Ranked and PlaceIsFd say that the kernel's
choice of descriptors is one (by well-founded induction on the numbers);
AddKeeps, DelKeeps, OpenKeeps, CloseKeeps, MayEndKeeps, RzRemovedKeeps and
RzInstalledKeeps say what each chain of calls does to the registry; one lemma
per stage of main uses them.

`ProcessEventToOwner`, with the same generality and on top of `Inv`, needs
`Own`: while no rz task is there, stdin is at 0 or gone, stdout at 1 or gone,
and the master elsewhere, so that select can have reported these three only.
io_dispatch takes them by number, the master last; hence no event is left when
the master's handler starts a transfer and the kernel gives old numbers to new
pipes.  From then on no event of that report belongs to an atom of rz.
SetupOwns, EventOwns, InstallOwns, WaitOwns and ReapOwns are the steps; the rest
leave alone what Own speaks of, or only take events away.

ProcessProofs also proves `CommandWords`: for every string, cmd_parse makes the
command that its words ask for, or none of blanks.  The pointer that runs over
the string and the definition of a word by maximal pieces meet in the starts of
words from a place on (`StartsFrom`).  SkipBlanksTo and SkipTokenTo say where
the pointer stops; StartsStep, that the starts from there on are the first
token's and those from its end on; KthStep, that the others move up by one in
the order; so the words from a place on (`Pieces`) obey the equation that
defines the tokens (PiecesStep).  No other function obeys it: at the last place
where two would differ they are what they are at a later one (TokensArePieces).
NameIs is the argv[0].

TableProofs proves the other safety properties of Process, for any
invocations, any size of the tables, and any number of transfers.

* `Tables` is about the numbers that rzh remembers.  `Known`: what is open was
  given, or is rzh's own and at the number noted for it.  `Holds`: a number
  noted is free or has that file; so a second close is harmless.  `LogKept`,
  `PtyKept`: with the standard descriptors given, these are not closed before
  their time.  `Highest`: the highest inherited number is still the one found at
  the start, so that fdcheck knows what is ours.  `Placed`: an atom is
  registered at its own file.  `Images` says what the children got at their
  exec.  None is inductive alone: where pipe() puts an end is told by Known,
  that it replaces nobody by Placed, and that a child closes what is not its own
  by the Holds of its parent.  `Keeps` is what an event or the end of a transfer
  does to the table: it closes, and opens nothing.  Hence `ProcessNoForeignUse`,
  `ProcessChildWired`, `ProcessNothingLeaked`.
* `Modes`: st_stdin_ios holds the mode found at the start whenever the terminal
  may be in another.  Hence `ProcessRestored`.
* `Sound`: the type of the process also where it ended halfway (`Sane`: in a
  bail nothing is registered or noted out of range).  Kin says what one call
  after another keeps of it. Hence `ProcessTypeOK`.
* `Ending`: io_add has not failed while rzh runs (`err`), nothing is ever put
  where stdin or stdout are registered (`Stays`), and what was opened at the
  start went to the lowest free number (`Lowest`).  Then a count: below a number
  past the end of connections[] everything is taken, by what was given, by the
  log, the socket or the two ends of the pty, and by five other ends of pipes at
  most (CrowdedBelow, BelowPlace).  So what was given is more than all but nine
  places; and since nothing given is closed but with its atom it is so in the
  state where rzh gives up.  Hence `ProcessEndCause`.  It assumes FD_SETSIZE <=
  MaxFd + 1, that rzh may open as many files as select() can watch (1024 and
  1024 by default on Linux); with a lower limit on open files pipe() fails for
  less.
* `Asks`: while there are arguments, a command has been parsed just if words
  were asked for, and the command is that of the words (CommandWords); the port
  is the one asked for where it is one (PortFits), and from the connection on
  there is then no pty; rzh is in the directory it was started in as long as it
  runs, so that its child finds the other one from there. With Sound, which
  keeps conn_fd in range and untouched by the chains of calls (Kin). Hence
  `ProcessAsAsked`.

IdleProofs proves both properties of Idle:

* `IdlePace` for any sleeptime and fuzztime: `Times`, the deadline
  of select is never later than sleeptime after the last line, is inductive, and
  a line is written only when it is due.
* `IdleLineTrue` for any width of an int, window and buffer, and any count at
  the start: by `Told` a counter less its start is what went through the pipe,
  but for whole rounds of the int; ToIntOf takes the rounds away.  BytesTrue and
  TimeTrue are about the roundings; their quotients of quotients are quotients
  by the product (Nested), and a quotient is the only one with its remainder
  (OneQuotient).

The proofs changed the model where it left open what it meant.  CASE guards that
overlapped (Source and Sink of a pipe, the exit code of a failing pipe(), the
atoms master_setup adds) now exclude each other.  TextInOrder is stated by order
and membership (`Ordered`) instead of by filtering a sequence.  NothingLeaked is
about the end of a session: `--help` and `--info` exit with 0 too, before
anything was opened.  Idle needs a buffer of three at least; with two the \r\n
of the last line is put before it.

The assumptions used are the named ASSUMEs, which TLC evaluates in the runs:
SizeAssumption and PipesAssumption; ZfinAssumption; ZrqAssumption, whose Byte is
only there to bound the bytes of the packets; SessionAssumption and
ScriptAssumption (one transfer: text, a start, data, a ZFIN, text);
NullAssumption (NULL is no string), FdSetAssumption, MaxFdAssumption (three
descriptors at least), StartupAssumption, ArgumentAssumption (the command of
--rz is a string, a number in an address is one), NoAtomAssumption and
MaxTransfersAssumption; IdleAssumption.
SessionWriteNotified, SessionReadRestarts and ProcessEndCause have one more
each, named above.

Only model-checked: liveness (Delivery, RzReaped), which the provers do not do,
and the four violations.

## Not modelled

The wording and the rates of the status line, the texts of --help and --info,
log messages, --loglevel and --debug-attach; the forwarding of a window's size
to the pty; io_set and exceptions of select, which rzh never uses; the part of
io_socket.c that only tests use; fifo_copy, which nothing calls; task stacks
deeper than two, which rzh never builds; the back ends that the Makefile does
not compile; the test tools.  The end of the user's stdin is in Pipes (Hangups)
and Process, not in Session.  A shell that ends before SIGCHLD has a handler is
in Process, but no property says what follows.

## Plan

1. Done: BoundedQueue, Fifo, Pipes; ZfinScan; ZrqScan; Session; Process with
   Startup, Cmd, IoSelect, Descriptors; Idle; and proofs of all their safety
   properties.
2. Session: two transfers, the end of stdin.
