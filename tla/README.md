# Formal models of rexec

TLA+ models of the concurrent parts of `rexec`, the TLC runs that check them on
small instances, and TLAPS proofs of the central ones for every instance.
`src/…` paths are those of the repository; `README.md:n` is the repository's
own README (`src/README.md`).

Run from this directory, for example:

    tlasany Host.tla
    tlc -workers 2 -config host_safety.cfg Host
    tlapm TranscriptQueueProofs.tla

`PROJECT.json` lists components, runs, the mutant each property detects, the
source lines every definition models, the hazards and the theorems.

## 1. The system

`rexec --start-host` is a per-user process. Agents connect to it over a Unix
socket and ask for commands; it runs each in a PTY of its own, shows the raw
output on its console, answers with filtered output and appends the run to a
transcript. Everything is OS threads, mutexes, condition variables, channels
and blocking reads; there is no async runtime.

| component | state | operations | talks to |
|---|---|---|---|
| shared console, `host.rs:45-78,661-801` | `next`, the print workers, per command a `PtyBuffer` (`raw_pending`, `eof`) | number, open, enqueue, `wait_turn`, banner, `drain_to_stdout`, `release` | handlers start workers; PTY readers fill buffers |
| transcript queue and attach, `host.rs:98-154,885-930` | `next`, `pending`, `subscribers`, the file, one channel per client | `submit`, `subscribe`, `close_subscriptions`, `serve_attachment` | handlers submit, main thread closes, attach clients read |
| connection handlers, `host.rs:353-659` | local `seq`, position in `handle_connection` | request, spawn, answer, submit | all host components |
| command lifecycle, `host.rs:534-621,702-751` | timer, `abort_watcher`, `command_finished`, child, its group, PTY holders | expire, abort, EOF, `killpg`, join, `waitpid` | signals, the client's lines |
| PTY spawning, `pty_exec.rs` | the descriptors of the host and of each child: errno pipe, stdin pipe, PTY | `pipe2`, `forkpty`, exec, errno, close, feed stdin | handlers spawn concurrently in one process |
| startup and shutdown, `host.rs:165-321` | the socket path, transcript names | bind, probe, remove, bind again, create, stop, crash | other host processes, through the file system |
| MCP pool, `mcp.rs:130-332`, `client.rs:38-122` | `idle`, `active`, both directions of every socket | `acquire`, ping, send, give back, discard, reconnect | the host's end of the ping protocol |
| wire protocol, `protocol.rs`, `host.rs:389-456` | line buffers | write in pieces, read a line, validate | client and host |
| client, `client.rs` | abort guard, follow offset | run, abort from a signal, attach, print, follow | the socket, the transcript file |
| output filter, `filter.rs` | escape state, `out` | `push` | fed by the PTY reader |
| transcript file, `transcript.rs` | the file, its `BufWriter` | create, `append`, list, read | `submit` writes, clients read without a lock |
| CLI, service, paths | none kept | sequential | |

Hard behaviour: commands finish in another order than they arrive while both
console and transcript must be in arrival order; output is appended while it is
printed with the lock released; a timeout, an abort, a disconnect and the end of
the command race; signals go to process groups whose leader may be reaped;
sockets are reused although answers may come late; the owner of a path is
decided by several system calls; fork copies what other threads have open; and a
file is read while it is written, by appends that may fail half-way. Section 6
and `hazards` in `PROJECT.json` say what is at stake at which line.

What makes each component correct:

* console: one speaker, arrival order, complete blocks, every turn comes;
* transcript: the longest complete run of entries, append only; each attached
  client gets the log from its subscription on, without gap; attachments end;
* handlers: every number reaches both queues once, whatever fails; an answer
  waits for nobody's console turn;
* command: no signal to a reused pid, no silent kill, no swallowed request, no
  run of a request that was never finished, every request answered, limits effective;
* spawning: descriptors stay with their own command, so that every EOF comes;
* startup: one host per path, a stale path is taken over, nothing left behind;
* pool: counted leases, bounded sockets, clean reuse, own answers, no replay,
  calls end, and reach a host that came back;
* filter: the same result however the reads cut the output;
* transcript file: whole entries, each printed once, losses confined to the
  entry whose write failed.

## 2. Modules

    PrintQueue ───────┐                    OrderedLog   (abstract)
    TranscriptQueue ──┴── INSTANCE in ── Host    ▲
          └─────────── implements ───────────────┘
    TranscriptFile + OutputFilter ── EXTENDS in ── OutputPath
    Command      SpawnFds      HostStartup      McpPool     (each on its own)

    Selections ── SequenceLemmas ──┬── PrintQueueProofs, TranscriptQueueProofs
                                   │         └── INSTANCE in ── HostProofs
                                   ├── HostFilesProofs   (HostStartup, OutputPath)
                                   └── McpPoolProofs
    CommandProofs     SpawnFdsProofs

**PrintQueue.** One worker per command, with its place in
`queue_console_output` as `worker[s]` (`check`, `asleep`, `banner`, `drain`,
`starved`, `write`, `newline`, `release`, `done`). `asleep` and `starved` are
the two condition-variable waits; `Release` wakes all sleepers, `PtyRead` and
`PtyEof` wake the drainer, `SpuriousWake` wakes anybody. Taking the chunk with
`eof` (`DrainTake`, under the lock) and writing it (`DrainWrite`, without) are
two steps. Output is a sequence of chunk numbers; only raw output is modelled.
`Open` and `Enqueue` are what a handler does, without conditions; that it does
each once per command, and in this order, are the guards `Unspawned` and
`Unqueued` of PrintQueue's own `Next`. In Host they are not guards: there they
have to follow from where the handlers are.
`MCPrintQueue` adds the one legal final state so that deadlock can be checked.

**TranscriptQueue.** `Submit` is one action because `submit` holds the mutex
throughout: insert, drain loop, append, send. What goes out is
described at once: `Taken` is the run of entries the loop takes. Attachments
are threads with their own channel and a peer that may vanish, and that may have
sent bytes nobody reads (`unread`): then the poll of `attachment_disconnected`
peeks at one of them, and takes the peer to be there.
**OrderedLog** is what it promises: the log is at every moment the longest run
of finished commands. `RefinesOrderedLog` maps `arrived` to `next_seq`,
`finished` to what was submitted, `log` to the file.

**Host.** Handlers over `INSTANCE`s of both queues: which handler has which
number and where it is, spawns that fail (`fail_queue`, `fail_reply`), the two
things a handler waits for, the end of the PTY (`JoinReader`) and then that of the
process (`WaitChild`, which has no limit; `ended` says whose process has ended), answers
that cannot be written (`FailReplyLost` returns, as the code does, without
submitting; an ordinary `Reply` ignores the error), clients that stop reading
(`Stallers`: `write_response` has no time limit), and the main thread, which
closes subscriptions and ends the process under everybody. `UsesPrintQueue`
and `UsesTranscriptQueue` say that the composed steps are steps of the
components, so what is proved of these holds inside the host. Neither holds by
construction: the handlers' actions use the operations without the guards
the components put before them, so that it is the handlers' control flow that must not
queue, spawn or submit a number twice, or before it was given out.

**Command.** One connection: handler, timeout thread, abort watcher, PTY
reader, child, everything that holds its PTY, and the client. `holders` names
who keeps the slave open (the child, another process of its group, one that
left the group); `immune` a child that the end of the PTY does not hang up on.
The child may exit, fork, detach or fail before exec at any time, and SIGTERM
may be ignored; only SIGKILL and waitpid are certain. `tag` is the response's
error tag. The wire is `inbox`: each element is what one `write` put into the
socket, so a request is two (`body`, `nl`), a signal may come between them
(`Interrupted`) or within the first (`CutShort`), and a line is whatever lies
before a newline, or before EOF (`EndsLine`). Handler and watcher read from the
same buffer; `Kind` is what the JSON parser makes of a line.

**SpawnFds.** The descriptor tables of the host and of each command, through
`pipe2`, `openpty`, fork, exec and the host's drops, one system call per action
and any number of handlers at once. O_CLOEXEC pipes go at exec, PTY ends do not, and
neither do two descriptors that the host has for a moment (`ShortLived`): the PTY that
`make_termios` looks at, and the copy of an errno pipe's read end that `read_errno`
makes with `dup`.
`raced` records that another handler forked while `forkpty` had the slave open
in the host; it is the one thing the code cannot prevent.

**HostStartup.** Several processes on one path, one action per system call
another process can see; `bind` and `listen` are two. Time is `second`, which
names transcripts. `raced` and `alone` are history.

**McpPool.** Callers, the reconnect worker, both directions of each socket, and
the host's side of the ping protocol. What a mutex protects is one action.
The 15 s of a call, the 1 s of a ping and the 1 s sleep may be over at any
moment; so a pong may be late and stay in a socket. The host may die, return,
or be suspended: then it neither reads nor accepts, `connect` still succeeds
until `backlog` is full, and blocks after that. `MCMcpPool` adds symmetry of
the callers, for safety only.

**OutputFilter** has no state of its own: `Push` is the automaton of
`filter.rs` over classes of bytes, as a recursive function over the positions of
the input; `Visible` says what the result should be, by cutting whole sequences
out of the whole output.

**TranscriptFile.** `append` through its `BufWriter`: a line is buffered, or
makes room first, or is written directly when it is longer than the buffer; any
`write` may be short or fail, and `submit` ignores the error, so what stays in the
buffer goes out with the next entry. A client prints and follows without a lock.
A line is cut in two, and in those of `Wide` the cut is inside a UTF-8 character:
a file with only one of the two pieces does not decode (`Decodes`), and `--list`
then shows 0 (`Listed`).
**OutputPath** composes both in the order of the program: the PTY is read to its
end before the entry is appended.

**Selections** picks the elements of a sequence at a set of positions, in order. It
stands where `SelectSeq` would, whose definition the proof system does not know.

Definitions marked *Fault* (`ReleaseNotifyOne`, `TimerOnlyTerm`, …) are not part
of any specification. Each is a variant of the definition after it with one
plausible bug; put in its place, the named property of `PROJECT.json` fails.
They show that the properties depend on the code.

## 3. Runs

| run | module | what it shows | bounds |
|---|---|---|---|
| `print_queue` | MCPrintQueue | one voice, order, completeness, every turn comes, no deadlock | 3 commands, 2 reads each |
| `transcript_queue` | TranscriptQueue | file, attachments, refinement of OrderedLog, attachments end | 4 commands, 2 clients, one of them ANSI, both may leave bytes unread |
| `host_safety` | Host | numbers accounted for on both queues, final entries, correct use of both components | 2 handlers, 2 commands, no output, 1 attach client, `--silent` |
| `host_answers` | Host | neither the console nor a client that does not read blocks another's answer | 2 handlers, one of a client that may stall, 2 commands, no output, printing |
| `command` | Command | the seven properties of the lifecycle and its line | 2 commands on one connection, 2 aborts, all escapes, writes cut anywhere |
| `spawn_fds` | SpawnFds | descriptors stay home, ended commands are answered, stdin ends | 2 commands spawned at once, both with a stdin |
| `output_path` | OutputPath | exact filtering; reading a file that is written; what a failed write costs | every output of up to 6 bytes in every division, 4 entries, two of them wide, 2 failing writes |
| `startup_safety` | HostStartup | sole owner, lone start, no path left | 4 processes, 2 crashes, seconds 0 to 3 |
| `pool_safety` | MCMcpPool | the six pool invariants | 2 callers, worker, 4 sockets, 2 calls, 2 crashes, late pongs |
| `pool_liveness` | McpPool | calls end, and reach a returned host | 1 caller, 2 calls, 2 crashes, 1 suspension, backlog of 1 |
| `run_not_journaled` | Host | disagreement, section 5 | 2 handlers, 2 commands |
| `timeout_not_enforced` | Command | disagreement, section 5 | 1 command that may detach |

Why the bounds are enough. Three commands give the console a holder, a
sleeper that is next and one that is not, which a lost or misdirected wake-up
needs; two reads let one arrive between a take and its write. Four entries
let a gap, a run of several and a subscription in the middle coincide, and two
clients can be treated differently. Two handlers suffice for one to submit
before the other; in the runs of Host the PTYs print nothing between banner and
newline, as the properties there do not look at it and `print_queue` does. Two
commands on one connection let threads of the first meet the second; one of the
two aborts may be late and the other in time. Two spawns are what one fork can mix up. Six bytes hold the longest chain of the automaton
(ESC, introducer, content, ESC, terminator, and a byte after it), and four
entries let a failed write, the line it spoils and two sound ones follow each
other. Four processes allow a corpse, an owner, an intruder and a successor. Two
callers and the worker are the three parties that can open a socket at once; two
calls may overlap or follow each other on one socket, and with the worker's they
fill the pool with a dead and a live one. Four names for sockets are one more
than may be open at once, so that `PoolBounded` can fail. A backlog of one is
filled by one connect to a suspended host, and the next one blocks. For the
properties that are proved (section 4) the bounds do not matter.

Deadlock is checked in `print_queue`. In the other models the system may rest:
clients may stay silent, a connection closed, a process gone, a host dead; or the bound on
commands, calls or processes is used up.

### Fairness

* `PrintQueue!Fairness`: threads that can step are scheduled; handlers reach
  `queue_console_output`, before which nothing blocks; PTYs come to their end.
  None for spurious wake-ups.
* `TranscriptQueue!Fairness`: attachment threads wake every 250 ms and notice what
  they can (`Wakes`). That a client takes what is written to it is a premise, and
  only of the second half of `AttachmentsEnd`. The first half is about clients that left
  nothing unread, or to which there is an entry to write; of the others the code
  does not satisfy it (section 5). Nothing of handlers or the main thread.
* `Host!HandlersRun`: handlers only. `Answered` holds though print workers,
  attachments and other clients may stop for ever. Its premise is that the PTY of the
  command and its process have ended (`Over`): the first alone is not enough, as
  `timeout_not_enforced` shows. That the threads which are joined in between
  end is not modelled there, but in Command (`EveryRequestAnswered`, whose premises
  include that lines end).
* `Command!HostRuns`: the host's threads, and a child between fork and exec.
  Nothing of commands that run. `EveryRequestAnswered` adds two premises: commands
  end (`CommandsEnd`) and a client that wrote a request writes its newline
  (`LinesEnd`). `TimeoutEndsGroup` and `AbortEndsGroup` need neither, but
  restrict the command to processes that stay in its group and let go of the PTY
  only by dying or being hung up on (`StaysInGroup`).
* `SpawnFds!Fairness`: handlers, the stdin thread once its pipe is broken, and a child on its way
  to exec. Commands and daemons may run for ever and never read.
* `TranscriptFile!Fairness`: the follower polls every 250 ms. Nothing of the host.
* `McpPool!Fairness`: callers run, a live host that is not suspended serves its
  sockets. The properties name what they assume besides: `CallsEnd` that 15
  seconds pass and a suspended host is resumed; `CallsReachHost` that there is time,
  and that a host returns and is resumed. Nothing of the worker anywhere.

## 4. Proofs

For every value of the constants, from the named assumptions on them (each
module's `…Assumption`: bounds are naturals, subsets are subsets, names are
distinct) and the library's theorems on sequences and finite sets:

* `PrintQueueProofs`: `TypeCorrect`, `OneVoiceAlways`, `ConsoleAlwaysOrdered`,
  `ConsoleAlwaysComplete`.
  `OneVoice` is not inductive: nothing in it keeps `next` from passing a worker
  that has not had its turn. `Turns` adds that the workers that are done are
  exactly those below `next`; so a worker that finds `next >= s` finds its own
  number, and nobody else can. Order needs `NothingEarly` besides: no line on
  the console is of a command after `next`. The lemma `AppendKeepsOrder` carries
  all writing steps. Completeness is `OutputInv`, per command: what was
  printed of it, what its worker took and not yet wrote, and what is pending
  concatenate to what its PTY gave (`Buffered`), and its lines on the console are
  what its worker's place says (`OnConsole`).
* `TranscriptQueueProofs`: `TypeCorrect`, `JournalAlwaysInOrder`,
  `NothingEverHeldBack`, `AttachAlwaysGapless`, `JournalOnlyGrows`,
  `ImplementsOrderedLog`. The invariant joins the three safety properties with
  `Bounds` (nothing is submitted or sent from beyond what was numbered or
  written). `SubmitStep` is the heart: from the horizon to the
  next number that is missing everything is taken, appended to the file and to every
  channel as one run, and runs that meet concatenate (`RunExtend`). The
  refinement shows that `Arrive` and `Submit` are the abstract steps and all
  others stutter.
* `HostProofs`: `EverySeqAlwaysAccounted`, `TurnsAlwaysAccounted`,
  `ConsoleUsedCorrectly`, `TranscriptUsedCorrectly`, `TypeCorrect`,
  `EntriesAlwaysFinal`. `Numbers` says where each number is: with one handler, or
  submitted, or abandoned; `SubmitMovesOne` that a submit changes this for its own
  number only. From it and `Fresh` follow the two refinements. `Fresh` says of the
  console, of which nothing in Host's actions does, that a number that was not given out has
  neither a print worker nor a PTY; that one whose handler is before its spawn has neither;
  and that one whose handler is about to queue it has no worker yet. It rests on
  `Numbers`, by which no two handlers have the same number, and on the
  handlers moving on when they queue; so a handler opens and queues what is new,
  and submits what is not submitted yet, and every step of the host is a step of each
  component or a stutter. The refinements carry the theorems of the two modules above into the
  host (`ConsoleInside`, `TranscriptInside`), and with `Ended` (the command of a handler
  past its two waits was never spawned, or its PTY and its process have
  ended; past its reply its client was answered or had left; and both of every
  submitted number) give that all an attached client is sent is final: it is a run of
  submitted numbers.
* `CommandProofs`: `TypeCorrect`, `NeverStray`, `NeverSilentlyKilled`,
  `RequestsNeverSwallowed`, `InterruptedNeverRun`. `Joined` ties the threads to the handler's
  place: past a join the thread is over, and the child is reaped only after all.
  `Traced` says that a signal leaves its trace in the thread that sent it, which
  the handler reads into the tag. For the lines: `OneRequest` (at most one body is
  in the socket, and none while the handler is active), `Unfinished` (a
  body whose newline is not written yet is the last piece) and `CutOff` (after an
  interruption a body is followed by an abort, so that its line is no request).
* `SpawnFdsProofs`: `TypeCorrect`, `DescriptorsAlwaysStayHome`, for any number of
  concurrent spawns. `Lives`: a command is not there before its fork, and gone when its errno
  pipe is read, so that the copy which `dup` makes, the only end of a pipe that
  others may keep past exec, is always of one that has ended.
* `HostFilesProofs`, the path: `TypeCorrect`, `SoleOwnerAlways`,
  `LoneStartsSucceed`, `NoPathEverLeft`. `Undisturbed`: while nobody raced, what a process learned
  from its last system call is still so at its next; `Alone`: a process that
  started alone stays so until another starts, and only it moves the path;
  `PathKept`: the path is nobody's who has not bound it, and of those that are gone
  only one's that crashed or found its transcript to exist.
* `HostFilesProofs`, the transcript file: `FileTypeCorrect`, `OnlyDroppedEverLost`,
  `AlwaysRenderedOnce`, `ListedAlwaysWithinFailures`, for any number of entries and
  of writes that stop or fail. None of the three properties is inductive: all of them look at
  the file only, and what is in the buffer will be in the file. `StreamInv`
  says that file and buffer together are the lines (`LinesInv`) of the entries
  that `append` is done with, and behind them perhaps a part of a long one;
  `AccountInv` that lines that wait in the buffer and lines that were dropped are paid for by
  failures; `ReaderInv` that the follower stands at the end of a line and printed
  what the file parses to up to there. `LineAdded`, `LineDropped` and
  `HeadDropped` are the three things that may become of a line; `Emptied` (a
  buffer that is not empty between appends has seen a failure) and `WholeLinesDecode` give
  that without a failure the file decodes, and `--list` counts all of it;
  `ParseableOfConcat` and `ParsedOfConcat` say what readers see of a file that
  has grown. `PathIsFile` carries this from TranscriptFile to OutputPath.
* `HostFilesProofs`, the filter: `FilterAlwaysExact`, for outputs of any length
  and every way of cutting them into reads. `FeedConcat`: two reads are as
  good as one, so that the filter is always what the whole output makes of a new one
  (`FilterInv`). `SequenceIsCut`: from the ESC of a sequence to its end nothing is
  printed, and there the filter is in `Normal` again. `FeedIsVisible` then
  goes backwards from the end of the output: from every position at which
  the filter is in `Normal`, it prints what is visible from there on.
* `McpPoolProofs`: `ActiveAlwaysCounted` (each step of a caller enters or leaves
  the set of lessees exactly when it moves the counter) and `NeverSentTwice`
  (`OneCaller`: a call is one caller's; `Unended`: its request is unsent before
  `await` and sent once there). `PoolIsClean`, `AnswersAreOwn` and
  `RequestsAreAnnounced` hold together or not at all: `SocketInv` says who has
  each socket (`Ownership`), and what may be in flight in it, in both directions,
  given where its holder is (`InFlight`). `PoolIsBounded` needs `Room`: sockets that are
  open or being opened never exceed callers and worker.

`SequenceLemmas` holds what these need about sequences in general: concatenation,
selections (`SelectionOfConcat`), and induction over the naturals for a *set* of numbers
(`NatSetInduction`), which the provers can use where the library's induction theorem,
whose parameter is an operator, is out of their reach. With it recursive functions
such as `Feed` and `Visible` can be reasoned about. No module with a theorem declares or
reaches a RECURSIVE operator.

Every invariant and action property of the passing runs is stated by a theorem.
Only model-checked: the liveness properties, which rest on fairness and with it
on ENABLED, out of the prover's reach; and what the runs of section 5
refute.

## 5. Where the code and its documentation disagree

With a run that shows it:

* `run_not_journaled` (`host.rs:494`): a spawn failure whose client is gone
  returns before `submit`; its number is missing for ever, so no later run is
  written. README.md:33: "Every run is appended".
* `timeout_not_enforced` (`host.rs:594`): the timer is cancelled when the PTY
  is at its end, not when the child is. README.md:409: "Maximum runtime".

Stated in the modules, without a run of their own (TLC finds each violated when
its definition is added as an INVARIANT, or PROPERTY, to the cfg that is named):

* `Host!DurableToLastCompleted` (`run_not_journaled.cfg`): shutdown waits for
  no handler (`host.rs:251`), and what is pending is dropped. README.md:493:
  "the transcript is durable up to the last completed command".
* `Host!FinishedIsJournaled` (`host_answers.cfg`): `submit` comes after
  `write_response` (`host.rs:639`), which waits for the client; one that does not
  read keeps its own and all later runs out of the file. README.md:33.
* `SpawnFds!SlowNeverBlocksFast` and `SpawnFds!HostAloneHoldsMasters`
  (`spawn_fds.cfg`): a command forked while `forkpty` has another one's slave open
  keeps that PTY from its end (`pty_exec.rs:111`), and every later command
  inherits the masters of those that run. README.md:321: "a slow command never
  blocks a fast one from completing on the client side".
* `HostStartup!SoleHost` (`startup_safety.cfg`): the path is removed by name after
  a probe that failed earlier (`host.rs:317`). README.md:175: "Refuses to start if
  another host already owns the per-user socket".
* `HostStartup!ServingReachable` (`startup_safety.cfg`): `remove_file`
  follows `drop(listener)` (`host.rs:253`), and a new host may be in between.
* `McpPool!CallsEndInTime` (`pool_liveness.cfg`): `connect` has no time
  limit (`client.rs:39`), so a suspended host with a full backlog
  holds a call for longer than its 15 seconds. README.md:250.
* `Command!AbortEnds` (`timeout_not_enforced.cfg`, with `MaxAborts = 1`): the
  watcher is joined before `waitpid` (`host.rs:603`); afterwards nobody reads
  the connection. README.md:449: "EOF while a command is active is treated as
  an abort".
* `Command!AbortedMeansKilled` (same): EOF read after the exit and before
  `command_finished` is seen tags the response `aborted` although nothing was
  killed (`host.rs:713`). README.md:434.
* `Command!ChdirFailureIsSpawnFailed` (same): every errno on the pipe
  is tagged `not_found` (`host.rs:613`), also that of `chdir`. README.md:433.

And without a definition, from reading the code for the models:

* a client that attaches while finished commands wait behind an earlier one is
  later sent those (`host.rs:126`), though README.md:464 says "Entries completed
  before attachment are not sent."; `AttachGapless` says exactly what is sent;
* an attach client that sent a byte after its request and then closed is taken to be
  there (`host.rs:926`), until an entry is written to it: `TranscriptQueue!`
  `DetachNoticedWithoutEvent` (a PROPERTY of `transcript_queue.cfg`). The test
  `attachment_disconnect_is_detected_without_an_event` of `host.rs` has a client that sent
  nothing; `client.rs` never does;
* a write that fails in the middle of a UTF-8 character of a long line leaves a file
  that does not decode: `count_lines` fails (`transcript.rs:107`) and `--list` shows
  `commands=0` (`transcript.rs:94`) for all of it, for as long as the file exists;
  README.md:186-195 shows how many there are. `ListedWithinFailures` excludes
  exactly the files that do not decode, and shows that it takes a failed write;
* `read_errno` duplicates the read end of the errno pipe without O_CLOEXEC
  (`pty_exec.rs:209`), though `pipe2` at `pty_exec.rs:92` made it so: a command that is
  forked meanwhile keeps it past exec. `DescriptorsStayHome` shows that its own
  command has ended by then, and `EndedIsAnswered` that it delays nobody. The
  temporary PTY of `make_termios` (`pty_exec.rs:237`) is inherited in the same way;
* an abort line whose newline comes more than 100 ms after it is lost, because the
  watcher clears its line before each read (`host.rs:712`); rexec's own clients
  write the line at once. The model has no clock and lets it arrive;
* a BEL directly after an ESC inside an OSC string does not end the string
  (`filter.rs`), as README.md:345 may be read to say; `SequenceEnd` follows the code;
* an append that fails may join the next entry to the broken line, and both are
  lost to readers (`transcript.rs:41`, README.md:493): `OnlyDroppedLost` says how much;
* a request whose client died between body and newline is spawned at EOF and
  then aborted, as it is a complete JSON value; only one cut by the abort handler
  is not (`InterruptedNeverRuns`).

## 6. Hazards covered

`PROJECT.json` gives the line of each. Interleaving and atomicity: console
wake-ups, the drain with the lock released, timer and watcher against the
reaper, two starts, subscribers that come and go, forks between another
handler's open and close, a signal between two writes, a reader of a file that
is being written. Ordering: both queues, the drop of the errno pipe's write end. Partial
failure: spawn failures, responses that cannot be written, leases
dropped on every path, appends that fail half-way. Crash: stale paths. Timeouts
and retries: late pongs, kills that race with the exit, connects that block,
reads that time out in the middle of a line. Limits: pool size, transcript names, the
bytes of an escape sequence at the edge of a read. Liveness: turns, answers,
limits, attachments, calls, stdin. Those without a property have a note.

## 7. Not modelled, and why

* JSON-RPC, tool schemas and the JSON of the messages (external libraries),
  rendering, choosing and sorting the names that `--list` shows, CLI parsing,
  service files, `PATH`: sequential, without state that outlives a call.
* The 60 s limit of a connection's first read (`host.rs`): it only closes connections
  that never sent anything.
* Exhausted threads, memory or descriptors, among them the unbounded channel of an
  attach client that does not read (`host.rs:133`); `unwrap` on poisoned mutexes.
* A line of the transcript that exactly fills the `BufWriter`, so that only the flush of
  its newline fails: in TranscriptFile a line and its newline are buffered together or the
  line is written directly. What is left behind is a line without its newline, as it
  also is when the last write of a flush fails.
* Bytes: output is classes of bytes in OutputFilter and numbers of chunks elsewhere,
  names and payloads are tags; response text, exit codes and durations are left
  out, and so are modes, umask, termios and environment strings.
* Clocks: timeouts may fire at any moment, which includes every real timing, but
  says nothing about how long anything takes. The 200 ms between SIGTERM and SIGKILL are
  assumed to be longer than a child's way from fork to `setsid`.

## 8. Plan

Done: all modules of section 2, in this order: PrintQueue, TranscriptQueue with
OrderedLog, Host, Command, HostStartup, McpPool; then SpawnFds, the wire in
Command, OutputFilter, TranscriptFile, OutputPath, suspended hosts in McpPool and
stalled clients in Host; and their proofs.

Then the safety properties left of the pool, the console, the transcript file and the
filter as theorems.

Left, most useful first: the composition of Command with Host, for which the
handlers' places correspond one to one; safety facts behind the liveness
properties (that a thread which waits is waited for by nobody in turn), which
would be theorems where the liveness itself is not.
