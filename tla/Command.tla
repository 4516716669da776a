------------------------------ MODULE Command ------------------------------
(***************************************************************************)
(* One connection's commands (src/src/host.rs handle_connection from the   *)
(* spawn to the response): the handler, the PTY reader, the timeout thread,*)
(* the abort watcher that borrows the connection's BufReader, the child's  *)
(* process group and whoever else holds its PTY, and the client, of which  *)
(* every write is one step: a request is two, and a signal or the end of   *)
(* the client may come between them.                                       *)
(*                                                                         *)
(* Clocks are left out: the timer expires, and a 100 ms read times out, at *)
(* any moment; the 200 ms between SIGTERM and SIGKILL are only assumed to  *)
(* be longer than a child's way from fork to setsid.                       *)
(* Definitions marked "Fault" are not part of the model: each is a variant *)
(* of the definition after it with one bug, which a property must detect.  *)
(***************************************************************************)
EXTENDS Naturals, Sequences

CONSTANTS
  MaxCmds,  (* commands the client sends on the connection                *)
  MaxAborts,(* abort lines it sends in all                                *)
  Escapes   (* what commands may do to get out of reach of their group:   *)
            (* "setsid" leaves a process of another session on the PTY,   *)
            (* "detach" closes the PTY and is not hung up: it ignores     *)
            (* SIGHUP, or a later command inherited the master (SpawnFds) *)

ASSUME CommandAssumption ==
  /\ MaxCmds \in Nat
  /\ MaxAborts \in Nat
  /\ Escapes \subseteq {"setsid", "detach"}

VARIABLES
  (* the host *)
  handler,   (* where handle_connection is                                 *)
  timer,     (* the timeout thread                                         *)
  cancelled, (* was cancel.send(()) done for the current timer?            *)
  watcher,   (* the abort watcher                                          *)
  command_finished,
  reader,    (* the PTY reader: "open" or "eof"                            *)
  (* the command *)
  child,     (* "none", "starting", "running", "zombie" or "reaped"        *)
  holders,   (* who holds the slave side of the PTY                        *)
  immune,    (* will the end of the PTY not hang up on the child?          *)
  errno,     (* what the child wrote to the errno pipe: "none", "chdir" or *)
             (* "exec", for the call that failed                           *)
  (* the client *)
  inbox,     (* pieces of lines it wrote and the host did not read         *)
  writing,   (* the half of a line that it wrote: "none", "body" or "half" *)
  awaiting,  (* has it begun a request that is not answered?               *)
  left,      (* has it closed the connection or died?                      *)
  tag,       (* Response.error of the last response                        *)
  (* history *)
  sent,      (* requests begun                                             *)
  aborts,    (* abort lines begun                                          *)
  interrupted, (* did a signal or its end cut a request short?             *)
  signalled, (* did a signal of the host reach a live process of the       *)
             (* current command's group?                                   *)
  stray      (* did the host signal a pid that it had already reaped?      *)

host == <<handler, timer, cancelled, watcher, command_finished, reader>>
command == <<child, holders, immune, errno>>
client == <<inbox, writing, awaiting, left, tag, sent, aborts, interrupted>>
history == <<signalled, stray>>
vars == <<host, command, client, history>>

HandlerStates == {"idle", "join", "cancel", "join_timer", "join_watcher", "wait", "reply",
                  "returned"}
TimerStates == {"off", "armed", "expired", "grace", "fired", "quit"}
WatcherStates == {"none", "check", "read", "abort", "grace", "aborted", "quit"}

(* What one write() leaves in the socket: a request without its newline,   *)
(* part of one, a newline, ABORT_LINE, and an abort without its newline.   *)
Pieces == {"body", "part", "nl", "abort", "half"}

TypeOK ==
  /\ handler \in HandlerStates
  /\ timer \in TimerStates
  /\ watcher \in WatcherStates
  /\ cancelled \in BOOLEAN /\ command_finished \in BOOLEAN
  /\ reader \in {"open", "eof"}
  /\ child \in {"none", "starting", "running", "zombie", "reaped"}
  /\ holders \subseteq {"leader", "group", "outside"}
  /\ immune \in BOOLEAN
  /\ errno \in {"none", "chdir", "exec"}
  /\ inbox \in Seq(Pieces) /\ writing \in {"none", "body", "half"}
  /\ awaiting \in BOOLEAN /\ left \in BOOLEAN
  /\ tag \in {"none", "not_found", "timeout", "aborted"}
  /\ sent \in 0 .. MaxCmds /\ aborts \in 0 .. MaxAborts
  /\ interrupted \in BOOLEAN /\ signalled \in BOOLEAN /\ stray \in BOOLEAN

Init ==
  /\ handler = "idle" /\ timer = "off" /\ cancelled = FALSE /\ watcher = "none"
  /\ command_finished = FALSE /\ reader = "eof"
  /\ child = "none" /\ holders = {} /\ immune = FALSE /\ errno = "none"
  /\ inbox = <<>> /\ writing = "none" /\ awaiting = FALSE /\ left = FALSE /\ tag = "none"
  /\ sent = 0 /\ aborts = 0 /\ interrupted = FALSE
  /\ signalled = FALSE /\ stray = FALSE

-----------------------------------------------------------------------------
(* The client: one request at a time, aborts while it waits, and its end.  *)

(* write_all(body) of send_request, then write_all("\n").                  *)
SendBody ==
  /\ ~awaiting /\ ~left /\ writing = "none" /\ sent < MaxCmds
  /\ inbox' = Append(inbox, "body")
  /\ writing' = "body"
  /\ awaiting' = TRUE
  /\ sent' = sent + 1
  /\ UNCHANGED <<host, command, left, tag, aborts, interrupted, history>>

SendNewline ==
  /\ writing # "none" /\ ~left
  /\ inbox' = Append(inbox, "nl")
  /\ writing' = "none"
  /\ UNCHANGED <<host, command, awaiting, left, tag, sent, aborts, interrupted, history>>

(* abort_signal_handler runs between the two writes: it writes ABORT_LINE  *)
(* and dies.                                                               *)
Interrupted ==
  /\ writing = "body" /\ ~left
  /\ inbox' = Append(inbox, "abort")
  /\ left' = TRUE
  /\ interrupted' = TRUE
  /\ UNCHANGED <<host, command, writing, awaiting, tag, sent, aborts, history>>

(* Or within the first, when the socket did not take all of it; or the     *)
(* client is killed there, and no handler runs.                            *)
CutShort ==
  /\ ~awaiting /\ ~left /\ writing = "none" /\ sent < MaxCmds
  /\ inbox' \in {Append(inbox, "part"), inbox \o <<"part", "abort">>}
  /\ awaiting' = TRUE /\ left' = TRUE /\ interrupted' = TRUE
  /\ sent' = sent + 1
  /\ UNCHANGED <<host, command, writing, tag, aborts, history>>

(* Aborts, also late ones: the response is on its way, or was read, but    *)
(* the guard not yet disarmed.  rexec writes the line at once, another     *)
(* client may do as it does with a request.                                *)
SendAbort ==
  /\ sent > 0 /\ ~left /\ writing = "none" /\ aborts < MaxAborts
  /\ \E piece \in {"abort", "half"} :
       /\ inbox' = Append(inbox, piece)
       /\ writing' = IF piece = "half" THEN "half" ELSE "none"
  /\ aborts' = aborts + 1
  /\ UNCHANGED <<host, command, awaiting, left, tag, sent, interrupted, history>>

Leave ==
  /\ ~left
  /\ left' = TRUE
  /\ UNCHANGED <<host, command, inbox, writing, awaiting, tag, sent, aborts, interrupted, history>>

-----------------------------------------------------------------------------
(* BufReader::read_line, of handler and watcher.                           *)

(* The first n pieces are the line it returns: they go to the first        *)
(* newline, or, at EOF, are all there is.                                  *)
EndsLine(n) ==
  /\ \A i \in 1 .. n - 1 : inbox[i] \notin {"nl", "abort"}
  /\ inbox[n] \in {"nl", "abort"} \/ (left /\ n = Len(inbox))

Line(n) == SubSeq(inbox, 1, n)
ReadLine(n) == EndsLine(n) /\ inbox' = SubSeq(inbox, n + 1, Len(inbox))

(* It has no line to return, nor EOF: it waits.                            *)
NoLine == ~left /\ \A n \in 1 .. Len(inbox) : ~EndsLine(n)

(* Fault: the first JSON value of a line is taken, and the rest ignored.   *)
KindOfPrefix(line) ==
  IF line[1] = "body" THEN "request"
  ELSE IF line[1] \in {"abort", "half"} THEN "abort" ELSE "other"

(* What serde_json::from_str makes of a line: only one whole JSON value is *)
(* a request or an abort, with a newline or not; others are blank lines or *)
(* malformed.                                                              *)
Kind(line) ==
  IF line \in {<<"body">>, <<"body", "nl">>} THEN "request"
  ELSE IF line \in {<<"abort">>, <<"half">>, <<"half", "nl">>} THEN "abort"
  ELSE IF line = <<"nl">> THEN "blank" ELSE "malformed"

-----------------------------------------------------------------------------
(* The child, its process group and the other holders of its PTY.          *)

(* The child became a session leader and called execvp.                    *)
Starts ==
  /\ child = "starting"
  /\ child' = "running"
  /\ UNCHANGED <<host, holders, immune, errno, client, history>>

(* chdir or execvp failed: the child writes errno to the pipe and exits.   *)
StartFails ==
  /\ child = "starting"
  /\ child' = "zombie"
  /\ holders' = {}
  /\ errno' \in {"chdir", "exec"}
  /\ UNCHANGED <<host, immune, client, history>>

(* It starts a process that inherits the PTY, in its group or outside.     *)
Forks(who) ==
  /\ child = "running" /\ "leader" \in holders
  /\ who \notin holders
  /\ holders' = holders \cup {who}
  /\ UNCHANGED <<host, child, immune, errno, client, history>>

(* It closes the PTY and runs on.                                          *)
Detaches(spared) ==
  /\ child = "running" /\ "leader" \in holders
  /\ holders' = holders \ {"leader"}
  /\ immune' = spared
  /\ UNCHANGED <<host, child, errno, client, history>>

(* The child exits; or another holder exits, or closes the PTY.            *)
Exits ==
  /\ child = "running"
  /\ child' = "zombie"
  /\ holders' = holders \ {"leader"}
  /\ UNCHANGED <<host, immune, errno, client, history>>

HolderEnds(who) ==
  /\ who \in holders
  /\ holders' = holders \ {who}
  /\ UNCHANGED <<host, child, immune, errno, client, history>>

Acts ==
  \/ Starts \/ StartFails \/ Exits
  \/ Forks("group")
  \/ "setsid" \in Escapes /\ Forks("outside")
  \/ Detaches(FALSE)
  \/ "detach" \in Escapes /\ Detaches(TRUE)
  \/ HolderEnds("group") \/ HolderEnds("outside")

(* killpg(child, ...): before setsid there is no such group; SIGTERM may   *)
(* be handled or ignored by each process, SIGKILL may not.                 *)
GroupAlive == child = "running" \/ "group" \in holders

Stray == stray' = (stray \/ child = "reaped")

Terminate ==
  /\ signalled' = (signalled \/ GroupAlive)
  /\ Stray
  /\ \/ UNCHANGED <<child, holders>>
     \/ /\ child = "running"
        /\ child' = "zombie"
        /\ holders' \in {holders \ {"leader"}, holders \ {"leader", "group"}}
     \/ /\ child # "starting"
        /\ UNCHANGED child
        /\ holders' = holders \ {"group"}

Kill ==
  /\ signalled' = (signalled \/ GroupAlive)
  /\ Stray
  /\ child' = IF child = "running" THEN "zombie" ELSE child
  /\ holders' = holders \ {"leader", "group"}

(* The time between the two signals is enough for a child to start.        *)
GraceOver == child # "starting"

-----------------------------------------------------------------------------
(* The PTY reader thread.                                                  *)

(* Nobody holds the slave: pty_reader sets eof and drops the master, which *)
(* hangs up on a child that still runs.                                    *)
PtyEof ==
  /\ reader = "open" /\ holders = {}
  /\ reader' = "eof"
  /\ child' = IF child = "running" /\ ~immune THEN "zombie" ELSE child
  /\ UNCHANGED <<handler, timer, cancelled, watcher, command_finished, holders, immune, errno,
                 client, history>>

-----------------------------------------------------------------------------
(* The timeout thread.                                                     *)

(* timeout_expired: no message came before the deadline.                   *)
TimerExpires ==
  /\ timer = "armed" /\ ~cancelled
  /\ timer' = "expired"
  /\ UNCHANGED <<handler, cancelled, watcher, command_finished, reader, command, client, history>>

(* Or one came: the thread ends, returning false.                          *)
TimerCancelled ==
  /\ timer = "armed" /\ cancelled
  /\ timer' = "quit"
  /\ UNCHANGED <<handler, cancelled, watcher, command_finished, reader, command, client, history>>

(* kill_child_group; the thread then returns true.                         *)
TimerTerm ==
  /\ timer = "expired"
  /\ timer' = "grace"
  /\ Terminate
  /\ UNCHANGED <<handler, cancelled, watcher, command_finished, reader, immune, errno, client>>

(* Fault: kill_child_group sends SIGTERM only.                             *)
TimerOnlyTerm ==
  /\ timer = "grace" /\ GraceOver
  /\ timer' = "fired"
  /\ UNCHANGED <<handler, cancelled, watcher, command_finished, reader, command, client, history>>

TimerKill ==
  /\ timer = "grace" /\ GraceOver
  /\ timer' = "fired"
  /\ Kill
  /\ UNCHANGED <<handler, cancelled, watcher, command_finished, reader, immune, errno, client>>

Timer == TimerExpires \/ TimerCancelled \/ TimerTerm \/ TimerKill

-----------------------------------------------------------------------------
(* The abort watcher.                                                      *)

Watch(from, to) ==
  /\ watcher = from
  /\ watcher' = to

(* Fault: command_finished is not looked at.                               *)
WatchCheckNothing ==
  /\ Watch("check", "read")
  /\ UNCHANGED <<handler, timer, cancelled, command_finished, reader, command, client, history>>

(* The head of the watcher's loop.                                         *)
WatchCheck ==
  /\ Watch("check", IF command_finished THEN "quit" ELSE "read")
  /\ UNCHANGED <<handler, timer, cancelled, command_finished, reader, command, client, history>>

(* read_line returned Ok(0), or an error other than a timeout.             *)
WatchEof ==
  /\ inbox = <<>> /\ left
  /\ Watch("read", "abort")
  /\ UNCHANGED <<handler, timer, cancelled, command_finished, reader, command, client, history>>

(* read_line returned a line: an abort, or something to ignore.            *)
WatchLine ==
  /\ \E n \in 1 .. Len(inbox) :
       ReadLine(n) /\ Watch("read", IF Kind(Line(n)) = "abort" THEN "abort" ELSE "check")
  /\ UNCHANGED <<handler, timer, cancelled, command_finished, reader, command, writing, awaiting,
                 left, tag, sent, aborts, interrupted, history>>

(* read_line timed out after 100 ms: what it had read of a line is cleared *)
(* when the loop comes round.                                              *)
WatchTimeout ==
  /\ NoLine
  /\ Watch("read", "check")
  /\ inbox' = <<>>
  /\ UNCHANGED <<handler, timer, cancelled, command_finished, reader, command, writing, awaiting,
                 left, tag, sent, aborts, interrupted, history>>

(* kill_child_group; the watcher then returns (reader, true).              *)
WatchTerm ==
  /\ Watch("abort", "grace")
  /\ Terminate
  /\ UNCHANGED <<handler, timer, cancelled, command_finished, reader, immune, errno, client>>

(* Fault: kill_child_group sends SIGTERM only.                             *)
WatchOnlyTerm ==
  /\ GraceOver
  /\ Watch("grace", "aborted")
  /\ UNCHANGED <<handler, timer, cancelled, command_finished, reader, command, client, history>>

WatchKill ==
  /\ GraceOver
  /\ Watch("grace", "aborted")
  /\ Kill
  /\ UNCHANGED <<handler, timer, cancelled, command_finished, reader, immune, errno, client>>

Watcher ==
  \/ WatchCheck \/ WatchEof \/ WatchLine \/ WatchTimeout \/ WatchTerm \/ WatchKill

-----------------------------------------------------------------------------
(* The connection handler.                                                 *)

Goto(from, to) ==
  /\ handler = from
  /\ handler' = to

(* An authorised request is read, and its command spawned: forkpty made    *)
(* the child and gave it the PTY; reader, timer and watcher are started.   *)
Spawn ==
  /\ \E n \in 1 .. Len(inbox) : ReadLine(n) /\ Kind(Line(n)) = "request"
  /\ Goto("idle", "join")
  /\ timer' \in {"off", "armed"}
  /\ cancelled' = FALSE
  /\ watcher' = "check"
  /\ command_finished' = FALSE
  /\ reader' = "open"
  /\ child' = "starting" /\ holders' = {"leader"} /\ immune' = FALSE /\ errno' = "none"
  /\ signalled' = FALSE
  /\ UNCHANGED <<writing, awaiting, left, tag, sent, aborts, interrupted, stray>>

(* An abort between two commands, with nothing to abort; a blank line.     *)
IgnoreLine ==
  /\ handler = "idle"
  /\ \E n \in 1 .. Len(inbox) : ReadLine(n) /\ Kind(Line(n)) \in {"abort", "blank"}
  /\ UNCHANGED <<host, command, writing, awaiting, left, tag, sent, aborts, interrupted, history>>

(* The response to a malformed line is written, or its client is gone.     *)
RefuseLine ==
  /\ \E n \in 1 .. Len(inbox) : ReadLine(n) /\ Kind(Line(n)) = "malformed"
  /\ handler = "idle" /\ handler' \in {"idle", "returned"}
  /\ UNCHANGED <<timer, cancelled, watcher, command_finished, reader, command, writing, awaiting,
                 left, tag, sent, aborts, interrupted, history>>

ReadEof ==
  /\ inbox = <<>> /\ left
  /\ Goto("idle", "returned")
  /\ UNCHANGED <<timer, cancelled, watcher, command_finished, reader, command, client, history>>

(* reader_handle.join(), then command_finished.store(true).                *)
JoinReader ==
  /\ reader = "eof"
  /\ Goto("join", IF timer = "off" THEN "join_watcher" ELSE "cancel")
  /\ command_finished' = TRUE
  /\ UNCHANGED <<timer, cancelled, watcher, reader, command, client, history>>

CancelTimer ==
  /\ Goto("cancel", "join_timer")
  /\ cancelled' = TRUE
  /\ UNCHANGED <<timer, watcher, command_finished, reader, command, client, history>>

(* Fault: the timeout thread is not joined.                                *)
JoinTimerAtOnce ==
  /\ Goto("join_timer", "join_watcher")
  /\ UNCHANGED <<timer, cancelled, watcher, command_finished, reader, command, client, history>>

JoinTimer ==
  /\ timer \in {"fired", "quit"}
  /\ Goto("join_timer", "join_watcher")
  /\ UNCHANGED <<timer, cancelled, watcher, command_finished, reader, command, client, history>>

(* Fault: the watcher is not joined before waitpid.                        *)
JoinWatcherAtOnce ==
  /\ Goto("join_watcher", "wait")
  /\ UNCHANGED <<timer, cancelled, watcher, command_finished, reader, command, client, history>>

(* The watcher gives the connection's BufReader back.                      *)
JoinWatcher ==
  /\ watcher \in {"aborted", "quit"}
  /\ Goto("join_watcher", "wait")
  /\ UNCHANGED <<timer, cancelled, watcher, command_finished, reader, command, client, history>>

(* wait_for_child: waitpid reaps the child.                                *)
Wait ==
  /\ child = "zombie"
  /\ Goto("wait", "reply")
  /\ child' = "reaped"
  /\ UNCHANGED <<timer, cancelled, watcher, command_finished, reader, holders, immune, errno,
                 client, history>>

(* Fault: timed_out and aborted are taken to exclude each other.           *)
ErrorTagOneCause ==
  IF errno # "none" THEN "not_found"
  ELSE IF timer = "fired" /\ watcher = "quit" THEN "timeout"
  ELSE IF timer # "fired" /\ watcher = "aborted" THEN "aborted"
  ELSE "none"

(* response_error: the errno pipe before the timeout before the abort.     *)
ErrorTag ==
  IF errno # "none" THEN "not_found"
  ELSE IF timer = "fired" THEN "timeout"
  ELSE IF watcher = "aborted" THEN "aborted"
  ELSE "none"

(* The response is written, and the handler reads the next line.           *)
Reply ==
  /\ Goto("reply", "idle")
  /\ tag' = ErrorTag
  /\ awaiting' = FALSE
  /\ UNCHANGED <<timer, cancelled, watcher, command_finished, reader, command, inbox, writing,
                 left, sent, aborts, interrupted, history>>

Handler ==
  \/ Spawn \/ IgnoreLine \/ RefuseLine \/ ReadEof
  \/ JoinReader \/ CancelTimer \/ JoinTimer \/ JoinWatcher \/ Wait \/ Reply

-----------------------------------------------------------------------------
Next ==
  \/ SendBody \/ SendNewline \/ Interrupted \/ CutShort \/ SendAbort \/ Leave
  \/ Acts
  \/ PtyEof \/ Timer \/ Watcher \/ Handler

Spec == Init /\ [][Next]_vars

(* The host's threads are scheduled, and so is a child on its way from     *)
(* fork to exec.  Of a command that runs nothing is assumed.               *)
HostRuns ==
  /\ WF_vars(Handler) /\ WF_vars(PtyEof) /\ WF_vars(Timer) /\ WF_vars(Watcher)
  /\ WF_vars(Starts \/ StartFails)

(* Commands that end by themselves, and do not leave the PTY to others.    *)
CommandsEnd ==
  /\ WF_vars(Exits)
  /\ WF_vars(HolderEnds("group")) /\ WF_vars(HolderEnds("outside"))

(* Clients that write the newline after their request, unless they end.    *)
LinesEnd == WF_vars(SendNewline)

HostSpec == Spec /\ HostRuns

-----------------------------------------------------------------------------
(* host.rs:601, "Join the abort watcher BEFORE waitpid so it cannot race   *)
(* with PID reuse": neither the watcher nor the timer of any command ever  *)
(* signals a process group whose leader was reaped, also when a command    *)
(* follows on the same connection.                                         *)
NoStraySignal == ~stray

(* A command the host killed is never reported as one that ended by        *)
(* itself, whichever of timer, watcher and handler noticed first.          *)
NoSilentKill ==
  handler = "idle" /\ child = "reaped" /\ signalled => tag # "none"

(* The watcher borrows the BufReader that the next request is read from:   *)
(* it never reads, and so never swallows, a request.                       *)
NoRequestSwallowed ==
  watcher \in {"check", "read"} => "body" \notin {inbox[i] : i \in 1 .. Len(inbox)}

(* A client that was interrupted while it wrote its request never has that *)
(* request run: what abort_signal_handler or its death leave in the socket *)
(* is no request, and the handler goes on to EOF.                          *)
InterruptedNeverRuns == interrupted => handler \in {"idle", "returned"}

(* Every request is answered, or its client left, if commands and lines    *)
(* end: no join of reader, timer, watcher and child waits for ever.        *)
EveryRequestAnswered == CommandsEnd /\ LinesEnd => (awaiting ~> ~awaiting \/ left)

(* README.md:409, `timeout`, "Maximum runtime in seconds": a command that  *)
(* has one ends and is reported, whatever it does.                         *)
TimeoutEnds == handler = "join" /\ timer # "off" ~> handler = "reply"

(* README.md:442-450: an abort, or EOF, "while a command is active" ends   *)
(* the command; the handler does not outlive a client that left.           *)
AbortEnds ==
  /\ left ~> handler = "returned"
  /\ "abort" \in {inbox[i] : i \in 1 .. Len(inbox)} /\ handler = "join" ~> handler # "join"

(* Commands whose processes stay in the group, and that do not let go of   *)
(* the PTY while they live on: all that killpg promises to reach.          *)
StaysInGroup == [](~immune /\ "outside" \notin holders)

(* Such commands end at their timeout, and when their client aborts or     *)
(* leaves, even if they ignore SIGTERM and would never end.                *)
TimeoutEndsGroup == StaysInGroup => TimeoutEnds
AbortEndsGroup == StaysInGroup => AbortEnds

(* README.md:434, `aborted`, "The host killed the child because the client *)
(* sent abort or disconnected".                                            *)
AbortedMeansKilled ==
  handler = "idle" /\ child = "reaped" /\ tag = "aborted" => signalled

(* README.md:433, `spawn_failed`, "chdir, setenv, or fork failed before    *)
(* exec".  (tag never has that value here: it is given by the path of      *)
(* handle_connection on which no child exists.)                            *)
ChdirFailureIsSpawnFailed ==
  handler = "idle" /\ child = "reaped" /\ errno = "chdir" => tag = "spawn_failed"
=============================================================================
