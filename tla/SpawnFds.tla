------------------------------ MODULE SpawnFds ------------------------------
(***************************************************************************)
(* Which process holds which descriptor while several handlers spawn       *)
(* commands at once (src/src/pty_exec.rs spawn, called by handle_connection*)
(* of src/src/host.rs): fork copies all that the host has open, for its    *)
(* own command and for every other one, and exec closes only what is       *)
(* O_CLOEXEC.  Pipes and PTYs give EOF when their last writer is closed,   *)
(* so a descriptor that is held elsewhere holds up whoever waits for it.   *)
(*                                                                         *)
(* A command and all its descendants are one holder.  Signals, hang-ups    *)
(* and processes that let go of the PTY while they run are in Command.     *)
(* Definitions marked "Fault" are not part of the model: each is a variant *)
(* of the definition after it with one bug, which a property must detect.  *)
(***************************************************************************)
EXTENDS Naturals

CONSTANTS
  Cmds,     (* commands, each of a connection of its own                   *)
  Fed,      (* those whose request has a stdin                             *)
  Host      (* the host process                                            *)

ASSUME SpawnFdsAssumption == Fed \subseteq Cmds /\ Host \notin Cmds

VARIABLES
  step,     (* where each command's handler is                             *)
  child,    (* "none", "forked" (not yet exec'ed), "running" or "gone"     *)
  failed,   (* did it write an errno to its pipe?                          *)
  feeder,   (* the thread that writes its stdin                            *)
  held,     (* the descriptors each process holds                          *)
  raced     (* history: was its slave open in the host when another        *)
            (* handler forked?                                             *)

vars == <<step, child, failed, feeder, held, raced>>

Processes == Cmds \cup {Host}
PipeEnds == {"errno_r", "errno_w", "stdin_r", "stdin_w"}
PtyEnds == {"master", "slave"}

(* What the host has open for one call only: the PTY make_termios looks at *)
(* (one name for both its ends), and read_errno's copy of errno_r.         *)
ShortLived == {"probe", "errno_dup"}
Ends == (PipeEnds \cup PtyEnds \cup ShortLived) \X Cmds

Steps == {"idle", "pipes", "probe", "ready", "pty", "forked", "parent", "serving", "wait", "errno",
          "read", "answered", "failed"}

TypeOK ==
  /\ step \in [Cmds -> Steps]
  /\ child \in [Cmds -> {"none", "forked", "running", "gone"}]
  /\ failed \in [Cmds -> BOOLEAN]
  /\ feeder \in [Cmds -> {"none", "writing", "done"}]
  /\ held \in [Processes -> SUBSET Ends]
  /\ raced \in [Cmds -> BOOLEAN]

Init ==
  /\ step = [c \in Cmds |-> "idle"]
  /\ child = [c \in Cmds |-> "none"]
  /\ failed = [c \in Cmds |-> FALSE]
  /\ feeder = [c \in Cmds |-> "none"]
  /\ held = [p \in Processes |-> {}]
  /\ raced = [c \in Cmds |-> FALSE]

Own(kinds, c) == kinds \X {c}
Open(end) == \E p \in Processes : end \in held[p]

-----------------------------------------------------------------------------
(* The handler, in spawn.                                                  *)

Goto(c, from, to) ==
  /\ step[c] = from
  /\ step' = [step EXCEPT ![c] = to]

HostOpens(ends) == held' = [held EXCEPT ![Host] = @ \cup ends]
HostCloses(ends) == held' = [held EXCEPT ![Host] = @ \ ends]

(* pipe2 for errno, and another for stdin; else fd 0 will be /dev/null.    *)
MakePipes(c) ==
  /\ Goto(c, "idle", "pipes")
  /\ HostOpens(Own(IF c \in Fed THEN PipeEnds ELSE {"errno_r", "errno_w"}, c))
  /\ UNCHANGED <<child, failed, feeder, raced>>

(* make_termios opens a PTY of its own, not O_CLOEXEC either, ...          *)
OpenProbe(c) ==
  /\ Goto(c, "pipes", "probe")
  /\ HostOpens(Own({"probe"}, c))
  /\ UNCHANGED <<child, failed, feeder, raced>>

(* ... reads its settings, and drops it.                                   *)
CloseProbe(c) ==
  /\ Goto(c, "probe", "ready")
  /\ HostCloses(Own({"probe"}, c))
  /\ UNCHANGED <<child, failed, feeder, raced>>

(* forkpty calls openpty; neither end is O_CLOEXEC.                        *)
OpenPty(c) ==
  /\ Goto(c, "ready", "pty")
  /\ HostOpens(Own(PtyEnds, c))
  /\ UNCHANGED <<child, failed, feeder, raced>>

(* openpty, tcgetattr or fork failed: spawn returns an error and drops     *)
(* what it opened, and forkpty what it did.                                *)
SpawnFails(c) ==
  /\ \E at \in {"pipes", "probe", "ready", "pty"} : Goto(c, at, "failed")
  /\ HostCloses(Own(PipeEnds \cup PtyEnds \cup {"probe"}, c))
  /\ UNCHANGED <<child, failed, feeder, raced>>

(* forkpty forks: the child closes its master, and has all else.           *)
Fork(c) ==
  /\ Goto(c, "pty", "forked")
  /\ child' = [child EXCEPT ![c] = "forked"]
  /\ held' = [held EXCEPT ![c] = held[Host] \ Own({"master"}, c)]
  /\ raced' = [d \in Cmds |-> raced[d] \/ (d # c /\ <<"slave", d>> \in held[Host])]
  /\ UNCHANGED <<failed, feeder>>

(* The parent's half of forkpty closes the slave.                          *)
CloseSlave(c) ==
  /\ Goto(c, "forked", "parent")
  /\ HostCloses(Own({"slave"}, c))
  /\ UNCHANGED <<child, failed, feeder, raced>>

(* Fault: the read end of the child's stdin is not dropped.                *)
ServeKeepsStdin(c) ==
  /\ Goto(c, "parent", "serving")
  /\ HostCloses(Own({"errno_w"}, c))
  /\ feeder' = [feeder EXCEPT ![c] = IF c \in Fed THEN "writing" ELSE "none"]
  /\ UNCHANGED <<child, failed, raced>>

(* drop(write_fd), drop(stdin_read); the threads are started.              *)
Serve(c) ==
  /\ Goto(c, "parent", "serving")
  /\ HostCloses(Own({"errno_w", "stdin_r"}, c))
  /\ feeder' = [feeder EXCEPT ![c] = IF c \in Fed THEN "writing" ELSE "none"]
  /\ UNCHANGED <<child, failed, raced>>

-----------------------------------------------------------------------------
(* The handler and its threads, once the command is spawned.               *)

(* The stdin thread has written all, to the pipe or to a child that reads, *)
(* and drops its end.                                                      *)
FeederDone(c) ==
  /\ feeder[c] = "writing"
  /\ feeder' = [feeder EXCEPT ![c] = "done"]
  /\ HostCloses(Own({"stdin_w"}, c))
  /\ UNCHANGED <<step, child, failed, raced>>

(* Or nobody has the other end: EPIPE.                                     *)
FeederEpipe(c) == ~Open(<<"stdin_r", c>>) /\ FeederDone(c)

(* pty_reader: nobody has the slave; the master is dropped.                *)
PtyEof(c) ==
  /\ Goto(c, "serving", "wait")
  /\ ~Open(<<"slave", c>>)
  /\ HostCloses(Own({"master"}, c))
  /\ UNCHANGED <<child, failed, feeder, raced>>

(* wait_for_child.                                                         *)
Wait(c) ==
  /\ Goto(c, "wait", "errno")
  /\ child[c] = "gone"
  /\ UNCHANGED <<child, failed, feeder, held, raced>>

(* read_errno reads from a copy of the read end, and dup leaves that       *)
(* without O_CLOEXEC.                                                      *)
DupErrno(c) ==
  /\ Goto(c, "errno", "read")
  /\ HostOpens(Own({"errno_dup"}, c))
  /\ UNCHANGED <<child, failed, feeder, raced>>

(* dup failed: the command is answered as if nothing had been reported.    *)
AnswerUnread(c) ==
  /\ Goto(c, "errno", "answered")
  /\ HostCloses(Own({"errno_r"}, c))
  /\ UNCHANGED <<child, failed, feeder, raced>>

(* Four bytes, or EOF; then the copy is dropped, the response written, and *)
(* the read end is dropped.                                                *)
Answer(c) ==
  /\ Goto(c, "read", "answered")
  /\ failed[c] \/ ~Open(<<"errno_w", c>>)
  /\ HostCloses(Own({"errno_r", "errno_dup"}, c))
  /\ UNCHANGED <<child, failed, feeder, raced>>

Handler(c) ==
  \/ MakePipes(c) \/ OpenProbe(c) \/ CloseProbe(c) \/ OpenPty(c) \/ SpawnFails(c)
  \/ Fork(c) \/ CloseSlave(c) \/ Serve(c)
  \/ PtyEof(c) \/ Wait(c) \/ DupErrno(c) \/ AnswerUnread(c) \/ Answer(c)

-----------------------------------------------------------------------------
(* The commands.                                                           *)

(* Fault: the errno pipe is made without O_CLOEXEC.                        *)
SurvivesErrno(c) == Own(PtyEnds \cup ShortLived \cup {"errno_w"}, c)

(* What of command c's descriptors exec leaves open in any process.        *)
Survives(c) == Own(PtyEnds \cup ShortLived, c)

(* execvp succeeds; the child's stdin was dup'ed to fd 0.                  *)
Exec(c) ==
  /\ child[c] = "forked"
  /\ child' = [child EXCEPT ![c] = "running"]
  /\ held' = [held EXCEPT ![c] = @ \cap (Own({"stdin_r"}, c)
                                          \cup UNION {Survives(d) : d \in Cmds})]
  /\ UNCHANGED <<step, failed, feeder, raced>>

(* dup2, chdir, clearenv, setenv or execvp fails: write_errno and _exit.   *)
ExecFails(c) ==
  /\ child[c] = "forked"
  /\ child' = [child EXCEPT ![c] = "gone"]
  /\ failed' = [failed EXCEPT ![c] = TRUE]
  /\ held' = [held EXCEPT ![c] = {}]
  /\ UNCHANGED <<step, feeder, raced>>

(* It exits with all its descendants; or a daemon stays that closed fds 0, *)
(* 1 and 2, and knows of no others.                                        *)
Exits(c) ==
  /\ child[c] = "running"
  /\ child' = [child EXCEPT ![c] = "gone"]
  /\ \/ held' = [held EXCEPT ![c] = {}]
     \/ held' = [held EXCEPT ![c] = @ \ Own({"slave", "stdin_r"}, c)]
  /\ UNCHANGED <<step, failed, feeder, raced>>

DaemonEnds(c) ==
  /\ child[c] = "gone" /\ held[c] # {}
  /\ held' = [held EXCEPT ![c] = {}]
  /\ UNCHANGED <<step, child, failed, feeder, raced>>

Next ==
  \E c \in Cmds :
    \/ Handler(c) \/ FeederDone(c)
    \/ Exec(c) \/ ExecFails(c) \/ Exits(c) \/ DaemonEnds(c)

Spec == Init /\ [][Next]_vars

(* The host's threads run, and so does a child on its way to exec.  Of     *)
(* commands and daemons nothing is assumed: they may run for ever, and     *)
(* never read their stdin.                                                 *)
Fairness ==
  \A c \in Cmds : WF_vars(Handler(c)) /\ WF_vars(FeederEpipe(c)) /\ WF_vars(Exec(c) \/ ExecFails(c))

FairSpec == Spec /\ Fairness

-----------------------------------------------------------------------------
(* Only while forkpty has both ends of its PTY open may a command's slave  *)
(* get into another one: without such a race, a PTY belongs to its own     *)
(* command alone.  Pipes never get past exec, but for read_errno's copy of *)
(* a read end, and that only when the pipe's own command, the one that     *)
(* might write to it, has ended.                                           *)
DescriptorsStayHome ==
  /\ \A c \in Cmds : /\ <<"slave", c>> \in held[Host] => step[c] \in {"pty", "forked"}
                     /\ <<"errno_dup", c>> \in held[Host] => step[c] = "read"
  /\ \A c, d \in Cmds : c # d =>
       /\ <<"slave", c>> \in held[d] => raced[c]
       /\ child[d] # "forked" => held[d] \cap Own(PipeEnds, c) = {}
       /\ <<"errno_dup", c>> \in held[d] => child[c] = "gone"

(* A command that ended is answered, although other commands run on and    *)
(* daemons stay behind, its own too: none of them holds its errno pipe     *)
(* open, nor its PTY, unless it was forked while forkpty had both ends of  *)
(* it open.                                                                *)
EndedIsAnswered ==
  \A c \in Cmds :
    child[c] = "gone" /\ step[c] = "serving" /\ ~raced[c] ~> step[c] = "answered"

(* README.md:331, "a pipe that is closed after the bytes are written": the *)
(* child then sees EOF, whatever other commands were spawned meanwhile;    *)
(* and the thread that writes ends when nobody is left to read.            *)
StdinEnds ==
  \A c \in Fed :
    /\ feeder[c] = "done" ~> ~Open(<<"stdin_w", c>>)
    /\ feeder[c] = "writing" /\ child[c] = "gone" ~> feeder[c] = "done"

(* README.md:321, "a slow command never blocks a fast one from completing  *)
(* on the client side".  Not so for a command that was raced.              *)
SlowNeverBlocksFast ==
  \A c \in Cmds : child[c] = "gone" /\ step[c] = "serving" ~> step[c] = "answered"

(* The kernel hangs up on a command when its master is closed in the host: *)
(* not so if a later command was spawned, and still holds it.              *)
HostAloneHoldsMasters ==
  \A c, d \in Cmds : child[d] = "running" => <<"master", c>> \notin held[d]
=============================================================================
