---------------------------- MODULE HostStartup ----------------------------
(***************************************************************************)
(* Host processes of one user and the socket /tmp/.rexec-$UID (src/src/    *)
(* host.rs run_with_path_options, bind_with_stale_takeover): each start    *)
(* binds the path, or probes the process that has it and takes over what   *)
(* a dead host left; each shutdown removes the path.  One action per       *)
(* system call that another process can observe.  (UnixListener::bind is   *)
(* two: bind creates the path, listen makes connecting to it succeed.)     *)
(*                                                                         *)
(* Definitions marked "Fault" are not part of the model: each is a variant *)
(* of the definition after it with one bug, which a property must detect.  *)
(***************************************************************************)
EXTENDS Naturals, FiniteSets

CONSTANTS
  Processes,  (* host processes: each starts once                          *)
  NoFile,
  MaxCrashes, (* how many of them may be killed                            *)
  MaxSeconds  (* how far the clock that names transcripts may advance      *)

ASSUME HostStartupAssumption ==
  /\ NoFile \notin Processes
  /\ MaxCrashes \in Nat /\ MaxSeconds \in Nat

VARIABLES
  path,     (* whose socket is at the path: a process, or NoFile           *)
  phase,    (* what each process does                                      *)
  outcome,  (* how it ended                                                *)
  second,   (* the clock, by which transcripts are named                   *)
  names,    (* transcripts in ~/.rexec                                     *)
  crashes,
  (* history *)
  raced,    (* did two processes ever start at the same time, or one start *)
            (* or stop while another stopped? A subset of {"start", "stop"}*)
  alone     (* was no other process alive since this one started?          *)

fs == <<path, names>>
vars == <<path, phase, outcome, second, names, crashes, raced, alone>>

Starting == {"bind", "listen", "probe", "remove", "rebind", "setup"}
Stopping == {"closing", "closed"}
Alive == Starting \cup Stopping \cup {"serving"}

(* The listener exists, and listen was called on it.                       *)
Listening(p) == phase[p] \in {"setup", "serving", "closing"}

TypeOK ==
  /\ path \in Processes \cup {NoFile}
  /\ phase \in [Processes -> Alive \cup {"new", "gone"}]
  /\ outcome \in [Processes -> {"none", "stopped", "refused", "failed", "exists", "crashed"}]
  /\ second \in 0 .. MaxSeconds /\ names \subseteq 0 .. MaxSeconds
  /\ crashes \in 0 .. MaxCrashes
  /\ raced \subseteq {"start", "stop"} /\ alone \in [Processes -> BOOLEAN]

Init ==
  /\ path = NoFile
  /\ phase = [p \in Processes |-> "new"]
  /\ outcome = [p \in Processes |-> "none"]
  /\ second = 0 /\ names = {} /\ crashes = 0
  /\ raced = {} /\ alone = [p \in Processes |-> FALSE]

-----------------------------------------------------------------------------
Race(a, b, how) ==
  /\ {a, b} \subseteq Starting \cup Stopping
  /\ how = IF {a, b} \subseteq Starting THEN "start" ELSE "stop"

Moves(p, to) ==
  /\ phase' = [phase EXCEPT ![p] = to]
  /\ raced' = raced \cup {how \in {"start", "stop"} :
                            \E q \in Processes \ {p} : Race(to, phase[q], how)}

Goto(p, from, to) ==
  /\ phase[p] = from
  /\ Moves(p, to)
  /\ UNCHANGED <<outcome, second, crashes, alone>>

Ends(p, how) ==
  /\ Moves(p, "gone")
  /\ outcome' = [outcome EXCEPT ![p] = how]
  /\ UNCHANGED <<second, alone>>

(* `rexec --start-host`.                                                   *)
Start(p) ==
  /\ phase[p] = "new"
  /\ Moves(p, "bind")
  /\ LET others == {q \in Processes \ {p} : phase[q] \in Alive} IN
       alone' = [q \in Processes |-> IF q = p THEN others = {} ELSE FALSE]
  /\ UNCHANGED <<fs, outcome, second, crashes>>

(* bind(2): the socket is there, nobody can connect to it yet.             *)
Bind(p) ==
  /\ path = NoFile
  /\ Goto(p, "bind", "listen")
  /\ path' = p
  /\ UNCHANGED names

BindInUse(p) ==
  /\ path # NoFile
  /\ Goto(p, "bind", "probe")
  /\ UNCHANGED fs

Listen(p) ==
  /\ Goto(p, "listen", "setup")
  /\ UNCHANGED fs

(* UnixStream::connect(path) worked: with or without a pong, the start is  *)
(* refused with AddrInUse.                                                 *)
ProbeConnects(p) ==
  /\ phase[p] = "probe"
  /\ path # NoFile /\ Listening(path)
  /\ Ends(p, "refused")
  /\ UNCHANGED <<fs, crashes>>

(* Fault: the path is taken over without asking who has it.                *)
ProbeNothing(p) ==
  /\ Goto(p, "probe", "remove")
  /\ UNCHANGED fs

(* It failed: nobody listens, or the path has gone.                        *)
ProbeFails(p) ==
  /\ path # NoFile => ~Listening(path)
  /\ Goto(p, "probe", "remove")
  /\ UNCHANGED fs

(* Fault: a stale path is not removed.                                     *)
RemoveNothing(p) ==
  /\ path # NoFile
  /\ Goto(p, "remove", "rebind")
  /\ UNCHANGED fs

(* remove_file(path)?                                                      *)
RemoveStale(p) ==
  /\ path # NoFile
  /\ Goto(p, "remove", "rebind")
  /\ path' = NoFile
  /\ UNCHANGED names

RemoveFails(p) ==
  /\ phase[p] = "remove"
  /\ path = NoFile
  /\ Ends(p, "failed")
  /\ UNCHANGED <<fs, crashes>>

Rebind(p) ==
  /\ path = NoFile
  /\ Goto(p, "rebind", "listen")
  /\ path' = p
  /\ UNCHANGED names

RebindInUse(p) ==
  /\ phase[p] = "rebind"
  /\ path # NoFile
  /\ Ends(p, "failed")
  /\ UNCHANGED <<fs, crashes>>

(* TranscriptWriter::create, with O_EXCL, named by the second.             *)
CreateTranscript(p) ==
  /\ second \notin names
  /\ Goto(p, "setup", "serving")
  /\ names' = names \cup {second}
  /\ UNCHANGED path

(* The name exists: run returns with an error, and leaves the path behind. *)
TranscriptExists(p) ==
  /\ phase[p] = "setup"
  /\ second \in names
  /\ Ends(p, "exists")
  /\ UNCHANGED <<fs, crashes>>

-----------------------------------------------------------------------------
(* SIGINT or SIGTERM ends the accept loop; the listener is dropped, then   *)
(* the path is removed, whoever's socket it is now.                        *)
Stop(p) ==
  /\ Goto(p, "serving", "closing")
  /\ UNCHANGED fs

DropListener(p) ==
  /\ Goto(p, "closing", "closed")
  /\ UNCHANGED fs

(* Fault: the path is left to the next host, which can take it over.       *)
RemovePathSkipped(p) ==
  /\ phase[p] = "closed"
  /\ Ends(p, "stopped")
  /\ UNCHANGED <<fs, crashes>>

RemovePath(p) ==
  /\ phase[p] = "closed"
  /\ Ends(p, "stopped")
  /\ path' = NoFile
  /\ UNCHANGED <<names, crashes>>

(* SIGKILL, or SIGINT before the handler is installed.                     *)
Crash(p) ==
  /\ phase[p] \in Alive
  /\ crashes < MaxCrashes
  /\ crashes' = crashes + 1
  /\ Ends(p, "crashed")
  /\ UNCHANGED fs

Tick ==
  /\ second < MaxSeconds
  /\ second' = second + 1
  /\ UNCHANGED <<fs, phase, outcome, crashes, raced, alone>>

HostStart(p) ==
  \/ Start(p) \/ Bind(p) \/ BindInUse(p) \/ Listen(p) \/ ProbeConnects(p) \/ ProbeFails(p)
  \/ RemoveStale(p) \/ RemoveFails(p) \/ Rebind(p) \/ RebindInUse(p)
  \/ CreateTranscript(p) \/ TranscriptExists(p)

HostStop(p) == Stop(p) \/ DropListener(p) \/ RemovePath(p)

Next == Tick \/ \E p \in Processes : HostStart(p) \/ HostStop(p) \/ Crash(p)

Spec == Init /\ [][Next]_vars

-----------------------------------------------------------------------------
(* Starts and stops that do not overlap never leave two hosts, or a host   *)
(* whose socket is not the one at the path, whatever crashed before and    *)
(* whatever a crash left behind.                                           *)
SoleOwnerUnlessRaced ==
  raced = {} =>
    /\ \A p, q \in Processes : Listening(p) /\ Listening(q) => p = q
    /\ \A p \in Processes : Listening(p) => path = p

(* A path that dead hosts left behind never keeps a host from starting,    *)
(* even one that was left by a race: a process that has the machine for    *)
(* itself fails only if the name of its transcript is taken.               *)
LoneStartSucceeds ==
  \A p \in Processes : alone[p] => outcome[p] \notin {"refused", "failed"}

(* README.md:176, "On exit the socket file is removed": when every process *)
(* is gone, a path is left only by one that crashed or had no transcript,  *)
(* although hosts that raced removed each other's.                         *)
NoPathLeft ==
  (\A p \in Processes : phase[p] \in {"new", "gone"}) /\ path # NoFile =>
    outcome[path] \in {"crashed", "exists"}

(* README.md:175, "Refuses to start if another host already owns the       *)
(* per-user socket": two hosts never serve at the same time.               *)
SoleHost == \A p, q \in Processes : phase[p] = "serving" /\ phase[q] = "serving" => p = q

(* README.md:300, "The host owns a Unix domain socket at /tmp/.rexec-$UID":*)
(* if no two hosts ever started at the same time, a host that serves can   *)
(* be reached.                                                             *)
ServingReachable ==
  "start" \notin raced => \A p \in Processes : phase[p] = "serving" => path = p
=============================================================================
