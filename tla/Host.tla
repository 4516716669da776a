-------------------------------- MODULE Host --------------------------------
(***************************************************************************)
(* The host process (src/src/host.rs): connection handlers that number     *)
(* their commands with next_seq, spawn them, queue their console output,   *)
(* answer their client and submit the transcript entry; around them the    *)
(* console (PrintQueue), the transcript (TranscriptQueue) and the main     *)
(* thread, which ends the process under all of them.                       *)
(*                                                                         *)
(* The lifecycle of one command (timeout, abort, child) is in Command; here*)
(* its PTY comes to its end and its process ends, each when it will, and   *)
(* its timer and watcher are gone once the handler joins them.             *)
(* Definitions marked "Fault" are not part of the model: each is a variant *)
(* of the definition after it with one bug, which a property must detect.  *)
(***************************************************************************)
EXTENDS Naturals, Sequences

CONSTANTS
  MaxSeq,     (* how many commands may arrive: bounds next_seq            *)
  MaxChunks,  (* how many reads of one PTY may return data                *)
  Silent,     (* HostState.silent                                         *)
  Handlers,   (* connections past their first ping, one handler each      *)
  Stallers,   (* those whose client may stop reading for a while          *)
  Attachers,  (* attach clients                                           *)
  Ansi        (* the attach clients that want ANSI output                 *)

ASSUME HostAssumption ==
  /\ MaxSeq \in Nat
  /\ MaxChunks \in Nat
  /\ Silent \in BOOLEAN
  /\ Stallers \subseteq Handlers
  /\ Ansi \subseteq Attachers

VARIABLES
  next_seq,                                    (* HostState.next_seq          *)
  print_next, worker, stream, raw_pending, raw_total, held, console,
                                               (* HostState.print_queue et al.*)
  transcript_next, pending, journal, subscribers, channel, receiver, peer,
  unread, delivered, since,                    (* HostState.transcript et al. *)
  pc,        (* where each connection handler is in handle_connection         *)
  seq,       (* its local seq, NoSeq when it works on no command              *)
  left,      (* has its client closed the connection or died?                 *)
  stalled,   (* or stopped reading, so that the socket takes no response?     *)
  ended,     (* the commands whose process has ended                          *)
  phase,     (* main thread: "serving", "closing" (past the loop), "exited"   *)
  answered,  (* history: commands whose response reached the client's socket  *)
  unheard,   (* history: commands whose response its client had left before   *)
  abandoned  (* history: commands whose handler returned without submitting   *)

print == <<print_next, worker, stream, raw_pending, raw_total, held, console>>
transcript == <<transcript_next, pending, journal, subscribers, channel, receiver, peer, unread,
                delivered, since>>
history == <<answered, unheard, abandoned>>
environment == <<left, stalled, ended>>
vars == <<next_seq, print, transcript, pc, seq, environment, phase, history>>

Console == INSTANCE PrintQueue WITH next <- print_next
Transcript == INSTANCE TranscriptQueue WITH next <- transcript_next

Seqs == 0 .. MaxSeq - 1
NoSeq == MaxSeq

(* Where a handler is: waiting for a request; about to spawn its command;  *)
(* about to queue its console output (after a spawn that worked, or one    *)
(* that failed); waiting for the PTY reader; waiting for the process; about*)
(* to answer; about to submit; returned.                                   *)
Numbered ==
  {"spawn", "queue", "fail_queue", "join", "wait", "reply", "fail_reply", "submit"}
HandlerStates == Numbered \cup {"idle", "returned"}

TypeOK ==
  /\ Console!TypeOK
  /\ Transcript!TypeOK
  /\ pc \in [Handlers -> HandlerStates]
  /\ seq \in [Handlers -> Seqs \cup {NoSeq}]
  /\ left \in [Handlers -> BOOLEAN] /\ stalled \in [Handlers -> BOOLEAN]
  /\ phase \in {"serving", "closing", "exited"}
  /\ ended \subseteq Seqs
  /\ answered \subseteq Seqs /\ unheard \subseteq Seqs
  /\ abandoned \subseteq Seqs

Init ==
  /\ Console!Init
  /\ Transcript!Init
  /\ pc = [h \in Handlers |-> "idle"]
  /\ seq = [h \in Handlers |-> NoSeq]
  /\ left = [h \in Handlers |-> FALSE] /\ stalled = [h \in Handlers |-> FALSE]
  /\ phase = "serving"
  /\ ended = {}
  /\ answered = {} /\ unheard = {}
  /\ abandoned = {}

-----------------------------------------------------------------------------
(* The connection handlers.                                                *)

Goto(h, from, to) ==
  /\ pc[h] = from
  /\ pc' = [pc EXCEPT ![h] = to]

(* A well-formed request arrives and is numbered.                          *)
Request(h) ==
  /\ ~left[h]
  /\ Goto(h, "idle", "spawn")
  /\ Console!Arrive
  /\ Transcript!Arrive
  /\ seq' = [seq EXCEPT ![h] = next_seq]
  /\ UNCHANGED <<environment, phase, history>>

SpawnSucceeds(h) ==
  /\ Goto(h, "spawn", "queue")
  /\ Console!Open(seq[h])
  /\ UNCHANGED <<transcript, seq, environment, phase, history>>

SpawnFails(h) ==
  /\ Goto(h, "spawn", "fail_queue")
  /\ UNCHANGED <<next_seq, print, transcript, seq, environment, phase, history>>

(* Faults: a command that could not be spawned is not queued for printing; *)
(* or it is, and the handler goes on as if it had been spawned.            *)
FailQueueSkipped(h) ==
  /\ Goto(h, "fail_queue", "fail_reply")
  /\ UNCHANGED <<next_seq, print, transcript, seq, environment, phase, history>>

FailQueueFallsThrough(h) ==
  /\ Goto(h, "fail_queue", "queue")
  /\ Console!Enqueue(seq[h])
  /\ UNCHANGED <<transcript, seq, environment, phase, history>>

(* queue_console_output(..., None): only a banner and a blank line.        *)
FailQueue(h) ==
  /\ Goto(h, "fail_queue", "fail_reply")
  /\ Console!Enqueue(seq[h])
  /\ UNCHANGED <<transcript, seq, environment, phase, history>>

(* queue_console_output(..., Some(buf)).                                   *)
Queue(h) ==
  /\ Goto(h, "queue", "join")
  /\ Console!Enqueue(seq[h])
  /\ UNCHANGED <<transcript, seq, environment, phase, history>>

(* Fault: the handler waits until its command was printed.                 *)
JoinPrinter(h) ==
  /\ Goto(h, "join", "wait")
  /\ worker[seq[h]] = "done"
  /\ UNCHANGED <<next_seq, print, transcript, seq, environment, phase, history>>

(* Fault: the handler does not wait for the PTY reader.                    *)
JoinNothing(h) ==
  /\ Goto(h, "join", "wait")
  /\ UNCHANGED <<next_seq, print, transcript, seq, environment, phase, history>>

(* reader_handle.join(): nobody holds the slave side of the PTY any more.  *)
JoinReader(h) ==
  /\ Goto(h, "join", "wait")
  /\ stream[seq[h]] = "eof"
  /\ UNCHANGED <<next_seq, print, transcript, seq, environment, phase, history>>

(* wait_for_child(child), which has no limit: the command may have closed  *)
(* its PTY and run on.  read_errno after it is in SpawnFds.                *)
WaitChild(h) ==
  /\ Goto(h, "wait", "reply")
  /\ seq[h] \in ended
  /\ UNCHANGED <<next_seq, print, transcript, seq, environment, phase, history>>

(* let _ = write_response(...): it takes as long as the client lets it;    *)
(* an error is ignored.                                                    *)
Reply(h) ==
  /\ ~stalled[h]
  /\ Goto(h, "reply", "submit")
  /\ answered' = IF left[h] THEN answered ELSE answered \cup {seq[h]}
  /\ unheard' = IF left[h] THEN unheard \cup {seq[h]} ELSE unheard
  /\ UNCHANGED <<next_seq, print, transcript, seq, environment, phase, abandoned>>

(* After a failed spawn the response is written, and submitted.            *)
FailReplyWritten(h) ==
  /\ ~left[h] /\ ~stalled[h]
  /\ Goto(h, "fail_reply", "submit")
  /\ answered' = answered \cup {seq[h]}
  /\ UNCHANGED <<next_seq, print, transcript, seq, environment, phase, unheard, abandoned>>

(* ... or cannot be written: the handler returns without submitting.       *)
FailReplyLost(h) ==
  /\ left[h]
  /\ Goto(h, "fail_reply", "returned")
  /\ seq' = [seq EXCEPT ![h] = NoSeq]
  /\ abandoned' = abandoned \cup {seq[h]}
  /\ UNCHANGED <<next_seq, print, transcript, environment, phase, answered, unheard>>

(* Faults: the handler submits an entry but stays where it is; or it does  *)
(* not submit the entry of a client that left.                             *)
SubmitAgain(h) ==
  /\ pc[h] = "submit"
  /\ Transcript!Submit(seq[h])
  /\ \/ pc' = [pc EXCEPT ![h] = "idle"] /\ seq' = [seq EXCEPT ![h] = NoSeq]
     \/ UNCHANGED <<pc, seq>>
  /\ UNCHANGED <<print, environment, phase, history>>

SubmitUnlessLeft(h) ==
  /\ Goto(h, "submit", "idle")
  /\ seq' = [seq EXCEPT ![h] = NoSeq]
  /\ IF left[h] THEN UNCHANGED <<next_seq, transcript>> ELSE Transcript!Submit(seq[h])
  /\ UNCHANGED <<print, environment, phase, history>>

(* transcript.submit(seq, ...), and on to the connection's next request.   *)
Submit(h) ==
  /\ Goto(h, "submit", "idle")
  /\ Transcript!Submit(seq[h])
  /\ seq' = [seq EXCEPT ![h] = NoSeq]
  /\ UNCHANGED <<print, environment, phase, history>>

(* read_line returned Ok(0).                                               *)
ReadEof(h) ==
  /\ left[h]
  /\ Goto(h, "idle", "returned")
  /\ UNCHANGED <<next_seq, print, transcript, seq, environment, phase, history>>

(* The client closes its connection or dies, at any time.                  *)
ClientLeaves(h) ==
  /\ ~left[h]
  /\ left' = [left EXCEPT ![h] = TRUE]
  /\ stalled' = [stalled EXCEPT ![h] = FALSE]
  /\ UNCHANGED <<next_seq, print, transcript, pc, seq, ended, phase, history>>

(* It stops reading, or reads on (a suspended process, a slow pipe).       *)
ClientStalls(h) ==
  /\ h \in Stallers /\ ~left[h]
  /\ stalled' = [stalled EXCEPT ![h] = ~@]
  /\ UNCHANGED <<next_seq, print, transcript, pc, seq, left, ended, phase, history>>

(* A command's process ends, before or after its PTY does.                 *)
ChildEnds(s) ==
  /\ stream[s] # "none" /\ s \notin ended
  /\ ended' = ended \cup {s}
  /\ UNCHANGED <<next_seq, print, transcript, pc, seq, left, stalled, phase, history>>

-----------------------------------------------------------------------------
(* The main thread, after SIGINT or SIGTERM: close_subscriptions, then     *)
(* return from main, which ends every other thread where it is.            *)

Close ==
  /\ phase = "serving"
  /\ phase' = "closing"
  /\ IF subscribers # {} THEN Transcript!CloseSubscriptions
                         ELSE UNCHANGED <<next_seq, transcript>>
  /\ UNCHANGED <<print, pc, seq, environment, history>>

Exit ==
  /\ phase = "closing"
  /\ phase' = "exited"
  /\ UNCHANGED <<next_seq, print, transcript, pc, seq, environment, history>>

-----------------------------------------------------------------------------
(* Threads of the components; an attached client is one more connection.   *)

Reader(s) ==
  /\ Console!PtyRead(s) \/ Console!PtyEof(s)
  /\ UNCHANGED <<transcript, pc, seq, environment, phase, history>>

Printer(s) ==
  /\ Console!Worker(s)
  /\ UNCHANGED <<transcript, pc, seq, environment, phase, history>>

PrinterWakes(s) ==
  /\ Console!SpuriousWake(s)
  /\ UNCHANGED <<transcript, pc, seq, environment, phase, history>>

Attach(a) ==
  /\ Transcript!Subscribe(a) \/ Transcript!Attachment(a)
     \/ Transcript!PeerLeaves(a) \/ Transcript!PeerWrites(a)
  /\ UNCHANGED <<print, pc, seq, environment, phase, history>>

Handler(h) ==
  \/ SpawnSucceeds(h) \/ SpawnFails(h) \/ FailQueue(h) \/ Queue(h) \/ JoinReader(h)
  \/ WaitChild(h) \/ Reply(h) \/ FailReplyWritten(h) \/ FailReplyLost(h) \/ Submit(h) \/ ReadEof(h)

Running == phase # "exited"

Next ==
  \/ \E h \in Handlers : Running /\ (Request(h) \/ Handler(h) \/ ClientLeaves(h) \/ ClientStalls(h))
  \/ \E s \in Seqs : Running /\ (Reader(s) \/ Printer(s) \/ PrinterWakes(s) \/ ChildEnds(s))
  \/ \E a \in Attachers : Running /\ Attach(a)
  \/ Close
  \/ Exit

Spec == Init /\ [][Next]_vars

(* Handler threads are scheduled.  Nothing is assumed of print workers,    *)
(* of other clients, of attachments, or of the commands.                   *)
HandlersRun == \A h \in Handlers : WF_vars(Running /\ Handler(h))

HandlerSpec == Spec /\ HandlersRun

-----------------------------------------------------------------------------
(* What the handlers do with the two queues is what the components assume: *)
(* a number is queued once and spawned before it is queued; an entry is    *)
(* submitted once, for a number that was given out.                        *)
UsesPrintQueue == Console!Spec
UsesTranscriptQueue == Transcript!Spec

Working(h) == pc[h] \in Numbered
Submitted(s) == s < transcript_next \/ s \in pending

(* No command gets lost between the handlers and the transcript, and none  *)
(* is there twice: a number that was given out is held by one handler, or  *)
(* was submitted, or its handler gave up, and never two of these.          *)
EverySeqAccounted ==
  \A s \in 0 .. next_seq - 1 :
    \/ /\ \E h \in Handlers : Working(h) /\ seq[h] = s
       /\ \A g, h \in Handlers : Working(g) /\ Working(h) /\ seq[g] = s /\ seq[h] = s => g = h
       /\ ~Submitted(s) /\ s \notin abandoned
    \/ /\ Submitted(s) <=> s \notin abandoned
       /\ \A h \in Handlers : Working(h) => seq[h] # s

(* What an attached client is sent of a command is final: it was never     *)
(* spawned, or its output and its process have ended; and its own client   *)
(* was answered before, unless that client had left by then.               *)
EntriesFinal ==
  \A a \in Attachers : \A i \in 1 .. Len(Transcript!Sent(a)) :
    LET s == Transcript!Sent(a)[i].seq IN
      /\ stream[s] = "none" \/ (stream[s] = "eof" /\ s \in ended)
      /\ s \in answered \cup unheard

(* The console never waits for a number nobody will print: a number        *)
(* without a print worker belongs to a handler that is about to start one, *)
(* although spawning the command may fail and its client may be gone.      *)
TurnsAccounted ==
  \A s \in 0 .. next_seq - 1 : worker[s] = "unborn" =>
    \E h \in Handlers : seq[h] = s /\ pc[h] \in {"spawn", "queue", "fail_queue"}

(* README.md:321, "a slow command never blocks a fast one from completing  *)
(* on the client side": once a command's output and its process have ended *)
(* its client gets an answer, unless it does not read it itself: even if   *)
(* no print worker ever makes a step, and whatever other clients do.       *)
Over(h, s) ==
  pc[h] \in {"join", "wait"} /\ seq[h] = s /\ stream[s] = "eof" /\ s \in ended

Answered ==
  \A h \in Handlers : \A s \in Seqs :
    Over(h, s) ~>
      s \in answered \/ left[h] \/ stalled[h] \/ phase # "serving"

(* README.md:33 again: a run is in the file sooner or later, if its number *)
(* and those before it were not abandoned, whether its client reads or not.*)
FinishedIsJournaled ==
  \A h \in Handlers : \A s \in Seqs :
    Over(h, s) ~>
      pc[h] \notin {"join", "wait", "reply", "submit"} \/ phase # "serving"

(* README.md:33, "Every run is appended to ~/.rexec/....jsonl": when no    *)
(* handler works on a command, every command that ran is in the file.      *)
EveryRunJournaled ==
  phase = "serving" /\ (\A h \in Handlers : ~Working(h)) =>
    \A s \in Seqs : stream[s] = "eof" => s < transcript_next

(* README.md:493, "the transcript is durable up to the last completed      *)
(* command": what was answered before the host exited is in the file.      *)
DurableToLastCompleted ==
  phase = "exited" => \A s \in answered : s < transcript_next
=============================================================================
