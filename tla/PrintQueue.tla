----------------------------- MODULE PrintQueue -----------------------------
(***************************************************************************)
(* The host console (src/src/host.rs): one print worker per command waits  *)
(* for the command's turn on PrintQueue, prints the banner, drains the     *)
(* command's PTY buffer to stdout, prints a blank line and releases the    *)
(* turn by dropping its PrintTurn.  Both condition variables are modelled  *)
(* with their sleepers: the queue's ("asleep") and the buffer's            *)
(* ("starved"); a sleeper runs again only when notified or spuriously.     *)
(* Definitions marked "Fault" are not part of the model: each is a variant *)
(* of the definition after it with one bug, which a property must detect.  *)
(***************************************************************************)
EXTENDS Naturals, Sequences

CONSTANTS
  MaxSeq,     (* how many commands may arrive: bounds next_seq            *)
  MaxChunks,  (* how many reads of one PTY may return data: bounds output *)
  Silent      (* HostState.silent, `--silent`                             *)

ASSUME PrintQueueAssumption ==
  /\ MaxSeq \in Nat
  /\ MaxChunks \in Nat
  /\ Silent \in BOOLEAN

VARIABLES
  next_seq,     (* HostState.next_seq                                     *)
  next,         (* PrintQueue.next: the sequence number whose turn it is  *)
  worker,       (* program counter of each command's print worker         *)
  stream,       (* the command's PTY: "none" (not spawned), "open", "eof" *)
  raw_pending,  (* PtyBuffer.raw_pending, a sequence of numbered chunks   *)
  raw_total,    (* number of chunks in PtyBuffer.raw_total                *)
  held,         (* drain_to_stdout's locals chunk and eof                 *)
  console       (* what stdout has received: <<sequence number, item>>    *)

vars == <<next_seq, next, worker, stream, raw_pending, raw_total, held, console>>
buffers == <<stream, raw_pending, raw_total>>

Seqs == 0 .. MaxSeq - 1
Chunks == 1 .. MaxChunks

(* What one write to stdout can be: a chunk, by its number, or one of the  *)
(* two items that frame a command's output.                                *)
Banner == 0
Newline == MaxChunks + 1
Items == Chunks \cup {Banner, Newline}

(* The states of a worker that holds the turn (its PrintTurn is alive).    *)
Turn == {"banner", "drain", "starved", "write", "newline", "release"}
WorkerStates == Turn \cup {"unborn", "check", "asleep", "done"}

TypeOK ==
  /\ next_seq \in 0 .. MaxSeq
  /\ next \in 0 .. MaxSeq
  /\ worker \in [Seqs -> WorkerStates]
  /\ stream \in [Seqs -> {"none", "open", "eof"}]
  /\ raw_pending \in [Seqs -> Seq(Chunks)]
  /\ raw_total \in [Seqs -> 0 .. MaxChunks]
  /\ held \in [Seqs -> [chunk : Seq(Chunks), eof : BOOLEAN]]
  /\ console \in Seq(Seqs \X Items)

Init ==
  /\ next_seq = 0
  /\ next = 0
  /\ worker = [s \in Seqs |-> "unborn"]
  /\ stream = [s \in Seqs |-> "none"]
  /\ raw_pending = [s \in Seqs |-> <<>>]
  /\ raw_total = [s \in Seqs |-> 0]
  /\ held = [s \in Seqs |-> [chunk |-> <<>>, eof |-> FALSE]]
  /\ console = <<>>

-----------------------------------------------------------------------------
(* Steps of the connection handlers and of the PTY readers.                *)

(* handle_connection numbers a command: next_seq.fetch_add(1).             *)
Arrive ==
  /\ next_seq < MaxSeq
  /\ next_seq' = next_seq + 1
  /\ UNCHANGED <<next, worker, buffers, held, console>>

(* A handler queues each of its commands once, and spawns it before.       *)
Unqueued(s) == s < next_seq /\ worker[s] = "unborn"
Unspawned(s) == Unqueued(s) /\ stream[s] = "none"

(* The command was spawned: its PtyBuffer exists, its reader runs.         *)
Open(s) ==
  /\ stream' = [stream EXCEPT ![s] = "open"]
  /\ UNCHANGED <<next_seq, next, worker, raw_pending, raw_total, held, console>>

(* queue_console_output: start the print worker.  It is handed the buffer, *)
(* or None when the spawn failed.                                          *)
Enqueue(s) ==
  /\ worker' = [worker EXCEPT ![s] = "check"]
  /\ UNCHANGED <<next_seq, next, buffers, held, console>>

(* The PTY buffer's condition variable: notify_all wakes the drainer.      *)
NotifyDrainer(s) ==
  worker' = [worker EXCEPT ![s] = IF @ = "starved" THEN "drain" ELSE @]

(* pty_reader got data.  raw_pending only grows when console_output is on. *)
PtyRead(s) ==
  /\ stream[s] = "open"
  /\ raw_total[s] < MaxChunks
  /\ raw_total' = [raw_total EXCEPT ![s] = @ + 1]
  /\ raw_pending' = IF Silent THEN raw_pending
                    ELSE [raw_pending EXCEPT ![s] = Append(@, raw_total[s] + 1)]
  /\ NotifyDrainer(s)
  /\ UNCHANGED <<next_seq, next, stream, held, console>>

(* pty_reader saw the end of the PTY: nobody holds its slave side.         *)
PtyEof(s) ==
  /\ stream[s] = "open"
  /\ stream' = [stream EXCEPT ![s] = "eof"]
  /\ NotifyDrainer(s)
  /\ UNCHANGED <<next_seq, next, raw_pending, raw_total, held, console>>

-----------------------------------------------------------------------------
(* Steps of the print worker of sequence number s.                         *)

WorkerAt(s, from, to) ==
  /\ worker[s] = from
  /\ worker' = [worker EXCEPT ![s] = to]

(* wait_turn: while *g < seq { g = cv.wait(g) }                            *)
SleepForTurn(s) ==
  /\ next < s
  /\ WorkerAt(s, "check", "asleep")
  /\ UNCHANGED <<next_seq, next, buffers, held, console>>

(* Fault: wait_turn lets the command after the current one go ahead.       *)
TakeTurnEarly(s) ==
  /\ next + 1 >= s
  /\ WorkerAt(s, "check", IF Silent THEN "release" ELSE "banner")
  /\ UNCHANGED <<next_seq, next, buffers, held, console>>

(* wait_turn returned.  The job of a silent host returns at once.          *)
TakeTurn(s) ==
  /\ next >= s
  /\ WorkerAt(s, "check", IF Silent THEN "release" ELSE "banner")
  /\ UNCHANGED <<next_seq, next, buffers, held, console>>

PrintBanner(s) ==
  /\ WorkerAt(s, "banner", IF stream[s] = "none" THEN "newline" ELSE "drain")
  /\ console' = Append(console, <<s, Banner>>)
  /\ UNCHANGED <<next_seq, next, buffers, held>>

(* drain_to_stdout waits while there is nothing to print and no eof.       *)
Starve(s) ==
  /\ raw_pending[s] = <<>>
  /\ stream[s] # "eof"
  /\ WorkerAt(s, "drain", "starved")
  /\ UNCHANGED <<next_seq, next, buffers, held, console>>

(* Under the buffer's lock: take the pending bytes and read eof.           *)
DrainTake(s) ==
  /\ raw_pending[s] # <<>> \/ stream[s] = "eof"
  /\ WorkerAt(s, "drain", "write")
  /\ held' = [held EXCEPT ![s] = [chunk |-> raw_pending[s], eof |-> stream[s] = "eof"]]
  /\ raw_pending' = [raw_pending EXCEPT ![s] = <<>>]
  /\ UNCHANGED <<next_seq, next, stream, raw_total, console>>

(* Fault: eof is read again after the write, not under the lock that took  *)
(* the chunk.                                                              *)
DrainWriteFreshEof(s) ==
  /\ WorkerAt(s, "write", IF stream[s] = "eof" THEN "newline" ELSE "drain")
  /\ console' = console \o [i \in 1 .. Len(held[s].chunk) |-> <<s, held[s].chunk[i]>>]
  /\ held' = [held EXCEPT ![s] = [chunk |-> <<>>, eof |-> FALSE]]
  /\ UNCHANGED <<next_seq, next, buffers>>

(* With the lock released: write the chunk, and stop if eof had been read. *)
DrainWrite(s) ==
  /\ WorkerAt(s, "write", IF held[s].eof THEN "newline" ELSE "drain")
  /\ console' = console \o [i \in 1 .. Len(held[s].chunk) |-> <<s, held[s].chunk[i]>>]
  /\ held' = [held EXCEPT ![s] = [chunk |-> <<>>, eof |-> FALSE]]
  /\ UNCHANGED <<next_seq, next, buffers>>

PrintNewline(s) ==
  /\ WorkerAt(s, "newline", "release")
  /\ console' = Append(console, <<s, Newline>>)
  /\ UNCHANGED <<next_seq, next, buffers, held>>

(* Faults in release(): it wakes one sleeper only; or it lets the sleepers *)
(* go ahead without testing again whose turn it is.                        *)
ReleaseNotifyOne(s) ==
  /\ worker[s] = "release"
  /\ next' = next + 1
  /\ LET asleep == {t \in Seqs : worker[t] = "asleep"} IN
       \E w \in IF asleep = {} THEN {s} ELSE asleep :
         worker' = [t \in Seqs |-> IF t = s THEN "done" ELSE IF t = w THEN "check" ELSE worker[t]]
  /\ UNCHANGED <<next_seq, buffers, held, console>>

ReleaseWithoutRecheck(s) ==
  /\ worker[s] = "release"
  /\ next' = next + 1
  /\ worker' = [t \in Seqs |-> IF t = s THEN "done"
                               ELSE IF worker[t] = "asleep" THEN "banner" ELSE worker[t]]
  /\ UNCHANGED <<next_seq, buffers, held, console>>

(* Drop for PrintTurn: release() increments next and notifies everybody.   *)
Release(s) ==
  /\ worker[s] = "release"
  /\ next' = next + 1
  /\ worker' = [t \in Seqs |-> IF t = s THEN "done"
                               ELSE IF worker[t] = "asleep" THEN "check" ELSE worker[t]]
  /\ UNCHANGED <<next_seq, buffers, held, console>>

(* A condition variable may wake a sleeper nobody notified.                *)
SpuriousWake(s) ==
  /\ WorkerAt(s, "asleep", "check") \/ WorkerAt(s, "starved", "drain")
  /\ UNCHANGED <<next_seq, next, buffers, held, console>>

Worker(s) ==
  \/ SleepForTurn(s) \/ TakeTurn(s) \/ PrintBanner(s) \/ Starve(s)
  \/ DrainTake(s) \/ DrainWrite(s) \/ PrintNewline(s) \/ Release(s)

Next ==
  \/ Arrive
  \/ \E s \in Seqs :
       \/ Unspawned(s) /\ Open(s)
       \/ Unqueued(s) /\ Enqueue(s)
       \/ PtyRead(s) \/ PtyEof(s)
  \/ \E s \in Seqs : Worker(s) \/ SpuriousWake(s)

Spec == Init /\ [][Next]_vars

(* Threads are scheduled; handlers reach queue_console_output (nothing     *)
(* before it blocks); commands are assumed to end.  No fairness for        *)
(* spurious wake-ups: the design may not depend on them.                   *)
Fairness ==
  \A s \in Seqs : WF_vars(Worker(s)) /\ WF_vars(Unqueued(s) /\ Enqueue(s)) /\ WF_vars(PtyEof(s))

FairSpec == Spec /\ Fairness

-----------------------------------------------------------------------------
(* Only one command speaks on the console at a time (README.md:20, "Output *)
(* from concurrent agents is serialised one command at a time"): no two    *)
(* print workers hold the turn, and the holder is the one next names.      *)
OneVoice ==
  /\ \A s, t \in Seqs : worker[s] \in Turn /\ worker[t] \in Turn => s = t
  /\ \A s \in Seqs : worker[s] \in Turn => next = s

(* The console shows commands in arrival order, each in one block: a piece *)
(* of an earlier command never follows a piece of a later one, whatever    *)
(* the order in which workers, readers and commands make progress.         *)
ConsoleOrdered ==
  \A i, j \in 1 .. Len(console) : i <= j => console[i][1] <= console[j][1]

(* What a spawned, or a failed, command shows once its turn is over.       *)
Shown(s) == <<Banner>> \o [i \in 1 .. raw_total[s] |-> i] \o <<Newline>>
ShownAt(s) == {i \in 1 .. Len(console) : console[i][1] = s}

(* Nothing of a command's raw output is lost or printed twice, although    *)
(* the reader keeps appending while the drainer writes outside the lock:   *)
(* when the turn is released, its block is banner, every chunk, newline,   *)
(* in one piece, and nothing of it stands elsewhere.                       *)
ConsoleComplete ==
  \A s \in Seqs : worker[s] \in {"release", "done"} /\ ~Silent =>
    \E b \in 0 .. Len(console) :
      /\ ShownAt(s) = b + 1 .. b + Len(Shown(s))
      /\ \A i \in 1 .. Len(Shown(s)) : console[b + i][2] = Shown(s)[i]

(* Every queued command gets its turn and gives it back: no wake-up is     *)
(* lost between wait_turn and release, nor between the PTY reader and the  *)
(* drainer.                                                                *)
EveryTurnComes ==
  \A s \in Seqs : worker[s] # "unborn" ~> worker[s] = "done"
=============================================================================
