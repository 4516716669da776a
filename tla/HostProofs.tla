----------------------------- MODULE HostProofs -----------------------------
(***************************************************************************)
(* Proofs about Host, for any number of connections, commands and attach   *)
(* clients.                                                                *)
(***************************************************************************)
EXTENDS Host, TLAPS

(* The number a handler works on, and the numbers that were given out.     *)
Given == 0 .. next_seq - 1

Types ==
  /\ next_seq \in 0 .. MaxSeq /\ transcript_next \in 0 .. next_seq
  /\ pending \subseteq Given /\ abandoned \subseteq Given
  /\ pc \in [Handlers -> HandlerStates]
  /\ seq \in [Handlers -> Seqs \cup {NoSeq}]

(* Each number is in one place: with a handler, submitted or abandoned.    *)
Numbers ==
  /\ \A h \in Handlers : Working(h) =>
       seq[h] \in Given /\ ~Submitted(seq[h]) /\ seq[h] \notin abandoned
  /\ \A g, h \in Handlers : Working(g) /\ Working(h) /\ seq[g] = seq[h] => g = h
  /\ \A s \in Given : Submitted(s) \/ s \in abandoned \/ \E h \in Handlers : Working(h) /\ seq[h] = s
  /\ \A s \in abandoned : ~Submitted(s)

NumbersInv == Types /\ Numbers

(* The steps of a handler on its way through one command.                  *)
Proceeds(h) ==
  \/ SpawnSucceeds(h) \/ SpawnFails(h) \/ FailQueue(h) \/ Queue(h) \/ JoinReader(h)
  \/ WaitChild(h) \/ Reply(h) \/ FailReplyWritten(h)

(* Steps of everybody else.                                                *)
Others ==
  \/ \E h \in Handlers : ClientLeaves(h) \/ ClientStalls(h)
  \/ \E s \in Seqs : Reader(s) \/ Printer(s) \/ PrinterWakes(s) \/ ChildEnds(s)
  \/ \E a \in Attachers : Attach(a)
  \/ Close \/ Exit

LEMMA NextCases ==
  ASSUME Next
  PROVE  \/ Others
         \/ \E h \in Handlers :
              Request(h) \/ Proceeds(h) \/ FailReplyLost(h) \/ Submit(h) \/ ReadEof(h)
BY DEF Next, Handler, Others, Proceeds

LEMMA OthersKeepNumbers ==
  ASSUME Others
  PROVE  UNCHANGED <<next_seq, transcript_next, pending, abandoned, pc, seq>>
<1>1. ASSUME NEW h \in Handlers, ClientLeaves(h) \/ ClientStalls(h)
      PROVE  UNCHANGED <<next_seq, transcript_next, pending, abandoned, pc, seq>>
  BY <1>1 DEF ClientLeaves, ClientStalls, transcript, history
<1>2. ASSUME NEW s \in Seqs, Reader(s) \/ Printer(s) \/ PrinterWakes(s) \/ ChildEnds(s)
      PROVE  UNCHANGED <<next_seq, transcript_next, pending, abandoned, pc, seq>>
  BY <1>2 DEF ChildEnds, Reader, Printer, PrinterWakes, Console!PtyRead, Console!PtyEof, Console!Worker,
     Console!SleepForTurn, Console!TakeTurn, Console!PrintBanner, Console!Starve,
     Console!DrainTake, Console!DrainWrite, Console!PrintNewline, Console!Release,
     Console!SpuriousWake, transcript, history
<1>3. ASSUME NEW a \in Attachers, Attach(a)
      PROVE  UNCHANGED <<next_seq, transcript_next, pending, abandoned, pc, seq>>
  BY <1>3 DEF Attach, Transcript!Subscribe, Transcript!Attachment, Transcript!Deliver,
     Transcript!WriteFails, Transcript!NoticeDisconnect, Transcript!SenderGone,
     Transcript!Return, Transcript!PeerLeaves, Transcript!PeerWrites, history
<1>4. ASSUME Close \/ Exit
      PROVE  UNCHANGED <<next_seq, transcript_next, pending, abandoned, pc, seq>>
  BY <1>4 DEF Close, Exit, Transcript!CloseSubscriptions, transcript, history
<1> QED
  BY <1>1, <1>2, <1>3, <1>4 DEF Others

LEMMA ProceedsKeepsNumbers ==
  ASSUME NEW h \in Handlers, Types, Proceeds(h)
  PROVE  /\ UNCHANGED <<next_seq, transcript_next, pending, abandoned, seq>>
         /\ pc[h] \in Numbered
         /\ \E to \in Numbered : pc' = [pc EXCEPT ![h] = to]
BY DEF Proceeds, SpawnSucceeds, SpawnFails, FailQueue, Queue, JoinReader, WaitChild, Reply, FailReplyWritten, Goto,
       Console!Open, Console!Enqueue, transcript, history, Numbered

(* submit moves its own number, and no other one.                          *)
LEMMA SubmitMovesOne ==
  ASSUME Types, NEW s \in Given, Transcript!Submit(s)
  PROVE  /\ next_seq' = next_seq /\ transcript_next' \in 0 .. next_seq /\ pending' \subseteq Given
         /\ \A t \in Given : Submitted(t)' <=> Submitted(t) \/ t = s
<1>1. PICK m \in transcript_next .. next_seq :
        /\ m \notin pending \cup {s}
        /\ \A k \in transcript_next .. m - 1 : k \in pending \cup {s}
        /\ transcript_next' = m
        /\ pending' = (pending \cup {s}) \ (transcript_next .. m - 1)
        /\ next_seq' = next_seq
  BY DEF Transcript!Submit, Transcript!Taken
<1>2. transcript_next \in Nat /\ next_seq \in Nat /\ m \in Nat
  BY <1>1, HostAssumption DEF Types
<1> QED
  BY <1>1, <1>2 DEF Types, Given, Submitted

LEMMA NumbersAlways == Spec => []NumbersInv
<1> USE HostAssumption
<1>1. Init => NumbersInv
  BY DEF Init, NumbersInv, Types, Numbers, Given, Working, Numbered, HandlerStates, Seqs, NoSeq,
         Console!Init, Transcript!Init
<1>2. NumbersInv /\ [Next]_vars => NumbersInv'
  <2> SUFFICES ASSUME NumbersInv, [Next]_vars PROVE NumbersInv'
    OBVIOUS
  <2>0. next_seq \in Nat /\ transcript_next \in Nat
    BY DEF NumbersInv, Types
  <2>1. CASE Others \/ UNCHANGED vars
    <3>1. UNCHANGED <<next_seq, transcript_next, pending, abandoned, pc, seq>>
      BY <2>1, OthersKeepNumbers DEF vars, transcript, history
    <3> QED
      BY <3>1 DEF NumbersInv, Types, Numbers, Given, Working, Submitted
  <2>2. ASSUME NEW h \in Handlers, Request(h) PROVE NumbersInv'
    <3>1. /\ next_seq < MaxSeq /\ next_seq' = next_seq + 1
          /\ UNCHANGED <<transcript_next, pending, abandoned>>
          /\ pc[h] = "idle" /\ pc' = [pc EXCEPT ![h] = "spawn"]
          /\ seq' = [seq EXCEPT ![h] = next_seq]
      BY <2>2 DEF Request, Goto, Console!Arrive, Transcript!Arrive, history
    <3>2. Types'
      BY <2>0, <3>1 DEF NumbersInv, Types, Given, Seqs, HandlerStates, Numbered
    <3>3. Given' = Given \cup {next_seq} /\ next_seq \notin Given
      BY <2>0, <3>1 DEF Given
    <3>4. \A s : Submitted(s)' <=> Submitted(s)
      BY <3>1 DEF Submitted
    <3>5. \A g \in Handlers : Working(g)' <=> Working(g) \/ g = h
      BY <3>1 DEF NumbersInv, Types, Working, Numbered
    <3>6. ~Submitted(next_seq) /\ next_seq \notin abandoned
      BY <2>0, <3>3 DEF NumbersInv, Types, Submitted
    <3>7. ~Working(h) /\ \A g \in Handlers : seq'[g] = IF g = h THEN next_seq ELSE seq[g]
      BY <3>1 DEF NumbersInv, Types, Working, Numbered
    <3>8. \A g \in Handlers : Working(g)' =>
            \A s : s = seq'[g] => s \in Given' /\ ~Submitted(s)' /\ s \notin abandoned'
      BY <3>1, <3>3, <3>4, <3>5, <3>6, <3>7 DEF NumbersInv, Numbers
    <3> QED
      BY <3>1, <3>2, <3>3, <3>4, <3>5, <3>6, <3>7, <3>8 DEF NumbersInv, Numbers
  <2>3. ASSUME NEW h \in Handlers, Proceeds(h) PROVE NumbersInv'
    <3>1. /\ UNCHANGED <<next_seq, transcript_next, pending, abandoned, seq>>
          /\ pc[h] \in Numbered
          /\ \E to \in Numbered : pc' = [pc EXCEPT ![h] = to]
      BY <2>3, ProceedsKeepsNumbers DEF NumbersInv
    <3>2. \A g \in Handlers : Working(g)' <=> Working(g)
      BY <3>1 DEF NumbersInv, Types, Working
    <3> QED
      BY <3>1, <3>2 DEF NumbersInv, Types, Numbers, Given, Submitted, HandlerStates
  <2>4. ASSUME NEW h \in Handlers, FailReplyLost(h) \/ Submit(h) PROVE NumbersInv'
    <3>1. /\ pc[h] \in {"fail_reply", "submit"}
          /\ \E to \in {"returned", "idle"} : pc' = [pc EXCEPT ![h] = to]
          /\ seq' = [seq EXCEPT ![h] = NoSeq]
      BY <2>4 DEF FailReplyLost, Submit, Goto
    <3>2. Working(h) /\ \A g \in Handlers : Working(g)' <=> Working(g) /\ g # h
      BY <3>1 DEF NumbersInv, Types, Working, Numbered
    <3>3. \A g \in Handlers \ {h} : seq'[g] = seq[g]
      BY <3>1 DEF NumbersInv, Types
    <3>4. seq[h] \in Given /\ ~Submitted(seq[h]) /\ seq[h] \notin abandoned
      BY <3>2 DEF NumbersInv, Numbers
    <3>5. pc' \in [Handlers -> HandlerStates] /\ seq' \in [Handlers -> Seqs \cup {NoSeq}]
      BY <3>1 DEF NumbersInv, Types, HandlerStates
    <3>6. CASE FailReplyLost(h)
      <4>1. /\ UNCHANGED <<next_seq, transcript_next, pending>>
            /\ abandoned' = abandoned \cup {seq[h]}
        BY <3>6 DEF FailReplyLost, transcript
      <4>2. Given' = Given /\ \A s : Submitted(s)' <=> Submitted(s)
        BY <4>1 DEF Given, Submitted
      <4>3. Types'
        BY <3>4, <3>5, <4>1, <4>2 DEF NumbersInv, Types
      <4> QED
        BY <3>2, <3>3, <3>4, <4>1, <4>2, <4>3 DEF NumbersInv, Numbers
    <3>7. CASE Submit(h)
      <4>1. Transcript!Submit(seq[h]) /\ abandoned' = abandoned
        BY <3>7 DEF Submit, history
      <4>2. /\ next_seq' = next_seq /\ transcript_next' \in 0 .. next_seq /\ pending' \subseteq Given
            /\ \A t \in Given : Submitted(t)' <=> Submitted(t) \/ t = seq[h]
        BY <3>4, <4>1, SubmitMovesOne DEF NumbersInv
      <4>3. Given' = Given
        BY <4>2 DEF Given
      <4>4. Types'
        BY <3>5, <4>1, <4>2, <4>3 DEF NumbersInv, Types
      <4>5. abandoned \subseteq Given
        BY DEF NumbersInv, Types
      <4> QED
        BY <3>2, <3>3, <3>4, <4>1, <4>2, <4>3, <4>4, <4>5 DEF NumbersInv, Numbers
    <3> QED
      BY <2>4, <3>6, <3>7
  <2>5. ASSUME NEW h \in Handlers, ReadEof(h) PROVE NumbersInv'
    <3>1. /\ UNCHANGED <<next_seq, transcript_next, pending, abandoned, seq>>
          /\ pc[h] = "idle" /\ pc' = [pc EXCEPT ![h] = "returned"]
      BY <2>5 DEF ReadEof, Goto, transcript, history
    <3>2. \A g \in Handlers : Working(g)' <=> Working(g)
      BY <3>1 DEF NumbersInv, Types, Working, Numbered
    <3> QED
      BY <3>1, <3>2 DEF NumbersInv, Types, Numbers, Given, Submitted, HandlerStates
  <2> QED
    BY <2>1, <2>2, <2>3, <2>4, <2>5, NextCases
<1> QED
  BY <1>1, <1>2, PTL DEF Spec

(* No number is lost or doubled between the handlers and the transcript.   *)
THEOREM EverySeqAlwaysAccounted == Spec => []EverySeqAccounted
<1>1. NumbersInv => EverySeqAccounted
  BY DEF NumbersInv, Numbers, EverySeqAccounted, Given
<1> QED
  BY <1>1, NumbersAlways, PTL

-----------------------------------------------------------------------------
(* The handlers use the two components as these require.                   *)

LEMMA WorkingOnSeq ==
  ASSUME NumbersInv, NEW h \in Handlers, Working(h)
  PROVE  seq[h] \in Seqs /\ Transcript!Unsubmitted(seq[h])
<1>1. seq[h] \in Given /\ ~Submitted(seq[h]) /\ next_seq \in 0 .. MaxSeq /\ transcript_next \in 0 .. next_seq
  BY DEF NumbersInv, Numbers, Types
<1> QED
  BY <1>1, HostAssumption DEF Given, Submitted, Seqs, Transcript!Unsubmitted

(* The console's variables: nothing of a number before it is given out, no *)
(* worker before its handler queues it, no stream before that spawns it.   *)
ConsoleTypes ==
  /\ worker \in [Seqs -> Console!WorkerStates]
  /\ stream \in [Seqs -> {"none", "open", "eof"}]

(* Where the handlers are that will start their command's print worker.    *)
BeforeQueue == {"spawn", "queue", "fail_queue"}

Fresh ==
  /\ \A s \in Seqs : s >= next_seq => worker[s] = "unborn" /\ stream[s] = "none"
  /\ \A h \in Handlers :
       /\ pc[h] \in BeforeQueue => worker[seq[h]] = "unborn"
       /\ pc[h] = "spawn" => stream[seq[h]] = "none"

FreshInv == NumbersInv /\ ConsoleTypes /\ Fresh

LEMMA ConsoleStep ==
  ASSUME FreshInv, [Next]_vars
  PROVE  [Console!Next]_Console!vars
<1> USE DEF Console!vars
<1>1. CASE UNCHANGED vars
  BY <1>1 DEF vars, print
<1>2. ASSUME NEW h \in Handlers, Request(h) PROVE Console!Next
  BY <1>2 DEF Request, Console!Next
<1>3. ASSUME NEW h \in Handlers, Proceeds(h) PROVE [Console!Next]_Console!vars
  <2>1. seq[h] \in Seqs /\ seq[h] < next_seq
    <3>1. Working(h)
      BY <1>3, ProceedsKeepsNumbers DEF FreshInv, NumbersInv, Working
    <3> QED
      BY <3>1, WorkingOnSeq DEF FreshInv, Transcript!Unsubmitted
  <2>2. CASE SpawnSucceeds(h)
    <3>1. Console!Open(seq[h]) /\ pc[h] = "spawn"
      BY <2>2 DEF SpawnSucceeds, Goto
    <3>2. Console!Unspawned(seq[h])
      BY <2>1, <3>1 DEF Console!Unspawned, Console!Unqueued, FreshInv, Fresh, BeforeQueue
    <3> QED
      BY <2>1, <3>1, <3>2 DEF Console!Next, Seqs, Console!Seqs
  <2>3. CASE FailQueue(h) \/ Queue(h)
    <3>1. Console!Enqueue(seq[h]) /\ pc[h] \in BeforeQueue
      BY <2>3 DEF FailQueue, Queue, Goto, BeforeQueue
    <3>2. Console!Unqueued(seq[h])
      BY <2>1, <3>1 DEF Console!Unqueued, FreshInv, Fresh
    <3> QED
      BY <2>1, <3>1, <3>2 DEF Console!Next, Seqs, Console!Seqs
  <2>4. CASE SpawnFails(h) \/ JoinReader(h) \/ WaitChild(h) \/ Reply(h) \/ FailReplyWritten(h)
    BY <2>4 DEF SpawnFails, JoinReader, WaitChild, Reply, FailReplyWritten, print
  <2> QED
    BY <1>3, <2>2, <2>3, <2>4 DEF Proceeds
<1>4. ASSUME NEW h \in Handlers, FailReplyLost(h) \/ Submit(h) \/ ReadEof(h) PROVE UNCHANGED Console!vars
  BY <1>4 DEF FailReplyLost, Submit, ReadEof, print, Transcript!Submit
<1>5. ASSUME NEW h \in Handlers, ClientLeaves(h) \/ ClientStalls(h) PROVE UNCHANGED Console!vars
  BY <1>5 DEF ClientLeaves, ClientStalls, print
<1>6. ASSUME NEW s \in Seqs, Reader(s) \/ Printer(s) \/ PrinterWakes(s) PROVE Console!Next
  BY <1>6 DEF Reader, Printer, PrinterWakes, Console!Next, Seqs, Console!Seqs
<1>7. ASSUME NEW s \in Seqs, ChildEnds(s) PROVE UNCHANGED Console!vars
  BY <1>7 DEF ChildEnds, print
<1>8. ASSUME NEW a \in Attachers, Attach(a) PROVE UNCHANGED Console!vars
  BY <1>8 DEF Attach, print, Transcript!Subscribe, Transcript!Attachment, Transcript!Deliver,
     Transcript!WriteFails, Transcript!NoticeDisconnect, Transcript!SenderGone,
     Transcript!Return, Transcript!PeerLeaves, Transcript!PeerWrites
<1>9. CASE Close \/ Exit
  BY <1>9 DEF Close, Exit, print, Transcript!CloseSubscriptions
<1> QED
  BY <1>1, <1>2, <1>3, <1>4, <1>5, <1>6, <1>7, <1>8, <1>9, NextCases DEF Others

(* Nobody but a handler starts a worker or opens a stream, and that only   *)
(* for its own number.                                                     *)
LEMMA OthersStartNothing ==
  ASSUME ConsoleTypes, Others \/ UNCHANGED vars
  PROVE  /\ ConsoleTypes'
         /\ \A s \in Seqs : /\ worker'[s] = "unborn" <=> worker[s] = "unborn"
                            /\ stream'[s] = "none" <=> stream[s] = "none"
<1> DEFINE Same == /\ ConsoleTypes'
                   /\ \A s \in Seqs : /\ worker'[s] = "unborn" <=> worker[s] = "unborn"
                                      /\ stream'[s] = "none" <=> stream[s] = "none"
<1>1. ASSUME UNCHANGED <<worker, stream>> PROVE Same
  BY <1>1 DEF ConsoleTypes
<1>2. ASSUME NEW s \in Seqs, Reader(s) PROVE Same
  BY <1>2 DEF Reader, Console!PtyRead, Console!PtyEof, Console!NotifyDrainer, ConsoleTypes,
     Console!WorkerStates, Console!Turn, Seqs, Console!Seqs
<1>3. ASSUME NEW s \in Seqs, Printer(s) \/ PrinterWakes(s) PROVE Same
  <2>1. stream' = stream
    BY <1>3 DEF Printer, PrinterWakes, Console!Worker, Console!SleepForTurn, Console!TakeTurn,
       Console!PrintBanner, Console!Starve, Console!DrainTake, Console!DrainWrite, Console!PrintNewline,
       Console!Release, Console!SpuriousWake, Console!buffers
  <2>2. CASE Console!Release(s)
    BY <2>1, <2>2 DEF Console!Release, ConsoleTypes, Console!WorkerStates, Console!Turn, Seqs, Console!Seqs
  <2>3. ASSUME NEW from, NEW to \in Console!WorkerStates \ {"unborn"},
               from # "unborn", Console!WorkerAt(s, from, to)
        PROVE  Same
    BY <2>1, <2>3 DEF Console!WorkerAt, ConsoleTypes
  <2> QED
    BY <1>3, <2>2, <2>3 DEF Printer, PrinterWakes, Console!Worker, Console!SleepForTurn, Console!TakeTurn,
       Console!PrintBanner, Console!Starve, Console!DrainTake, Console!DrainWrite, Console!PrintNewline,
       Console!SpuriousWake, Console!WorkerStates, Console!Turn
<1>4. ASSUME NEW h \in Handlers, ClientLeaves(h) \/ ClientStalls(h) PROVE Same
  BY <1>1, <1>4 DEF ClientLeaves, ClientStalls, print
<1>5. ASSUME NEW s \in Seqs, ChildEnds(s) PROVE Same
  BY <1>1, <1>5 DEF ChildEnds, print
<1>6. ASSUME NEW a \in Attachers, Attach(a) PROVE Same
  BY <1>1, <1>6 DEF Attach, print
<1>7. ASSUME Close \/ Exit \/ UNCHANGED vars PROVE Same
  BY <1>1, <1>7 DEF Close, Exit, print, vars
<1>8. Same
  <2> HIDE DEF Same
  <2> QED
    BY <1>2, <1>3, <1>4, <1>5, <1>6, <1>7 DEF Others
<1> QED
  BY <1>8

LEMMA HandlersStartTheirOwn ==
  ASSUME ConsoleTypes, NEW h \in Handlers, seq[h] \in Seqs,
         Proceeds(h) \/ FailReplyLost(h) \/ Submit(h) \/ ReadEof(h)
  PROVE  /\ ConsoleTypes'
         /\ \A s \in Seqs : s # seq[h] => worker'[s] = worker[s] /\ stream'[s] = stream[s]
         /\ worker' = worker \/ FailQueue(h) \/ Queue(h)
         /\ stream' = stream \/ SpawnSucceeds(h)
<1>1. CASE SpawnSucceeds(h)
  BY <1>1 DEF SpawnSucceeds, Console!Open, ConsoleTypes
<1>2. CASE FailQueue(h) \/ Queue(h)
  BY <1>2 DEF FailQueue, Queue, Console!Enqueue, Console!buffers, ConsoleTypes, Console!WorkerStates
<1>3. CASE \/ SpawnFails(h) \/ JoinReader(h) \/ WaitChild(h) \/ Reply(h) \/ FailReplyWritten(h)
           \/ FailReplyLost(h) \/ Submit(h) \/ ReadEof(h)
  BY <1>3 DEF SpawnFails, JoinReader, WaitChild, Reply, FailReplyWritten, FailReplyLost, Submit, ReadEof,
     print, ConsoleTypes
<1> QED
  BY <1>1, <1>2, <1>3 DEF Proceeds

LEMMA FreshAlways == Spec => []FreshInv
<1> USE HostAssumption
<1>1. Init => ConsoleTypes /\ Fresh
  BY DEF Init, Console!Init, ConsoleTypes, Fresh, BeforeQueue, Console!WorkerStates, Seqs, Console!Seqs
<1>2. FreshInv /\ [Next]_vars /\ NumbersInv' => ConsoleTypes' /\ Fresh'
  <2> SUFFICES ASSUME FreshInv, [Next]_vars, NumbersInv' PROVE ConsoleTypes' /\ Fresh'
    OBVIOUS
  <2>0. /\ next_seq \in Nat
        /\ \A h \in Handlers : Working(h) => seq[h] \in Seqs /\ seq[h] < next_seq
    BY WorkingOnSeq DEF FreshInv, NumbersInv, Types, Transcript!Unsubmitted
  <2>1. CASE Others \/ UNCHANGED vars
    <3>1. /\ ConsoleTypes'
          /\ \A s \in Seqs : /\ worker'[s] = "unborn" <=> worker[s] = "unborn"
                             /\ stream'[s] = "none" <=> stream[s] = "none"
      BY <2>1, OthersStartNothing DEF FreshInv
    <3>2. UNCHANGED <<next_seq, pc, seq>>
      BY <2>1, OthersKeepNumbers DEF vars
    <3> QED
      BY <2>0, <3>1, <3>2 DEF FreshInv, Fresh, BeforeQueue, Working, Numbered
  <2>2. ASSUME NEW h \in Handlers, Request(h) PROVE ConsoleTypes' /\ Fresh'
    <3>1. /\ UNCHANGED <<worker, stream>> /\ next_seq' = next_seq + 1 /\ next_seq \in Seqs
          /\ pc'[h] = "spawn" /\ seq'[h] = next_seq
          /\ \A g \in Handlers \ {h} : pc'[g] = pc[g] /\ seq'[g] = seq[g]
      BY <2>0, <2>2 DEF Request, Goto, Console!Arrive, Console!buffers, FreshInv, NumbersInv, Types, Seqs
    <3>2. worker[next_seq] = "unborn" /\ stream[next_seq] = "none"
      BY <2>0, <3>1 DEF FreshInv, Fresh
    <3>3. \A s \in Seqs : s >= next_seq' => s >= next_seq
      BY <2>0, <3>1 DEF Seqs
    <3> QED
      BY <3>1, <3>2, <3>3 DEF FreshInv, Fresh, ConsoleTypes
  <2>3. ASSUME NEW h \in Handlers, Proceeds(h) PROVE ConsoleTypes' /\ Fresh'
    <3>1. /\ UNCHANGED <<next_seq, seq>> /\ Working(h) /\ seq[h] \in Seqs /\ seq[h] < next_seq
          /\ \A g \in Handlers \ {h} : pc'[g] = pc[g]
          /\ \A g \in Handlers \ {h} : Working(g) => seq[g] # seq[h]
      BY <2>0, <2>3, ProceedsKeepsNumbers DEF FreshInv, NumbersInv, Types, Numbers, Working
    <3>2. /\ ConsoleTypes'
          /\ \A s \in Seqs : s # seq[h] => worker'[s] = worker[s] /\ stream'[s] = stream[s]
          /\ worker' = worker \/ FailQueue(h) \/ Queue(h)
          /\ stream' = stream \/ SpawnSucceeds(h)
      BY <2>3, <3>1, HandlersStartTheirOwn DEF FreshInv
    <3>3. \A s \in Seqs : s >= next_seq' => s # seq[h] /\ s >= next_seq
      BY <2>0, <3>1 DEF Seqs
    <3>4. \A g \in Handlers \ {h} :
            /\ pc'[g] \in BeforeQueue => worker'[seq[g]] = "unborn"
            /\ pc'[g] = "spawn" => stream'[seq[g]] = "none"
      BY <2>0, <3>1, <3>2 DEF FreshInv, Fresh, BeforeQueue, Working, Numbered
    <3>5. /\ pc'[h] # "spawn"
          /\ pc'[h] \in BeforeQueue => worker' = worker /\ pc[h] \in BeforeQueue
      <4>1. CASE SpawnSucceeds(h) \/ SpawnFails(h)
        BY <4>1 DEF SpawnSucceeds, SpawnFails, Goto, print, Console!Open, BeforeQueue, FreshInv, NumbersInv, Types
      <4>2. CASE FailQueue(h) \/ Queue(h) \/ JoinReader(h) \/ WaitChild(h) \/ Reply(h) \/ FailReplyWritten(h)
        BY <4>2 DEF FailQueue, Queue, JoinReader, WaitChild, Reply, FailReplyWritten, Goto, BeforeQueue,
           FreshInv, NumbersInv, Types
      <4> QED
        BY <2>3, <4>1, <4>2 DEF Proceeds
    <3> QED
      BY <3>1, <3>2, <3>3, <3>4, <3>5 DEF FreshInv, Fresh
  <2>4. ASSUME NEW h \in Handlers, FailReplyLost(h) \/ Submit(h) \/ ReadEof(h) PROVE ConsoleTypes' /\ Fresh'
    <3>1. /\ UNCHANGED <<next_seq, worker, stream>> /\ pc'[h] \in {"idle", "returned"}
          /\ \A g \in Handlers \ {h} : pc'[g] = pc[g] /\ seq'[g] = seq[g]
      BY <2>4 DEF FailReplyLost, ReadEof, Submit, Goto, print, Transcript!Submit, FreshInv, NumbersInv, Types
    <3> QED
      BY <3>1 DEF FreshInv, Fresh, ConsoleTypes, BeforeQueue
  <2> QED
    BY <2>1, <2>2, <2>3, <2>4, NextCases
<1> QED
  BY <1>1, <1>2, NumbersAlways, PTL DEF Spec, FreshInv

LEMMA TranscriptStep ==
  ASSUME NumbersInv, [Next]_vars
  PROVE  [Transcript!Next]_Transcript!vars
<1> USE DEF Transcript!vars
<1>1. CASE UNCHANGED vars
  BY <1>1 DEF vars, transcript
<1>2. ASSUME NEW h \in Handlers, Request(h) PROVE Transcript!Next
  BY <1>2 DEF Request, Transcript!Next
<1>3. ASSUME NEW h \in Handlers, Submit(h) PROVE Transcript!Next
  <2>1. seq[h] \in Seqs /\ Transcript!Unsubmitted(seq[h])
    BY <1>3, WorkingOnSeq DEF Submit, Goto, Working, Numbered
  <2> QED
    BY <1>3, <2>1 DEF Submit, Transcript!Next, Seqs, Transcript!Seqs
<1>4. ASSUME NEW h \in Handlers, Proceeds(h) \/ FailReplyLost(h) \/ ReadEof(h) PROVE UNCHANGED Transcript!vars
  BY <1>4 DEF Proceeds, SpawnSucceeds, SpawnFails, FailQueue, Queue, JoinReader, WaitChild, Reply, FailReplyWritten,
     FailReplyLost, ReadEof, transcript, Console!Open, Console!Enqueue
<1>5. ASSUME NEW h \in Handlers, ClientLeaves(h) \/ ClientStalls(h) PROVE UNCHANGED Transcript!vars
  BY <1>5 DEF ClientLeaves, ClientStalls, transcript
<1>6. ASSUME NEW s \in Seqs, Reader(s) \/ Printer(s) \/ PrinterWakes(s) \/ ChildEnds(s)
      PROVE  UNCHANGED Transcript!vars
  BY <1>6 DEF ChildEnds, Reader, Printer, PrinterWakes, transcript, Console!PtyRead, Console!PtyEof, Console!Worker,
     Console!SleepForTurn, Console!TakeTurn, Console!PrintBanner, Console!Starve,
     Console!DrainTake, Console!DrainWrite, Console!PrintNewline, Console!Release, Console!SpuriousWake
<1>7. ASSUME NEW a \in Attachers, Attach(a) PROVE Transcript!Next
  BY <1>7 DEF Attach, Transcript!Next
<1>8. CASE Close
  BY <1>8 DEF Close, transcript, Transcript!Next
<1>9. CASE Exit
  BY <1>9 DEF Exit, transcript
<1> QED
  BY <1>1, <1>2, <1>3, <1>4, <1>5, <1>6, <1>7, <1>8, <1>9, NextCases DEF Others

(* The handlers number, spawn and queue their commands as the console      *)
(* expects: each is spawned at most once and queued once, after the spawn, *)
(* on every way through handle_connection.  So what is proved of the       *)
(* console holds inside the host.                                          *)
THEOREM ConsoleUsedCorrectly == Spec => UsesPrintQueue
<1>1. Init => Console!Init
  BY DEF Init
<1> QED
  BY <1>1, ConsoleStep, FreshAlways, PTL DEF Spec, UsesPrintQueue, Console!Spec

(* They submit a number once, and only one that was given out, as the      *)
(* transcript expects.                                                     *)
THEOREM TranscriptUsedCorrectly == Spec => UsesTranscriptQueue
<1>1. Init => Transcript!Init
  BY DEF Init
<1> QED
  BY <1>1, TranscriptStep, NumbersAlways, PTL DEF Spec, UsesTranscriptQueue, Transcript!Spec

-----------------------------------------------------------------------------
(* The console's turns.                                                    *)

TurnsInv == FreshInv /\ TurnsAccounted

(* A worker, once started, is never again unborn.                          *)
LEMMA WorkersStayBorn ==
  ASSUME ConsoleTypes, [Console!Next]_Console!vars
  PROVE  \A s \in Seqs : worker'[s] = "unborn" => worker[s] = "unborn"
<1> USE DEF ConsoleTypes, Console!WorkerStates, Console!Turn, Seqs, Console!Seqs
<1>1. CASE Console!Arrive \/ UNCHANGED Console!vars
  BY <1>1 DEF Console!Arrive, Console!vars
<1>2. ASSUME NEW s \in Seqs, Console!Open(s) \/ Console!Enqueue(s) \/ Console!PtyRead(s) \/ Console!PtyEof(s)
      PROVE  \A t \in Seqs : worker'[t] = "unborn" => worker[t] = "unborn"
  BY <1>2 DEF Console!Open, Console!Enqueue, Console!PtyRead, Console!PtyEof, Console!NotifyDrainer
<1>3. ASSUME NEW s \in Seqs, Console!Worker(s) \/ Console!SpuriousWake(s)
      PROVE  \A t \in Seqs : worker'[t] = "unborn" => worker[t] = "unborn"
  <2>1. CASE Console!Release(s)
    BY <2>1 DEF Console!Release
  <2>2. ASSUME NEW from, NEW to \in Console!WorkerStates \ {"unborn"}, Console!WorkerAt(s, from, to)
        PROVE  \A t \in Seqs : worker'[t] = "unborn" => worker[t] = "unborn"
    BY <2>2 DEF Console!WorkerAt
  <2> QED
    BY <1>3, <2>1, <2>2 DEF Console!Worker, Console!SleepForTurn, Console!TakeTurn, Console!PrintBanner,
       Console!Starve, Console!DrainTake, Console!DrainWrite, Console!PrintNewline, Console!SpuriousWake
<1> QED
  BY <1>1, <1>2, <1>3 DEF Console!Next

(* No command's turn on the console is left without a worker, or a handler *)
(* that will start one.                                                    *)
THEOREM TurnsAlwaysAccounted == Spec => []TurnsAccounted
<1>1. Init => TurnsAccounted
  BY DEF Init, Console!Init, TurnsAccounted
<1>2. TurnsInv /\ [Next]_vars => TurnsAccounted'
  <2> SUFFICES ASSUME TurnsInv, [Next]_vars PROVE TurnsAccounted'
    OBVIOUS
  <2>1. \A s \in Seqs : worker'[s] = "unborn" => worker[s] = "unborn"
    BY ConsoleStep, WorkersStayBorn DEF TurnsInv, FreshInv
  <2>2. \A s \in Given : s \in Seqs
    BY HostAssumption DEF TurnsInv, FreshInv, NumbersInv, Types, Given, Seqs
  <2>3. ASSUME Given' = Given,
               \A h \in Handlers : pc[h] \in BeforeQueue =>
                 \/ pc'[h] \in BeforeQueue /\ seq'[h] = seq[h]
                 \/ worker'[seq[h]] # "unborn"
        PROVE  TurnsAccounted'
    <3> SUFFICES ASSUME NEW s \in Given', worker'[s] = "unborn"
                 PROVE  \E h \in Handlers : seq'[h] = s /\ pc'[h] \in BeforeQueue
      BY DEF TurnsAccounted, Given, BeforeQueue
    <3>1. s \in Given /\ worker[s] = "unborn"
      BY <2>1, <2>2, <2>3
    <3>2. PICK h \in Handlers : seq[h] = s /\ pc[h] \in BeforeQueue
      BY <3>1 DEF TurnsInv, TurnsAccounted, Given, BeforeQueue
    <3> QED
      BY <2>3, <3>2
  <2>4. CASE Others \/ UNCHANGED vars
    <3>1. UNCHANGED <<next_seq, pc, seq>>
      BY <2>4, OthersKeepNumbers DEF vars
    <3>2. Given' = Given
      BY <3>1 DEF Given
    <3>3. \A h \in Handlers : pc[h] \in BeforeQueue => pc'[h] \in BeforeQueue /\ seq'[h] = seq[h]
      BY <3>1
    <3> QED
      BY <2>1, <2>3, <3>2, <3>3
  <2>5. ASSUME NEW h \in Handlers, Request(h) PROVE TurnsAccounted'
    <3>1. /\ next_seq \in Nat /\ next_seq' = next_seq + 1
          /\ pc[h] = "idle" /\ pc'[h] = "spawn" /\ seq'[h] = next_seq
          /\ \A g \in Handlers \ {h} : pc'[g] = pc[g] /\ seq'[g] = seq[g]
      BY <2>5 DEF Request, Goto, Transcript!Arrive, TurnsInv, FreshInv, NumbersInv, Types
    <3>2. \A s \in 0 .. next_seq' - 1 : s = next_seq \/ s \in 0 .. next_seq - 1
      BY <3>1
    <3> QED
      BY <2>1, <2>2, <3>1, <3>2 DEF TurnsInv, TurnsAccounted, Given
  <2>6. ASSUME NEW h \in Handlers, Proceeds(h) PROVE TurnsAccounted'
    <3>1. UNCHANGED <<next_seq, seq>> /\ Working(h)
          /\ \A g \in Handlers \ {h} : pc'[g] = pc[g]
      BY <2>6, ProceedsKeepsNumbers DEF TurnsInv, FreshInv, NumbersInv, Types, Working
    <3>2. seq[h] \in Seqs
      BY <3>1, WorkingOnSeq DEF TurnsInv, FreshInv
    <3>3. pc[h] \in BeforeQueue => pc'[h] \in BeforeQueue \/ worker'[seq[h]] # "unborn"
      BY <2>6, <3>2 DEF Proceeds, SpawnSucceeds, SpawnFails, FailQueue, Queue, JoinReader, WaitChild, Reply, FailReplyWritten,
         Goto, Console!Enqueue, BeforeQueue, TurnsInv, FreshInv, NumbersInv, Types, ConsoleTypes
    <3> QED
      BY <2>3, <3>1, <3>3 DEF Given
  <2>7. ASSUME NEW h \in Handlers, FailReplyLost(h) \/ Submit(h) \/ ReadEof(h) PROVE TurnsAccounted'
    <3>1. next_seq' = next_seq
      BY <2>7 DEF FailReplyLost, Submit, ReadEof, Transcript!Submit, transcript
    <3>2. /\ pc[h] \notin BeforeQueue
          /\ \A g \in Handlers \ {h} : pc'[g] = pc[g] /\ seq'[g] = seq[g]
      BY <2>7 DEF FailReplyLost, Submit, ReadEof, Goto, BeforeQueue, TurnsInv, FreshInv, NumbersInv, Types
    <3> QED
      BY <2>3, <3>1, <3>2 DEF Given
  <2> QED
    BY <2>1, <2>4, <2>5, <2>6, <2>7, NextCases
<1> QED
  BY <1>1, <1>2, FreshAlways, PTL DEF Spec, TurnsInv

-----------------------------------------------------------------------------
(* So what was proved of the components on their own holds in the host.    *)

ConsoleFacts == INSTANCE PrintQueueProofs WITH next <- print_next
TranscriptFacts == INSTANCE TranscriptQueueProofs WITH next <- transcript_next

LEMMA ConsoleInside == Spec => [](ConsoleFacts!TypeOK /\ ConsoleFacts!OneVoice /\ ConsoleFacts!ConsoleOrdered)
<1>1. ConsoleFacts!PrintQueueAssumption
  BY HostAssumption DEF HostAssumption, ConsoleFacts!PrintQueueAssumption
<1>2. ConsoleFacts!Spec => [](ConsoleFacts!TypeOK /\ ConsoleFacts!OneVoice /\ ConsoleFacts!ConsoleOrdered)
  BY <1>1, ConsoleFacts!TypeCorrect, ConsoleFacts!OneVoiceAlways, ConsoleFacts!ConsoleAlwaysOrdered, PTL
<1>3. (Console!Init => ConsoleFacts!Init) /\ ([Console!Next]_Console!vars => [ConsoleFacts!Next]_ConsoleFacts!vars)
  BY DEF
     Console!Init, Console!Arrive, Console!Unqueued, Console!Unspawned, Console!Open, Console!Enqueue, Console!NotifyDrainer,
     Console!PtyRead, Console!PtyEof, Console!WorkerAt, Console!SleepForTurn, Console!TakeTurn,
     Console!PrintBanner, Console!Starve, Console!DrainTake, Console!DrainWrite,
     Console!PrintNewline, Console!Release, Console!SpuriousWake, Console!Worker, Console!Next,
     Console!vars, Console!buffers, Console!Seqs, Console!Banner, Console!Newline,
     ConsoleFacts!Init, ConsoleFacts!Arrive, ConsoleFacts!Unqueued, ConsoleFacts!Unspawned,
     ConsoleFacts!Open, ConsoleFacts!Enqueue,
     ConsoleFacts!NotifyDrainer, ConsoleFacts!PtyRead, ConsoleFacts!PtyEof,
     ConsoleFacts!WorkerAt, ConsoleFacts!SleepForTurn, ConsoleFacts!TakeTurn,
     ConsoleFacts!PrintBanner, ConsoleFacts!Starve, ConsoleFacts!DrainTake,
     ConsoleFacts!DrainWrite, ConsoleFacts!PrintNewline, ConsoleFacts!Release,
     ConsoleFacts!SpuriousWake, ConsoleFacts!Worker, ConsoleFacts!Next, ConsoleFacts!vars,
     ConsoleFacts!buffers, ConsoleFacts!Seqs, ConsoleFacts!Banner, ConsoleFacts!Newline
<1>4. Spec => ConsoleFacts!Spec
  BY <1>3, ConsoleUsedCorrectly, PTL DEF UsesPrintQueue, Console!Spec, ConsoleFacts!Spec
<1> QED
  BY <1>2, <1>4, PTL

LEMMA TranscriptInside == Spec => []TranscriptFacts!IInv
<1>1. TranscriptFacts!TranscriptQueueAssumption
  BY HostAssumption DEF HostAssumption, TranscriptFacts!TranscriptQueueAssumption
<1>2. TranscriptFacts!Spec => []TranscriptFacts!IInv
  BY <1>1, TranscriptFacts!IInvInvariant, PTL
<1>3. (Transcript!Init => TranscriptFacts!Init) /\ ([Transcript!Next]_Transcript!vars => [TranscriptFacts!Next]_TranscriptFacts!vars)
  BY DEF
     Transcript!Init, Transcript!Arrive, Transcript!Unsubmitted, Transcript!Listening,
     Transcript!Taken, Transcript!EntryRun, Transcript!Form, Transcript!Written,
     Transcript!Published, Transcript!Submit, Transcript!CloseSubscriptions,
     Transcript!Subscribe, Transcript!Deliver, Transcript!Return, Transcript!WriteFails,
     Transcript!NoticeDisconnect, Transcript!SenderGone, Transcript!PeerLeaves, Transcript!PeerWrites,
     Transcript!Attachment, Transcript!Next, Transcript!vars, Transcript!Seqs,
     TranscriptFacts!Init, TranscriptFacts!Arrive, TranscriptFacts!Unsubmitted,
     TranscriptFacts!Listening, TranscriptFacts!Taken, TranscriptFacts!EntryRun,
     TranscriptFacts!Form, TranscriptFacts!Written, TranscriptFacts!Published,
     TranscriptFacts!Submit, TranscriptFacts!CloseSubscriptions, TranscriptFacts!Subscribe,
     TranscriptFacts!Deliver, TranscriptFacts!Return, TranscriptFacts!WriteFails,
     TranscriptFacts!NoticeDisconnect, TranscriptFacts!SenderGone, TranscriptFacts!PeerLeaves, TranscriptFacts!PeerWrites,
     TranscriptFacts!Attachment, TranscriptFacts!Next, TranscriptFacts!vars,
     TranscriptFacts!Seqs
<1>4. Spec => TranscriptFacts!Spec
  BY <1>3, TranscriptUsedCorrectly, PTL DEF UsesTranscriptQueue, Transcript!Spec, TranscriptFacts!Spec
<1> QED
  BY <1>2, <1>4, PTL

(* Every variable of the host keeps its type.                              *)
THEOREM TypeCorrect == Spec => []TypeOK
<1> DEFINE Rest == /\ left \in [Handlers -> BOOLEAN] /\ stalled \in [Handlers -> BOOLEAN]
                   /\ phase \in {"serving", "closing", "exited"} /\ ended \subseteq Seqs
                   /\ answered \subseteq Seqs /\ unheard \subseteq Seqs
<1>1. Init => Rest
  BY DEF Init
<1>2. NumbersInv /\ Rest /\ [Next]_vars => Rest'
  <2> SUFFICES ASSUME NumbersInv, Rest, [Next]_vars PROVE Rest'
    OBVIOUS
  <2>1. ASSUME NEW h \in Handlers, Reply(h) \/ FailReplyWritten(h) PROVE Rest'
    <3>1. seq[h] \in Seqs
      BY <2>1, WorkingOnSeq DEF Reply, FailReplyWritten, Goto, Working, Numbered
    <3> QED
      BY <2>1, <3>1 DEF Reply, FailReplyWritten, environment
  <2>2. ASSUME NEW h \in Handlers, Request(h) \/ Handler(h), ~(Reply(h) \/ FailReplyWritten(h)) PROVE Rest'
    BY <2>2 DEF Handler, Request, SpawnSucceeds, SpawnFails, FailQueue, Queue, JoinReader, WaitChild, FailReplyLost,
       Submit, ReadEof, environment, history
  <2>3. ASSUME NEW h \in Handlers, ClientLeaves(h) \/ ClientStalls(h) PROVE Rest'
    BY <2>3 DEF ClientLeaves, ClientStalls, history
  <2>4. CASE Close \/ Exit \/ UNCHANGED vars
    BY <2>4 DEF Close, Exit, environment, history, vars
  <2>5. ASSUME NEW s \in Seqs, Reader(s) \/ Printer(s) \/ PrinterWakes(s) \/ ChildEnds(s) PROVE Rest'
    BY <2>5 DEF ChildEnds, Reader, Printer, PrinterWakes, environment, history
  <2>6. ASSUME NEW a \in Attachers, Attach(a) PROVE Rest'
    BY <2>6 DEF Attach, environment, history
  <2> QED
    BY <2>1, <2>2, <2>3, <2>4, <2>5, <2>6 DEF Next
<1>3. ConsoleFacts!TypeOK /\ TranscriptFacts!IInv /\ NumbersInv /\ Rest => TypeOK
  <2>1. ConsoleFacts!TypeOK => Console!TypeOK
    BY DEF Console!TypeOK, Console!Seqs, Console!WorkerStates, Console!Turn, Console!Chunks, Console!Items,
       Console!Banner, Console!Newline, ConsoleFacts!TypeOK, ConsoleFacts!Seqs, ConsoleFacts!WorkerStates,
       ConsoleFacts!Turn, ConsoleFacts!Chunks, ConsoleFacts!Items, ConsoleFacts!Banner, ConsoleFacts!Newline
  <2>2. TranscriptFacts!IInv => Transcript!TypeOK
    BY DEF Transcript!TypeOK, Transcript!Seqs, Transcript!Entries, Transcript!Outputs, TranscriptFacts!IInv,
       TranscriptFacts!TypeOK, TranscriptFacts!Seqs, TranscriptFacts!Entries, TranscriptFacts!Outputs
  <2>3. NumbersInv => /\ pc \in [Handlers -> HandlerStates] /\ seq \in [Handlers -> Seqs \cup {NoSeq}]
                      /\ abandoned \subseteq Seqs
    BY HostAssumption DEF NumbersInv, Types, Given, Seqs
  <2> QED
    BY <2>1, <2>2, <2>3 DEF TypeOK
<1> QED
  BY <1>1, <1>2, <1>3, ConsoleInside, TranscriptInside, NumbersAlways, PTL DEF Spec

-----------------------------------------------------------------------------
(* What attached clients are sent.                                         *)

Final(s) == stream[s] = "none" \/ (stream[s] = "eof" /\ s \in ended)
Replied(s) == s \in answered \cup unheard

(* The output of a command has ended once its handler is past the join,    *)
(* and its process once it is past the wait, or its spawn has failed; its  *)
(* client was answered, or had left, once the handler is past the reply.   *)
Ended ==
  /\ \A h \in Handlers :
       /\ pc[h] \in {"fail_queue", "fail_reply"} => stream[seq[h]] = "none"
       /\ pc[h] = "wait" => stream[seq[h]] = "eof"
       /\ pc[h] \in {"reply", "submit"} => Final(seq[h])
       /\ pc[h] = "submit" => Replied(seq[h])
  /\ \A s \in Given : Submitted(s) => Final(s) /\ Replied(s)

EndedInv == FreshInv /\ Ended

(* Everybody else can only end a stream, or a process.                     *)
LEMMA OthersOnlyEnd ==
  ASSUME ConsoleTypes, Others \/ UNCHANGED vars
  PROVE  /\ \A s \in Seqs : stream'[s] = stream[s] \/ (stream[s] = "open" /\ stream'[s] = "eof")
         /\ ended \subseteq ended' /\ answered' = answered /\ unheard' = unheard
<1> USE DEF ConsoleTypes
<1>1. ASSUME NEW h \in Handlers, ClientLeaves(h) \/ ClientStalls(h)
      PROVE  UNCHANGED <<stream, ended, answered, unheard>>
  BY <1>1 DEF ClientLeaves, ClientStalls, print, history
<1>2. ASSUME NEW s \in Seqs, Reader(s)
      PROVE  /\ UNCHANGED <<ended, answered, unheard>>
             /\ \A t \in Seqs : stream'[t] = stream[t] \/ (stream[t] = "open" /\ stream'[t] = "eof")
  BY <1>2 DEF Reader, Console!PtyRead, Console!PtyEof, environment, history
<1>3. ASSUME NEW s \in Seqs, Printer(s) \/ PrinterWakes(s)
      PROVE  UNCHANGED <<stream, ended, answered, unheard>>
  BY <1>3 DEF Printer, PrinterWakes, environment, history, Console!Worker, Console!SleepForTurn, Console!TakeTurn,
     Console!PrintBanner, Console!Starve, Console!DrainTake, Console!DrainWrite, Console!PrintNewline,
     Console!Release, Console!SpuriousWake, Console!buffers
<1>4. ASSUME NEW s \in Seqs, ChildEnds(s)
      PROVE  UNCHANGED <<stream, answered, unheard>> /\ ended \subseteq ended'
  BY <1>4 DEF ChildEnds, print, history
<1>5. ASSUME NEW a \in Attachers, Attach(a) PROVE UNCHANGED <<stream, ended, answered, unheard>>
  BY <1>5 DEF Attach, print, environment, history
<1>6. CASE Close \/ Exit \/ UNCHANGED vars
  BY <1>6 DEF Close, Exit, print, environment, history, vars
<1> QED
  BY <1>1, <1>2, <1>3, <1>4, <1>5, <1>6 DEF Others

(* A handler takes back nothing that was said about a command.             *)
LEMMA HandlersEndNothing ==
  ASSUME NEW h \in Handlers, Request(h) \/ Proceeds(h) \/ FailReplyLost(h) \/ Submit(h) \/ ReadEof(h)
  PROVE  ended' = ended /\ answered \subseteq answered' /\ unheard \subseteq unheard'
BY DEF Request, Proceeds, SpawnSucceeds, SpawnFails, FailQueue, Queue, JoinReader, WaitChild, Reply,
       FailReplyWritten, FailReplyLost, Submit, ReadEof, environment, history

LEMMA EndedAlways == Spec => []EndedInv
<1> USE HostAssumption
<1>1. Init => Ended
  BY DEF Init, Console!Init, Transcript!Init, Ended, Given, Submitted
<1>2. EndedInv /\ [Next]_vars /\ FreshInv' => Ended'
  <2> SUFFICES ASSUME EndedInv, [Next]_vars, FreshInv' PROVE Ended'
    OBVIOUS
  <2>0. /\ Given \subseteq Seqs
        /\ \A h \in Handlers : pc[h] \in Numbered => seq[h] \in Given /\ ~Submitted(seq[h])
        /\ next_seq \in Nat /\ Given = 0 .. next_seq - 1
    BY DEF EndedInv, FreshInv, NumbersInv, Numbers, Types, Given, Seqs, Working
  <2>1. CASE Others \/ UNCHANGED vars
    <3>1. /\ \A s \in Seqs : stream'[s] = stream[s] \/ (stream[s] = "open" /\ stream'[s] = "eof")
          /\ ended \subseteq ended' /\ answered' = answered /\ unheard' = unheard
      BY <2>1, OthersOnlyEnd DEF EndedInv, FreshInv
    <3>2. UNCHANGED <<next_seq, transcript_next, pending, pc, seq>>
      BY <2>1, OthersKeepNumbers DEF vars, transcript
    <3>3. \A s : Replied(s) => Replied(s)'
      BY <3>1 DEF Replied
    <3>4. \A s \in Seqs : Final(s) => Final(s)'
      BY <3>1 DEF Final
    <3>5. Given' = Given /\ \A s : Submitted(s)' <=> Submitted(s)
      BY <3>2 DEF Given, Submitted
    <3>6. \A s \in Given' : Submitted(s)' => Final(s)' /\ Replied(s)'
      BY <2>0, <3>3, <3>4, <3>5 DEF EndedInv, Ended
    <3>7. ASSUME NEW h \in Handlers
          PROVE  /\ pc'[h] \in {"fail_queue", "fail_reply"} => stream'[seq'[h]] = "none"
                 /\ pc'[h] = "wait" => stream'[seq'[h]] = "eof"
                 /\ pc'[h] \in {"reply", "submit"} => Final(seq[h])'
                 /\ pc'[h] = "submit" => Replied(seq[h])'
      <4>1. pc'[h] = pc[h] /\ seq'[h] = seq[h] /\ (pc[h] \in Numbered => seq[h] \in Seqs)
        BY <2>0, <3>2
      <4> QED
        BY <3>1, <3>2, <3>3, <3>4, <4>1 DEF EndedInv, Ended, Numbered
    <3> QED
      BY <3>6, <3>7 DEF Ended
  <2>2. ASSUME NEW h \in Handlers, Request(h) \/ Proceeds(h) \/ FailReplyLost(h) \/ Submit(h) \/ ReadEof(h)
        PROVE  Ended'
    <3>1. ended' = ended /\ \A s : Replied(s) => Replied(s)'
      BY <2>2, HandlersEndNothing DEF Replied
    <3>3. CASE Request(h)
      <4>1. /\ stream' = stream /\ next_seq' = next_seq + 1
            /\ UNCHANGED <<transcript_next, pending>>
            /\ pc'[h] = "spawn"
            /\ \A g \in Handlers \ {h} : pc'[g] = pc[g] /\ seq'[g] = seq[g]
        BY <3>3 DEF Request, Goto, Transcript!Arrive, Console!Arrive, Console!buffers, EndedInv, FreshInv,
           NumbersInv, Types
      <4>2. \A s : (Submitted(s)' <=> Submitted(s)) /\ (Final(s)' <=> Final(s))
        BY <3>1, <4>1 DEF Submitted, Final
      <4>3. \A s \in Given' : s \in Given \/ s = next_seq
        BY <4>1, <2>0 DEF Given
      <4>4. ~Submitted(next_seq)
        BY <2>0 DEF Submitted, EndedInv, FreshInv, NumbersInv, Types
      <4>5. \A s \in Given' : Submitted(s)' => Final(s)' /\ Replied(s)'
        BY <3>1, <4>2, <4>3, <4>4 DEF EndedInv, Ended
      <4>6. \A g \in Handlers \ {h} :
              /\ pc'[g] \in {"fail_queue", "fail_reply"} => stream'[seq'[g]] = "none"
              /\ pc'[g] = "wait" => stream'[seq'[g]] = "eof"
              /\ pc'[g] \in {"reply", "submit"} => \A s : s = seq'[g] => Final(s)'
              /\ pc'[g] = "submit" => \A s : s = seq'[g] => Replied(s)'
        BY <3>1, <4>1, <4>2 DEF EndedInv, Ended
      <4> QED
        BY <4>1, <4>5, <4>6 DEF Ended
    <3>4. CASE Proceeds(h)
      <4>1. UNCHANGED <<next_seq, transcript_next, pending, seq>> /\ seq[h] \in Given /\ ~Submitted(seq[h])
            /\ \A g \in Handlers \ {h} : pc'[g] = pc[g]
            /\ \A d \in Handlers \ {h} : pc[d] \in Numbered => seq[d] # seq[h]
        BY <3>4, <2>0, ProceedsKeepsNumbers DEF EndedInv, FreshInv, NumbersInv, Types, Numbers, Working
      <4>2. Given' = Given /\ \A s : Submitted(s)' <=> Submitted(s)
        BY <4>1 DEF Given, Submitted
      <4>3. \A s \in Seqs : s # seq[h] => stream'[s] = stream[s] /\ (Final(s) => Final(s)')
        BY <2>0, <3>1, <3>4, <4>1, HandlersStartTheirOwn DEF EndedInv, FreshInv, Final
      <4>4. /\ pc'[h] \in {"fail_queue", "fail_reply"} => stream'[seq[h]] = "none"
            /\ pc'[h] = "wait" => stream'[seq[h]] = "eof"
            /\ pc'[h] \in {"reply", "submit"} => Final(seq[h])'
            /\ pc'[h] = "submit" => Replied(seq[h])'
        <5>1. CASE SpawnSucceeds(h) \/ Queue(h)
          BY <5>1 DEF SpawnSucceeds, Queue, Goto, EndedInv, FreshInv, NumbersInv, Types
        <5>2. CASE SpawnFails(h)
          BY <5>2 DEF SpawnFails, Goto, print, EndedInv, FreshInv, Fresh, NumbersInv, Types
        <5>3. CASE FailQueue(h)
          BY <5>3 DEF FailQueue, Goto, Console!Enqueue, Console!buffers,
             EndedInv, FreshInv, NumbersInv, Types, Ended
        <5>4. CASE JoinReader(h)
          BY <5>4 DEF JoinReader, Goto, print, EndedInv, FreshInv, NumbersInv, Types
        <5>5. CASE WaitChild(h)
          <6>1. pc[h] = "wait" /\ pc'[h] = "reply" /\ stream' = stream /\ seq' = seq /\ seq[h] \in ended
            BY <5>5 DEF WaitChild, Goto, print, EndedInv, FreshInv, NumbersInv, Types
          <6> QED
            BY <3>1, <6>1 DEF EndedInv, Ended, Final
        <5>6. CASE Reply(h) \/ FailReplyWritten(h)
          <6>1. pc'[h] = "submit" /\ stream' = stream /\ Final(seq[h])
            BY <5>6 DEF Reply, FailReplyWritten, Goto, print, EndedInv, FreshInv, NumbersInv, Types, Ended, Final
          <6>2. seq[h] \in answered' \cup unheard'
            BY <5>6 DEF Reply, FailReplyWritten
          <6> QED
            BY <3>1, <4>1, <6>1, <6>2 DEF Final, Replied
        <5> QED
          BY <3>4, <5>1, <5>2, <5>3, <5>4, <5>5, <5>6 DEF Proceeds
      <4>5. ASSUME NEW g \in Handlers \ {h}
            PROVE  /\ pc'[g] \in {"fail_queue", "fail_reply"} => stream'[seq'[g]] = "none"
                   /\ pc'[g] = "wait" => stream'[seq'[g]] = "eof"
                   /\ pc'[g] \in {"reply", "submit"} => Final(seq[g])'
                   /\ pc'[g] = "submit" => Replied(seq[g])'
        <5>1. /\ pc'[g] = pc[g] /\ seq'[g] = seq[g]
              /\ pc[g] \in Numbered => seq[g] \in Seqs /\ seq[g] # seq[h]
          BY <2>0, <4>1
        <5> QED
          BY <3>1, <4>1, <4>3, <5>1 DEF EndedInv, Ended, Numbered
      <4>6. \A s \in Given' : Submitted(s)' => Final(s)' /\ Replied(s)'
        BY <2>0, <3>1, <4>1, <4>2, <4>3 DEF EndedInv, Ended
      <4> QED
        BY <4>1, <4>4, <4>5, <4>6 DEF Ended
    <3>5. CASE FailReplyLost(h) \/ ReadEof(h) \/ Submit(h)
      <4>1. UNCHANGED <<next_seq, stream>> /\ pc'[h] \in {"idle", "returned"}
            /\ \A g \in Handlers \ {h} : pc'[g] = pc[g] /\ seq'[g] = seq[g]
        BY <3>5 DEF FailReplyLost, ReadEof, Submit, Goto, print, Transcript!Submit, EndedInv, FreshInv,
           NumbersInv, Types
      <4>2. \A s \in Given : Submitted(s)' => Submitted(s) \/ (pc[h] = "submit" /\ s = seq[h])
        <5>1. CASE FailReplyLost(h) \/ ReadEof(h)
          BY <5>1 DEF FailReplyLost, ReadEof, transcript, Submitted
        <5>2. CASE Submit(h)
          BY <5>2, <2>0, SubmitMovesOne DEF Submit, Goto, EndedInv, FreshInv, NumbersInv, Numbered
        <5> QED
          BY <3>5, <5>1, <5>2
      <4>3. Given' = Given /\ \A s : Final(s)' <=> Final(s)
        BY <3>1, <4>1 DEF Given, Final
      <4>4. \A s \in Given' : Submitted(s)' => Final(s)' /\ Replied(s)'
        BY <2>0, <3>1, <4>2, <4>3 DEF EndedInv, Ended
      <4>5. \A g \in Handlers \ {h} :
              /\ pc'[g] \in {"fail_queue", "fail_reply"} => stream'[seq'[g]] = "none"
              /\ pc'[g] = "wait" => stream'[seq'[g]] = "eof"
              /\ pc'[g] \in {"reply", "submit"} => \A s : s = seq'[g] => Final(s)'
              /\ pc'[g] = "submit" => \A s : s = seq'[g] => Replied(s)'
        BY <3>1, <4>1, <4>3 DEF EndedInv, Ended
      <4> QED
        BY <4>1, <4>4, <4>5 DEF Ended
    <3> QED
      BY <2>2, <3>3, <3>4, <3>5
  <2> QED
    BY <2>1, <2>2, NextCases
<1> QED
  BY <1>1, <1>2, FreshAlways, PTL DEF Spec, EndedInv

(* An attached client is sent only what is final: the transcript takes     *)
(* only submitted entries, and a handler submits after the output and the  *)
(* process ended and its own client was answered, or had left.             *)
THEOREM EntriesAlwaysFinal == Spec => []EntriesFinal
<1>1. EndedInv /\ TranscriptFacts!IInv => EntriesFinal
  <2> SUFFICES ASSUME EndedInv, TranscriptFacts!IInv, NEW a \in Attachers,
                      NEW i \in 1 .. Len(Transcript!Sent(a))
               PROVE  LET s == Transcript!Sent(a)[i].seq IN
                        /\ stream[s] = "none" \/ (stream[s] = "eof" /\ s \in ended)
                        /\ s \in answered \cup unheard
    BY DEF EntriesFinal
  <2> DEFINE n == Len(Transcript!Sent(a))
  <2>1. /\ Transcript!Sent(a) = TranscriptFacts!EntryRun(since[a], since[a] + n, TranscriptFacts!Form(a))
        /\ since[a] \in 0 .. MaxSeq /\ since[a] + n <= transcript_next
    BY DEF TranscriptFacts!IInv, TranscriptFacts!TypeOK, TranscriptFacts!Bounds, TranscriptFacts!AttachGapless,
       TranscriptFacts!Sent, Transcript!Sent
  <2>2. n \in Nat
    <3>1. TranscriptFacts!TypeOK
      BY DEF TranscriptFacts!IInv
    <3>2. Len(TranscriptFacts!Sent(a)) \in Nat
      BY <3>1, TranscriptFacts!SentType
    <3> QED
      BY <3>2 DEF Transcript!Sent, TranscriptFacts!Sent
  <2> HIDE DEF n
  <2>3. i \in 1 .. n
    BY DEF n
  <2>4. since[a] + n - since[a] = n
    BY <2>1, <2>2
  <2>5. Transcript!Sent(a)[i].seq = since[a] + i - 1
    BY <2>1, <2>2, <2>3, <2>4 DEF TranscriptFacts!EntryRun
  <2>6. since[a] + i - 1 \in Given /\ Submitted(since[a] + i - 1)
    BY <2>1, <2>2, <2>3, HostAssumption DEF Given, Submitted, EndedInv, FreshInv, NumbersInv, Types
  <2> QED
    BY <2>5, <2>6 DEF EndedInv, Ended, Final, Replied
<1> QED
  BY <1>1, EndedAlways, TranscriptInside, PTL
=============================================================================
