-------------------------- MODULE PrintQueueProofs --------------------------
(***************************************************************************)
(* Proofs about PrintQueue, for any number of commands and any amount of   *)
(* output.  Turns is the heart of them: the workers that are done are      *)
(* exactly those below next, so a worker that finds next >= s finds its    *)
(* own number there, and nobody else can.                                  *)
(***************************************************************************)
EXTENDS PrintQueue, SequenceLemmas

(* next separates the commands that are done from the others, and whoever  *)
(* holds the turn is the command it names.                                 *)
Turns ==
  \A s \in Seqs : /\ worker[s] = "done" <=> s < next
                  /\ worker[s] \in Turn => next = s

(* Nothing of a command whose turn is yet to come is on the console.       *)
NothingEarly == \A i \in 1 .. Len(console) : console[i][1] <= next

IInv == TypeOK /\ Turns /\ ConsoleOrdered /\ NothingEarly

(* What one write appends, if all of it is about s and nothing written     *)
(* before is about a later command, keeps the console ordered.             *)
LEMMA AppendKeepsOrder ==
  ASSUME NEW s \in Seqs, NEW chunk \in Seq(Seqs \X Items), TypeOK,
         ConsoleOrdered, NothingEarly, next = s,
         \A i \in 1 .. Len(chunk) : chunk[i][1] = s,
         next' = next, console' = console \o chunk
  PROVE  /\ console' \in Seq(Seqs \X Items)
         /\ ConsoleOrdered'
         /\ NothingEarly'
<1> DEFINE old == 1 .. Len(console)
<1>1. console \in Seq(Seqs \X Items) BY DEF TypeOK
<1>2. console' \in Seq(Seqs \X Items) BY <1>1, ConcatProperties
<1>3. /\ Len(console') = Len(console) + Len(chunk)
      /\ Len(console) \in Nat /\ Len(chunk) \in Nat
      /\ \A i \in 1 .. Len(console') :
           console'[i] = IF i <= Len(console) THEN console[i] ELSE chunk[i - Len(console)]
  BY <1>1, ConcatProperties, LenProperties
<1>4. \A i \in 1 .. Len(console') :
        /\ i \in old => console'[i] = console[i]
        /\ i \notin old => console'[i][1] = s
  <2> SUFFICES ASSUME NEW i \in 1 .. Len(console')
               PROVE  /\ i \in old => console'[i] = console[i]
                      /\ i \notin old => console'[i][1] = s
    OBVIOUS
  <2>1. CASE i \in old BY <1>3, <2>1
  <2>2. CASE i \notin old
    <3>1. i - Len(console) \in 1 .. Len(chunk) BY <1>3, <2>2
    <3>2. console'[i] = chunk[i - Len(console)] BY <1>3, <2>2
    <3> QED BY <2>2, <3>1, <3>2
  <2> QED BY <2>1, <2>2
<1>5. s \in Nat /\ \A i \in old : console[i][1] <= s
  BY PrintQueueAssumption DEF NothingEarly, Seqs
<1>6. \A i \in 1 .. Len(console') : console'[i][1] <= s
  BY <1>4, <1>5
<1>7. \A i, j \in 1 .. Len(console') : i <= j => console'[i][1] <= console'[j][1]
  <2> SUFFICES ASSUME NEW i \in 1 .. Len(console'), NEW j \in 1 .. Len(console'), i <= j
               PROVE  console'[i][1] <= console'[j][1]
    OBVIOUS
  <2>1. CASE j \in old
    <3>1. i \in old BY <1>3, <2>1
    <3> QED BY <1>4, <2>1, <3>1 DEF ConsoleOrdered
  <2>2. CASE j \notin old BY <1>4, <1>6, <2>2
  <2> QED BY <2>1, <2>2
<1> QED BY <1>2, <1>6, <1>7 DEF NothingEarly, ConsoleOrdered

LEMMA InitIInv == Init => IInv
<1> SUFFICES ASSUME Init PROVE IInv OBVIOUS
<1> USE PrintQueueAssumption
<1>1. TypeOK BY DEF Init, TypeOK, Seqs, WorkerStates, Turn
<1>2. Turns BY DEF Init, Turns, Seqs, Turn
<1>3. ConsoleOrdered /\ NothingEarly BY DEF Init, ConsoleOrdered, NothingEarly
<1> QED BY <1>1, <1>2, <1>3 DEF IInv

(* Every step of a handler, of a PTY reader or of a print worker.          *)
LEMMA NextIInv == IInv /\ [Next]_vars => IInv'
<1> SUFFICES ASSUME IInv, [Next]_vars PROVE IInv' OBVIOUS
<1> USE PrintQueueAssumption DEF IInv
<1>1. CASE UNCHANGED vars
  BY <1>1 DEF vars, buffers, TypeOK, Turns, ConsoleOrdered, NothingEarly
<1>2. CASE Arrive
  <2>1. TypeOK' BY <1>2 DEF Arrive, TypeOK, buffers
  <2> QED BY <1>2, <2>1 DEF Arrive, Turns, ConsoleOrdered, NothingEarly
<1>3. ASSUME NEW s \in Seqs, Unspawned(s), Open(s) PROVE IInv'
  <2>1. TypeOK' BY <1>3 DEF Open, TypeOK
  <2> QED BY <1>3, <2>1 DEF Open, Turns, ConsoleOrdered, NothingEarly
<1>4. ASSUME NEW s \in Seqs, Unqueued(s), Enqueue(s) PROVE IInv'
  <2>1. TypeOK' BY <1>4 DEF Enqueue, TypeOK, buffers, WorkerStates
  <2>2. Turns' BY <1>4 DEF Unqueued, Enqueue, TypeOK, Turns, Turn
  <2> QED BY <1>4, <2>1, <2>2 DEF Enqueue, ConsoleOrdered, NothingEarly
<1>5. ASSUME NEW s \in Seqs, NotifyDrainer(s) PROVE
        /\ worker' \in [Seqs -> WorkerStates]
        /\ next' = next => Turns'
  BY <1>5 DEF NotifyDrainer, TypeOK, Turns, Turn, WorkerStates
<1>6. ASSUME NEW s \in Seqs, PtyRead(s) PROVE IInv'
  <2>1. raw_total[s] + 1 \in Chunks BY <1>6 DEF PtyRead, TypeOK, Chunks
  <2>2. raw_pending' \in [Seqs -> Seq(Chunks)] BY <1>6, <2>1 DEF PtyRead, TypeOK
  <2>3. raw_total' \in [Seqs -> 0 .. MaxChunks] BY <1>6 DEF PtyRead, TypeOK
  <2>4. TypeOK' BY <1>5, <1>6, <2>2, <2>3 DEF PtyRead, TypeOK
  <2> QED BY <1>5, <1>6, <2>4 DEF PtyRead, ConsoleOrdered, NothingEarly
<1>7. ASSUME NEW s \in Seqs, PtyEof(s) PROVE IInv'
  <2>1. TypeOK' BY <1>5, <1>7 DEF PtyEof, TypeOK
  <2> QED BY <1>5, <1>7, <2>1 DEF PtyEof, ConsoleOrdered, NothingEarly
<1>8. ASSUME NEW s \in Seqs, SleepForTurn(s) PROVE IInv'
  <2>1. TypeOK' BY <1>8 DEF SleepForTurn, WorkerAt, TypeOK, buffers, WorkerStates
  <2>2. Turns' BY <1>8 DEF SleepForTurn, WorkerAt, TypeOK, Turns, Turn
  <2> QED BY <1>8, <2>1, <2>2 DEF SleepForTurn, ConsoleOrdered, NothingEarly
<1>9. ASSUME NEW s \in Seqs, TakeTurn(s) PROVE IInv'
  <2>1. TypeOK' BY <1>9 DEF TakeTurn, WorkerAt, TypeOK, buffers, WorkerStates, Turn
  <2>2. next = s BY <1>9 DEF TakeTurn, WorkerAt, TypeOK, Turns, Seqs
  <2>3. Turns' BY <1>9, <2>2 DEF TakeTurn, WorkerAt, TypeOK, Turns, Turn
  <2> QED BY <1>9, <2>1, <2>3 DEF TakeTurn, ConsoleOrdered, NothingEarly
<1>10. ASSUME NEW s \in Seqs, PrintBanner(s) PROVE IInv'
  <2> DEFINE chunk == << <<s, Banner>> >>
  <2>1. next = s BY <1>10 DEF PrintBanner, WorkerAt, Turns, Turn
  <2>2. <<s, Banner>> \in Seqs \X Items BY DEF Items
  <2>3. chunk \in Seq(Seqs \X Items) /\ \A i \in 1 .. Len(chunk) : chunk[i][1] = s
    BY <2>2
  <2>4. console' \in Seq(Seqs \X Items) /\ ConsoleOrdered' /\ NothingEarly'
    <3>1. console' = console \o chunk /\ next' = next
      BY <1>10, <2>2, AppendIsConcat DEF PrintBanner, TypeOK
    <3> HIDE DEF chunk
    <3> QED BY <2>1, <2>3, <3>1, AppendKeepsOrder
  <2>5. TypeOK'
    BY <1>10, <2>4 DEF PrintBanner, WorkerAt, TypeOK, buffers, WorkerStates, Turn
  <2>6. Turns' BY <1>10 DEF PrintBanner, WorkerAt, TypeOK, Turns, Turn
  <2> QED BY <2>4, <2>5, <2>6
<1>11. ASSUME NEW s \in Seqs, Starve(s) PROVE IInv'
  <2>1. TypeOK' BY <1>11 DEF Starve, WorkerAt, TypeOK, buffers, WorkerStates, Turn
  <2>2. Turns' BY <1>11 DEF Starve, WorkerAt, TypeOK, Turns, Turn
  <2> QED BY <1>11, <2>1, <2>2 DEF Starve, ConsoleOrdered, NothingEarly
<1>12. ASSUME NEW s \in Seqs, DrainTake(s) PROVE IInv'
  <2>1. TypeOK' BY <1>12 DEF DrainTake, WorkerAt, TypeOK, WorkerStates, Turn
  <2>2. Turns' BY <1>12 DEF DrainTake, WorkerAt, TypeOK, Turns, Turn
  <2> QED BY <1>12, <2>1, <2>2 DEF DrainTake, ConsoleOrdered, NothingEarly
<1>13. ASSUME NEW s \in Seqs, DrainWrite(s) PROVE IInv'
  <2> DEFINE taken == held[s].chunk
             chunk == [i \in 1 .. Len(taken) |-> <<s, taken[i]>>]
  <2>1. next = s BY <1>13 DEF DrainWrite, WorkerAt, Turns, Turn
  <2>2. taken \in Seq(Chunks) BY DEF TypeOK
  <2>3. \A i \in 1 .. Len(taken) : chunk[i] \in Seqs \X Items
    BY <2>2 DEF Items
  <2>4. chunk \in Seq(Seqs \X Items) /\ Len(chunk) = Len(taken)
    <3>1. Len(taken) \in Nat BY <2>2, LenProperties
    <3>2. chunk \in [1 .. Len(taken) -> Seqs \X Items] BY <2>3
    <3> HIDE DEF chunk
    <3> QED BY <3>1, <3>2, FunctionIsSeq
  <2>5. \A i \in 1 .. Len(chunk) : chunk[i][1] = s BY <2>4
  <2>6. console' = console \o chunk /\ next' = next BY <1>13 DEF DrainWrite
  <2>7. console' \in Seq(Seqs \X Items) /\ ConsoleOrdered' /\ NothingEarly'
    <3> HIDE DEF chunk
    <3> QED BY <2>1, <2>4, <2>5, <2>6, AppendKeepsOrder
  <2>8. TypeOK'
    BY <1>13, <2>7 DEF DrainWrite, WorkerAt, TypeOK, buffers, WorkerStates, Turn
  <2>9. Turns' BY <1>13 DEF DrainWrite, WorkerAt, TypeOK, Turns, Turn
  <2> QED BY <2>7, <2>8, <2>9
<1>14. ASSUME NEW s \in Seqs, PrintNewline(s) PROVE IInv'
  <2> DEFINE chunk == << <<s, Newline>> >>
  <2>1. next = s BY <1>14 DEF PrintNewline, WorkerAt, Turns, Turn
  <2>2. <<s, Newline>> \in Seqs \X Items BY DEF Items
  <2>3. chunk \in Seq(Seqs \X Items) /\ \A i \in 1 .. Len(chunk) : chunk[i][1] = s
    BY <2>2
  <2>4. console' \in Seq(Seqs \X Items) /\ ConsoleOrdered' /\ NothingEarly'
    <3>1. console' = console \o chunk /\ next' = next
      BY <1>14, <2>2, AppendIsConcat DEF PrintNewline, TypeOK
    <3> HIDE DEF chunk
    <3> QED BY <2>1, <2>3, <3>1, AppendKeepsOrder
  <2>5. TypeOK'
    BY <1>14, <2>4 DEF PrintNewline, WorkerAt, TypeOK, buffers, WorkerStates, Turn
  <2>6. Turns' BY <1>14 DEF PrintNewline, WorkerAt, TypeOK, Turns, Turn
  <2> QED BY <2>4, <2>5, <2>6
<1>15. ASSUME NEW s \in Seqs, Release(s) PROVE IInv'
  <2>1. next = s /\ next \in Nat BY <1>15 DEF Release, TypeOK, Turns, Turn
  <2>2. next' \in 0 .. MaxSeq BY <1>15, <2>1 DEF Release, Seqs
  <2>3. worker' \in [Seqs -> WorkerStates] BY <1>15 DEF Release, TypeOK, WorkerStates
  <2>4. TypeOK' BY <1>15, <2>2, <2>3 DEF Release, TypeOK, buffers
  <2>5. ASSUME NEW t \in Seqs PROVE /\ worker'[t] = "done" <=> t < next'
                                    /\ worker'[t] \in Turn => next' = t
    BY <1>15, <2>1 DEF Release, Turns, TypeOK, Turn, Seqs
  <2>6. console' = console /\ next' = next + 1 BY <1>15 DEF Release
  <2>7. \A i \in 1 .. Len(console) : console[i][1] \in Seqs BY DEF TypeOK
  <2>8. NothingEarly' BY <2>1, <2>6, <2>7 DEF NothingEarly, Seqs
  <2> QED BY <2>4, <2>5, <2>6, <2>8 DEF Turns, ConsoleOrdered
<1>16. ASSUME NEW s \in Seqs, SpuriousWake(s) PROVE IInv'
  <2>1. TypeOK' BY <1>16 DEF SpuriousWake, WorkerAt, TypeOK, buffers, WorkerStates, Turn
  <2>2. Turns' BY <1>16 DEF SpuriousWake, WorkerAt, TypeOK, Turns, Turn
  <2> QED BY <1>16, <2>1, <2>2 DEF SpuriousWake, ConsoleOrdered, NothingEarly
<1> QED BY <1>1, <1>2, <1>3, <1>4, <1>6, <1>7, <1>8, <1>9, <1>10, <1>11, <1>12,
           <1>13, <1>14, <1>15, <1>16 DEF Next, Worker

LEMMA IInvInvariant == Spec => []IInv
<1> QED BY InitIInv, NextIInv, PTL DEF Spec

(* Every variable keeps its type; next never passes the commands there are.*)
THEOREM TypeCorrect == Spec => []TypeOK
<1>1. IInv => TypeOK BY DEF IInv
<1> QED BY <1>1, IInvInvariant, PTL

(* Never do two print workers hold the turn, whatever the interleaving of  *)
(* arrivals, wake-ups (spurious ones too) and releases.                    *)
THEOREM OneVoiceAlways == Spec => []OneVoice
<1>1. IInv => OneVoice BY DEF IInv, Turns, OneVoice
<1> QED BY <1>1, IInvInvariant, PTL

(* The console shows commands in the order in which they arrived.          *)
THEOREM ConsoleAlwaysOrdered == Spec => []ConsoleOrdered
<1>1. IInv => ConsoleOrdered BY DEF IInv
<1> QED BY <1>1, IInvInvariant, PTL

-----------------------------------------------------------------------------
(* What is printed of a command, and what of it is still on its way: in    *)
(* the drainer's hands, or in the buffer behind that.                      *)

Waiting == {"unborn", "check", "asleep", "banner"}
Draining == {"drain", "starved", "write", "newline"}
Over == {"release", "done"}

Printed(s) == raw_total[s] - Len(raw_pending[s]) - Len(held[s].chunk)

(* Chunks are numbered as they were read, so what waits is the last of     *)
(* them, in order.                                                         *)
Buffered(s) ==
  /\ Printed(s) \in Nat
  /\ \A i \in 1 .. Len(raw_pending[s]) :
       raw_pending[s][i] = raw_total[s] - Len(raw_pending[s]) + i
  /\ \A i \in 1 .. Len(held[s].chunk) :
       held[s].chunk[i] = raw_total[s] - Len(raw_pending[s]) - Len(held[s].chunk) + i
  /\ worker[s] \in Waiting => Len(raw_pending[s]) = raw_total[s]
  /\ stream[s] = "none" => raw_total[s] = 0
  /\ worker[s] # "write" => held[s].chunk = <<>>
  /\ worker[s] = "write" /\ held[s].eof => raw_pending[s] = <<>> /\ stream[s] = "eof"
  /\ worker[s] \in {"drain", "starved", "write"} => stream[s] # "none"
  /\ worker[s] \in {"newline", "release", "done"} => raw_pending[s] = <<>> /\ stream[s] # "open"

(* s has the n pieces after the first b on the console, and no others.     *)
Pieces(s, b, n) ==
  /\ b \in Nat /\ b + n <= Len(console)
  /\ \A i \in 1 .. Len(console) : console[i][1] = s <=> b < i /\ i <= b + n

(* Banner and n chunks, as the last pieces of the console.                 *)
EndsWith(s, n) ==
  \E b \in Nat :
    /\ Pieces(s, b, n + 1) /\ b + n + 1 = Len(console)
    /\ \A i \in 1 .. n + 1 : console[b + i][2] = i - 1

Complete(s) ==
  \E b \in Nat :
    /\ Pieces(s, b, raw_total[s] + 2)
    /\ \A i \in 1 .. raw_total[s] + 1 : console[b + i][2] = i - 1
    /\ console[b + raw_total[s] + 2][2] = Newline

OnConsole(s) ==
  /\ worker[s] \in Waiting => \A i \in 1 .. Len(console) : console[i][1] # s
  /\ worker[s] \in Draining => EndsWith(s, Printed(s))
  /\ worker[s] \in Over => Complete(s)

OutputInv == \A s \in Seqs : Buffered(s) /\ OnConsole(s)

(* A command that does not move, unless it is woken.                       *)
SameCommand(s) ==
  /\ raw_pending'[s] = raw_pending[s] /\ raw_total'[s] = raw_total[s]
  /\ held'[s] = held[s] /\ stream'[s] = stream[s]
  /\ worker'[s] = worker[s] \/ (worker[s] = "asleep" /\ worker'[s] = "check")

LEMMA SameBuffered ==
  ASSUME NEW s \in Seqs, Buffered(s), SameCommand(s)
  PROVE  Buffered(s)'
BY DEF Buffered, SameCommand, Waiting, Printed

(* Nothing is written: where a worker is in its turn decides.              *)
LEMMA NothingWritten ==
  ASSUME NEW s \in Seqs, OnConsole(s), console' = console,
         worker'[s] \in Waiting => worker[s] \in Waiting,
         worker'[s] \in Draining => worker[s] \in Draining /\ Printed(s)' = Printed(s),
         worker'[s] \in Over => worker[s] \in Over /\ raw_total'[s] = raw_total[s]
  PROVE  OnConsole(s)'
BY DEF OnConsole, EndsWith, Complete, Pieces

LEMMA SameOnConsole ==
  ASSUME NEW s \in Seqs, OnConsole(s), SameCommand(s), console' = console
  PROVE  OnConsole(s)'
<1>1. Printed(s)' = Printed(s)
  BY DEF SameCommand, Printed
<1> QED
  BY <1>1, NothingWritten DEF SameCommand, Waiting, Draining, Over

(* What one write appends.                                                 *)
LEMMA Written ==
  ASSUME TypeOK, NEW chunk \in Seq(Seqs \X Items), console' = console \o chunk
  PROVE  /\ Len(console') = Len(console) + Len(chunk)
         /\ Len(console) \in Nat /\ Len(chunk) \in Nat
         /\ \A i \in 1 .. Len(console) : console'[i] = console[i]
         /\ \A i \in 1 .. Len(console') : i > Len(console) =>
              i - Len(console) \in 1 .. Len(chunk) /\ console'[i] = chunk[i - Len(console)]
BY ConcatProperties, LenProperties DEF TypeOK

LEMMA OthersWrite ==
  ASSUME TypeOK, NEW s \in Seqs, OnConsole(s), SameCommand(s), worker[s] \notin Draining,
         NEW chunk \in Seq(Seqs \X Items), console' = console \o chunk,
         \A i \in 1 .. Len(chunk) : chunk[i][1] # s
  PROVE  OnConsole(s)'
<1>1. /\ Len(console') = Len(console) + Len(chunk)
      /\ Len(console) \in Nat /\ Len(chunk) \in Nat
      /\ \A i \in 1 .. Len(console) : console'[i] = console[i]
      /\ \A i \in 1 .. Len(console') : i > Len(console) => console'[i][1] # s
  BY Written
<1>2. worker'[s] \in Waiting => \A i \in 1 .. Len(console') : console'[i][1] # s
  BY <1>1 DEF OnConsole, SameCommand, Waiting
<1>3. ASSUME worker'[s] \in Over PROVE Complete(s)'
  <2>1. Complete(s) /\ raw_total'[s] = raw_total[s] /\ raw_total[s] \in Nat
    BY <1>3 DEF OnConsole, SameCommand, Over, TypeOK
  <2>2. PICK b \in Nat :
          /\ Pieces(s, b, raw_total[s] + 2)
          /\ \A i \in 1 .. raw_total[s] + 1 : console[b + i][2] = i - 1
          /\ console[b + raw_total[s] + 2][2] = Newline
    BY <2>1 DEF Complete
  <2>3. b + raw_total[s] + 2 <= Len(console)
    BY <2>1, <2>2 DEF Pieces
  <2>4. Pieces(s, b, raw_total[s] + 2)'
    <3>1. PICK n \in Nat : n = raw_total[s] + 2 /\ n = raw_total'[s] + 2
      BY <2>1
    <3>2. /\ b \in Nat /\ b + n <= Len(console)
          /\ \A i \in 1 .. Len(console) : console[i][1] = s <=> b < i /\ i <= b + n
      BY <2>2, <3>1 DEF Pieces
    <3>3. b + n <= Len(console')
      BY <1>1, <3>1, <3>2
    <3>4. ASSUME NEW i \in 1 .. Len(console')
          PROVE  console'[i][1] = s <=> b < i /\ i <= b + n
      <4>1. CASE i <= Len(console)
        BY <1>1, <3>2, <4>1
      <4>2. CASE i > Len(console)
        <5>1. console'[i][1] # s
          BY <1>1, <4>2
        <5>2. ~(i <= b + n)
          BY <1>1, <3>2, <4>2
        <5> QED
          BY <5>1, <5>2
      <4> QED
        BY <1>1, <4>1, <4>2
    <3>5. Pieces(s, b, n)'
      BY <3>2, <3>3, <3>4 DEF Pieces
    <3> QED
      BY <3>1, <3>5
  <2>5. /\ \A i \in 1 .. raw_total[s] + 1 : b + i \in 1 .. Len(console)
        /\ b + raw_total[s] + 2 \in 1 .. Len(console)
    BY <1>1, <2>1, <2>3, SMTT(30)
  <2>6. /\ Pieces(s, b, raw_total[s] + 2)'
        /\ \A i \in 1 .. raw_total'[s] + 1 : console'[b + i][2] = i - 1
        /\ console'[b + raw_total'[s] + 2][2] = Newline
    BY <1>1, <2>1, <2>2, <2>4, <2>5
  <2> QED
    BY <2>6 DEF Complete, Newline
<1>4. worker'[s] \notin Draining
  BY DEF SameCommand, Draining
<1> QED
  BY <1>2, <1>3, <1>4 DEF OnConsole

(* The holder of the turn appends the chunks that follow.                  *)
LEMMA HolderWrites ==
  ASSUME TypeOK, NEW s \in Seqs, NEW n \in Nat, EndsWith(s, n),
         NEW chunk \in Seq(Seqs \X Items), console' = console \o chunk,
         NEW m, m = n + Len(chunk),
         \A i \in 1 .. Len(chunk) : chunk[i][1] = s /\ chunk[i][2] = n + i
  PROVE  EndsWith(s, m)'
<1>1. /\ Len(console') = Len(console) + Len(chunk)
      /\ Len(console) \in Nat /\ Len(chunk) \in Nat
      /\ \A i \in 1 .. Len(console) : console'[i] = console[i]
      /\ \A i \in 1 .. Len(console') : i > Len(console) =>
           i - Len(console) \in 1 .. Len(chunk) /\ console'[i] = chunk[i - Len(console)]
  BY Written
<1>0. m \in Nat /\ m = n + Len(chunk) /\ n \in Nat
  BY <1>1
<1>2. PICK b \in Nat :
        /\ Pieces(s, b, n + 1) /\ b + n + 1 = Len(console)
        /\ \A i \in 1 .. n + 1 : console[b + i][2] = i - 1
  BY DEF EndsWith
<1>6. /\ b \in Nat /\ n \in Nat /\ Len(chunk) \in Nat /\ Len(console') \in Nat
      /\ Len(console) = b + n + 1
      /\ Len(console') = b + n + 1 + Len(chunk)
      /\ m = n + Len(chunk) /\ m \in Nat /\ b + m + 1 = Len(console')
  <2>1. b \in Nat /\ Len(console) = b + n + 1
    BY <1>2
  <2>2. Len(console') = Len(console) + Len(chunk) /\ Len(chunk) \in Nat
    BY <1>1
  <2> QED
    BY <1>0, <2>1, <2>2
<1>3. \A i \in 1 .. Len(console') : i > Len(console) =>
        console'[i][1] = s /\ console'[i][2] = n + i - Len(console)
  BY <1>1
<1>4. Pieces(s, b, m + 1)'
  <2>1. b + (m + 1) = Len(console')
    BY <1>6
  <2>2. \A i \in 1 .. Len(console) : console[i][1] = s <=> b < i
    BY <1>1, <1>2 DEF Pieces
  <2>3. \A i \in 1 .. Len(console') : console'[i][1] = s <=> b < i /\ i <= b + (m + 1)
    BY <1>1, <1>2, <1>3, <2>1, <2>2
  <2> QED
    BY <1>1, <2>1, <2>3 DEF Pieces
<1>5. \A i \in 1 .. m + 1 : console'[b + i][2] = i - 1
  <2> SUFFICES ASSUME NEW i \in 1 .. m + 1 PROVE console'[b + i][2] = i - 1
    OBVIOUS
  <2>1. CASE i <= n + 1
    <3>1. b + i \in 1 .. Len(console) /\ i \in 1 .. n + 1
      BY <1>1, <1>2, <2>1
    <3> QED
      BY <1>1, <1>2, <3>1
  <2>2. CASE i > n + 1
    <3>1. b + i \in 1 .. Len(console') /\ b + i > Len(console)
      BY <1>1, <1>2, <2>2
    <3>2. console'[b + i][2] = n + (b + i) - Len(console)
      BY <1>3, <3>1
    <3>3. n + (b + i) - Len(console) = i - 1
      BY <1>6
    <3> QED
      BY <3>2, <3>3
  <2>3. i <= n + 1 \/ i > n + 1
    BY <1>0
  <2> QED
    BY <2>1, <2>2, <2>3, Zenon
<1>7. \E c \in Nat :
        /\ Pieces(s, c, m + 1)' /\ c + m + 1 = Len(console')
        /\ \A i \in 1 .. m + 1 : console'[c + i][2] = i - 1
  BY <1>4, <1>5, <1>6
<1> QED
  BY <1>7 DEF EndsWith

(* A step of t: the other commands stay, and so does the invariant.        *)
OthersStay(t) == \A s \in Seqs \ {t} : SameCommand(s)

LEMMA SilentStep ==
  ASSUME OutputInv, NEW t \in Seqs, OthersStay(t), console' = console, Buffered(t)',
         worker'[t] \in Waiting => worker[t] \in Waiting,
         worker'[t] \in Draining => worker[t] \in Draining /\ Printed(t)' = Printed(t),
         worker'[t] \in Over => worker[t] \in Over /\ raw_total'[t] = raw_total[t]
  PROVE  OutputInv'
<1>1. OnConsole(t)'
  BY NothingWritten DEF OutputInv
<1>2. \A s \in Seqs \ {t} : Buffered(s)' /\ OnConsole(s)'
  BY SameBuffered, SameOnConsole DEF OutputInv, OthersStay
<1> QED
  BY <1>1, <1>2 DEF OutputInv

LEMMA WritingStep ==
  ASSUME IInv, OutputInv, NEW t \in Seqs, worker[t] \in Turn, OthersStay(t),
         NEW chunk \in Seq(Seqs \X Items), console' = console \o chunk,
         \A i \in 1 .. Len(chunk) : chunk[i][1] = t,
         Buffered(t)', OnConsole(t)'
  PROVE  OutputInv'
<1>1. TypeOK /\ next = t
  BY DEF IInv, Turns
<1>2. ASSUME NEW s \in Seqs \ {t} PROVE Buffered(s)' /\ OnConsole(s)'
  <2>1. worker[s] \notin Draining
    BY <1>1 DEF IInv, Turns, Draining, Turn
  <2>2. \A i \in 1 .. Len(chunk) : chunk[i][1] # s
    OBVIOUS
  <2>3. Buffered(s) /\ OnConsole(s) /\ SameCommand(s)
    BY DEF OutputInv, OthersStay
  <2> QED
    BY <1>1, <2>1, <2>2, <2>3, SameBuffered, OthersWrite
<1> QED
  BY <1>2 DEF OutputInv

LEMMA BufferTypes ==
  ASSUME TypeOK, NEW s \in Seqs
  PROVE  /\ raw_pending[s] \in Seq(Chunks) /\ Len(raw_pending[s]) \in Nat
         /\ held[s].chunk \in Seq(Chunks) /\ Len(held[s].chunk) \in Nat
         /\ raw_total[s] \in Nat
         /\ DOMAIN worker = Seqs /\ DOMAIN stream = Seqs /\ DOMAIN held = Seqs
         /\ DOMAIN raw_pending = Seqs /\ DOMAIN raw_total = Seqs
BY PrintQueueAssumption, LenProperties DEF TypeOK

(* The reader appends the next chunk, behind what is waiting.              *)
LEMMA PtyReadKeepsOutput ==
  ASSUME ~Silent, IInv, OutputInv, NEW t \in Seqs, PtyRead(t)
  PROVE  OutputInv'
<1>1. /\ raw_pending[t] \in Seq(Chunks) /\ Len(raw_pending[t]) \in Nat
      /\ held[t].chunk \in Seq(Chunks) /\ Len(held[t].chunk) \in Nat /\ raw_total[t] \in Nat
      /\ DOMAIN worker = Seqs /\ DOMAIN raw_pending = Seqs /\ DOMAIN raw_total = Seqs
  BY BufferTypes DEF IInv
<1>2. raw_total[t] + 1 \in Chunks
  BY <1>1, PrintQueueAssumption DEF PtyRead, Chunks, IInv, TypeOK
<1>3. /\ raw_total'[t] = raw_total[t] + 1
      /\ raw_pending'[t] = Append(raw_pending[t], raw_total[t] + 1)
      /\ held'[t] = held[t] /\ stream'[t] = stream[t] /\ stream[t] = "open"
      /\ worker'[t] = IF worker[t] = "starved" THEN "drain" ELSE worker[t]
      /\ console' = console
  BY <1>1 DEF PtyRead, NotifyDrainer
<1>4. OthersStay(t)
  BY <1>1 DEF OthersStay, SameCommand, PtyRead, NotifyDrainer
<1>5. /\ Len(raw_pending'[t]) = Len(raw_pending[t]) + 1
      /\ \A i \in 1 .. Len(raw_pending[t]) : raw_pending'[t][i] = raw_pending[t][i]
      /\ raw_pending'[t][Len(raw_pending[t]) + 1] = raw_total[t] + 1
  BY <1>1, <1>2, <1>3, AppendProperties
<1>6. Printed(t)' = Printed(t)
  BY <1>1, <1>3, <1>5 DEF Printed
<1>7. Buffered(t)'
  <2>1. Buffered(t) /\ worker[t] \notin {"newline", "release", "done"}
    BY <1>3 DEF OutputInv, Buffered
  <2>2. \A i \in 1 .. Len(raw_pending'[t]) :
          raw_pending'[t][i] = raw_total'[t] - Len(raw_pending'[t]) + i
    <3>1. PICK p \in Nat, r \in Nat : p = Len(raw_pending[t]) /\ r = raw_total[t]
      BY <1>1
    <3>2. \A i \in 1 .. p : raw_pending[t][i] = r - p + i
      BY <2>1, <3>1 DEF Buffered
    <3>3. /\ Len(raw_pending'[t]) = p + 1 /\ raw_total'[t] = r + 1
          /\ \A i \in 1 .. p : raw_pending'[t][i] = raw_pending[t][i]
          /\ raw_pending'[t][p + 1] = r + 1
      BY <1>3, <1>5, <3>1
    <3>4. ASSUME NEW i \in 1 .. p + 1 PROVE raw_pending'[t][i] = (r + 1) - (p + 1) + i
      <4>1. CASE i = p + 1
        BY <3>3, <4>1
      <4>2. CASE i # p + 1
        <5>1. i \in 1 .. p /\ (r + 1) - (p + 1) + i = r - p + i
          BY <4>2
        <5> QED
          BY <3>2, <3>3, <5>1
      <4> QED
        BY <4>1, <4>2
    <3> QED
      BY <3>3, <3>4
  <2>3. \A i \in 1 .. Len(held'[t].chunk) :
          held'[t].chunk[i] = raw_total'[t] - Len(raw_pending'[t]) - Len(held'[t].chunk) + i
    <3>1. PICK p \in Nat, c \in Nat, r \in Nat :
            p = Len(raw_pending[t]) /\ c = Len(held[t].chunk) /\ r = raw_total[t]
      BY <1>1
    <3>2. \A i \in 1 .. c : held[t].chunk[i] = r - p - c + i
      BY <2>1, <3>1 DEF Buffered
    <3>3. held'[t] = held[t] /\ Len(raw_pending'[t]) = p + 1 /\ raw_total'[t] = r + 1
      BY <1>3, <1>5, <3>1
    <3>4. c = Len(held'[t].chunk) /\ held'[t].chunk = held[t].chunk
      BY <3>1, <3>3
    <3>5. ASSUME NEW i \in 1 .. c PROVE held'[t].chunk[i] = (r + 1) - (p + 1) - c + i
      <4>1. (r + 1) - (p + 1) - c + i = r - p - c + i
        OBVIOUS
      <4> QED
        BY <3>2, <3>4, <4>1
    <3> QED
      BY <3>3, <3>4, <3>5
  <2>4. Printed(t)' \in Nat
    BY <1>6, <2>1 DEF Buffered
  <2>5. worker'[t] \in Waiting => Len(raw_pending'[t]) = raw_total'[t]
    BY <1>3, <1>5, <2>1 DEF Buffered, Waiting
  <2>6. /\ worker'[t] # "write" => held'[t].chunk = <<>>
        /\ ~(worker'[t] = "write" /\ held'[t].eof)
        /\ worker'[t] \notin {"newline", "release", "done"}
    BY <1>3, <2>1 DEF Buffered
  <2> QED
    BY <1>3, <2>2, <2>3, <2>4, <2>5, <2>6 DEF Buffered
<1> QED
  BY <1>3, <1>4, <1>6, <1>7, SilentStep DEF Waiting, Draining, Over, OutputInv, Buffered

(* Under the lock: what waits becomes what will be written.                *)
LEMMA DrainTakeKeepsOutput ==
  ASSUME IInv, OutputInv, NEW t \in Seqs, DrainTake(t)
  PROVE  OutputInv'
<1>1. /\ raw_pending[t] \in Seq(Chunks) /\ Len(raw_pending[t]) \in Nat
      /\ held[t].chunk \in Seq(Chunks) /\ Len(held[t].chunk) \in Nat /\ raw_total[t] \in Nat
      /\ DOMAIN worker = Seqs /\ DOMAIN raw_pending = Seqs /\ DOMAIN held = Seqs
  BY BufferTypes DEF IInv
<1>2. /\ raw_total'[t] = raw_total[t] /\ stream'[t] = stream[t] /\ console' = console
      /\ raw_pending'[t] = <<>>
      /\ held'[t].chunk = raw_pending[t] /\ (held'[t].eof => stream[t] = "eof")
      /\ worker[t] = "drain" /\ worker'[t] = "write"
  BY <1>1 DEF DrainTake, WorkerAt
<1>3. OthersStay(t)
  BY <1>1 DEF OthersStay, SameCommand, DrainTake, WorkerAt
<1>0. held[t].chunk = <<>>
  BY <1>2 DEF OutputInv, Buffered
<1>4. Buffered(t) /\ Len(held[t].chunk) = 0
  BY <1>0 DEF OutputInv
<1>5. Len(raw_pending'[t]) = 0 /\ Len(held'[t].chunk) = Len(raw_pending[t])
  BY <1>2
<1>6. Printed(t)' = Printed(t)
  BY <1>1, <1>2, <1>4, <1>5 DEF Printed
<1>7. Buffered(t)'
  <2>1. \A i \in 1 .. Len(held'[t].chunk) :
          held'[t].chunk[i] = raw_total'[t] - Len(raw_pending'[t]) - Len(held'[t].chunk) + i
    BY <1>1, <1>2, <1>4, <1>5 DEF Buffered
  <2>2. Printed(t)' \in Nat
    BY <1>4, <1>6 DEF Buffered
  <2>3. \A i \in 1 .. Len(raw_pending'[t]) :
          raw_pending'[t][i] = raw_total'[t] - Len(raw_pending'[t]) + i
    BY <1>5
  <2>4. stream'[t] # "none"
    BY <1>2, <1>4 DEF Buffered
  <2> QED
    BY <1>2, <2>1, <2>2, <2>3, <2>4 DEF Buffered, Waiting
<1> QED
  BY <1>2, <1>3, <1>6, <1>7, SilentStep DEF Waiting, Draining, Over

(* Without the lock: what was taken is written, behind what was before.    *)
LEMMA DrainWriteKeepsOutput ==
  ASSUME IInv, OutputInv, NEW t \in Seqs, DrainWrite(t)
  PROVE  OutputInv'
<1>1. /\ raw_pending[t] \in Seq(Chunks) /\ Len(raw_pending[t]) \in Nat
      /\ held[t].chunk \in Seq(Chunks) /\ Len(held[t].chunk) \in Nat /\ raw_total[t] \in Nat
      /\ DOMAIN worker = Seqs /\ DOMAIN held = Seqs
  BY BufferTypes DEF IInv
<1>2. /\ raw_total'[t] = raw_total[t] /\ stream'[t] = stream[t] /\ raw_pending'[t] = raw_pending[t]
      /\ held'[t].chunk = <<>>
      /\ worker[t] = "write" /\ worker'[t] = IF held[t].eof THEN "newline" ELSE "drain"
  BY <1>1 DEF DrainWrite, WorkerAt, buffers
<1>3. OthersStay(t)
  BY <1>1 DEF OthersStay, SameCommand, DrainWrite, WorkerAt, buffers
<1>4. Buffered(t) /\ EndsWith(t, Printed(t)) /\ worker[t] \in Turn
  BY <1>2 DEF OutputInv, OnConsole, Draining, Turn
<1>5. /\ Printed(t) \in Nat
      /\ stream[t] # "none" /\ (held[t].eof => raw_pending[t] = <<>> /\ stream[t] = "eof")
      /\ \A i \in 1 .. Len(held[t].chunk) : held[t].chunk[i] = Printed(t) + i
  BY <1>2, <1>4 DEF Buffered, Printed
<1>6. Len(held'[t].chunk) = 0
  BY <1>2
<1>7. Printed(t)' = Printed(t) + Len(held[t].chunk) /\ Printed(t)' \in Nat
  <2>1. PICK p \in Nat, c \in Nat, r \in Nat :
          p = Len(raw_pending[t]) /\ c = Len(held[t].chunk) /\ r = raw_total[t]
    BY <1>1
  <2>2. Printed(t) = r - p - c
    BY <2>1 DEF Printed
  <2>3. Printed(t)' = r - p - 0
    BY <1>2, <1>6, <2>1 DEF Printed
  <2>4. p \in Nat /\ c \in Nat /\ r \in Nat
    BY <2>1
  <2>6. r - p - 0 = (r - p - c) + c
    BY <2>4
  <2>5. Printed(t)' = Printed(t) + c
    BY <2>2, <2>3, <2>6
  <2> QED
    BY <1>5, <2>1, <2>5
<1>8. PICK chunk \in Seq(Seqs \X Items) :
        /\ console' = console \o chunk /\ Len(chunk) = Len(held[t].chunk)
        /\ \A i \in 1 .. Len(chunk) : chunk[i] = <<t, held[t].chunk[i]>>
  <2> DEFINE chunk == [i \in 1 .. Len(held[t].chunk) |-> <<t, held[t].chunk[i]>>]
  <2>1. \A i \in 1 .. Len(held[t].chunk) : held[t].chunk[i] \in Items
    BY <1>1 DEF Items
  <2>2. chunk \in [1 .. Len(held[t].chunk) -> Seqs \X Items]
    BY <2>1
  <2>3. /\ console' = console \o chunk
        /\ \A i \in 1 .. Len(held[t].chunk) : chunk[i] = <<t, held[t].chunk[i]>>
    BY DEF DrainWrite
  <2> HIDE DEF chunk
  <2>4. chunk \in Seq(Seqs \X Items) /\ Len(chunk) = Len(held[t].chunk)
    BY <1>1, <2>2, FunctionIsSeq
  <2> QED
    BY <2>3, <2>4
<1>9. \A i \in 1 .. Len(chunk) : chunk[i][1] = t /\ chunk[i][2] = Printed(t) + i
  BY <1>5, <1>8
<1>10. EndsWith(t, Printed(t))'
  <2>1. PICK n, m : n = Printed(t) /\ m = Printed(t)'
    OBVIOUS
  <2>2. n \in Nat /\ EndsWith(t, n) /\ m = n + Len(chunk)
    BY <1>4, <1>5, <1>7, <1>8, <2>1
  <2>3. \A i \in 1 .. Len(chunk) : chunk[i][1] = t /\ chunk[i][2] = n + i
    BY <1>9, <2>1
  <2>4. EndsWith(t, m)'
    BY <1>8, <2>2, <2>3, HolderWrites DEF IInv
  <2> QED
    BY <2>1, <2>4 DEF EndsWith, Pieces
<1>11. OnConsole(t)'
  BY <1>2, <1>10 DEF OnConsole, Waiting, Draining, Over
<1>12. Buffered(t)'
  <2>1. Printed(t)' \in Nat
    BY <1>7
  <2>2. \A i \in 1 .. Len(raw_pending'[t]) :
          raw_pending'[t][i] = raw_total'[t] - Len(raw_pending'[t]) + i
    BY <1>2, <1>4 DEF Buffered
  <2>3. \A i \in 1 .. Len(held'[t].chunk) :
          held'[t].chunk[i] = raw_total'[t] - Len(raw_pending'[t]) - Len(held'[t].chunk) + i
    BY <1>6
  <2>4. worker'[t] \in {"newline", "drain"} /\ (worker'[t] = "newline" <=> held[t].eof)
    BY <1>2
  <2> QED
    BY <1>2, <1>5, <2>1, <2>2, <2>3, <2>4 DEF Buffered, Waiting
<1>13. \A i \in 1 .. Len(chunk) : chunk[i][1] = t
  BY <1>9
<1> QED
  BY <1>3, <1>4, <1>8, <1>11, <1>12, <1>13, WritingStep

LEMMA PrintBannerKeepsOutput ==
  ASSUME ~Silent, IInv, OutputInv, NEW t \in Seqs, PrintBanner(t)
  PROVE  OutputInv'
<1>1. /\ raw_pending[t] \in Seq(Chunks) /\ Len(raw_pending[t]) \in Nat
      /\ held[t].chunk \in Seq(Chunks) /\ Len(held[t].chunk) \in Nat /\ raw_total[t] \in Nat
      /\ DOMAIN worker = Seqs /\ console \in Seq(Seqs \X Items) /\ Len(console) \in Nat
  BY BufferTypes, LenProperties DEF IInv, TypeOK
<1>2. /\ raw_total'[t] = raw_total[t] /\ stream'[t] = stream[t] /\ raw_pending'[t] = raw_pending[t]
      /\ held'[t] = held[t]
      /\ worker[t] = "banner" /\ worker'[t] = IF stream[t] = "none" THEN "newline" ELSE "drain"
      /\ console' = Append(console, <<t, Banner>>)
  BY <1>1 DEF PrintBanner, WorkerAt, buffers
<1>3. OthersStay(t)
  BY <1>1 DEF OthersStay, SameCommand, PrintBanner, WorkerAt, buffers
<1>4. /\ Buffered(t) /\ worker[t] \in Turn /\ \A i \in 1 .. Len(console) : console[i][1] # t
  BY <1>2 DEF OutputInv, OnConsole, Waiting, Turn
<1>5. /\ Len(raw_pending[t]) = raw_total[t] /\ held[t].chunk = <<>>
      /\ stream[t] = "none" => raw_total[t] = 0
  BY <1>2, <1>4 DEF Buffered, Waiting
<1>6. Len(held[t].chunk) = 0 /\ (stream[t] = "none" => raw_pending[t] = <<>>)
  BY <1>1, <1>5, EmptySeq
<1>7. Printed(t)' = 0
  BY <1>1, <1>2, <1>5, <1>6 DEF Printed
<1>8. <<t, Banner>> \in Seqs \X Items
  BY DEF Items
<1>9. /\ Len(console') = Len(console) + 1
      /\ \A i \in 1 .. Len(console) : console'[i] = console[i]
      /\ console'[Len(console) + 1] = <<t, Banner>>
  BY <1>1, <1>2, <1>8, AppendProperties
<1>10. EndsWith(t, 0)'
  <2>1. PICK b \in Nat : b = Len(console)
    BY <1>1
  <2>2. Pieces(t, b, 0 + 1)'
    BY <1>1, <1>4, <1>9, <2>1 DEF Pieces
  <2>3. b + 0 + 1 = Len(console') /\ console'[b + 1][2] = 0
    BY <1>9, <2>1 DEF Banner
  <2>4. \A i \in 1 .. 0 + 1 : console'[b + i][2] = i - 1
    BY <2>3
  <2> QED
    BY <2>2, <2>3, <2>4 DEF EndsWith
<1>11. OnConsole(t)'
  BY <1>2, <1>7, <1>10 DEF OnConsole, Waiting, Draining, Over
<1>12. Buffered(t)'
  <2>1. Printed(t)' = Printed(t)
    BY <1>2 DEF Printed
  <2> QED
    BY <1>2, <1>4, <1>5, <1>6, <2>1 DEF Buffered, Waiting
<1>13. PICK chunk \in Seq(Seqs \X Items) :
         console' = console \o chunk /\ \A i \in 1 .. Len(chunk) : chunk[i][1] = t
  <2> DEFINE chunk == << <<t, Banner>> >>
  <2>1. chunk \in Seq(Seqs \X Items) /\ \A i \in 1 .. Len(chunk) : chunk[i][1] = t
    BY <1>8
  <2>2. console' = console \o chunk
    BY <1>1, <1>2, <1>8, AppendIsConcat
  <2> HIDE DEF chunk
  <2> QED
    BY <2>1, <2>2
<1> QED
  BY <1>3, <1>4, <1>11, <1>12, <1>13, WritingStep

LEMMA PrintNewlineKeepsOutput ==
  ASSUME IInv, OutputInv, NEW t \in Seqs, PrintNewline(t)
  PROVE  OutputInv'
<1>1. /\ raw_total[t] \in Nat
      /\ DOMAIN worker = Seqs /\ console \in Seq(Seqs \X Items) /\ Len(console) \in Nat
  BY BufferTypes, LenProperties DEF IInv, TypeOK
<1>2. /\ raw_total'[t] = raw_total[t] /\ stream'[t] = stream[t] /\ raw_pending'[t] = raw_pending[t]
      /\ held'[t] = held[t]
      /\ worker[t] = "newline" /\ worker'[t] = "release"
      /\ console' = Append(console, <<t, Newline>>)
  BY <1>1 DEF PrintNewline, WorkerAt, buffers
<1>3. OthersStay(t)
  BY <1>1 DEF OthersStay, SameCommand, PrintNewline, WorkerAt, buffers
<1>4. Buffered(t) /\ EndsWith(t, Printed(t)) /\ worker[t] \in Turn
  BY <1>2 DEF OutputInv, OnConsole, Draining, Turn
<1>5. raw_pending[t] = <<>> /\ held[t].chunk = <<>>
  BY <1>2, <1>4 DEF Buffered
<1>6. Printed(t) = raw_total[t]
  BY <1>1, <1>5 DEF Printed
<1>7. <<t, Newline>> \in Seqs \X Items
  BY DEF Items
<1>8. /\ Len(console') = Len(console) + 1
      /\ \A i \in 1 .. Len(console) : console'[i] = console[i]
      /\ console'[Len(console) + 1] = <<t, Newline>>
  BY <1>1, <1>2, <1>7, AppendProperties
<1>9. Complete(t)'
  <2>1. PICK b \in Nat :
          /\ Pieces(t, b, raw_total[t] + 1) /\ b + raw_total[t] + 1 = Len(console)
          /\ \A i \in 1 .. raw_total[t] + 1 : console[b + i][2] = i - 1
    BY <1>4, <1>6 DEF EndsWith
  <2>2. Pieces(t, b, raw_total[t] + 2)'
    <3>1. \A i \in 1 .. Len(console) : console[i][1] = t <=> b < i
      BY <1>1, <2>1 DEF Pieces
    <3>2. b + (raw_total'[t] + 2) = Len(console')
      BY <1>1, <1>2, <1>8, <2>1
    <3>3. \A i \in 1 .. Len(console') : console'[i][1] = t <=> b < i /\ i <= b + (raw_total'[t] + 2)
      BY <1>1, <1>2, <1>8, <2>1, <3>1, <3>2
    <3> QED
      BY <3>2, <3>3 DEF Pieces
  <2>3. \A i \in 1 .. raw_total[t] + 1 : b + i \in 1 .. Len(console)
    BY <1>1, <2>1
  <2>4. b + raw_total[t] + 2 = Len(console) + 1
    BY <1>1, <2>1
  <2>5. /\ Pieces(t, b, raw_total[t] + 2)'
        /\ \A i \in 1 .. raw_total'[t] + 1 : console'[b + i][2] = i - 1
        /\ console'[b + raw_total'[t] + 2][2] = Newline
    BY <1>2, <1>8, <2>1, <2>2, <2>3, <2>4
  <2> QED
    BY <1>2, <2>5 DEF Complete, Newline
<1>10. OnConsole(t)'
  BY <1>2, <1>9 DEF OnConsole, Waiting, Draining, Over
<1>11. Buffered(t)'
  <2>1. Printed(t)' = Printed(t)
    BY <1>2 DEF Printed
  <2> QED
    BY <1>2, <1>4, <1>5, <2>1 DEF Buffered, Waiting
<1>12. PICK chunk \in Seq(Seqs \X Items) :
         console' = console \o chunk /\ \A i \in 1 .. Len(chunk) : chunk[i][1] = t
  <2> DEFINE chunk == << <<t, Newline>> >>
  <2>1. chunk \in Seq(Seqs \X Items) /\ \A i \in 1 .. Len(chunk) : chunk[i][1] = t
    BY <1>7
  <2>2. console' = console \o chunk
    BY <1>1, <1>2, <1>7, AppendIsConcat
  <2> HIDE DEF chunk
  <2> QED
    BY <2>1, <2>2
<1> QED
  BY <1>3, <1>4, <1>10, <1>11, <1>12, WritingStep

(* Steps that leave console and buffered chunks alone.                     *)
LEMMA OtherStepsKeepOutput ==
  ASSUME ~Silent, IInv, OutputInv, NEW t \in Seqs,
         \/ Unspawned(t) /\ Open(t)
         \/ Unqueued(t) /\ Enqueue(t)
         \/ PtyEof(t) \/ SleepForTurn(t) \/ TakeTurn(t) \/ Starve(t) \/ Release(t) \/ SpuriousWake(t)
  PROVE  OutputInv'
<1>1. DOMAIN worker = Seqs /\ DOMAIN stream = Seqs
  BY BufferTypes DEF IInv
<1>2. Buffered(t)
  BY DEF OutputInv
<1>3. /\ raw_total' = raw_total /\ raw_pending' = raw_pending /\ held' = held /\ console' = console
      /\ OthersStay(t)
  BY <1>1 DEF OthersStay, SameCommand, Open, Enqueue, PtyEof, NotifyDrainer, SleepForTurn, TakeTurn,
     Starve, Release, SpuriousWake, WorkerAt, buffers
<1>4. Printed(t)' = Printed(t)
  BY <1>3 DEF Printed
<1>5. /\ worker'[t] \in Waiting => worker[t] \in Waiting
      /\ worker'[t] \in Draining => worker[t] \in Draining
      /\ worker'[t] \in Over => worker[t] \in Over
  BY <1>1 DEF Waiting, Draining, Over, Unspawned, Unqueued, Open, Enqueue, PtyEof, NotifyDrainer, SleepForTurn, TakeTurn,
     Starve, Release, SpuriousWake, WorkerAt
<1>6. Buffered(t)'
  <2>1. CASE Unspawned(t) /\ Open(t)
    BY <1>1, <1>2, <1>3, <1>4, <2>1 DEF Unspawned, Unqueued, Open, Buffered, Waiting
  <2>2. CASE (Unqueued(t) /\ Enqueue(t)) \/ SleepForTurn(t) \/ TakeTurn(t)
    BY <1>1, <1>2, <1>3, <1>4, <2>2
    DEF Unqueued, Enqueue, SleepForTurn, TakeTurn, WorkerAt, buffers, Buffered, Waiting
  <2>3. CASE PtyEof(t)
    BY <1>1, <1>2, <1>3, <1>4, <2>3 DEF PtyEof, NotifyDrainer, Buffered, Waiting
  <2>4. CASE Starve(t) \/ SpuriousWake(t)
    BY <1>1, <1>2, <1>3, <1>4, <2>4 DEF Starve, SpuriousWake, WorkerAt, buffers, Buffered, Waiting
  <2>5. CASE Release(t)
    BY <1>1, <1>2, <1>3, <1>4, <2>5 DEF Release, buffers, Buffered, Waiting
  <2> QED
    BY <2>1, <2>2, <2>3, <2>4, <2>5
<1> QED
  BY <1>3, <1>4, <1>5, <1>6, SilentStep

LEMMA InitOutput == Init => OutputInv
<1> SUFFICES ASSUME Init, NEW s \in Seqs PROVE Buffered(s) /\ OnConsole(s)
  BY DEF OutputInv
<1>1. /\ raw_pending[s] = <<>> /\ held[s].chunk = <<>> /\ raw_total[s] = 0 /\ stream[s] = "none"
      /\ worker[s] = "unborn" /\ console = <<>>
  BY DEF Init
<1>2. Len(raw_pending[s]) = 0 /\ Len(held[s].chunk) = 0
  BY <1>1
<1>3. Printed(s) = 0
  <2>1. raw_total[s] = 0
    BY <1>1
  <2> QED
    BY <1>2, <2>1 DEF Printed
<1> QED
  BY <1>1, <1>2, <1>3 DEF Buffered, OnConsole, Waiting, Draining, Over

LEMMA NextOutput == ~Silent /\ IInv /\ OutputInv /\ [Next]_vars => OutputInv'
<1> SUFFICES ASSUME ~Silent, IInv, OutputInv, [Next]_vars PROVE OutputInv'
  OBVIOUS
<1>1. CASE UNCHANGED vars \/ Arrive
  <2>1. \A s \in Seqs : SameCommand(s) /\ console' = console
    BY <1>1 DEF vars, buffers, Arrive, SameCommand
  <2> QED
    BY <2>1, SameBuffered, SameOnConsole DEF OutputInv
<1> QED
  BY <1>1, OtherStepsKeepOutput, PtyReadKeepsOutput, DrainTakeKeepsOutput, DrainWriteKeepsOutput,
     PrintBannerKeepsOutput, PrintNewlineKeepsOutput
  DEF Next, Worker

LEMMA ShownItems ==
  ASSUME TypeOK, NEW s \in Seqs
  PROVE  /\ Len(Shown(s)) = raw_total[s] + 2
         /\ \A i \in 1 .. raw_total[s] + 1 : Shown(s)[i] = i - 1
         /\ Shown(s)[raw_total[s] + 2] = Newline
<1>1. PICK r \in Nat : r = raw_total[s]
  BY BufferTypes
<1>2. PICK chunks \in Seq(Nat) :
        /\ Shown(s) = <<Banner>> \o chunks \o <<Newline>>
        /\ Len(chunks) = r /\ \A i \in 1 .. r : chunks[i] = i
  <2> DEFINE chunks == [i \in 1 .. r |-> i]
  <2>1. chunks \in [1 .. r -> Nat] /\ \A i \in 1 .. r : chunks[i] = i
    OBVIOUS
  <2>2. Shown(s) = <<Banner>> \o chunks \o <<Newline>>
    BY <1>1 DEF Shown
  <2> HIDE DEF chunks
  <2>3. chunks \in Seq(Nat) /\ Len(chunks) = r
    BY <2>1, FunctionIsSeq
  <2> QED
    BY <2>1, <2>2, <2>3
<1>3. PICK left \in Seq(Nat) : left = <<Banner>> \o chunks
  <2>1. <<Banner>> \in Seq(Nat)
    BY DEF Banner
  <2>2. <<Banner>> \o chunks \in Seq(Nat)
    BY <2>1, ConcatProperties
  <2> QED
    BY <2>2
<1>4. /\ Len(left) = r + 1
      /\ left[1] = Banner
      /\ \A i \in 2 .. r + 1 : left[i] = i - 1
  <2>1. <<Banner>> \in Seq(Nat) /\ Len(<<Banner>>) = 1 /\ <<Banner>>[1] = Banner
    BY DEF Banner
  <2> QED
    BY <1>2, <1>3, <2>1, ConcatProperties
<1>5. /\ Len(Shown(s)) = r + 2
      /\ \A i \in 1 .. r + 1 : Shown(s)[i] = left[i]
      /\ Shown(s)[r + 2] = Newline
  <2>1. <<Newline>> \in Seq(Nat) /\ Len(<<Newline>>) = 1 /\ <<Newline>>[1] = Newline
    BY PrintQueueAssumption DEF Newline
  <2>2. Shown(s) = left \o <<Newline>>
    BY <1>2, <1>3
  <2> QED
    BY <1>4, <2>1, <2>2, ConcatProperties
<1>6. \A i \in 1 .. r + 1 : left[i] = i - 1
  BY <1>4 DEF Banner
<1> QED
  BY <1>1, <1>5, <1>6

(* Whatever the interleaving of reader, drainer and the other commands:    *)
(* when a command gives back its turn, the console shows its banner, every *)
(* chunk its PTY produced, once and in order, and the newline, in one      *)
(* piece (PtyBuffer::drain_to_stdout, queue_console_output, host.rs).      *)
THEOREM ConsoleAlwaysComplete == Spec => []ConsoleComplete
<1>1. Spec => [](~Silent => OutputInv)
  <2>1. Init => (~Silent => OutputInv)
    BY InitOutput
  <2>2. IInv /\ (~Silent => OutputInv) /\ [Next]_vars => (~Silent => OutputInv)'
    BY NextOutput
  <2> QED
    BY <2>1, <2>2, IInvInvariant, PTL DEF Spec
<1>2. IInv /\ (~Silent => OutputInv) => ConsoleComplete
  <2> SUFFICES ASSUME IInv, ~Silent, OutputInv, NEW s \in Seqs, worker[s] \in {"release", "done"}
               PROVE  \E b \in 0 .. Len(console) :
                        /\ ShownAt(s) = b + 1 .. b + Len(Shown(s))
                        /\ \A i \in 1 .. Len(Shown(s)) : console[b + i][2] = Shown(s)[i]
    BY DEF ConsoleComplete
  <2>1. TypeOK /\ Complete(s)
    BY DEF IInv, OutputInv, OnConsole, Over
  <2>2. PICK r \in Nat : r = raw_total[s]
    BY <2>1, BufferTypes
  <2>3. PICK b \in Nat :
          /\ Pieces(s, b, r + 2)
          /\ \A i \in 1 .. r + 1 : console[b + i][2] = i - 1
          /\ console[b + r + 2][2] = Newline
    BY <2>1, <2>2 DEF Complete
  <2>4. /\ Len(Shown(s)) = r + 2
        /\ \A i \in 1 .. r + 1 : Shown(s)[i] = i - 1
        /\ Shown(s)[r + 2] = Newline
    BY <2>1, <2>2, ShownItems
  <2>5. Len(console) \in Nat /\ b \in 0 .. Len(console)
    <3>1. Len(console) \in Nat
      BY <2>1, LenProperties DEF TypeOK
    <3> QED
      BY <2>3, <3>1 DEF Pieces
  <2>6. ShownAt(s) = b + 1 .. b + (r + 2)
    BY <2>3, <2>5 DEF Pieces, ShownAt
  <2>7. \A i \in 1 .. r + 2 : console[b + i][2] = Shown(s)[i]
    <3> SUFFICES ASSUME NEW i \in 1 .. r + 2 PROVE console[b + i][2] = Shown(s)[i]
      OBVIOUS
    <3>1. CASE i \in 1 .. r + 1
      BY <2>3, <2>4, <3>1
    <3>2. CASE i = r + 2
      <4>1. b + i = b + r + 2
        BY <3>2
      <4> QED
        BY <2>3, <2>4, <3>2, <4>1
    <3> QED
      BY <3>1, <3>2
  <2> QED
    BY <2>4, <2>5, <2>6, <2>7
<1> QED
  BY <1>1, <1>2, IInvInvariant, PTL
=============================================================================
