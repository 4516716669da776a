---------------------------- MODULE CommandProofs ----------------------------
(***************************************************************************)
(* Proofs about Command, for any number of commands and aborts on one      *)
(* connection and whatever the commands do.                                *)
(***************************************************************************)
EXTENDS Command, SequenceTheorems, TLAPS

(* The handler works on a command.                                         *)
Active == {"join", "cancel", "join_timer", "join_watcher", "wait", "reply"}

ClientStep == SendBody \/ SendNewline \/ Interrupted \/ CutShort \/ SendAbort \/ Leave

LEMMA NextCases ==
  Next <=> ClientStep \/ Acts \/ PtyEof \/ Timer \/ Watcher \/ Handler
BY DEF Next, ClientStep

(* What a read leaves of the socket.                                       *)
LEMMA ReadLeaves ==
  ASSUME inbox \in Seq(Pieces), NEW n \in 1 .. Len(inbox), ReadLine(n)
  PROVE  /\ inbox' \in Seq(Pieces)
         /\ Len(inbox') = Len(inbox) - n
         /\ \A i \in 1 .. Len(inbox') : i + n \in 1 .. Len(inbox) /\ inbox'[i] = inbox[i + n]
<1>1. inbox' = SubSeq(inbox, n + 1, Len(inbox)) /\ Len(inbox) \in Nat
  BY LenProperties DEF ReadLine
<1>2. \A i \in n + 1 .. Len(inbox) : inbox[i] \in Pieces
  BY <1>1, ElementOfSeq
<1> QED
  BY <1>1, <1>2, SubSeqProperties

(* A line that is a request is one piece, or two.                          *)
LEMMA RequestLine ==
  ASSUME inbox \in Seq(Pieces), NEW n \in 1 .. Len(inbox), Kind(Line(n)) = "request"
  PROVE  inbox[1] = "body" /\ (n = 1 \/ (n = 2 /\ inbox[2] = "nl"))
<1>1. Len(inbox) \in Nat
  BY LenProperties
<1>2. Line(n) \in {<<"body">>, <<"body", "nl">>}
  BY DEF Kind
<1>3. Len(Line(n)) = n /\ \A i \in 1 .. n : Line(n)[i] = inbox[i]
  BY <1>1, SubSeqProperties, ElementOfSeq DEF Line
<1>4. CASE Line(n) = <<"body">>
  BY <1>3, <1>4
<1>5. CASE Line(n) = <<"body", "nl">>
  BY <1>3, <1>5
<1> QED
  BY <1>2, <1>4, <1>5

-----------------------------------------------------------------------------
(* The variables keep their types: those of host, command, client and      *)
(* history.                                                                *)
HostTypes ==
  /\ handler \in HandlerStates /\ timer \in TimerStates /\ watcher \in WatcherStates
  /\ cancelled \in BOOLEAN /\ command_finished \in BOOLEAN
  /\ reader \in {"open", "eof"}

CommandTypes ==
  /\ child \in {"none", "starting", "running", "zombie", "reaped"}
  /\ holders \subseteq {"leader", "group", "outside"}
  /\ immune \in BOOLEAN
  /\ errno \in {"none", "chdir", "exec"}

ClientTypes ==
  /\ inbox \in Seq(Pieces) /\ writing \in {"none", "body", "half"}
  /\ awaiting \in BOOLEAN /\ left \in BOOLEAN
  /\ tag \in {"none", "not_found", "timeout", "aborted"}
  /\ sent \in 0 .. MaxCmds /\ aborts \in 0 .. MaxAborts
  /\ interrupted \in BOOLEAN

HistoryTypes == signalled \in BOOLEAN /\ stray \in BOOLEAN

LEMMA Types == TypeOK <=> HostTypes /\ CommandTypes /\ ClientTypes /\ HistoryTypes
BY DEF TypeOK, HostTypes, CommandTypes, ClientTypes, HistoryTypes

(* The variables keep their types, whatever the client writes and the      *)
(* command does.                                                           *)
THEOREM TypeCorrect == Spec => []TypeOK
<1>1. Init => TypeOK
  <2> SUFFICES ASSUME Init PROVE TypeOK
    OBVIOUS
  <2>1. HostTypes
    BY DEF Init, HostTypes, HandlerStates, TimerStates, WatcherStates
  <2>2. CommandTypes /\ HistoryTypes
    BY DEF Init, CommandTypes, HistoryTypes
  <2>3. inbox \in Seq(Pieces) /\ sent \in 0 .. MaxCmds /\ aborts \in 0 .. MaxAborts
    BY CommandAssumption DEF Init
  <2>4. ClientTypes
    BY <2>3 DEF Init, ClientTypes
  <2> QED
    BY <2>1, <2>2, <2>4, Types
<1>2. TypeOK /\ [Next]_vars => TypeOK'
  <2> SUFFICES ASSUME TypeOK, [Next]_vars PROVE TypeOK'
    OBVIOUS
  <2>0. HostTypes /\ CommandTypes /\ ClientTypes /\ HistoryTypes
    BY Types
  <2>1. HostTypes'
    <3> USE <2>0 DEF HostTypes, HandlerStates, TimerStates, WatcherStates
    <3>1. CASE ClientStep \/ Acts \/ UNCHANGED vars
      BY <3>1 DEF ClientStep, SendBody, SendNewline, Interrupted, CutShort, SendAbort, Leave,
                  Acts, Starts, StartFails, Forks, Detaches, Exits, HolderEnds, vars, host
    <3>2. CASE PtyEof
      BY <3>2 DEF PtyEof
    <3>3. CASE Timer
      BY <3>3 DEF Timer, TimerExpires, TimerCancelled, TimerTerm, TimerKill
    <3>4. CASE Watcher
      BY <3>4 DEF Watcher, WatchCheck, WatchEof, WatchLine, WatchTimeout, WatchTerm, WatchKill, Watch
    <3>5. CASE Spawn \/ IgnoreLine \/ RefuseLine
      BY <3>5 DEF Spawn, IgnoreLine, RefuseLine, Goto, host
    <3>6. CASE Handler
      BY <3>5, <3>6 DEF Handler, ReadEof, JoinReader, CancelTimer, JoinTimer, JoinWatcher, Wait,
                        Reply, Goto
    <3> QED
      BY <3>1, <3>2, <3>3, <3>4, <3>6, NextCases
  <2>2. CommandTypes'
    <3> USE <2>0 DEF CommandTypes, command
    <3>1. CASE ClientStep \/ UNCHANGED vars
      BY <3>1 DEF ClientStep, SendBody, SendNewline, Interrupted, CutShort, SendAbort, Leave, vars
    <3>2. CASE Acts \/ PtyEof
      BY <3>2 DEF Acts, Starts, StartFails, Forks, Detaches, Exits, HolderEnds, PtyEof
    <3>3. CASE Timer
      BY <3>3 DEF Timer, TimerExpires, TimerCancelled, TimerTerm, TimerKill, Terminate, Kill
    <3>4. CASE Watcher
      BY <3>4 DEF Watcher, WatchCheck, WatchEof, WatchLine, WatchTimeout, WatchTerm, WatchKill,
                  Terminate, Kill
    <3>5. CASE Handler
      BY <3>5 DEF Handler, Spawn, IgnoreLine, RefuseLine, ReadEof, JoinReader, CancelTimer,
                  JoinTimer, JoinWatcher, Wait, Reply
    <3> QED
      BY <3>1, <3>2, <3>3, <3>4, <3>5, NextCases
  <2>3. ClientTypes'
    <3> USE <2>0, CommandAssumption DEF ClientTypes, client
    <3>p. {"body", "part", "nl", "abort", "half"} \subseteq Pieces
      BY DEF Pieces
    <3>1. CASE ClientStep
      <4>1. CASE SendBody
        BY <3>p, <4>1 DEF SendBody
      <4>2. CASE SendNewline
        BY <3>p, <4>2 DEF SendNewline
      <4>3. CASE Interrupted
        BY <3>p, <4>3 DEF Interrupted
      <4>4. CASE CutShort
        BY <3>p, <4>4, SMTT(30) DEF CutShort
      <4>5. CASE SendAbort
        BY <3>p, <4>5 DEF SendAbort
      <4>6. CASE Leave
        BY <4>6 DEF Leave
      <4> QED
        BY <3>1, <4>1, <4>2, <4>3, <4>4, <4>5, <4>6 DEF ClientStep
    <3>2. CASE Acts \/ PtyEof \/ UNCHANGED vars
      BY <3>2 DEF Acts, Starts, StartFails, Forks, Detaches, Exits, HolderEnds, PtyEof, vars
    <3>3. CASE Timer
      BY <3>3 DEF Timer, TimerExpires, TimerCancelled, TimerTerm, TimerKill
    <3>4. CASE WatchLine \/ Spawn \/ IgnoreLine \/ RefuseLine
      <4>1. inbox' \in Seq(Pieces)
        BY <3>4, ReadLeaves DEF WatchLine, Spawn, IgnoreLine, RefuseLine
      <4> QED
        BY <3>4, <4>1 DEF WatchLine, Spawn, IgnoreLine, RefuseLine
    <3>5. CASE WatchTimeout
      <4>1. inbox' \in Seq(Pieces)
        BY <3>5 DEF WatchTimeout
      <4> QED
        BY <3>5, <4>1 DEF WatchTimeout
    <3>6. CASE Watcher
      BY <3>4, <3>5, <3>6 DEF Watcher, WatchCheck, WatchEof, WatchTerm, WatchKill
    <3>7. CASE Handler
      BY <3>4, <3>7 DEF Handler, ReadEof, JoinReader, CancelTimer, JoinTimer, JoinWatcher, Wait,
                        Reply, ErrorTag
    <3> QED
      BY <3>1, <3>2, <3>3, <3>6, <3>7, NextCases
  <2>4. HistoryTypes'
    <3> USE <2>0 DEF HistoryTypes, history
    <3>1. CASE ClientStep \/ UNCHANGED vars
      BY <3>1 DEF ClientStep, SendBody, SendNewline, Interrupted, CutShort, SendAbort, Leave, vars
    <3>2. CASE Acts \/ PtyEof
      BY <3>2 DEF Acts, Starts, StartFails, Forks, Detaches, Exits, HolderEnds, PtyEof
    <3>3. CASE Timer
      BY <3>3 DEF Timer, TimerExpires, TimerCancelled, TimerTerm, TimerKill, Terminate, Kill, Stray
    <3>4. CASE Watcher
      BY <3>4 DEF Watcher, WatchCheck, WatchEof, WatchLine, WatchTimeout, WatchTerm, WatchKill,
                  Terminate, Kill, Stray
    <3>5. CASE Handler
      BY <3>5 DEF Handler, Spawn, IgnoreLine, RefuseLine, ReadEof, JoinReader, CancelTimer,
                  JoinTimer, JoinWatcher, Wait, Reply
    <3> QED
      BY <3>1, <3>2, <3>3, <3>4, <3>5, NextCases
  <2> QED
    BY <2>1, <2>2, <2>3, <2>4 DEF TypeOK, HostTypes, CommandTypes, ClientTypes, HistoryTypes
<1> QED
  BY <1>1, <1>2, PTL DEF Spec

-----------------------------------------------------------------------------
(* Which threads may still be at work, by how far the handler is.          *)
Joined ==
  /\ handler \notin {"join", "cancel", "join_timer"} => timer \in {"off", "fired", "quit"}
  /\ handler \notin Active \ {"wait", "reply"} => watcher \in {"none", "aborted", "quit"}
  /\ child = "reaped" => handler \in {"reply", "idle", "returned"}

(* A signal leaves its trace in the thread that sent it.                   *)
Traced == signalled => timer \in {"grace", "fired"} \/ watcher \in {"grace", "aborted"}

SignalInv == Joined /\ ~stray /\ Traced /\ NoSilentKill

LEMMA SignalsAccounted == Spec => []SignalInv
<1>1. Init => SignalInv
  BY DEF Init, SignalInv, Joined, Traced, NoSilentKill
<1>2. TypeOK /\ SignalInv /\ [Next]_vars => SignalInv'
  <2> SUFFICES ASSUME TypeOK, SignalInv, [Next]_vars PROVE SignalInv'
    OBVIOUS
  <2> USE DEF SignalInv, Joined, Traced, NoSilentKill, Active, host, command, client, history
  <2>1. CASE UNCHANGED vars
    BY <2>1 DEF vars
  <2>2. CASE ClientStep
    BY <2>2 DEF ClientStep, SendBody, SendNewline, Interrupted, CutShort, SendAbort, Leave
  <2>3. CASE Acts
    BY <2>3 DEF Acts, Starts, StartFails, Forks, Detaches, Exits, HolderEnds
  <2>4. CASE PtyEof
    BY <2>4 DEF PtyEof
  <2>5. CASE Timer
    <3>1. CASE TimerExpires \/ TimerCancelled
      BY <3>1 DEF TimerExpires, TimerCancelled
    <3>2. CASE TimerTerm
      BY <3>2 DEF TimerTerm, Terminate, Stray
    <3>3. CASE TimerKill
      BY <3>3 DEF TimerKill, Kill, Stray
    <3> QED
      BY <2>5, <3>1, <3>2, <3>3 DEF Timer
  <2>6. CASE Watcher
    <3>1. CASE WatchCheck \/ WatchEof \/ WatchTimeout
      BY <3>1 DEF WatchCheck, WatchEof, WatchTimeout, Watch
    <3>2. CASE WatchLine
      BY <3>2 DEF WatchLine, Watch
    <3>3. CASE WatchTerm
      BY <3>3 DEF WatchTerm, Watch, Terminate, Stray
    <3>4. CASE WatchKill
      BY <3>4 DEF WatchKill, Watch, Kill, Stray
    <3> QED
      BY <2>6, <3>1, <3>2, <3>3, <3>4 DEF Watcher
  <2>7. CASE Handler
    <3>1. CASE Spawn
      BY <3>1 DEF Spawn, Goto
    <3>2. CASE IgnoreLine \/ RefuseLine \/ ReadEof
      BY <3>2 DEF IgnoreLine, RefuseLine, ReadEof, Goto
    <3>3. CASE JoinReader \/ CancelTimer \/ JoinTimer \/ JoinWatcher \/ Wait
      BY <3>3 DEF JoinReader, CancelTimer, JoinTimer, JoinWatcher, Wait, Goto
    <3>4. CASE Reply
      BY <3>4 DEF Reply, ErrorTag, Goto
    <3> QED
      BY <2>7, <3>1, <3>2, <3>3, <3>4 DEF Handler
  <2> QED
    BY <2>1, <2>2, <2>3, <2>4, <2>5, <2>6, <2>7, NextCases
<1> QED
  BY <1>1, <1>2, TypeCorrect, PTL DEF Spec

(* No thread of the host ever signals a pid that the handler has reaped:   *)
(* the handler joins timer and watcher before waitpid.                     *)
THEOREM NeverStray == Spec => []NoStraySignal
<1>1. SignalInv => NoStraySignal
  BY DEF SignalInv, NoStraySignal
<1> QED
  BY <1>1, SignalsAccounted, PTL

(* A command that the host signalled has an error in its response: the     *)
(* thread that signalled has said so to the handler, which joined it.      *)
THEOREM NeverSilentlyKilled == Spec => []NoSilentKill
<1>1. SignalInv => NoSilentKill
  BY DEF SignalInv
<1> QED
  BY <1>1, SignalsAccounted, PTL

-----------------------------------------------------------------------------
(* There is one request in the socket at a time, and none while the host   *)
(* works on one, or when the client does not wait.                         *)
OneRequest ==
  /\ \A i, j \in 1 .. Len(inbox) : inbox[i] = "body" /\ inbox[j] = "body" => i = j
  /\ ~awaiting \/ handler \in Active => \A i \in 1 .. Len(inbox) : inbox[i] # "body"
  /\ handler \in Active => awaiting

(* A request that lacks its newline is last in the socket, and not read.   *)
Unfinished ==
  writing = "body" /\ ~left =>
    /\ handler \notin Active
    /\ \A i \in 1 .. Len(inbox) : inbox[i] = "body" => i = Len(inbox)

(* One that was cut off never gets a line of its own.                      *)
CutOff ==
  interrupted =>
    /\ left /\ handler \notin Active
    /\ \A i \in 1 .. Len(inbox) : inbox[i] = "body" => i < Len(inbox) /\ inbox[i + 1] = "abort"

RequestInv == OneRequest /\ Unfinished /\ CutOff

(* Reading on, and going where no command is worked on, keeps them.        *)
LEMMA ReadKeeps ==
  ASSUME TypeOK, RequestInv, NEW n \in 1 .. Len(inbox), ReadLine(n),
         UNCHANGED <<writing, awaiting, left, interrupted>>,
         handler' \in Active => handler \in Active
  PROVE  RequestInv'
<1>1. inbox \in Seq(Pieces) /\ Len(inbox) \in Nat
  BY LenProperties DEF TypeOK
<1>2. /\ Len(inbox') = Len(inbox) - n
      /\ \A i \in 1 .. Len(inbox') : i + n \in 1 .. Len(inbox) /\ inbox'[i] = inbox[i + n]
  BY <1>1, ReadLeaves
<1>3. OneRequest'
  <2>1. ASSUME NEW i \in 1 .. Len(inbox'), NEW j \in 1 .. Len(inbox'),
               inbox'[i] = "body", inbox'[j] = "body"
        PROVE  i = j
    BY <1>1, <1>2, <2>1 DEF RequestInv, OneRequest
  <2>2. ASSUME ~awaiting' \/ handler' \in Active, NEW i \in 1 .. Len(inbox')
        PROVE  inbox'[i] # "body"
    BY <1>1, <1>2, <2>2 DEF RequestInv, OneRequest
  <2>3. handler' \in Active => awaiting'
    BY DEF RequestInv, OneRequest
  <2> QED
    BY <2>1, <2>2, <2>3 DEF OneRequest
<1>4. Unfinished'
  BY <1>1, <1>2 DEF RequestInv, Unfinished
<1>5. CutOff'
  <2> SUFFICES ASSUME interrupted'
               PROVE  /\ left' /\ handler' \notin Active
                      /\ \A i \in 1 .. Len(inbox') :
                           inbox'[i] = "body" => i < Len(inbox') /\ inbox'[i + 1] = "abort"
    BY DEF CutOff
  <2>1. left' /\ handler' \notin Active
    BY DEF RequestInv, CutOff
  <2>2. ASSUME NEW i \in 1 .. Len(inbox'), inbox'[i] = "body"
        PROVE  i < Len(inbox') /\ inbox'[i + 1] = "abort"
    <3>1. i + n < Len(inbox) /\ inbox[i + n + 1] = "abort"
      BY <1>1, <1>2, <2>2 DEF RequestInv, CutOff
    <3>2. i + 1 \in 1 .. Len(inbox') /\ (i + 1) + n = i + n + 1
      BY <1>1, <1>2, <3>1
    <3> QED
      BY <1>1, <1>2, <3>1, <3>2
  <2> QED
    BY <2>1, <2>2
<1> QED
  BY <1>3, <1>4, <1>5 DEF RequestInv

LEMMA RequestsAccounted == Spec => []RequestInv
<1>1. Init => RequestInv
  BY DEF Init, RequestInv, OneRequest, Unfinished, CutOff, Active
<1>2. TypeOK /\ SignalInv /\ RequestInv /\ [Next]_vars => RequestInv'
  <2> SUFFICES ASSUME TypeOK, SignalInv, RequestInv, [Next]_vars PROVE RequestInv'
    OBVIOUS
  <2>0. inbox \in Seq(Pieces) /\ Len(inbox) \in Nat
    BY LenProperties DEF TypeOK
  <2>1. CASE UNCHANGED <<handler, inbox, writing, awaiting, left, interrupted>>
    BY <2>1 DEF RequestInv, OneRequest, Unfinished, CutOff
  <2>2. CASE ClientStep
    <3> USE <2>0 DEF RequestInv, OneRequest, Unfinished, CutOff, host
    <3>1. CASE SendBody
      BY <3>1 DEF SendBody
    <3>2. CASE SendNewline
      BY <3>2 DEF SendNewline
    <3>3. CASE Interrupted
      BY <3>3 DEF Interrupted
    <3>4. CASE CutShort
      <4>1. ~awaiting /\ awaiting' /\ left' /\ UNCHANGED handler
        BY <3>4 DEF CutShort
      <4>2. \A i \in 1 .. Len(inbox') : inbox'[i] # "body"
        <5>1. \A i \in 1 .. Len(inbox) : inbox[i] # "body"
          BY <4>1
        <5>2. CASE inbox' = Append(inbox, "part")
          BY <5>1, <5>2
        <5>3. CASE inbox' = inbox \o <<"part", "abort">>
          BY <5>1, <5>3
        <5> QED
          BY <3>4, <5>2, <5>3 DEF CutShort
      <4> QED
        BY <4>1, <4>2
    <3>5. CASE SendAbort
      BY <3>5 DEF SendAbort
    <3>6. CASE Leave
      BY <3>6 DEF Leave
    <3> QED
      BY <2>2, <3>1, <3>2, <3>3, <3>4, <3>5, <3>6 DEF ClientStep
  <2>3. CASE Acts \/ PtyEof \/ Timer \/ UNCHANGED vars
    BY <2>1, <2>3 DEF Acts, Starts, StartFails, Forks, Detaches, Exits, HolderEnds, PtyEof,
                      Timer, TimerExpires, TimerCancelled, TimerTerm, TimerKill, vars, host, client
  <2>4. CASE Watcher
    <3>1. CASE WatchLine
      BY <3>1, ReadKeeps DEF WatchLine
    <3>2. CASE WatchTimeout
      BY <3>2, <2>0 DEF WatchTimeout, RequestInv, OneRequest, Unfinished, CutOff
    <3> QED
      BY <2>1, <2>4, <3>1, <3>2 DEF Watcher, WatchCheck, WatchEof, WatchTerm, WatchKill, client
  <2>5. CASE Handler
    <3>1. CASE Spawn
      <4>1. PICK n \in 1 .. Len(inbox) : ReadLine(n) /\ Kind(Line(n)) = "request"
        BY <3>1 DEF Spawn
      <4>2. inbox[1] = "body" /\ (n = 1 \/ (n = 2 /\ inbox[2] = "nl"))
        BY <4>1, <2>0, RequestLine
      <4>3. /\ Len(inbox') = Len(inbox) - n
            /\ \A i \in 1 .. Len(inbox') : i + n \in 1 .. Len(inbox) /\ inbox'[i] = inbox[i + n]
        BY <4>1, <2>0, ReadLeaves
      <4>4. handler = "idle" /\ handler' = "join" /\ UNCHANGED <<writing, awaiting, left, interrupted>>
        BY <3>1 DEF Spawn, Goto
      <4>5. OneRequest'
        BY <2>0, <4>2, <4>3, <4>4 DEF RequestInv, OneRequest
      <4>6. left \/ n = 2
        BY <2>0, <4>1, <4>2 DEF ReadLine, EndsLine
      <4>7. Unfinished'
        BY <2>0, <4>2, <4>4, <4>6 DEF RequestInv, Unfinished
      <4>8. ~interrupted
        BY <2>0, <4>1, <4>2 DEF RequestInv, CutOff, ReadLine, EndsLine
      <4> QED
        BY <4>4, <4>5, <4>7, <4>8 DEF RequestInv, CutOff
    <3>2. CASE IgnoreLine \/ RefuseLine
      BY <3>2, ReadKeeps DEF IgnoreLine, RefuseLine, host, Active
    <3>3. CASE ReadEof \/ Reply
      BY <3>3, <2>0 DEF ReadEof, Reply, Goto, client, RequestInv, OneRequest, Unfinished, CutOff, Active
    <3>4. CASE JoinReader \/ CancelTimer \/ JoinTimer \/ JoinWatcher \/ Wait
      BY <3>4, <2>0 DEF JoinReader, CancelTimer, JoinTimer, JoinWatcher, Wait, Goto, client,
                        RequestInv, OneRequest, Unfinished, CutOff, Active
    <3> QED
      BY <2>5, <3>1, <3>2, <3>3, <3>4 DEF Handler
  <2> QED
    BY <2>2, <2>3, <2>4, <2>5, NextCases
<1> QED
  BY <1>1, <1>2, TypeCorrect, SignalsAccounted, PTL DEF Spec

(* The watcher reads only while the handler works on a request; and then   *)
(* no other request is in the socket.                                      *)
THEOREM RequestsNeverSwallowed == Spec => []NoRequestSwallowed
<1>1. SignalInv /\ RequestInv => NoRequestSwallowed
  BY DEF SignalInv, Joined, RequestInv, OneRequest, NoRequestSwallowed, Active
<1> QED
  BY <1>1, SignalsAccounted, RequestsAccounted, PTL

(* What an interrupted client leaves in the socket is never a request of   *)
(* its own, whatever was there before and however the lines are read.      *)
THEOREM InterruptedNeverRun == Spec => []InterruptedNeverRuns
<1>1. TypeOK /\ RequestInv => InterruptedNeverRuns
  BY DEF TypeOK, HandlerStates, RequestInv, CutOff, InterruptedNeverRuns, Active
<1> QED
  BY <1>1, TypeCorrect, RequestsAccounted, PTL
=============================================================================
