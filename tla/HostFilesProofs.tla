--------------------------- MODULE HostFilesProofs ---------------------------
(***************************************************************************)
(* Proofs about what a host leaves in the file system: its socket path     *)
(* (HostStartup), for any number of host processes, crashes and seconds;   *)
(* its transcript file (TranscriptFile), for any number of entries and of  *)
(* writes that fail or stop halfway; and what the filter lets through to   *)
(* it (OutputFilter, OutputPath), for every output and division into reads.*)
(***************************************************************************)
EXTENDS HostStartup, OutputPath, SequenceLemmas

LEMMA NextCases ==
  ASSUME Next
  PROVE  Tick \/ \E p \in Processes :
           \/ Start(p) \/ Bind(p) \/ BindInUse(p) \/ Listen(p) \/ ProbeConnects(p) \/ ProbeFails(p)
           \/ RemoveStale(p) \/ RemoveFails(p) \/ Rebind(p) \/ RebindInUse(p)
           \/ CreateTranscript(p) \/ TranscriptExists(p)
           \/ Stop(p) \/ DropListener(p) \/ RemovePath(p) \/ Crash(p)
BY DEF Next, HostStart, HostStop

(* The variables keep their types.                                         *)
THEOREM TypeCorrect == Spec => []TypeOK
<1> USE HostStartupAssumption DEF TypeOK, Alive, Starting, Stopping
<1>1. Init => TypeOK
  BY DEF Init
<1>2. TypeOK /\ [Next]_vars => TypeOK'
  <2> SUFFICES ASSUME TypeOK, [Next]_vars PROVE TypeOK'
    OBVIOUS
  <2>1. CASE UNCHANGED vars
    BY <2>1 DEF vars, fs
  <2>2. CASE Tick
    BY <2>2 DEF Tick, fs
  <2>3. ASSUME NEW p \in Processes, Start(p) PROVE TypeOK'
    BY <2>3 DEF Start, Moves, fs
  <2>4. ASSUME NEW p \in Processes,
               Bind(p) \/ BindInUse(p) \/ Listen(p) \/ ProbeFails(p) \/ RemoveStale(p) \/ Rebind(p)
        PROVE  TypeOK'
    BY <2>4 DEF Bind, BindInUse, Listen, ProbeFails, RemoveStale, Rebind, Goto, Moves, fs
  <2>5. ASSUME NEW p \in Processes, CreateTranscript(p) \/ Stop(p) \/ DropListener(p)
        PROVE  TypeOK'
    BY <2>5 DEF CreateTranscript, Stop, DropListener, Goto, Moves, fs
  <2>6. ASSUME NEW p \in Processes,
               ProbeConnects(p) \/ RemoveFails(p) \/ RebindInUse(p) \/ TranscriptExists(p)
        PROVE  TypeOK'
    BY <2>6 DEF ProbeConnects, RemoveFails, RebindInUse, TranscriptExists, Ends, Moves, fs
  <2>7. ASSUME NEW p \in Processes, RemovePath(p) PROVE TypeOK'
    BY <2>7 DEF RemovePath, Ends, Moves, fs
  <2>8. ASSUME NEW p \in Processes, Crash(p) PROVE TypeOK'
    <3>1. crashes' \in 0 .. MaxCrashes
      BY <2>8 DEF Crash
    <3> QED
      BY <2>8, <3>1 DEF Crash, Ends, Moves, fs
  <2> QED
    BY <2>1, <2>2, <2>3, <2>4, <2>5, <2>6, <2>7, <2>8, NextCases
<1> QED
  BY <1>1, <1>2, PTL DEF Spec

-----------------------------------------------------------------------------
(* What p's phase says of the path, if it had no company: while it starts  *)
(* or stops nobody else does, nobody listens once it took the path for     *)
(* stale or dropped its own listener, and who listens has the path.        *)
Undisturbed ==
  raced = {} =>
    /\ \A p, q \in Processes : phase[p] \in Starting \cup Stopping
                                 /\ phase[q] \in Starting \cup Stopping => p = q
    /\ \A p, q \in Processes : Listening(p) /\ Listening(q) => p = q
    /\ \A p \in Processes : Listening(p) \/ phase[p] = "listen" => path = p
    /\ \A p, q \in Processes :
         phase[p] \in {"remove", "rebind", "listen", "closed"} => ~Listening(q)

(* Two processes that start or stop at once are seen when the second one   *)
(* moves.                                                                  *)
LEMMA MovesAlone ==
  ASSUME TypeOK, NEW p \in Processes, NEW to, to \in Starting \cup Stopping,
         Moves(p, to), raced' = {}
  PROVE  raced = {} /\ \A q \in Processes \ {p} : phase[q] \notin Starting \cup Stopping
BY DEF Moves, Race, TypeOK

LEMMA UndisturbedAlways == Spec => []Undisturbed
<1> USE HostStartupAssumption
<1>1. Init => Undisturbed
  BY DEF Init, Undisturbed, Listening, Starting, Stopping
<1>2. TypeOK /\ Undisturbed /\ [Next]_vars => Undisturbed'
  <2> SUFFICES ASSUME TypeOK, Undisturbed, [Next]_vars, raced' = {} PROVE Undisturbed'
    BY DEF Undisturbed
  <2> USE DEF Undisturbed, Listening
  <2>1. CASE UNCHANGED vars \/ Tick
    BY <2>1 DEF vars, Tick, fs
  <2>2. ASSUME NEW p \in Processes,
               \/ Start(p) \/ Bind(p) \/ BindInUse(p) \/ Listen(p) \/ ProbeFails(p) \/ RemoveStale(p)
               \/ Rebind(p) \/ Stop(p) \/ DropListener(p)
        PROVE  Undisturbed'
    <3>1. raced = {} /\ \A q \in Processes \ {p} : phase[q] \notin Starting \cup Stopping
      BY <2>2, MovesAlone DEF Start, Bind, BindInUse, Listen, ProbeFails, RemoveStale, Rebind, Stop,
                              DropListener, Goto, Starting, Stopping
    <3> USE <3>1 DEF TypeOK, Moves, Starting, Stopping
    <3>2. CASE Start(p)
      BY <3>2 DEF Start, fs
    <3>3. CASE Bind(p) \/ BindInUse(p)
      BY <3>3 DEF Bind, BindInUse, Goto, fs
    <3>4. CASE Listen(p) \/ Rebind(p)
      BY <3>4 DEF Listen, Rebind, Goto, fs
    <3>5. CASE ProbeFails(p)
      BY <3>5 DEF ProbeFails, Goto, fs
    <3>6. CASE RemoveStale(p)
      BY <3>6 DEF RemoveStale, Goto, fs
    <3>7. CASE Stop(p) \/ DropListener(p)
      BY <3>7 DEF Stop, DropListener, Goto, fs
    <3> QED
      BY <2>2, <3>2, <3>3, <3>4, <3>5, <3>6, <3>7
  <2>3. ASSUME NEW p \in Processes,
               \/ ProbeConnects(p) \/ RemoveFails(p) \/ RebindInUse(p) \/ CreateTranscript(p)
               \/ TranscriptExists(p) \/ RemovePath(p) \/ Crash(p)
        PROVE  Undisturbed'
    <3>1. raced = {}
      BY <2>3 DEF ProbeConnects, RemoveFails, RebindInUse, CreateTranscript, TranscriptExists,
                  RemovePath, Crash, Ends, Goto, Moves
    <3> USE <3>1 DEF TypeOK, Moves, Starting, Stopping
    <3>2. CASE ProbeConnects(p) \/ RemoveFails(p) \/ RebindInUse(p) \/ TranscriptExists(p) \/ Crash(p)
      BY <2>3, <3>2 DEF ProbeConnects, RemoveFails, RebindInUse, TranscriptExists, Crash, Ends, fs
    <3>3. CASE CreateTranscript(p)
      BY <3>3 DEF CreateTranscript, Goto
    <3>4. CASE RemovePath(p)
      BY <3>4 DEF RemovePath, Ends
    <3> QED
      BY <2>3, <3>2, <3>3, <3>4
  <2> QED
    BY <2>1, <2>2, <2>3, NextCases
<1> QED
  BY <1>1, <1>2, TypeCorrect, PTL DEF Spec

(* Without overlapping starts and stops there is one host, and the path is *)
(* its socket.                                                             *)
THEOREM SoleOwnerAlways == Spec => []SoleOwnerUnlessRaced
<1>1. Undisturbed => SoleOwnerUnlessRaced
  BY DEF Undisturbed, SoleOwnerUnlessRaced
<1> QED
  BY <1>1, UndisturbedAlways, PTL

-----------------------------------------------------------------------------
(* A process that started alone stays alone until another one starts, and  *)
(* only it moves the path.                                                 *)
Alone ==
  \A p \in Processes :
    /\ phase[p] # "gone" => outcome[p] = "none"
    /\ alone[p] =>
         /\ \A q \in Processes \ {p} : phase[q] \notin Alive
         /\ phase[p] \in {"probe", "remove"} => path # NoFile
         /\ phase[p] = "rebind" => path = NoFile
         /\ outcome[p] \notin {"refused", "failed"}

LEMMA AloneAlways == Spec => []Alone
<1> USE HostStartupAssumption DEF Alone, Alive, Starting, Stopping
<1>1. Init => Alone
  BY DEF Init
<1>2. TypeOK /\ Alone /\ [Next]_vars => Alone'
  <2> SUFFICES ASSUME TypeOK, Alone, [Next]_vars PROVE Alone'
    OBVIOUS
  <2>1. CASE UNCHANGED vars \/ Tick
    BY <2>1 DEF vars, Tick, fs
  <2> USE DEF TypeOK, Moves
  <2>2. ASSUME NEW p \in Processes, Start(p) PROVE Alone'
    BY <2>2 DEF Start, fs
  <2>3. ASSUME NEW p \in Processes, Bind(p) \/ BindInUse(p) \/ Listen(p) PROVE Alone'
    BY <2>3 DEF Bind, BindInUse, Listen, Goto, fs
  <2>4. ASSUME NEW p \in Processes, ProbeConnects(p) PROVE Alone'
    BY <2>4 DEF ProbeConnects, Ends, Listening, fs
  <2>5. ASSUME NEW p \in Processes, ProbeFails(p) \/ RemoveStale(p) \/ Rebind(p) PROVE Alone'
    BY <2>5 DEF ProbeFails, RemoveStale, Rebind, Goto, fs
  <2>6. ASSUME NEW p \in Processes, RemoveFails(p) \/ RebindInUse(p) PROVE Alone'
    BY <2>6 DEF RemoveFails, RebindInUse, Ends, fs
  <2>7. ASSUME NEW p \in Processes, CreateTranscript(p) \/ Stop(p) \/ DropListener(p) PROVE Alone'
    BY <2>7 DEF CreateTranscript, Stop, DropListener, Goto, fs
  <2>8. ASSUME NEW p \in Processes, TranscriptExists(p) \/ RemovePath(p) \/ Crash(p) PROVE Alone'
    BY <2>8 DEF TranscriptExists, RemovePath, Crash, Ends, fs
  <2> QED
    BY <2>1, <2>2, <2>3, <2>4, <2>5, <2>6, <2>7, <2>8, NextCases
<1> QED
  BY <1>1, <1>2, TypeCorrect, PTL DEF Spec

(* A stale path never keeps a process that has the machine for itself from *)
(* starting: what its probe found is still so when it removes and binds.   *)
THEOREM LoneStartsSucceed == Spec => []LoneStartSucceeds
<1>1. Alone => LoneStartSucceeds
  BY DEF Alone, LoneStartSucceeds
<1> QED
  BY <1>1, AloneAlways, PTL

-----------------------------------------------------------------------------
(* The path is nobody's who has not bound it, and left only by those that  *)
(* crashed or found their transcript to exist.                             *)
PathKept ==
  \A p \in Processes : path = p =>
    /\ phase[p] \notin {"new", "bind", "probe", "remove", "rebind"}
    /\ phase[p] = "gone" => outcome[p] \in {"crashed", "exists"}

(* Orderly exits leave no path, however hosts race for it.                 *)
THEOREM NoPathEverLeft == Spec => []NoPathLeft
<1> USE HostStartupAssumption DEF PathKept
<1>1. Init => PathKept
  BY DEF Init
<1>2. TypeOK /\ PathKept /\ [Next]_vars => PathKept'
  <2> SUFFICES ASSUME TypeOK, PathKept, [Next]_vars PROVE PathKept'
    OBVIOUS
  <2>1. CASE UNCHANGED vars \/ Tick
    BY <2>1 DEF vars, Tick, fs
  <2> USE DEF TypeOK, Moves, Alive, Starting, Stopping
  <2>2. ASSUME NEW p \in Processes, Start(p) \/ Bind(p) \/ BindInUse(p) \/ Listen(p) PROVE PathKept'
    BY <2>2 DEF Start, Bind, BindInUse, Listen, Goto, fs
  <2>3. ASSUME NEW p \in Processes, ProbeFails(p) \/ RemoveStale(p) \/ Rebind(p) PROVE PathKept'
    BY <2>3 DEF ProbeFails, RemoveStale, Rebind, Goto, fs
  <2>4. ASSUME NEW p \in Processes, ProbeConnects(p) \/ RemoveFails(p) \/ RebindInUse(p)
        PROVE  PathKept'
    BY <2>4 DEF ProbeConnects, RemoveFails, RebindInUse, Ends, fs
  <2>5. ASSUME NEW p \in Processes, CreateTranscript(p) \/ Stop(p) \/ DropListener(p)
        PROVE  PathKept'
    BY <2>5 DEF CreateTranscript, Stop, DropListener, Goto, fs
  <2>6. ASSUME NEW p \in Processes, TranscriptExists(p) \/ RemovePath(p) \/ Crash(p) PROVE PathKept'
    BY <2>6 DEF TranscriptExists, RemovePath, Crash, Ends, fs
  <2> QED
    BY <2>1, <2>2, <2>3, <2>4, <2>5, <2>6, NextCases
<1>3. TypeOK /\ PathKept => NoPathLeft
  BY DEF TypeOK, NoPathLeft
<1> QED
  BY <1>1, <1>2, <1>3, TypeCorrect, PTL DEF Spec
-----------------------------------------------------------------------------
(* The transcript file: what its pieces are, position by position.         *)

(* s[j] ends a line that is an entry, said without cutting s.              *)
EndsEntry(s, j) ==
  /\ s[j].part = "newline"
  /\ s[j - 2] = Piece(s[j].entry, "head") /\ s[j - 1] = Piece(s[j].entry, "tail")
  /\ j = 3 \/ s[j - 3].part = "newline"

AtLineStart(s) == Len(s) = 0 \/ s[Len(s)].part = "newline"

LEMMA PieceTypes ==
  ASSUME NEW i \in Entries
  PROVE  /\ Json(i) \in Seq(Pieces) /\ Newline(i) \in Seq(Pieces)
         /\ Len(Json(i)) = 2 /\ Len(Newline(i)) = 1
         /\ Json(i)[1] = Piece(i, "head") /\ Json(i)[2] = Piece(i, "tail")
         /\ Newline(i)[1] = Piece(i, "newline")
BY DEF Json, Newline, Piece, Pieces

LEMMA ParseableIs ==
  ASSUME NEW s \in Seq(Pieces)
  PROVE  Parseable(s) = {j \in 3 .. Len(s) : EndsEntry(s, j)}
<1>1. Len(s) \in Nat /\ DOMAIN s = 1 .. Len(s) /\ \A k \in 1 .. Len(s) : s[k] \in Pieces
  BY LenProperties, ElementOfSeq
<1>2. ASSUME NEW j \in 3 .. Len(s)
      PROVE  SubSeq(s, j - 2, j - 1) = Json(s[j].entry)
               <=> s[j - 2] = Piece(s[j].entry, "head") /\ s[j - 1] = Piece(s[j].entry, "tail")
  <2> DEFINE t == SubSeq(s, j - 2, j - 1)
             u == Json(s[j].entry)
  <2>1. j \in 1 .. Len(s) /\ j - 2 \in Int /\ j - 1 \in Int
    BY <1>1
  <2>2. s[j].entry \in Entries
    BY <1>1, <2>1 DEF Pieces
  <2>3. /\ u \in Seq(Pieces) /\ Len(u) = 2
        /\ u[1] = Piece(s[j].entry, "head") /\ u[2] = Piece(s[j].entry, "tail")
    BY <2>2, PieceTypes
  <2>4. \A k \in j - 2 .. j - 1 : s[k] \in Pieces
    BY <1>1
  <2>5. PICK a \in Int, b \in Int : a = j - 2 /\ b = j - 1 /\ b = a + 1 /\ t = SubSeq(s, a, b)
    BY <2>1
  <2>6. t \in Seq(Pieces) /\ Len(t) = 2 /\ t[1] = s[a] /\ t[2] = s[b]
    <3>1. \A k \in a .. b : s[k] \in Pieces
      BY <2>4, <2>5
    <3>2. /\ SubSeq(s, a, b) \in Seq(Pieces)
          /\ Len(SubSeq(s, a, b)) = IF a <= b THEN b - a + 1 ELSE 0
          /\ \A k \in 1 .. b - a + 1 : SubSeq(s, a, b)[k] = s[a + k - 1]
      BY <3>1, SubSeqProperties
    <3>3. (IF a <= b THEN b - a + 1 ELSE 0) = 2 /\ b - a + 1 = 2 /\ a + 1 - 1 = a /\ a + 2 - 1 = b
      BY <2>5
    <3>4. 1 \in 1 .. b - a + 1 /\ 2 \in 1 .. b - a + 1
      BY <3>3
    <3> QED
      BY <2>5, <3>2, <3>3, <3>4
  <2>7. t[1] = s[j - 2] /\ t[2] = s[j - 1]
    BY <2>5, <2>6
  <2> HIDE DEF t, u
  <2>8. t = u <=> t[1] = u[1] /\ t[2] = u[2]
    <3>1. (\A k \in 1 .. Len(t) : t[k] = u[k]) => t = u
      BY <2>3, <2>6, SeqEqual
    <3>2. \A k \in 1 .. Len(t) : k = 1 \/ k = 2
      BY <2>6
    <3> QED
      BY <3>1, <3>2
  <2> QED
    BY <2>3, <2>7, <2>8 DEF t, u
<1>3. ASSUME NEW j PROVE j \in Parseable(s) <=> j \in 3 .. Len(s) /\ EndsEntry(s, j)
  <2>1. j \in Parseable(s) => j \in 3 .. Len(s) /\ j \in 1 .. Len(s)
    BY <1>1 DEF Parseable, LineEnds
  <2>2. j \in 3 .. Len(s) => j \in 1 .. Len(s) /\ j >= 3
    BY <1>1
  <2> QED
    BY <1>1, <1>2, <2>1, <2>2 DEF Parseable, LineEnds, EndsEntry
<1> QED
  BY <1>3

(* t has all that s has, and maybe more behind it.                         *)
Extends(t, s) == Len(s) <= Len(t) /\ \A i \in 1 .. Len(s) : t[i] = s[i]

LEMMA ParseableExtends ==
  ASSUME NEW s \in Seq(Pieces), NEW t \in Seq(Pieces), Extends(t, s)
  PROVE  Parseable(s) = {j \in Parseable(t) : j <= Len(s)}
<1>1. Len(s) \in Nat /\ Len(t) \in Nat /\ Len(s) <= Len(t) /\ \A i \in 1 .. Len(s) : t[i] = s[i]
  BY LenProperties DEF Extends
<1>2. ASSUME NEW j \in 3 .. Len(s) PROVE EndsEntry(s, j) <=> EndsEntry(t, j)
  <2>1. t[j] = s[j] /\ t[j - 1] = s[j - 1] /\ t[j - 2] = s[j - 2] /\ (j # 3 => t[j - 3] = s[j - 3])
    BY <1>1
  <2> QED
    BY <2>1 DEF EndsEntry
<1>3. \A j : j \in 3 .. Len(s) <=> j \in 3 .. Len(t) /\ j <= Len(s)
  BY <1>1
<1> QED
  BY <1>2, <1>3, ParseableIs

(* A second part that starts a line is read as it would be by itself.      *)
LEMMA ParseableOfConcat ==
  ASSUME NEW s \in Seq(Pieces), NEW t \in Seq(Pieces), AtLineStart(s)
  PROVE  Parseable(s \o t) = Parseable(s) \cup {Len(s) + j : j \in Parseable(t)}
<1>1. PICK n \in Nat, m \in Nat : n = Len(s) /\ m = Len(t)
  BY LenProperties
<1>2. /\ s \o t \in Seq(Pieces) /\ Len(s \o t) = n + m
      /\ \A i \in 1 .. n : (s \o t)[i] = s[i]
      /\ \A i \in n + 1 .. n + m : (s \o t)[i] = t[i - n]
  BY <1>1, ConcatProperties
<1>3. PICK u \in Seq(Pieces) : u = s \o t
  BY <1>2
<1>4. Extends(u, s)
  BY <1>1, <1>2, <1>3 DEF Extends
<1>5. ASSUME NEW j \in n + 1 .. n + m
      PROVE  j \in Parseable(u) <=> j - n \in Parseable(t)
  <2>1. PICK k \in 1 .. m : k = j - n /\ j = n + k
    <3>1. j - n \in 1 .. m /\ j = n + (j - n)
      OBVIOUS
    <3> QED
      BY <3>1
  <2>2. \A i \in 1 .. m : u[n + i] = t[i]
    <3>1. \A i \in 1 .. m : n + i \in n + 1 .. n + m /\ (n + i) - n = i
      OBVIOUS
    <3> QED
      BY <1>2, <1>3, <3>1
  <2>3. n = 0 \/ u[n].part = "newline"
    <3>1. n # 0 => u[n] = s[n]
      BY <1>2, <1>3
    <3> QED
      BY <1>1, <3>1 DEF AtLineStart
  <2>4. CASE k >= 3
    <3>1. k \in 3 .. m /\ j \in 3 .. n + m
      BY <2>1, <2>4
    <3>2. u[j] = t[k] /\ u[j - 1] = t[k - 1] /\ u[j - 2] = t[k - 2]
      <4>1. k - 1 \in 1 .. m /\ k - 2 \in 1 .. m /\ j - 1 = n + (k - 1) /\ j - 2 = n + (k - 2)
        BY <2>1, <2>4
      <4> QED
        BY <2>1, <2>2, <4>1
    <3>3. (k = 3 \/ t[k - 3].part = "newline") <=> (j = 3 \/ u[j - 3].part = "newline")
      <4>1. CASE k = 3
        <5>1. j - 3 = n /\ (n = 0 => j = 3)
          BY <2>1, <4>1
        <5> QED
          BY <2>3, <4>1, <5>1
      <4>2. CASE k # 3
        <5>1. k - 3 \in 1 .. m /\ j - 3 = n + (k - 3) /\ j # 3
          BY <2>1, <2>4, <4>2
        <5> QED
          BY <2>2, <4>2, <5>1
      <4> QED
        BY <4>1, <4>2
    <3>4. EndsEntry(t, k) <=> EndsEntry(u, j)
      BY <3>2, <3>3 DEF EndsEntry
    <3> QED
      BY <1>1, <1>2, <1>3, <2>1, <3>1, <3>4, ParseableIs
  <2>5. CASE k < 3
    <3>1. j - n \notin Parseable(t)
      BY <2>1, <2>5, ParseableIs
    <3>2. ASSUME j \in 3 .. n + m PROVE ~EndsEntry(u, j)
      <4>1. CASE k = 1
        <5>1. j - 1 = n /\ n # 0
          BY <2>1, <3>2, <4>1
        <5> QED
          BY <2>3, <5>1 DEF EndsEntry, Piece
      <4>2. CASE k = 2
        <5>1. j - 2 = n /\ n # 0
          BY <2>1, <3>2, <4>2
        <5> QED
          BY <2>3, <5>1 DEF EndsEntry, Piece
      <4> QED
        BY <2>1, <2>5, <4>1, <4>2
    <3> QED
      BY <1>2, <1>3, <3>1, <3>2, ParseableIs
  <2> QED
    BY <2>1, <2>4, <2>5
<1>6. Parseable(s) = {j \in Parseable(u) : j <= n}
  BY <1>1, <1>4, ParseableExtends
<1>7. Parseable(u) \subseteq 1 .. n + m /\ Parseable(t) \subseteq 1 .. m
  <2>1. Parseable(u) = {j \in 3 .. n + m : EndsEntry(u, j)}
    BY <1>2, <1>3, ParseableIs
  <2>2. Parseable(t) = {j \in 3 .. m : EndsEntry(t, j)}
    BY <1>1, ParseableIs
  <2>3. 3 .. n + m \subseteq 1 .. n + m /\ 3 .. m \subseteq 1 .. m
    OBVIOUS
  <2> QED
    BY <2>1, <2>2, <2>3
<1>8. \A j \in 1 .. n + m : j <= n \/ j \in n + 1 .. n + m
  OBVIOUS
<1>9. \A j \in n + 1 .. n + m : j = n + (j - n) /\ j - n \in 1 .. m /\ ~(j <= n)
  OBVIOUS
<1>10. \A k \in 1 .. m : n + k \in n + 1 .. n + m /\ (n + k) - n = k
  OBVIOUS
<1>11. Parseable(u) \subseteq Parseable(s) \cup {n + j : j \in Parseable(t)}
  <2> SUFFICES ASSUME NEW j \in Parseable(u), j \notin Parseable(s)
               PROVE  j \in {n + k : k \in Parseable(t)}
    OBVIOUS
  <2>1. j \in n + 1 .. n + m
    BY <1>6, <1>7, <1>8
  <2> QED
    BY <1>5, <1>9, <2>1
<1>12. {n + j : j \in Parseable(t)} \subseteq Parseable(u)
  <2> SUFFICES ASSUME NEW k \in Parseable(t) PROVE n + k \in Parseable(u)
    OBVIOUS
  <2> QED
    BY <1>5, <1>7, <1>10
<1>13. Parseable(u) = Parseable(s) \cup {n + j : j \in Parseable(t)}
  BY <1>6, <1>11, <1>12
<1> QED
  BY <1>1, <1>3, <1>13

LEMMA ParsedIs ==
  ASSUME NEW s \in Seq(Pieces), NEW lines, lines = SelectAt(s, Parseable(s))
  PROVE  /\ lines \in Seq(Pieces)
         /\ Parsed(s) \in Seq(Entries) /\ Len(Parsed(s)) = Len(lines)
         /\ \A k \in 1 .. Len(lines) : Parsed(s)[k] = lines[k].entry
<1>0. Parseable(s) \in SUBSET (1 .. Len(s)) /\ Len(s) \in Nat
  BY ParseableIs
<1>1. lines \in Seq(Pieces)
  BY <1>0, SelectionProperties
<1>2. Len(lines) \in Nat /\ DOMAIN lines = 1 .. Len(lines)
      /\ \A k \in 1 .. Len(lines) : lines[k].entry \in Entries
  <2>1. \A k \in 1 .. Len(lines) : lines[k] \in Pieces
    BY <1>1, ElementOfSeq
  <2> QED
    BY <1>1, <2>1, LenProperties DEF Pieces
<1>3. Parsed(s) = [k \in 1 .. Len(lines) |-> lines[k].entry]
  BY <1>2 DEF Parsed
<1>4. Parsed(s) \in [1 .. Len(lines) -> Entries]
  BY <1>2, <1>3
<1>5. Parsed(s) \in Seq(Entries) /\ Len(Parsed(s)) = Len(lines)
  BY <1>2, <1>4, FunctionIsSeq
<1> QED
  BY <1>1, <1>3, <1>5

LEMMA ParsedOfConcat ==
  ASSUME NEW s \in Seq(Pieces), NEW t \in Seq(Pieces), AtLineStart(s)
  PROVE  Parsed(s \o t) = Parsed(s) \o Parsed(t)
<1>1. PICK a, b, c : /\ a = SelectAt(s, Parseable(s)) /\ b = SelectAt(t, Parseable(t))
                     /\ c = SelectAt(s \o t, Parseable(s \o t))
  OBVIOUS
<1>2. s \o t \in Seq(Pieces)
  BY ConcatProperties
<1>3. /\ a \in Seq(Pieces) /\ Parsed(s) \in Seq(Entries) /\ Len(Parsed(s)) = Len(a)
      /\ \A k \in 1 .. Len(a) : Parsed(s)[k] = a[k].entry
  BY <1>1, ParsedIs
<1>4. /\ b \in Seq(Pieces) /\ Parsed(t) \in Seq(Entries) /\ Len(Parsed(t)) = Len(b)
      /\ \A k \in 1 .. Len(b) : Parsed(t)[k] = b[k].entry
  BY <1>1, ParsedIs
<1>5. /\ c \in Seq(Pieces) /\ Parsed(s \o t) \in Seq(Entries) /\ Len(Parsed(s \o t)) = Len(c)
      /\ \A k \in 1 .. Len(c) : Parsed(s \o t)[k] = c[k].entry
  BY <1>1, <1>2, ParsedIs
<1>6. Parseable(s) \in SUBSET (1 .. Len(s)) /\ Parseable(t) \in SUBSET (1 .. Len(t))
  BY ParseableIs
<1>7. c = a \o b
  <2>1. ASSUME NEW P \in SUBSET (1 .. Len(s)), NEW Q \in SUBSET (1 .. Len(t)), NEW U,
               Joins(U, P, Len(s), Q)
        PROVE  SelectAt(s \o t, U) = SelectAt(s, P) \o SelectAt(t, Q)
    BY <2>1, SelectionOfConcat, SMTT(30)
  <2>2. Joins(Parseable(s \o t), Parseable(s), Len(s), Parseable(t))
    <3>1. PICK P, Q, U : P = Parseable(s) /\ Q = Parseable(t) /\ U = Parseable(s \o t)
      OBVIOUS
    <3>2. U = P \cup {Len(s) + q : q \in Q}
      BY <3>1, ParseableOfConcat, Zenon
    <3>3. Joins(U, P, Len(s), Q)
      BY <3>2 DEF Joins
    <3> QED
      BY <3>1, <3>3
  <2> QED
    BY <1>1, <1>6, <2>1, <2>2, Zenon
<1>8. PICK n \in Nat, m \in Nat : n = Len(a) /\ m = Len(b)
  BY <1>3, <1>4, LenProperties
<1>9. /\ Len(c) = n + m /\ \A k \in 1 .. n : c[k] = a[k]
      /\ \A k \in n + 1 .. n + m : c[k] = b[k - n]
  BY <1>3, <1>4, <1>7, <1>8, ConcatProperties
<1> DEFINE right == Parsed(s) \o Parsed(t)
<1>10. /\ right \in Seq(Entries) /\ Len(right) = n + m
       /\ \A k \in 1 .. n : right[k] = Parsed(s)[k]
       /\ \A k \in n + 1 .. n + m : right[k] = Parsed(t)[k - n]
  <2>1. PICK x \in Seq(Entries), y \in Seq(Entries) :
          x = Parsed(s) /\ y = Parsed(t) /\ Len(x) = n /\ Len(y) = m
    BY <1>3, <1>4, <1>8
  <2>2. /\ x \o y \in Seq(Entries) /\ Len(x \o y) = n + m
        /\ \A k \in 1 .. n : (x \o y)[k] = x[k]
        /\ \A k \in n + 1 .. n + m : (x \o y)[k] = y[k - n]
    <3>1. /\ x \o y \in Seq(Entries) /\ Len(x \o y) = Len(x) + Len(y)
          /\ \A k \in 1 .. Len(x) + Len(y) :
               (x \o y)[k] = IF k <= Len(x) THEN x[k] ELSE y[k - Len(x)]
      BY <2>1, ConcatProperties
    <3>2. /\ \A k \in 1 .. n : k \in 1 .. n + m /\ k <= n
          /\ \A k \in n + 1 .. n + m : k \in 1 .. n + m /\ ~(k <= n)
      OBVIOUS
    <3> QED
      BY <2>1, <3>1, <3>2
  <2> QED
    BY <2>1, <2>2
<1> HIDE DEF right
<1>11. ASSUME NEW k \in 1 .. n + m PROVE Parsed(s \o t)[k] = right[k]
  <2>1. CASE k <= n
    <3>1. k \in 1 .. n /\ k \in 1 .. Len(c)
      BY <1>9, <2>1
    <3>2. Parsed(s \o t)[k] = c[k].entry /\ c[k] = a[k]
      BY <1>5, <1>9, <3>1
    <3>3. Parsed(s)[k] = a[k].entry
      BY <1>3, <1>8, <3>1
    <3>4. right[k] = Parsed(s)[k]
      BY <1>10, <3>1
    <3> QED
      BY <3>2, <3>3, <3>4
  <2>2. CASE k > n
    <3>1. k \in n + 1 .. n + m /\ k \in 1 .. Len(c) /\ k - n \in 1 .. Len(b)
      BY <1>8, <1>9, <2>2
    <3>2. right[k] = b[k - n].entry
      BY <1>4, <1>10, <3>1
    <3>3. Parsed(s \o t)[k] = b[k - n].entry
      BY <1>5, <1>9, <3>1
    <3> QED
      BY <3>2, <3>3
  <2>3. k <= n \/ k > n
    OBVIOUS
  <2> QED
    BY <2>1, <2>2, <2>3, Zenon
<1>12. Parsed(s \o t) = right
  BY <1>5, <1>9, <1>10, <1>11, SeqEqual
<1> QED
  BY <1>12 DEF right

(* The last of some positions; 0 when there are none.                      *)
LEMMA MaxOfPositions ==
  ASSUME NEW n \in Nat, NEW P \in SUBSET (1 .. n), NEW m, m = Max({0} \cup P)
  PROVE  m \in {0} \cup P /\ \A p \in P : p <= m
<1>1. \E x \in {0} \cup P : \A y \in {0} \cup P : x >= y
  <2>1. CASE P = {}
    BY <2>1
  <2>2. CASE P # {}
    <3>1. PICK f : Lists(f, P)
      BY ListExists
    <3>2. IsFiniteSet(P) /\ P \in SUBSET Nat
      BY PositionsFinite
    <3>3. PICK c \in Nat : c = Cardinality(P) /\ c # 0
      BY <2>2, <3>2, FS_CardinalityType, FS_EmptySet
    <3>4. \A p \in P : \E i \in 1 .. c : f[i] = p
      BY <3>1, <3>2, <3>3, ListIsOnto
    <3>5. /\ \A i \in 1 .. c : f[i] \in P /\ f[i] \in Nat
          /\ \A i, j \in 1 .. c : i < j => f[i] < f[j]
      BY <3>1, <3>2, <3>3 DEF Lists
    <3>6. \A i \in 1 .. c : f[i] <= f[c]
      BY <3>3, <3>5
    <3>7. f[c] \in P /\ f[c] \in Nat
      BY <3>3, <3>5
    <3>8. \A y \in {0} \cup P : f[c] >= y
      BY <3>4, <3>5, <3>6, <3>7
    <3> QED
      BY <3>7, <3>8
  <2> QED
    BY <2>1, <2>2
<1> QED
  BY <1>1 DEF Max

-----------------------------------------------------------------------------
(* A write(2) moves the front of what is to be written into the file.      *)
LEMMA WriteMoves ==
  ASSUME file \in Seq(Pieces), NEW from \in Seq(Pieces), WriteSome(from)
  PROVE  /\ file' \in Seq(Pieces) /\ Left(from) \in Seq(Pieces)
         /\ file' \o Left(from) = file \o from
         /\ Len(Left(from)) < Len(from)
         /\ Extends(file', file)
         /\ from # <<>>
         /\ \E n \in 1 .. Len(from) : /\ file' = file \o SubSeq(from, 1, n)
                                      /\ Left(from) = SubSeq(from, n + 1, Len(from))
<1>1. PICK l \in Nat, f \in Nat : l = Len(from) /\ f = Len(file)
  BY LenProperties
<1>2. PICK n \in 1 .. l : file' = file \o SubSeq(from, 1, n)
  BY <1>1 DEF WriteSome
<1>3. \A i \in 1 .. l : from[i] \in Pieces
  BY <1>1, ElementOfSeq
<1>4. /\ SubSeq(from, 1, n) \in Seq(Pieces) /\ Len(SubSeq(from, 1, n)) = n
      /\ SubSeq(from, n + 1, l) \in Seq(Pieces) /\ Len(SubSeq(from, n + 1, l)) = l - n
  <2>1. \A i \in 1 .. n : from[i] \in Pieces
    BY <1>3
  <2>2. \A i \in n + 1 .. l : from[i] \in Pieces
    BY <1>3
  <2>3. /\ SubSeq(from, 1, n) \in Seq(Pieces)
        /\ Len(SubSeq(from, 1, n)) = IF 1 <= n THEN n - 1 + 1 ELSE 0
    BY <2>1, SubSeqProperties
  <2>4. n + 1 \in Int /\ l \in Int
    OBVIOUS
  <2>5. /\ SubSeq(from, n + 1, l) \in Seq(Pieces)
        /\ Len(SubSeq(from, n + 1, l)) = IF n + 1 <= l THEN l - (n + 1) + 1 ELSE 0
    BY <2>2, <2>4, SubSeqProperties
  <2> QED
    BY <2>3, <2>5
<1>5. /\ file' \in Seq(Pieces) /\ Len(file') = f + n
      /\ \A i \in 1 .. f : file'[i] = file[i]
  BY <1>1, <1>2, <1>4, ConcatProperties
<1>6. Left(from) = SubSeq(from, n + 1, l)
  <2>1. Len(file') - Len(file) + 1 = n + 1
    BY <1>1, <1>5
  <2> QED
    BY <1>1, <2>1 DEF Left
<1>7. SubSeq(from, 1, n) \o SubSeq(from, n + 1, l) = from
  <2>1. SubSeq(from, 1, n) \o SubSeq(from, n + 1, Len(from)) = SubSeq(from, 1, Len(from))
    <3>1. 1 \in 1 .. Len(from) + 1 /\ n \in 1 - 1 .. Len(from) /\ Len(from) \in n .. Len(from)
      BY <1>1
    <3> QED
      BY <3>1, ConcatAdjacentSubSeq
  <2> QED
    BY <1>1, <2>1, SubSeqFull
<1>8. file' \o Left(from) = file \o from
  <2>1. ASSUME NEW x \in Seq(Pieces), NEW y \in Seq(Pieces)
        PROVE  (file \o x) \o y = file \o (x \o y)
    BY ConcatAssociative, SMTT(30)
  <2>2. (file \o SubSeq(from, 1, n)) \o SubSeq(from, n + 1, l)
          = file \o (SubSeq(from, 1, n) \o SubSeq(from, n + 1, l))
    BY <1>4, <2>1
  <2>3. (file \o SubSeq(from, 1, n)) \o SubSeq(from, n + 1, l) = file \o from
    BY <1>7, <2>2
  <2> QED
    BY <1>2, <1>6, <2>3
<1>9. Extends(file', file)
  BY <1>1, <1>5 DEF Extends
<1>10. from # <<>>
  BY <1>1, EmptySeq
<1> QED
  <2>1. Len(Left(from)) < Len(from) /\ Left(from) \in Seq(Pieces)
    BY <1>1, <1>4, <1>6
  <2>2. n \in 1 .. Len(from) /\ Left(from) = SubSeq(from, n + 1, Len(from))
    BY <1>1, <1>6
  <2> QED
    BY <1>2, <1>5, <1>8, <1>9, <1>10, <2>1, <2>2

-----------------------------------------------------------------------------
(* What is true of the lines of n entries, of which those in lost were     *)
(* dropped, however often a write failed.                                  *)

HasEntry(s, i) == \E j \in Parseable(s) : s[j].entry = i

LineStarts(s) == {j \in DOMAIN s : s[j].part # "newline" /\ (j = 1 \/ s[j - 1].part = "newline")}

Ordered(s) ==
  \A j, k \in 1 .. Len(s) : j < k =>
    /\ s[j].entry <= s[k].entry
    /\ s[j].part = s[k].part => s[j].entry < s[k].entry

Younger(s, n) == \A j \in 1 .. Len(s) : s[j].entry < n

HeadsFirst(s) == \A j \in 1 .. Len(s) : s[j].part = "tail" => j > 1 /\ s[j - 1].part = "head"

Settled(s, n, lost) ==
  \A i \in 0 .. n - 1 : i \in lost \/ (i > 0 /\ i - 1 \in lost) \/ HasEntry(s, i)

(* Each entry starts a line or was dropped; and a line that a dropped one  *)
(* left unfinished is counted, though its entry is.                        *)
Counted(s, n, lost) ==
  n + (IF AtLineStart(s) THEN 0 ELSE 1) <= Cardinality(LineStarts(s)) + Cardinality(lost)

LinesInv(s, n, lost) ==
  /\ s \in Seq(Pieces) /\ n \in Nat /\ lost \in SUBSET (0 .. n - 1)
  /\ Ordered(s) /\ Younger(s, n) /\ HeadsFirst(s)
  /\ Settled(s, n, lost)
  /\ AtLineStart(s) \/ n - 1 \in lost
  /\ Counted(s, n, lost)

LEMMA LostFinite ==
  ASSUME NEW n \in Nat, NEW lost \in SUBSET (0 .. n - 1)
  PROVE  IsFiniteSet(lost) /\ Cardinality(lost) \in Nat
<1>1. IsFiniteSet(0 .. n - 1)
  <2>1. 0 \in Int /\ n - 1 \in Int
    OBVIOUS
  <2> QED
    BY <2>1, FS_Interval
<1> QED
  BY <1>1, FS_Subset, FS_CardinalityType

LEMMA StartsFinite ==
  ASSUME NEW s \in Seq(Pieces)
  PROVE  /\ LineStarts(s) \in SUBSET (1 .. Len(s)) /\ Len(s) \in Nat
         /\ IsFiniteSet(LineStarts(s)) /\ Cardinality(LineStarts(s)) \in Nat
<1>1. LineStarts(s) \in SUBSET (1 .. Len(s)) /\ Len(s) \in Nat
  BY LenProperties DEF LineStarts
<1> QED
  BY <1>1, PositionsFinite

(* s with the line of entry i behind it; or with the head of the line, of  *)
(* which the rest was dropped.                                             *)
Lined(s, i) == s \o (Json(i) \o Newline(i))
Headed(s, i) == s \o <<Piece(i, "head")>>

(* A line, by position.                                                    *)
LEMMA LineIs ==
  ASSUME NEW i \in Entries, NEW line, line = Json(i) \o Newline(i)
  PROVE  /\ line \in Seq(Pieces) /\ Len(line) = 3
         /\ line[1] = Piece(i, "head") /\ line[2] = Piece(i, "tail") /\ line[3] = Piece(i, "newline")
<1>1. /\ Json(i) \in Seq(Pieces) /\ Newline(i) \in Seq(Pieces)
      /\ Len(Json(i)) = 2 /\ Len(Newline(i)) = 1
      /\ Json(i)[1] = Piece(i, "head") /\ Json(i)[2] = Piece(i, "tail")
      /\ Newline(i)[1] = Piece(i, "newline")
  BY PieceTypes
<1>2. /\ line \in Seq(Pieces) /\ Len(line) = 2 + 1
      /\ \A k \in 1 .. 2 + 1 : line[k] = IF k <= 2 THEN Json(i)[k] ELSE Newline(i)[k - 2]
  BY <1>1, ConcatProperties
<1>3. line[1] = Json(i)[1] /\ line[2] = Json(i)[2] /\ line[3] = Newline(i)[1]
  BY <1>2
<1> QED
  BY <1>1, <1>2, <1>3

LineBehind(t, s, i, l) ==
  /\ l \in Nat /\ l = Len(s) /\ t \in Seq(Pieces) /\ Len(t) = l + 3
  /\ \A j \in 1 .. l : t[j] = s[j]
  /\ t[l + 1] = Piece(i, "head") /\ t[l + 2] = Piece(i, "tail")
  /\ t[l + 3] = Piece(i, "newline")

LEMMA WithLine ==
  ASSUME NEW s \in Seq(Pieces), NEW i \in Entries
  PROVE  LineBehind(Lined(s, i), s, i, Len(s))
<1> DEFINE t == Lined(s, i)
<1> HIDE DEF t
<1>0. PICK l \in Nat : l = Len(s)
  BY LenProperties
<1>1. PICK line \in Seq(Pieces) :
        /\ line = Json(i) \o Newline(i) /\ Len(line) = 3
        /\ line[1] = Piece(i, "head") /\ line[2] = Piece(i, "tail") /\ line[3] = Piece(i, "newline")
  BY LineIs
<1>2. /\ t \in Seq(Pieces) /\ Len(t) = l + 3
      /\ \A j \in 1 .. l + 3 : t[j] = IF j <= l THEN s[j] ELSE line[j - l]
  <2>1. /\ s \o line \in Seq(Pieces) /\ Len(s \o line) = Len(s) + Len(line)
        /\ \A j \in 1 .. Len(s) + Len(line) :
             (s \o line)[j] = IF j <= Len(s) THEN s[j] ELSE line[j - Len(s)]
    BY <1>0, <1>1, ConcatProperties
  <2>2. t = s \o line /\ Len(s) + Len(line) = l + 3 /\ Len(s) = l
    BY <1>0, <1>1 DEF Lined, t
  <2> QED
    BY <2>1, <2>2
<1>3. /\ (l + 1) - l = 1 /\ (l + 2) - l = 2 /\ (l + 3) - l = 3
      /\ l + 1 \in 1 .. l + 3 /\ l + 2 \in 1 .. l + 3 /\ l + 3 \in 1 .. l + 3
      /\ ~(l + 1 <= l) /\ ~(l + 2 <= l) /\ ~(l + 3 <= l)
  OBVIOUS
<1>4. t[l + 1] = line[1] /\ t[l + 2] = line[2] /\ t[l + 3] = line[3]
  BY <1>2, <1>3
<1>5. \A j \in 1 .. l : j \in 1 .. l + 3 /\ j <= l
  OBVIOUS
<1>6. \A j \in 1 .. l : t[j] = s[j]
  BY <1>2, <1>5
<1> QED
  BY <1>0, <1>1, <1>2, <1>4, <1>6 DEF t, LineBehind

LEMMA StartsWithLine ==
  ASSUME NEW s \in Seq(Pieces), NEW i \in Entries, NEW t, t = Lined(s, i)
  PROVE  LineStarts(t) = LineStarts(s) \cup (IF AtLineStart(s) THEN {Len(s) + 1} ELSE {})
<1>0. PICK l \in Nat : l = Len(s) /\ LineBehind(t, s, i, l)
  BY WithLine, LenProperties
<1>1. /\ l \in Nat /\ l = Len(s) /\ t \in Seq(Pieces) /\ Len(t) = l + 3
      /\ \A j \in 1 .. l : t[j] = s[j]
      /\ t[l + 1] = Piece(i, "head") /\ t[l + 2] = Piece(i, "tail")
      /\ t[l + 3] = Piece(i, "newline")
  BY <1>0 DEF LineBehind
<1>2. t \in Seq(Pieces) /\ Len(t) = l + 3
  BY <1>1
<1>3. DOMAIN s = 1 .. l /\ DOMAIN t = 1 .. l + 3
  BY <1>1, <1>2, LenProperties
<1>4. ASSUME NEW j \in 1 .. l PROVE j \in LineStarts(t) <=> j \in LineStarts(s)
  <2>1. j # 1 => j - 1 \in 1 .. l
    OBVIOUS
  <2>2. j \in 1 .. l + 3
    OBVIOUS
  <2> QED
    BY <1>1, <1>3, <2>1, <2>2 DEF LineStarts
<1>5. l + 1 \in LineStarts(t) <=> AtLineStart(s)
  <2>0. l # 0 => l \in 1 .. l
    OBVIOUS
  <2>1. l + 1 \in 1 .. l + 3 /\ (l + 1) - 1 = l /\ (l + 1 = 1 <=> l = 0)
    OBVIOUS
  <2>3. l # 0 => t[l] = s[l]
    BY <1>1, <2>0
  <2>2. t[l + 1].part # "newline"
    BY <1>1 DEF Piece
  <2> QED
    BY <1>1, <1>3, <2>1, <2>2, <2>3 DEF LineStarts, AtLineStart
<1>6. l + 2 \notin LineStarts(t) /\ l + 3 \notin LineStarts(t)
  <2>1. (l + 2) - 1 = l + 1 /\ l + 2 # 1
    OBVIOUS
  <2>2. t[l + 1].part = "head" /\ t[l + 3].part = "newline"
    BY <1>1 DEF Piece
  <2> QED
    BY <2>1, <2>2 DEF LineStarts
<1>7. LineStarts(t) \subseteq 1 .. l + 3 /\ LineStarts(s) \subseteq 1 .. l
  BY <1>3 DEF LineStarts
<1>8. \A j \in 1 .. l + 3 : j \in 1 .. l \/ j = l + 1 \/ j = l + 2 \/ j = l + 3
  OBVIOUS
<1>9. l + 1 \notin 1 .. l
  OBVIOUS
<1> QED
  BY <1>1, <1>4, <1>5, <1>6, <1>7, <1>8, <1>9

HeadBehind(t, s, i, l) ==
  /\ l \in Nat /\ l = Len(s) /\ t \in Seq(Pieces) /\ Len(t) = l + 1
  /\ \A j \in 1 .. l : t[j] = s[j]
  /\ t[l + 1] = Piece(i, "head")
  /\ LineStarts(t) = LineStarts(s) \cup (IF AtLineStart(s) THEN {l + 1} ELSE {})

LEMMA WithHead ==
  ASSUME NEW s \in Seq(Pieces), NEW i \in Entries
  PROVE  HeadBehind(Headed(s, i), s, i, Len(s))
<1> DEFINE t == Headed(s, i)
<1> HIDE DEF t
<1>0. PICK l \in Nat : l = Len(s)
  BY LenProperties
<1>1. Piece(i, "head") \in Pieces
  BY DEF Piece, Pieces
<1>2. t = Append(s, Piece(i, "head"))
  BY <1>1, AppendIsConcat DEF Headed, t
<1>3. /\ t \in Seq(Pieces) /\ Len(t) = l + 1
      /\ \A j \in 1 .. l : t[j] = s[j]
      /\ t[l + 1] = Piece(i, "head")
  BY <1>0, <1>1, <1>2, AppendProperties
<1>4. DOMAIN s = 1 .. l /\ DOMAIN t = 1 .. l + 1
  BY <1>0, <1>3, LenProperties
<1>5. ASSUME NEW j \in 1 .. l PROVE j \in LineStarts(t) <=> j \in LineStarts(s)
  <2>1. j # 1 => j - 1 \in 1 .. l
    OBVIOUS
  <2>2. j \in 1 .. l + 1
    OBVIOUS
  <2> QED
    BY <1>3, <1>4, <2>1, <2>2 DEF LineStarts
<1>6. l + 1 \in LineStarts(t) <=> AtLineStart(s)
  <2>1. l + 1 \in 1 .. l + 1 /\ (l + 1) - 1 = l /\ (l + 1 = 1 <=> l = 0) /\ (l # 0 => t[l] = s[l])
    BY <1>3
  <2>2. t[l + 1].part # "newline"
    BY <1>3 DEF Piece
  <2> QED
    BY <1>0, <1>4, <2>1, <2>2 DEF LineStarts, AtLineStart
<1>7. LineStarts(t) \subseteq 1 .. l + 1 /\ LineStarts(s) \subseteq 1 .. l
  BY <1>4 DEF LineStarts
<1>8. \A j \in 1 .. l + 1 : j \in 1 .. l \/ j = l + 1
  OBVIOUS
<1>9. l + 1 \notin 1 .. l
  OBVIOUS
<1> QED
  <2>1. LineStarts(t) = LineStarts(s) \cup (IF AtLineStart(s) THEN {l + 1} ELSE {})
    BY <1>5, <1>6, <1>7, <1>8, <1>9
  <2> QED
    BY <1>0, <1>3, <2>1 DEF t, HeadBehind

LEMMA EntryStays ==
  ASSUME NEW s \in Seq(Pieces), NEW t \in Seq(Pieces), Extends(t, s), NEW i, HasEntry(s, i)
  PROVE  HasEntry(t, i)
<1>1. PICK j \in Parseable(s) : s[j].entry = i
  BY DEF HasEntry
<1>2. j \in Parseable(t) /\ j \in 1 .. Len(s)
  <2>1. Len(s) \in Nat
    BY LenProperties
  <2> QED
    BY <1>1, <2>1, ParseableExtends, ParseableIs
<1> QED
  BY <1>1, <1>2 DEF HasEntry, Extends

(* The whole line of the next entry behind such lines.                     *)
LEMMA LineAdded ==
  ASSUME NEW s, NEW n \in Nat, n \in Entries, NEW lost, LinesInv(s, n, lost)
  PROVE  LinesInv(Lined(s, n), n + 1, lost)
<1>0. /\ s \in Seq(Pieces) /\ n \in Nat /\ lost \in SUBSET (0 .. n - 1)
      /\ Ordered(s) /\ Younger(s, n) /\ HeadsFirst(s)
      /\ Settled(s, n, lost)
      /\ AtLineStart(s) \/ n - 1 \in lost
      /\ Counted(s, n, lost)
  BY DEF LinesInv
<1>1. PICK t : t = Lined(s, n)
  OBVIOUS
<1>2. PICK l \in Nat : l = Len(s) /\ LineBehind(t, s, n, l)
  BY <1>0, <1>1, WithLine, LenProperties
<1>3. /\ t \in Seq(Pieces) /\ Len(t) = l + 3
      /\ \A j \in 1 .. l : t[j] = s[j]
      /\ t[l + 1] = Piece(n, "head") /\ t[l + 2] = Piece(n, "tail")
      /\ t[l + 3] = Piece(n, "newline")
  BY <1>2 DEF LineBehind
<1>4. /\ \A j \in 1 .. l + 3 : j \in 1 .. l \/ j = l + 1 \/ j = l + 2 \/ j = l + 3
      /\ \A j \in 1 .. l : j \in 1 .. l + 3
  OBVIOUS
<1>5. \A j \in 1 .. l : s[j] \in Pieces /\ s[j].entry \in Nat /\ s[j].entry < n
  <2>1. \A j \in 1 .. l : s[j] \in Pieces
    BY <1>0, <1>2, ElementOfSeq
  <2> QED
    BY <1>0, <1>2, <2>1 DEF Pieces, Entries, Younger
<1>6. /\ t[l + 1].entry = n /\ t[l + 1].part = "head"
      /\ t[l + 2].entry = n /\ t[l + 2].part = "tail"
      /\ t[l + 3].entry = n /\ t[l + 3].part = "newline"
  BY <1>3 DEF Piece
<1>7. Ordered(t)
  <2> SUFFICES ASSUME NEW j \in 1 .. l + 3, NEW k \in 1 .. l + 3, j < k
               PROVE  /\ t[j].entry <= t[k].entry
                      /\ t[j].part = t[k].part => t[j].entry < t[k].entry
    BY <1>3 DEF Ordered
  <2>1. CASE k \in 1 .. l
    <3>1. j \in 1 .. l
      BY <2>1
    <3> QED
      BY <1>0, <1>2, <1>3, <2>1, <3>1 DEF Ordered
  <2>2. CASE k \notin 1 .. l /\ j \in 1 .. l
    <3>1. t[k].entry = n
      BY <1>4, <1>6, <2>2
    <3>2. t[j].entry \in Nat /\ t[j].entry < n
      BY <1>3, <1>5, <2>2
    <3> QED
      BY <3>1, <3>2
  <2>3. CASE j \notin 1 .. l
    <3>1. \/ j = l + 1 /\ (k = l + 2 \/ k = l + 3)
          \/ j = l + 2 /\ k = l + 3
      BY <2>3
    <3> QED
      BY <1>6, <3>1
  <2> QED
    BY <2>1, <2>2, <2>3
<1>8. Younger(t, n + 1)
  <2> SUFFICES ASSUME NEW j \in 1 .. l + 3 PROVE t[j].entry < n + 1
    BY <1>3 DEF Younger
  <2>1. CASE j \in 1 .. l
    <3>1. t[j].entry \in Nat /\ t[j].entry < n
      BY <1>3, <1>5, <2>1
    <3> QED
      BY <3>1
  <2>2. CASE j \notin 1 .. l
    BY <1>4, <1>6, <2>2
  <2> QED
    BY <2>1, <2>2
<1>9. HeadsFirst(t)
  <2> SUFFICES ASSUME NEW j \in 1 .. l + 3, t[j].part = "tail"
               PROVE  j > 1 /\ t[j - 1].part = "head"
    BY <1>3 DEF HeadsFirst
  <2>1. CASE j \in 1 .. l
    <3>1. j > 1 /\ s[j - 1].part = "head"
      BY <1>0, <1>2, <1>3, <2>1 DEF HeadsFirst
    <3>2. j - 1 \in 1 .. l
      BY <2>1, <3>1
    <3> QED
      BY <1>3, <3>1, <3>2
  <2>2. CASE j \notin 1 .. l
    <3>1. j = l + 2
      BY <1>4, <1>6, <2>2
    <3>2. j > 1 /\ j - 1 = l + 1
      BY <3>1
    <3> QED
      BY <1>6, <3>2
  <2> QED
    BY <2>1, <2>2
<1>10. Extends(t, s)
  BY <1>2, <1>3 DEF Extends
<1>11. Settled(t, n + 1, lost)
  <2> SUFFICES ASSUME NEW i \in 0 .. n
               PROVE  i \in lost \/ (i > 0 /\ i - 1 \in lost) \/ HasEntry(t, i)
    BY DEF Settled
  <2>1. CASE i \in 0 .. n - 1
    <3>1. i \in lost \/ (i > 0 /\ i - 1 \in lost) \/ HasEntry(s, i)
      BY <1>0, <2>1 DEF Settled
    <3> QED
      BY <1>0, <1>3, <1>10, <3>1, EntryStays
  <2>2. CASE i = n /\ AtLineStart(s)
    <3>1. l + 3 \in 3 .. Len(t)
      BY <1>3
    <3>2. (l + 3) - 2 = l + 1 /\ (l + 3) - 1 = l + 2 /\ (l + 3) - 3 = l /\ (l + 3 = 3 <=> l = 0)
      OBVIOUS
    <3>3. l # 0 => t[l].part = "newline"
      <4>1. l # 0 => l \in 1 .. l
        OBVIOUS
      <4> QED
        BY <1>2, <1>3, <2>2, <4>1 DEF AtLineStart
    <3>4. EndsEntry(t, l + 3)
      BY <1>3, <1>6, <3>2, <3>3 DEF EndsEntry
    <3>5. l + 3 \in Parseable(t)
      BY <1>3, <3>1, <3>4, ParseableIs
    <3> QED
      BY <1>6, <2>2, <3>5 DEF HasEntry
  <2>3. CASE i = n /\ n - 1 \in lost
    <3>1. n - 1 \in 0 .. n - 1
      BY <1>0, <2>3
    <3>2. n > 0
      BY <3>1
    <3> QED
      BY <2>3, <3>2
  <2>4. i \in 0 .. n - 1 \/ i = n
    OBVIOUS
  <2> QED
    BY <1>0, <2>1, <2>2, <2>3, <2>4
<1>12. AtLineStart(t)
  BY <1>3, <1>6 DEF AtLineStart
<1>13. Counted(t, n + 1, lost)
  <2>1. PICK a \in Nat, b \in Nat, c \in Nat : /\ a = Cardinality(LineStarts(s))
                                               /\ b = Cardinality(LineStarts(t))
                                               /\ c = Cardinality(lost)
    BY <1>0, <1>3, StartsFinite, LostFinite
  <2>2. n + (IF AtLineStart(s) THEN 0 ELSE 1) <= a + c
    BY <1>0, <2>1 DEF Counted
  <2>3. LineStarts(t) = LineStarts(s) \cup (IF AtLineStart(s) THEN {l + 1} ELSE {})
    BY <1>0, <1>1, <1>2, StartsWithLine
  <2>4. LineStarts(s) \in SUBSET (1 .. l) /\ IsFiniteSet(LineStarts(s))
    BY <1>0, <1>2, StartsFinite
  <2>5. b = a + (IF AtLineStart(s) THEN 1 ELSE 0)
    <3>1. CASE AtLineStart(s)
      <4>1. l + 1 \notin LineStarts(s)
        BY <2>4
      <4>2. Cardinality(LineStarts(s) \cup {l + 1}) = Cardinality(LineStarts(s)) + 1
        BY <2>4, <4>1, FS_AddElement
      <4>3. LineStarts(t) = LineStarts(s) \cup {l + 1}
        BY <2>3, <3>1
      <4> QED
        BY <2>1, <3>1, <4>2, <4>3
    <3>2. CASE ~AtLineStart(s)
      BY <2>1, <2>3, <3>2
    <3> QED
      BY <3>1, <3>2
  <2>6. (n + 1) + 0 <= b + c
    <3>1. CASE AtLineStart(s)
      BY <2>1, <2>2, <2>5, <3>1
    <3>2. CASE ~AtLineStart(s)
      BY <2>1, <2>2, <2>5, <3>2
    <3> QED
      BY <3>1, <3>2
  <2> QED
    BY <1>12, <2>1, <2>6 DEF Counted
<1>14. lost \in SUBSET (0 .. (n + 1) - 1) /\ n + 1 \in Nat
  BY <1>0
<1>15. Settled(t, n + 1, lost) /\ (AtLineStart(t) \/ (n + 1) - 1 \in lost)
  BY <1>11, <1>12
<1>16. LinesInv(t, n + 1, lost)
  BY <1>3, <1>7, <1>8, <1>9, <1>13, <1>14, <1>15 DEF LinesInv
<1> QED
  BY <1>1, <1>16

LEMMA LossGrows ==
  ASSUME NEW n \in Nat, NEW lost \in SUBSET (0 .. n - 1)
  PROVE  /\ lost \cup {n} \in SUBSET (0 .. n)
         /\ Cardinality(lost \cup {n}) = Cardinality(lost) + 1
<1>1. IsFiniteSet(lost)
  BY LostFinite
<1>2. n \notin lost
  OBVIOUS
<1>3. Cardinality(lost \cup {n}) = Cardinality(lost) + 1
  BY <1>1, <1>2, FS_AddElement
<1>4. lost \cup {n} \in SUBSET (0 .. n)
  OBVIOUS
<1> QED
  BY <1>3, <1>4

(* The next entry is dropped before anything of it is written.             *)
LEMMA LineDropped ==
  ASSUME NEW s, NEW n \in Nat, NEW lost, LinesInv(s, n, lost)
  PROVE  LinesInv(s, n + 1, lost \cup {n})
<1>0. /\ s \in Seq(Pieces) /\ n \in Nat /\ lost \in SUBSET (0 .. n - 1)
      /\ Ordered(s) /\ Younger(s, n) /\ HeadsFirst(s)
      /\ Settled(s, n, lost)
      /\ Counted(s, n, lost)
  BY DEF LinesInv
<1>1. PICK more : more = lost \cup {n}
  OBVIOUS
<1>2. more \in SUBSET (0 .. n) /\ Cardinality(more) = Cardinality(lost) + 1
  BY <1>0, <1>1, LossGrows
<1>3. Younger(s, n + 1)
  <2>1. \A j \in 1 .. Len(s) : s[j] \in Pieces
    BY <1>0, ElementOfSeq
  <2>2. \A j \in 1 .. Len(s) : s[j].entry \in Nat /\ s[j].entry < n
    BY <1>0, <2>1 DEF Pieces, Entries, Younger
  <2> QED
    BY <2>2 DEF Younger
<1>4. Settled(s, n + 1, more)
  <2> SUFFICES ASSUME NEW i \in 0 .. n
               PROVE  i \in more \/ (i > 0 /\ i - 1 \in more) \/ HasEntry(s, i)
    BY DEF Settled
  <2>1. i \in 0 .. n - 1 \/ i = n
    OBVIOUS
  <2> QED
    BY <1>0, <1>1, <2>1 DEF Settled
<1>5. Counted(s, n + 1, more)
  <2>1. PICK a \in Nat, c \in Nat : a = Cardinality(LineStarts(s)) /\ c = Cardinality(lost)
    BY <1>0, StartsFinite, LostFinite
  <2>2. PICK x \in {0, 1} : x = IF AtLineStart(s) THEN 0 ELSE 1
    OBVIOUS
  <2>3. n + x <= a + c
    BY <1>0, <2>1, <2>2 DEF Counted
  <2>4. (n + 1) + x <= a + (c + 1)
    BY <2>3
  <2> QED
    BY <1>2, <2>1, <2>2, <2>4 DEF Counted
<1>6. more \in SUBSET (0 .. (n + 1) - 1) /\ n + 1 \in Nat /\ (n + 1) - 1 \in more
  BY <1>1, <1>2
<1>7. LinesInv(s, n + 1, more)
  BY <1>0, <1>3, <1>4, <1>5, <1>6 DEF LinesInv
<1> QED
  BY <1>1, <1>7

(* Of the next entry the head is written, and the rest is dropped.         *)
LEMMA HeadDropped ==
  ASSUME NEW s, NEW n \in Nat, n \in Entries, NEW lost, LinesInv(s, n, lost)
  PROVE  LinesInv(Headed(s, n), n + 1, lost \cup {n})
<1>0. /\ s \in Seq(Pieces) /\ n \in Nat /\ lost \in SUBSET (0 .. n - 1)
      /\ Ordered(s) /\ Younger(s, n) /\ HeadsFirst(s)
      /\ Settled(s, n, lost)
      /\ Counted(s, n, lost)
  BY DEF LinesInv
<1>a. PICK more : more = lost \cup {n}
  OBVIOUS
<1>b. more \in SUBSET (0 .. n) /\ Cardinality(more) = Cardinality(lost) + 1
  BY <1>0, <1>a, LossGrows
<1>1. PICK t : t = Headed(s, n)
  OBVIOUS
<1>2. PICK l \in Nat : l = Len(s) /\ HeadBehind(t, s, n, l)
  BY <1>0, <1>1, WithHead, LenProperties
<1>3. /\ t \in Seq(Pieces) /\ Len(t) = l + 1
      /\ \A j \in 1 .. l : t[j] = s[j]
      /\ t[l + 1] = Piece(n, "head")
      /\ LineStarts(t) = LineStarts(s) \cup (IF AtLineStart(s) THEN {l + 1} ELSE {})
  BY <1>2 DEF HeadBehind
<1>4. /\ \A j \in 1 .. l + 1 : j \in 1 .. l \/ j = l + 1
      /\ \A j \in 1 .. l : j \in 1 .. l + 1
  OBVIOUS
<1>5. \A j \in 1 .. l : s[j] \in Pieces /\ s[j].entry \in Nat /\ s[j].entry < n
  <2>1. \A j \in 1 .. l : s[j] \in Pieces
    BY <1>0, <1>2, ElementOfSeq
  <2> QED
    BY <1>0, <1>2, <2>1 DEF Pieces, Entries, Younger
<1>6. t[l + 1].entry = n /\ t[l + 1].part = "head"
  BY <1>3 DEF Piece
<1>7. Ordered(t)
  <2> SUFFICES ASSUME NEW j \in 1 .. l + 1, NEW k \in 1 .. l + 1, j < k
               PROVE  /\ t[j].entry <= t[k].entry
                      /\ t[j].part = t[k].part => t[j].entry < t[k].entry
    BY <1>3 DEF Ordered
  <2>0. j \in 1 .. l
    OBVIOUS
  <2>1. CASE k \in 1 .. l
    BY <1>0, <1>2, <1>3, <2>0, <2>1 DEF Ordered
  <2>2. CASE k = l + 1
    <3>1. t[k].entry = n
      BY <1>6, <2>2
    <3>2. t[j].entry \in Nat /\ t[j].entry < n
      BY <1>3, <1>5, <2>0
    <3> QED
      BY <3>1, <3>2
  <2> QED
    BY <1>4, <2>1, <2>2
<1>8. Younger(t, n + 1)
  <2> SUFFICES ASSUME NEW j \in 1 .. l + 1 PROVE t[j].entry < n + 1
    BY <1>3 DEF Younger
  <2>1. CASE j \in 1 .. l
    <3>1. t[j].entry \in Nat /\ t[j].entry < n
      BY <1>3, <1>5, <2>1
    <3> QED
      BY <3>1
  <2>2. CASE j = l + 1
    BY <1>6, <2>2
  <2> QED
    BY <1>4, <2>1, <2>2
<1>9. HeadsFirst(t)
  <2> SUFFICES ASSUME NEW j \in 1 .. l + 1, t[j].part = "tail"
               PROVE  j > 1 /\ t[j - 1].part = "head"
    BY <1>3 DEF HeadsFirst
  <2>1. j \in 1 .. l
    BY <1>4, <1>6
  <2>2. j > 1 /\ s[j - 1].part = "head"
    BY <1>0, <1>2, <1>3, <2>1 DEF HeadsFirst
  <2>3. j - 1 \in 1 .. l
    BY <2>1, <2>2
  <2> QED
    BY <1>3, <2>2, <2>3
<1>10. Extends(t, s)
  BY <1>2, <1>3 DEF Extends
<1>11. Settled(t, n + 1, more)
  <2> SUFFICES ASSUME NEW i \in 0 .. n
               PROVE  i \in more \/ (i > 0 /\ i - 1 \in more) \/ HasEntry(t, i)
    BY DEF Settled
  <2>1. CASE i \in 0 .. n - 1
    <3>1. i \in lost \/ (i > 0 /\ i - 1 \in lost) \/ HasEntry(s, i)
      BY <1>0, <2>1 DEF Settled
    <3> QED
      BY <1>0, <1>a, <1>3, <1>10, <3>1, EntryStays
  <2>2. i \in 0 .. n - 1 \/ i = n
    OBVIOUS
  <2> QED
    BY <1>a, <2>1, <2>2
<1>12. ~AtLineStart(t)
  BY <1>3, <1>6 DEF AtLineStart
<1>13. Counted(t, n + 1, more)
  <2>1. PICK a \in Nat, b \in Nat, c \in Nat : /\ a = Cardinality(LineStarts(s))
                                               /\ b = Cardinality(LineStarts(t))
                                               /\ c = Cardinality(lost)
    BY <1>0, <1>3, StartsFinite, LostFinite
  <2>2. n + (IF AtLineStart(s) THEN 0 ELSE 1) <= a + c
    BY <1>0, <2>1 DEF Counted
  <2>4. LineStarts(s) \in SUBSET (1 .. l) /\ IsFiniteSet(LineStarts(s))
    BY <1>0, <1>2, StartsFinite
  <2>5. b = a + (IF AtLineStart(s) THEN 1 ELSE 0)
    <3>1. CASE AtLineStart(s)
      <4>1. l + 1 \notin LineStarts(s)
        BY <2>4
      <4>2. Cardinality(LineStarts(s) \cup {l + 1}) = Cardinality(LineStarts(s)) + 1
        BY <2>4, <4>1, FS_AddElement
      <4>3. LineStarts(t) = LineStarts(s) \cup {l + 1}
        BY <1>3, <3>1
      <4> QED
        BY <2>1, <3>1, <4>2, <4>3
    <3>2. CASE ~AtLineStart(s)
      BY <1>3, <2>1, <3>2
    <3> QED
      BY <3>1, <3>2
  <2>6. (n + 1) + 1 <= b + (c + 1)
    <3>1. CASE AtLineStart(s)
      BY <2>1, <2>2, <2>5, <3>1
    <3>2. CASE ~AtLineStart(s)
      BY <2>1, <2>2, <2>5, <3>2
    <3> QED
      BY <3>1, <3>2
  <2> QED
    BY <1>b, <1>12, <2>1, <2>6 DEF Counted
<1>14. more \in SUBSET (0 .. (n + 1) - 1) /\ n + 1 \in Nat /\ (n + 1) - 1 \in more
  BY <1>a, <1>b
<1>16. LinesInv(t, n + 1, more)
  BY <1>3, <1>7, <1>8, <1>9, <1>11, <1>13, <1>14 DEF LinesInv
<1> QED
  BY <1>a, <1>1, <1>16

(* Such lines are never more than the entries: each starts with a head.    *)
LEMMA StartsBound ==
  ASSUME NEW s, NEW n \in Nat, NEW lost, LinesInv(s, n, lost)
  PROVE  Cardinality(LineStarts(s)) <= n
<1>0. s \in Seq(Pieces) /\ Ordered(s) /\ Younger(s, n) /\ HeadsFirst(s)
  BY DEF LinesInv
<1>1. /\ LineStarts(s) \in SUBSET (1 .. Len(s)) /\ Len(s) \in Nat
      /\ IsFiniteSet(LineStarts(s)) /\ Cardinality(LineStarts(s)) \in Nat
  BY <1>0, StartsFinite
<1>2. ASSUME NEW j \in LineStarts(s) PROVE s[j].part = "head" /\ s[j].entry \in 0 .. n - 1
  <2>1. j \in 1 .. Len(s) /\ s[j] \in Pieces
    BY <1>0, <1>1, ElementOfSeq
  <2>2. s[j].part # "newline" /\ (j = 1 \/ s[j - 1].part = "newline")
    BY DEF LineStarts
  <2>3. s[j].part # "tail"
    BY <1>0, <2>1, <2>2 DEF HeadsFirst
  <2>4. s[j].entry \in Nat /\ s[j].entry < n
    BY <1>0, <2>1 DEF Pieces, Entries, Younger
  <2> QED
    BY <2>1, <2>2, <2>3, <2>4 DEF Pieces
<1> DEFINE f == [j \in LineStarts(s) |-> s[j].entry]
           T == 0 .. n - 1
<1>3. f \in Injection(LineStarts(s), T)
  <2>1. f \in [LineStarts(s) -> T]
    BY <1>2
  <2>2. ASSUME NEW j \in LineStarts(s), NEW k \in LineStarts(s), f[j] = f[k]
        PROVE  j = k
    <3>1. s[j].entry = s[k].entry /\ s[j].part = s[k].part /\ s[j].entry \in Nat
      BY <1>2, <2>2
    <3>2. j \in 1 .. Len(s) /\ k \in 1 .. Len(s)
      BY <1>1
    <3>3. ~(j < k) /\ ~(k < j)
      BY <1>0, <3>1, <3>2 DEF Ordered
    <3> QED
      BY <1>1, <3>2, <3>3
  <2> QED
    BY <2>1, <2>2 DEF Injection, IsInjective
<1>4. IsFiniteSet(T) /\ Cardinality(T) = n
  <2>1. 0 \in Int /\ n - 1 \in Int
    OBVIOUS
  <2>2. IsFiniteSet(0 .. n - 1) /\ Cardinality(0 .. n - 1) = IF 0 > n - 1 THEN 0 ELSE n - 1 - 0 + 1
    BY <2>1, FS_Interval
  <2> QED
    BY <2>2
<1> HIDE DEF f, T
<1>5. Cardinality(LineStarts(s)) <= Cardinality(T)
  BY <1>3, <1>4, FS_Injection
<1> QED
  BY <1>4, <1>5

-----------------------------------------------------------------------------
(* The inductive invariants of the file.                                   *)

(* The entries whose append is over, or has put all of the line into the   *)
(* buffer.                                                                 *)
Done == IF writer \in {"room", "direct"} THEN begun - 1 ELSE begun

Half(i) == <<Piece(i, "tail")>>

(* The file and the buffer are lines of the entries up to Done; a long     *)
(* line is written behind such lines, and may be so by half.               *)
StreamInv ==
  IF writer = "direct"
    THEN /\ buffer = <<>>
         /\ \/ direct = Json(Done) /\ LinesInv(file, Done, dropped)
            \/ /\ direct = Half(Done)
               /\ \E base \in Seq(Pieces) :
                    LinesInv(base, Done, dropped) /\ file = Headed(base, Done)
    ELSE direct = <<>> /\ LinesInv(file \o buffer, Done, dropped)

(* The lines that have not reached the file are counted by the failures.   *)
Waiting(s, f) == {j \in LineStarts(s) : j > f}

AccountInv ==
  /\ Cardinality(dropped) <= failures
  /\ writer # "direct" =>
       Cardinality(Waiting(file \o buffer, Len(file))) + Cardinality(dropped)
         <= failures + (IF writer = "flush" THEN 1 ELSE 0)

FileShape == writer # "idle" => begun > 0
WriterTypes ==
  /\ file \in Seq(Pieces) /\ buffer \in Seq(Pieces) /\ direct \in Seq(Pieces)
  /\ writer \in {"idle", "room", "direct", "flush"}
  /\ long \subseteq Entries /\ ok \subseteq Entries /\ dropped \subseteq Entries
  /\ begun \in 0 .. MaxEntries /\ failures \in 0 .. MaxFailures

HostFileInv == WriterTypes /\ FileShape /\ StreamInv /\ AccountInv /\ OnlyDroppedLost

LEMMA WaitingFinite ==
  ASSUME NEW s \in Seq(Pieces), NEW f \in Nat
  PROVE  IsFiniteSet(Waiting(s, f)) /\ Cardinality(Waiting(s, f)) \in Nat
<1>1. Waiting(s, f) \in SUBSET LineStarts(s) /\ IsFiniteSet(LineStarts(s))
  BY StartsFinite DEF Waiting
<1> QED
  BY <1>1, FS_Subset, FS_CardinalityType

LEMMA WaitingMoves ==
  ASSUME NEW s \in Seq(Pieces), NEW f \in Nat, NEW g \in Nat, f <= g
  PROVE  Cardinality(Waiting(s, g)) <= Cardinality(Waiting(s, f))
<1>1. \A j \in LineStarts(s) : j \in Nat
  BY StartsFinite
<1>2. Waiting(s, g) \in SUBSET Waiting(s, f)
  BY <1>1 DEF Waiting
<1> QED
  BY <1>2, WaitingFinite, FS_Subset

LEMMA WaitingNone ==
  ASSUME NEW s \in Seq(Pieces)
  PROVE  Cardinality(Waiting(s, Len(s))) = 0
<1>1. Waiting(s, Len(s)) = {}
  BY StartsFinite DEF Waiting
<1> QED
  BY <1>1, FS_EmptySet

LEMMA WaitingWithLine ==
  ASSUME NEW s \in Seq(Pieces), NEW i \in Entries, NEW f \in Nat, NEW t, t = Lined(s, i)
  PROVE  Cardinality(Waiting(t, f)) <= Cardinality(Waiting(s, f)) + 1
<1>1. t \in Seq(Pieces)
  BY WithLine DEF LineBehind
<1>2. PICK a \in Nat, b \in Nat : /\ a = Cardinality(Waiting(s, f))
                                  /\ b = Cardinality(Waiting(t, f))
  BY <1>1, WaitingFinite
<1> DEFINE W == Waiting(s, f)
           x == Len(s) + 1
<1>3. Waiting(t, f) \in SUBSET (W \cup {x})
  BY StartsWithLine DEF Waiting
<1> HIDE DEF x
<1>4. IsFiniteSet(W \cup {x}) /\ Cardinality(W \cup {x}) \in {a, a + 1}
  <2>1. IsFiniteSet(W)
    BY WaitingFinite
  <2> HIDE DEF W
  <2>2. /\ IsFiniteSet(W \cup {x})
        /\ Cardinality(W \cup {x}) = IF x \in W THEN Cardinality(W) ELSE Cardinality(W) + 1
    BY <2>1, FS_AddElement
  <2> QED
    BY <1>2, <2>2 DEF W
<1> HIDE DEF W
<1>5. Cardinality(Waiting(t, f)) <= Cardinality(W \cup {x})
  BY <1>3, <1>4, FS_Subset
<1> QED
  BY <1>2, <1>4, <1>5 DEF W

(* When but the newline of a line is left to write, no line is waiting.    *)
LEMMA WaitingForNewline ==
  ASSUME NEW s \in Seq(Pieces), NEW i \in Entries, NEW t, t = Lined(s, i),
         NEW f, f = Len(t) - 1
  PROVE  Cardinality(Waiting(t, f)) = 0
<1>1. PICK l \in Nat : l = Len(s) /\ LineBehind(t, s, i, l)
  BY WithLine, LenProperties
<1>2. /\ t \in Seq(Pieces) /\ Len(t) = l + 3 /\ t[l + 3] = Piece(i, "newline")
  BY <1>1 DEF LineBehind
<1>3. f = l + 2 /\ l + 3 \notin LineStarts(t)
  BY <1>2 DEF LineStarts, Piece
<1>4. \A j \in 1 .. l + 3 : j > l + 2 => j = l + 3
  OBVIOUS
<1>5. Waiting(t, f) = {}
  BY <1>2, <1>3, <1>4, StartsFinite DEF Waiting
<1> QED
  BY <1>5, FS_EmptySet

LEMMA HalfType ==
  ASSUME NEW i \in Entries
  PROVE  Half(i) \in Seq(Pieces) /\ Len(Half(i)) = 1
BY DEF Half, Piece, Pieces

(* How a line comes together.                                              *)
LEMMA LineGrows ==
  ASSUME NEW s \in Seq(Pieces), NEW i \in Entries
  PROVE  /\ (s \o Json(i)) \o Newline(i) = Lined(s, i)
         /\ Headed(s, i) \o Half(i) = s \o Json(i)
         /\ SubSeq(Json(i), 1, 1) = <<Piece(i, "head")>>
         /\ SubSeq(Json(i), 1, 2) = Json(i)
         /\ SubSeq(Json(i), 2, 2) = Half(i)
         /\ Half(i) \in Seq(Pieces) /\ Len(Half(i)) = 1
         /\ SubSeq(Half(i), 1, 1) = Half(i)
<1>1. Json(i) \in Seq(Pieces) /\ Newline(i) \in Seq(Pieces) /\ Len(Json(i)) = 2
  BY PieceTypes
<1>2. (s \o Json(i)) \o Newline(i) = Lined(s, i)
  BY <1>1, ConcatAssociative DEF Lined
<1>3. <<Piece(i, "head")>> \in Seq(Pieces) /\ Half(i) \in Seq(Pieces) /\ Len(Half(i)) = 1
  BY DEF Half, Piece, Pieces
<1>4. <<Piece(i, "head")>> \o Half(i) = Json(i)
  <2>1. PICK a \in Seq(Pieces), b \in Seq(Pieces) :
          a = <<Piece(i, "head")>> /\ b = Half(i) /\ Len(a) = 1 /\ Len(b) = 1
    BY <1>3
  <2>2. /\ a \o b \in Seq(Pieces) /\ Len(a \o b) = 1 + 1
        /\ \A k \in 1 .. 1 + 1 : (a \o b)[k] = IF k <= 1 THEN a[k] ELSE b[k - 1]
    <3>1. /\ a \o b \in Seq(Pieces) /\ Len(a \o b) = Len(a) + Len(b)
          /\ \A k \in 1 .. Len(a) + Len(b) :
               (a \o b)[k] = IF k <= Len(a) THEN a[k] ELSE b[k - Len(a)]
      BY ConcatProperties
    <3>2. Len(a) = 1 /\ Len(b) = 1
      BY <2>1
    <3> QED
      BY <3>1, <3>2
  <2>3. (a \o b)[1] = a[1] /\ (a \o b)[2] = b[1]
    BY <2>2
  <2>4. a[1] = Json(i)[1] /\ b[1] = Json(i)[2]
    BY <2>1, PieceTypes DEF Half
  <2>5. \A k \in 1 .. 1 + 1 : k = 1 \/ k = 2
    OBVIOUS
  <2>6. \A k \in 1 .. Len(a \o b) : (a \o b)[k] = Json(i)[k]
    BY <2>2, <2>3, <2>4, <2>5
  <2>7. Len(a \o b) = Len(Json(i))
    BY <1>1, <2>2
  <2>8. a \o b = Json(i)
    BY <1>1, <2>2, <2>6, <2>7, SeqEqual
  <2> QED
    BY <2>1, <2>8
<1>5. Headed(s, i) \o Half(i) = s \o Json(i)
  BY <1>3, <1>4, ConcatAssociative DEF Headed
<1>6. SubSeq(Json(i), 1, 2) = Json(i) /\ SubSeq(Half(i), 1, 1) = Half(i)
  BY <1>1, <1>3, SubSeqFull
<1>7. SubSeq(Json(i), 1, 1) = <<Piece(i, "head")>> /\ SubSeq(Json(i), 2, 2) = Half(i)
  <2>1. PICK a \in Seq(Pieces), b \in Seq(Pieces) :
          a = <<Piece(i, "head")>> /\ b = Half(i) /\ Len(a) = 1 /\ Len(b) = 1
    BY <1>3
  <2>2. SubSeq(a \o b, 1, 1) = SubSeq(a, 1, 1)
    <3>1. 1 \in 1 .. Len(a)
      BY <2>1
    <3> QED
      BY <3>1, SubSeqOfConcat1
  <2>3. SubSeq(a \o b, 2, 2) = SubSeq(b, 2 - Len(a), 2 - Len(a))
    <3>1. 2 \in Len(a) + 1 .. Len(a) + Len(b)
      BY <2>1
    <3> QED
      BY <3>1, SubSeqOfConcat2
  <2>4. SubSeq(a, 1, 1) = a /\ SubSeq(b, 1, 1) = b /\ 2 - Len(a) = 1
    <3>1. SubSeq(a, 1, Len(a)) = a /\ SubSeq(b, 1, Len(b)) = b
      BY SubSeqFull
    <3>2. Len(a) = 1 /\ Len(b) = 1
      BY <2>1
    <3> QED
      BY <3>1, <3>2
  <2>5. a \o b = Json(i)
    BY <1>4, <2>1
  <2> QED
    BY <2>1, <2>2, <2>3, <2>4, <2>5
<1> QED
  BY <1>2, <1>3, <1>5, <1>6, <1>7

LEMMA LineBuffered ==
  ASSUME NEW s \in Seq(Pieces), NEW b \in Seq(Pieces), NEW i \in Entries
  PROVE  s \o ((b \o Json(i)) \o Newline(i)) = Lined(s \o b, i)
<1>1. PICK x \in Seq(Pieces), y \in Seq(Pieces) : x = Json(i) /\ y = Newline(i)
  BY PieceTypes
<1>2. x \o y \in Seq(Pieces)
  BY ConcatProperties
<1>3. (b \o x) \o y = b \o (x \o y)
  BY ConcatAssociative
<1>4. ASSUME NEW z \in Seq(Pieces) PROVE (s \o b) \o z = s \o (b \o z)
  BY ConcatAssociative, SMTT(30)
<1>5. (s \o b) \o (x \o y) = s \o (b \o (x \o y))
  BY <1>2, <1>4
<1> QED
  BY <1>1, <1>3, <1>5 DEF Lined

(* What the host wrote stays; so does what was found to be there.          *)
LEMMA PresentStays ==
  ASSUME OnlyDroppedLost, ok' = ok, dropped \subseteq dropped',
         file \in Seq(Pieces), file' \in Seq(Pieces), Extends(file', file)
  PROVE  OnlyDroppedLost'
<1>1. ASSUME NEW j, Present(j) PROVE Present(j)'
  <2>1. HasEntry(file, j)
    BY <1>1 DEF Present, HasEntry
  <2>2. HasEntry(file', j)
    BY <2>1, EntryStays
  <2> QED
    BY <2>2 DEF Present, HasEntry
<1> QED
  BY <1>1 DEF OnlyDroppedLost

LEMMA ExtendsItself ==
  ASSUME NEW s \in Seq(Pieces)
  PROVE  Extends(s, s)
BY LenProperties DEF Extends

-----------------------------------------------------------------------------
(* Every step of the host keeps the invariants of the file.                *)

(* What they say of the numbers, for the provers of arithmetic.            *)
LEMMA Numbers ==
  ASSUME WriterTypes
  PROVE  /\ MaxEntries \in Nat /\ begun \in Nat /\ begun <= MaxEntries
         /\ failures \in Nat
         /\ \A i \in Nat : i < MaxEntries => i \in Entries
         /\ IsFiniteSet(dropped) /\ Cardinality(dropped) \in Nat
<1>1. MaxEntries \in Nat /\ begun \in 0 .. MaxEntries /\ failures \in Nat
  BY TranscriptFileAssumption DEF WriterTypes
<1>2. IsFiniteSet(Entries)
  <2>1. 0 \in Int /\ MaxEntries - 1 \in Int
    BY <1>1
  <2> QED
    BY <2>1, FS_Interval DEF Entries
<1>3. IsFiniteSet(dropped) /\ Cardinality(dropped) \in Nat
  BY <1>2, FS_Subset, FS_CardinalityType DEF WriterTypes
<1> QED
  BY <1>1, <1>3 DEF Entries

LEMMA AppendLineKeeps ==
  ASSUME HostFileInv, AppendLine
  PROVE  HostFileInv'
<1>0. WriterTypes /\ FileShape /\ StreamInv /\ AccountInv /\ OnlyDroppedLost
  BY DEF HostFileInv
<1>1. /\ writer = "idle" /\ begun < MaxEntries /\ begun' = begun + 1
      /\ UNCHANGED <<file, ok, dropped, failures>>
  BY DEF AppendLine
<1>2. PICK n \in Nat, d \in Nat, m \in Nat :
        n = begun /\ d = failures /\ m = Cardinality(dropped) /\ n \in Entries
  BY <1>0, <1>1, Numbers
<1>3. PICK s \in Seq(Pieces), f \in Nat : s = file \o buffer /\ f = Len(file)
  BY <1>0, ConcatProperties, LenProperties DEF WriterTypes
<1>4. direct = <<>> /\ LinesInv(s, n, dropped)
  BY <1>0, <1>1, <1>2, <1>3 DEF StreamInv, Done
<1>5. PICK w \in Nat : w = Cardinality(Waiting(s, f))
  BY WaitingFinite
<1>6. m <= d /\ w + m <= d + 0
  BY <1>0, <1>1, <1>2, <1>3, <1>5 DEF AccountInv
<1>7. /\ file \in Seq(Pieces) /\ buffer \in Seq(Pieces) /\ long \subseteq Entries
      /\ begun' \in 0 .. MaxEntries /\ begun' > 0 /\ begun' = n + 1 /\ n = (n + 1) - 1
      /\ file' = file /\ ok' = ok /\ dropped' = dropped /\ failures' = failures
      /\ ok \subseteq Entries /\ dropped \subseteq Entries /\ failures \in 0 .. MaxFailures
  <2>1. MaxEntries \in Nat /\ begun \in Nat
    BY <1>0, Numbers
  <2>2. begun + 1 \in 0 .. MaxEntries /\ begun + 1 > 0 /\ begun + 1 = n + 1
    BY <1>1, <1>2, <2>1
  <2> QED
    BY <1>0, <1>1, <2>2 DEF WriterTypes
<1>8. Json(n) \in Seq(Pieces) /\ Newline(n) \in Seq(Pieces) /\ <<>> \in Seq(Pieces)
  BY <1>2, PieceTypes, EmptySeq
<1>9. OnlyDroppedLost'
  BY <1>0, <1>7, ExtendsItself, PresentStays
<1>10. CASE Buffered(n) /\ UNCHANGED long
  <2>1. /\ buffer' = (buffer \o Json(n)) \o Newline(n) /\ writer' = "flush"
        /\ direct' = direct /\ long' = long
    BY <1>10 DEF Buffered
  <2>2. PICK t : t = Lined(s, n)
    OBVIOUS
  <2>3. file' \o buffer' = t
    <3>1. file \o ((buffer \o Json(n)) \o Newline(n)) = Lined(file \o buffer, n)
      BY <1>2, <1>7, LineBuffered
    <3> QED
      BY <1>3, <1>7, <2>1, <2>2, <3>1
  <2>4. LinesInv(t, n + 1, dropped)
    BY <1>2, <1>4, <2>2, LineAdded
  <2>5. WriterTypes'
    <3>1. buffer' \in Seq(Pieces)
      BY <1>7, <1>8, <2>1, ConcatProperties
    <3> QED
      BY <1>0, <1>7, <2>1, <3>1 DEF WriterTypes
  <2>6. FileShape' /\ StreamInv'
    <3>1. Done' = n + 1
      BY <1>7, <2>1 DEF Done
    <3>2. LinesInv(file' \o buffer', Done', dropped')
      BY <1>7, <2>3, <2>4, <3>1
    <3> QED
      BY <1>4, <1>7, <2>1, <3>2 DEF FileShape, StreamInv
  <2>7. AccountInv'
    <3>1. PICK v \in Nat : v = Cardinality(Waiting(t, f))
      BY <2>4, WaitingFinite DEF LinesInv
    <3>2. v <= w + 1
      BY <1>2, <1>5, <2>2, <3>1, WaitingWithLine
    <3>3. v + m <= d + 1
      BY <1>6, <3>2
    <3>4. Cardinality(Waiting(file' \o buffer', Len(file'))) = v
      BY <1>3, <1>7, <2>3, <3>1
    <3> QED
      BY <1>2, <1>6, <1>7, <2>1, <3>3, <3>4 DEF AccountInv
  <2> QED
    BY <1>9, <2>5, <2>6, <2>7 DEF HostFileInv
<1>11. CASE buffer = <<>> /\ Unbuffered(n) /\ long' = long \cup {n}
  <2>1. buffer = <<>> /\ buffer' = <<>> /\ direct' = Json(n) /\ writer' = "direct"
        /\ long' \subseteq Entries
    BY <1>2, <1>7, <1>11 DEF Unbuffered
  <2>2. Done' = n
    BY <1>7, <2>1 DEF Done
  <2>3. s = file
    BY <1>3, <1>7, <2>1, ConcatEmptySeq
  <2>4. LinesInv(file', Done', dropped') /\ direct' = Json(Done')
    BY <1>4, <1>7, <2>1, <2>2, <2>3
  <2>5. StreamInv'
    BY <2>1, <2>4 DEF StreamInv
  <2>6. WriterTypes' /\ FileShape'
    BY <1>7, <1>8, <2>1 DEF WriterTypes, FileShape
  <2>7. AccountInv'
    BY <1>2, <1>6, <1>7, <2>1 DEF AccountInv
  <2> QED
    BY <1>9, <2>5, <2>6, <2>7 DEF HostFileInv
<1>12. CASE /\ writer' = "room" /\ long' \in {long, long \cup {n}}
            /\ UNCHANGED <<buffer, direct>>
  <2>1. long' \subseteq Entries
    BY <1>2, <1>7, <1>12
  <2>2. Done' = n
    BY <1>7, <1>12 DEF Done
  <2>3. LinesInv(file' \o buffer', Done', dropped')
    BY <1>3, <1>4, <1>7, <1>12, <2>2
  <2>4. StreamInv'
    BY <1>4, <1>12, <2>3 DEF StreamInv
  <2>5. WriterTypes' /\ FileShape'
    BY <1>0, <1>7, <1>12, <2>1 DEF WriterTypes, FileShape
  <2>6. AccountInv'
    <3>1. Cardinality(Waiting(file' \o buffer', Len(file'))) = w
      BY <1>3, <1>5, <1>7, <1>12
    <3> QED
      BY <1>2, <1>6, <1>7, <1>12, <3>1 DEF AccountInv
  <2> QED
    BY <1>9, <2>4, <2>5, <2>6 DEF HostFileInv
<1>13. \/ Buffered(n) /\ UNCHANGED long
       \/ buffer = <<>> /\ Unbuffered(n) /\ long' = long \cup {n}
       \/ writer' = "room" /\ long' \in {long, long \cup {n}} /\ UNCHANGED <<buffer, direct>>
  BY <1>2 DEF AppendLine
<1> QED
  BY <1>10, <1>11, <1>12, <1>13

LEMMA MakeRoomKeeps ==
  ASSUME HostFileInv, MakeRoom
  PROVE  HostFileInv'
<1>0. WriterTypes /\ FileShape /\ StreamInv /\ AccountInv /\ OnlyDroppedLost
  BY DEF HostFileInv
<1>1. /\ writer = "room" /\ WriteSome(buffer)
      /\ long' = long /\ begun' = begun /\ ok' = ok /\ dropped' = dropped /\ failures' = failures
  BY DEF MakeRoom
<1>2. /\ file' \in Seq(Pieces) /\ Left(buffer) \in Seq(Pieces)
      /\ file' \o Left(buffer) = file \o buffer
      /\ Extends(file', file)
  BY <1>0, <1>1, WriteMoves DEF WriterTypes
<1>3. PICK n \in Nat, d \in Nat, m \in Nat :
        /\ n = begun - 1 /\ n + 1 = begun /\ d = failures /\ m = Cardinality(dropped)
        /\ n \in Entries
  <2>1. begun \in Nat /\ begun > 0 /\ begun <= MaxEntries /\ MaxEntries \in Nat
    BY <1>0, <1>1, Numbers DEF FileShape
  <2>2. begun - 1 \in Nat /\ begun - 1 < MaxEntries /\ (begun - 1) + 1 = begun
    BY <2>1
  <2> QED
    BY <1>0, <2>2, Numbers
<1>4. PICK s \in Seq(Pieces), f \in Nat, g \in Nat :
        s = file \o buffer /\ f = Len(file) /\ g = Len(file') /\ f <= g
  BY <1>0, <1>2, ConcatProperties, LenProperties DEF WriterTypes, Extends
<1>5. direct = <<>> /\ LinesInv(s, n, dropped)
  BY <1>0, <1>1, <1>3, <1>4 DEF StreamInv, Done
<1>6. PICK w \in Nat, v \in Nat : w = Cardinality(Waiting(s, f)) /\ v = Cardinality(Waiting(s, g))
  BY WaitingFinite
<1>7. m <= d /\ w + m <= d + 0 /\ v <= w
  BY <1>0, <1>1, <1>3, <1>4, <1>6, WaitingMoves DEF AccountInv
<1>8. OnlyDroppedLost'
  BY <1>0, <1>1, <1>2, PresentStays DEF WriterTypes
<1>9. /\ long' \subseteq Entries /\ ok' \subseteq Entries /\ dropped' \subseteq Entries
      /\ begun' \in 0 .. MaxEntries /\ failures' \in 0 .. MaxFailures /\ FileShape'
  BY <1>0, <1>1 DEF WriterTypes, FileShape
<1>10. CASE Left(buffer) # <<>>
  <2>1. buffer' = Left(buffer) /\ direct' = direct /\ writer' = writer
    BY <1>10 DEF MakeRoom
  <2>2. Done' = n
    BY <1>1, <1>3, <2>1 DEF Done
  <2>3. file' \o buffer' = s
    BY <1>2, <1>4, <2>1
  <2>4. StreamInv'
    BY <1>1, <1>5, <2>1, <2>2, <2>3 DEF StreamInv
  <2>5. WriterTypes'
    BY <1>0, <1>2, <1>9, <2>1 DEF WriterTypes
  <2>6. AccountInv'
    <3>1. v + m <= d + 0
      BY <1>7
    <3>2. Cardinality(Waiting(file' \o buffer', Len(file'))) = v
      BY <1>4, <1>6, <2>3
    <3> QED
      BY <1>1, <1>3, <1>7, <2>1, <3>1, <3>2 DEF AccountInv
  <2> QED
    BY <1>8, <1>9, <2>4, <2>5, <2>6 DEF HostFileInv
<1>11. ASSUME Left(buffer) = <<>> PROVE file' = s
  <2>1. file' \o <<>> = file'
    BY <1>2, ConcatEmptySeq
  <2> QED
    BY <1>2, <1>4, <1>11, <2>1
<1>12. CASE Left(buffer) = <<>> /\ n \in long
  <2>1. buffer' = <<>> /\ direct' = Json(n) /\ writer' = "direct"
    BY <1>3, <1>12 DEF MakeRoom
  <2>2. Done' = n
    BY <1>1, <1>3, <2>1 DEF Done
  <2>3. LinesInv(file', Done', dropped') /\ direct' = Json(Done')
    BY <1>1, <1>5, <1>11, <1>12, <2>1, <2>2
  <2>4. StreamInv'
    BY <2>1, <2>3 DEF StreamInv
  <2>5. WriterTypes'
    BY <1>2, <1>3, <1>9, <2>1, PieceTypes, EmptySeq DEF WriterTypes
  <2>6. AccountInv'
    BY <1>1, <1>3, <1>7, <2>1 DEF AccountInv
  <2> QED
    BY <1>8, <1>9, <2>4, <2>5, <2>6 DEF HostFileInv
<1>13. CASE Left(buffer) = <<>> /\ n \notin long
  <2>1. buffer' = Json(n) \o Newline(n) /\ writer' = "flush" /\ direct' = direct
    BY <1>3, <1>13 DEF MakeRoom
  <2>2. PICK t : t = Lined(s, n)
    OBVIOUS
  <2>3. file' \o buffer' = t
    BY <1>11, <1>13, <2>1, <2>2 DEF Lined
  <2>4. LinesInv(t, n + 1, dropped)
    BY <1>3, <1>5, <2>2, LineAdded
  <2>5. Done' = n + 1
    BY <1>1, <1>3, <2>1 DEF Done
  <2>6. StreamInv'
    BY <1>1, <1>5, <2>1, <2>3, <2>4, <2>5 DEF StreamInv
  <2>7. WriterTypes'
    <3>1. buffer' \in Seq(Pieces)
      BY <1>3, <2>1, PieceTypes, ConcatProperties
    <3> QED
      BY <1>0, <1>2, <1>9, <2>1, <3>1 DEF WriterTypes
  <2>8. AccountInv'
    <3>1. PICK u \in Nat : u = Cardinality(Waiting(t, g))
      BY <2>4, WaitingFinite DEF LinesInv
    <3>2. u <= v + 1
      BY <1>3, <1>6, <2>2, <3>1, WaitingWithLine
    <3>3. u + m <= d + 1
      BY <1>7, <3>2
    <3>4. Cardinality(Waiting(file' \o buffer', Len(file'))) = u
      BY <1>4, <2>3, <3>1
    <3> QED
      BY <1>1, <1>3, <1>7, <2>1, <3>3, <3>4 DEF AccountInv
  <2> QED
    BY <1>8, <1>9, <2>6, <2>7, <2>8 DEF HostFileInv
<1> QED
  BY <1>10, <1>12, <1>13

LEMMA WriteDirectKeeps ==
  ASSUME HostFileInv, WriteDirect
  PROVE  HostFileInv'
<1>0. WriterTypes /\ FileShape /\ StreamInv /\ AccountInv /\ OnlyDroppedLost
  BY DEF HostFileInv
<1>1. /\ writer = "direct" /\ WriteSome(direct) /\ direct' = Left(direct)
      /\ long' = long /\ begun' = begun /\ ok' = ok /\ dropped' = dropped /\ failures' = failures
  BY DEF WriteDirect
<1>2. /\ file' \in Seq(Pieces) /\ Left(direct) \in Seq(Pieces)
      /\ Extends(file', file)
      /\ \E k \in 1 .. Len(direct) : /\ file' = file \o SubSeq(direct, 1, k)
                                     /\ Left(direct) = SubSeq(direct, k + 1, Len(direct))
  BY <1>0, <1>1, WriteMoves DEF WriterTypes
<1>3. PICK n \in Nat, d \in Nat, m \in Nat :
        /\ n = begun - 1 /\ n + 1 = begun /\ d = failures /\ m = Cardinality(dropped)
        /\ n \in Entries
  <2>1. begun \in Nat /\ begun > 0 /\ begun <= MaxEntries /\ MaxEntries \in Nat
    BY <1>0, <1>1, Numbers DEF FileShape
  <2>2. begun - 1 \in Nat /\ begun - 1 < MaxEntries /\ (begun - 1) + 1 = begun
    BY <2>1
  <2> QED
    BY <1>0, <2>2, Numbers
<1>4. /\ buffer = <<>>
      /\ \/ direct = Json(n) /\ LinesInv(file, n, dropped)
         \/ /\ direct = Half(n)
            /\ \E base \in Seq(Pieces) : LinesInv(base, n, dropped) /\ file = Headed(base, n)
  BY <1>0, <1>1, <1>3 DEF StreamInv, Done
<1>5. m <= d
  BY <1>0, <1>3 DEF AccountInv
<1>6. OnlyDroppedLost'
  BY <1>0, <1>1, <1>2, PresentStays DEF WriterTypes
<1>7. /\ long' \subseteq Entries /\ ok' \subseteq Entries /\ dropped' \subseteq Entries
      /\ begun' \in 0 .. MaxEntries /\ failures' \in 0 .. MaxFailures /\ FileShape'
  BY <1>0, <1>1 DEF WriterTypes, FileShape
<1>8. Len(Json(n)) = 2 /\ Json(n) \in Seq(Pieces) /\ Json(n) # <<>>
      /\ Newline(n) \in Seq(Pieces) /\ Len(Newline(n)) = 1 /\ <<>> \in Seq(Pieces)
  BY <1>3, PieceTypes, EmptySeq
<1>9. Half(n) \in Seq(Pieces) /\ Len(Half(n)) = 1 /\ Half(n) # <<>>
  <2>1. Half(n) \in Seq(Pieces) /\ Len(Half(n)) = 1
    BY <1>3, HalfType
  <2>2. Len(<<>>) = 0
    BY EmptySeq
  <2> QED
    BY <2>1, <2>2
(* The line is half written; or the whole of it is.                        *)
<1>10. \/ /\ direct' = Half(n) /\ file' = Headed(file, n) /\ LinesInv(file, n, dropped)
       \/ /\ direct' = <<>>
          /\ \E base \in Seq(Pieces) : LinesInv(base, n, dropped) /\ file' = base \o Json(n)
  <2>1. CASE direct = Json(n) /\ LinesInv(file, n, dropped)
    <3>1. PICK k \in 1 .. 2 : /\ file' = file \o SubSeq(Json(n), 1, k)
                              /\ Left(direct) = SubSeq(Json(n), k + 1, 2)
      BY <1>2, <1>8, <2>1
    <3>2. CASE k = 1
      <4>1. file' = file \o SubSeq(Json(n), 1, 1) /\ Left(direct) = SubSeq(Json(n), 2, 2)
        BY <3>1, <3>2
      <4> QED
        BY <1>0, <1>1, <1>3, <2>1, <4>1, LineGrows DEF Headed, WriterTypes
    <3>3. CASE k = 2
      <4>1. file' = file \o SubSeq(Json(n), 1, 2) /\ Left(direct) = SubSeq(Json(n), 3, 2)
        BY <3>1, <3>3
      <4>2. SubSeq(Json(n), 3, 2) = <<>>
        <5>1. 3 \in Int /\ 2 \in Int /\ 2 < 3
          OBVIOUS
        <5> QED
          BY <5>1, SubSeqEmpty
      <4>3. file' = file \o Json(n)
        BY <1>3, <4>1, <1>8, SubSeqFull
      <4> QED
        BY <1>0, <1>1, <2>1, <4>1, <4>2, <4>3 DEF WriterTypes
    <3>4. k = 1 \/ k = 2
      OBVIOUS
    <3> QED
      BY <3>2, <3>3, <3>4
  <2>2. ASSUME direct = Half(n),
               NEW base \in Seq(Pieces), LinesInv(base, n, dropped), file = Headed(base, n)
        PROVE  direct' = <<>> /\ file' = base \o Json(n)
    <3>1. PICK k \in 1 .. 1 : /\ file' = file \o SubSeq(Half(n), 1, k)
                              /\ Left(direct) = SubSeq(Half(n), k + 1, 1)
      BY <1>2, <1>9, <2>2
    <3>2. k = 1 /\ k + 1 = 2
      OBVIOUS
    <3>3. SubSeq(Half(n), 2, 1) = <<>>
      <4>1. 2 \in Int /\ 1 \in Int /\ 1 < 2
        OBVIOUS
      <4> QED
        BY <4>1, SubSeqEmpty
    <3>4. file' = Headed(base, n) \o Half(n)
      BY <1>3, <2>2, <3>1, <3>2, LineGrows
    <3>5. Headed(base, n) \o Half(n) = base \o Json(n)
      BY <1>3, LineGrows
    <3> QED
      BY <1>1, <3>1, <3>2, <3>3, <3>4, <3>5
  <2> QED
    BY <1>4, <2>1, <2>2
<1>11. CASE direct' = Half(n) /\ file' = Headed(file, n) /\ LinesInv(file, n, dropped)
  <2>1. buffer' = <<>> /\ writer' = "direct"
    BY <1>1, <1>4, <1>9, <1>11 DEF WriteDirect
  <2>2. Done' = n
    BY <1>1, <1>3, <2>1 DEF Done
  <2>3. StreamInv'
    BY <1>0, <1>1, <1>11, <2>1, <2>2 DEF StreamInv, WriterTypes
  <2>4. WriterTypes'
    BY <1>2, <1>7, <1>8, <1>9, <1>11, <2>1 DEF WriterTypes
  <2>5. AccountInv'
    BY <1>1, <1>3, <1>5, <2>1 DEF AccountInv
  <2> QED
    BY <1>6, <1>7, <2>3, <2>4, <2>5 DEF HostFileInv
<1>12. ASSUME direct' = <<>>,
              NEW base \in Seq(Pieces), LinesInv(base, n, dropped), file' = base \o Json(n)
       PROVE  HostFileInv'
  <2>1. buffer' = Newline(n) /\ writer' = "flush"
    BY <1>3, <1>12 DEF WriteDirect
  <2>2. PICK t : t = Lined(base, n)
    OBVIOUS
  <2>3. file' \o buffer' = t
    BY <1>3, <1>12, <2>1, <2>2, LineGrows
  <2>4. LinesInv(t, n + 1, dropped)
    BY <1>3, <1>12, <2>2, LineAdded
  <2>5. Done' = n + 1
    BY <1>1, <1>3, <2>1 DEF Done
  <2>6. StreamInv'
    BY <1>1, <1>12, <2>1, <2>3, <2>4, <2>5 DEF StreamInv
  <2>7. WriterTypes'
    BY <1>2, <1>7, <1>8, <1>12, <2>1 DEF WriterTypes
  <2>8. AccountInv'
    <3>1. Len(file') = Len(t) - 1
      <4>1. PICK x \in Seq(Pieces), y \in Seq(Pieces), g \in Nat :
              /\ x = file' /\ y = buffer' /\ g = Len(x) /\ Len(y) = 1
        BY <1>2, <1>8, <2>1, LenProperties
      <4>2. Len(t) = g + 1
        <5>1. Len(x \o y) = Len(x) + Len(y)
          BY <4>1, ConcatProperties
        <5> QED
          BY <2>3, <4>1, <5>1
      <4> QED
        BY <4>1, <4>2
    <3>2. Cardinality(Waiting(t, Len(file'))) = 0
      BY <1>3, <2>2, <3>1, WaitingForNewline
    <3>3. Cardinality(Waiting(file' \o buffer', Len(file'))) = 0
      BY <2>3, <3>2
    <3>4. 0 + m <= d + 1
      BY <1>5
    <3> QED
      BY <1>1, <1>3, <1>5, <2>1, <3>3, <3>4 DEF AccountInv
  <2> QED
    BY <1>6, <1>7, <2>6, <2>7, <2>8 DEF HostFileInv
<1> QED
  BY <1>10, <1>11, <1>12

LEMMA FlushKeeps ==
  ASSUME HostFileInv, Flush
  PROVE  HostFileInv'
<1>0. WriterTypes /\ FileShape /\ StreamInv /\ AccountInv /\ OnlyDroppedLost
  BY DEF HostFileInv
<1>1. /\ writer = "flush" /\ WriteSome(buffer) /\ buffer' = Left(buffer) /\ direct' = direct
      /\ long' = long /\ begun' = begun /\ dropped' = dropped /\ failures' = failures
  BY DEF Flush
<1>2. /\ file' \in Seq(Pieces) /\ buffer' \in Seq(Pieces)
      /\ file' \o buffer' = file \o buffer
      /\ Extends(file', file)
  BY <1>0, <1>1, WriteMoves DEF WriterTypes
<1>3. PICK n \in Nat, d \in Nat, m \in Nat :
        /\ n = begun - 1 /\ n + 1 = begun /\ d = failures /\ m = Cardinality(dropped)
        /\ n \in Entries
  <2>1. begun \in Nat /\ begun > 0 /\ begun <= MaxEntries /\ MaxEntries \in Nat
    BY <1>0, <1>1, Numbers DEF FileShape
  <2>2. begun - 1 \in Nat /\ begun - 1 < MaxEntries /\ (begun - 1) + 1 = begun
    BY <2>1
  <2> QED
    BY <1>0, <2>2, Numbers
<1>4. PICK s \in Seq(Pieces), f \in Nat, g \in Nat :
        s = file \o buffer /\ f = Len(file) /\ g = Len(file') /\ f <= g
  BY <1>0, <1>2, ConcatProperties, LenProperties DEF WriterTypes, Extends
<1>5. direct = <<>> /\ LinesInv(s, n + 1, dropped)
  BY <1>0, <1>1, <1>3, <1>4 DEF StreamInv, Done
<1>6. PICK w \in Nat, v \in Nat : w = Cardinality(Waiting(s, f)) /\ v = Cardinality(Waiting(s, g))
  BY WaitingFinite
<1>7. m <= d /\ v <= w /\ w + m <= d + 1
  BY <1>0, <1>1, <1>3, <1>4, <1>6, WaitingMoves DEF AccountInv
<1>8. writer' \in {"flush", "idle"}
  BY <1>1 DEF Flush
<1>9. Done' = n + 1
  BY <1>1, <1>3, <1>8 DEF Done
<1>10. StreamInv'
  BY <1>1, <1>2, <1>4, <1>5, <1>8, <1>9 DEF StreamInv
<1>11. WriterTypes' /\ FileShape'
  <2>1. ok' \subseteq Entries
    BY <1>0, <1>3 DEF Flush, WriterTypes
  <2> QED
    BY <1>0, <1>1, <1>2, <1>8, <2>1 DEF WriterTypes, FileShape
<1>12. CASE buffer' # <<>>
  <2>1. writer' = "flush" /\ ok' = ok
    BY <1>1, <1>12 DEF Flush
  <2>2. OnlyDroppedLost'
    BY <1>0, <1>1, <1>2, <2>1, PresentStays DEF WriterTypes
  <2>3. AccountInv'
    <3>1. v + m <= d + 1
      BY <1>7
    <3>2. Cardinality(Waiting(file' \o buffer', Len(file'))) = v
      BY <1>2, <1>4, <1>6
    <3> QED
      BY <1>1, <1>3, <1>7, <2>1, <3>1, <3>2 DEF AccountInv
  <2> QED
    BY <1>10, <1>11, <2>2, <2>3 DEF HostFileInv
<1>13. CASE buffer' = <<>>
  <2>1. writer' = "idle" /\ ok' = ok \cup {n}
    BY <1>3, <1>13 DEF Flush
  <2>2. file' = s
    <3>1. file' \o <<>> = file'
      BY <1>2, ConcatEmptySeq
    <3> QED
      BY <1>2, <1>4, <1>13, <3>1
  <2>3. Settled(file', n + 1, dropped)
    BY <1>5, <2>2 DEF LinesInv
  <2>4. \A j \in 0 .. n : j \in dropped \/ (j > 0 /\ j - 1 \in dropped) \/ Present(j)'
    <3>1. (n + 1) - 1 = n
      OBVIOUS
    <3>2. \A j \in 0 .. n : j \in dropped \/ (j > 0 /\ j - 1 \in dropped) \/ HasEntry(file', j)
      BY <2>3, <3>1 DEF Settled
    <3>3. \A j : HasEntry(file', j) => Present(j)'
      BY DEF HasEntry, Present
    <3> QED
      BY <3>2, <3>3
  <2>5. \A i \in ok : \A j \in 0 .. i :
          j \in dropped \/ (j > 0 /\ j - 1 \in dropped) \/ Present(j)'
    <3>1. ASSUME NEW j, Present(j) PROVE Present(j)'
      <4>1. HasEntry(file, j)
        BY <3>1 DEF Present, HasEntry
      <4>2. HasEntry(file', j)
        BY <1>0, <1>2, <4>1, EntryStays DEF WriterTypes
      <4> QED
        BY <4>2 DEF Present, HasEntry
    <3> QED
      BY <1>0, <3>1 DEF OnlyDroppedLost
  <2>6. OnlyDroppedLost'
    BY <1>1, <2>1, <2>4, <2>5 DEF OnlyDroppedLost
  <2>7. AccountInv'
    <3>1. Cardinality(Waiting(file', Len(file'))) = 0
      BY <1>2, WaitingNone
    <3>2. Cardinality(Waiting(file' \o buffer', Len(file'))) = 0
      BY <1>2, <1>4, <2>2, <3>1
    <3>3. 0 + m <= d + 0
      BY <1>7
    <3> QED
      BY <1>1, <1>3, <1>7, <2>1, <3>2, <3>3 DEF AccountInv
  <2> QED
    BY <1>10, <1>11, <2>6, <2>7 DEF HostFileInv
<1> QED
  BY <1>12, <1>13

LEMMA WriteFailsKeeps ==
  ASSUME HostFileInv, WriteFails
  PROVE  HostFileInv'
<1>0. WriterTypes /\ FileShape /\ StreamInv /\ AccountInv /\ OnlyDroppedLost
  BY DEF HostFileInv
<1>1. /\ writer # "idle" /\ failures < MaxFailures /\ failures' = failures + 1
      /\ direct' = <<>> /\ writer' = "idle" /\ buffer' = buffer
      /\ dropped' = IF writer = "flush" THEN dropped ELSE dropped \cup {begun - 1}
      /\ file' = file /\ long' = long /\ begun' = begun /\ ok' = ok
  BY DEF WriteFails, FailingWrite
<1>2. PICK n \in Nat, d \in Nat, m \in Nat :
        /\ n = begun - 1 /\ n + 1 = begun /\ d = failures /\ m = Cardinality(dropped)
        /\ n \in Entries
  <2>1. begun \in Nat /\ begun > 0 /\ begun <= MaxEntries /\ MaxEntries \in Nat
    BY <1>0, <1>1, Numbers DEF FileShape
  <2>2. begun - 1 \in Nat /\ begun - 1 < MaxEntries /\ (begun - 1) + 1 = begun
    BY <2>1
  <2> QED
    BY <1>0, <2>2, Numbers
<1>3. PICK s \in Seq(Pieces), f \in Nat : s = file \o buffer /\ f = Len(file)
  BY <1>0, ConcatProperties, LenProperties DEF WriterTypes
<1>4. m <= d
  BY <1>0, <1>2 DEF AccountInv
<1>5. Done' = n + 1
  BY <1>1, <1>2 DEF Done
<1>6. WriterTypes' /\ FileShape'
  <2>1. dropped' \subseteq Entries
    BY <1>0, <1>1, <1>2 DEF WriterTypes
  <2>2. failures' \in 0 .. MaxFailures
    <3>1. failures \in 0 .. MaxFailures /\ MaxFailures \in Nat
      BY <1>0, TranscriptFileAssumption DEF WriterTypes
    <3> QED
      BY <1>1, <3>1
  <2> QED
    BY <1>0, <1>1, <2>1, <2>2, EmptySeq DEF WriterTypes, FileShape
<1>7. OnlyDroppedLost'
  <2>1. dropped \subseteq dropped' /\ ok' = ok /\ file \in Seq(Pieces) /\ file' = file
    BY <1>0, <1>1 DEF WriterTypes
  <2> QED
    BY <1>0, <2>1, ExtendsItself, PresentStays
<1>8. CASE writer = "flush"
  <2>1. dropped' = dropped /\ LinesInv(s, n + 1, dropped)
    BY <1>0, <1>1, <1>2, <1>3, <1>8 DEF StreamInv, Done
  <2>2. StreamInv'
    BY <1>1, <1>3, <1>5, <2>1 DEF StreamInv
  <2>3. PICK w \in Nat : w = Cardinality(Waiting(s, f))
    BY WaitingFinite
  <2>4. w + m <= d + 1
    BY <1>0, <1>2, <1>3, <1>8, <2>3 DEF AccountInv
  <2>5. Cardinality(Waiting(file' \o buffer', Len(file'))) = w
    BY <1>1, <1>3, <2>3
  <2>6. m <= d + 1 /\ w + m <= (d + 1) + 0
    BY <1>4, <2>4
  <2>7. AccountInv'
    BY <1>1, <1>2, <2>1, <2>5, <2>6 DEF AccountInv
  <2> QED
    BY <1>6, <1>7, <2>2, <2>7 DEF HostFileInv
<1>9. CASE writer # "flush"
  <2>1. PICK more : more = dropped \cup {n}
    OBVIOUS
  <2>2. dropped' = more
    BY <1>1, <1>2, <1>9, <2>1
  <2>3. PICK base : LinesInv(base, n, dropped)
    <3>1. Done = n /\ writer \in {"room", "direct"}
      BY <1>0, <1>1, <1>2, <1>9 DEF Done, WriterTypes
    <3> QED
      BY <1>0, <1>3, <3>1 DEF StreamInv
  <2>4. Cardinality(more) = m + 1
    BY <1>2, <2>1, <2>3, LossGrows DEF LinesInv
  <2>5. LinesInv(s, n + 1, more) /\ Cardinality(Waiting(s, f)) + m <= d
    <3>1. CASE writer = "room"
      <4>1. LinesInv(s, n, dropped)
        BY <1>0, <1>2, <1>3, <3>1 DEF StreamInv, Done
      <4>2. PICK w \in Nat : w = Cardinality(Waiting(s, f))
        BY WaitingFinite
      <4>3. w + m <= d + 0
        BY <1>0, <1>2, <1>3, <3>1, <4>2 DEF AccountInv
      <4> QED
        BY <1>2, <2>1, <4>1, <4>2, <4>3, LineDropped
    <3>2. CASE writer = "direct"
      <4>1. /\ buffer = <<>>
            /\ \/ LinesInv(file, n, dropped)
               \/ \E b \in Seq(Pieces) : LinesInv(b, n, dropped) /\ file = Headed(b, n)
        BY <1>0, <1>2, <3>2 DEF StreamInv, Done
      <4>2. s = file
        BY <1>0, <1>3, <4>1, ConcatEmptySeq DEF WriterTypes
      <4>3. LinesInv(s, n + 1, more)
        BY <1>2, <2>1, <4>1, <4>2, LineDropped, HeadDropped
      <4>4. Cardinality(Waiting(s, f)) = 0
        BY <1>3, <4>2, WaitingNone
      <4> QED
        BY <1>2, <1>4, <4>3, <4>4
    <3> QED
      BY <1>0, <1>1, <1>9, <3>1, <3>2 DEF WriterTypes
  <2>6. StreamInv'
    BY <1>1, <1>3, <1>5, <2>2, <2>5 DEF StreamInv
  <2>7. AccountInv'
    <3>1. PICK w \in Nat : w = Cardinality(Waiting(s, f))
      BY WaitingFinite
    <3>2. m + 1 <= d + 1 /\ w + (m + 1) <= (d + 1) + 0
      BY <1>4, <2>5, <3>1
    <3>3. Cardinality(Waiting(file' \o buffer', Len(file'))) = w
      BY <1>1, <1>3, <3>1
    <3> QED
      BY <1>1, <1>2, <2>2, <2>4, <3>2, <3>3 DEF AccountInv
  <2> QED
    BY <1>6, <1>7, <2>6, <2>7 DEF HostFileInv
<1> QED
  BY <1>8, <1>9

-----------------------------------------------------------------------------
(* The client that follows: what it rendered is what one pass over the     *)
(* file up to its offset gives, which is the end of a line.                *)
AtLineEnd(s, o) == o = 0 \/ s[o].part = "newline"

ReaderInv ==
  /\ follower \in {"waits", "reads"}
  /\ offset \in 0 .. Len(file) /\ AtLineEnd(file, offset)
  /\ rendered = Parsed(SubSeq(file, 1, offset))

LEMMA PrefixIs ==
  ASSUME NEW s \in Seq(Pieces), NEW k \in 0 .. Len(s)
  PROVE  /\ SubSeq(s, 1, k) \in Seq(Pieces) /\ Len(SubSeq(s, 1, k)) = k
         /\ \A i \in 1 .. k : SubSeq(s, 1, k)[i] = s[i]
<1>1. PICK l \in Nat : l = Len(s) /\ k \in 0 .. l
  BY LenProperties
<1>2. \A i \in 1 .. k : s[i] \in Pieces
  <2>1. \A i \in 1 .. k : i \in 1 .. Len(s)
    BY <1>1
  <2> QED
    BY <2>1, ElementOfSeq
<1>3. 1 \in Int /\ k \in Int /\ k \in Nat
  BY <1>1
<1>4. /\ SubSeq(s, 1, k) \in Seq(Pieces)
      /\ Len(SubSeq(s, 1, k)) = IF 1 <= k THEN k - 1 + 1 ELSE 0
      /\ \A i \in 1 .. k - 1 + 1 : SubSeq(s, 1, k)[i] = s[1 + i - 1]
  BY <1>2, <1>3, SubSeqProperties
<1>5. /\ (IF 1 <= k THEN k - 1 + 1 ELSE 0) = k
      /\ \A i \in 1 .. k : i \in 1 .. k - 1 + 1 /\ 1 + i - 1 = i
  BY <1>3
<1> QED
  BY <1>4, <1>5

LEMMA PrefixStays ==
  ASSUME NEW s \in Seq(Pieces), NEW t \in Seq(Pieces), Extends(t, s), NEW k \in 0 .. Len(s)
  PROVE  SubSeq(t, 1, k) = SubSeq(s, 1, k)
<1>1. PICK l \in Nat, m \in Nat : l = Len(s) /\ m = Len(t) /\ l <= m /\ k \in 0 .. l
  BY LenProperties DEF Extends
<1>2. k \in 0 .. Len(t) /\ \A i \in 1 .. k : i \in 1 .. Len(s)
  BY <1>1
<1>3. PICK a \in Seq(Pieces), b \in Seq(Pieces) : a = SubSeq(s, 1, k) /\ b = SubSeq(t, 1, k)
  BY <1>2, PrefixIs
<1>4. Len(a) = k /\ Len(b) = k /\ \A i \in 1 .. k : a[i] = s[i] /\ b[i] = t[i]
  BY <1>2, <1>3, PrefixIs
<1>5. \A i \in 1 .. Len(b) : b[i] = a[i]
  BY <1>2, <1>4 DEF Extends
<1>6. b = a
  BY <1>4, <1>5, SeqEqual
<1> QED
  BY <1>3, <1>6

(* Reading on from the end of a line to the end of the last whole one.     *)
LEMMA ReadOn ==
  ASSUME NEW s \in Seq(Pieces), NEW o \in Nat, o <= Len(s), AtLineEnd(s, o),
         NEW tail, tail = SubSeq(s, o + 1, Len(s)),
         NEW c, c = Max({0} \cup LineEnds(tail))
  PROVE  /\ o + c \in 0 .. Len(s) /\ AtLineEnd(s, o + c)
         /\ Parsed(SubSeq(s, 1, o)) \o Parsed(SubSeq(tail, 1, c)) = Parsed(SubSeq(s, 1, o + c))
<1>1. PICK l \in Nat : l = Len(s) /\ o <= l
  BY LenProperties
<1>2. PICK r \in Nat : r = l - o /\ o + r = l
  <2>1. l - o \in Nat /\ o + (l - o) = l
    BY <1>1
  <2> QED
    BY <2>1
<1>3. tail \in Seq(Pieces) /\ Len(tail) = r /\ \A i \in 1 .. r : tail[i] = s[o + i]
  <2>1. o + 1 \in Int /\ l \in Int
    OBVIOUS
  <2>2. \A i \in o + 1 .. l : s[i] \in Pieces
    BY <1>1, ElementOfSeq
  <2>3. /\ SubSeq(s, o + 1, l) \in Seq(Pieces)
        /\ Len(SubSeq(s, o + 1, l)) = IF o + 1 <= l THEN l - (o + 1) + 1 ELSE 0
        /\ \A i \in 1 .. l - (o + 1) + 1 : SubSeq(s, o + 1, l)[i] = s[(o + 1) + i - 1]
    BY <2>1, <2>2, SubSeqProperties
  <2>4. /\ (IF o + 1 <= l THEN l - (o + 1) + 1 ELSE 0) = r
        /\ \A i \in 1 .. r : i \in 1 .. l - (o + 1) + 1 /\ (o + 1) + i - 1 = o + i
    BY <1>1, <1>2
  <2> QED
    BY <1>1, <2>3, <2>4
<1>4. LineEnds(tail) \in SUBSET (1 .. r) /\ DOMAIN tail = 1 .. r
  BY <1>3, LenProperties DEF LineEnds
<1>5. c \in {0} \cup LineEnds(tail)
  BY <1>4, MaxOfPositions
<1>6. c \in 0 .. r /\ c \in Nat /\ o + c \in 0 .. l
  BY <1>1, <1>2, <1>4, <1>5
<1>7. AtLineEnd(s, o + c)
  <2>1. CASE c = 0
    BY <2>1 DEF AtLineEnd
  <2>2. CASE c \in LineEnds(tail)
    <3>1. c \in 1 .. r /\ tail[c].part = "newline"
      BY <1>4, <2>2 DEF LineEnds
    <3> QED
      BY <1>3, <3>1 DEF AtLineEnd
  <2> QED
    BY <1>5, <2>1, <2>2
<1> DEFINE a == SubSeq(s, 1, o)
           b == SubSeq(tail, 1, c)
           u == SubSeq(s, 1, o + c)
<1>8. /\ a \in Seq(Pieces) /\ b \in Seq(Pieces) /\ u \in Seq(Pieces)
      /\ Len(a) = o /\ Len(b) = c /\ Len(u) = o + c
      /\ \A i \in 1 .. o : a[i] = s[i]
      /\ \A i \in 1 .. c : b[i] = tail[i]
      /\ \A i \in 1 .. o + c : u[i] = s[i]
  <2>1. o \in 0 .. Len(s) /\ c \in 0 .. Len(tail) /\ o + c \in 0 .. Len(s)
    BY <1>1, <1>3, <1>6
  <2>2. ASSUME NEW k \in 0 .. Len(s)
        PROVE  /\ SubSeq(s, 1, k) \in Seq(Pieces) /\ Len(SubSeq(s, 1, k)) = k
               /\ \A i \in 1 .. k : SubSeq(s, 1, k)[i] = s[i]
    BY PrefixIs
  <2>3. /\ SubSeq(tail, 1, c) \in Seq(Pieces) /\ Len(SubSeq(tail, 1, c)) = c
        /\ \A i \in 1 .. c : SubSeq(tail, 1, c)[i] = tail[i]
    BY <1>3, <2>1, PrefixIs
  <2>4. /\ SubSeq(s, 1, o) \in Seq(Pieces) /\ Len(SubSeq(s, 1, o)) = o
        /\ \A i \in 1 .. o : SubSeq(s, 1, o)[i] = s[i]
    BY <2>1, <2>2
  <2>5. /\ SubSeq(s, 1, o + c) \in Seq(Pieces) /\ Len(SubSeq(s, 1, o + c)) = o + c
        /\ \A i \in 1 .. o + c : SubSeq(s, 1, o + c)[i] = s[i]
    BY <2>1, <2>2
  <2> QED
    BY <2>3, <2>4, <2>5
<1> HIDE DEF a, b, u
<1>9. AtLineStart(a)
  <2>1. o # 0 => o \in 1 .. o
    OBVIOUS
  <2> QED
    BY <1>8, <2>1 DEF AtLineStart, AtLineEnd
<1>10. a \o b = u
  <2>1. /\ a \o b \in Seq(Pieces) /\ Len(a \o b) = o + c
        /\ \A i \in 1 .. o + c : (a \o b)[i] = IF i <= o THEN a[i] ELSE b[i - o]
    <3>1. /\ a \o b \in Seq(Pieces) /\ Len(a \o b) = Len(a) + Len(b)
          /\ \A i \in 1 .. Len(a) + Len(b) :
               (a \o b)[i] = IF i <= Len(a) THEN a[i] ELSE b[i - Len(a)]
      <4>1. a \in Seq(Pieces) /\ b \in Seq(Pieces)
        BY <1>8
      <4> QED
        BY <4>1, ConcatProperties
    <3>2. Len(a) = o /\ Len(b) = c
      BY <1>8
    <3> QED
      BY <3>1, <3>2
  <2>2. ASSUME NEW i \in 1 .. o + c PROVE (a \o b)[i] = u[i]
    <3>1. CASE i <= o
      <4>1. i \in 1 .. o
        BY <3>1
      <4> QED
        BY <1>8, <2>1, <3>1, <4>1
    <3>2. CASE i > o
      <4>1. i - o \in 1 .. c /\ o + (i - o) = i /\ ~(i <= o) /\ i - o \in 1 .. r
        BY <1>6, <3>2
      <4>2. b[i - o] = s[i]
        BY <1>3, <1>8, <4>1
      <4> QED
        BY <1>8, <2>1, <4>1, <4>2
    <3>3. i <= o \/ i > o
      BY <1>6
    <3> QED
      BY <3>1, <3>2, <3>3
  <2>3. u \in Seq(Pieces) /\ Len(u) = o + c
    BY <1>8
  <2>4. Len(a \o b) = Len(u) /\ \A i \in 1 .. Len(a \o b) : (a \o b)[i] = u[i]
    BY <2>1, <2>2, <2>3
  <2> QED
    BY <2>1, <2>3, <2>4, SeqEqual
<1>11. Parsed(a) \o Parsed(b) = Parsed(u)
  BY <1>8, <1>9, <1>10, ParsedOfConcat
<1> QED
  BY <1>1, <1>6, <1>7, <1>11 DEF a, b, u

(* What is parsed of lines in order is in order.                           *)
LEMMA ParsedInOrder ==
  ASSUME NEW s \in Seq(Pieces), Ordered(s)
  PROVE  /\ Parsed(s) \in Seq(Entries)
         /\ \A j, k \in DOMAIN Parsed(s) : j < k => Parsed(s)[j] < Parsed(s)[k]
<1>1. PICK lines, order : lines = SelectAt(s, Parseable(s)) /\ order = Ascending(Parseable(s))
  OBVIOUS
<1>2. /\ Parsed(s) \in Seq(Entries) /\ Len(Parsed(s)) = Len(lines)
      /\ \A k \in 1 .. Len(lines) : Parsed(s)[k] = lines[k].entry
  BY <1>1, ParsedIs
<1>3. Parseable(s) \in SUBSET (1 .. Len(s)) /\ Len(s) \in Nat
  BY LenProperties, ParseableIs
<1>4. Picks(order, lines, s, Parseable(s))
  BY <1>1, <1>3, SelectionProperties
<1>5. DOMAIN Parsed(s) = 1 .. Len(lines)
  BY <1>2, LenProperties
<1>6. ASSUME NEW j \in 1 .. Len(lines), NEW k \in 1 .. Len(lines), j < k
      PROVE  lines[j].entry < lines[k].entry
  <2>1. /\ lines[j] = s[order[j]] /\ lines[k] = s[order[k]]
        /\ order[j] \in Parseable(s) /\ order[k] \in Parseable(s)
        /\ order[j] < order[k]
    BY <1>4, <1>6 DEF Picks
  <2>2. \A p \in Parseable(s) : p \in 1 .. Len(s) /\ s[p].part = "newline"
    BY <1>3, ParseableIs DEF EndsEntry
  <2> QED
    BY <2>1, <2>2 DEF Ordered
<1> QED
  BY <1>2, <1>5, <1>6

LEMMA PrefixInOrder ==
  ASSUME NEW s \in Seq(Pieces), NEW t \in Seq(Pieces), Extends(t, s), Ordered(t)
  PROVE  Ordered(s)
<1>1. \A i \in 1 .. Len(s) : i \in 1 .. Len(t)
  BY LenProperties DEF Extends
<1> QED
  BY <1>1 DEF Ordered, Extends

(* The file and what waits behind it are lines of the entries up to begun. *)
LEMMA FileIsLines ==
  ASSUME HostFileInv
  PROVE  \E t, n, lost : LinesInv(t, n, lost) /\ n <= begun /\ Extends(t, file)
<1>0. WriterTypes /\ FileShape /\ StreamInv
  BY DEF HostFileInv
<1>1. begun \in Nat /\ file \in Seq(Pieces) /\ buffer \in Seq(Pieces)
  BY <1>0, Numbers DEF WriterTypes
<1>2. CASE writer = "direct"
  <2>1. PICK n \in Nat : n = begun - 1 /\ n + 1 = begun /\ n <= begun /\ n \in Entries
    <3>1. begun > 0 /\ begun <= MaxEntries /\ MaxEntries \in Nat
      BY <1>0, <1>2, Numbers DEF FileShape
    <3>2. begun - 1 \in Nat /\ begun - 1 < MaxEntries /\ (begun - 1) + 1 = begun /\ begun - 1 <= begun
      BY <1>1, <3>1
    <3> QED
      BY <1>0, <3>2, Numbers
  <2>2. \/ LinesInv(file, n, dropped)
        \/ \E base \in Seq(Pieces) : LinesInv(base, n, dropped) /\ file = Headed(base, n)
    BY <1>0, <1>2, <2>1 DEF StreamInv, Done
  <2>3. \/ LinesInv(file, n, dropped)
        \/ LinesInv(file, n + 1, dropped \cup {n})
    BY <2>1, <2>2, HeadDropped
  <2>4. n <= begun /\ n + 1 <= begun
    BY <1>1, <2>1
  <2> QED
    BY <1>1, <2>3, <2>4, ExtendsItself
<1>3. CASE writer # "direct"
  <2>1. LinesInv(file \o buffer, Done, dropped)
    BY <1>0, <1>3 DEF StreamInv
  <2>2. Done <= begun
    BY <1>1 DEF Done
  <2>3. Extends(file \o buffer, file)
    <3>1. PICK f \in Nat, b \in Nat : f = Len(file) /\ b = Len(buffer)
      BY <1>1, LenProperties
    <3>2. /\ Len(file \o buffer) = f + b
          /\ \A i \in 1 .. f + b : (file \o buffer)[i] = IF i <= f THEN file[i] ELSE buffer[i - f]
      BY <1>1, <3>1, ConcatProperties
    <3>3. f <= f + b /\ \A i \in 1 .. f : i \in 1 .. f + b /\ i <= f
      OBVIOUS
    <3> QED
      BY <3>1, <3>2, <3>3 DEF Extends
  <2> QED
    BY <2>1, <2>2, <2>3
<1> QED
  BY <1>2, <1>3

FileInv == HostFileInv /\ ReaderInv

LEMMA FileInitInv == FileInit => FileInv
<1> SUFFICES ASSUME FileInit PROVE FileInv
  OBVIOUS
<1>1. /\ file = <<>> /\ buffer = <<>> /\ direct = <<>> /\ writer = "idle"
      /\ long = {} /\ begun = 0 /\ ok = {} /\ dropped = {} /\ failures = 0
      /\ follower = "waits" /\ offset = 0 /\ rendered = <<>>
  BY DEF FileInit
<1>2. <<>> \in Seq(Pieces) /\ Len(<<>>) = 0
  BY EmptySeq
<1>3. WriterTypes /\ FileShape /\ OnlyDroppedLost
  BY <1>1, <1>2, TranscriptFileAssumption DEF WriterTypes, FileShape, OnlyDroppedLost
<1>4. LineStarts(<<>>) = {} /\ Cardinality({}) = 0
  <2>1. LineStarts(<<>>) \subseteq 1 .. 0
    BY <1>2, StartsFinite
  <2>2. 1 .. 0 = {}
    OBVIOUS
  <2> QED
    BY <2>1, <2>2, FS_EmptySet
<1>5. file \o buffer = <<>>
  BY <1>1, <1>2, ConcatEmptySeq
<1>6. LinesInv(<<>>, 0, {})
  <2>1. 1 .. 0 = {} /\ 0 .. 0 - 1 = {}
    OBVIOUS
  <2>2. Ordered(<<>>) /\ Younger(<<>>, 0) /\ HeadsFirst(<<>>) /\ Settled(<<>>, 0, {})
        /\ AtLineStart(<<>>)
    BY <1>2, <2>1 DEF Ordered, Younger, HeadsFirst, Settled, AtLineStart
  <2>3. Counted(<<>>, 0, {})
    <3>1. Cardinality(LineStarts(<<>>)) = 0 /\ Cardinality({}) = 0
      BY <1>4
    <3>2. (IF AtLineStart(<<>>) THEN 0 ELSE 1) = 0
      BY <2>2
    <3>3. 0 + 0 <= 0 + 0
      OBVIOUS
    <3> QED
      BY <3>1, <3>2, <3>3 DEF Counted
  <2> QED
    BY <1>2, <2>1, <2>2, <2>3 DEF LinesInv
<1>7. StreamInv
  BY <1>1, <1>5, <1>6 DEF StreamInv, Done
<1>8. AccountInv
  <2>1. Waiting(<<>>, 0) = {}
    BY <1>4 DEF Waiting
  <2>2. Cardinality(Waiting(file \o buffer, Len(file))) = 0
    BY <1>1, <1>2, <1>4, <1>5, <2>1
  <2>3. Cardinality(dropped) = 0 /\ failures = 0 /\ writer = "idle" /\ 0 + 0 <= 0 + 0 /\ 0 <= 0
    BY <1>1, <1>4
  <2> QED
    BY <2>2, <2>3 DEF AccountInv
<1>9. ReaderInv
  <2>1. SubSeq(file, 1, 0) = <<>>
    <3>1. 0 \in Int /\ 1 \in Int /\ 0 < 1
      OBVIOUS
    <3> QED
      BY <3>1, SubSeqEmpty
  <2>2. Parsed(<<>>) = <<>>
    <3>1. PICK e, P : e \in Seq(Pieces) /\ e = <<>> /\ P = Parseable(e)
      BY <1>2
    <3>2. P \in SUBSET (1 .. Len(e)) /\ P = {}
      <4>1. 3 .. 0 = {}
        OBVIOUS
      <4> QED
        BY <1>2, <3>1, <4>1, ParseableIs
    <3>3. PICK lines : lines = SelectAt(e, P) /\ lines = <<>>
      <4>1. ASSUME NEW s \in Seq(Pieces), NEW Q \in SUBSET (1 .. Len(s))
            PROVE  SelectAt(s, Q) = <<>> <=> Q = {}
        BY SelectionProperties
      <4>2. SelectAt(e, P) = <<>> <=> P = {}
        BY <3>1, <3>2, <4>1
      <4> QED
        BY <3>2, <4>2
    <3>4. Parsed(<<>>) \in Seq(Entries) /\ Len(Parsed(<<>>)) = 0
      BY <1>2, <3>1, <3>3, ParsedIs
    <3> QED
      BY <3>4, EmptySeq
  <2>3. rendered = Parsed(SubSeq(file, 1, offset))
    BY <1>1, <2>1, <2>2
  <2>4. offset \in 0 .. Len(file) /\ AtLineEnd(file, offset)
    BY <1>1, <1>2 DEF AtLineEnd
  <2> QED
    BY <1>1, <2>3, <2>4 DEF ReaderInv
<1> QED
  BY <1>3, <1>7, <1>8, <1>9 DEF FileInv, HostFileInv

(* A step of the host moves no line that the client has read.              *)
LEMMA HostStepKeepsReader ==
  ASSUME ReaderInv, file \in Seq(Pieces), file' \in Seq(Pieces), Extends(file', file),
         UNCHANGED following
  PROVE  ReaderInv'
<1>1. follower' = follower /\ offset' = offset /\ rendered' = rendered
  BY DEF following
<1>2. PICK f \in Nat, g \in Nat, o \in Nat :
        f = Len(file) /\ g = Len(file') /\ o = offset /\ o <= f /\ f <= g
  BY LenProperties DEF ReaderInv, Extends
<1>3. SubSeq(file', 1, offset') = SubSeq(file, 1, offset)
  BY <1>1, PrefixStays DEF ReaderInv
<1>4. AtLineEnd(file', offset')
  <2>1. o # 0 => o \in 1 .. f
    BY <1>2
  <2> QED
    BY <1>1, <1>2, <2>1 DEF ReaderInv, AtLineEnd, Extends
<1>5. offset' \in 0 .. Len(file')
  BY <1>1, <1>2
<1> QED
  BY <1>1, <1>3, <1>4, <1>5 DEF ReaderInv

LEMMA ReadKeeps ==
  ASSUME ReaderInv, file \in Seq(Pieces), Read
  PROVE  ReaderInv'
<1>1. PICK tail \in {SubSeq(file, offset + 1, Len(file))} :
        \E consumed \in {Max({0} \cup LineEnds(tail))} :
          /\ rendered' = rendered \o Parsed(SubSeq(tail, 1, consumed))
          /\ offset' = offset + consumed
  BY DEF Read
<1>2. PICK c : /\ c = Max({0} \cup LineEnds(tail))
               /\ rendered' = rendered \o Parsed(SubSeq(tail, 1, c))
               /\ offset' = offset + c
  BY <1>1
<1>3. PICK o \in Nat : o = offset /\ o <= Len(file)
  BY LenProperties DEF ReaderInv
<1>4. /\ o + c \in 0 .. Len(file) /\ AtLineEnd(file, o + c)
      /\ Parsed(SubSeq(file, 1, o)) \o Parsed(SubSeq(tail, 1, c)) = Parsed(SubSeq(file, 1, o + c))
  <2>1. tail = SubSeq(file, o + 1, Len(file)) /\ AtLineEnd(file, o)
    BY <1>1, <1>3 DEF ReaderInv
  <2>2. o <= Len(file) /\ c = Max({0} \cup LineEnds(tail))
    BY <1>2, <1>3
  <2> QED
    BY <2>1, <2>2, ReadOn, Zenon
<1>5. file' = file /\ follower' = "waits"
  BY DEF Read, appender
<1> QED
  BY <1>2, <1>3, <1>4, <1>5 DEF ReaderInv

LEMMA FileNextInv == FileInv /\ [FileNext]_filevars => FileInv'
<1> SUFFICES ASSUME FileInv, [FileNext]_filevars PROVE FileInv'
  OBVIOUS
<1>1. HostFileInv /\ ReaderInv /\ WriterTypes
  BY DEF FileInv, HostFileInv
<1>2. file \in Seq(Pieces) /\ buffer \in Seq(Pieces) /\ direct \in Seq(Pieces)
  BY <1>1 DEF WriterTypes
<1>3. ASSUME HostFileInv', Extends(file', file), UNCHANGED following PROVE FileInv'
  <2>1. file' \in Seq(Pieces)
    BY <1>3 DEF HostFileInv, WriterTypes
  <2> QED
    BY <1>1, <1>2, <1>3, <2>1, HostStepKeepsReader DEF FileInv
<1>4. ASSUME UNCHANGED appender PROVE HostFileInv'
  BY <1>1, <1>4 DEF appender, HostFileInv, WriterTypes, FileShape, StreamInv, Done, AccountInv,
                    OnlyDroppedLost, Present
<1>5. CASE AppendLine
  <2>1. file' = file /\ UNCHANGED following
    BY <1>5 DEF AppendLine
  <2> QED
    BY <1>1, <1>2, <1>3, <1>5, <2>1, AppendLineKeeps, ExtendsItself
<1>6. CASE MakeRoom
  <2>1. Extends(file', file) /\ UNCHANGED following
    BY <1>2, <1>6, WriteMoves DEF MakeRoom
  <2> QED
    BY <1>1, <1>3, <1>6, <2>1, MakeRoomKeeps
<1>7. CASE WriteDirect
  <2>1. Extends(file', file) /\ UNCHANGED following
    BY <1>2, <1>7, WriteMoves DEF WriteDirect
  <2> QED
    BY <1>1, <1>3, <1>7, <2>1, WriteDirectKeeps
<1>8. CASE Flush
  <2>1. Extends(file', file) /\ UNCHANGED following
    BY <1>2, <1>8, WriteMoves DEF Flush
  <2> QED
    BY <1>1, <1>3, <1>8, <2>1, FlushKeeps
<1>9. CASE WriteFails
  <2>1. file' = file /\ UNCHANGED following
    BY <1>9 DEF WriteFails, FailingWrite
  <2> QED
    BY <1>1, <1>2, <1>3, <1>9, <2>1, WriteFailsKeeps, ExtendsItself
<1>10. CASE Look
  <2>1. UNCHANGED <<appender, offset, rendered>> /\ follower' = "reads"
    BY <1>10 DEF Look
  <2>2. file' = file
    BY <2>1 DEF appender
  <2>3. ReaderInv'
    BY <1>1, <2>1, <2>2 DEF ReaderInv
  <2> QED
    BY <1>4, <2>1, <2>3 DEF FileInv
<1>11. CASE Read
  <2>1. UNCHANGED appender
    BY <1>11 DEF Read
  <2> QED
    BY <1>1, <1>2, <1>4, <1>11, <2>1, ReadKeeps DEF FileInv
<1>12. CASE UNCHANGED filevars
  <2>1. UNCHANGED appender /\ UNCHANGED following /\ file' = file
    BY <1>12 DEF filevars, appender
  <2> QED
    BY <1>2, <1>3, <1>4, <2>1, ExtendsItself
<1> QED
  BY <1>5, <1>6, <1>7, <1>8, <1>9, <1>10, <1>11, <1>12 DEF FileNext

-----------------------------------------------------------------------------
(* What the invariants say to a reader.                                    *)

LEMMA FileInvTypes == FileInv => FileTypeOK
<1> SUFFICES ASSUME FileInv PROVE FileTypeOK
  OBVIOUS
<1>1. HostFileInv /\ ReaderInv /\ WriterTypes
  BY DEF FileInv, HostFileInv
<1>2. rendered \in Seq(Entries)
  <2>1. PICK s, lines :
          /\ s \in Seq(Pieces) /\ s = SubSeq(file, 1, offset)
          /\ lines = SelectAt(s, Parseable(s))
    BY <1>1, PrefixIs DEF ReaderInv, WriterTypes
  <2> QED
    BY <1>1, <2>1, ParsedIs DEF ReaderInv
<1> QED
  BY <1>1, <1>2 DEF FileTypeOK, ReaderInv, WriterTypes

LEMMA FileInvRendered == FileInv => RenderedOnce
<1> SUFFICES ASSUME FileInv PROVE RenderedOnce
  OBVIOUS
<1>1. HostFileInv /\ ReaderInv /\ file \in Seq(Pieces)
  BY DEF FileInv, HostFileInv, WriterTypes
<1>2. PICK t, n, lost : LinesInv(t, n, lost) /\ Extends(t, file)
  BY <1>1, FileIsLines
<1>3. Ordered(file)
  BY <1>1, <1>2, PrefixInOrder DEF LinesInv
<1>4. PICK s \in Seq(Pieces) : s = SubSeq(file, 1, offset) /\ Extends(file, s)
  <2>1. PICK f \in Nat, o \in Nat : f = Len(file) /\ o = offset /\ o \in 0 .. f
    BY <1>1, LenProperties DEF ReaderInv
  <2>2. /\ SubSeq(file, 1, o) \in Seq(Pieces) /\ Len(SubSeq(file, 1, o)) = o
        /\ \A i \in 1 .. o : SubSeq(file, 1, o)[i] = file[i]
    BY <1>1, <2>1, PrefixIs
  <2>3. o <= f
    BY <2>1
  <2> QED
    BY <2>1, <2>2, <2>3 DEF Extends
<1>5. \A j, k \in DOMAIN Parsed(s) : j < k => Parsed(s)[j] < Parsed(s)[k]
  BY <1>1, <1>3, <1>4, PrefixInOrder, ParsedInOrder
<1>6. rendered = Parsed(s)
  BY <1>1, <1>4 DEF ReaderInv
<1> QED
  BY <1>4, <1>5, <1>6 DEF RenderedOnce

LEMMA FileInvariant == FileSpec => []FileInv
BY FileInitInv, FileNextInv, PTL DEF FileSpec

(* A buffer that is not empty between two appends has seen a failed write. *)
Emptied == writer = "idle" /\ failures = 0 => buffer = <<>>

LEMMA EmptiedAlways == FileSpec => []Emptied
<1>1. FileInit => Emptied
  BY DEF FileInit, Emptied
<1>2. Emptied /\ FileInv /\ [FileNext]_filevars => Emptied'
  <2> SUFFICES ASSUME Emptied, FileInv, [FileNext]_filevars PROVE Emptied'
    OBVIOUS
  <2>1. ASSUME AppendLine \/ MakeRoom \/ WriteDirect PROVE writer' # "idle"
    BY <2>1 DEF AppendLine, Buffered, Unbuffered, MakeRoom, WriteDirect
  <2>2. ASSUME Flush PROVE writer' = "idle" => buffer' = <<>>
    BY <2>2 DEF Flush
  <2>3. ASSUME WriteFails PROVE failures' # 0
    <3>1. failures \in Nat /\ failures' = failures + 1
      BY <2>3, Numbers DEF WriteFails, FailingWrite, FileInv, HostFileInv
    <3> QED
      BY <3>1
  <2>4. ASSUME Look \/ Read \/ UNCHANGED filevars PROVE UNCHANGED <<writer, failures, buffer>>
    BY <2>4 DEF Look, Read, filevars, appender
  <2> QED
    BY <2>1, <2>2, <2>3, <2>4 DEF Emptied, FileNext
<1> QED
  BY <1>1, <1>2, FileInvariant, PTL DEF FileSpec

(* Lines of which none was dropped break no character.                     *)
LEMMA WholeLinesDecode ==
  ASSUME NEW s, NEW n, LinesInv(s, n, {})
  PROVE  Decodes(s)
<1>1. /\ s \in Seq(Pieces) /\ n \in Nat /\ DOMAIN s = 1 .. Len(s) /\ Len(s) \in Nat
      /\ Ordered(s) /\ Younger(s, n) /\ Settled(s, n, {})
  BY LenProperties DEF LinesInv
<1> SUFFICES ASSUME NEW j \in 1 .. Len(s)
             PROVE  /\ s[j].part = "head" =>
                         j + 1 \in DOMAIN s /\ s[j + 1] = Piece(s[j].entry, "tail")
                    /\ s[j].part = "tail" =>
                         j - 1 \in DOMAIN s /\ s[j - 1] = Piece(s[j].entry, "head")
  BY <1>1 DEF Decodes
<1>2. PICK i \in Nat : i = s[j].entry /\ i \in 0 .. n - 1
  <2>1. s[j] \in Pieces
    BY <1>1
  <2>2. s[j].entry \in Nat
    BY <2>1 DEF Pieces, Entries
  <2>3. s[j].entry < n
    BY <1>1 DEF Younger
  <2> QED
    BY <1>1, <2>2, <2>3
<1>3. PICK k \in Parseable(s) : s[k].entry = i
  BY <1>1, <1>2 DEF Settled, HasEntry
<1>4. /\ k \in 3 .. Len(s)
      /\ s[k - 2] = Piece(i, "head") /\ s[k - 1] = Piece(i, "tail")
  BY <1>1, <1>3, ParseableIs DEF EndsEntry
<1>5. PICK a \in 1 .. Len(s) : a = k - 2 /\ a + 1 = k - 1 /\ a + 1 \in 1 .. Len(s)
  BY <1>1, <1>4
<1>6. ASSUME NEW p \in 1 .. Len(s), NEW q \in 1 .. Len(s),
             s[p].part = s[q].part, s[p].entry = i, s[q].entry = i
      PROVE  p = q
  <2>1. ~(p < q) /\ ~(q < p)
    BY <1>1, <1>2, <1>6 DEF Ordered
  <2> QED
    BY <1>1, <2>1
<1>7. s[a].part = "head" /\ s[a].entry = i /\ s[a + 1].part = "tail" /\ s[a + 1].entry = i
  BY <1>4, <1>5 DEF Piece
<1>8. ASSUME s[j].part = "head" PROVE j = a
  BY <1>2, <1>5, <1>6, <1>7, <1>8
<1>9. ASSUME s[j].part = "tail" PROVE j = a + 1
  BY <1>2, <1>5, <1>6, <1>7, <1>9
<1> QED
  BY <1>1, <1>2, <1>4, <1>5, <1>8, <1>9

LEMMA FileInvListed == FileInv /\ Emptied => ListedWithinFailures
<1> SUFFICES ASSUME FileInv, Emptied PROVE ListedWithinFailures
  OBVIOUS
<1>1. HostFileInv /\ WriterTypes /\ StreamInv /\ AccountInv
  BY DEF FileInv, HostFileInv
<1>2. file \in Seq(Pieces) /\ buffer \in Seq(Pieces)
  BY <1>1 DEF WriterTypes
<1>3. Listed(file) = IF Decodes(file) THEN Cardinality(LineStarts(file)) ELSE 0
  BY DEF Listed, LineStarts
<1>4. PICK b \in Nat, d \in Nat, m \in Nat, f \in Nat, h \in Nat :
        /\ b = begun /\ d = failures /\ m = Cardinality(dropped)
        /\ f = Len(file) /\ h = Cardinality(LineStarts(file))
  BY <1>1, <1>2, Numbers, LenProperties, StartsFinite
<1>5. ASSUME NEW t \in Seq(Pieces), Extends(t, file)
      PROVE  \A j \in 1 .. f : j \in LineStarts(t) <=> j \in LineStarts(file)
  <2>1. DOMAIN t = 1 .. Len(t) /\ DOMAIN file = 1 .. f
        /\ \A j \in 1 .. f : t[j] = file[j]
    BY <1>2, <1>4, <1>5, LenProperties DEF Extends
  <2>2. \A j \in 1 .. f : j \in 1 .. Len(t) /\ (j # 1 => j - 1 \in 1 .. f)
    BY <1>4, <1>5, LenProperties DEF Extends
  <2> QED
    BY <2>1, <2>2 DEF LineStarts
<1>6. Listed(file) <= begun
  <2>1. PICK t, n, lost : LinesInv(t, n, lost) /\ n <= begun /\ Extends(t, file)
    BY <1>1, FileIsLines
  <2>2. n \in Nat /\ t \in Seq(Pieces)
    BY <2>1 DEF LinesInv
  <2>3. PICK k \in Nat, e \in Nat : k = n /\ e = Cardinality(LineStarts(t)) /\ e <= k
    BY <2>1, <2>2, StartsBound, StartsFinite
  <2>4. LineStarts(file) \in SUBSET LineStarts(t)
    BY <1>2, <1>4, <1>5, <2>1, <2>2, StartsFinite
  <2>5. h <= e
    BY <1>4, <2>2, <2>3, <2>4, StartsFinite, FS_Subset
  <2>6. k <= b
    BY <1>4, <2>1, <2>3
  <2>7. h <= b
    BY <2>3, <2>5, <2>6
  <2> QED
    BY <1>3, <1>4, <2>7
<1>7. ASSUME writer = "idle", failures = 0 PROVE Decodes(file)
  <2>1. file = file \o buffer
    BY <1>2, <1>7, ConcatEmptySeq DEF Emptied
  <2>2. dropped = {}
    <3>1. m = 0
      BY <1>1, <1>4, <1>7 DEF AccountInv
    <3> QED
      BY <1>1, <1>4, <3>1, Numbers, FS_EmptySet
  <2>3. LinesInv(file, begun, {})
    BY <1>1, <1>7, <2>1, <2>2 DEF StreamInv, Done
  <2> QED
    BY <2>3, WholeLinesDecode
<1>8. ASSUME writer = "idle", Decodes(file) PROVE begun <= Listed(file) + failures
  <2>1. PICK s \in Seq(Pieces) : s = file \o buffer
    BY <1>2, ConcatProperties
  <2>2. LinesInv(s, b, dropped)
    BY <1>1, <1>4, <1>8, <2>1 DEF StreamInv, Done
  <2>3. PICK e \in Nat, w \in Nat :
          e = Cardinality(LineStarts(s)) /\ w = Cardinality(Waiting(s, f))
    BY StartsFinite, WaitingFinite
  <2>4. b + (IF AtLineStart(s) THEN 0 ELSE 1) <= e + m
    BY <1>4, <2>2, <2>3 DEF LinesInv, Counted
  <2>5. w + m <= d + 0
    BY <1>1, <1>4, <1>8, <2>1, <2>3 DEF AccountInv
  <2>6. Extends(s, file)
    <3>1. PICK g \in Nat : g = Len(buffer)
      BY <1>2, LenProperties
    <3>2. /\ Len(s) = f + g
          /\ \A i \in 1 .. f + g : s[i] = IF i <= f THEN file[i] ELSE buffer[i - f]
      BY <1>2, <1>4, <2>1, <3>1, ConcatProperties
    <3>3. f <= f + g /\ \A i \in 1 .. f : i \in 1 .. f + g /\ i <= f
      BY <1>4, <3>1
    <3> QED
      BY <1>4, <3>2, <3>3 DEF Extends
  <2>7. e <= h + w
    <3>1. /\ IsFiniteSet(LineStarts(file)) /\ IsFiniteSet(Waiting(s, f))
          /\ IsFiniteSet(LineStarts(s)) /\ LineStarts(s) \in SUBSET Nat
      <4>1. LineStarts(s) \in SUBSET Nat
        <5>1. LineStarts(s) \in SUBSET (1 .. Len(s)) /\ Len(s) \in Nat
          BY StartsFinite
        <5>2. 1 .. Len(s) \subseteq Nat
          BY <5>1
        <5> QED
          BY <5>1, <5>2
      <4>2. IsFiniteSet(LineStarts(file)) /\ IsFiniteSet(LineStarts(s))
        BY <1>2, StartsFinite
      <4>3. IsFiniteSet(Waiting(s, f))
        BY WaitingFinite
      <4> QED
        BY <4>1, <4>2, <4>3
    <3>2. LineStarts(s) \in SUBSET (LineStarts(file) \cup Waiting(s, f))
      <4> SUFFICES ASSUME NEW j \in LineStarts(s), ~(j > f) PROVE j \in LineStarts(file)
        BY DEF Waiting
      <4>1. j \in 1 .. Len(s)
        BY StartsFinite
      <4>2. j \in 1 .. f
        BY <1>4, <4>1
      <4> QED
        BY <1>5, <2>6, <4>2
    <3> DEFINE A == LineStarts(file)
               B == Waiting(s, f)
               C == LineStarts(s)
    <3> HIDE DEF A, B, C
    <3>3. IsFiniteSet(A) /\ IsFiniteSet(B) /\ C \in SUBSET (A \cup B)
      BY <3>1, <3>2 DEF A, B, C
    <3>4. PICK q \in Nat : q = Cardinality(A \cap B)
      <4>1. A \cap B \in SUBSET A
        OBVIOUS
      <4> QED
        BY <3>3, <4>1, FS_Subset, FS_CardinalityType
    <3>5. IsFiniteSet(A \cup B) /\ Cardinality(A \cup B) = Cardinality(A) + Cardinality(B) - q
      BY <3>3, <3>4, FS_Union
    <3>6. Cardinality(C) <= Cardinality(A \cup B)
      BY <3>3, <3>5, FS_Subset
    <3>7. Cardinality(A) = h /\ Cardinality(B) = w /\ Cardinality(C) = e
      BY <1>4, <2>3 DEF A, B, C
    <3>8. PICK x \in Nat : x = Cardinality(A \cup B)
      BY <3>5, FS_CardinalityType
    <3>9. x = h + w - q /\ e <= x
      BY <3>5, <3>6, <3>7, <3>8
    <3>10. h \in Nat /\ w \in Nat /\ e \in Nat /\ q \in Nat /\ x \in Nat
      BY <1>4, <2>3, <3>4, <3>8
    <3> QED
      BY <3>9, <3>10
  <2>8. b <= e + m
    BY <1>4, <2>3, <2>4
  <2>9. b <= h + d
    BY <1>4, <2>3, <2>5, <2>7, <2>8
  <2> QED
    BY <1>3, <1>4, <1>8, <2>9
<1> QED
  BY <1>6, <1>7, <1>8 DEF ListedWithinFailures

(* The output path behind the PTY is the file's, with steps of its own.    *)
LEMMA PathIsFile == PathSpec => FileSpec
<1>1. PathInit => FileInit
  BY DEF PathInit
<1>2. [PathNext]_<<filevars, pty>> => [FileNext]_filevars
  BY DEF PathNext, PtyRead, PtyEof
<1> QED
  BY <1>1, <1>2, PTL DEF PathSpec, FileSpec

(* The variables keep their types, wherever a write stops or fails.        *)
THEOREM FileTypeCorrect == FileSpec => []FileTypeOK
BY FileInvariant, FileInvTypes, PTL

(* README.md:493: however many entries there are, however each write(2) is *)
(* cut and whichever fail, once append (src/src/transcript.rs) returned Ok *)
(* its entry and those before it are lines of the file, but for dropped    *)
(* ones and the one behind each.                                           *)
THEOREM OnlyDroppedEverLost == PathSpec => []OnlyDroppedLost
<1>1. FileInv => OnlyDroppedLost
  BY DEF FileInv, HostFileInv
<1> QED
  BY <1>1, PathIsFile, FileInvariant, PTL

(* render_until_eof (src/src/client.rs): the entries that a follower       *)
(* printed are those of one pass over what it has read, in order and none  *)
(* twice, wherever its reads fall between the writes.                      *)
THEOREM AlwaysRenderedOnce == PathSpec => []RenderedOnce
BY PathIsFile, FileInvariant, FileInvRendered, PTL

(* count_lines of --list never counts more than the commands begun; and    *)
(* between two appends it misses none if no write failed, and else no more *)
(* than there were failed writes, as long as what is in the file decodes.  *)
THEOREM ListedAlwaysWithinFailures == PathSpec => []ListedWithinFailures
BY PathIsFile, FileInvariant, EmptiedAlways, FileInvListed, PTL

-----------------------------------------------------------------------------
(* A filter between two bytes.                                             *)
FilterStates == {"Normal", "Esc", "Csi", "StringSeq", "StringSeqSawEsc"}
Printed == Bytes \cup {"lf"}
Filters == [state : FilterStates, out : Seq(Printed)]

(* g makes the steps of the first n bytes of s.                            *)
Steps(g, s, n) == \A i \in 1 .. n : g[i] = Step(g[i - 1], s[i])

(* g is the filter f after 0, 1, 2, ... of the bytes of s.                 *)
Trace(g, f, s) ==
  /\ g \in [0 .. Len(s) -> Filters]
  /\ g[0] = f
  /\ Steps(g, s, Len(s))

LEMMA StepTypes ==
  ASSUME NEW f \in Filters, NEW b \in Bytes
  PROVE  Step(f, b) \in Filters
<1>1. f.state \in FilterStates /\ f.out \in Seq(Printed)
  BY DEF Filters
<1>2. NextState(f.state, b) \in FilterStates
  BY <1>1 DEF FilterStates, NextState
<1>3. Translate(b) \in Printed
  BY DEF Translate, Printed
<1>4. Append(f.out, Translate(b)) \in Seq(Printed)
  BY <1>1, <1>3
<1> QED
  BY <1>1, <1>2, <1>4 DEF Step, Filters

LEMMA TraceExists ==
  ASSUME NEW f \in Filters, NEW s \in Seq(Bytes)
  PROVE  \E g : Trace(g, f, s)
<1>1. PICK n \in Nat : n = Len(s) /\ \A i \in 1 .. n : s[i] \in Bytes
  BY ElementOfSeq
<1> DEFINE Upto(g, m) == /\ g \in [0 .. m -> Filters] /\ g[0] = f
                         /\ \A i \in 1 .. m : g[i] = Step(g[i - 1], s[i])
           T == {m \in Nat : m <= n => \E g : Upto(g, m)}
<1>2. 0 \in T
  <2>1. Upto([i \in 0 .. 0 |-> f], 0)
    OBVIOUS
  <2> QED
    BY <2>1
<1>3. ASSUME NEW m \in Nat, m \in T PROVE m + 1 \in T
  <2> SUFFICES ASSUME m + 1 <= n PROVE \E g : Upto(g, m + 1)
    OBVIOUS
  <2>1. PICK g : Upto(g, m)
    BY <1>3
  <2> DEFINE h == [i \in 0 .. m + 1 |-> IF i <= m THEN g[i] ELSE Step(g[m], s[m + 1])]
  <2>2. Step(g[m], s[m + 1]) \in Filters
    BY <1>1, <2>1, StepTypes
  <2>3. h \in [0 .. m + 1 -> Filters] /\ h[0] = f
    BY <2>1, <2>2
  <2>4. ASSUME NEW i \in 1 .. m + 1 PROVE h[i] = Step(h[i - 1], s[i])
    <3>1. CASE i <= m
      <4>1. i \in 1 .. m /\ h[i] = g[i] /\ h[i - 1] = g[i - 1]
        BY <3>1
      <4> QED
        BY <2>1, <4>1
    <3>2. CASE i = m + 1
      BY <3>2
    <3> QED
      BY <3>1, <3>2
  <2> QED
    BY <2>3, <2>4
<1>4. Nat \subseteq T
  <2> HIDE DEF T
  <2> QED
    BY <1>2, <1>3, NatSetInduction
<1>5. PICK g : Upto(g, n)
  BY <1>1, <1>4
<1> QED
  BY <1>1, <1>5 DEF Trace, Steps

LEMMA TraceUnique ==
  ASSUME NEW s, NEW g, NEW h, NEW n \in Nat,
         g[0] = h[0], Steps(g, s, n), Steps(h, s, n)
  PROVE  \A i \in 0 .. n : g[i] = h[i]
<1> DEFINE T == {m \in Nat : m <= n => g[m] = h[m]}
<1>1. 0 \in T
  OBVIOUS
<1>2. ASSUME NEW m \in Nat, m \in T PROVE m + 1 \in T
  <2> SUFFICES ASSUME m + 1 <= n PROVE g[m + 1] = h[m + 1]
    OBVIOUS
  <2>1. m + 1 \in 1 .. n /\ (m + 1) - 1 = m /\ g[m] = h[m]
    BY <1>2
  <2>2. g[m + 1] = Step(g[m], s[m + 1]) /\ h[m + 1] = Step(h[m], s[m + 1])
    BY <2>1 DEF Steps
  <2> QED
    BY <2>1, <2>2
<1>3. Nat \subseteq T
  <2> HIDE DEF T
  <2> QED
    BY <1>1, <1>2, NatSetInduction
<1> QED
  BY <1>3

(* What feeding a filter amounts to.                                       *)
LEMMA FeedIs ==
  ASSUME NEW f \in Filters, NEW s \in Seq(Bytes), NEW g, Trace(g, f, s)
  PROVE  Feed(f, s) = g[Len(s)]
<1> DEFINE Body(after) == [i \in 0 .. Len(s) |->
                              IF i = 0 THEN f ELSE Step(after[i - 1], s[i])]
           after == CHOOSE a : a = Body(a)
<1>0. PICK n \in Nat : n = Len(s)
  OBVIOUS
<1>1. g = Body(g)
  <2>1. \A i \in 0 .. n : g[i] = IF i = 0 THEN f ELSE Step(g[i - 1], s[i])
    BY <1>0 DEF Trace, Steps
  <2> QED
    BY <1>0, <2>1 DEF Trace
<1>2. after = Body(after)
  BY <1>1
<1>3. after[0] = f /\ \A i \in 1 .. n : after[i] = Step(after[i - 1], s[i])
  <2> HIDE DEF after
  <2> QED
    BY <1>0, <1>2
<1>4. g[0] = f /\ \A i \in 1 .. n : g[i] = Step(g[i - 1], s[i])
  BY <1>0 DEF Trace, Steps
<1>5. \A i \in 0 .. n : after[i] = g[i]
  <2> HIDE DEF after
  <2>1. after[0] = g[0] /\ Steps(after, s, n) /\ Steps(g, s, n)
    BY <1>3, <1>4 DEF Steps
  <2> QED
    BY <2>1, TraceUnique
<1>6. Feed(f, s) = after[Len(s)]
  BY DEF Feed
<1> HIDE DEF after
<1> QED
  BY <1>0, <1>5, <1>6

(* What has been read in two parts is what has been read at once.          *)
LEMMA FeedConcat ==
  ASSUME NEW f \in Filters, NEW s \in Seq(Bytes), NEW t \in Seq(Bytes)
  PROVE  /\ Feed(f, s) \in Filters
         /\ Feed(Feed(f, s), t) = Feed(f, s \o t)
<1>1. PICK n \in Nat, m \in Nat : n = Len(s) /\ m = Len(t)
  OBVIOUS
<1>2. /\ s \o t \in Seq(Bytes) /\ Len(s \o t) = n + m
      /\ \A i \in 1 .. n : (s \o t)[i] = s[i]
      /\ \A i \in n + 1 .. n + m : (s \o t)[i] = t[i - n]
  <2>1. /\ s \o t \in Seq(Bytes) /\ Len(s \o t) = Len(s) + Len(t)
        /\ \A i \in 1 .. Len(s) : (s \o t)[i] = s[i]
        /\ \A i \in Len(s) + 1 .. Len(s) + Len(t) : (s \o t)[i] = t[i - Len(s)]
    BY ConcatProperties
  <2> QED
    BY <1>1, <2>1
<1>3. PICK g : Trace(g, f, s)
  BY TraceExists
<1>4. Feed(f, s) = g[n] /\ g[n] \in Filters
  <2>1. n \in 0 .. Len(s)
    BY <1>1
  <2> QED
    BY <1>1, <1>3, <2>1, FeedIs DEF Trace
<1>5. PICK h : Trace(h, g[n], t)
  BY <1>4, TraceExists
<1>6. PICK k : Trace(k, f, s \o t)
  BY <1>2, TraceExists
<1>7. Feed(g[n], t) = h[m] /\ Feed(f, s \o t) = k[n + m]
  <2>1. Feed(g[n], t) = h[Len(t)]
    BY <1>4, <1>5, FeedIs
  <2>2. Feed(f, s \o t) = k[Len(s \o t)]
    BY <1>2, <1>6, FeedIs
  <2> QED
    BY <1>1, <1>2, <2>1, <2>2
<1>8. k[n] = g[n]
  <2>1. Steps(g, s, n) /\ k[0] = g[0]
    BY <1>1, <1>3, <1>6 DEF Trace
  <2>2. Steps(k, s, n)
    <3>1. \A i \in 1 .. n + m : k[i] = Step(k[i - 1], (s \o t)[i])
      BY <1>2, <1>6 DEF Trace, Steps
    <3>2. \A i \in 1 .. n : i \in 1 .. n + m
      OBVIOUS
    <3>3. \A i \in 1 .. n : k[i] = Step(k[i - 1], (s \o t)[i])
      BY <3>1, <3>2
    <3> QED
      BY <1>2, <3>3 DEF Steps
  <2>3. \A i \in 0 .. n : k[i] = g[i]
    BY <2>1, <2>2, TraceUnique
  <2> QED
    BY <2>3
<1>9. k[n + m] = h[m]
  <2> DEFINE later == [j \in 0 .. m |-> k[n + j]]
  <2>1. later[0] = h[0]
    BY <1>5, <1>8 DEF Trace
  <2>2. Steps(h, t, m)
    BY <1>1, <1>5 DEF Trace
  <2>3. ASSUME NEW j \in 1 .. m PROVE later[j] = Step(later[j - 1], t[j])
    <3>1. \A i \in 1 .. n + m : k[i] = Step(k[i - 1], (s \o t)[i])
      BY <1>2, <1>6 DEF Trace, Steps
    <3>2. n + j \in n + 1 .. n + m /\ n + j \in 1 .. n + m /\ (n + j) - n = j
          /\ (n + j) - 1 = n + (j - 1)
      OBVIOUS
    <3>3. k[n + j] = Step(k[n + (j - 1)], t[j])
      BY <1>2, <3>1, <3>2
    <3>4. later[j] = k[n + j] /\ later[j - 1] = k[n + (j - 1)]
      OBVIOUS
    <3> QED
      BY <3>3, <3>4
  <2>4. later[m] = k[n + m]
    OBVIOUS
  <2> HIDE DEF later
  <2>5. Steps(later, t, m)
    BY <2>3 DEF Steps
  <2>6. \A j \in 0 .. m : later[j] = h[j]
    BY <2>1, <2>2, <2>5, TraceUnique
  <2> QED
    BY <2>4, <2>6
<1> QED
  BY <1>4, <1>7, <1>9

-----------------------------------------------------------------------------
(* The least of some positions.                                            *)
LEMMA MinOfPositions ==
  ASSUME NEW n \in Nat, NEW P \in SUBSET (1 .. n), P # {}, NEW m, m = Min(P)
  PROVE  m \in P /\ \A p \in P : m <= p
<1>1. PICK f : Lists(f, P)
  BY ListExists
<1>2. IsFiniteSet(P) /\ P \in SUBSET Nat
  BY PositionsFinite
<1>3. PICK c \in Nat : c = Cardinality(P) /\ c # 0
  BY <1>2, FS_CardinalityType, FS_EmptySet
<1>4. \A p \in P : \E i \in 1 .. c : f[i] = p
  BY <1>1, <1>2, <1>3, ListIsOnto
<1>5. /\ \A i \in 1 .. c : f[i] \in P /\ f[i] \in Nat
      /\ \A i, j \in 1 .. c : i < j => f[i] < f[j]
  BY <1>1, <1>2, <1>3 DEF Lists
<1>6. \A i \in 1 .. c : f[1] <= f[i]
  BY <1>3, <1>5
<1>7. f[1] \in P /\ f[1] \in Nat
  BY <1>3, <1>5
<1>8. \A y \in P : f[1] <= y
  BY <1>4, <1>6
<1>9. \E x \in P : \A y \in P : x <= y
  BY <1>7, <1>8
<1> QED
  BY <1>9 DEF Min

(* The first of some positions: the end of s, or one of them.              *)
LEMMA FirstIs ==
  ASSUME NEW s \in Seq(Bytes), NEW J \in SUBSET (1 .. Len(s)), Len(s) > 0,
         NEW m, m = First(s, J)
  PROVE  /\ m \in 1 .. Len(s)
         /\ m \in J \/ m = Len(s)
         /\ \A j \in J : m <= j
<1>1. PICK n \in Nat : n = Len(s) /\ n \in 1 .. n
  <2>1. Len(s) \in Nat /\ Len(s) \in 1 .. Len(s)
    OBVIOUS
  <2> QED
    BY <2>1
<1> DEFINE P == J \cup {n}
<1>2. P \in SUBSET (1 .. n) /\ P # {}
  BY <1>1
<1>3. m = Min(P)
  BY <1>1 DEF First
<1>4. m \in P /\ \A p \in P : m <= p
  BY <1>2, <1>3, MinOfPositions
<1> QED
  BY <1>1, <1>2, <1>4

(* A sequence ends at or after its ESC.                                    *)
LEMMA SequenceEndIs ==
  ASSUME NEW s \in Seq(Bytes), NEW i \in 1 .. Len(s)
  PROVE  SequenceEnd(s, i) \in i .. Len(s)
<1>1. PICK n \in Nat : n = Len(s) /\ n > 0
  OBVIOUS
<1> DEFINE k == Introducer(s, i)
<1>2. k \in i .. n
  <2> DEFINE J == {j \in i + 1 .. Len(s) : s[j] # "esc"}
  <2>1. J \in SUBSET (1 .. Len(s))
    OBVIOUS
  <2>2. k = First(s, J)
    BY DEF Introducer
  <2>3. k \in J \/ k = Len(s)
    <3> HIDE DEF J, k
    <3> QED
      BY <1>1, <2>1, <2>2, FirstIs
  <2> QED
    BY <1>1, <2>3
<1>3. ASSUME NEW J \in SUBSET (k + 1 .. n) PROVE First(s, J) \in i .. n
  <2>1. J \in SUBSET (1 .. Len(s))
    BY <1>1, <1>2
  <2>2. First(s, J) \in J \/ First(s, J) = Len(s)
    BY <1>1, <2>1, FirstIs
  <2>3. i \in Nat /\ k \in Nat /\ i <= k /\ k <= n
    BY <1>1, <1>2
  <2> HIDE DEF k
  <2>4. \A j \in J : j \in i .. n
    BY <2>3
  <2>5. n \in i .. n
    BY <1>1, <2>3
  <2> QED
    BY <1>1, <2>2, <2>4, <2>5
<1>4. CsiEnds(s, k) \in SUBSET (k + 1 .. n) /\ StringEnds(s, k) \in SUBSET (k + 1 .. n)
  BY <1>1 DEF CsiEnds, StringEnds
<1>5. SequenceEnd(s, i) \in {First(s, CsiEnds(s, k)), First(s, StringEnds(s, k)), k}
  BY DEF SequenceEnd
<1> HIDE DEF k
<1> QED
  BY <1>1, <1>2, <1>3, <1>4, <1>5

-----------------------------------------------------------------------------
(* What Visible says of s from position i on, if h says so of what follows *)
(* the byte, or the sequence, at i.                                        *)
VisibleAt(h, s, i) ==
  IF i > Len(s) THEN <<>>
  ELSE IF s[i] = "esc" THEN h[SequenceEnd(s, i) + 1]
  ELSE <<Translate(s[i])>> \o h[i + 1]

LEMMA VisibleAtAgrees ==
  ASSUME NEW s \in Seq(Bytes), NEW i \in 1 .. Len(s) + 1, NEW h, NEW k,
         \A j \in i + 1 .. Len(s) + 1 : h[j] = k[j]
  PROVE  VisibleAt(h, s, i) = VisibleAt(k, s, i)
<1>1. CASE i > Len(s)
  BY <1>1 DEF VisibleAt
<1>2. CASE i <= Len(s)
  <2>1. SequenceEnd(s, i) \in i .. Len(s)
    BY <1>2, SequenceEndIs
  <2>2. SequenceEnd(s, i) + 1 \in i + 1 .. Len(s) + 1 /\ i + 1 \in i + 1 .. Len(s) + 1
    BY <1>2, <2>1
  <2>3. h[SequenceEnd(s, i) + 1] = k[SequenceEnd(s, i) + 1] /\ h[i + 1] = k[i + 1]
    BY <2>2
  <2> QED
    BY <2>3 DEF VisibleAt
<1> QED
  BY <1>1, <1>2

(* The function that Visible takes at 1 exists.                            *)
LEMMA VisibleExists ==
  ASSUME NEW s \in Seq(Bytes)
  PROVE  \E h : h = [i \in 1 .. Len(s) + 1 |-> VisibleAt(h, s, i)]
<1>1. PICK n \in Nat : n = Len(s)
  OBVIOUS
<1> DEFINE T == {m \in Nat : m <= n =>
                   \E h : h = [i \in (n + 1) - m .. n + 1 |-> VisibleAt(h, s, i)]}
<1>2. 0 \in T
  <2> DEFINE h == [i \in (n + 1) - 0 .. n + 1 |-> <<>>]
  <2>1. \A i \in (n + 1) - 0 .. n + 1 : VisibleAt(h, s, i) = <<>>
    BY <1>1 DEF VisibleAt
  <2>2. h = [i \in (n + 1) - 0 .. n + 1 |-> VisibleAt(h, s, i)]
    BY <2>1
  <2> HIDE DEF h
  <2> QED
    BY <2>2
<1>3. ASSUME NEW m \in Nat, m \in T PROVE m + 1 \in T
  <2> SUFFICES ASSUME m + 1 <= n
               PROVE  \E h : h = [i \in (n + 1) - (m + 1) .. n + 1 |-> VisibleAt(h, s, i)]
    OBVIOUS
  <2>1. PICK h : h = [i \in (n + 1) - m .. n + 1 |-> VisibleAt(h, s, i)]
    BY <1>3
  <2>2. PICK a \in Nat : a = n - m /\ a >= 1 /\ a <= n
                         /\ (n + 1) - (m + 1) = a /\ (n + 1) - m = a + 1
    OBVIOUS
  <2> DEFINE k == [i \in a .. n + 1 |-> VisibleAt(h, s, i)]
  <2>3. \A i \in a + 1 .. n + 1 : h[i] = k[i]
    <3>1. \A i \in a + 1 .. n + 1 : h[i] = VisibleAt(h, s, i)
      BY <2>1, <2>2
    <3>2. \A i \in a + 1 .. n + 1 : i \in a .. n + 1
      BY <2>2
    <3> QED
      BY <3>1, <3>2
  <2>4. ASSUME NEW i \in a .. n + 1 PROVE VisibleAt(h, s, i) = VisibleAt(k, s, i)
    <3> HIDE DEF k
    <3>1. i \in 1 .. Len(s) + 1
      BY <1>1, <2>2
    <3>2. \A j \in i + 1 .. Len(s) + 1 : j \in a + 1 .. n + 1
      BY <1>1, <2>2
    <3>3. \A j \in i + 1 .. Len(s) + 1 : h[j] = k[j]
      BY <2>3, <3>2
    <3> QED
      BY <3>1, <3>3, VisibleAtAgrees
  <2>5. k = [i \in a .. n + 1 |-> VisibleAt(k, s, i)]
    <3> DEFINE l == [i \in a .. n + 1 |-> VisibleAt(k, s, i)]
    <3>1. \A i \in a .. n + 1 : k[i] = l[i]
      BY <2>4
    <3> QED
      BY <3>1
  <2> HIDE DEF k
  <2> QED
    BY <2>2, <2>5
<1>4. Nat \subseteq T
  <2> HIDE DEF T
  <2> QED
    BY <1>2, <1>3, NatSetInduction
<1>5. \E h : h = [i \in (n + 1) - n .. n + 1 |-> VisibleAt(h, s, i)]
  BY <1>4
<1>6. (n + 1) - n = 1
  OBVIOUS
<1> QED
  BY <1>1, <1>5, <1>6

(* h says what is visible of s from each of its positions on.              *)
Views(h, s) ==
  /\ h \in [1 .. Len(s) + 1 -> Seq(Printed)]
  /\ \A i \in 1 .. Len(s) + 1 : h[i] = VisibleAt(h, s, i)

LEMMA VisibleIs ==
  ASSUME NEW s \in Seq(Bytes)
  PROVE  \E h : Views(h, s) /\ Visible(s) = h[1]
<1>1. PICK n \in Nat : n = Len(s)
  OBVIOUS
<1> DEFINE Body(h) == [i \in 1 .. Len(s) + 1 |->
                         IF i > Len(s) THEN <<>>
                         ELSE IF s[i] = "esc" THEN h[SequenceEnd(s, i) + 1]
                         ELSE <<Translate(s[i])>> \o h[i + 1]]
           from == CHOOSE h : h = Body(h)
<1>2. \E h : h = Body(h)
  BY VisibleExists DEF VisibleAt
<1>3. from = Body(from)
  BY <1>2
<1>4. Visible(s) = from[1]
  BY DEF Visible
<1> HIDE DEF from
<1>5. from = [i \in 1 .. n + 1 |-> VisibleAt(from, s, i)]
  BY <1>1, <1>3 DEF VisibleAt
<1> HIDE DEF Body
<1>6. \A i \in 1 .. n + 1 : from[i] = VisibleAt(from, s, i)
  BY <1>5
<1> DEFINE T == {m \in Nat : \A i \in 1 .. n + 1 : (n + 1) - i <= m => from[i] \in Seq(Printed)}
<1>7. 0 \in T
  <2>1. ASSUME NEW i \in 1 .. n + 1, (n + 1) - i <= 0 PROVE from[i] = <<>>
    <3>1. i > Len(s)
      BY <1>1, <2>1
    <3> QED
      BY <1>6, <3>1 DEF VisibleAt
  <2>2. <<>> \in Seq(Printed)
    OBVIOUS
  <2> QED
    BY <2>1, <2>2
<1>8. ASSUME NEW m \in Nat, m \in T PROVE m + 1 \in T
  <2> SUFFICES ASSUME NEW i \in 1 .. n + 1, (n + 1) - i <= m + 1
               PROVE  from[i] \in Seq(Printed)
    OBVIOUS
  <2>1. \A j \in i + 1 .. n + 1 : from[j] \in Seq(Printed)
    <3> TAKE j \in i + 1 .. n + 1
    <3>1. j \in 1 .. n + 1 /\ (n + 1) - j <= m
      OBVIOUS
    <3> QED
      BY <1>8, <3>1
  <2>2. from[i] = VisibleAt(from, s, i)
    BY <1>6
  <2>3. CASE i > n
    <3>1. from[i] = <<>>
      BY <1>1, <2>2, <2>3 DEF VisibleAt
    <3> QED
      BY <3>1
  <2>4. CASE i <= n
    <3>1. i \in 1 .. Len(s) /\ ~(i > Len(s))
      BY <1>1, <2>4
    <3>2. SequenceEnd(s, i) \in i .. n
      BY <1>1, <3>1, SequenceEndIs
    <3>3. SequenceEnd(s, i) + 1 \in i + 1 .. n + 1 /\ i + 1 \in i + 1 .. n + 1
      BY <2>4, <3>2
    <3>4. s[i] \in Bytes
      BY <3>1, ElementOfSeq
    <3>5. <<Translate(s[i])>> \in Seq(Printed)
      BY <3>4 DEF Translate, Printed
    <3>6. from[i + 1] \in Seq(Printed) /\ from[SequenceEnd(s, i) + 1] \in Seq(Printed)
      BY <2>1, <3>3
    <3>7. <<Translate(s[i])>> \o from[i + 1] \in Seq(Printed)
      BY <3>5, <3>6, ConcatProperties
    <3> QED
      BY <2>2, <3>1, <3>6, <3>7 DEF VisibleAt
  <2> QED
    BY <2>3, <2>4
<1>9. Nat \subseteq T
  <2> HIDE DEF T
  <2> QED
    BY <1>7, <1>8, NatSetInduction
<1>10. \A i \in 1 .. n + 1 : from[i] \in Seq(Printed)
  <2> TAKE i \in 1 .. n + 1
  <2>1. (n + 1) - i \in Nat /\ (n + 1) - i <= (n + 1) - i
    OBVIOUS
  <2>2. (n + 1) - i \in T
    BY <1>9, <2>1
  <2> QED
    BY <2>1, <2>2
<1>11. from \in [1 .. n + 1 -> Seq(Printed)]
  BY <1>5, <1>6, <1>10
<1>12. Views(from, s)
  BY <1>1, <1>6, <1>11 DEF Views
<1> QED
  BY <1>4, <1>12

-----------------------------------------------------------------------------
(* A filter that g says to be in state at[a] after a bytes, and that the   *)
(* bytes up to e take through the states at and then to "Normal" (unless   *)
(* they are the last), prints nothing of them.                             *)
LEMMA NothingPrinted ==
  ASSUME NEW s \in Seq(Bytes), NEW f, NEW g, Trace(g, f, s),
         NEW a \in 0 .. Len(s), NEW e \in a .. Len(s), NEW at,
         g[a].state = at[a],
         \A j \in a .. e - 1 : at[j] # "Normal",
         \A j \in a + 1 .. e - 1 : NextState(at[j - 1], s[j]) = at[j],
         e = Len(s) \/ (e > a /\ NextState(at[e - 1], s[e]) = "Normal")
  PROVE  /\ g[e].out = g[a].out
         /\ e = Len(s) \/ g[e].state = "Normal"
<1>1. PICK n \in Nat : n = Len(s)
  OBVIOUS
<1>2. \A j \in 1 .. n : g[j] = Step(g[j - 1], s[j])
  BY <1>1 DEF Trace, Steps
<1> DEFINE T == {m \in Nat : a + m <= e - 1 =>
                   g[a + m].state = at[a + m] /\ g[a + m].out = g[a].out}
<1>3. 0 \in T
  OBVIOUS
<1>4. ASSUME NEW m \in Nat, m \in T PROVE m + 1 \in T
  <2> SUFFICES ASSUME a + (m + 1) <= e - 1
               PROVE  /\ g[a + (m + 1)].state = at[a + (m + 1)]
                      /\ g[a + (m + 1)].out = g[a].out
    OBVIOUS
  <2>1. PICK j \in Nat : j = a + (m + 1) /\ j - 1 = a + m /\ j \in a + 1 .. e - 1
                         /\ j \in 1 .. n /\ j - 1 \in a .. e - 1 /\ a + m <= e - 1
    BY <1>1
  <2>2. g[j - 1].state = at[j - 1] /\ g[j - 1].out = g[a].out
    BY <1>4, <2>1
  <2>3. at[j - 1] # "Normal" /\ NextState(at[j - 1], s[j]) = at[j]
    BY <2>1
  <2>4. g[j] = Step(g[j - 1], s[j])
    BY <1>2, <2>1
  <2>5. g[j].state = at[j] /\ g[j].out = g[a].out
    BY <2>2, <2>3, <2>4 DEF Step
  <2> QED
    BY <2>1, <2>5
<1>5. Nat \subseteq T
  <2> HIDE DEF T
  <2> QED
    BY <1>3, <1>4, NatSetInduction
<1>6. \A j \in a .. e - 1 : g[j].state = at[j] /\ g[j].out = g[a].out
  <2> TAKE j \in a .. e - 1
  <2>1. PICK m \in Nat : m = j - a /\ a + m = j /\ a + m <= e - 1
    OBVIOUS
  <2>2. m \in T
    BY <1>5
  <2> QED
    BY <2>1, <2>2
<1>7. CASE e = a
  BY <1>7
<1>8. CASE e > a
  <2>1. e - 1 \in a .. e - 1 /\ e \in 1 .. n
    BY <1>1, <1>8
  <2>2. g[e - 1].state = at[e - 1] /\ g[e - 1].out = g[a].out /\ at[e - 1] # "Normal"
    BY <1>6, <2>1
  <2>3. g[e] = Step(g[e - 1], s[e])
    BY <1>2, <2>1
  <2>4. g[e].state = NextState(at[e - 1], s[e]) /\ g[e].out = g[a].out
    BY <2>2, <2>3 DEF Step
  <2> QED
    BY <2>4
<1> QED
  BY <1>7, <1>8

(* An escape sequence is not printed, and what follows it is read afresh.  *)
LEMMA SequenceIsCut ==
  ASSUME NEW s \in Seq(Bytes), NEW f, NEW g, Trace(g, f, s),
         NEW i \in 1 .. Len(s), s[i] = "esc", g[i - 1].state = "Normal",
         NEW e, e = SequenceEnd(s, i)
  PROVE  /\ g[e].out = g[i - 1].out
         /\ e = Len(s) \/ g[e].state = "Normal"
<1>1. PICK n \in Nat : n = Len(s) /\ n > 0 /\ i \in 1 .. n
  OBVIOUS
<1>2. \A j \in 1 .. n : g[j] = Step(g[j - 1], s[j])
  BY <1>1 DEF Trace, Steps
<1>3. g[i].state = "Esc" /\ g[i].out = g[i - 1].out
  <2>1. g[i] = Step(g[i - 1], "esc")
    BY <1>1, <1>2
  <2> QED
    BY <2>1 DEF Step, NextState
<1> DEFINE J == {j \in i + 1 .. Len(s) : s[j] # "esc"}
<1>4. PICK k \in Nat : k = Introducer(s, i) /\ k \in i .. n
                       /\ (k \in J \/ k = n) /\ \A j \in J : k <= j
  <2>1. J \in SUBSET (1 .. Len(s)) /\ Len(s) > 0
    BY <1>1
  <2>2. Introducer(s, i) = First(s, J)
    BY DEF Introducer
  <2> HIDE DEF J
  <2>3. /\ Introducer(s, i) \in 1 .. Len(s)
        /\ Introducer(s, i) \in J \/ Introducer(s, i) = Len(s)
        /\ \A j \in J : Introducer(s, i) <= j
    BY <2>1, <2>2, FirstIs
  <2> USE DEF J
  <2>4. Introducer(s, i) \in i .. n
    BY <1>1, <2>3
  <2> QED
    BY <1>1, <2>3, <2>4
<1>5. \A j \in i + 1 .. k - 1 : s[j] = "esc"
  BY <1>1, <1>4
<1>6. s[k] \in Bytes
  <2>1. k \in 1 .. Len(s)
    BY <1>1, <1>4
  <2> QED
    BY <2>1, ElementOfSeq
<1>7. \A j \in i .. k - 1 : g[j].state = "Esc" /\ g[j].out = g[i - 1].out
  <2> DEFINE T == {m \in Nat : i + m <= k - 1 =>
                     g[i + m].state = "Esc" /\ g[i + m].out = g[i - 1].out}
  <2>1. 0 \in T
    BY <1>3
  <2>2. ASSUME NEW m \in Nat, m \in T PROVE m + 1 \in T
    <3> SUFFICES ASSUME i + (m + 1) <= k - 1
                 PROVE  g[i + (m + 1)].state = "Esc" /\ g[i + (m + 1)].out = g[i - 1].out
      OBVIOUS
    <3>1. PICK j \in Nat : j = i + (m + 1) /\ j - 1 = i + m /\ j \in i + 1 .. k - 1
                           /\ j \in 1 .. n /\ i + m <= k - 1
      BY <1>1, <1>4
    <3>2. g[j - 1].state = "Esc" /\ g[j - 1].out = g[i - 1].out
      BY <2>2, <3>1
    <3>3. g[j] = Step(g[j - 1], s[j]) /\ s[j] = "esc"
      BY <1>2, <1>5, <3>1
    <3>4. g[j].state = "Esc" /\ g[j].out = g[i - 1].out
      BY <3>2, <3>3 DEF Step, NextState
    <3> QED
      BY <3>1, <3>4
  <2>3. Nat \subseteq T
    <3> HIDE DEF T
    <3> QED
      BY <2>1, <2>2, NatSetInduction
  <2> TAKE j \in i .. k - 1
  <2>4. PICK m \in Nat : m = j - i /\ i + m = j /\ i + m <= k - 1
    BY <1>1
  <2>5. m \in T
    BY <2>3
  <2> QED
    BY <2>4, <2>5
<1>8. /\ g[k].out = g[i - 1].out
      /\ g[k].state = NextState("Esc", s[k])
  <2>1. CASE k = i
    <3>1. NextState("Esc", "esc") = "Esc"
      BY DEF NextState
    <3> QED
      BY <1>3, <2>1, <3>1
  <2>2. CASE k > i
    <3>1. k \in 1 .. n /\ k - 1 \in i .. k - 1
      BY <1>1, <1>4, <2>2
    <3>2. g[k - 1].state = "Esc" /\ g[k - 1].out = g[i - 1].out /\ g[k] = Step(g[k - 1], s[k])
      BY <1>2, <1>7, <3>1
    <3> QED
      BY <3>2 DEF Step
  <2>3. k = i \/ k > i
    BY <1>1, <1>4
  <2> QED
    BY <2>1, <2>2, <2>3
<1>9. k \in 0 .. Len(s) /\ i \in Nat
  BY <1>1, <1>4
<1>10. CASE s[k] = "lbr"
  <2> DEFINE K == CsiEnds(s, k)
             at == [j \in Nat |-> "Csi"]
  <2>1. K \in SUBSET (1 .. Len(s)) /\ Len(s) > 0
    BY <1>1, <1>4 DEF CsiEnds
  <2>2. e = First(s, K)
    BY <1>4, <1>10 DEF SequenceEnd
  <2>3. /\ e \in 1 .. Len(s)
        /\ e \in K \/ e = Len(s)
        /\ \A j \in K : e <= j
    <3> HIDE DEF K
    <3> QED
      BY <2>1, <2>2, FirstIs
  <2>4. e \in Nat /\ e \in k .. Len(s) /\ (e \in K => e > k)
    BY <1>1, <1>4, <2>3 DEF CsiEnds
  <2>5. g[k].state = at[k]
    BY <1>8, <1>10 DEF NextState
  <2>6. \A j \in k .. e - 1 : at[j] # "Normal"
    BY <2>4
  <2>7. ASSUME NEW j \in k + 1 .. e - 1 PROVE NextState(at[j - 1], s[j]) = at[j]
    <3>1. at[j - 1] = "Csi" /\ at[j] = "Csi" /\ j \in k + 1 .. Len(s) /\ ~(e <= j)
      BY <1>1, <2>4
    <3>2. s[j] \notin CsiFinal
      BY <2>3, <3>1 DEF CsiEnds
    <3> QED
      BY <3>1, <3>2 DEF NextState
  <2>8. e = Len(s) \/ (e > k /\ NextState(at[e - 1], s[e]) = "Normal")
    <3>1. CASE e \in K
      <4>1. at[e - 1] = "Csi" /\ s[e] \in CsiFinal /\ e > k
        BY <2>4, <3>1 DEF CsiEnds
      <4> QED
        BY <4>1 DEF NextState
    <3> QED
      BY <2>3, <3>1
  <2> HIDE DEF at
  <2>9. g[e].out = g[k].out /\ (e = Len(s) \/ g[e].state = "Normal")
    BY <1>9, <2>4, <2>5, <2>6, <2>7, <2>8, NothingPrinted
  <2> QED
    BY <1>8, <2>9
<1>11. CASE s[k] = "str"
  <2> DEFINE K == StringEnds(s, k)
             at == [j \in Nat |-> IF j > k /\ s[j] = "esc" THEN "StringSeqSawEsc" ELSE "StringSeq"]
  <2>1. K \in SUBSET (1 .. Len(s)) /\ Len(s) > 0
    BY <1>1, <1>4 DEF StringEnds
  <2>2. e = First(s, K)
    BY <1>4, <1>11 DEF SequenceEnd
  <2>3. /\ e \in 1 .. Len(s)
        /\ e \in K \/ e = Len(s)
        /\ \A j \in K : e <= j
    <3> HIDE DEF K
    <3> QED
      BY <2>1, <2>2, FirstIs
  <2>4. e \in Nat /\ e \in k .. Len(s) /\ (e \in K => e > k)
    BY <1>1, <1>4, <2>3 DEF StringEnds
  <2>5. g[k].state = at[k]
    BY <1>8, <1>11 DEF NextState
  <2>6. \A j \in k .. e - 1 : at[j] # "Normal"
    BY <2>4
  <2>7. ASSUME NEW j \in k + 1 .. Len(s)
        PROVE  at[j - 1] = IF s[j - 1] = "esc" THEN "StringSeqSawEsc" ELSE "StringSeq"
    <3>1. CASE j = k + 1
      <4>1. j - 1 = k /\ ~(k > k)
        BY <3>1
      <4> QED
        BY <1>11, <4>1
    <3>2. CASE j > k + 1
      <4>1. j - 1 \in Nat /\ j - 1 > k
        BY <3>2
      <4> QED
        BY <4>1
    <3> QED
      BY <3>1, <3>2
  <2>8. ASSUME NEW j \in k + 1 .. e - 1 PROVE NextState(at[j - 1], s[j]) = at[j]
    <3>1. j \in k + 1 .. Len(s) /\ ~(e <= j) /\ j > k /\ j \in Nat
      BY <1>1, <2>4
    <3>2. ~ IF s[j - 1] = "esc" THEN s[j] = "bsl" ELSE s[j] = "bel"
      BY <2>3, <3>1 DEF StringEnds
    <3>3. at[j - 1] = IF s[j - 1] = "esc" THEN "StringSeqSawEsc" ELSE "StringSeq"
      BY <2>7, <3>1
    <3>4. at[j] = IF s[j] = "esc" THEN "StringSeqSawEsc" ELSE "StringSeq"
      BY <3>1
    <3> HIDE DEF at
    <3> QED
      BY <3>2, <3>3, <3>4 DEF NextState
  <2>9. e = Len(s) \/ (e > k /\ NextState(at[e - 1], s[e]) = "Normal")
    <3>1. CASE e \in K
      <4>1. e > k /\ e \in k + 1 .. Len(s)
        BY <2>4, <3>1
      <4>2. IF s[e - 1] = "esc" THEN s[e] = "bsl" ELSE s[e] = "bel"
        BY <3>1 DEF StringEnds
      <4>3. at[e - 1] = IF s[e - 1] = "esc" THEN "StringSeqSawEsc" ELSE "StringSeq"
        BY <2>7, <4>1
      <4> HIDE DEF at
      <4> QED
        BY <4>1, <4>2, <4>3 DEF NextState
    <3> QED
      BY <2>3, <3>1
  <2> HIDE DEF at
  <2>10. g[e].out = g[k].out /\ (e = Len(s) \/ g[e].state = "Normal")
    BY <1>9, <2>4, <2>5, <2>6, <2>8, <2>9, NothingPrinted
  <2> QED
    BY <1>8, <2>10
<1>12. CASE s[k] # "lbr" /\ s[k] # "str"
  <2>1. e = k
    BY <1>4, <1>12 DEF SequenceEnd
  <2>2. CASE s[k] = "esc"
    <3>1. k = n
      BY <1>4, <2>2
    <3> QED
      BY <1>1, <1>8, <2>1, <3>1
  <2>3. CASE s[k] # "esc"
    BY <1>8, <1>12, <2>1, <2>3 DEF NextState
  <2> QED
    BY <2>2, <2>3
<1> QED
  BY <1>10, <1>11, <1>12

-----------------------------------------------------------------------------
(* A new filter prints what is visible of its input.                       *)
LEMMA FeedIsVisible ==
  ASSUME NEW s \in Seq(Bytes)
  PROVE  New \in Filters /\ Feed(New, s).out = Visible(s)
<1>1. PICK n \in Nat : n = Len(s)
  OBVIOUS
<1>2. New \in Filters
  BY DEF New, Filters, FilterStates
<1>3. PICK g : Trace(g, New, s)
  BY <1>2, TraceExists
<1>4. PICK h : Views(h, s) /\ Visible(s) = h[1]
  BY VisibleIs
<1>5. /\ \A i \in 0 .. n : g[i] \in Filters
      /\ \A i \in 1 .. n : g[i] = Step(g[i - 1], s[i])
      /\ \A i \in 1 .. n + 1 : h[i] = VisibleAt(h, s, i) /\ h[i] \in Seq(Printed)
  BY <1>1, <1>3, <1>4 DEF Trace, Steps, Views
<1>6. h[n + 1] = <<>>
  <2>1. n + 1 \in 1 .. n + 1 /\ n + 1 > Len(s)
    BY <1>1
  <2> QED
    BY <1>5, <2>1 DEF VisibleAt
<1> DEFINE Rest(i) == g[i - 1].state = "Normal" => g[n].out = g[i - 1].out \o h[i]
           T == {m \in Nat : \A i \in 1 .. n + 1 : (n + 1) - i <= m => Rest(i)}
<1>7. Rest(n + 1)
  <2>1. (n + 1) - 1 = n /\ n \in 0 .. n
    OBVIOUS
  <2>2. g[n].out \in Seq(Printed)
    BY <1>5, <2>1 DEF Filters
  <2> QED
    BY <1>6, <2>1, <2>2, ConcatEmptySeq
<1>8. 0 \in T
  <2>1. \A i \in 1 .. n + 1 : (n + 1) - i <= 0 => i = n + 1
    OBVIOUS
  <2> HIDE DEF Rest
  <2> QED
    BY <1>7, <2>1
<1>9. ASSUME NEW m \in Nat, m \in T PROVE m + 1 \in T
  <2> HIDE DEF Rest
  <2> SUFFICES ASSUME NEW i \in 1 .. n + 1, (n + 1) - i <= m + 1 PROVE Rest(i)
    OBVIOUS
  <2>1. CASE i = n + 1
    BY <1>7, <2>1
  <2>2. CASE i <= n
    <3> USE DEF Rest
    <3> SUFFICES ASSUME g[i - 1].state = "Normal" PROVE g[n].out = g[i - 1].out \o h[i]
      OBVIOUS
    <3>1. /\ i \in 1 .. Len(s) /\ i \in 1 .. n /\ ~(i > Len(s))
          /\ i - 1 \in 0 .. n /\ (i + 1) - 1 = i /\ i + 1 \in 1 .. n + 1
      BY <1>1, <2>2
    <3>2. h[i] = VisibleAt(h, s, i) /\ g[i] = Step(g[i - 1], s[i])
      BY <1>5, <3>1
    <3>3. \A j \in i + 1 .. n + 1 : Rest(j)
      <4> TAKE j \in i + 1 .. n + 1
      <4>1. j \in 1 .. n + 1 /\ (n + 1) - j <= m
        OBVIOUS
      <4> HIDE DEF Rest
      <4> QED
        BY <1>9, <4>1
    <3>4. CASE s[i] = "esc"
      <4>1. PICK e \in Nat : e = SequenceEnd(s, i) /\ e \in i .. n
        <5>1. SequenceEnd(s, i) \in i .. n
          BY <1>1, <3>1, SequenceEndIs
        <5> QED
          BY <5>1
      <4>2. h[i] = h[e + 1]
        BY <3>1, <3>2, <3>4, <4>1 DEF VisibleAt
      <4>3. g[e].out = g[i - 1].out /\ (e = Len(s) \/ g[e].state = "Normal")
        BY <1>3, <3>1, <3>4, <4>1, SequenceIsCut
      <4>4. e + 1 \in i + 1 .. n + 1 /\ (e + 1) - 1 = e /\ e \in 0 .. n
        BY <3>1, <4>1
      <4>5. CASE e = n
        <5>1. g[n].out \in Seq(Printed)
          BY <1>5, <4>4, <4>5 DEF Filters
        <5>2. g[n].out \o <<>> = g[n].out
          BY <5>1, ConcatEmptySeq
        <5>3. h[i] = <<>> /\ g[n].out = g[i - 1].out
          BY <1>6, <4>2, <4>3, <4>5
        <5> QED
          BY <5>2, <5>3
      <4>6. CASE e # n
        <5>1. g[e].state = "Normal"
          BY <1>1, <4>3, <4>6
        <5>2. Rest(e + 1)
          BY <3>3, <4>4
        <5>3. g[n].out = g[e].out \o h[e + 1]
          BY <4>4, <5>1, <5>2
        <5> QED
          BY <4>2, <4>3, <5>3
      <4> QED
        BY <4>5, <4>6
    <3>5. CASE s[i] # "esc"
      <4>1. s[i] \in Bytes
        BY <3>1, ElementOfSeq
      <4>2. PICK t \in Printed : t = Translate(s[i])
        BY <4>1 DEF Translate, Printed
      <4>3. h[i] = <<t>> \o h[i + 1] /\ h[i + 1] \in Seq(Printed)
        BY <1>5, <3>1, <3>2, <3>5, <4>2 DEF VisibleAt
      <4>4. g[i].state = "Normal" /\ g[i].out = Append(g[i - 1].out, t)
        BY <3>2, <3>5, <4>2 DEF Step, NextState
      <4>5. PICK o \in Seq(Printed) : o = g[i - 1].out
        BY <1>5, <3>1 DEF Filters
      <4>6. Rest(i + 1)
        <5>1. i + 1 \in i + 1 .. n + 1
          BY <3>1
        <5> HIDE DEF Rest
        <5> QED
          BY <3>3, <5>1
      <4>7. g[n].out = g[i].out \o h[i + 1]
        BY <3>1, <4>4, <4>6
      <4>8. PICK r \in Seq(Printed) : r = h[i + 1]
        BY <4>3
      <4>9. Append(o, t) \o r = o \o (<<t>> \o r)
        BY AppendThenConcat
      <4> QED
        BY <4>3, <4>4, <4>5, <4>7, <4>8, <4>9
    <3> QED
      BY <3>4, <3>5
  <2> QED
    BY <2>1, <2>2
<1>10. Nat \subseteq T
  <2> HIDE DEF T
  <2> QED
    BY <1>8, <1>9, NatSetInduction
<1>11. Rest(1)
  <2>1. 1 \in 1 .. n + 1 /\ n \in Nat /\ (n + 1) - 1 <= n
    OBVIOUS
  <2>2. n \in T
    BY <1>10
  <2> HIDE DEF Rest
  <2> QED
    BY <2>1, <2>2
<1>12. g[0] = New /\ g[n].out = h[1]
  <2>1. g[0] = New /\ 1 - 1 = 0
    BY <1>3 DEF Trace
  <2>2. g[1 - 1].state = "Normal" /\ g[1 - 1].out = <<>>
    BY <2>1 DEF New
  <2>3. g[n].out = <<>> \o h[1]
    BY <1>11, <2>2
  <2>4. h[1] \in Seq(Printed)
    BY <1>5
  <2>5. <<>> \o h[1] = h[1]
    BY <2>4, ConcatEmptySeq
  <2> QED
    BY <2>1, <2>3, <2>5
<1>13. Feed(New, s) = g[n]
  BY <1>1, <1>2, <1>3, FeedIs
<1> QED
  BY <1>2, <1>4, <1>12, <1>13

LEMMA FeedOfNothing == Feed(New, <<>>) = New
<1>1. <<>> \in Seq(Bytes) /\ Len(<<>>) = 0
  OBVIOUS
<1>2. New \in Filters
  BY <1>1, FeedIsVisible
<1>3. PICK g : Trace(g, New, <<>>)
  BY <1>1, <1>2, TraceExists
<1> QED
  BY <1>1, <1>2, <1>3, FeedIs DEF Trace

-----------------------------------------------------------------------------
(* The filter of the PTY has been fed all that was read, in however many   *)
(* reads.                                                                  *)
FilterInv ==
  /\ raw_total \in Seq(Bytes)
  /\ filter = Feed(New, raw_total)

LEMMA FilterInvNext == FilterInv /\ [PathNext]_<<filevars, pty>> => FilterInv'
<1> SUFFICES ASSUME FilterInv, [PathNext]_<<filevars, pty>> PROVE FilterInv'
  OBVIOUS
<1>1. CASE UNCHANGED pty
  BY <1>1 DEF FilterInv, pty
<1>2. CASE PtyRead
  <2>1. PICK chunk \in BoundedSeq(Bytes, MaxBytes - Len(raw_total)) :
             raw_total' = raw_total \o chunk /\ filter' = Push(filter, chunk)
    BY <1>2 DEF PtyRead
  <2>2. chunk \in Seq(Bytes)
    <3>1. PICK m \in 0 .. MaxBytes - Len(raw_total) : chunk \in [1 .. m -> Bytes]
      BY DEF BoundedSeq, SeqOf
    <3>2. m \in Nat
      OBVIOUS
    <3> QED
      BY <3>1, <3>2, FunctionIsSeq
  <2>3. raw_total \in Seq(Bytes) /\ New \in Filters
    BY FeedIsVisible DEF FilterInv
  <2>4. filter' = Feed(New, raw_total \o chunk)
    BY <2>1, <2>2, <2>3, FeedConcat DEF FilterInv, Push
  <2>5. raw_total \o chunk \in Seq(Bytes)
    BY <2>2, <2>3, ConcatProperties
  <2> QED
    BY <2>1, <2>4, <2>5 DEF FilterInv
<1>3. CASE PtyEof
  <2>1. raw_total' = <<>> /\ filter' = New
    BY <1>3 DEF PtyEof
  <2>2. Feed(New, <<>>) = New
    BY FeedOfNothing
  <2> QED
    BY <2>1, <2>2 DEF FilterInv
<1> QED
  BY <1>1, <1>2, <1>3 DEF PathNext, pty

(* README.md:343-347: what the filter has let through is what Visible      *)
(* keeps of all the output read so far, for every output and every way of  *)
(* cutting it into reads.                                                  *)
THEOREM FilterAlwaysExact == PathSpec => []FilterExact
<1>1. PathInit => FilterInv
  BY FeedOfNothing DEF PathInit, FilterInv
<1>2. FilterInv => FilterExact
  BY FeedIsVisible DEF FilterInv, FilterExact
<1> QED
  BY <1>1, <1>2, FilterInvNext, PTL DEF PathSpec
=============================================================================
