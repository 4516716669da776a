--------------------------- MODULE TranscriptFile ---------------------------
(***************************************************************************)
(* The transcript file under TranscriptQueue: TranscriptWriter::append of  *)
(* src/src/transcript.rs with its BufWriter, of which any write may fail   *)
(* (and submit ignores it), and a client that prints and follows the file  *)
(* (src/src/client.rs print and render_until_eof).  The host holds a lock  *)
(* while it appends; the client knows of no lock, and reads lines half     *)
(* written.                                                                *)
(*                                                                         *)
(* A line is two pieces and a newline: any write(2) may end after a piece. *)
(* Definitions marked "Fault" are not part of the model: each is a variant *)
(* of the definition after it with one bug, which a property must detect.  *)
(***************************************************************************)
EXTENDS Naturals, Sequences, FiniteSetsExt, Selections

CONSTANTS
  MaxEntries,  (* entries that are appended                                *)
  MaxFailures, (* writes that fail (disk full, quota)                      *)
  Wide         (* entries whose line is cut inside a character when only   *)
               (* its first piece is written (serde_json leaves it UTF-8)  *)

ASSUME TranscriptFileAssumption ==
  MaxEntries \in Nat /\ MaxFailures \in Nat /\ Wide \subseteq 0 .. MaxEntries - 1

VARIABLES
  file,      (* what other processes can read                              *)
  buffer,    (* BufWriter's buffer                                         *)
  direct,    (* what is left of a line that is written past the buffer     *)
  writer,    (* "idle"; or writing the buffer to make room, a long line,   *)
             (* or the buffer in flush                                     *)
  long,      (* the entries whose line is longer than BufWriter's buffer   *)
  begun,     (* entries that append was called for: 0 .. begun - 1         *)
  ok,        (* history: those for which it returned Ok                    *)
  dropped,   (* history: those of which a write failed before all was in   *)
             (* the buffer                                                 *)
  failures,
  follower,  (* "waits" or "reads"                                         *)
  offset,    (* local offset of print                                      *)
  rendered   (* entries that were printed                                  *)

appender == <<file, buffer, direct, writer, long, begun, ok, dropped, failures>>
following == <<follower, offset, rendered>>
filevars == <<appender, following>>

Entries == 0 .. MaxEntries - 1
Pieces == [entry : Entries, part : {"head", "tail", "newline"}]
Piece(i, part) == [entry |-> i, part |-> part]
Json(i) == <<Piece(i, "head"), Piece(i, "tail")>>
Newline(i) == <<Piece(i, "newline")>>

FileTypeOK ==
  /\ file \in Seq(Pieces) /\ buffer \in Seq(Pieces) /\ direct \in Seq(Pieces)
  /\ writer \in {"idle", "room", "direct", "flush"}
  /\ long \subseteq Entries /\ ok \subseteq Entries /\ dropped \subseteq Entries
  /\ begun \in 0 .. MaxEntries /\ failures \in 0 .. MaxFailures
  /\ follower \in {"waits", "reads"} /\ offset \in 0 .. Len(file)
  /\ rendered \in Seq(Entries)

FileInit ==
  /\ file = <<>> /\ buffer = <<>> /\ direct = <<>> /\ writer = "idle"
  /\ long = {} /\ begun = 0 /\ ok = {} /\ dropped = {} /\ failures = 0
  /\ follower = "waits" /\ offset = 0 /\ rendered = <<>>

-----------------------------------------------------------------------------
(* TranscriptWriter::append: write_all(line), write_all("\n"), flush.      *)

(* BufWriter: what fits is buffered; a longer line first makes room, and   *)
(* is then written directly.                                               *)
Buffered(i) ==
  /\ buffer' = buffer \o Json(i) \o Newline(i)
  /\ writer' = "flush"
  /\ UNCHANGED direct

Unbuffered(i) ==
  /\ direct' = Json(i)
  /\ writer' = "direct"
  /\ UNCHANGED buffer

AppendLine ==
  /\ writer = "idle" /\ begun < MaxEntries
  /\ begun' = begun + 1
  /\ \/ Buffered(begun) /\ UNCHANGED long
     \/ buffer = <<>> /\ Unbuffered(begun) /\ long' = long \cup {begun}
     \/ /\ buffer # <<>>
        /\ writer' = "room"
        /\ long' \in {long, long \cup {begun}}
        /\ UNCHANGED <<buffer, direct>>
  /\ UNCHANGED <<file, ok, dropped, failures, following>>

(* One write(2), which may take only a part.                               *)
WriteSome(from) ==
  \E n \in 1 .. Len(from) : file' = file \o SubSeq(from, 1, n)
Left(from) == SubSeq(from, Len(file') - Len(file) + 1, Len(from))

MakeRoom ==
  /\ writer = "room"
  /\ WriteSome(buffer)
  /\ LET i == begun - 1 IN
       IF Left(buffer) # <<>> THEN buffer' = Left(buffer) /\ UNCHANGED <<direct, writer>>
       ELSE IF i \in long THEN buffer' = <<>> /\ direct' = Json(i) /\ writer' = "direct"
       ELSE buffer' = Json(i) \o Newline(i) /\ writer' = "flush" /\ UNCHANGED direct
  /\ UNCHANGED <<long, begun, ok, dropped, failures, following>>

WriteDirect ==
  /\ writer = "direct"
  /\ WriteSome(direct)
  /\ direct' = Left(direct)
  /\ IF direct' = <<>> THEN buffer' = Newline(begun - 1) /\ writer' = "flush"
                       ELSE UNCHANGED <<buffer, writer>>
  /\ UNCHANGED <<long, begun, ok, dropped, failures, following>>

Flush ==
  /\ writer = "flush"
  /\ WriteSome(buffer)
  /\ buffer' = Left(buffer)
  /\ IF buffer' = <<>> THEN writer' = "idle" /\ ok' = ok \cup {begun - 1}
                       ELSE UNCHANGED <<writer, ok>>
  /\ UNCHANGED <<direct, long, begun, dropped, failures, following>>

FailingWrite ==
  /\ writer # "idle" /\ failures < MaxFailures
  /\ failures' = failures + 1
  /\ direct' = <<>>
  /\ dropped' = IF writer = "flush" THEN dropped ELSE dropped \cup {begun - 1}
  /\ UNCHANGED <<file, long, begun, ok, following>>

(* Faults: what is buffered is lost (a BufWriter for each append); or      *)
(* append is called again, when the line is in the buffer already.         *)
WriteFailsForgets ==
  FailingWrite /\ writer' = "idle" /\ buffer' = <<>>

WriteFailsRetries ==
  /\ FailingWrite
  /\ writer' = "flush"
  /\ buffer' = buffer \o Json(begun - 1) \o Newline(begun - 1)

(* A write fails: append returns the error, which submit ignores.  The     *)
(* BufWriter keeps what it could not write; of a long line nobody does.    *)
WriteFails ==
  FailingWrite /\ writer' = "idle" /\ UNCHANGED buffer

-----------------------------------------------------------------------------
(* Reading the file.                                                       *)

LineEnds(s) == {j \in DOMAIN s : s[j].part = "newline"}

(* The newlines of s that end a line which is an entry: one whole JSON     *)
(* object and nothing else.                                                *)
Parseable(s) ==
  {j \in LineEnds(s) :
     /\ j >= 3 /\ SubSeq(s, j - 2, j - 1) = Json(s[j].entry)
     /\ j = 3 \/ s[j - 3].part = "newline"}

Parsed(s) ==
  LET lines == SelectAt(s, Parseable(s)) IN [k \in DOMAIN lines |-> lines[k].entry]

(* s is UTF-8: no piece of a wide line is without the other.               *)
Decodes(s) ==
  \A j \in DOMAIN s : s[j].entry \in Wide =>
    /\ s[j].part = "head" => j + 1 \in DOMAIN s /\ s[j + 1] = Piece(s[j].entry, "tail")
    /\ s[j].part = "tail" => j - 1 \in DOMAIN s /\ s[j - 1] = Piece(s[j].entry, "head")

(* count_lines of --list: lines that are not blank, finished or not.  If   *)
(* one of them does not decode it fails, and list_recent takes 0.          *)
Listed(s) ==
  IF Decodes(s)
    THEN Cardinality({j \in DOMAIN s :
           s[j].part # "newline" /\ (j = 1 \/ s[j - 1].part = "newline")})
    ELSE 0

(* render_until_eof: the file is opened, and is longer than the offset.    *)
Look ==
  /\ follower = "waits"
  /\ Len(file) > offset
  /\ follower' = "reads"
  /\ UNCHANGED <<appender, offset, rendered>>

(* Faults: the offset moves past what is not yet a line; or does not move  *)
(* past a line that is no entry.                                           *)
ReadAll ==
  /\ follower = "reads"
  /\ follower' = "waits"
  /\ \E tail \in {SubSeq(file, offset + 1, Len(file))} : rendered' = rendered \o Parsed(tail)
  /\ offset' = Len(file)
  /\ UNCHANGED appender

ReadEntries ==
  /\ follower = "reads"
  /\ follower' = "waits"
  /\ \E tail \in {SubSeq(file, offset + 1, Len(file))} :
       LET bad == LineEnds(tail) \ Parseable(tail) IN
         \E consumed \in {Max({0} \cup {j \in Parseable(tail) : \A k \in bad : j < k})} :
           /\ rendered' = rendered \o Parsed(SubSeq(tail, 1, consumed))
           /\ offset' = offset + consumed
  /\ UNCHANGED appender

(* It is read to its end, which may have moved on, and whole lines are     *)
(* rendered; those that are no entry are skipped.                          *)
Read ==
  /\ follower = "reads"
  /\ follower' = "waits"
  /\ \E tail \in {SubSeq(file, offset + 1, Len(file))} :
       \E consumed \in {Max({0} \cup LineEnds(tail))} :
         /\ rendered' = rendered \o Parsed(SubSeq(tail, 1, consumed))
         /\ offset' = offset + consumed
  /\ UNCHANGED appender

-----------------------------------------------------------------------------
FileNext == AppendLine \/ MakeRoom \/ WriteDirect \/ Flush \/ WriteFails \/ Look \/ Read

FileSpec == FileInit /\ [][FileNext]_filevars

(* The client polls every 250 ms.  Nothing is assumed of the host.         *)
Fairness == WF_filevars(Look) /\ WF_filevars(Read)

FairSpec == FileSpec /\ Fairness

-----------------------------------------------------------------------------
Present(i) == \E j \in Parseable(file) : file[j].entry = i

(* However its reads fall between the host's writes, a client that follows *)
(* has printed what one pass over the same lines gives, each entry once    *)
(* and in order.                                                           *)
RenderedOnce ==
  /\ rendered = Parsed(SubSeq(file, 1, offset))
  /\ \A j, k \in DOMAIN rendered : j < k => rendered[j] < rendered[k]

(* README.md:493, "durable up to the last completed command", as far as it *)
(* goes: once append returned Ok, that entry and all before it are in the  *)
(* file, but for those that were dropped, and those directly behind, which *)
(* may share a line with what is left of the dropped one.                  *)
OnlyDroppedLost ==
  \A i \in ok : \A j \in 0 .. i :
    j \in dropped \/ (j > 0 /\ j - 1 \in dropped) \/ Present(j)

(* `commands=N` of --list is never too high; and between two appends it is *)
(* short of the commands that were appended by no more than the writes     *)
(* that failed, unless one of these broke a character, which no write does *)
(* that succeeds: then list_recent (transcript.rs:94) gives 0.             *)
ListedWithinFailures ==
  /\ Listed(file) <= begun
  /\ writer = "idle" /\ (failures = 0 \/ Decodes(file)) => begun <= Listed(file) + failures

(* README.md:234, "streams new entries as they arrive": each entry that is *)
(* in the file is printed, also behind lines that are none.                *)
FollowerCatchesUp ==
  \A i \in Entries : Present(i) ~> i \in {rendered[k] : k \in DOMAIN rendered}
=============================================================================
