--------------------------- MODULE TranscriptQueue ---------------------------
(***************************************************************************)
(* The transcript of the host (src/src/host.rs): TranscriptQueue keeps the *)
(* entries that were submitted ahead of their turn, appends the others to  *)
(* the JSONL file in arrival order and sends each to the attached clients; *)
(* serve_attachment drains one client's channel into its socket.  The file *)
(* is here a sequence of lines: how append writes one, and what becomes of *)
(* a write that fails, is in TranscriptFile.                               *)
(* Definitions marked "Fault" are not part of the model: each is a variant *)
(* of the definition after it with one bug, which a property must detect.  *)
(***************************************************************************)
EXTENDS Naturals, Sequences

CONSTANTS
  MaxSeq,     (* how many commands may arrive: bounds next_seq        *)
  Attachers,  (* attach clients, each attaching at most once          *)
  Ansi        (* those that sent {"action":"attach","ansi":true}      *)

ASSUME TranscriptQueueAssumption == MaxSeq \in Nat /\ Ansi \subseteq Attachers

VARIABLES
  next_seq,     (* HostState.next_seq                                      *)
  next,         (* TranscriptQueueState.next                               *)
  pending,      (* keys of TranscriptQueueState.pending                    *)
  journal,      (* lines of the JSONL file                                 *)
  subscribers,  (* TranscriptQueueState.subscribers                        *)
  channel,      (* events sent to a subscriber and not yet received        *)
  receiver,     (* serve_attachment: "none", "open" or "returned"          *)
  peer,         (* is the attach client's end of its socket open?          *)
  unread,       (* did it send bytes after its request, which nobody reads?*)
  delivered,    (* events written to the attach client's socket            *)
  since         (* history: next when the client was subscribed            *)

vars == <<next_seq, next, pending, journal, subscribers, channel, receiver, peer, unread,
          delivered, since>>

Seqs == 0 .. MaxSeq - 1

(* A transcript entry: the command it is about, and which form of the      *)
(* output it carries: filtered_total, or the raw PTY bytes that the        *)
(* clients that asked for ANSI get.                                        *)
Outputs == {"filtered", "raw"}
Entries == [seq : Seqs, output : Outputs]
Form(a) == IF a \in Ansi THEN "raw" ELSE "filtered"

(* Entries for sequence numbers from, from + 1, ..., to - 1.               *)
EntryRun(from, to, output) == [i \in 1 .. to - from |-> [seq |-> from + i - 1, output |-> output]]

TypeOK ==
  /\ next_seq \in 0 .. MaxSeq
  /\ next \in 0 .. MaxSeq
  /\ pending \subseteq Seqs
  /\ journal \in Seq(Entries)
  /\ subscribers \subseteq Attachers
  /\ channel \in [Attachers -> Seq(Entries)]
  /\ receiver \in [Attachers -> {"none", "open", "returned"}]
  /\ peer \in [Attachers -> BOOLEAN] /\ unread \in [Attachers -> BOOLEAN]
  /\ delivered \in [Attachers -> Seq(Entries)]
  /\ since \in [Attachers -> 0 .. MaxSeq]

Init ==
  /\ next_seq = 0
  /\ next = 0
  /\ pending = {}
  /\ journal = <<>>
  /\ subscribers = {}
  /\ channel = [a \in Attachers |-> <<>>]
  /\ receiver = [a \in Attachers |-> "none"]
  /\ peer = [a \in Attachers |-> TRUE] /\ unread = [a \in Attachers |-> FALSE]
  /\ delivered = [a \in Attachers |-> <<>>]
  /\ since = [a \in Attachers |-> 0]

-----------------------------------------------------------------------------
(* Connection handlers.                                                    *)

(* handle_connection numbers a command: next_seq.fetch_add(1).             *)
Arrive ==
  /\ next_seq < MaxSeq
  /\ next_seq' = next_seq + 1
  /\ UNCHANGED <<next, pending, journal, subscribers, channel, receiver, peer, unread,
                 delivered, since>>

(* A handler submits each of its commands once.                            *)
Unsubmitted(s) == s < next_seq /\ s >= next /\ s \notin pending

(* Senders whose receiver still exists: the others make send() fail, and   *)
(* retain() drops them when a record goes out.                             *)
Listening == {a \in subscribers : receiver[a] = "open"}

(* Fault: only the entry at the head of the queue is taken, not the run.   *)
TakenOnlyOne(s, m) == m = IF s = next THEN next + 1 ELSE next

(* The loop of submit(s) takes the entries below m: it stops at the first  *)
(* number that is not pending.                                             *)
Taken(s, m) ==
  /\ m \notin pending \cup {s}
  /\ \A k \in next .. m - 1 : k \in pending \cup {s}

(* Fault: an entry is written when it is submitted, not in its turn.       *)
WrittenAtOnce(s, m) == journal \o EntryRun(s, s + 1, "filtered")

(* What the file holds once TranscriptWriter::append wrote these entries.  *)
Written(s, m) == journal \o EntryRun(next, m, "filtered")

(* Fault: the submitted entry is sent, not the ones that were written.     *)
PublishedAtOnce(s, m, a) == channel[a] \o EntryRun(s, s + 1, Form(a))

(* What a live subscriber's channel holds once they were sent to it.       *)
Published(s, m, a) == channel[a] \o EntryRun(next, m, Form(a))

(* TranscriptQueue::submit, under the state's lock: insert the record,     *)
(* then append and send records while the next one in order is there.      *)
(* m is the value next reaches.                                            *)
Submit(s) ==
  \E m \in next .. next_seq :
    /\ Taken(s, m)
    /\ next' = m
    /\ pending' = (pending \cup {s}) \ (next .. m - 1)
    /\ journal' = Written(s, m)
    /\ subscribers' = IF m > next THEN Listening ELSE subscribers
    /\ channel' = [a \in Attachers |->
                     IF a \in Listening THEN Published(s, m, a) ELSE channel[a]]
    /\ UNCHANGED <<next_seq, receiver, peer, unread, delivered, since>>

(* The main thread on shutdown: subscribers.clear() drops every sender.    *)
CloseSubscriptions ==
  /\ subscribers # {}
  /\ subscribers' = {}
  /\ UNCHANGED <<next_seq, next, pending, journal, channel, receiver, peer, unread, delivered, since>>

-----------------------------------------------------------------------------
(* serve_attachment of attach client a.                                    *)

Subscribe(a) ==
  /\ receiver[a] = "none"
  /\ receiver' = [receiver EXCEPT ![a] = "open"]
  /\ subscribers' = subscribers \cup {a}
  /\ since' = [since EXCEPT ![a] = next]
  /\ UNCHANGED <<next_seq, next, pending, journal, channel, peer, unread, delivered>>

(* recv_timeout gave an entry and write_host_event wrote it.               *)
Deliver(a) ==
  /\ receiver[a] = "open"
  /\ channel[a] # <<>>
  /\ peer[a]
  /\ channel' = [channel EXCEPT ![a] = Tail(@)]
  /\ delivered' = [delivered EXCEPT ![a] = Append(@, Head(channel[a]))]
  /\ UNCHANGED <<next_seq, next, pending, journal, subscribers, receiver, peer, unread, since>>

(* serve_attachment returns and drops its Receiver with what it holds.     *)
Return(a) ==
  /\ receiver[a] = "open"
  /\ receiver' = [receiver EXCEPT ![a] = "returned"]
  /\ channel' = [channel EXCEPT ![a] = <<>>]
  /\ UNCHANGED <<next_seq, next, pending, journal, subscribers, peer, unread, delivered, since>>

(* recv_timeout gave an entry and writing it failed.                       *)
WriteFails(a) == channel[a] # <<>> /\ ~peer[a] /\ Return(a)

(* Fault: serve_attachment waits for entries only.                         *)
NoticeNothing(a) == FALSE /\ Return(a)

(* recv_timeout timed out after 250 ms and attachment_disconnected(stream):*)
(* its peek returns 0. With a byte to peek at, the client counts as there. *)
NoticeDisconnect(a) == channel[a] = <<>> /\ ~peer[a] /\ ~unread[a] /\ Return(a)

(* recv_timeout found the channel empty and without a sender.              *)
SenderGone(a) == channel[a] = <<>> /\ a \notin subscribers /\ Return(a)

(* The attach client closes its socket or dies.                            *)
PeerLeaves(a) ==
  /\ peer[a]
  /\ peer' = [peer EXCEPT ![a] = FALSE]
  /\ UNCHANGED <<next_seq, next, pending, journal, subscribers, channel, receiver, unread,
                 delivered, since>>

(* It sends something after its request (client.rs never does).            *)
PeerWrites(a) ==
  /\ peer[a] /\ ~unread[a] /\ receiver[a] # "returned"
  /\ unread' = [unread EXCEPT ![a] = TRUE]
  /\ UNCHANGED <<next_seq, next, pending, journal, subscribers, channel, receiver, peer,
                 delivered, since>>

Attachment(a) == Deliver(a) \/ WriteFails(a) \/ NoticeDisconnect(a) \/ SenderGone(a)

Next ==
  \/ Arrive
  \/ \E s \in Seqs : Unsubmitted(s) /\ Submit(s)
  \/ CloseSubscriptions
  \/ \E a \in Attachers : Subscribe(a) \/ Attachment(a) \/ PeerLeaves(a) \/ PeerWrites(a)

Spec == Init /\ [][Next]_vars

(* Attachment threads are scheduled, and wake up every 250 ms; but writing *)
(* to a client that stopped reading may take for ever.                     *)
Wakes(a) == WriteFails(a) \/ NoticeDisconnect(a) \/ SenderGone(a)
Fairness == \A a \in Attachers : WF_vars(Wakes(a))

FairSpec == Spec /\ Fairness

-----------------------------------------------------------------------------
(* The file holds commands 0, 1, ..., next - 1, in arrival order, whatever *)
(* the order in which their handlers submit, and never the raw output that *)
(* attached clients asked for (README.md:465, "it is not persisted").      *)
JournalInOrder == journal = EntryRun(0, next, "filtered")

(* An entry waits in pending only behind a command that was not submitted: *)
(* the drain loop never stops before an entry it could append.             *)
NothingHeldBack ==
  /\ next \notin pending
  /\ \A s \in pending : s > next /\ s < next_seq

(* An attached client misses nothing, sees nothing twice and nothing out   *)
(* of order: what it was sent is exactly the part of the transcript that   *)
(* was written since it subscribed, in the form it asked for.              *)
Sent(a) == delivered[a] \o channel[a]

AttachGapless ==
  \A a \in Attachers :
    /\ Sent(a) = EntryRun(since[a], since[a] + Len(Sent(a)), Form(a))
    /\ receiver[a] = "open" /\ a \in subscribers => since[a] + Len(Sent(a)) = next

(* The file only grows: a line, once flushed, is never changed or removed. *)
JournalAppendOnly ==
  [][/\ Len(journal) <= Len(journal')
     /\ SubSeq(journal', 1, Len(journal)) = journal]_journal

(* The queue implements the log it promises: a command counts as finished  *)
(* when its handler has submitted it.                                      *)
Log == INSTANCE OrderedLog WITH
         arrived <- next_seq,
         finished <- pending \cup (0 .. next - 1),
         log <- [i \in 1 .. Len(journal) |-> journal[i].seq]

RefinesOrderedLog == Log!Spec

(* A client that detaches is noticed even if no entry is ever sent to it   *)
(* (test attachment_disconnect_is_detected_without_an_event), or if it has *)
(* long stopped reading.  One that left unread bytes in its socket looks   *)
(* alive to the poll, and is noticed when an entry is written to it.  A    *)
(* stream whose sender was dropped ends, once its client read what was     *)
(* sent.                                                                   *)
AttachmentsEnd ==
  \A a \in Attachers :
    /\ receiver[a] = "open" /\ ~peer[a] /\ (~unread[a] \/ channel[a] # <<>>)
         ~> receiver[a] = "returned"
    /\ WF_vars(Deliver(a)) =>
         (receiver[a] = "open" /\ a \notin subscribers ~> receiver[a] = "returned")

(* What that test asks of every client that detaches: false of one that    *)
(* left unread bytes behind while no entry comes.                          *)
DetachNoticedWithoutEvent ==
  \A a \in Attachers : receiver[a] = "open" /\ ~peer[a] ~> receiver[a] = "returned"
=============================================================================
