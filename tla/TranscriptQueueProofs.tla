------------------------ MODULE TranscriptQueueProofs ------------------------
(***************************************************************************)
(* Proofs about TranscriptQueue, for any number of commands and of attach  *)
(* clients.  Everything the queue writes or sends is a run of consecutive  *)
(* entries; the proofs say how runs are typed, joined and cut, and then    *)
(* that every step keeps each sequence a run with the ends it should have. *)
(***************************************************************************)
EXTENDS TranscriptQueue, SequenceLemmas

(* Numbers are given before they are submitted, and a client that has not  *)
(* attached has been sent nothing.                                         *)
Bounds ==
  /\ next <= next_seq
  /\ \A a \in Attachers :
       /\ since[a] + Len(Sent(a)) <= next
       /\ receiver[a] = "none" => channel[a] = <<>> /\ delivered[a] = <<>>

IInv == TypeOK /\ Bounds /\ JournalInOrder /\ NothingHeldBack /\ AttachGapless

-----------------------------------------------------------------------------
(* Runs of entries.                                                        *)

LEMMA RunType ==
  ASSUME NEW from \in 0 .. MaxSeq, NEW to \in 0 .. MaxSeq, from <= to,
         NEW output \in Outputs
  PROVE  /\ EntryRun(from, to, output) \in Seq(Entries)
         /\ Len(EntryRun(from, to, output)) = to - from
         /\ \A i \in 1 .. to - from : EntryRun(from, to, output)[i] = [seq |-> from + i - 1, output |-> output]
<1> USE TranscriptQueueAssumption
<1>1. to - from \in Nat OBVIOUS
<1>2. ASSUME NEW i \in 1 .. to - from PROVE [seq |-> from + i - 1, output |-> output] \in Entries
  <2>1. from + i - 1 \in Seqs BY DEF Seqs
  <2> QED BY <2>1 DEF Entries
<1>3. EntryRun(from, to, output) \in [1 .. to - from -> Entries] BY <1>2 DEF EntryRun
<1>4. \A i \in 1 .. to - from : EntryRun(from, to, output)[i] = [seq |-> from + i - 1, output |-> output]
  BY DEF EntryRun
<1> QED BY <1>1, <1>3, <1>4, FunctionIsSeq

LEMMA RunConcat ==
  ASSUME NEW from \in 0 .. MaxSeq, NEW mid \in 0 .. MaxSeq, NEW to \in 0 .. MaxSeq,
         from <= mid, mid <= to, NEW output \in Outputs
  PROVE  EntryRun(from, mid, output) \o EntryRun(mid, to, output) = EntryRun(from, to, output)
<1> USE TranscriptQueueAssumption
<1> DEFINE one == EntryRun(from, mid, output)
           two == EntryRun(mid, to, output)
           all == EntryRun(from, to, output)
<1>1. /\ one \in Seq(Entries) /\ Len(one) = mid - from
      /\ \A i \in 1 .. mid - from : one[i] = [seq |-> from + i - 1, output |-> output]
  BY RunType
<1>2. /\ two \in Seq(Entries) /\ Len(two) = to - mid
      /\ \A i \in 1 .. to - mid : two[i] = [seq |-> mid + i - 1, output |-> output]
  BY RunType
<1>3. /\ all \in Seq(Entries) /\ Len(all) = to - from
      /\ \A i \in 1 .. to - from : all[i] = [seq |-> from + i - 1, output |-> output]
  BY RunType
<1> HIDE DEF one, two, all
<1>4. /\ one \o two \in Seq(Entries) /\ Len(one \o two) = to - from
      /\ \A i \in 1 .. to - from :
           (one \o two)[i] = IF i <= mid - from THEN one[i] ELSE two[i - (mid - from)]
  BY <1>1, <1>2, ConcatProperties, SMTT(30)
<1>5. ASSUME NEW i \in 1 .. to - from PROVE (one \o two)[i] = all[i]
  <2>1. all[i] = [seq |-> from + i - 1, output |-> output] BY <1>3
  <2>2. CASE i <= mid - from
    <3>1. i \in 1 .. mid - from BY <2>2
    <3>2. one[i] = [seq |-> from + i - 1, output |-> output] BY <1>1, <3>1
    <3> QED BY <1>4, <2>1, <2>2, <3>2
  <2>3. CASE ~ (i <= mid - from)
    <3> DEFINE j == i - (mid - from)
    <3>1. j \in 1 .. to - mid BY <2>3
    <3>2. mid + j - 1 = from + i - 1 OBVIOUS
    <3>3. (one \o two)[i] = two[j] BY <1>4, <2>3
    <3> HIDE DEF j
    <3>4. two[j] = [seq |-> mid + j - 1, output |-> output] BY <1>2, <3>1
    <3> QED BY <2>1, <3>2, <3>3, <3>4
  <2> QED BY <2>2, <2>3
<1>6. one \o two = all BY <1>3, <1>4, <1>5, SeqEqual
<1> QED BY <1>6 DEF one, two, all

(* The beginning of a run is a run.                                        *)
LEMMA RunPrefix ==
  ASSUME NEW from \in 0 .. MaxSeq, NEW to \in 0 .. MaxSeq, from <= to, NEW output \in Outputs,
         NEW s \in Seq(Entries), NEW t \in Seq(Entries), s \o t = EntryRun(from, to, output)
  PROVE  s = EntryRun(from, from + Len(s), output) /\ from + Len(s) <= to
<1> USE TranscriptQueueAssumption
<1>1. /\ Len(s) \in Nat /\ Len(t) \in Nat /\ Len(s \o t) = Len(s) + Len(t)
      /\ \A i \in 1 .. Len(s) : (s \o t)[i] = s[i]
  BY ConcatProperties, LenProperties
<1> DEFINE all == EntryRun(from, to, output)
           head == EntryRun(from, from + Len(s), output)
<1>2. /\ Len(all) = to - from
      /\ \A i \in 1 .. to - from : all[i] = [seq |-> from + i - 1, output |-> output]
  BY RunType
<1>3. from + Len(s) \in 0 .. MaxSeq /\ from <= from + Len(s) /\ from + Len(s) <= to
  <2> HIDE DEF all
  <2>1. s \o t = all BY DEF all
  <2> QED BY <1>1, <1>2, <2>1
<1>4. /\ head \in Seq(Entries)
      /\ Len(head) = Len(s)
      /\ \A i \in 1 .. Len(s) : head[i] = [seq |-> from + i - 1, output |-> output]
  <2> DEFINE to2 == from + Len(s)
  <2>1. to2 \in 0 .. MaxSeq /\ from <= to2 /\ to2 - from = Len(s) BY <1>1, <1>3
  <2> HIDE DEF to2
  <2>3. /\ EntryRun(from, to2, output) \in Seq(Entries)
        /\ Len(EntryRun(from, to2, output)) = to2 - from
        /\ \A i \in 1 .. to2 - from :
             EntryRun(from, to2, output)[i] = [seq |-> from + i - 1, output |-> output]
    BY <2>1, RunType
  <2>2. /\ EntryRun(from, to2, output) \in Seq(Entries)
        /\ Len(EntryRun(from, to2, output)) = Len(s)
        /\ \A i \in 1 .. Len(s) :
             EntryRun(from, to2, output)[i] = [seq |-> from + i - 1, output |-> output]
    BY <2>1, <2>3
  <2> QED BY <2>2 DEF to2
<1> HIDE DEF all
<1>5. \A i \in 1 .. Len(s) : s[i] = [seq |-> from + i - 1, output |-> output]
  <2>1. s \o t = all BY DEF all
  <2>2. ASSUME NEW i \in 1 .. Len(s) PROVE s[i] = [seq |-> from + i - 1, output |-> output]
    <3>1. i \in 1 .. to - from BY <1>1, <1>3
    <3> QED BY <1>1, <1>2, <2>1, <3>1
  <2> QED BY <2>2
<1>6. s = head
  <2> HIDE DEF head
  <2> QED BY <1>4, <1>5, SeqEqual
<1> QED BY <1>3, <1>6

LEMMA EntriesAssociative ==
  \A s, t, u \in Seq(Entries) : (s \o t) \o u = s \o (t \o u)
BY ConcatAssociative

(* A run of which a part was delivered, and the rest waits in a channel,   *)
(* goes on when the next run is sent to the channel.                       *)
LEMMA RunExtend ==
  ASSUME NEW from \in 0 .. MaxSeq, NEW mid \in 0 .. MaxSeq, NEW to \in 0 .. MaxSeq,
         from <= mid, mid <= to, NEW output \in Outputs,
         NEW s \in Seq(Entries), NEW t \in Seq(Entries), s \o t = EntryRun(from, mid, output)
  PROVE  /\ s \o (t \o EntryRun(mid, to, output)) = EntryRun(from, to, output)
         /\ Len(EntryRun(from, to, output)) = to - from
<1> USE TranscriptQueueAssumption
<1> DEFINE run == EntryRun(mid, to, output)
<1>1. run \in Seq(Entries) BY RunType
<1>2. (s \o t) \o run = EntryRun(from, to, output)
  <2>1. EntryRun(from, mid, output) \o run = EntryRun(from, to, output) BY RunConcat
  <2> HIDE DEF run
  <2> QED BY <2>1, Zenon
<1>3. Len(EntryRun(from, to, output)) = to - from
  <2>1. from <= to OBVIOUS
  <2> QED BY <2>1, RunType
<1> HIDE DEF run
<1>4. s \o (t \o run) = (s \o t) \o run BY <1>1, EntriesAssociative
<1> QED BY <1>2, <1>3, <1>4 DEF run

LEMMA FormType == "filtered" \in Outputs /\ \A a : Form(a) \in Outputs
BY DEF Outputs, Form

LEMMA RunFromZero ==
  ASSUME NEW n \in 0 .. MaxSeq
  PROVE  /\ Len(EntryRun(0, n, "filtered")) = n
         /\ \A i \in 1 .. n : EntryRun(0, n, "filtered")[i].seq = i - 1
<1> USE TranscriptQueueAssumption
<1>1. 0 \in 0 .. MaxSeq /\ 0 <= n /\ n - 0 = n OBVIOUS
<1>2. /\ Len(EntryRun(0, n, "filtered")) = n - 0
      /\ \A i \in 1 .. n - 0 :
           EntryRun(0, n, "filtered")[i] = [seq |-> 0 + i - 1, output |-> "filtered"]
  BY <1>1, RunType, FormType
<1>3. ASSUME NEW i \in 1 .. n PROVE EntryRun(0, n, "filtered")[i].seq = i - 1
  <2>1. i \in 1 .. n - 0 /\ 0 + i - 1 = i - 1 BY <1>1
  <2>2. EntryRun(0, n, "filtered")[i] = [seq |-> 0 + i - 1, output |-> "filtered"]
    BY <1>2, <2>1
  <2> QED BY <2>1, <2>2
<1> QED BY <1>1, <1>2, <1>3

LEMMA RunEmpty ==
  ASSUME NEW n \in 0 .. MaxSeq, NEW output \in Outputs
  PROVE  EntryRun(n, n, output) = <<>>
BY RunType, EmptySeq, TranscriptQueueAssumption

-----------------------------------------------------------------------------
LEMMA InitIInv == Init => IInv
<1> SUFFICES ASSUME Init PROVE IInv OBVIOUS
<1> USE TranscriptQueueAssumption
<1>1. TypeOK BY DEF Init, TypeOK, Seqs
<1>3. 0 \in 0 .. MaxSeq OBVIOUS
<1>4. JournalInOrder BY <1>3, RunEmpty, FormType DEF Init, JournalInOrder
<1>5. NothingHeldBack BY DEF Init, NothingHeldBack
<1>6. ASSUME NEW a \in Attachers PROVE Sent(a) = <<>> /\ Len(Sent(a)) = 0 /\ since[a] = 0
  BY DEF Init, Sent
<1>2. Bounds BY <1>6 DEF Init, Bounds
<1>7. AttachGapless
  BY <1>3, <1>6, RunEmpty, FormType DEF Init, AttachGapless
<1> QED BY <1>1, <1>2, <1>4, <1>5, <1>7 DEF IInv

(* What was sent to a client is typed, and ends where its run ends.        *)
LEMMA SentType ==
  ASSUME TypeOK, NEW a \in Attachers
  PROVE  /\ delivered[a] \in Seq(Entries) /\ channel[a] \in Seq(Entries)
         /\ Sent(a) \in Seq(Entries) /\ Len(Sent(a)) \in Nat
         /\ since[a] \in 0 .. MaxSeq
<1>1. delivered[a] \in Seq(Entries) /\ channel[a] \in Seq(Entries) /\ since[a] \in 0 .. MaxSeq
  BY DEF TypeOK
<1>2. Sent(a) \in Seq(Entries) BY <1>1, ConcatProperties DEF Sent
<1> QED BY <1>1, <1>2, LenProperties

(* Submitting: the journal grows by one run, and so does every live channel.*)
LEMMA SubmitStep ==
  ASSUME IInv, NEW s \in Seqs, Unsubmitted(s), Submit(s)
  PROVE  IInv'
<1> USE TranscriptQueueAssumption
<1>1. PICK m \in next .. next_seq :
        /\ Taken(s, m)
        /\ next' = m
        /\ pending' = (pending \cup {s}) \ (next .. m - 1)
        /\ journal' = Written(s, m)
        /\ subscribers' = IF m > next THEN Listening ELSE subscribers
        /\ channel' = [a \in Attachers |->
                         IF a \in Listening THEN Published(s, m, a) ELSE channel[a]]
        /\ UNCHANGED <<next_seq, receiver, peer, unread, delivered, since>>
  BY DEF Submit
<1>2. next \in 0 .. MaxSeq /\ next_seq \in 0 .. MaxSeq /\ m \in 0 .. MaxSeq /\ next <= m
  BY DEF IInv, TypeOK
<1>3. /\ EntryRun(next, m, "filtered") \in Seq(Entries)
      /\ \A a \in Attachers : EntryRun(next, m, Form(a)) \in Seq(Entries)
  BY <1>2, RunType, FormType
<1>4. TypeOK'
  <2>1. journal' \in Seq(Entries)
    BY <1>1, <1>3, ConcatProperties DEF IInv, TypeOK, Written
  <2>2. channel' \in [Attachers -> Seq(Entries)]
    BY <1>1, <1>3, ConcatProperties DEF IInv, TypeOK, Published
  <2> QED BY <1>1, <1>2, <2>1, <2>2 DEF IInv, TypeOK, Listening
<1>5. JournalInOrder'
  <2>1. journal' = EntryRun(0, next, "filtered") \o EntryRun(next, m, "filtered")
    BY <1>1 DEF IInv, JournalInOrder, Written
  <2>2. EntryRun(0, next, "filtered") \o EntryRun(next, m, "filtered") = EntryRun(0, m, "filtered")
    <3>1. 0 \in 0 .. MaxSeq /\ 0 <= next BY <1>2
    <3> QED BY <1>2, <3>1, RunConcat, FormType
  <2> QED BY <1>1, <2>1, <2>2 DEF JournalInOrder
<1>6. NothingHeldBack'
  BY <1>1, <1>2 DEF IInv, TypeOK, NothingHeldBack, Taken, Unsubmitted, Seqs
<1>7. ASSUME NEW a \in Attachers
      PROVE  /\ Sent(a)' = EntryRun(since'[a], since'[a] + Len(Sent(a)'), Form(a))
             /\ receiver'[a] = "open" /\ a \in subscribers' => since'[a] + Len(Sent(a)') = next'
             /\ since'[a] + Len(Sent(a)') <= next'
             /\ receiver'[a] = "none" => channel'[a] = <<>> /\ delivered'[a] = <<>>
  <2>1. CASE a \notin Listening
    <3>1. /\ Sent(a)' = Sent(a) /\ channel'[a] = channel[a] /\ delivered' = delivered
          /\ ~(receiver[a] = "open" /\ a \in subscribers')
          /\ receiver' = receiver /\ since' = since /\ next' = m
      BY <1>1, <2>1 DEF Sent, Listening
    <3>2. since[a] + Len(Sent(a)) <= m BY <1>2, SentType DEF IInv, Bounds
    <3> QED BY <3>1, <3>2 DEF IInv, Bounds, AttachGapless
  <2>2. CASE a \in Listening
    <3> DEFINE run == EntryRun(next, m, Form(a))
    <3>1. /\ Sent(a) = EntryRun(since[a], since[a] + Len(Sent(a)), Form(a))
          /\ since[a] + Len(Sent(a)) = next
      BY <2>2 DEF IInv, AttachGapless, Listening
    <3>2. /\ run \in Seq(Entries) /\ delivered[a] \in Seq(Entries) /\ channel[a] \in Seq(Entries)
          /\ since[a] \in 0 .. MaxSeq /\ Len(Sent(a)) \in Nat
      BY <1>3, SentType DEF IInv
    <3>3. since[a] <= next BY <1>2, <3>1, <3>2
    <3>4. Sent(a)' = delivered[a] \o (channel[a] \o run)
      BY <1>1, <2>2 DEF Sent, Published
    <3>5. delivered[a] \o channel[a] = EntryRun(since[a], next, Form(a))
      BY <3>1 DEF Sent
    <3>6. next \in 0 .. MaxSeq /\ m \in 0 .. MaxSeq /\ next <= m /\ Form(a) \in Outputs
      BY <1>2, FormType
    <3>7. /\ Sent(a)' = EntryRun(since[a], m, Form(a))
          /\ Len(EntryRun(since[a], m, Form(a))) = m - since[a]
      <4> DEFINE c == channel[a]
                 d == delivered[a]
                 f == Form(a)
                 n == since[a]
      <4>1. /\ d \o c = EntryRun(n, next, f) /\ n \in 0 .. MaxSeq /\ n <= next
            /\ d \in Seq(Entries) /\ c \in Seq(Entries) /\ f \in Outputs
        BY <3>2, <3>3, <3>5, <3>6
      <4> HIDE DEF c, d, f, n
      <4>2. /\ d \o (c \o EntryRun(next, m, f)) = EntryRun(n, m, f)
            /\ Len(EntryRun(n, m, f)) = m - n
        BY <3>6, <4>1, RunExtend, ZenonT(60)
      <4> QED BY <3>4, <4>2 DEF c, d, f, n
    <3>9. since[a] + Len(Sent(a)') = m BY <1>2, <3>2, <3>7
    <3>10. receiver'[a] = "open" /\ since' = since /\ next' = m BY <1>1, <2>2 DEF Listening
    <3> QED BY <1>2, <3>7, <3>9, <3>10
  <2> QED BY <2>1, <2>2
<1>8. Bounds' BY <1>1, <1>2, <1>7 DEF Bounds
<1> QED BY <1>4, <1>5, <1>6, <1>7, <1>8 DEF IInv, AttachGapless

(* A client's thread ends: what it had been written is still a run.        *)
LEMMA ReturnStep ==
  ASSUME IInv, NEW a \in Attachers, Return(a)
  PROVE  IInv'
<1> USE TranscriptQueueAssumption
<1>1. TypeOK' BY DEF IInv, TypeOK, Return
<1>3. JournalInOrder' /\ NothingHeldBack'
  BY DEF IInv, JournalInOrder, NothingHeldBack, Return
<1>4. ASSUME NEW b \in Attachers, b # a PROVE Sent(b)' = Sent(b) /\ receiver'[b] = receiver[b]
  BY <1>4 DEF IInv, TypeOK, Sent, Return
<1>5. /\ delivered[a] = EntryRun(since[a], since[a] + Len(delivered[a]), Form(a))
      /\ since[a] + Len(delivered[a]) <= since[a] + Len(Sent(a))
  <2> DEFINE to == since[a] + Len(Sent(a))
  <2>1. delivered[a] \o channel[a] = EntryRun(since[a], to, Form(a))
    BY DEF IInv, AttachGapless, Sent
  <2>2. to \in 0 .. MaxSeq /\ since[a] <= to
    BY SentType DEF IInv, Bounds, TypeOK
  <2>3. delivered[a] \in Seq(Entries) /\ channel[a] \in Seq(Entries) /\ since[a] \in 0 .. MaxSeq
    BY SentType DEF IInv
  <2> HIDE DEF to
  <2>4. /\ delivered[a] = EntryRun(since[a], since[a] + Len(delivered[a]), Form(a))
        /\ since[a] + Len(delivered[a]) <= to
    BY <2>1, <2>2, <2>3, RunPrefix, FormType
  <2> QED BY <2>4 DEF to
<1>6. Sent(a)' = delivered[a] /\ receiver'[a] = "returned"
  BY SentType, ConcatEmptySeq DEF IInv, TypeOK, Sent, Return
<1>7. since' = since /\ subscribers' = subscribers /\ next' = next /\ next_seq' = next_seq
  BY DEF Return
<1>8. AttachGapless' BY <1>4, <1>5, <1>6, <1>7 DEF IInv, AttachGapless
<1>9. ASSUME NEW b \in Attachers
      PROVE  /\ since'[b] + Len(Sent(b)') <= next'
             /\ receiver'[b] = "none" => channel'[b] = <<>> /\ delivered'[b] = <<>>
  <2>1. CASE b = a
    <3>1. since[a] + Len(Sent(a)) <= next BY DEF IInv, Bounds
    <3>2. Len(delivered[a]) \in Nat /\ Len(Sent(a)) \in Nat /\ since[a] \in Nat /\ next \in Nat
      BY SentType, LenProperties DEF IInv, TypeOK
    <3>3. since[a] + Len(delivered[a]) <= next BY <1>5, <3>1, <3>2
    <3> QED BY <1>6, <1>7, <2>1, <3>3
  <2>2. CASE b # a
    BY <1>4, <1>7, <2>2 DEF IInv, TypeOK, Bounds, Return
  <2> QED BY <2>1, <2>2
<1>10. Bounds' BY <1>7, <1>9 DEF IInv, Bounds
<1> QED BY <1>1, <1>3, <1>8, <1>10 DEF IInv

LEMMA NextIInv == IInv /\ [Next]_vars => IInv'
<1> SUFFICES ASSUME IInv, [Next]_vars PROVE IInv' OBVIOUS
<1> USE TranscriptQueueAssumption
<1>1. ASSUME UNCHANGED <<next, channel, delivered, since, receiver, subscribers, journal, pending>>,
             TypeOK', next_seq <= next_seq'
      PROVE  IInv'
  <2>1. \A a \in Attachers : Sent(a)' = Sent(a) BY <1>1 DEF Sent
  <2>2. Bounds' BY <1>1, <2>1 DEF IInv, TypeOK, Bounds
  <2>3. JournalInOrder' BY <1>1 DEF IInv, JournalInOrder
  <2>4. NothingHeldBack' BY <1>1 DEF IInv, TypeOK, NothingHeldBack, Seqs
  <2>5. AttachGapless' BY <1>1, <2>1 DEF IInv, AttachGapless
  <2> QED BY <1>1, <2>2, <2>3, <2>4, <2>5 DEF IInv
<1>2. CASE UNCHANGED vars
  <2>1. TypeOK' BY <1>2 DEF IInv, TypeOK, vars
  <2>2. next_seq <= next_seq' BY <1>2 DEF IInv, TypeOK, vars
  <2> QED BY <1>1, <1>2, <2>1, <2>2 DEF vars
<1>3. CASE Arrive
  <2>1. TypeOK' /\ next_seq <= next_seq' BY <1>3 DEF IInv, TypeOK, Arrive
  <2> QED BY <1>1, <1>3, <2>1 DEF Arrive
<1>4. CASE \E s \in Seqs : Unsubmitted(s) /\ Submit(s) BY <1>4, SubmitStep
<1>5. CASE CloseSubscriptions
  <2>1. TypeOK' BY <1>5 DEF IInv, TypeOK, CloseSubscriptions
  <2>2. \A a \in Attachers : Sent(a)' = Sent(a) BY <1>5 DEF Sent, CloseSubscriptions
  <2> QED BY <1>5, <2>1, <2>2 DEF CloseSubscriptions, IInv, Bounds, JournalInOrder,
                                  NothingHeldBack, AttachGapless
<1>6. ASSUME NEW a \in Attachers, Subscribe(a) PROVE IInv'
  <2>1. TypeOK' BY <1>6 DEF IInv, TypeOK, Subscribe
  <2>2. \A b \in Attachers : Sent(b)' = Sent(b) BY <1>6 DEF Sent, Subscribe
  <2>3. Sent(a) = <<>> /\ Len(Sent(a)) = 0
    <3>1. channel[a] = <<>> /\ delivered[a] = <<>> BY <1>6 DEF IInv, Bounds, Subscribe
    <3> QED BY <3>1, EmptySeq DEF Sent
  <2>4. /\ since' = [since EXCEPT ![a] = next] /\ next' = next /\ next \in 0 .. MaxSeq
        /\ receiver' = [receiver EXCEPT ![a] = "open"] /\ subscribers' = subscribers \cup {a}
    BY <1>6 DEF IInv, TypeOK, Subscribe
  <2>5. EntryRun(next, next, Form(a)) = <<>> BY <2>4, RunEmpty, FormType
  <2>6. ASSUME NEW b \in Attachers
        PROVE  /\ Sent(b)' = EntryRun(since'[b], since'[b] + Len(Sent(b)'), Form(b))
               /\ receiver'[b] = "open" /\ b \in subscribers' => since'[b] + Len(Sent(b)') = next'
               /\ since'[b] + Len(Sent(b)') <= next'
               /\ receiver'[b] = "none" => channel'[b] = <<>> /\ delivered'[b] = <<>>
    <3>1. CASE b = a
      <4>1. since'[a] = next /\ receiver'[a] = "open" BY <2>4 DEF IInv, TypeOK
      <4>2. next + 0 = next BY <2>4
      <4> QED BY <2>2, <2>3, <2>4, <2>5, <3>1, <4>1, <4>2
    <3>2. CASE b # a
      <4>1. since'[b] = since[b] /\ receiver'[b] = receiver[b] /\ (b \in subscribers' <=> b \in subscribers)
        BY <2>4, <3>2 DEF IInv, TypeOK
      <4>2. channel' = channel /\ delivered' = delivered BY <1>6 DEF Subscribe
      <4> QED BY <2>2, <2>4, <4>1, <4>2 DEF IInv, Bounds, AttachGapless
    <3> QED BY <3>1, <3>2
  <2>7. Bounds' /\ AttachGapless'
    BY <1>6, <2>6 DEF Bounds, AttachGapless, IInv, Subscribe
  <2>8. JournalInOrder' /\ NothingHeldBack'
    BY <1>6 DEF IInv, JournalInOrder, NothingHeldBack, Subscribe
  <2> QED BY <2>1, <2>7, <2>8 DEF IInv
<1>7. ASSUME NEW a \in Attachers, Deliver(a) PROVE IInv'
  <2>1. /\ channel[a] \in Seq(Entries) /\ delivered[a] \in Seq(Entries) /\ channel[a] # <<>>
        /\ Head(channel[a]) \in Entries /\ Tail(channel[a]) \in Seq(Entries)
    BY <1>7, HeadTailProperties DEF IInv, TypeOK, Deliver
  <2>2. Append(delivered[a], Head(channel[a])) \in Seq(Entries)
    BY <2>1, AppendProperties
  <2>3. TypeOK' BY <1>7, <2>1, <2>2 DEF IInv, TypeOK, Deliver
  <2>4. ASSUME NEW b \in Attachers PROVE Sent(b)' = Sent(b)
    <3>1. CASE b = a
      <4>1. Sent(a)' = Append(delivered[a], Head(channel[a])) \o Tail(channel[a])
        BY <1>7 DEF IInv, TypeOK, Deliver, Sent
      <4>2. Append(delivered[a], Head(channel[a])) \o Tail(channel[a]) = delivered[a] \o channel[a]
        BY <2>1, MoveHead
      <4> QED BY <3>1, <4>1, <4>2 DEF Sent
    <3>2. CASE b # a BY <1>7, <3>2 DEF IInv, TypeOK, Deliver, Sent
    <3> QED BY <3>1, <3>2
  <2>5. Bounds'
    BY <1>7, <2>4 DEF IInv, TypeOK, Bounds, Deliver
  <2> QED BY <1>7, <2>3, <2>4, <2>5
          DEF Deliver, IInv, JournalInOrder, NothingHeldBack, AttachGapless
<1>8. ASSUME NEW a \in Attachers, WriteFails(a) \/ NoticeDisconnect(a) \/ SenderGone(a) PROVE IInv'
  BY <1>8, ReturnStep DEF WriteFails, NoticeDisconnect, SenderGone
<1>9. ASSUME NEW a \in Attachers, PeerLeaves(a) \/ PeerWrites(a) PROVE IInv'
  <2>1. CASE PeerLeaves(a)
    <3>1. TypeOK' BY <2>1 DEF IInv, TypeOK, PeerLeaves
    <3>2. next_seq <= next_seq' BY <2>1 DEF IInv, TypeOK, PeerLeaves
    <3> QED BY <1>1, <2>1, <3>1, <3>2 DEF PeerLeaves
  <2>2. CASE PeerWrites(a)
    <3>1. TypeOK' BY <2>2 DEF IInv, TypeOK, PeerWrites
    <3>2. next_seq <= next_seq' BY <2>2 DEF IInv, TypeOK, PeerWrites
    <3> QED BY <1>1, <2>2, <3>1, <3>2 DEF PeerWrites
  <2> QED BY <1>9, <2>1, <2>2
<1> QED BY <1>2, <1>3, <1>4, <1>5, <1>6, <1>7, <1>8, <1>9 DEF Next, Attachment

LEMMA IInvInvariant == Spec => []IInv
<1> QED BY InitIInv, NextIInv, PTL DEF Spec

-----------------------------------------------------------------------------
(* Every variable keeps its type, whatever is submitted and attached when. *)
THEOREM TypeCorrect == Spec => []TypeOK
<1>1. IInv => TypeOK BY DEF IInv
<1> QED BY <1>1, IInvInvariant, PTL

(* The file holds exactly the commands below next, in arrival order.       *)
THEOREM JournalAlwaysInOrder == Spec => []JournalInOrder
<1>1. IInv => JournalInOrder BY DEF IInv
<1> QED BY <1>1, IInvInvariant, PTL

(* No entry that could be written waits in pending.                        *)
THEOREM NothingEverHeldBack == Spec => []NothingHeldBack
<1>1. IInv => NothingHeldBack BY DEF IInv
<1> QED BY <1>1, IInvInvariant, PTL

(* What an attached client is sent is the transcript since it attached.    *)
THEOREM AttachAlwaysGapless == Spec => []AttachGapless
<1>1. IInv => AttachGapless BY DEF IInv
<1> QED BY <1>1, IInvInvariant, PTL

(* No step changes or removes a line of the file.                          *)
THEOREM JournalOnlyGrows == Spec => JournalAppendOnly
<1> DEFINE Grows == /\ Len(journal) <= Len(journal')
                    /\ SubSeq(journal', 1, Len(journal)) = journal
<1>1. IInv /\ [Next]_vars => [Grows]_journal
  <2> SUFFICES ASSUME IInv, [Next]_vars, journal' # journal PROVE Grows OBVIOUS
  <2>1. PICK s \in Seqs : Submit(s)
    BY DEF Next, vars, Arrive, CloseSubscriptions, Subscribe, Attachment, Deliver, WriteFails,
           NoticeDisconnect, SenderGone, Return, PeerLeaves, PeerWrites
  <2>2. PICK m \in next .. next_seq : journal' = journal \o EntryRun(next, m, "filtered")
    BY <2>1 DEF Submit, Written
  <2>3. next \in 0 .. MaxSeq /\ m \in 0 .. MaxSeq /\ next <= m /\ journal \in Seq(Entries)
    BY TranscriptQueueAssumption DEF IInv, TypeOK
  <2>4. EntryRun(next, m, "filtered") \in Seq(Entries) BY <2>3, RunType, FormType
  <2> QED BY <2>2, <2>3, <2>4, ConcatExtends
<1> QED BY <1>1, IInvInvariant, PTL DEF Spec, JournalAppendOnly

(* The queue implements OrderedLog: the log is at every moment the longest *)
(* run of finished commands, and every step is a step of it or a stutter.  *)
THEOREM ImplementsOrderedLog == Spec => RefinesOrderedLog
<1> USE TranscriptQueueAssumption
<1> DEFINE fin == pending \cup (0 .. next - 1)
           log == [i \in 1 .. Len(journal) |-> journal[i].seq]
<1>1. Init => Log!Init
  <2> SUFFICES ASSUME Init PROVE Log!Init OBVIOUS
  <2>1. Len(journal) = 0 BY EmptySeq DEF Init
  <2>2. log = <<>> BY <2>1
  <2>3. fin = {} BY DEF Init
  <2> QED BY <2>2, <2>3 DEF Init, Log!Init
<1>2. IInv /\ IInv' /\ [Next]_vars => [Log!Next]_<<next_seq, fin, log>>
  <2> SUFFICES ASSUME IInv, IInv', [Next]_vars PROVE [Log!Next]_<<next_seq, fin, log>>
    OBVIOUS
  <2>1. CASE Arrive
    <3>1. fin' = fin /\ log' = log BY <2>1 DEF Arrive
    <3> QED BY <2>1, <3>1 DEF Arrive, Log!Next, Log!Arrive
  <2>2. ASSUME NEW s \in Seqs, Unsubmitted(s), Submit(s) PROVE Log!Finish(s)
    <3>1. PICK m \in next .. next_seq :
            /\ Taken(s, m) /\ next' = m /\ next_seq' = next_seq
            /\ pending' = (pending \cup {s}) \ (next .. m - 1)
      BY <2>2 DEF Submit
    <3>2. next \in 0 .. MaxSeq /\ next_seq \in 0 .. MaxSeq /\ m \in 0 .. MaxSeq /\ next <= m
      BY <3>1 DEF IInv, TypeOK
    <3>3. fin' = fin \cup {s}
      BY <3>1, <3>2 DEF Taken, Seqs
    <3>4. s < next_seq /\ s \notin fin BY <2>2, <3>2 DEF Unsubmitted, Seqs
    <3>5. Log!IsHorizon(m, fin')
      <4>1. m \notin fin' BY <3>1, <3>2, <3>3 DEF Taken
      <4>2. \A k \in 0 .. m - 1 : k \in fin' BY <3>1, <3>2 DEF Taken
      <4> QED BY <4>1, <4>2 DEF Log!IsHorizon
    <3>6. log' = Log!Upto(m)
      <4>1. journal' = EntryRun(0, m, "filtered") BY <3>1 DEF IInv, JournalInOrder
      <4>2. Len(journal') = m /\ \A i \in 1 .. m : journal'[i].seq = i - 1
        BY <3>2, <4>1, RunFromZero
      <4> QED BY <4>2 DEF Log!Upto
    <3>7. m \in 0 .. next_seq BY <3>1, <3>2
    <3> QED BY <3>1, <3>3, <3>4, <3>5, <3>6, <3>7 DEF Log!Finish
  <2>3. CASE \E s \in Seqs : Unsubmitted(s) /\ Submit(s)
    BY <2>2, <2>3 DEF Log!Next, Seqs
  <2>4. CASE \/ UNCHANGED vars \/ CloseSubscriptions
             \/ \E a \in Attachers : Subscribe(a) \/ Attachment(a) \/ PeerLeaves(a) \/ PeerWrites(a)
    <3>1. UNCHANGED <<next_seq, next, pending, journal>>
      BY <2>4 DEF vars, CloseSubscriptions, Subscribe, Attachment, Deliver, WriteFails,
                  NoticeDisconnect, SenderGone, Return, PeerLeaves, PeerWrites
    <3> QED BY <3>1
  <2> QED BY <2>1, <2>3, <2>4 DEF Next
<1> QED BY <1>1, <1>2, IInvInvariant, PTL DEF Spec, RefinesOrderedLog, Log!Spec, Log!vars
=============================================================================
