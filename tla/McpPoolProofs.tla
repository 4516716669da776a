--------------------------- MODULE McpPoolProofs ---------------------------
(***************************************************************************)
(* Proofs about McpPool, for any number of callers, sockets, calls and     *)
(* crashes: leases are counted, and no request is sent twice.  Neither     *)
(* depends on what the sockets do; each caller's way through a call does   *)
(* it, and that no two callers work on the same call.                      *)
(***************************************************************************)
EXTENDS McpPool, SequenceLemmas, TLAPS

USE McpPoolAssumption

PcTypes == pc \in [Procs -> States]

(* Only c moves, from a to b.                                              *)
Moved(c, a, b) == pc[c] = a /\ pc'[c] = b /\ \A d \in Callers \ {c} : pc'[d] = pc[d]

CallersRest == \A c \in Callers : pc'[c] = pc[c]

LEMMA GotoMoves ==
  ASSUME PcTypes, NEW c \in Callers, NEW a, NEW b \in States, Goto(c, a, b)
  PROVE  PcTypes' /\ Moved(c, a, b)
BY DEF PcTypes, Goto, Moved, Procs

(* Steps of everybody but the callers.                                     *)
Others == WorkerStep \/ HostServes \/ HostCrash \/ HostStart \/ HostSuspend \/ HostResume

LEMMA OthersLeaveCallers ==
  ASSUME PcTypes, Others \/ UNCHANGED vars
  PROVE  PcTypes' /\ CallersRest /\ UNCHANGED <<active, call, calls, sent, result>>
<1>1. ASSUME NEW a, NEW b \in States, Goto(Worker, a, b)
      PROVE  PcTypes' /\ CallersRest
  BY <1>1 DEF PcTypes, Goto, CallersRest, Procs
<1>2. CASE WorkerStep
  <2>1. UNCHANGED <<active, call, calls, sent, result>>
    BY <1>2 DEF WorkerStep, WorkerChecks, WorkerWakes, WorkerGreeted, Connects, ConnectRefused,
       HandshakeFails, HandshakePong, pool, history
  <2>2. \E a, b : b \in States /\ Goto(Worker, a, b)
    BY <1>2 DEF WorkerStep, WorkerChecks, WorkerWakes, WorkerGreeted, Connects, ConnectRefused,
       HandshakeFails, States, Acquiring
  <2> QED
    BY <1>1, <2>1, <2>2
<1>3. CASE HostServes \/ HostCrash \/ HostStart \/ HostSuspend \/ HostResume \/ UNCHANGED vars
  BY <1>3 DEF HostServes, HostPong, HostAnswers, HostReads, HostCrash, HostStart, HostSuspend, HostResume,
     pool, procs, history, vars, PcTypes, CallersRest
<1> QED
  BY <1>2, <1>3 DEF Others

(* The ways of a caller through a call: steps before the request is sent;  *)
(* sending it; the ends before that, and those after.                      *)
Before(c) ==
  \/ Pop(c) \/ NoneIdle(c) \/ Connects(c) \/ ConnectRefused(c) \/ HandshakeFails(c) \/ CallerGreeted(c)
  \/ RetryIdle(c) \/ RetrySleeps(c) \/ Wakes(c) \/ LeasePing(c) \/ PingFails(c) \/ PingPong(c)
EndsUnsent(c) == NoneIdleLate(c) \/ RetryLate(c) \/ CheckHost(c) \/ LeasedLate(c) \/ PingFailsLate(c)
EndsSent(c) == Answer(c) \/ AnswerLost(c)

LEMMA NextCases ==
  ASSUME Next
  PROVE  \/ Others
         \/ \E c \in Callers :
              \/ \E tool \in {"exec", "check_host"} : Call(c, tool)
              \/ Before(c) \/ Send(c) \/ SendFails(c) \/ EndsUnsent(c) \/ EndsSent(c) \/ DeadlinePasses(c)
BY DEF Next, CallerStep, Others, Before, EndsUnsent, EndsSent

-----------------------------------------------------------------------------
(* Leases.                                                                 *)

Lessees == {c \in Callers : pc[c] \in Leasing}

ActiveInv == PcTypes /\ ActiveCounted

LEMMA LesseesFinite == IsFiniteSet(Lessees) /\ Cardinality(Lessees) \in Nat
BY FS_Subset, FS_CardinalityType DEF Lessees

(* The count follows a caller that takes a lease, or gives it up.          *)
LEMMA CountFollows ==
  ASSUME ActiveCounted, NEW c \in Callers, NEW a, NEW b, Moved(c, a, b),
         \/ a \notin Leasing /\ b \in Leasing /\ active' = active + 1
         \/ a \in Leasing /\ b \notin Leasing /\ active' = active - 1
         \/ (a \in Leasing <=> b \in Leasing) /\ active' = active
  PROVE  ActiveCounted'
<1> DEFINE after == {d \in Callers : pc'[d] \in Leasing}
<1>0. active = Cardinality(Lessees)
  BY DEF ActiveCounted, Lessees
<1>1. CASE a \notin Leasing /\ b \in Leasing /\ active' = active + 1
  <2>1. after = Lessees \cup {c} /\ c \notin Lessees
    BY <1>1 DEF Moved, Lessees
  <2>2. Cardinality(after) = Cardinality(Lessees) + 1
    BY <2>1, LesseesFinite, FS_AddElement
  <2> QED
    BY <1>0, <1>1, <2>2 DEF ActiveCounted
<1>2. CASE a \in Leasing /\ b \notin Leasing /\ active' = active - 1
  <2>1. after = Lessees \ {c} /\ c \in Lessees
    BY <1>2 DEF Moved, Lessees
  <2>2. Cardinality(after) = Cardinality(Lessees) - 1
    BY <2>1, LesseesFinite, FS_RemoveElement
  <2> QED
    BY <1>0, <1>2, <2>2 DEF ActiveCounted
<1>3. CASE (a \in Leasing <=> b \in Leasing) /\ active' = active
  <2>1. after = Lessees
    BY <1>3 DEF Moved, Lessees
  <2> QED
    BY <1>0, <1>3, <2>1 DEF ActiveCounted
<1> QED
  BY <1>1, <1>2, <1>3

LEMMA ActiveAlways == Spec => []ActiveInv
<1>1. Init => ActiveInv
  <2> SUFFICES ASSUME Init PROVE ActiveInv
    OBVIOUS
  <2>1. PcTypes
    BY DEF Init, PcTypes, States, Acquiring, Procs
  <2>2. {c \in Callers : pc[c] \in Leasing} = {}
    BY DEF Init, Procs, Leasing
  <2> QED
    BY <2>1, <2>2, FS_EmptySet DEF Init, ActiveInv, ActiveCounted
<1>2. ActiveInv /\ [Next]_vars => ActiveInv'
  <2> SUFFICES ASSUME ActiveInv, [Next]_vars PROVE ActiveInv'
    OBVIOUS
  <2> USE DEF ActiveInv
  <2>1. CASE Others \/ UNCHANGED vars
    <3>1. PcTypes' /\ CallersRest /\ active' = active
      BY <2>1, OthersLeaveCallers
    <3>2. {c \in Callers : pc'[c] \in Leasing} = {c \in Callers : pc[c] \in Leasing}
      BY <3>1 DEF CallersRest
    <3> QED
      BY <3>1, <3>2 DEF ActiveCounted
  <2>2. ASSUME NEW c \in Callers, NEW a, NEW b \in States, Goto(c, a, b),
               \/ a \notin Leasing /\ b \in Leasing /\ active' = active + 1
               \/ a \in Leasing /\ b \notin Leasing /\ active' = active - 1
               \/ (a \in Leasing <=> b \in Leasing) /\ active' = active
        PROVE  ActiveInv'
    BY <2>2, GotoMoves, CountFollows
  <2>3. ASSUME NEW c \in Callers PROVE c # Worker
    OBVIOUS
  <2> USE DEF States, Acquiring, Leasing
  <2>4. ASSUME NEW c \in Callers, NEW tool, Call(c, tool) PROVE ActiveInv'
    BY <2>2, <2>4 DEF Call, pool
  <2>5. ASSUME NEW c \in Callers, Before(c) PROVE ActiveInv'
    <3>1. CASE Pop(c) \/ CallerGreeted(c)
      BY <2>2, <3>1 DEF Pop, CallerGreeted
    <3>2. CASE PingFails(c)
      BY <2>2, <3>2 DEF PingFails, Discard
    <3>3. CASE NoneIdle(c) \/ Connects(c) \/ ConnectRefused(c) \/ HandshakeFails(c)
      BY <2>2, <2>3, <3>3 DEF NoneIdle, Connects, ConnectRefused, HandshakeFails, pool
    <3>4. CASE RetryIdle(c) \/ RetrySleeps(c) \/ Wakes(c) \/ LeasePing(c) \/ PingPong(c)
      BY <2>2, <3>4 DEF RetryIdle, RetrySleeps, Wakes, LeasePing, PingPong, pool
    <3> QED
      BY <2>5, <3>1, <3>2, <3>3, <3>4 DEF Before
  <2>6. ASSUME NEW c \in Callers, Send(c) PROVE ActiveInv'
    BY <2>2, <2>6 DEF Send, pool
  <2>7. ASSUME NEW c \in Callers, SendFails(c) \/ EndsUnsent(c) \/ EndsSent(c) PROVE ActiveInv'
    <3>1. CASE NoneIdleLate(c) \/ RetryLate(c)
      BY <2>2, <3>1 DEF NoneIdleLate, RetryLate, End, pool
    <3>2. CASE CheckHost(c) \/ LeasedLate(c) \/ Answer(c)
      BY <2>2, <3>2 DEF CheckHost, LeasedLate, Answer, End, GiveBack
    <3>3. CASE PingFailsLate(c) \/ SendFails(c) \/ AnswerLost(c)
      BY <2>2, <3>3 DEF PingFailsLate, SendFails, AnswerLost, End, Discard
    <3> QED
      BY <2>7, <3>1, <3>2, <3>3 DEF EndsUnsent, EndsSent
  <2>8. ASSUME NEW c \in Callers, DeadlinePasses(c) PROVE ActiveInv'
    BY <2>8 DEF DeadlinePasses, pool, ActiveCounted, PcTypes
  <2> QED
    BY <2>1, <2>4, <2>5, <2>6, <2>7, <2>8, NextCases
<1> QED
  BY <1>1, <1>2, PTL DEF Spec

(* No lease is forgotten or counted twice on any way out of a call.        *)
THEOREM ActiveAlwaysCounted == Spec => []ActiveCounted
<1>1. ActiveInv => ActiveCounted
  BY DEF ActiveInv
<1> QED
  BY <1>1, ActiveAlways, PTL

-----------------------------------------------------------------------------
(* Requests.                                                               *)

CallTypes ==
  /\ call \in [Callers -> [id : CallIds, tool : {"exec", "check_host"}] \cup {NoCall}]
  /\ calls \in 0 .. MaxCalls
  /\ sent \in [CallIds -> Nat] /\ result \in [CallIds -> Outcomes]

(* A call is one caller's until it ends; its request is written on the way *)
(* to "await", once.                                                       *)
CallOf(c, n) == pc[c] # "idle" /\ call[c].id = n

OneCaller ==
  /\ \A c, d \in Callers : \A n \in CallIds : CallOf(c, n) /\ CallOf(d, n) => c = d
  /\ \A c \in Callers : pc[c] # "idle" => call[c].id \in 1 .. calls

Unended ==
  /\ \A c \in Callers : \A n \in CallIds : CallOf(c, n) =>
       result[n] = "none" /\ sent[n] = IF pc[c] = "await" THEN 1 ELSE 0
  /\ \A n \in CallIds : n > calls => sent[n] = 0 /\ result[n] = "none"

CallsInv == PcTypes /\ CallTypes /\ OneCaller /\ Unended /\ SentAtMostOnce

(* What the ends of a call have in common: nothing else changes.           *)
LEMMA EndKeepsCalls ==
  ASSUME CallsInv, NEW c \in Callers, NEW a \in States \ {"idle"}, NEW outcome \in Outcomes,
         End(c, a, outcome), NEW n \in CallIds, n = call[c].id,
         \/ outcome # "not_found" /\ sent' = sent
         \/ outcome # "not_found" /\ a # "await" /\ sent' = [sent EXCEPT ![n] = @ + 1]
         \/ a # "await" /\ sent' = sent
  PROVE  CallsInv'
<1>1. /\ PcTypes' /\ Moved(c, a, "idle") /\ calls' = calls
      /\ call' = [call EXCEPT ![c] = NoCall] /\ result' = [result EXCEPT ![n] = outcome]
  BY GotoMoves DEF End, CallsInv, States
<1>2. CallOf(c, n) /\ n <= calls /\ sent[n] = IF a = "await" THEN 1 ELSE 0
  BY <1>1 DEF CallsInv, CallOf, OneCaller, Unended, Moved
<1>3. CallTypes'
  BY <1>1 DEF CallsInv, CallTypes
<1>4. \A d \in Callers : \A m \in CallIds : CallOf(d, m)' => CallOf(d, m) /\ d # c /\ m # n
  BY <1>1, <1>2 DEF CallsInv, CallTypes, CallOf, Moved, OneCaller
<1>5. \A m \in CallIds : m # n => sent'[m] = sent[m] /\ result'[m] = result[m]
  BY <1>1 DEF CallsInv, CallTypes
<1>6. sent'[n] <= 1 /\ (result'[n] = "not_found" => sent'[n] = 0)
  BY <1>1, <1>2 DEF CallsInv, CallTypes
<1>7. \A d \in Callers \ {c} : pc'[d] = pc[d] /\ call'[d] = call[d]
  BY <1>1 DEF Moved, CallsInv, CallTypes
<1>8. OneCaller'
  <2>1. \A d \in Callers : pc'[d] # "idle" => call'[d].id \in 1 .. calls'
    BY <1>1, <1>7 DEF CallsInv, OneCaller, Moved
  <2> QED
    BY <1>4, <2>1 DEF CallsInv, OneCaller
<1>9. Unended'
  <2>1. \A d \in Callers : \A m \in CallIds : CallOf(d, m)' =>
          result'[m] = "none" /\ sent'[m] = IF pc'[d] = "await" THEN 1 ELSE 0
    BY <1>4, <1>5, <1>7 DEF CallsInv, Unended
  <2>2. \A m \in CallIds : m > calls' => m # n
    BY <1>1, <1>2 DEF CallsInv, CallTypes, CallIds
  <2> QED
    BY <1>1, <1>5, <2>1, <2>2 DEF CallsInv, Unended
<1> QED
  BY <1>1, <1>3, <1>5, <1>6, <1>8, <1>9 DEF CallsInv, SentAtMostOnce

(* A step before the request is sent.                                      *)
LEMMA BeforeKeepsCalls ==
  ASSUME CallsInv, NEW c \in Callers, NEW a \in States \ {"idle", "await"},
         NEW b \in States \ {"idle", "await"}, Goto(c, a, b), UNCHANGED <<call, calls, sent, result>>
  PROVE  CallsInv'
<1>1. PcTypes' /\ Moved(c, a, b)
  BY GotoMoves DEF CallsInv
<1>2. \A d \in Callers : \A m \in CallIds :
        (CallOf(d, m)' <=> CallOf(d, m)) /\ (pc'[d] = "await" <=> pc[d] = "await")
  BY <1>1 DEF CallOf, Moved
<1>3. OneCaller'
  BY <1>1, <1>2 DEF CallsInv, OneCaller, Moved
<1>4. Unended'
  BY <1>2 DEF CallsInv, Unended
<1> QED
  BY <1>1, <1>3, <1>4 DEF CallsInv, CallTypes, SentAtMostOnce

LEMMA CallIdOfCaller ==
  ASSUME CallsInv, NEW c \in Callers, pc[c] # "idle"
  PROVE  call[c].id \in CallIds /\ CallOf(c, call[c].id)
BY DEF CallsInv, CallTypes, OneCaller, CallIds, CallOf

LEMMA CallsAlways == Spec => []CallsInv
<1>1. Init => CallsInv
  BY DEF Init, CallsInv, PcTypes, CallTypes, OneCaller, Unended, SentAtMostOnce, CallOf, Procs, States,
     Acquiring, Outcomes, NoCall, CallIds
<1>2. CallsInv /\ [Next]_vars => CallsInv'
  <2> SUFFICES ASSUME CallsInv, [Next]_vars PROVE CallsInv'
    OBVIOUS
  <2>1. CASE Others \/ UNCHANGED vars
    <3>1. PcTypes' /\ CallersRest /\ UNCHANGED <<call, calls, sent, result>>
      BY <2>1, OthersLeaveCallers DEF CallsInv
    <3> QED
      BY <3>1 DEF CallsInv, CallTypes, OneCaller, Unended, SentAtMostOnce, CallOf, CallersRest
  <2>2. ASSUME NEW c \in Callers, NEW tool \in {"exec", "check_host"}, Call(c, tool) PROVE CallsInv'
    <3>1. /\ PcTypes' /\ Moved(c, "idle", "loop") /\ calls < MaxCalls /\ calls' = calls + 1
          /\ call' = [call EXCEPT ![c] = [id |-> calls + 1, tool |-> tool]]
          /\ UNCHANGED <<sent, result>>
      BY <2>2, GotoMoves DEF Call, CallsInv, States, Acquiring, history
    <3>2. calls + 1 \in CallIds /\ calls \in Nat
      BY <3>1 DEF CallsInv, CallTypes, CallIds
    <3>3. CallTypes'
      BY <3>1, <3>2 DEF CallsInv, CallTypes
    <3>4. \A d \in Callers \ {c} : pc'[d] = pc[d] /\ call'[d] = call[d]
      BY <3>1 DEF Moved, CallsInv, CallTypes
    <3>5. pc'[c] = "loop" /\ call'[c].id = calls + 1
      BY <3>1 DEF Moved, CallsInv, CallTypes
    <3>6. \A d \in Callers \ {c} : \A m \in CallIds : CallOf(d, m)' => CallOf(d, m) /\ m # calls + 1
      BY <3>2, <3>4 DEF CallOf, CallsInv, OneCaller
    <3>7. OneCaller'
      <4>1. \A d \in Callers : pc'[d] # "idle" => call'[d].id \in 1 .. calls'
        BY <3>1, <3>2, <3>4, <3>5 DEF CallsInv, OneCaller
      <4> QED
        BY <3>5, <3>6, <4>1 DEF OneCaller, CallOf, CallsInv
    <3>8. sent[calls + 1] = 0 /\ result[calls + 1] = "none"
      BY <3>2 DEF CallsInv, Unended
    <3>9. Unended'
      <4>1. \A m \in CallIds : m > calls' => m > calls
        BY <3>1, <3>2 DEF CallIds
      <4> QED
        BY <3>1, <3>4, <3>5, <3>6, <3>8, <4>1 DEF CallsInv, Unended, CallOf
    <3> QED
      BY <3>1, <3>3, <3>7, <3>9 DEF CallsInv, SentAtMostOnce
  <2>3. ASSUME NEW c \in Callers, Before(c) PROVE CallsInv'
    <3>1. UNCHANGED <<call, calls, sent, result>>
      BY <2>3 DEF Before, Pop, NoneIdle, Connects, ConnectRefused, HandshakeFails, CallerGreeted,
         HandshakePong, RetryIdle, RetrySleeps, Wakes, LeasePing, PingFails, PingPong, history
    <3>2. \E a, b \in States \ {"idle", "await"} : Goto(c, a, b)
      BY <2>3 DEF Before, Pop, NoneIdle, Connects, ConnectRefused, HandshakeFails, CallerGreeted,
         RetryIdle, RetrySleeps, Wakes, LeasePing, PingFails, PingPong, States, Acquiring, Leasing
    <3> QED
      BY <3>1, <3>2, BeforeKeepsCalls
  <2>4. ASSUME NEW c \in Callers, Send(c) PROVE CallsInv'
    <3> DEFINE n == call[c].id
    <3>1. /\ PcTypes' /\ Moved(c, "pinged", "await") /\ sent' = [sent EXCEPT ![n] = @ + 1]
          /\ UNCHANGED <<call, calls, result>>
      BY <2>4, GotoMoves DEF Send, CallsInv, States, Acquiring, Leasing
    <3>2. n \in CallIds /\ CallOf(c, n)
      BY <3>1, CallIdOfCaller DEF Moved
    <3> HIDE DEF n
    <3>3. sent[n] = 0 /\ result[n] = "none" /\ n <= calls
      BY <3>1, <3>2 DEF CallsInv, Unended, OneCaller, Moved, CallOf
    <3>4. sent'[n] = 1 /\ \A m \in CallIds : m # n => sent'[m] = sent[m]
      BY <3>1, <3>2, <3>3 DEF CallsInv, CallTypes
    <3>5. \A d \in Callers : \A m \in CallIds : CallOf(d, m)' <=> CallOf(d, m)
      BY <3>1 DEF CallOf, Moved
    <3>6. CallTypes'
      BY <3>1, <3>2 DEF CallsInv, CallTypes
    <3>7. OneCaller'
      BY <3>1, <3>5 DEF CallsInv, OneCaller, Moved
    <3>8. \A d \in Callers : \A m \in CallIds : CallOf(d, m) /\ m = n => d = c
      BY <3>2 DEF CallsInv, OneCaller
    <3>9. Unended'
      <4>1. \A m \in CallIds : m > calls => m # n
        BY <3>3 DEF CallsInv, CallTypes, CallIds
      <4>2. \A d \in Callers : \A m \in CallIds : CallOf(d, m) =>
              result'[m] = "none" /\ sent'[m] = IF pc'[d] = "await" THEN 1 ELSE 0
        <5>1. ASSUME NEW d \in Callers, NEW m \in CallIds, CallOf(d, m), m # n
              PROVE  d # c /\ pc'[d] = pc[d] /\ sent'[m] = sent[m]
          BY <3>1, <3>2, <3>4, <5>1 DEF CallOf, Moved
        <5> QED
          BY <3>1, <3>3, <3>4, <3>8, <5>1 DEF CallsInv, Unended, Moved
      <4> QED
        BY <3>1, <3>4, <3>5, <4>1, <4>2 DEF CallsInv, Unended
    <3> QED
      BY <3>1, <3>3, <3>4, <3>6, <3>7, <3>9 DEF CallsInv, SentAtMostOnce
  <2>5. ASSUME NEW c \in Callers, SendFails(c) \/ EndsUnsent(c) \/ EndsSent(c) PROVE CallsInv'
    <3>1. \E a \in States \ {"idle"}, outcome \in Outcomes :
            /\ End(c, a, outcome)
            /\ \/ outcome # "not_found" /\ sent' = sent
               \/ outcome # "not_found" /\ a # "await" /\ sent' = [sent EXCEPT ![call[c].id] = @ + 1]
               \/ a # "await" /\ sent' = sent
      BY <2>5 DEF SendFails, EndsUnsent, EndsSent, NoneIdleLate, RetryLate, CheckHost, LeasedLate,
         PingFailsLate, Answer, AnswerLost, States, Acquiring, Leasing, Outcomes
    <3>2. call[c].id \in CallIds
      BY <3>1, CallIdOfCaller DEF End, Goto
    <3> QED
      BY <3>1, <3>2, EndKeepsCalls
  <2>6. ASSUME NEW c \in Callers, DeadlinePasses(c) PROVE CallsInv'
    BY <2>6 DEF DeadlinePasses, history, CallsInv, PcTypes, CallTypes, OneCaller, Unended, SentAtMostOnce, CallOf
  <2> QED
    BY <2>1, <2>2, <2>3, <2>4, <2>5, <2>6, NextCases
<1> QED
  BY <1>1, <1>2, PTL DEF Spec

(* No request is ever written twice, and HOST NOT FOUND is never reported  *)
(* for one that was written.                                               *)
THEOREM NeverSentTwice == Spec => []SentAtMostOnce
<1>1. CallsInv => SentAtMostOnce
  BY DEF CallsInv
<1> QED
  BY <1>1, CallsAlways, PTL

-----------------------------------------------------------------------------
(* Connections.  What is in flight on one follows from where its owner is  *)
(* in a call; on one that nobody owns there is nothing.                    *)

(* Nothing is in flight; or one line and, once the host has read it, the   *)
(* reply to it.  A host that dies takes the line with it, not the reply.   *)
Quiet(k, s) == to[k] = <<>> /\ from[k] = <<>> /\ stage[k] \in {s, "closed"}

Exchange(k, line, before, reply, after) ==
  \/ to[k] = <<line>> /\ from[k] = <<>> /\ stage[k] = before
  \/ to[k] = <<>> /\ from[k] = <<reply>> /\ stage[k] \in {after, "closed"}
  \/ to[k] = <<>> /\ from[k] = <<>> /\ stage[k] = "closed"

OwnerState(p) ==
  \/ pc[p] = "handshake" /\ Exchange(own[p], Ping, "new", Pong, "greeted")
  \/ pc[p] = "leased" /\ Quiet(own[p], "greeted")
  \/ pc[p] = "ping" /\ Exchange(own[p], Ping, "greeted", Pong, "pinged")
  \/ pc[p] = "pinged" /\ Quiet(own[p], "pinged")
  \/ /\ pc[p] = "await" /\ p \in Callers
     /\ Exchange(own[p], Request(call[p].id), "pinged", Response(call[p].id), "greeted")

SocketTypes ==
  /\ PcTypes
  /\ own \in [Procs -> Conns \cup {NoConn}] /\ idle \in Seq(Conns)
  /\ DOMAIN to = Conns /\ DOMAIN from = Conns /\ DOMAIN stage = Conns
  /\ DOMAIN call = Callers /\ DOMAIN result = CallIds

Ownership ==
  /\ \A p \in Procs : own[p] # NoConn <=> pc[p] \in {"handshake"} \cup Leasing
  /\ \A p, q \in Procs : own[p] = own[q] /\ own[p] # NoConn => p = q
  /\ \A p \in Procs : own[p] \notin IdleSet
  /\ \A i, j \in 1 .. Len(idle) : idle[i] = idle[j] => i = j

InFlight ==
  /\ \A p \in Procs : own[p] # NoConn => OwnerState(p)
  /\ \A k \in IdleSet : Quiet(k, "greeted")
  /\ \A k \in Conns \ Open : Quiet(k, "closed")

SocketInv == SocketTypes /\ Ownership /\ InFlight /\ OwnAnswer /\ NeverRefused

(* p alone may move, and only the sockets K change.                        *)
OnlyMoves(p) ==
  \A q \in Procs \ {p} : pc'[q] = pc[q] /\ own'[q] = own[q] /\ (q \in Callers => call'[q] = call[q])
OnlyTouches(K) ==
  \A k \in Conns \ K : to'[k] = to[k] /\ from'[k] = from[k] /\ stage'[k] = stage[k]

LEMMA Lines ==
  ASSUME NEW x
  PROVE  /\ Append(<<>>, x) = <<x>> /\ <<>> \o <<x>> = <<x>>
         /\ Tail(<<x>>) = <<>> /\ Head(<<x>>) = x /\ <<x>> # <<>>
OBVIOUS

LEMMA OpenSets ==
  ASSUME SocketTypes
  PROVE  /\ IdleSet \subseteq Conns /\ Held \subseteq Conns
         /\ \A k \in Conns : k \in Held <=> \E p \in Procs : own[p] = k
BY ElementOfSeq DEF SocketTypes, IdleSet, Held

LEMMA SameOwnerState ==
  ASSUME NEW q \in Procs, OwnerState(q), pc'[q] = pc[q], own'[q] = own[q],
         q \in Callers => call'[q] = call[q],
         to'[own[q]] = to[own[q]], from'[own[q]] = from[own[q]], stage'[own[q]] = stage[own[q]]
  PROVE  OwnerState(q)'
BY DEF OwnerState, Quiet, Exchange, Ping, Pong, Request, Response

LEMMA SameQuiet ==
  ASSUME NEW k, NEW s, Quiet(k, s), to'[k] = to[k], from'[k] = from[k], stage'[k] = stage[k]
  PROVE  Quiet(k, s)'
BY DEF Quiet

(* The owner of a socket goes on with it; one that has none does not touch *)
(* any.                                                                    *)
LEMMA OwnerGoesOn ==
  ASSUME SocketInv, NEW p \in Procs, OnlyMoves(p), own' = own, idle' = idle, SocketTypes',
         OnlyTouches({own[p]}),
         own[p] # NoConn <=> pc'[p] \in {"handshake"} \cup Leasing,
         own[p] # NoConn => OwnerState(p)'
  PROVE  Ownership' /\ InFlight'
<1>1. IdleSet' = IdleSet /\ Open' = Open /\ Held' = Held
  BY DEF IdleSet, Open, Held
<1>2. Ownership'
  BY <1>1 DEF SocketInv, Ownership, OnlyMoves
<1>3. \A q \in Procs \ {p} : own[q] # NoConn => own[q] \in Conns /\ own[q] # own[p]
  BY DEF SocketInv, SocketTypes, Ownership
<1>4. \A q \in Procs \ {p} : own[q] # NoConn => OwnerState(q)'
  BY <1>3, SameOwnerState DEF SocketInv, InFlight, OnlyMoves, OnlyTouches
<1>5. \A k \in Conns : k # own[p] =>
        to'[k] = to[k] /\ from'[k] = from[k] /\ stage'[k] = stage[k]
  BY DEF OnlyTouches
<1>6. IdleSet \subseteq Conns /\ (own[p] # NoConn => own[p] \in Open) /\ own[p] \notin IdleSet
  BY OpenSets DEF SocketInv, Open, Held, Ownership
<1>7. InFlight'
  BY <1>1, <1>4, <1>5, <1>6 DEF SocketInv, InFlight, Quiet, SocketTypes
<1> QED
  BY <1>2, <1>7

(* An owner closes its socket.                                             *)
LEMMA OwnerDrops ==
  ASSUME SocketInv, NEW p \in Procs, own[p] # NoConn, OnlyMoves(p), SocketTypes',
         own' = [own EXCEPT ![p] = NoConn], idle' = idle, Close({own[p]}),
         pc'[p] \notin {"handshake"} \cup Leasing
  PROVE  Ownership' /\ InFlight'
<1>1. own'[p] = NoConn /\ IdleSet' = IdleSet
  BY DEF IdleSet, SocketInv, SocketTypes
<1>2. Ownership'
  <2>1. \A q \in Procs : own'[q] # NoConn <=> pc'[q] \in {"handshake"} \cup Leasing
    BY <1>1 DEF SocketInv, Ownership, OnlyMoves
  <2>2. \A q, r \in Procs : own'[q] = own'[r] /\ own'[q] # NoConn => q = r
    BY <1>1 DEF SocketInv, Ownership, OnlyMoves
  <2>3. NoConn \notin IdleSet
    BY OpenSets DEF SocketInv
  <2>4. \A q \in Procs : own'[q] \notin IdleSet'
    BY <1>1, <2>3 DEF SocketInv, Ownership, OnlyMoves
  <2> QED
    BY <2>1, <2>2, <2>4 DEF SocketInv, Ownership
<1>3. \A k \in Conns : k # own[p] =>
        to'[k] = to[k] /\ from'[k] = from[k] /\ stage'[k] = stage[k]
  BY DEF Close
<1>4. \A q \in Procs \ {p} : own[q] # NoConn => own[q] \in Conns /\ own[q] # own[p]
  BY DEF SocketInv, SocketTypes, Ownership
<1>5. \A q \in Procs \ {p} : own[q] # NoConn => OwnerState(q)'
  BY <1>3, <1>4, SameOwnerState DEF SocketInv, InFlight, OnlyMoves
<1>6. IdleSet \subseteq Conns /\ own[p] \in Conns /\ own[p] \notin IdleSet
  BY OpenSets DEF SocketInv, SocketTypes, Ownership
<1>7. \A k \in Conns \ Open' : k = own[p] \/ k \notin Open
  BY <1>1, OpenSets DEF SocketInv, Open, OnlyMoves, Held
<1>8. \A k \in Conns : k = own[p] => Quiet(k, "closed")'
  <2>1. to'[own[p]] = <<>> /\ from'[own[p]] = <<>> /\ stage'[own[p]] = "closed"
    BY <1>6 DEF Close
  <2> QED
    BY <1>6, <2>1 DEF Quiet
<1>9. InFlight'
  <2>1. \A q \in Procs : own'[q] # NoConn => OwnerState(q)'
    BY <1>1, <1>5 DEF OnlyMoves
  <2>2. \A k \in IdleSet : Quiet(k, "greeted")'
    BY <1>3, <1>6, SameQuiet DEF SocketInv, InFlight
  <2>3. \A k \in Conns \ Open' : Quiet(k, "closed")'
    BY <1>3, <1>7, <1>8, SameQuiet DEF SocketInv, InFlight
  <2> QED
    BY <1>1, <2>1, <2>2, <2>3 DEF InFlight
<1> QED
  BY <1>2, <1>9

(* An owner puts its socket into the pool, with nothing in flight.         *)
LEMMA OwnerGivesBack ==
  ASSUME SocketInv, NEW p \in Procs, own[p] # NoConn, OnlyMoves(p), SocketTypes',
         own' = [own EXCEPT ![p] = NoConn], idle' = Append(idle, own[p]),
         OnlyTouches({own[p]}), \A k \in Conns : k = own[p] => Quiet(k, "greeted")',
         pc'[p] \notin {"handshake"} \cup Leasing
  PROVE  Ownership' /\ InFlight'
<1>1. own'[p] = NoConn /\ own[p] \in Conns
  BY DEF SocketInv, SocketTypes
<1>2. /\ Len(idle') = Len(idle) + 1 /\ Len(idle) \in Nat
      /\ \A i \in 1 .. Len(idle) : idle'[i] = idle[i]
      /\ idle'[Len(idle) + 1] = own[p]
  BY <1>1, AppendProperties DEF SocketInv, SocketTypes
<1>3. IdleSet' = IdleSet \cup {own[p]}
  BY <1>2 DEF IdleSet
<1>4. \A q \in Procs \ {p} : own[q] # NoConn => own[q] \in Conns /\ own[q] # own[p]
  BY DEF SocketInv, SocketTypes, Ownership
<1>5. NoConn \notin IdleSet'
  BY <1>1, <1>3, OpenSets DEF SocketInv
<1>6. Ownership'
  <2>1. \A q \in Procs : own'[q] # NoConn <=> pc'[q] \in {"handshake"} \cup Leasing
    BY <1>1 DEF SocketInv, Ownership, OnlyMoves
  <2>2. \A q, r \in Procs : own'[q] = own'[r] /\ own'[q] # NoConn => q = r
    BY <1>1 DEF SocketInv, Ownership, OnlyMoves
  <2>3. \A q \in Procs : own'[q] \notin IdleSet'
    BY <1>1, <1>3, <1>4, <1>5 DEF SocketInv, Ownership, OnlyMoves
  <2>4. \A i \in 1 .. Len(idle) : idle[i] # own[p]
    BY DEF SocketInv, Ownership, IdleSet
  <2>5. \A i, j \in 1 .. Len(idle') : idle'[i] = idle'[j] => i = j
    BY <1>2, <2>4 DEF SocketInv, Ownership
  <2> QED
    BY <2>1, <2>2, <2>3, <2>5 DEF Ownership
<1>7. InFlight'
  <2>1. \A q \in Procs : own'[q] # NoConn => OwnerState(q)'
    BY <1>1, <1>4, SameOwnerState DEF SocketInv, InFlight, OnlyMoves, OnlyTouches
  <2>2. \A k \in IdleSet' : Quiet(k, "greeted")'
    BY <1>1, <1>3, OpenSets, SameQuiet DEF SocketInv, InFlight, OnlyTouches
  <2>3. Open' = Open
    BY <1>1, <1>3 DEF Open, Held, OnlyMoves
  <2>4. \A k \in Conns \ Open : Quiet(k, "closed")'
    BY <1>1, <2>3, <1>3 DEF SocketInv, InFlight, OnlyTouches, Quiet, Open
  <2> QED
    BY <2>1, <2>2, <2>3, <2>4 DEF InFlight
<1> QED
  BY <1>6, <1>7

(* Sockets K of the pool are closed; one more may leave it, as p's.        *)
LEMMA PoolShrinks ==
  ASSUME SocketInv, NEW p \in Procs, own[p] = NoConn, OnlyMoves(p), SocketTypes',
         NEW K \in SUBSET IdleSet, Close(K),
         IdleSet' = (IdleSet \ K) \ {own'[p]}, own'[p] \in (IdleSet \ K) \cup {NoConn},
         \A i, j \in 1 .. Len(idle') : idle'[i] = idle'[j] => i = j,
         IF own'[p] = NoConn THEN pc'[p] \notin {"handshake"} \cup Leasing ELSE pc'[p] = "leased"
  PROVE  Ownership' /\ InFlight'
<1>1. IdleSet \subseteq Conns /\ NoConn \notin IdleSet
  BY OpenSets DEF SocketInv
<1>2. \A q \in Procs \ {p} : own[q] # NoConn => own[q] \in Conns /\ own[q] \notin IdleSet
  BY DEF SocketInv, SocketTypes, Ownership
<1>3. Ownership'
  <2>1. \A q \in Procs : own'[q] # NoConn <=> pc'[q] \in {"handshake"} \cup Leasing
    BY <1>1 DEF SocketInv, Ownership, OnlyMoves, Leasing
  <2>2. \A q, r \in Procs : own'[q] = own'[r] /\ own'[q] # NoConn => q = r
    BY <1>2 DEF SocketInv, Ownership, OnlyMoves
  <2>3. \A q \in Procs : own'[q] \notin IdleSet'
    BY <1>1, <1>2 DEF OnlyMoves
  <2> QED
    BY <2>1, <2>2, <2>3 DEF Ownership
<1>4. /\ \A k \in Conns \ K : to'[k] = to[k] /\ from'[k] = from[k] /\ stage'[k] = stage[k]
      /\ \A k \in K : to'[k] = <<>> /\ from'[k] = <<>> /\ stage'[k] = "closed"
  BY <1>1 DEF Close
<1>5. \A q \in Procs \ {p} : own'[q] # NoConn => OwnerState(q)'
  BY <1>2, <1>4, SameOwnerState DEF SocketInv, InFlight, OnlyMoves
<1>6. \A k \in IdleSet \ K : Quiet(k, "greeted")'
  BY <1>1, <1>4, SameQuiet DEF SocketInv, InFlight
<1>7. own'[p] # NoConn => OwnerState(p)'
  BY <1>6 DEF OwnerState
<1>8. \A k \in Conns \ Open' : k \in K \/ k \notin Open
  <2>1. \A k \in Held : k \in Held'
    BY <1>1, OpenSets DEF SocketInv, OnlyMoves, Held
  <2>2. \A k \in IdleSet \ K : k \in Open'
    BY <1>1 DEF Open, Held
  <2> QED
    BY <2>1, <2>2 DEF Open
<1>9. \A k \in Conns \ Open' : Quiet(k, "closed")'
  <2>1. \A k \in K : Quiet(k, "closed")'
    BY <1>4 DEF Quiet
  <2> QED
    BY <1>1, <1>4, <1>8, <2>1, SameQuiet DEF SocketInv, InFlight, Open
<1>10. InFlight'
  BY <1>5, <1>6, <1>7, <1>9 DEF InFlight
<1> QED
  BY <1>3, <1>10

(* p opens a socket.                                                       *)
LEMMA OwnerOpens ==
  ASSUME SocketInv, NEW p \in Procs, own[p] = NoConn, OnlyMoves(p), SocketTypes',
         NEW k \in Conns \ Open, own' = [own EXCEPT ![p] = k], idle' = idle,
         to' = [to EXCEPT ![k] = <<Ping>>], stage' = [stage EXCEPT ![k] = "new"], from' = from,
         pc'[p] = "handshake"
  PROVE  Ownership' /\ InFlight'
<1>1. own'[p] = k /\ k \in Conns /\ k # NoConn /\ k \notin IdleSet
  BY DEF SocketInv, SocketTypes, Open
<1>2. \A q \in Procs \ {p} : own[q] # NoConn => own[q] \in Conns /\ own[q] # k
  BY DEF SocketInv, SocketTypes, Open, Held
<1>3. IdleSet' = IdleSet /\ NoConn \notin IdleSet /\ IdleSet \subseteq Conns
  BY OpenSets DEF SocketInv, IdleSet
<1>4. Ownership'
  <2>1. \A q \in Procs : own'[q] # NoConn <=> pc'[q] \in {"handshake"} \cup Leasing
    BY <1>1 DEF SocketInv, Ownership, OnlyMoves
  <2>2. \A q, r \in Procs : own'[q] = own'[r] /\ own'[q] # NoConn => q = r
    BY <1>1, <1>2 DEF SocketInv, Ownership, OnlyMoves
  <2>3. \A q \in Procs : own'[q] \notin IdleSet'
    BY <1>1, <1>3 DEF SocketInv, Ownership, OnlyMoves
  <2> QED
    BY <2>1, <2>2, <2>3 DEF SocketInv, Ownership
<1>5. /\ \A j \in Conns : j # k => to'[j] = to[j] /\ from'[j] = from[j] /\ stage'[j] = stage[j]
      /\ to'[k] = <<Ping>> /\ from'[k] = from[k] /\ stage'[k] = "new"
  BY DEF SocketInv, SocketTypes
<1>6. from[k] = <<>>
  BY DEF SocketInv, InFlight, Quiet
<1>7. OwnerState(p)'
  BY <1>1, <1>5, <1>6 DEF OwnerState, Exchange, Ping
<1>8. \A q \in Procs \ {p} : own'[q] # NoConn => OwnerState(q)'
  BY <1>2, <1>5, SameOwnerState DEF SocketInv, InFlight, OnlyMoves
<1>9. Open' = Open \cup {k}
  <2>1. \A q \in Procs \ {p} : own'[q] = own[q]
    BY DEF OnlyMoves
  <2> QED
    BY <1>1, <1>3, <2>1 DEF Open, Held
<1>10. InFlight'
  BY <1>1, <1>3, <1>5, <1>7, <1>8, <1>9, SameQuiet DEF SocketInv, InFlight
<1> QED
  BY <1>4, <1>10

-----------------------------------------------------------------------------
(* The operations.                                                         *)

LEMMA ProcMoves ==
  ASSUME PcTypes, NEW p \in Procs, NEW a, NEW b \in States, Goto(p, a, b)
  PROVE  /\ PcTypes' /\ pc[p] = a /\ pc'[p] = b
         /\ \A q \in Procs \ {p} : pc'[q] = pc[q]
BY DEF PcTypes, Goto

LEMMA CloseTypes ==
  ASSUME NEW K, Close(K)
  PROVE  DOMAIN to' = Conns /\ DOMAIN from' = Conns /\ DOMAIN stage' = Conns
BY DEF Close

LEMMA AnswersKept ==
  ASSUME SocketInv, UNCHANGED <<result, refused>>
  PROVE  OwnAnswer' /\ NeverRefused' /\ DOMAIN result' = CallIds
BY DEF SocketInv, SocketTypes, OwnAnswer, NeverRefused

LEMMA EndKeepsAnswers ==
  ASSUME SocketInv, NEW c \in Callers, NEW a, NEW outcome, outcome # "crossed", End(c, a, outcome)
  PROVE  /\ OwnAnswer' /\ NeverRefused' /\ DOMAIN result' = CallIds /\ DOMAIN call' = Callers
         /\ PcTypes' /\ pc[c] = a /\ pc'[c] = "idle"
         /\ \A q \in Procs \ {c} : pc'[q] = pc[q] /\ (q \in Callers => call'[q] = call[q])
<1>1. /\ c \in Procs /\ PcTypes /\ "idle" \in States /\ Goto(c, a, "idle")
      /\ call' = [call EXCEPT ![c] = NoCall]
      /\ result' = [result EXCEPT ![call[c].id] = outcome] /\ refused' = refused
  BY DEF SocketInv, SocketTypes, Procs, States, End
<1>2. PcTypes' /\ pc[c] = a /\ pc'[c] = "idle" /\ \A q \in Procs \ {c} : pc'[q] = pc[q]
  BY <1>1, ProcMoves
<1>3. OwnAnswer' /\ NeverRefused' /\ DOMAIN result' = CallIds
  BY <1>1 DEF SocketInv, SocketTypes, OwnAnswer, NeverRefused
<1>4. DOMAIN call' = Callers /\ \A q \in Callers \ {c} : call'[q] = call[q]
  BY <1>1 DEF SocketInv, SocketTypes
<1> QED
  BY <1>2, <1>3, <1>4

(* The pool after the last live one was popped, and after retain.          *)
LEMMA PopKeeps ==
  ASSUME SocketInv, NEW i \in 1 .. Len(idle), idle' = SubSeq(idle, 1, i - 1)
  PROVE  /\ idle' \in Seq(Conns) /\ idle[i] \in Conns /\ idle[i] \in IdleSet
         /\ Above(i) \subseteq IdleSet /\ idle[i] \notin Above(i)
         /\ IdleSet' = (IdleSet \ Above(i)) \ {idle[i]}
         /\ \A j, k \in 1 .. Len(idle') : idle'[j] = idle'[k] => j = k
<1>0. /\ idle \in Seq(Conns)
      /\ \A j, k \in 1 .. Len(idle) : idle[j] = idle[k] => j = k
  BY DEF SocketInv, SocketTypes, Ownership
<1>1. /\ idle \in Seq(Conns) /\ Len(idle) \in Nat /\ i - 1 \in Nat
      /\ \A j \in 1 .. Len(idle) : idle[j] \in Conns
      /\ \A j, k \in 1 .. Len(idle) : idle[j] = idle[k] => j = k
  BY <1>0, ElementOfSeq, LenProperties
<1>2. /\ idle' \in Seq(Conns) /\ Len(idle') = i - 1
      /\ \A j \in 1 .. i - 1 : idle'[j] = idle[j]
  <2>1. \A j \in 1 .. i - 1 : idle[j] \in Conns
    BY <1>1
  <2>2. /\ idle' \in Seq(Conns) /\ Len(idle') = IF 1 <= i - 1 THEN i - 1 - 1 + 1 ELSE 0
        /\ \A j \in 1 .. i - 1 - 1 + 1 : idle'[j] = idle[1 + j - 1]
    BY <1>1, <2>1, SubSeqProperties
  <2> QED
    BY <1>1, <2>2
<1>3. IdleSet' = {idle[j] : j \in 1 .. i - 1}
  BY <1>2 DEF IdleSet
<1>4. \A k \in IdleSet : k \in Above(i) \/ k = idle[i] \/ k \in IdleSet'
  BY <1>1, <1>3 DEF IdleSet, Above
<1>5. Above(i) \subseteq IdleSet /\ idle[i] \in IdleSet /\ IdleSet' \subseteq IdleSet
  BY <1>1, <1>3 DEF IdleSet, Above
<1>6. idle[i] \notin Above(i) /\ idle[i] \notin IdleSet' /\ \A k \in IdleSet' : k \notin Above(i)
  BY <1>1, <1>3 DEF Above
<1>7. IdleSet' = (IdleSet \ Above(i)) \ {idle[i]}
  BY <1>4, <1>5, <1>6
<1>8. \A j, k \in 1 .. Len(idle') : idle'[j] = idle'[k] => j = k
  BY <1>1, <1>2
<1> QED
  BY <1>1, <1>2, <1>5, <1>6, <1>7, <1>8

LEMMA RetainKeeps ==
  ASSUME SocketInv, NEW live, live = {i \in 1 .. Len(idle) : ~IsDisconnected(idle[i])},
         idle' = SelectAt(idle, live)
  PROVE  /\ idle' \in Seq(Conns)
         /\ IdleSet' = IdleSet \ {k \in IdleSet : IsDisconnected(k)}
         /\ \A j, k \in 1 .. Len(idle') : idle'[j] = idle'[k] => j = k
<1>1. /\ idle \in Seq(Conns) /\ Len(idle) \in Nat /\ live \in SUBSET (1 .. Len(idle))
      /\ \A j, k \in 1 .. Len(idle) : idle[j] = idle[k] => j = k
  BY DEF SocketInv, SocketTypes, Ownership
<1>2. \A i \in 1 .. Len(idle) : i \in live <=> ~IsDisconnected(idle[i])
  OBVIOUS
<1>3. PICK t, order : t = SelectAt(idle, live) /\ order = Ascending(live) /\ t = idle'
  OBVIOUS
<1>4. /\ t \in Seq(Conns) /\ Len(t) \in Nat
      /\ \A i \in 1 .. Len(t) : t[i] = idle[order[i]] /\ order[i] \in live
      /\ \A i, j \in 1 .. Len(t) : i < j => order[i] < order[j]
      /\ \A p \in live : \E i \in 1 .. Len(t) : order[i] = p
  <2>1. idle \in Seq(Conns) /\ live \in SUBSET (1 .. Len(idle))
    BY <1>1
  <2>2. t \in Seq(Conns) /\ Len(t) \in Nat /\ Picks(order, t, idle, live)
    BY <1>3, <2>1, SelectionProperties
  <2> QED
    BY <2>2 DEF Picks
<1>5. \A j, k \in 1 .. Len(t) : t[j] = t[k] => j = k
  <2> SUFFICES ASSUME NEW j \in 1 .. Len(t), NEW k \in 1 .. Len(t), j < k
               PROVE  t[j] # t[k]
    BY <1>4
  <2>1. order[j] \in 1 .. Len(idle) /\ order[k] \in 1 .. Len(idle) /\ order[j] < order[k]
    BY <1>1, <1>4
  <2>2. order[j] # order[k]
    BY <1>1, <2>1
  <2> QED
    BY <1>1, <1>4, <2>1, <2>2
<1>6. \A x : x \in IdleSet' <=> \E p \in live : x = idle[p]
  <2>1. ASSUME NEW p \in live PROVE idle[p] \in IdleSet'
    <3>1. PICK i \in 1 .. Len(t) : order[i] = p
      BY <1>4
    <3>2. i \in 1 .. Len(idle') /\ idle'[i] = idle[p]
      BY <1>3, <1>4, <3>1
    <3> QED
      BY <3>2 DEF IdleSet
  <2>2. ASSUME NEW x \in IdleSet' PROVE \E p \in live : x = idle[p]
    BY <1>3, <1>4 DEF IdleSet
  <2> QED
    BY <2>1, <2>2
<1>7. \A x : (\E p \in live : x = idle[p]) <=> x \in IdleSet /\ ~IsDisconnected(x)
  BY <1>1, <1>2 DEF IdleSet
<1>8. IdleSet' = IdleSet \ {k \in IdleSet : IsDisconnected(k)}
  BY <1>6, <1>7
<1> QED
  BY <1>3, <1>4, <1>5, <1>8, SMTT(30)

(* What most steps leave alone or change at p only.                        *)
Answers == OwnAnswer /\ NeverRefused /\ DOMAIN result = CallIds /\ DOMAIN call = Callers

NotOwning == States \ ({"handshake"} \cup Leasing)

LEMMA AnswersUnchanged ==
  ASSUME SocketInv, UNCHANGED <<call, result, refused>>
  PROVE  Answers' /\ \A q \in Callers : call'[q] = call[q]
BY DEF Answers, SocketInv, SocketTypes, OwnAnswer, NeverRefused

(* A step of p that has no socket, and takes none.                         *)
LEMMA MovesWithoutSocket ==
  ASSUME SocketInv, NEW p \in Procs, NEW a \in NotOwning, NEW b \in NotOwning, Goto(p, a, b),
         UNCHANGED <<idle, own, wire>>, Answers', \A q \in Callers \ {p} : call'[q] = call[q]
  PROVE  SocketInv'
<1>1. PcTypes' /\ pc[p] = a /\ pc'[p] = b /\ \A q \in Procs \ {p} : pc'[q] = pc[q]
  BY ProcMoves DEF SocketInv, SocketTypes, NotOwning
<1>2. SocketTypes' /\ OnlyMoves(p) /\ own[p] = NoConn /\ own' = own /\ idle' = idle
  BY <1>1 DEF SocketInv, SocketTypes, OnlyMoves, Answers, Ownership, NotOwning, wire
<1>3. OnlyTouches({own[p]})
  BY DEF OnlyTouches, wire
<1>4. Ownership' /\ InFlight'
  BY <1>1, <1>2, <1>3, OwnerGoesOn DEF NotOwning
<1> QED
  BY <1>2, <1>4 DEF SocketInv, Answers

(* A step of p on the socket it owns.                                      *)
LEMMA MovesWithSocket ==
  ASSUME SocketInv, NEW p \in Procs, own[p] # NoConn, NEW a \in {"handshake"} \cup Leasing,
         NEW b \in {"handshake"} \cup Leasing, Goto(p, a, b),
         UNCHANGED <<idle, own, call, result, refused>>, OnlyTouches({own[p]}),
         DOMAIN to' = Conns, DOMAIN from' = Conns, DOMAIN stage' = Conns,
         OwnerState(p)'
  PROVE  SocketInv'
<1>1. PcTypes' /\ pc[p] = a /\ pc'[p] = b /\ \A q \in Procs \ {p} : pc'[q] = pc[q]
  BY ProcMoves DEF SocketInv, SocketTypes, States, Acquiring
<1>2. Answers' /\ \A q \in Callers : call'[q] = call[q]
  BY AnswersUnchanged
<1>3. SocketTypes' /\ OnlyMoves(p)
  BY <1>1, <1>2 DEF SocketInv, SocketTypes, OnlyMoves, Answers
<1>4. Ownership' /\ InFlight'
  BY <1>1, <1>3, OwnerGoesOn
<1> QED
  BY <1>2, <1>3, <1>4 DEF SocketInv, Answers

LEMMA Owner ==
  ASSUME SocketInv, NEW p \in Procs, pc[p] \in {"handshake"} \cup Leasing
  PROVE  own[p] \in Conns /\ own[p] # NoConn /\ OwnerState(p)
BY DEF SocketInv, SocketTypes, Ownership, InFlight

LEMMA NotOwner ==
  ASSUME SocketInv, NEW p \in Procs, pc[p] \in NotOwning
  PROVE  own[p] = NoConn
BY DEF SocketInv, SocketTypes, Ownership, NotOwning

(* p closes its socket, with or without ending its call.                   *)
LEMMA DropsSocket ==
  ASSUME SocketInv, NEW p \in Procs, NEW a \in {"handshake"} \cup Leasing, NEW b \in NotOwning,
         Goto(p, a, b), own' = [own EXCEPT ![p] = NoConn], idle' = idle, Close({own[p]}),
         Answers', \A q \in Callers \ {p} : call'[q] = call[q]
  PROVE  SocketInv'
<1>1. PcTypes' /\ pc[p] = a /\ pc'[p] = b /\ \A q \in Procs \ {p} : pc'[q] = pc[q]
  BY ProcMoves DEF SocketInv, SocketTypes, NotOwning
<1>2. own[p] # NoConn
  BY <1>1, Owner
<1>3. SocketTypes' /\ OnlyMoves(p)
  BY <1>1, CloseTypes DEF SocketInv, SocketTypes, OnlyMoves, Answers
<1>4. Ownership' /\ InFlight'
  BY <1>1, <1>2, <1>3, OwnerDrops DEF NotOwning
<1> QED
  BY <1>3, <1>4 DEF SocketInv, Answers

(* p puts its socket into the pool, with or without ending its call.       *)
LEMMA ReturnsSocket ==
  ASSUME SocketInv, NEW p \in Procs, NEW a \in {"handshake"} \cup Leasing, NEW b \in NotOwning,
         Goto(p, a, b), own' = [own EXCEPT ![p] = NoConn], idle' = Append(idle, own[p]),
         OnlyTouches({own[p]}), DOMAIN to' = Conns, DOMAIN from' = Conns, DOMAIN stage' = Conns,
         \A k \in Conns : k = own[p] => Quiet(k, "greeted")',
         Answers', \A q \in Callers \ {p} : call'[q] = call[q]
  PROVE  SocketInv'
<1>1. PcTypes' /\ pc[p] = a /\ pc'[p] = b /\ \A q \in Procs \ {p} : pc'[q] = pc[q]
  BY ProcMoves DEF SocketInv, SocketTypes, NotOwning
<1>2. own[p] # NoConn /\ own[p] \in Conns
  BY <1>1, Owner
<1>3. SocketTypes' /\ OnlyMoves(p)
  BY <1>1, <1>2, AppendProperties DEF SocketInv, SocketTypes, OnlyMoves, Answers
<1>4. Ownership' /\ InFlight'
  BY <1>1, <1>2, <1>3, OwnerGivesBack DEF NotOwning
<1> QED
  BY <1>3, <1>4 DEF SocketInv, Answers

(* Reading the only line there is, and leaving the other side alone.       *)
LEMMA ReadsOnly ==
  ASSUME SocketInv, NEW k \in Conns, NEW x, ReadLine(k), from[k] = <<x>>
  PROVE  /\ from'[k] = <<>> /\ to'[k] = to[k] /\ stage'[k] = stage[k] /\ OnlyTouches({k})
         /\ DOMAIN to' = Conns /\ DOMAIN from' = Conns /\ DOMAIN stage' = Conns
BY Lines DEF ReadLine, SocketInv, SocketTypes, OnlyTouches

LEMMA ConnectsKeeps ==
  ASSUME SocketInv, NEW p \in Procs, Connects(p)
  PROVE  SocketInv'
<1>1. /\ Goto(p, "connect", "handshake")
      /\ UNCHANGED <<idle, call, from, result, refused>>
  BY DEF Connects, pool, history
<1>2. PICK k \in Conns \ Open :
        /\ own' = [own EXCEPT ![p] = k]
        /\ to' = [to EXCEPT ![k] = <<Ping>>] /\ stage' = [stage EXCEPT ![k] = "new"]
  BY DEF Connects
<1>3. /\ PcTypes' /\ pc[p] = "connect" /\ pc'[p] = "handshake"
      /\ \A q \in Procs \ {p} : pc'[q] = pc[q]
  BY <1>1, ProcMoves DEF SocketInv, SocketTypes, States, Acquiring
<1>4. own[p] = NoConn
  BY <1>3, NotOwner DEF NotOwning, States, Acquiring, Leasing
<1>5. Answers' /\ \A q \in Callers : call'[q] = call[q]
  BY <1>1, AnswersUnchanged
<1>6. SocketTypes' /\ OnlyMoves(p)
  BY <1>1, <1>2, <1>3, <1>5 DEF SocketInv, SocketTypes, OnlyMoves, Answers
<1>7. Ownership' /\ InFlight'
  BY <1>1, <1>2, <1>3, <1>4, <1>6, OwnerOpens
<1> QED
  BY <1>5, <1>6, <1>7 DEF SocketInv, Answers

(* A pong that is there is the one line in flight.                         *)
LEMMA PongRead ==
  ASSUME SocketInv, NEW p \in Procs, pc[p] \in {"handshake", "ping"}, NEW s,
         s = IF pc[p] = "handshake" THEN "greeted" ELSE "pinged",
         from[own[p]] # <<>>, ReadLine(own[p])
  PROVE  /\ \A k \in Conns : k = own[p] =>
              to'[k] = <<>> /\ from'[k] = <<>> /\ stage'[k] \in {s, "closed"}
         /\ OnlyTouches({own[p]})
         /\ DOMAIN to' = Conns /\ DOMAIN from' = Conns /\ DOMAIN stage' = Conns
<1>1. own[p] \in Conns /\ OwnerState(p)
  BY Owner DEF Leasing
<1>2. /\ from[own[p]] = <<Pong>> /\ to[own[p]] = <<>>
      /\ stage[own[p]] \in {s, "closed"}
  BY <1>1 DEF OwnerState, Exchange
<1> QED
  BY <1>1, <1>2, ReadsOnly

LEMMA GreetedKeeps ==
  ASSUME SocketInv, WorkerGreeted \/ \E c \in Callers : CallerGreeted(c)
  PROVE  SocketInv'
<1>1. CASE WorkerGreeted
  <2>1. Worker \in Procs /\ pc[Worker] = "handshake" /\ "check" \in NotOwning
    BY <1>1 DEF Procs, WorkerGreeted, Goto, NotOwning, States, Acquiring, Leasing
  <2>2. Answers' /\ \A q \in Callers : call'[q] = call[q]
    BY <1>1, AnswersUnchanged DEF WorkerGreeted, HandshakePong, history
  <2>3. from[own[Worker]] # <<>> /\ ReadLine(own[Worker])
    BY <1>1 DEF WorkerGreeted, HandshakePong
  <2>4. /\ \A k \in Conns : k = own[Worker] =>
              to'[k] = <<>> /\ from'[k] = <<>> /\ stage'[k] \in {"greeted", "closed"}
        /\ OnlyTouches({own[Worker]})
        /\ DOMAIN to' = Conns /\ DOMAIN from' = Conns /\ DOMAIN stage' = Conns
    BY <2>1, <2>3, PongRead
  <2>5. \A k \in Conns : k = own[Worker] => Quiet(k, "greeted")'
    BY <2>4 DEF Quiet
  <2> QED
    BY <1>1, <2>1, <2>2, <2>4, <2>5, ReturnsSocket DEF WorkerGreeted
<1>2. ASSUME NEW c \in Callers, CallerGreeted(c) PROVE SocketInv'
  <2>1. c \in Procs /\ pc[c] = "handshake" /\ "leased" \in Leasing
    BY <1>2 DEF Procs, CallerGreeted, Goto, Leasing
  <2>2. own[c] # NoConn /\ own[c] \in Conns /\ pc'[c] = "leased" /\ own' = own
    BY <1>2, <2>1, Owner DEF CallerGreeted, Goto, SocketInv, SocketTypes, PcTypes
  <2>3. from[own[c]] # <<>> /\ ReadLine(own[c])
    BY <1>2 DEF CallerGreeted, HandshakePong
  <2>4. /\ \A k \in Conns : k = own[c] =>
              to'[k] = <<>> /\ from'[k] = <<>> /\ stage'[k] \in {"greeted", "closed"}
        /\ OnlyTouches({own[c]})
        /\ DOMAIN to' = Conns /\ DOMAIN from' = Conns /\ DOMAIN stage' = Conns
    BY <2>1, <2>3, PongRead
  <2>5. OwnerState(c)'
    BY <2>2, <2>4 DEF OwnerState, Quiet
  <2> QED
    BY <1>2, <2>1, <2>2, <2>4, <2>5, MovesWithSocket
    DEF CallerGreeted, HandshakePong, history
<1> QED
  BY <1>1, <1>2

LEMMA PingPongKeeps ==
  ASSUME SocketInv, NEW c \in Callers, PingPong(c)
  PROVE  SocketInv'
<1>1. c \in Procs /\ pc[c] = "ping" /\ "ping" \in Leasing /\ "pinged" \in Leasing
  BY DEF Procs, PingPong, Goto, Leasing
<1>2. own[c] # NoConn /\ own[c] \in Conns /\ pc'[c] = "pinged" /\ own' = own
  BY <1>1, Owner DEF PingPong, Goto, SocketInv, SocketTypes, PcTypes
<1>3. from[own[c]] # <<>> /\ ReadLine(own[c])
  BY DEF PingPong
<1>4. /\ \A k \in Conns : k = own[c] =>
            to'[k] = <<>> /\ from'[k] = <<>> /\ stage'[k] \in {"pinged", "closed"}
      /\ OnlyTouches({own[c]})
      /\ DOMAIN to' = Conns /\ DOMAIN from' = Conns /\ DOMAIN stage' = Conns
  BY <1>1, <1>3, PongRead
<1>5. OwnerState(c)'
  BY <1>2, <1>4 DEF OwnerState, Quiet
<1> QED
  BY <1>1, <1>2, <1>4, <1>5, MovesWithSocket DEF PingPong, history, pool

(* Ping or request: a line is written to a socket on which there is none.  *)
LEMMA WritesLine ==
  ASSUME SocketInv, NEW k \in Conns, NEW line, Write(k, line), to[k] = <<>>
  PROVE  /\ to'[k] = <<line>> /\ from'[k] = from[k] /\ stage'[k] = stage[k] /\ OnlyTouches({k})
         /\ DOMAIN to' = Conns /\ DOMAIN from' = Conns /\ DOMAIN stage' = Conns
BY Lines DEF Write, SocketInv, SocketTypes, OnlyTouches

LEMMA LeasePingKeeps ==
  ASSUME SocketInv, NEW c \in Callers, LeasePing(c)
  PROVE  SocketInv'
<1>1. c \in Procs /\ pc[c] = "leased" /\ "leased" \in Leasing /\ "ping" \in Leasing
  BY DEF Procs, LeasePing, Goto, Leasing
<1>2. own[c] # NoConn /\ own[c] \in Conns /\ pc'[c] = "ping" /\ own' = own
  BY <1>1, Owner DEF LeasePing, Goto, SocketInv, SocketTypes, PcTypes, pool
<1>3. Quiet(own[c], "greeted")
  BY <1>1, Owner DEF OwnerState
<1>4. /\ OnlyTouches({own[c]}) /\ DOMAIN to' = Conns /\ DOMAIN from' = Conns /\ DOMAIN stage' = Conns
      /\ Exchange(own[c], Ping, "greeted", Pong, "pinged")'
  <2>1. CASE CanWrite(own[c])
    <3>1. Write(own[c], Ping)
      BY <2>1 DEF LeasePing
    <3>2. /\ to'[own[c]] = <<Ping>> /\ from'[own[c]] = <<>> /\ stage'[own[c]] = "greeted"
          /\ OnlyTouches({own[c]})
          /\ DOMAIN to' = Conns /\ DOMAIN from' = Conns /\ DOMAIN stage' = Conns
      BY <1>2, <1>3, <2>1, <3>1, WritesLine DEF Quiet, CanWrite
    <3> QED
      BY <1>2, <3>2 DEF Exchange, Ping
  <2>2. CASE ~CanWrite(own[c])
    BY <1>2, <1>3, <2>2 DEF LeasePing, wire, OnlyTouches, Quiet, CanWrite, Exchange, SocketInv, SocketTypes
  <2> QED
    BY <2>1, <2>2
<1>5. OwnerState(c)'
  BY <1>2, <1>4 DEF OwnerState
<1> QED
  BY <1>1, <1>2, <1>4, <1>5, MovesWithSocket DEF LeasePing, history, pool

LEMMA SendKeeps ==
  ASSUME SocketInv, NEW c \in Callers, Send(c)
  PROVE  SocketInv'
<1>1. c \in Procs /\ pc[c] = "pinged" /\ "pinged" \in Leasing /\ "await" \in Leasing
  BY DEF Procs, Send, Goto, Leasing
<1>2. own[c] # NoConn /\ own[c] \in Conns /\ pc'[c] = "await" /\ own' = own /\ call' = call
  BY <1>1, Owner DEF Send, Goto, SocketInv, SocketTypes, PcTypes, pool
<1>3. Quiet(own[c], "pinged") /\ Write(own[c], Request(call[c].id))
  BY <1>1, Owner DEF OwnerState, Send
<1>4. /\ to'[own[c]] = <<Request(call[c].id)>> /\ from'[own[c]] = <<>> /\ stage'[own[c]] = "pinged"
      /\ OnlyTouches({own[c]})
      /\ DOMAIN to' = Conns /\ DOMAIN from' = Conns /\ DOMAIN stage' = Conns
  BY <1>2, <1>3, WritesLine DEF Quiet, Write, CanWrite
<1>5. OwnerState(c)'
  BY <1>2, <1>4 DEF OwnerState, Exchange, Request, Response
<1> QED
  BY <1>1, <1>2, <1>4, <1>5, MovesWithSocket DEF Send, pool

LEMMA FailuresKeep ==
  ASSUME SocketInv, NEW p \in Procs,
         \/ HandshakeFails(p)
         \/ p \in Callers /\ (PingFails(p) \/ PingFailsLate(p) \/ SendFails(p) \/ AnswerLost(p))
  PROVE  SocketInv'
<1>1. /\ "handshake" \notin NotOwning /\ {"idle", "loop", "retry", "sleep", "check"} \subseteq NotOwning
      /\ {"ping", "pinged", "await"} \subseteq Leasing
  BY DEF NotOwning, States, Acquiring, Leasing
<1>2. CASE HandshakeFails(p)
  <2>1. Answers' /\ \A q \in Callers : call'[q] = call[q]
    BY <1>2, AnswersUnchanged DEF HandshakeFails, history
  <2>2. CASE p = Worker
    BY <1>1, <1>2, <2>1, <2>2, DropsSocket DEF HandshakeFails, pool
  <2>3. CASE p # Worker
    BY <1>1, <1>2, <2>1, <2>3, DropsSocket DEF HandshakeFails, pool
  <2> QED
    BY <2>2, <2>3
<1>3. CASE p \in Callers /\ PingFails(p)
  <2>1. Answers' /\ \A q \in Callers : call'[q] = call[q]
    BY <1>3, AnswersUnchanged DEF PingFails, history
  <2> QED
    BY <1>1, <1>3, <2>1, DropsSocket DEF PingFails, Discard
<1>4. ASSUME p \in Callers, NEW a \in {"ping", "pinged", "await"}, NEW outcome, outcome # "crossed",
             End(p, a, outcome), Discard(p)
      PROVE  SocketInv'
  <2>1. Answers' /\ \A q \in Callers \ {p} : call'[q] = call[q]
    BY <1>4, EndKeepsAnswers DEF Answers, Procs
  <2> QED
    BY <1>1, <1>4, <2>1, DropsSocket DEF End, Discard
<1>5. CASE p \in Callers /\ PingFailsLate(p)
  BY <1>4, <1>5 DEF PingFailsLate
<1>6. CASE p \in Callers /\ SendFails(p)
  BY <1>4, <1>6 DEF SendFails
<1>7. CASE p \in Callers /\ AnswerLost(p)
  BY <1>4, <1>7 DEF AnswerLost
<1> QED
  BY <1>2, <1>3, <1>5, <1>6, <1>7

(* A lease that ends before anything was written to its connection.        *)
LEMMA ReturnsKeep ==
  ASSUME SocketInv, NEW c \in Callers, CheckHost(c) \/ LeasedLate(c)
  PROVE  SocketInv'
<1>1. PICK outcome \in {"running", "not_found"} :
        /\ End(c, "leased", outcome) /\ GiveBack(c) /\ UNCHANGED wire
  BY DEF CheckHost, LeasedLate
<1>2. c \in Procs /\ pc[c] = "leased" /\ "leased" \in Leasing /\ "idle" \in NotOwning
  BY <1>1 DEF Procs, End, Goto, Leasing, NotOwning, States
<1>3. Answers' /\ \A q \in Callers \ {c} : call'[q] = call[q]
  BY <1>1, EndKeepsAnswers DEF Answers, Procs
<1>4. Quiet(own[c], "greeted")
  BY <1>2, Owner DEF OwnerState
<1>5. OnlyTouches({own[c]}) /\ \A k \in Conns : k = own[c] => Quiet(k, "greeted")'
  BY <1>1, <1>4, SameQuiet DEF OnlyTouches, wire
<1>6. DOMAIN to' = Conns /\ DOMAIN from' = Conns /\ DOMAIN stage' = Conns
  BY <1>1 DEF wire, SocketInv, SocketTypes
<1> QED
  BY <1>1, <1>2, <1>3, <1>5, <1>6, ReturnsSocket DEF End, GiveBack

(* The response that is there is the one to the caller's own request.      *)
LEMMA AnswerKeeps ==
  ASSUME SocketInv, NEW c \in Callers, Answer(c)
  PROVE  SocketInv'
<1>1. /\ c \in Procs /\ pc[c] = "await" /\ "await" \in Leasing /\ "idle" \in NotOwning
      /\ from[own[c]] # <<>> /\ ReadLine(own[c]) /\ GiveBack(c)
  BY DEF Answer, Procs, Leasing, NotOwning, States
<1>2. own[c] \in Conns /\ OwnerState(c)
  BY <1>1, Owner
<1>3. /\ from[own[c]] = <<Response(call[c].id)>> /\ to[own[c]] = <<>>
      /\ stage[own[c]] \in {"greeted", "closed"}
  BY <1>1, <1>2 DEF OwnerState, Exchange
<1>4. End(c, "await", "answered")
  BY <1>3, Lines DEF Answer
<1>5. Answers' /\ \A q \in Callers \ {c} : call'[q] = call[q]
  BY <1>4, EndKeepsAnswers DEF Answers, Procs
<1>6. /\ from'[own[c]] = <<>> /\ to'[own[c]] = <<>> /\ stage'[own[c]] \in {"greeted", "closed"}
      /\ OnlyTouches({own[c]})
      /\ DOMAIN to' = Conns /\ DOMAIN from' = Conns /\ DOMAIN stage' = Conns
  BY <1>1, <1>2, <1>3, ReadsOnly
<1>7. \A k \in Conns : k = own[c] => Quiet(k, "greeted")'
  BY <1>6 DEF Quiet
<1> QED
  BY <1>1, <1>4, <1>5, <1>6, <1>7, ReturnsSocket DEF End, GiveBack

LEMMA PopsKeep ==
  ASSUME SocketInv, NEW c \in Callers, Pop(c)
  PROVE  SocketInv'
<1>1. PICK i \in 1 .. Len(idle) :
        /\ Goto(c, "loop", "leased")
        /\ own' = [own EXCEPT ![c] = idle[i]]
        /\ idle' = SubSeq(idle, 1, i - 1)
        /\ Close(Above(i))
  BY DEF Pop
<1>2. UNCHANGED <<call, result, refused>>
  BY DEF Pop, history
<1>3. /\ c \in Procs /\ "leased" \in States /\ "leased" \in Leasing /\ "loop" \in NotOwning
  BY DEF Procs, States, Leasing, NotOwning, Acquiring
<1>4. PcTypes' /\ pc[c] = "loop" /\ pc'[c] = "leased" /\ \A q \in Procs \ {c} : pc'[q] = pc[q]
  BY <1>1, <1>3, ProcMoves DEF SocketInv, SocketTypes
<1>5. /\ idle' \in Seq(Conns) /\ idle[i] \in Conns /\ idle[i] \in IdleSet
      /\ Above(i) \subseteq IdleSet /\ idle[i] \notin Above(i)
      /\ IdleSet' = (IdleSet \ Above(i)) \ {idle[i]}
      /\ \A j, k \in 1 .. Len(idle') : idle'[j] = idle'[k] => j = k
  BY <1>1, PopKeeps
<1>6. Answers' /\ \A q \in Callers : call'[q] = call[q]
  BY <1>2, AnswersUnchanged
<1>7. SocketTypes' /\ OnlyMoves(c) /\ own[c] = NoConn /\ own'[c] = idle[i]
  BY <1>1, <1>3, <1>4, <1>5, <1>6, CloseTypes, NotOwner
  DEF SocketInv, SocketTypes, OnlyMoves, Answers
<1>8. idle[i] # NoConn
  BY <1>5, McpPoolAssumption
<1>9. Ownership' /\ InFlight'
  <2>1. /\ Above(i) \in SUBSET IdleSet /\ Close(Above(i))
        /\ IdleSet' = (IdleSet \ Above(i)) \ {own'[c]}
        /\ own'[c] \in (IdleSet \ Above(i)) \cup {NoConn}
    BY <1>1, <1>5, <1>7
  <2>2. IF own'[c] = NoConn THEN pc'[c] \notin {"handshake"} \cup Leasing ELSE pc'[c] = "leased"
    BY <1>4, <1>7, <1>8
  <2> QED
    BY <1>3, <1>5, <1>7, <2>1, <2>2, PoolShrinks
<1> QED
  BY <1>6, <1>7, <1>9 DEF SocketInv, Answers

(* Connections K of the pool turn out to be disconnected.                  *)
LEMMA SweepKeeps ==
  ASSUME SocketInv, NEW p \in Procs, NEW a \in NotOwning, NEW b \in NotOwning, Goto(p, a, b),
         own' = own, NEW K \in SUBSET IdleSet, Close(K),
         idle' \in Seq(Conns), IdleSet' = IdleSet \ K,
         \A i, j \in 1 .. Len(idle') : idle'[i] = idle'[j] => i = j,
         Answers', \A q \in Callers \ {p} : call'[q] = call[q]
  PROVE  SocketInv'
<1>1. PcTypes' /\ pc[p] = a /\ pc'[p] = b /\ \A q \in Procs \ {p} : pc'[q] = pc[q]
  BY ProcMoves DEF SocketInv, SocketTypes, NotOwning
<1>2. SocketTypes' /\ OnlyMoves(p) /\ own[p] = NoConn /\ own'[p] = NoConn
  BY <1>1, CloseTypes, NotOwner DEF SocketInv, SocketTypes, OnlyMoves, Answers
<1>3. NoConn \notin IdleSet
  BY OpenSets, McpPoolAssumption DEF SocketInv
<1>4. Ownership' /\ InFlight'
  <2>1. /\ IdleSet' = (IdleSet \ K) \ {own'[p]} /\ own'[p] \in (IdleSet \ K) \cup {NoConn}
        /\ IF own'[p] = NoConn THEN pc'[p] \notin {"handshake"} \cup Leasing ELSE pc'[p] = "leased"
    BY <1>1, <1>2, <1>3 DEF NotOwning
  <2> QED
    BY <1>2, <2>1, PoolShrinks
<1> QED
  BY <1>2, <1>4 DEF SocketInv, Answers

LEMMA SweepsKeep ==
  ASSUME SocketInv, WorkerChecks \/ \E c \in Callers : NoneIdle(c) \/ NoneIdleLate(c)
  PROVE  SocketInv'
<1>1. {"check", "sleep", "connect", "loop", "idle"} \subseteq NotOwning
  BY DEF NotOwning, States, Acquiring, Leasing
<1>2. CASE WorkerChecks
  <2>0. DOMAIN idle = 1 .. Len(idle)
    BY DEF SocketInv, SocketTypes
  <2>1. PICK live : /\ live = {i \in 1 .. Len(idle) : ~IsDisconnected(idle[i])}
                    /\ Goto(Worker, "check", IF live # {} \/ active # 0 THEN "sleep" ELSE "connect")
                    /\ idle' = SelectAt(idle, live)
    <3> DEFINE L == {i \in DOMAIN idle : ~IsDisconnected(idle[i])}
    <3>1. L = {i \in 1 .. Len(idle) : ~IsDisconnected(idle[i])}
      BY <2>0
    <3>2. /\ Goto(Worker, "check", IF L # {} \/ active # 0 THEN "sleep" ELSE "connect")
          /\ idle' = SelectAt(idle, L)
      BY <1>2 DEF WorkerChecks
    <3> HIDE DEF L
    <3> QED
      BY <3>1, <3>2
  <2>2. Close({k \in IdleSet : IsDisconnected(k)}) /\ own' = own /\ UNCHANGED <<call, result, refused>>
    BY <1>2 DEF WorkerChecks, history
  <2>3. Answers' /\ \A q \in Callers : call'[q] = call[q]
    BY <2>2, AnswersUnchanged
  <2>4. /\ idle' \in Seq(Conns)
        /\ IdleSet' = IdleSet \ {k \in IdleSet : IsDisconnected(k)}
        /\ \A j, k \in 1 .. Len(idle') : idle'[j] = idle'[k] => j = k
    BY <2>1, RetainKeeps
  <2>5. PICK b \in {"sleep", "connect"} : Goto(Worker, "check", b)
    BY <2>1
  <2>6. Worker \in Procs
    BY DEF Procs
  <2> QED
    BY <1>1, <2>2, <2>3, <2>4, <2>5, <2>6, SweepKeeps
<1>3. ASSUME idle' = <<>>
      PROVE  /\ idle' \in Seq(Conns) /\ IdleSet' = IdleSet \ IdleSet
             /\ \A j, k \in 1 .. Len(idle') : idle'[j] = idle'[k] => j = k
  BY <1>3, EmptySeq DEF IdleSet
<1>4. ASSUME NEW c \in Callers, NoneIdle(c) PROVE SocketInv'
  <2>1. /\ c \in Procs /\ Goto(c, "loop", "connect") /\ Close(IdleSet) /\ own' = own /\ idle' = <<>>
        /\ UNCHANGED <<call, result, refused>>
    BY <1>4 DEF NoneIdle, history, Procs
  <2>2. Answers' /\ \A q \in Callers : call'[q] = call[q]
    BY <2>1, AnswersUnchanged
  <2> QED
    BY <1>1, <1>3, <2>1, <2>2, SweepKeeps
<1>5. ASSUME NEW c \in Callers, NoneIdleLate(c) PROVE SocketInv'
  <2>1. /\ c \in Procs /\ End(c, "loop", "not_found") /\ Close(IdleSet) /\ own' = own /\ idle' = <<>>
    BY <1>5 DEF NoneIdleLate, Procs
  <2>2. Answers' /\ \A q \in Callers \ {c} : call'[q] = call[q]
    BY <2>1, EndKeepsAnswers DEF Answers, Procs
  <2>3. Goto(c, "loop", "idle")
    BY <2>1 DEF End
  <2> QED
    BY <1>1, <1>3, <2>1, <2>2, <2>3, SweepKeeps
<1> QED
  BY <1>2, <1>4, <1>5

(* Steps without a socket.                                                 *)
LEMMA WaitsKeep ==
  ASSUME SocketInv,
         \/ \E p \in Procs : ConnectRefused(p)
         \/ \E c \in Callers : RetryIdle(c) \/ RetryLate(c) \/ RetrySleeps(c) \/ Wakes(c)
         \/ \E c \in Callers : \E tool \in {"exec", "check_host"} : Call(c, tool)
         \/ WorkerWakes
  PROVE  SocketInv'
<1>1. {"check", "sleep", "connect", "loop", "idle", "retry"} \subseteq NotOwning
  BY DEF NotOwning, States, Acquiring, Leasing
<1>2. ASSUME NEW p \in Procs, NEW a \in {"check", "sleep", "connect", "loop", "retry"},
             NEW b \in {"check", "sleep", "loop", "retry"}, Goto(p, a, b),
             UNCHANGED <<pool, own, call, wire, history>>
      PROVE  SocketInv'
  <2>1. Answers' /\ \A q \in Callers : call'[q] = call[q]
    BY <1>2, AnswersUnchanged DEF history
  <2>2. UNCHANGED <<idle, own, wire>>
    BY <1>2 DEF pool
  <2> QED
    BY <1>1, <1>2, <2>1, <2>2, MovesWithoutSocket
<1>3. ASSUME NEW p \in Procs, ConnectRefused(p) PROVE SocketInv'
  <2>1. PICK b \in {"sleep", "retry"} : Goto(p, "connect", b)
    BY <1>3 DEF ConnectRefused
  <2>2. UNCHANGED <<pool, own, call, wire, history>>
    BY <1>3 DEF ConnectRefused
  <2> QED
    BY <1>2, <2>1, <2>2
<1>4. ASSUME NEW c \in Callers, RetryLate(c) PROVE SocketInv'
  <2>1. Answers' /\ \A q \in Callers \ {c} : call'[q] = call[q]
    BY <1>4, EndKeepsAnswers DEF RetryLate, Answers, Procs
  <2>2. Goto(c, "retry", "idle") /\ UNCHANGED <<idle, own, wire>> /\ c \in Procs
    BY <1>4 DEF RetryLate, End, pool, Procs
  <2> QED
    BY <1>1, <2>1, <2>2, MovesWithoutSocket
<1>5. ASSUME NEW c \in Callers, NEW tool, Call(c, tool) PROVE SocketInv'
  <2>1. Answers' /\ \A q \in Callers \ {c} : call'[q] = call[q]
    BY <1>5 DEF Call, Answers, SocketInv, SocketTypes, OwnAnswer, NeverRefused, history
  <2>2. Goto(c, "idle", "loop") /\ UNCHANGED <<idle, own, wire>> /\ c \in Procs
    BY <1>5 DEF Call, pool, Procs
  <2> QED
    BY <1>1, <2>1, <2>2, MovesWithoutSocket
<1>6. ASSUME NEW c \in Callers, RetryIdle(c) \/ RetrySleeps(c) \/ Wakes(c) PROVE SocketInv'
  <2>1. UNCHANGED <<pool, own, call, wire, history>>
    BY <1>6 DEF RetryIdle, RetrySleeps, Wakes
  <2>2. c \in Procs /\ (Goto(c, "retry", "loop") \/ Goto(c, "retry", "sleep") \/ Goto(c, "sleep", "loop"))
    BY <1>6 DEF RetryIdle, RetrySleeps, Wakes, Procs
  <2> QED
    BY <1>2, <2>1, <2>2
<1>7. CASE WorkerWakes
  <2>1. UNCHANGED <<pool, own, call, wire, history>> /\ Goto(Worker, "sleep", "check") /\ Worker \in Procs
    BY <1>7 DEF WorkerWakes, Procs
  <2> QED
    BY <1>2, <2>1
<1> QED
  BY <1>3, <1>4, <1>5, <1>6, <1>7

(* Nobody moves and no socket changes.                                     *)
LEMMA StillKeeps ==
  ASSUME SocketInv, UNCHANGED <<idle, pc, own, call, wire, result, refused>>
  PROVE  SocketInv'
<1>1. SocketTypes'
  BY DEF SocketInv, SocketTypes, PcTypes, wire
<1>2. IdleSet' = IdleSet /\ Held' = Held /\ Open' = Open
  BY DEF IdleSet, Held, Open
<1>3. Ownership'
  BY <1>2 DEF SocketInv, Ownership
<1>4. \A p \in Procs : own[p] # NoConn => OwnerState(p)'
  BY SameOwnerState DEF SocketInv, InFlight, wire
<1>5. InFlight'
  BY <1>2, <1>4 DEF SocketInv, InFlight, Quiet, wire
<1> QED
  BY <1>1, <1>3, <1>5, AnswersKept DEF SocketInv

(* A line that the host reads is the one its owner waits to be answered.   *)
LEMMA LineIsOwned ==
  ASSUME SocketInv, NEW k \in Conns, to[k] # <<>>
  PROVE  \E p \in Procs : own[p] = k /\ own[p] # NoConn /\ OwnerState(p)
<1>1. k \notin IdleSet /\ k \in Open
  BY DEF SocketInv, InFlight, Quiet
<1>2. PICK p \in Procs : own[p] = k
  BY <1>1, OpenSets DEF SocketInv, Open
<1>3. own[p] # NoConn
  BY <1>2, McpPoolAssumption
<1> QED
  BY <1>2, <1>3 DEF SocketInv, InFlight

(* The handler reads a line that a caller waits to be answered.            *)
LEMMA HostReadsKeeps ==
  ASSUME SocketInv, NEW p \in Procs, own[p] # NoConn, NEW s, NEW reply,
         HostReads(own[p], s, <<reply>>), from[own[p]] = <<>>, NEW line, to[own[p]] = <<line>>,
         NeverRefused',
         to'[own[p]] = <<>> /\ from'[own[p]] = <<reply>> /\ stage'[own[p]] = s => OwnerState(p)'
  PROVE  SocketInv'
<1>1. own[p] \in Conns
  BY DEF SocketInv, SocketTypes
<1>2. /\ UNCHANGED <<pool, procs, result>>
      /\ to' = [to EXCEPT ![own[p]] = Tail(@)]
      /\ stage' = [stage EXCEPT ![own[p]] = s]
      /\ from' = [from EXCEPT ![own[p]] = @ \o <<reply>>]
  BY DEF HostReads
<1>3. /\ to'[own[p]] = <<>> /\ from'[own[p]] = <<reply>> /\ stage'[own[p]] = s
      /\ DOMAIN to' = Conns /\ DOMAIN from' = Conns /\ DOMAIN stage' = Conns
      /\ OnlyTouches({own[p]})
  BY <1>1, <1>2, Lines DEF SocketInv, SocketTypes, OnlyTouches
<1>4. /\ UNCHANGED <<idle, pc, own, call, result>>
      /\ SocketTypes' /\ OnlyMoves(p) /\ OwnAnswer'
  BY <1>2, <1>3 DEF SocketInv, SocketTypes, PcTypes, OnlyMoves, OwnAnswer, pool, procs
<1>5. own[p] # NoConn <=> pc'[p] \in {"handshake"} \cup Leasing
  BY <1>4 DEF SocketInv, Ownership
<1>6. Ownership' /\ InFlight'
  BY <1>3, <1>4, <1>5, OwnerGoesOn
<1> QED
  BY <1>4, <1>6 DEF SocketInv

LEMMA HostServesKeeps ==
  ASSUME SocketInv, HostServes
  PROVE  SocketInv'
<1>1. ASSUME NEW k \in Conns, HostPong(k) PROVE SocketInv'
  <2>1. PICK p \in Procs : own[p] = k /\ own[p] # NoConn /\ OwnerState(p)
    BY <1>1, LineIsOwned DEF HostPong
  <2>2. HostReads(own[p], IF stage[own[p]] = "new" THEN "greeted" ELSE "pinged", <<Pong>>)
    BY <1>1, <2>1 DEF HostPong
  <2>3. /\ to[own[p]] = <<Ping>> /\ from[own[p]] = <<>>
        /\ \/ pc[p] = "handshake" /\ stage[own[p]] = "new"
           \/ pc[p] = "ping" /\ stage[own[p]] = "greeted"
    BY <1>1, <2>1, Lines DEF HostPong, OwnerState, Exchange, Quiet, Ping, Request
  <2>4. pc' = pc /\ own' = own /\ NeverRefused'
    BY <1>1 DEF HostPong, HostReads, procs, SocketInv, NeverRefused
  <2>5. PICK s : /\ s = (IF stage[own[p]] = "new" THEN "greeted" ELSE "pinged")
                 /\ HostReads(own[p], s, <<Pong>>)
    BY <2>2
  <2>6. to'[own[p]] = <<>> /\ from'[own[p]] = <<Pong>> /\ stage'[own[p]] = s => OwnerState(p)'
    BY <2>3, <2>4, <2>5 DEF OwnerState, Exchange, Pong
  <2> QED
    BY <2>1, <2>3, <2>4, <2>5, <2>6, HostReadsKeeps
<1>2. ASSUME NEW k \in Conns, HostAnswers(k) PROVE SocketInv'
  <2>1. PICK p \in Procs : own[p] = k /\ own[p] # NoConn /\ OwnerState(p)
    BY <1>2, LineIsOwned DEF HostAnswers
  <2>2. /\ to[own[p]] = <<Request(call[p].id)>> /\ from[own[p]] = <<>>
        /\ pc[p] = "await" /\ stage[own[p]] = "pinged" /\ p \in Callers
    BY <1>2, <2>1, Lines DEF HostAnswers, OwnerState, Exchange, Quiet, Ping, Request
  <2>3. Head(to[own[p]])[2] = call[p].id
    BY <2>2, Lines DEF Request
  <2>4. HostReads(own[p], "greeted", <<Response(call[p].id)>>) /\ NeverRefused'
    <3>1. HostReads(own[p], "greeted", <<Response(call[p].id)>>)
      BY <1>2, <2>1, <2>2, <2>3, SMT DEF HostAnswers
    <3>2. NeverRefused'
      BY <1>2, <2>1, <2>2 DEF HostAnswers, SocketInv, NeverRefused
    <3> QED
      BY <3>1, <3>2
  <2>5. pc' = pc /\ own' = own /\ call' = call
    BY <2>4 DEF HostReads, procs
  <2>6. to'[own[p]] = <<>> /\ from'[own[p]] = <<Response(call[p].id)>> /\ stage'[own[p]] = "greeted"
          => OwnerState(p)'
    BY <2>2, <2>5 DEF OwnerState, Exchange, Response
  <2> QED
    BY <2>1, <2>2, <2>4, <2>6, HostReadsKeeps
<1> QED
  BY <1>1, <1>2 DEF HostServes

(* Lines on their way to a host that dies are lost; replies are not.       *)
LEMMA HostCrashKeeps ==
  ASSUME SocketInv, HostCrash
  PROVE  SocketInv'
<1>1. /\ to' = [k \in Conns |-> <<>>] /\ stage' = [k \in Conns |-> "closed"] /\ from' = from
      /\ UNCHANGED <<idle, pc, own, call, result, refused>>
  BY DEF HostCrash, pool, procs, history
<1>2. SocketTypes'
  BY <1>1 DEF SocketInv, SocketTypes, PcTypes
<1>3. IdleSet' = IdleSet /\ Held' = Held /\ Open' = Open
  BY <1>1 DEF IdleSet, Held, Open
<1>4. Ownership'
  BY <1>1, <1>3 DEF SocketInv, Ownership
<1>5. ASSUME NEW p \in Procs, own[p] # NoConn PROVE OwnerState(p)'
  <2>1. own[p] \in Conns /\ OwnerState(p)
    BY <1>5 DEF SocketInv, SocketTypes, InFlight
  <2>2. to'[own[p]] = <<>> /\ stage'[own[p]] = "closed" /\ from'[own[p]] = from[own[p]]
    BY <1>1, <2>1
  <2> QED
    BY <1>1, <2>1, <2>2 DEF OwnerState, Exchange, Quiet, Ping, Pong, Request, Response
<1>6. IdleSet \subseteq Conns
  BY OpenSets DEF SocketInv
<1>7. InFlight'
  BY <1>1, <1>3, <1>5, <1>6 DEF SocketInv, InFlight, Quiet
<1> QED
  BY <1>1, <1>2, <1>4, <1>7, AnswersKept DEF SocketInv

-----------------------------------------------------------------------------
(* The invariant and what it implies.                                      *)

LEMMA SocketInit ==
  ASSUME Init
  PROVE  SocketInv
<1>1. SocketTypes
  BY EmptySeq DEF Init, SocketTypes, PcTypes, States, Acquiring, Procs
<1>2. \A p \in Procs : own[p] = NoConn /\ pc[p] \notin {"handshake"} \cup Leasing
  BY DEF Init, Leasing
<1>3. IdleSet = {}
  BY DEF Init, IdleSet
<1>4. Ownership
  BY <1>2, <1>3 DEF Ownership, Init
<1>5. InFlight
  BY <1>2, <1>3 DEF InFlight, Init, Quiet
<1>6. OwnAnswer /\ NeverRefused
  BY DEF Init, OwnAnswer, NeverRefused
<1> QED
  BY <1>1, <1>4, <1>5, <1>6 DEF SocketInv

LEMMA SocketNext ==
  ASSUME SocketInv, [Next]_vars
  PROVE  SocketInv'
<1>1. CASE UNCHANGED vars
  BY <1>1, StillKeeps DEF vars, pool, procs, history
<1>2. ASSUME NEW c \in Callers, DeadlinePasses(c) PROVE SocketInv'
  BY <1>2, StillKeeps DEF DeadlinePasses, pool, history
<1>3. CASE HostStart \/ HostSuspend \/ HostResume
  BY <1>3, StillKeeps DEF HostStart, HostSuspend, HostResume, pool, procs, history
<1>4. Worker \in Procs /\ Callers \subseteq Procs
  BY DEF Procs
<1>5. ASSUME NEW c \in Callers, CallerStep(c) PROVE SocketInv'
  BY <1>4, <1>5, PopsKeep, SweepsKeep, ConnectsKeeps, WaitsKeep, FailuresKeep, GreetedKeeps,
     ReturnsKeep, LeasePingKeeps, PingPongKeeps, SendKeeps, AnswerKeeps
  DEF CallerStep
<1>6. CASE WorkerStep
  BY <1>4, <1>6, SweepsKeep, WaitsKeep, GreetedKeeps, ConnectsKeeps, FailuresKeep DEF WorkerStep
<1> QED
  BY <1>1, <1>2, <1>3, <1>5, <1>6, WaitsKeep, HostServesKeeps, HostCrashKeeps DEF Next

LEMMA SocketsAlways == Spec => []SocketInv
BY SocketInit, SocketNext, PTL DEF Spec

(* The connections of the pool are clean: nobody's, there once, and with   *)
(* nothing in flight in either direction, whatever ping failed or host     *)
(* died while they were leased (ConnectionLease::drop, mcp.rs).            *)
THEOREM PoolIsClean == Spec => []IdleClean
<1>1. SocketInv => IdleClean
  <2> SUFFICES ASSUME SocketInv PROVE IdleClean
    OBVIOUS
  <2>1. \A k \in IdleSet : k \in Conns /\ to[k] = <<>> /\ from[k] = <<>>
    BY OpenSets DEF SocketInv, InFlight, Quiet
  <2>2. \A k \in IdleSet : k \notin Held
    BY <2>1, OpenSets DEF SocketInv, Ownership
  <2> QED
    BY <2>1, <2>2 DEF SocketInv, Ownership, IdleClean
<1> QED
  BY <1>1, SocketsAlways, PTL

(* A caller is only ever given the response to its own request: a response *)
(* can only be read on the connection it was asked for on, by the caller   *)
(* that asked, however often that connection was used before.              *)
THEOREM AnswersAreOwn == Spec => []OwnAnswer
BY SocketsAlways, PTL DEF SocketInv

(* No handler of the host ever meets a request that its command ping did   *)
(* not announce, on no connection that was reused (host.rs command_pinged).*)
THEOREM RequestsAreAnnounced == Spec => []NeverRefused
BY SocketsAlways, PTL DEF SocketInv

-----------------------------------------------------------------------------
(* The number of sockets.  A process that has found the pool empty will    *)
(* open one, without looking again: it counts as if it had.  Whoever comes *)
(* to that point leaves the pool empty, and then every socket there is has *)
(* an owner of its own.                                                    *)
Connecting == {p \in Procs : pc[p] = "connect"}

Room ==
  /\ IsFiniteSet(Open)
  /\ Cardinality(Open) + Cardinality(Connecting) <= Cardinality(Procs)

LEMMA ProcsFinite ==
  /\ IsFiniteSet(Procs) /\ Cardinality(Procs) = Cardinality(Callers) + 1
  /\ Cardinality(Procs) \in Nat
  /\ IsFiniteSet(Connecting) /\ Cardinality(Connecting) \in Nat
<1>1. IsFiniteSet(Procs) /\ Cardinality(Procs) = Cardinality(Callers) + 1
  BY FS_AddElement DEF Procs
<1>2. Connecting \in SUBSET Procs
  BY DEF Connecting
<1> QED
  BY <1>1, <1>2, FS_Subset, FS_CardinalityType

(* Neither sockets nor claims to one are added.                            *)
LEMMA RoomShrinks ==
  ASSUME Room, Open' \subseteq Open, Connecting' \subseteq Connecting
  PROVE  Room'
<1>1. /\ IsFiniteSet(Open') /\ Cardinality(Open') <= Cardinality(Open)
      /\ Cardinality(Open') \in Nat /\ Cardinality(Open) \in Nat
  BY FS_Subset, FS_CardinalityType DEF Room
<1>2. /\ Cardinality(Connecting') <= Cardinality(Connecting)
      /\ Cardinality(Connecting') \in Nat /\ Cardinality(Connecting) \in Nat
  BY ProcsFinite, FS_Subset, FS_CardinalityType
<1>3. Cardinality(Procs)' = Cardinality(Procs) /\ Cardinality(Procs) \in Nat
  BY ProcsFinite DEF Procs
<1> QED
  BY <1>1, <1>2, <1>3 DEF Room

(* A claim becomes a socket.                                               *)
LEMMA RoomTaken ==
  ASSUME SocketInv, Room, NEW p \in Procs, Connects(p)
  PROVE  Room'
<1>1. Goto(p, "connect", "handshake") /\ idle' = idle
  BY DEF Connects, pool
<1>2. PICK k \in Conns \ Open : own' = [own EXCEPT ![p] = k]
  BY DEF Connects
<1>3. /\ pc[p] = "connect" /\ pc'[p] = "handshake" /\ \A q \in Procs \ {p} : pc'[q] = pc[q]
      /\ own[p] = NoConn
  BY <1>1, ProcMoves, NotOwner DEF SocketInv, SocketTypes, States, Acquiring, NotOwning, Leasing
<1>4. Open' \subseteq Open \cup {k}
  <2>1. IdleSet' = IdleSet
    BY <1>1 DEF IdleSet
  <2>2. Held' \subseteq Held \cup {k}
    BY <1>2 DEF Held, SocketInv, SocketTypes
  <2> QED
    BY <2>1, <2>2 DEF Open
<1>5. Connecting' = Connecting \ {p} /\ p \in Connecting
  BY <1>3 DEF Connecting, Procs
<1>6. /\ IsFiniteSet(Open') /\ Cardinality(Open') <= Cardinality(Open) + 1
      /\ Cardinality(Open') \in Nat /\ Cardinality(Open) \in Nat
  <2>1. IsFiniteSet(Open \cup {k}) /\ Cardinality(Open \cup {k}) <= Cardinality(Open) + 1
    <3>1. IsFiniteSet(Open) /\ Cardinality(Open) \in Nat
      BY FS_CardinalityType DEF Room
    <3>2. /\ IsFiniteSet(Open \cup {k})
          /\ Cardinality(Open \cup {k})
               = IF k \in Open THEN Cardinality(Open) ELSE Cardinality(Open) + 1
      BY <3>1, FS_AddElement, Zenon
    <3> QED
      BY <3>1, <3>2
  <2>2. IsFiniteSet(Open') /\ Cardinality(Open') <= Cardinality(Open \cup {k})
    BY <1>4, <2>1, FS_Subset
  <2> QED
    BY <2>1, <2>2, FS_CardinalityType DEF Room
<1>7. /\ Cardinality(Connecting') = Cardinality(Connecting) - 1
      /\ Cardinality(Connecting') \in Nat /\ Cardinality(Connecting) \in Nat
  BY <1>5, ProcsFinite, FS_RemoveElement, FS_CardinalityType
<1>8. Cardinality(Procs)' = Cardinality(Procs) /\ Cardinality(Procs) \in Nat
  BY ProcsFinite DEF Procs
<1> QED
  BY <1>6, <1>7, <1>8 DEF Room

(* With an empty pool, sockets and claims are counted by who has them.     *)
LEMMA RoomWhenEmpty == SocketInv /\ idle = <<>> => Room
<1> SUFFICES ASSUME SocketInv, idle = <<>> PROVE Room
  OBVIOUS
<1> DEFINE Owners == {p \in Procs : own[p] # NoConn}
           f == [p \in Owners |-> own[p]]
<1>1. IsFiniteSet(Owners) /\ Cardinality(Owners) \in Nat
  BY ProcsFinite, FS_Subset, FS_CardinalityType
<1>2. Open = Held
  BY DEF Open, IdleSet
<1>3. f \in Surjection(Owners, Held)
  <2>1. \A p \in Owners : f[p] \in Held
    BY DEF Held
  <2>2. \A k \in Held : \E p \in Owners : f[p] = k
    BY DEF Held
  <2> QED
    BY <2>1, <2>2 DEF Surjection
<1>4. IsFiniteSet(Held) /\ Cardinality(Held) <= Cardinality(Owners) /\ Cardinality(Held) \in Nat
  BY <1>1, <1>3, FS_Surjection, FS_CardinalityType
<1>5. Owners \cap Connecting = {}
  BY DEF SocketInv, Ownership, Connecting, Leasing
<1>6. Cardinality(Owners \cup Connecting) = Cardinality(Owners) + Cardinality(Connecting)
  <2> HIDE DEF Owners
  <2>1. Cardinality(Owners \cup Connecting)
          = Cardinality(Owners) + Cardinality(Connecting) - Cardinality(Owners \cap Connecting)
    BY <1>1, ProcsFinite, FS_Union
  <2>2. Cardinality(Owners \cap Connecting) = 0
    BY <1>5, FS_EmptySet
  <2> QED
    BY <1>1, <2>1, <2>2, ProcsFinite
<1>7. Cardinality(Owners \cup Connecting) <= Cardinality(Procs)
  BY ProcsFinite, FS_Subset DEF Connecting
<1> HIDE DEF Owners
<1> QED
  BY <1>1, <1>2, <1>4, <1>6, <1>7, ProcsFinite DEF Room

(* The pool was swept, and nothing was left in it.                         *)
LEMMA RoomSwept == (SocketInv /\ idle = <<>>)' => Room'
BY RoomWhenEmpty, PTL

LEMMA ConnectingShrinks ==
  ASSUME SocketInv, NEW p \in Procs, NEW a, NEW b \in States \ {"connect"}, Goto(p, a, b)
  PROVE  Connecting' \subseteq Connecting
BY DEF SocketInv, SocketTypes, PcTypes, Goto, Connecting, Procs

LEMMA OpenShrinks ==
  ASSUME SocketInv, NEW p \in Procs, idle' = idle,
         own' = own \/ own' = [own EXCEPT ![p] = NoConn]
  PROVE  Open' \subseteq Open
<1>1. IdleSet' = IdleSet
  BY DEF IdleSet
<1>2. Held' \subseteq Held
  BY DEF Held, SocketInv, SocketTypes
<1> QED
  BY <1>1, <1>2 DEF Open

LEMMA OpenReturned ==
  ASSUME SocketInv, NEW p \in Procs, own[p] # NoConn, idle' = Append(idle, own[p]),
         own' = [own EXCEPT ![p] = NoConn]
  PROVE  Open' \subseteq Open
<1>1. own[p] \in Conns /\ own[p] \in Held
  BY DEF SocketInv, SocketTypes, Held
<1>2. /\ Len(idle') = Len(idle) + 1 /\ Len(idle) \in Nat
      /\ \A i \in 1 .. Len(idle) : idle'[i] = idle[i]
      /\ idle'[Len(idle) + 1] = own[p]
  BY <1>1, AppendProperties DEF SocketInv, SocketTypes
<1>3. IdleSet' \subseteq IdleSet \cup {own[p]}
  BY <1>2 DEF IdleSet
<1>4. Held' \subseteq Held
  BY DEF Held, SocketInv, SocketTypes
<1> QED
  BY <1>1, <1>3, <1>4 DEF Open

(* A caller that moves, without opening a socket or claiming one.          *)
LEMMA CallersMakeRoom ==
  ASSUME SocketInv, Room, NEW c \in Callers,
         \/ RetryIdle(c) \/ RetryLate(c) \/ RetrySleeps(c) \/ Wakes(c) \/ LeasePing(c)
         \/ PingFails(c) \/ PingFailsLate(c) \/ PingPong(c) \/ Send(c) \/ SendFails(c)
         \/ AnswerLost(c) \/ CallerGreeted(c) \/ HandshakeFails(c) \/ ConnectRefused(c)
         \/ \E tool \in {"exec", "check_host"} : Call(c, tool)
  PROVE  Room'
<1>1. c \in Procs /\ c # Worker
  BY DEF Procs
<1>2. idle' = idle /\ (own' = own \/ own' = [own EXCEPT ![c] = NoConn])
  BY DEF RetryIdle, RetryLate, RetrySleeps, Wakes, LeasePing, PingFails, PingFailsLate, PingPong,
     Send, SendFails, AnswerLost, CallerGreeted, HandshakeFails, ConnectRefused, Call, Discard, pool
<1>3. \E a : \E b \in States \ {"connect"} : Goto(c, a, b)
  BY <1>1 DEF RetryIdle, RetryLate, RetrySleeps, Wakes, LeasePing, PingFails, PingFailsLate, PingPong,
     Send, SendFails, AnswerLost, CallerGreeted, HandshakeFails, ConnectRefused, Call, End,
     States, Acquiring, Leasing
<1>4. Open' \subseteq Open
  BY <1>1, <1>2, OpenShrinks
<1>5. Connecting' \subseteq Connecting
  BY <1>1, <1>3, ConnectingShrinks
<1> QED
  BY <1>4, <1>5, RoomShrinks

LEMMA LeasesMakeRoom ==
  ASSUME SocketInv, Room, NEW c \in Callers, Pop(c) \/ CheckHost(c) \/ LeasedLate(c) \/ Answer(c)
  PROVE  Room'
<1>1. c \in Procs
  BY DEF Procs
<1>2. CASE Pop(c)
  <2>1. PICK i \in 1 .. Len(idle) :
          /\ Goto(c, "loop", "leased")
          /\ own' = [own EXCEPT ![c] = idle[i]]
          /\ idle' = SubSeq(idle, 1, i - 1)
    BY <1>2 DEF Pop
  <2>2. idle[i] \in IdleSet /\ IdleSet' \subseteq IdleSet
    BY <2>1, PopKeeps
  <2>3. Held' \subseteq Held \cup {idle[i]}
    BY <2>1 DEF Held, SocketInv, SocketTypes
  <2>4. Open' \subseteq Open
    BY <2>2, <2>3 DEF Open
  <2>5. Connecting' \subseteq Connecting
    BY <1>1, <2>1, ConnectingShrinks DEF States, Acquiring
  <2> QED
    BY <2>4, <2>5, RoomShrinks
<1>3. CASE CheckHost(c) \/ LeasedLate(c) \/ Answer(c)
  <2>1. PICK a \in {"leased", "await"} : Goto(c, a, "idle") /\ GiveBack(c)
    BY <1>3 DEF CheckHost, LeasedLate, Answer, End
  <2>2. own[c] # NoConn
    BY <1>1, <2>1, Owner DEF Goto, Leasing
  <2>3. Open' \subseteq Open
    BY <1>1, <2>1, <2>2, OpenReturned DEF GiveBack
  <2>4. Connecting' \subseteq Connecting
    BY <1>1, <2>1, ConnectingShrinks DEF States
  <2> QED
    BY <2>3, <2>4, RoomShrinks
<1> QED
  BY <1>2, <1>3

LEMMA WorkerMakesRoom ==
  ASSUME SocketInv, Room, SocketInv', WorkerStep
  PROVE  Room'
<1>1. Worker \in Procs /\ {"sleep", "check"} \subseteq States \ {"connect"}
  BY DEF Procs, States, Acquiring
<1>2. CASE WorkerChecks
  <2>1. PICK live : /\ live = {i \in 1 .. Len(idle) : ~IsDisconnected(idle[i])}
                    /\ Goto(Worker, "check", IF live # {} \/ active # 0 THEN "sleep" ELSE "connect")
                    /\ idle' = SelectAt(idle, live)
    <3> DEFINE L == {i \in DOMAIN idle : ~IsDisconnected(idle[i])}
    <3>1. DOMAIN idle = 1 .. Len(idle)
      BY DEF SocketInv, SocketTypes
    <3>2. L = {i \in 1 .. Len(idle) : ~IsDisconnected(idle[i])}
      BY <3>1
    <3>3. /\ Goto(Worker, "check", IF L # {} \/ active # 0 THEN "sleep" ELSE "connect")
          /\ idle' = SelectAt(idle, L)
      BY <1>2 DEF WorkerChecks
    <3> HIDE DEF L
    <3> QED
      BY <3>2, <3>3
  <2>2. own' = own
    BY <1>2 DEF WorkerChecks
  <2>3. CASE live = {}
    <3>1. idle \in Seq(Conns) /\ live \in SUBSET (1 .. Len(idle))
      BY <2>1 DEF SocketInv, SocketTypes
    <3>2. PICK t, order : t = SelectAt(idle, live) /\ order = Ascending(live) /\ t = idle'
      BY <2>1
    <3>3. idle' = <<>>
      BY <2>3, <3>1, <3>2, SelectionProperties
    <3> QED
      BY <3>3, RoomSwept
  <2>4. CASE live # {}
    <3>1. IdleSet' \subseteq IdleSet
      BY <2>1, RetainKeeps
    <3>2. Open' \subseteq Open
      BY <2>2, <3>1 DEF Open, Held
    <3>3. Goto(Worker, "check", "sleep")
      BY <2>1, <2>4
    <3>4. Connecting' \subseteq Connecting
      BY <1>1, <3>3, ConnectingShrinks
    <3> QED
      BY <3>2, <3>4, RoomShrinks
  <2> QED
    BY <2>3, <2>4
<1>3. CASE WorkerGreeted
  <2>1. Goto(Worker, "handshake", "check")
    BY <1>3 DEF WorkerGreeted
  <2>2. own[Worker] # NoConn
    BY <1>1, <2>1, Owner DEF Goto
  <2>3. Open' \subseteq Open
    BY <1>1, <1>3, <2>2, OpenReturned DEF WorkerGreeted
  <2>4. Connecting' \subseteq Connecting
    BY <1>1, <2>1, ConnectingShrinks
  <2> QED
    BY <2>3, <2>4, RoomShrinks
<1>4. CASE WorkerWakes \/ ConnectRefused(Worker) \/ HandshakeFails(Worker)
  <2>1. idle' = idle /\ (own' = own \/ own' = [own EXCEPT ![Worker] = NoConn])
    BY <1>4 DEF WorkerWakes, ConnectRefused, HandshakeFails, pool
  <2>2. \E a : \E b \in States \ {"connect"} : Goto(Worker, a, b)
    BY <1>1, <1>4 DEF WorkerWakes, ConnectRefused, HandshakeFails
  <2>3. Open' \subseteq Open /\ Connecting' \subseteq Connecting
    BY <1>1, <2>1, <2>2, OpenShrinks, ConnectingShrinks
  <2> QED
    BY <2>3, RoomShrinks
<1> QED
  BY <1>1, <1>2, <1>3, <1>4, RoomTaken DEF WorkerStep

LEMMA RoomInit ==
  ASSUME Init
  PROVE  Room
BY SocketInit, RoomWhenEmpty DEF Init

LEMMA RoomNext ==
  ASSUME SocketInv, Room, [Next]_vars
  PROVE  Room'
<1>1. SocketInv'
  BY SocketNext
<1>2. ASSUME UNCHANGED <<idle, pc, own>> PROVE Room'
  <2>1. Open' \subseteq Open /\ Connecting' \subseteq Connecting
    BY <1>2 DEF Open, IdleSet, Held, Connecting, Procs
  <2> QED
    BY <2>1, RoomShrinks
<1>3. CASE UNCHANGED vars
  BY <1>2, <1>3 DEF vars, pool, procs
<1>4. ASSUME NEW c \in Callers, DeadlinePasses(c) PROVE Room'
  BY <1>2, <1>4 DEF DeadlinePasses, pool
<1>5. CASE HostServes \/ HostCrash \/ HostStart \/ HostSuspend \/ HostResume
  BY <1>2, <1>5 DEF HostServes, HostPong, HostAnswers, HostReads, HostCrash, HostStart,
     HostSuspend, HostResume, pool, procs
<1>6. ASSUME NEW c \in Callers, NoneIdle(c) \/ NoneIdleLate(c) PROVE Room'
  BY <1>1, <1>6, RoomSwept DEF NoneIdle, NoneIdleLate
<1>7. Callers \subseteq Procs
  BY DEF Procs
<1>8. ASSUME NEW c \in Callers, CallerStep(c) PROVE Room'
  BY <1>6, <1>7, <1>8, RoomTaken, CallersMakeRoom, LeasesMakeRoom DEF CallerStep
<1> QED
  BY <1>1, <1>3, <1>4, <1>5, <1>8, WorkerMakesRoom, CallersMakeRoom DEF Next

(* There are never more sockets than callers and worker together could     *)
(* need at one time, though they connect without knowing of each other and *)
(* return to the pool what they opened (mcp.rs ensure_connection, acquire).*)
THEOREM PoolIsBounded == Spec => []PoolBounded
<1>1. ASSUME Room PROVE PoolBounded
  <2>1. Cardinality(Open) \in Nat
    BY <1>1, FS_CardinalityType DEF Room
  <2> QED
    BY <1>1, <2>1, ProcsFinite DEF Room, PoolBounded
<1> QED
  BY <1>1, RoomInit, RoomNext, SocketsAlways, PTL DEF Spec
=============================================================================
