------------------------------ MODULE McpPool ------------------------------
(***************************************************************************)
(* The connection pool of the MCP server (src/src/mcp.rs HostConnector):   *)
(* tool calls that acquire a ping-verified connection, ping it again, send *)
(* their request and give the connection back; the background worker that  *)
(* reconnects an empty pool; and a host that may be slow, be suspended     *)
(* (^Z in its terminal), crash and come back.  What a mutex protects is    *)
(* one action.                                                             *)
(*                                                                         *)
(* Clocks are left out: the 15 s of a call, the second of a ping and the   *)
(* second of a sleep may be over at any moment.                            *)
(* Definitions marked "Fault" are not part of the model: each is a variant *)
(* of the definition after it with one bug, which a property must detect.  *)
(***************************************************************************)
EXTENDS Naturals, Sequences, FiniteSets, Selections

CONSTANTS
  Callers,    (* blocking tasks that serve tool calls, one call at a time  *)
  Worker,     (* the thread rexec-mcp-reconnect                            *)
  Conns,      (* names for open sockets; a closed socket's name is reused  *)
  NoConn,
  MaxCalls,   (* tool calls in all                                         *)
  MaxCrashes, (* times the host may die                                    *)
  Suspends,   (* may the host be suspended, once?                          *)
  MaxBacklog, (* connections that wait for accept() before connect() blocks*)
  Slow,       (* may a live host take longer than a second for a pong?     *)
  Deadline    (* may a call's 15 seconds elapse?                           *)

ASSUME McpPoolAssumption ==
  /\ IsFiniteSet(Callers) /\ Worker \notin Callers
  /\ NoConn \notin Conns
  /\ MaxCalls \in Nat /\ MaxCrashes \in Nat
  /\ MaxBacklog \in Nat \ {0}
  /\ Suspends \in BOOLEAN /\ Slow \in BOOLEAN /\ Deadline \in BOOLEAN

VARIABLES
  (* the pool: ConnectionState *)
  idle,    (* ConnectionState.idle, a stack                                *)
  active,  (* ConnectionState.active                                       *)
  (* callers and worker *)
  pc,      (* where each of them is                                        *)
  own,     (* the connection each of them has in its hands                 *)
  call,    (* the call each caller works on: its number and its tool       *)
  late,    (* are the 15 seconds of that call over?                        *)
  calls,   (* calls made so far                                            *)
  (* sockets *)
  to,      (* lines the host has yet to read                               *)
  from,    (* lines the client has yet to read                             *)
  stage,   (* the host's handler: "closed", "new" (before the first ping), *)
           (* "greeted" or "pinged" (command_pinged)                       *)
  alive,   (* does a host listen?                                          *)
  crashes,
  suspended, (* is it stopped?  "no", "yes" or "past"                      *)
  backlog,   (* connections it has yet to accept since it was suspended     *)
  (* history *)
  sent,    (* how often each call's request was written to a socket        *)
  result,  (* how each call ended                                          *)
  refused  (* did a handler hang up on a request it had not been pinged for?*)

pool == <<idle, active>>
procs == <<pc, own, call, late, calls>>
wire == <<to, from, stage>>
host == <<alive, crashes, suspended, backlog>>
history == <<sent, result, refused>>
vars == <<pool, procs, wire, host, history>>

Procs == Callers \cup {Worker}
CallIds == 1 .. MaxCalls
NoCall == [id |-> 0, tool |-> "none"]

(* A line on a socket: ping, a request, pong, or the response to a request.*)
Ping == <<"ping", 0>>
Request(n) == <<"request", n>>
Pong == <<"pong", 0>>
Response(n) == <<"response", n>>

(* Where a caller holds a lease, and where its 15 seconds still count.     *)
Leasing == {"leased", "ping", "pinged", "await"}
Acquiring == {"loop", "connect", "handshake", "retry", "sleep", "leased", "ping"}
States == Acquiring \cup Leasing \cup {"idle", "check"}

Outcomes == {"none", "answered", "crossed", "error", "not_found", "running"}

TypeOK ==
  /\ idle \in Seq(Conns) /\ active \in Nat
  /\ pc \in [Procs -> States] /\ own \in [Procs -> Conns \cup {NoConn}]
  /\ call \in [Callers -> [id : CallIds, tool : {"exec", "check_host"}] \cup {NoCall}]
  /\ late \in [Callers -> BOOLEAN] /\ calls \in 0 .. MaxCalls
  /\ to \in [Conns -> Seq({Ping} \cup {Request(n) : n \in CallIds})]
  /\ from \in [Conns -> Seq({Pong} \cup {Response(n) : n \in CallIds})]
  /\ stage \in [Conns -> {"closed", "new", "greeted", "pinged"}]
  /\ alive \in BOOLEAN /\ crashes \in 0 .. MaxCrashes
  /\ suspended \in {"no", "yes", "past"} /\ backlog \in 0 .. MaxBacklog
  /\ sent \in [CallIds -> Nat] /\ result \in [CallIds -> Outcomes] /\ refused \in BOOLEAN

Init ==
  /\ idle = <<>> /\ active = 0
  /\ pc = [p \in Procs |-> IF p = Worker THEN "check" ELSE "idle"]
  /\ own = [p \in Procs |-> NoConn]
  /\ call = [c \in Callers |-> NoCall] /\ late = [c \in Callers |-> FALSE] /\ calls = 0
  /\ to = [k \in Conns |-> <<>>] /\ from = [k \in Conns |-> <<>>]
  /\ stage = [k \in Conns |-> "closed"]
  /\ alive \in BOOLEAN /\ crashes = 0 /\ suspended = "no" /\ backlog = 0
  /\ sent = [n \in CallIds |-> 0] /\ result = [n \in CallIds |-> "none"] /\ refused = FALSE

-----------------------------------------------------------------------------
(* Sockets.                                                                *)

IdleSet == {idle[i] : i \in 1 .. Len(idle)}
Held == {own[p] : p \in Procs} \ {NoConn}
Open == IdleSet \cup Held

(* HostConnection::is_disconnected peeks: data that can be read hides EOF. *)
IsDisconnected(k) == stage[k] = "closed" /\ from[k] = <<>>

(* The client's ends of these sockets are dropped.                         *)
Close(ks) ==
  /\ to' = [k \in Conns |-> IF k \in ks THEN <<>> ELSE to[k]]
  /\ from' = [k \in Conns |-> IF k \in ks THEN <<>> ELSE from[k]]
  /\ stage' = [k \in Conns |-> IF k \in ks THEN "closed" ELSE stage[k]]

(* Writing to a socket whose other end is closed fails with EPIPE.         *)
CanWrite(k) == stage[k] # "closed"
Write(k, line) ==
  /\ CanWrite(k)
  /\ to' = [to EXCEPT ![k] = Append(@, line)]
  /\ UNCHANGED <<from, stage>>

ReadLine(k) ==
  /\ from' = [from EXCEPT ![k] = Tail(@)]
  /\ UNCHANGED <<to, stage>>

(* exchange_ping gets no pong: EOF, another line, or none in time.         *)
NoPong(k) ==
  \/ from[k] = <<>> /\ (stage[k] = "closed" \/ Slow \/ suspended = "yes")
  \/ from[k] # <<>> /\ Head(from[k]) # Pong

-----------------------------------------------------------------------------
(* The host: one handler per connection, reading line by line.             *)

HostReads(k, s, replies) ==
  /\ suspended # "yes"
  /\ to' = [to EXCEPT ![k] = Tail(@)]
  /\ stage' = [stage EXCEPT ![k] = s]
  /\ from' = [from EXCEPT ![k] = @ \o replies]
  /\ UNCHANGED <<pool, procs, host, sent, result>>

HostPong(k) ==
  /\ to[k] # <<>> /\ Head(to[k]) = Ping
  /\ HostReads(k, IF stage[k] = "new" THEN "greeted" ELSE "pinged", <<Pong>>)
  /\ UNCHANGED refused

(* It runs the command, for as long as that takes, and answers; or the     *)
(* handler returns, if no ping preceded the request.                       *)
HostAnswers(k) ==
  /\ to[k] # <<>> /\ Head(to[k])[1] = "request"
  /\ LET authorised == stage[k] = "pinged" IN
       /\ HostReads(k, IF authorised THEN "greeted" ELSE "closed",
                    IF authorised THEN <<Response(Head(to[k])[2])>> ELSE <<>>)
       /\ refused' = (refused \/ ~authorised)

(* The host dies, and every handler with it; a new one may start.          *)
HostCrash ==
  /\ alive /\ crashes < MaxCrashes
  /\ alive' = FALSE
  /\ crashes' = crashes + 1
  /\ to' = [k \in Conns |-> <<>>]
  /\ stage' = [k \in Conns |-> "closed"]
  /\ suspended' = IF suspended = "yes" THEN "past" ELSE suspended
  /\ backlog' = 0
  /\ UNCHANGED <<pool, procs, from, history>>

HostStart ==
  /\ ~alive
  /\ alive' = TRUE
  /\ UNCHANGED <<pool, procs, wire, crashes, suspended, backlog, history>>

HostSuspend ==
  /\ Suspends /\ alive /\ suspended = "no"
  /\ suspended' = "yes"
  /\ UNCHANGED <<pool, procs, wire, alive, crashes, backlog, history>>

(* It goes on, and accepts what waits.                                     *)
HostResume ==
  /\ suspended = "yes"
  /\ suspended' = "past"
  /\ backlog' = 0
  /\ UNCHANGED <<pool, procs, wire, alive, crashes, history>>

HostServes == \E k \in Conns : HostPong(k) \/ HostAnswers(k)

-----------------------------------------------------------------------------
(* connect_with_timeout, by a caller or by the worker p.                   *)

Goto(p, a, b) ==
  /\ pc[p] = a
  /\ pc' = [pc EXCEPT ![p] = b]

(* connect() succeeds and the first ping is written.  It has no time       *)
(* limit: with a full backlog it waits for the host to accept or to die.   *)
Connects(p) ==
  /\ alive /\ backlog < MaxBacklog
  /\ backlog' = IF suspended = "yes" THEN backlog + 1 ELSE 0
  /\ \E k \in Conns \ Open :
       /\ k = CHOOSE j \in Conns \ Open : TRUE
       /\ own' = [own EXCEPT ![p] = k]
       /\ to' = [to EXCEPT ![k] = <<Ping>>]
       /\ stage' = [stage EXCEPT ![k] = "new"]
  /\ Goto(p, "connect", "handshake")
  /\ UNCHANGED <<pool, call, late, calls, from, alive, crashes, suspended, history>>

ConnectRefused(p) ==
  /\ ~alive
  /\ Goto(p, "connect", IF p = Worker THEN "sleep" ELSE "retry")
  /\ UNCHANGED <<pool, own, call, late, calls, wire, host, history>>

HandshakeFails(p) ==
  /\ Goto(p, "handshake", IF p = Worker THEN "sleep" ELSE "retry")
  /\ NoPong(own[p])
  /\ own' = [own EXCEPT ![p] = NoConn]
  /\ Close({own[p]})
  /\ UNCHANGED <<pool, call, late, calls, host, history>>

HandshakePong(p) ==
  /\ from[own[p]] # <<>> /\ Head(from[own[p]]) = Pong
  /\ ReadLine(own[p])
  /\ UNCHANGED <<call, late, calls, host, history>>

(* The worker leaves its connection in the pool, a caller keeps it.        *)
WorkerGreeted ==
  /\ Goto(Worker, "handshake", "check")
  /\ HandshakePong(Worker)
  /\ idle' = Append(idle, own[Worker])
  /\ own' = [own EXCEPT ![Worker] = NoConn]
  /\ UNCHANGED active

CallerGreeted(c) ==
  /\ Goto(c, "handshake", "leased")
  /\ HandshakePong(c)
  /\ active' = active + 1
  /\ UNCHANGED <<idle, own>>

-----------------------------------------------------------------------------
(* The background worker.                                                  *)

(* Fault: the worker looks at the leases only.                             *)
WorkerChecksActive ==
  LET live == {i \in DOMAIN idle : ~IsDisconnected(idle[i])} IN
    /\ Goto(Worker, "check", IF active # 0 THEN "sleep" ELSE "connect")
    /\ idle' = SelectAt(idle, live)
    /\ Close({k \in IdleSet : IsDisconnected(k)})
    /\ UNCHANGED <<active, own, call, late, calls, host, history>>

(* idle.retain(not disconnected), and connect only if the pool is unused.  *)
WorkerChecks ==
  LET live == {i \in DOMAIN idle : ~IsDisconnected(idle[i])} IN
    /\ Goto(Worker, "check", IF live # {} \/ active # 0 THEN "sleep" ELSE "connect")
    /\ idle' = SelectAt(idle, live)
    /\ Close({k \in IdleSet : IsDisconnected(k)})
    /\ UNCHANGED <<active, own, call, late, calls, host, history>>

(* After a second, or a notification.                                      *)
WorkerWakes ==
  /\ Goto(Worker, "sleep", "check")
  /\ UNCHANGED <<pool, own, call, late, calls, wire, host, history>>

WorkerStep ==
  \/ WorkerChecks \/ WorkerWakes \/ WorkerGreeted
  \/ Connects(Worker) \/ ConnectRefused(Worker) \/ HandshakeFails(Worker)

-----------------------------------------------------------------------------
(* A tool call: acquire, then for exec acquire_for_command's ping, request *)
(* and response.                                                           *)

Call(c, tool) ==
  /\ calls < MaxCalls
  /\ Goto(c, "idle", "loop")
  /\ calls' = calls + 1
  /\ call' = [call EXCEPT ![c] = [id |-> calls + 1, tool |-> tool]]
  /\ UNCHANGED <<pool, own, late, wire, host, history>>

DeadlinePasses(c) ==
  /\ Deadline
  /\ pc[c] \in Acquiring /\ ~late[c]
  /\ late' = [late EXCEPT ![c] = TRUE]
  /\ UNCHANGED <<pool, pc, own, call, calls, wire, host, history>>

(* The call is over.                                                       *)
End(c, from_, outcome) ==
  /\ Goto(c, from_, "idle")
  /\ call' = [call EXCEPT ![c] = NoCall]
  /\ result' = [result EXCEPT ![call[c].id] = outcome]
  /\ late' = [late EXCEPT ![c] = FALSE]
  /\ UNCHANGED <<calls, host, refused>>

LastLive(i) ==
  /\ ~IsDisconnected(idle[i])
  /\ \A j \in i + 1 .. Len(idle) : IsDisconnected(idle[j])

Above(i) == {idle[j] : j \in i + 1 .. Len(idle)}

(* Fault: the connection is used, but stays in the pool.                   *)
PopLeaves(c) ==
  \E i \in 1 .. Len(idle) :
    /\ LastLive(i)
    /\ Goto(c, "loop", "leased")
    /\ own' = [own EXCEPT ![c] = idle[i]]
    /\ active' = active + 1
    /\ UNCHANGED <<idle, wire, call, late, calls, host, history>>

(* idle.pop() until one is not disconnected: it is leased.                 *)
Pop(c) ==
  \E i \in 1 .. Len(idle) :
    /\ LastLive(i)
    /\ Goto(c, "loop", "leased")
    /\ own' = [own EXCEPT ![c] = idle[i]]
    /\ idle' = SubSeq(idle, 1, i - 1)
    /\ Close(Above(i))
    /\ active' = active + 1
    /\ UNCHANGED <<call, late, calls, host, history>>

PoolEmpty == \A k \in IdleSet : IsDisconnected(k)

(* Fault: a caller waits for the worker to connect.                        *)
NoneIdleSleeps(c) ==
  /\ PoolEmpty /\ ~late[c]
  /\ Goto(c, "loop", "sleep")
  /\ idle' = <<>>
  /\ Close(IdleSet)
  /\ UNCHANGED <<active, own, call, late, calls, host, history>>

(* None was left, and there is time: connect.                              *)
NoneIdle(c) ==
  /\ PoolEmpty /\ ~late[c]
  /\ Goto(c, "loop", "connect")
  /\ idle' = <<>>
  /\ Close(IdleSet)
  /\ UNCHANGED <<active, own, call, late, calls, host, history>>

NoneIdleLate(c) ==
  /\ PoolEmpty /\ late[c]
  /\ End(c, "loop", "not_found")
  /\ idle' = <<>>
  /\ Close(IdleSet)
  /\ UNCHANGED <<active, own, sent>>

(* Connecting failed.  One that was returned meanwhile is tried at once.   *)
RetryIdle(c) ==
  /\ idle # <<>>
  /\ Goto(c, "retry", "loop")
  /\ UNCHANGED <<pool, own, call, late, calls, wire, host, history>>

(* Fault: each retry starts the 15 seconds anew.                           *)
RetryRestartsClock(c) ==
  /\ idle = <<>>
  /\ Goto(c, "retry", "sleep")
  /\ late' = [late EXCEPT ![c] = FALSE]
  /\ UNCHANGED <<pool, own, call, calls, wire, host, history>>

RetryLate(c) ==
  /\ idle = <<>> /\ late[c]
  /\ End(c, "retry", "not_found")
  /\ UNCHANGED <<pool, own, wire, sent>>

RetrySleeps(c) ==
  /\ idle = <<>> /\ ~late[c]
  /\ Goto(c, "retry", "sleep")
  /\ UNCHANGED <<pool, own, call, late, calls, wire, host, history>>

Wakes(c) ==
  /\ Goto(c, "sleep", "loop")
  /\ UNCHANGED <<pool, own, call, late, calls, wire, host, history>>

(* Drop for ConnectionLease: the connection goes back, or is closed.       *)
GiveBack(c) ==
  /\ active' = active - 1
  /\ idle' = Append(idle, own[c])
  /\ own' = [own EXCEPT ![c] = NoConn]

(* Fault: only a lease that is given back is counted off.                  *)
DiscardUncounted(c) ==
  /\ own' = [own EXCEPT ![c] = NoConn]
  /\ Close({own[c]})
  /\ UNCHANGED pool

Discard(c) ==
  /\ active' = active - 1
  /\ own' = [own EXCEPT ![c] = NoConn]
  /\ Close({own[c]})
  /\ UNCHANGED idle

CheckHost(c) ==
  /\ call[c].tool = "check_host"
  /\ End(c, "leased", "running")
  /\ GiveBack(c)
  /\ UNCHANGED <<wire, sent>>

LeasedLate(c) ==
  /\ call[c].tool = "exec" /\ late[c]
  /\ End(c, "leased", "not_found")
  /\ GiveBack(c)
  /\ UNCHANGED <<wire, sent>>

(* Fault: a connection from the pool is taken to be verified enough.       *)
LeasePingSkipped(c) ==
  /\ call[c].tool = "exec" /\ ~late[c]
  /\ Goto(c, "leased", "pinged")
  /\ UNCHANGED <<pool, own, call, late, calls, wire, host, history>>

(* ping_with_timeout; a write that fails is a pong that never comes.        *)
LeasePing(c) ==
  /\ call[c].tool = "exec" /\ ~late[c]
  /\ Goto(c, "leased", "ping")
  /\ IF CanWrite(own[c]) THEN Write(own[c], Ping) ELSE UNCHANGED wire
  /\ UNCHANGED <<pool, own, call, late, calls, host, history>>

(* Fault: a failed ping leaves the lease reusable.                         *)
PingFailsReusable(c) ==
  /\ Goto(c, "ping", "loop")
  /\ NoPong(own[c])
  /\ GiveBack(c)
  /\ UNCHANGED <<wire, call, late, calls, host, history>>

(* The lease is discarded and, while there is time, another one acquired.  *)
PingFails(c) ==
  /\ Goto(c, "ping", "loop")
  /\ NoPong(own[c]) /\ ~late[c]
  /\ Discard(c)
  /\ UNCHANGED <<call, late, calls, host, history>>

PingFailsLate(c) ==
  /\ End(c, "ping", "not_found")
  /\ NoPong(own[c]) /\ late[c]
  /\ Discard(c)
  /\ UNCHANGED sent

PingPong(c) ==
  /\ Goto(c, "ping", "pinged")
  /\ from[own[c]] # <<>> /\ Head(from[own[c]]) = Pong
  /\ ReadLine(own[c])
  /\ late' = [late EXCEPT ![c] = FALSE]
  /\ UNCHANGED <<pool, own, call, calls, host, history>>

(* execute_after_ping: write the request ...                               *)
Send(c) ==
  /\ Goto(c, "pinged", "await")
  /\ Write(own[c], Request(call[c].id))
  /\ sent' = [sent EXCEPT ![call[c].id] = @ + 1]
  /\ UNCHANGED <<pool, own, call, late, calls, host, result, refused>>

SendFails(c) ==
  /\ End(c, "pinged", "error")
  /\ ~CanWrite(own[c])
  /\ sent' = [sent EXCEPT ![call[c].id] = @ + 1]
  /\ Discard(c)

(* ... and read the response, without a time limit.                        *)
Answer(c) ==
  /\ pc[c] = "await"
  /\ from[own[c]] # <<>> /\ Head(from[own[c]])[1] = "response"
  /\ End(c, "await", IF Head(from[own[c]]) = Response(call[c].id) THEN "answered" ELSE "crossed")
  /\ ReadLine(own[c])
  /\ GiveBack(c)
  /\ UNCHANGED sent

(* Fault: a request whose answer was lost is sent again.                   *)
AnswerLostRetried(c) ==
  /\ pc[c] = "await"
  /\ from[own[c]] = <<>> /\ stage[own[c]] = "closed"
  /\ Goto(c, "await", "loop")
  /\ Discard(c)
  /\ UNCHANGED <<call, late, calls, host, history>>

(* EOF, or a line that is not a response.                                  *)
AnswerLost(c) ==
  /\ pc[c] = "await"
  /\ \/ from[own[c]] = <<>> /\ stage[own[c]] = "closed"
     \/ from[own[c]] # <<>> /\ Head(from[own[c]])[1] # "response"
  /\ End(c, "await", "error")
  /\ Discard(c)
  /\ UNCHANGED sent

CallerStep(c) ==
  \/ Pop(c) \/ NoneIdle(c) \/ NoneIdleLate(c)
  \/ Connects(c) \/ ConnectRefused(c) \/ HandshakeFails(c) \/ CallerGreeted(c)
  \/ RetryIdle(c) \/ RetryLate(c) \/ RetrySleeps(c) \/ Wakes(c)
  \/ CheckHost(c) \/ LeasedLate(c) \/ LeasePing(c)
  \/ PingFails(c) \/ PingFailsLate(c) \/ PingPong(c)
  \/ Send(c) \/ SendFails(c) \/ Answer(c) \/ AnswerLost(c)

-----------------------------------------------------------------------------
Next ==
  \/ \E c \in Callers : \E tool \in {"exec", "check_host"} : Call(c, tool)
  \/ \E c \in Callers : CallerStep(c) \/ DeadlinePasses(c)
  \/ WorkerStep
  \/ HostServes \/ HostCrash \/ HostStart \/ HostSuspend \/ HostResume

Spec == Init /\ [][Next]_vars

(* Tool calls are scheduled; a host that is up reads its sockets, and the  *)
(* commands it runs end.  Nothing is assumed of the worker.                *)
Fairness ==
  /\ \A c \in Callers : WF_vars(CallerStep(c))
  /\ \A k \in Conns : WF_vars(HostPong(k) \/ HostAnswers(k))

FairSpec == Spec /\ Fairness

(* What the two liveness properties assume besides: the 15 seconds of a    *)
(* call pass, or they do not; the host always comes back; and who suspends *)
(* the host lets it go on.                                                 *)
TimePasses == \A c \in Callers : WF_vars(DeadlinePasses(c))
TimeEnough == [](\A c \in Callers : ~late[c])
HostReturns == WF_vars(HostStart)
HostResumes == WF_vars(HostResume)

-----------------------------------------------------------------------------
(* The counter by which the worker decides whether the pool is in use is   *)
(* the number of leases: `active -= 1` never underflows, and no lease is   *)
(* forgotten on any of the ways out of a call.                             *)
ActiveCounted == active = Cardinality({c \in Callers : pc[c] \in Leasing})

(* Callers that find the pool empty connect by themselves, and so does the *)
(* worker, without knowing of each other; still there are never more       *)
(* sockets than callers and worker together could need at one time.        *)
PoolBounded == Cardinality(Open) <= Cardinality(Callers) + 1

(* "never return a socket with unknown framing state to the idle pool"     *)
(* (mcp.rs:170): a connection in the pool is nobody's, is there once,  *)
(* and nothing is in flight on it in either direction.                     *)
IdleClean ==
  /\ \A i, j \in 1 .. Len(idle) : idle[i] = idle[j] => i = j
  /\ \A k \in IdleSet : k \notin Held /\ to[k] = <<>> /\ from[k] = <<>>

(* No caller is given the response to another caller's request.            *)
OwnAnswer == \A n \in CallIds : result[n] # "crossed"

(* README.md:261, "Once a request is sent, it is never replayed            *)
(* automatically"; and HOST NOT FOUND means that it never was sent.        *)
SentAtMostOnce ==
  \A n \in CallIds : sent[n] <= 1 /\ (result[n] = "not_found" => sent[n] = 0)

(* Pool and host agree on the protocol: on no connection, however often it *)
(* was reused, does the host meet a request that a ping did not announce.  *)
NeverRefused == ~refused

(* Every tool call ends, whatever the host and the worker do: a call that  *)
(* cannot get a connection gives up after its 15 seconds (README.md:250).  *)
(* That connect() may wait for a suspended host is the one exception.      *)
CallsEndInTime == \A c \in Callers : pc[c] # "idle" ~> pc[c] = "idle"
CallsEnd == TimePasses /\ HostResumes => CallsEndInTime

(* README.md:262, "recovery does not depend solely on the background       *)
(* worker": with a host that comes back and answers pings in time, a call  *)
(* that has time reaches it, even if the worker never makes a step.        *)
CallsReachHost ==
  TimeEnough /\ HostReturns /\ HostResumes =>
    \A n \in CallIds : calls >= n ~> result[n] \in {"answered", "error", "running"}
=============================================================================
