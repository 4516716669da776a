--------------------------- MODULE SpawnFdsProofs ---------------------------
(***************************************************************************)
(* Proofs about SpawnFds, for any number of commands that are spawned at   *)
(* the same time.                                                          *)
(***************************************************************************)
EXTENDS SpawnFds, TLAPS

(* The variables keep their types.                                         *)
THEOREM TypeCorrect == Spec => []TypeOK
<1>1. Init => TypeOK
  BY DEF Init, TypeOK, Steps
<1>2. TypeOK /\ [Next]_vars => TypeOK'
  <2> SUFFICES ASSUME TypeOK, [Next]_vars PROVE TypeOK'
    OBVIOUS
  <2> USE DEF TypeOK, Steps, Processes, Ends, PipeEnds, PtyEnds, ShortLived, Own
  <2>1. CASE UNCHANGED vars
    BY <2>1 DEF vars
  <2>2. CASE Next
    <3> PICK c \in Cmds :
          \/ Handler(c) \/ FeederDone(c)
          \/ Exec(c) \/ ExecFails(c) \/ Exits(c) \/ DaemonEnds(c)
      BY <2>2 DEF Next
    <3>1. CASE MakePipes(c)
      BY <3>1 DEF MakePipes, Goto, HostOpens
    <3>2. CASE OpenProbe(c)
      BY <3>2 DEF OpenProbe, Goto, HostOpens
    <3>3. CASE CloseProbe(c)
      BY <3>3 DEF CloseProbe, Goto, HostCloses
    <3>4. CASE OpenPty(c)
      BY <3>4 DEF OpenPty, Goto, HostOpens
    <3>5. CASE SpawnFails(c)
      BY <3>5 DEF SpawnFails, Goto, HostCloses
    <3>6. CASE Fork(c)
      BY <3>6 DEF Fork, Goto
    <3>7. CASE CloseSlave(c)
      BY <3>7 DEF CloseSlave, Goto, HostCloses
    <3>8. CASE Serve(c)
      BY <3>8 DEF Serve, Goto, HostCloses
    <3>9. CASE PtyEof(c)
      BY <3>9 DEF PtyEof, Goto, HostCloses
    <3>10. CASE Wait(c)
      BY <3>10 DEF Wait, Goto
    <3>11. CASE DupErrno(c)
      BY <3>11 DEF DupErrno, Goto, HostOpens
    <3>12. CASE AnswerUnread(c)
      BY <3>12 DEF AnswerUnread, Goto, HostCloses
    <3>13. CASE Answer(c)
      BY <3>13 DEF Answer, Goto, HostCloses
    <3>14. CASE FeederDone(c)
      BY <3>14 DEF FeederDone, HostCloses
    <3>15. CASE Exec(c)
      BY <3>15 DEF Exec
    <3>16. CASE ExecFails(c)
      BY <3>16 DEF ExecFails
    <3>17. CASE Exits(c)
      BY <3>17 DEF Exits
    <3>18. CASE DaemonEnds(c)
      BY <3>18 DEF DaemonEnds
    <3> QED
      BY <3>1, <3>2, <3>3, <3>4, <3>5, <3>6, <3>7, <3>8, <3>9, <3>10, <3>11, <3>12, <3>13,
         <3>14, <3>15, <3>16, <3>17, <3>18 DEF Handler
  <2> QED
    BY <2>1, <2>2
<1> QED
  BY <1>1, <1>2, PTL DEF Spec

(* A step of command c's handler that opens or closes descriptors in the   *)
(* host leaves what commands hold alone.                                   *)
LEMMA HostStepKeepsOthers ==
  ASSUME TypeOK, NEW ends,
         HostOpens(ends) \/ HostCloses(ends)
  PROVE  \A d \in Cmds : held'[d] = held[d]
BY SpawnFdsAssumption DEF TypeOK, Processes, HostOpens, HostCloses

(* A child is forked once, and its handler comes to read_errno only after  *)
(* wait_for_child.                                                         *)
BeforeFork == {"idle", "pipes", "probe", "ready", "pty"}

Lives ==
  \A c \in Cmds : /\ step[c] \in BeforeFork => child[c] = "none"
                  /\ step[c] \in {"errno", "read"} => child[c] = "gone"

LEMMA LivesAlways == Spec => []Lives
<1>1. Init => Lives
  BY DEF Init, Lives
<1>2. TypeOK /\ Lives /\ [Next]_vars => Lives'
  <2> SUFFICES ASSUME TypeOK, Lives, [Next]_vars PROVE Lives'
    OBVIOUS
  <2>1. CASE UNCHANGED vars
    BY <2>1 DEF vars, Lives
  <2>2. CASE Next
    <3> PICK c \in Cmds :
          \/ Handler(c) \/ FeederDone(c)
          \/ Exec(c) \/ ExecFails(c) \/ Exits(c) \/ DaemonEnds(c)
      BY <2>2 DEF Next
    <3> USE DEF TypeOK, Lives, BeforeFork
    <3>1. CASE MakePipes(c)
      BY <3>1 DEF MakePipes, Goto
    <3>2. CASE OpenProbe(c)
      BY <3>2 DEF OpenProbe, Goto
    <3>3. CASE CloseProbe(c)
      BY <3>3 DEF CloseProbe, Goto
    <3>4. CASE OpenPty(c)
      BY <3>4 DEF OpenPty, Goto
    <3>5. CASE SpawnFails(c)
      BY <3>5 DEF SpawnFails, Goto
    <3>6. CASE Fork(c)
      BY <3>6 DEF Fork, Goto
    <3>7. CASE CloseSlave(c)
      BY <3>7 DEF CloseSlave, Goto
    <3>8. CASE Serve(c)
      BY <3>8 DEF Serve, Goto
    <3>9. CASE PtyEof(c)
      BY <3>9 DEF PtyEof, Goto
    <3>10. CASE Wait(c)
      BY <3>10 DEF Wait, Goto
    <3>11. CASE DupErrno(c)
      BY <3>11 DEF DupErrno, Goto
    <3>12. CASE AnswerUnread(c)
      BY <3>12 DEF AnswerUnread, Goto
    <3>13. CASE Answer(c)
      BY <3>13 DEF Answer, Goto
    <3>14. CASE FeederDone(c)
      BY <3>14 DEF FeederDone
    <3>15. CASE Exec(c)
      BY <3>15 DEF Exec
    <3>16. CASE ExecFails(c)
      BY <3>16 DEF ExecFails
    <3>17. CASE Exits(c)
      BY <3>17 DEF Exits
    <3>18. CASE DaemonEnds(c)
      BY <3>18 DEF DaemonEnds
    <3> QED
      BY <3>1, <3>2, <3>3, <3>4, <3>5, <3>6, <3>7, <3>8, <3>9, <3>10, <3>11, <3>12, <3>13,
         <3>14, <3>15, <3>16, <3>17, <3>18 DEF Handler
  <2> QED
    BY <2>1, <2>2
<1> QED
  BY <1>1, <1>2, TypeCorrect, PTL DEF Spec

(* Only forkpty's window lets another command inherit a PTY, and of pipes  *)
(* only read_errno's copy gets past exec, when its command has ended,      *)
(* however many handlers spawn at once: fork copies the host's descriptors *)
(* and sets raced for those whose slave it copies; exec keeps no other     *)
(* pipe of others; nobody else adds to what a command holds.               *)
THEOREM DescriptorsAlwaysStayHome == Spec => []DescriptorsStayHome
<1> USE SpawnFdsAssumption
<1>1. Init => DescriptorsStayHome
  BY DEF Init, DescriptorsStayHome, Processes
<1>2. TypeOK /\ Lives /\ DescriptorsStayHome /\ [Next]_vars => DescriptorsStayHome'
  <2> SUFFICES ASSUME TypeOK, Lives, DescriptorsStayHome, [Next]_vars PROVE DescriptorsStayHome'
    OBVIOUS
  <2>1. CASE UNCHANGED vars
    BY <2>1 DEF vars, DescriptorsStayHome
  <2>2. CASE Next
    <3> PICK c \in Cmds :
          \/ Handler(c) \/ FeederDone(c)
          \/ Exec(c) \/ ExecFails(c) \/ Exits(c) \/ DaemonEnds(c)
      BY <2>2 DEF Next
    <3> USE DEF DescriptorsStayHome, TypeOK, Processes, Own
    <3>1. CASE MakePipes(c)
      BY <3>1, HostStepKeepsOthers DEF MakePipes, Goto, HostOpens, PipeEnds
    <3>2. CASE OpenProbe(c)
      BY <3>2, HostStepKeepsOthers DEF OpenProbe, Goto, HostOpens
    <3>3. CASE CloseProbe(c)
      BY <3>3, HostStepKeepsOthers DEF CloseProbe, Goto, HostCloses
    <3>4. CASE OpenPty(c)
      BY <3>4, HostStepKeepsOthers DEF OpenPty, Goto, HostOpens, PtyEnds
    <3>5. CASE SpawnFails(c)
      BY <3>5, HostStepKeepsOthers DEF SpawnFails, Goto, HostCloses, PtyEnds
    <3>6. CASE Fork(c)
      BY <3>6 DEF Fork, Goto, Lives, BeforeFork
    <3>7. CASE CloseSlave(c)
      BY <3>7, HostStepKeepsOthers DEF CloseSlave, Goto, HostCloses
    <3>8. CASE Serve(c)
      BY <3>8, HostStepKeepsOthers DEF Serve, Goto, HostCloses
    <3>9. CASE PtyEof(c)
      BY <3>9, HostStepKeepsOthers DEF PtyEof, Goto, HostCloses
    <3>10. CASE Wait(c)
      BY <3>10 DEF Wait, Goto
    <3>11. CASE DupErrno(c)
      BY <3>11, HostStepKeepsOthers DEF DupErrno, Goto, HostOpens
    <3>12. CASE AnswerUnread(c)
      BY <3>12, HostStepKeepsOthers DEF AnswerUnread, Goto, HostCloses
    <3>13. CASE Answer(c)
      BY <3>13, HostStepKeepsOthers DEF Answer, Goto, HostCloses
    <3>14. CASE FeederDone(c)
      BY <3>14, HostStepKeepsOthers DEF FeederDone, HostCloses
    <3>15. CASE Exec(c)
      BY <3>15 DEF Exec, Survives, PipeEnds, PtyEnds, ShortLived
    <3>16. CASE ExecFails(c)
      BY <3>16 DEF ExecFails
    <3>17. CASE Exits(c)
      BY <3>17 DEF Exits
    <3>18. CASE DaemonEnds(c)
      BY <3>18 DEF DaemonEnds
    <3> QED
      BY <3>1, <3>2, <3>3, <3>4, <3>5, <3>6, <3>7, <3>8, <3>9, <3>10, <3>11, <3>12, <3>13,
         <3>14, <3>15, <3>16, <3>17, <3>18 DEF Handler
  <2> QED
    BY <2>1, <2>2
<1> QED
  BY <1>1, <1>2, TypeCorrect, LivesAlways, PTL DEF Spec
=============================================================================
