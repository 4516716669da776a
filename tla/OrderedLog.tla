----------------------------- MODULE OrderedLog -----------------------------
(***************************************************************************)
(* What the transcript promises, without the queue that implements it:     *)
(* commands are numbered as they arrive, finish in any order, and the log  *)
(* is at every moment the longest run of finished commands 0, 1, 2, ...    *)
(* It never skips a command, never reorders two, never logs one twice and  *)
(* never holds back a finished command all of whose predecessors finished. *)
(***************************************************************************)
EXTENDS Naturals, Sequences

CONSTANT MaxSeq  (* bound on the number of commands *)

VARIABLES
  arrived,  (* how many commands have been numbered    *)
  finished, (* the numbers of the commands that are over *)
  log       (* the numbers in the log, oldest first    *)

vars == <<arrived, finished, log>>

(* The numbers below n, in order.                                          *)
Upto(n) == [i \in 1 .. n |-> i - 1]

(* n is the first number that is not in the set of finished commands.      *)
IsHorizon(n, fin) == n \notin fin /\ \A k \in 0 .. n - 1 : k \in fin

Init == arrived = 0 /\ finished = {} /\ log = <<>>

Arrive ==
  /\ arrived < MaxSeq
  /\ arrived' = arrived + 1
  /\ UNCHANGED <<finished, log>>

Finish(s) ==
  /\ s < arrived
  /\ s \notin finished
  /\ finished' = finished \cup {s}
  /\ \E n \in 0 .. arrived : IsHorizon(n, finished') /\ log' = Upto(n)
  /\ UNCHANGED arrived

Next == Arrive \/ \E s \in 0 .. MaxSeq - 1 : Finish(s)

Spec == Init /\ [][Next]_vars
=============================================================================
