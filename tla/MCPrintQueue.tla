---------------------------- MODULE MCPrintQueue ----------------------------
(***************************************************************************)
(* Model checking of PrintQueue: the constants are given in the .cfg files *)
(* and every behaviour of the bounded model ends when all its commands     *)
(* have been printed, which is the only state TLC may stop in.             *)
(***************************************************************************)
EXTENDS PrintQueue

(* All MaxSeq commands arrived and were printed: the model's bound, not a  *)
(* deadlock of the program.                                                *)
AllPrinted ==
  /\ next_seq = MaxSeq
  /\ \A s \in Seqs : worker[s] = "done" /\ stream[s] # "open"

Finished == AllPrinted /\ UNCHANGED vars

MCSpec == Init /\ [][Next \/ Finished]_vars
MCFairSpec == MCSpec /\ Fairness
=============================================================================
