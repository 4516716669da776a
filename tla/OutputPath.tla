----------------------------- MODULE OutputPath -----------------------------
(***************************************************************************)
(* From a PTY to the reader of the transcript: the reader thread of the    *)
(* first command feeds OutputFilter with what its reads return (pty_reader *)
(* of src/src/host.rs); its handler takes the output at the end of the     *)
(* PTY, and only then is anything appended to TranscriptFile.              *)
(***************************************************************************)
EXTENDS TranscriptFile, OutputFilter, SequencesExt

CONSTANT MaxBytes (* bytes the command prints                              *)

ASSUME OutputPathAssumption == MaxBytes \in Nat

VARIABLES
  reader,    (* pty_reader: "open" or "eof"                                *)
  raw_total, (* PtyBuffer.raw_total                                        *)
  filter     (* its OutputFilter, with PtyBuffer.filtered_total as out     *)

pty == <<reader, raw_total, filter>>

PathInit ==
  /\ FileInit
  /\ reader = "open" /\ raw_total = <<>> /\ filter = New

(* One read of the PTY.                                                    *)
PtyRead ==
  /\ reader = "open"
  /\ \E chunk \in BoundedSeq(Bytes, MaxBytes - Len(raw_total)) :
       /\ chunk # <<>>
       /\ raw_total' = raw_total \o chunk
       /\ filter' = Push(filter, chunk)
  /\ UNCHANGED <<reader, filevars>>

(* EOF: pty_reader returns, the handler joins it and takes the output.     *)
PtyEof ==
  /\ reader = "open"
  /\ reader' = "eof" /\ raw_total' = <<>> /\ filter' = New
  /\ UNCHANGED filevars

PathNext ==
  \/ PtyRead
  \/ PtyEof
  \/ reader = "eof" /\ FileNext /\ UNCHANGED pty

PathSpec == PathInit /\ [][PathNext]_<<filevars, pty>> /\ Fairness

(* README.md:343-347: the filter has removed from the output what Visible  *)
(* does, and nothing else, wherever the reads of the PTY cut it (test      *)
(* handles_split_csi_across_chunks has one cut of one sequence).           *)
FilterExact == filter.out = Visible(raw_total)
=============================================================================
