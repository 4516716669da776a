---------------------------- MODULE OutputFilter ----------------------------
(***************************************************************************)
(* The filter between a PTY and what clients and the transcript get        *)
(* (src/src/filter.rs): a state machine over bytes, fed with whatever one  *)
(* read of the PTY returned, and what it should compute.  Bytes are        *)
(* classes of bytes that the filter tells apart:                           *)
(*   "esc", "cr", "bel", "bsl" (backslash), "lbr" ([), "str" (the bytes    *)
(*   that start a string: ] P X ^ _) and "oth"; bsl, lbr and str, but not  *)
(*   oth, are among the bytes 0x40-0x7e that end a CSI sequence.           *)
(* The definition marked "Fault" is not part of the model: it is a variant *)
(* of the one after it with a bug, which a property must detect.           *)
(***************************************************************************)
EXTENDS Naturals, Sequences, FiniteSetsExt

Bytes == {"esc", "cr", "bel", "bsl", "lbr", "str", "oth"}
CsiFinal == {"bsl", "lbr", "str"}

-----------------------------------------------------------------------------
New == [state |-> "Normal", out |-> <<>>]

(* The match on state and byte in push; "lf" is what becomes of a CR.      *)
NextState(state, b) ==
  CASE state = "Normal" -> IF b = "esc" THEN "Esc" ELSE "Normal"
    [] state = "Esc" -> CASE b = "lbr" -> "Csi"
                          [] b = "str" -> "StringSeq"
                          [] b = "esc" -> "Esc"
                          [] OTHER -> "Normal"
    [] state = "Csi" -> IF b \in CsiFinal THEN "Normal" ELSE "Csi"
    [] state = "StringSeq" -> CASE b = "bel" -> "Normal"
                                [] b = "esc" -> "StringSeqSawEsc"
                                [] OTHER -> "StringSeq"
    [] state = "StringSeqSawEsc" -> CASE b = "bsl" -> "Normal"
                                      [] b = "esc" -> "StringSeqSawEsc"
                                      [] OTHER -> "StringSeq"

Translate(b) == IF b = "cr" THEN "lf" ELSE b

Step(f, b) ==
  [state |-> NextState(f.state, b),
   out |-> IF f.state = "Normal" /\ b # "esc" THEN Append(f.out, Translate(b)) ELSE f.out]

(* The filter after the bytes of input, one by one.                        *)
Feed(f, input) ==
  LET after[i \in 0 .. Len(input)] ==
        IF i = 0 THEN f ELSE Step(after[i - 1], input[i])
  IN after[Len(input)]

(* Fault: each read is filtered by itself.                                 *)
PushForgets(f, input) == Feed([f EXCEPT !.state = "Normal"], input)

(* One call of push.                                                       *)
Push(f, input) == Feed(f, input)

-----------------------------------------------------------------------------
(* What an output should look like, defined on the whole of it: escape     *)
(* sequences are cut out, wherever they start and end.                     *)

(* The first of the positions J of s, or its last if there are none.       *)
First(s, J) == Min(J \cup {Len(s)})

(* Where the sequence whose ESC is s[i] says what it is: ESCs repeat.      *)
Introducer(s, i) == First(s, {j \in i + 1 .. Len(s) : s[j] # "esc"})

(* The last bytes of such sequences that begin at k.  A string ends at BEL *)
(* or at ESC \; a BEL directly after an ESC is not taken as its end.       *)
CsiEnds(s, k) == {j \in k + 1 .. Len(s) : s[j] \in CsiFinal}
StringEnds(s, k) ==
  {j \in k + 1 .. Len(s) : IF s[j - 1] = "esc" THEN s[j] = "bsl" ELSE s[j] = "bel"}

(* The last byte of the sequence whose ESC is s[i], or the end of s if it  *)
(* is not finished.                                                        *)
SequenceEnd(s, i) ==
  LET k == Introducer(s, i) IN
    CASE s[k] = "lbr" -> First(s, CsiEnds(s, k))
      [] s[k] = "str" -> First(s, StringEnds(s, k))
      [] OTHER -> k

Visible(s) ==
  LET from[i \in 1 .. Len(s) + 1] ==
        IF i > Len(s) THEN <<>>
        ELSE IF s[i] = "esc" THEN from[SequenceEnd(s, i) + 1]
        ELSE <<Translate(s[i])>> \o from[i + 1]
  IN from[1]
=============================================================================
