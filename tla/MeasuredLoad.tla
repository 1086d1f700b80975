---------------------------- MODULE MeasuredLoad ----------------------------
(***************************************************************************)
(* What loading an unsigned bitstream under measured boot promises: the    *)
(* one event in the log is taken when the PL has got all words, of exactly *)
(* these words or, if the hash engine failed, of none, and the PL takes    *)
(* nothing after it; a PL that was given encrypted words runs as they were *)
(* made or is emptied.                                                     *)
(***************************************************************************)
EXTENDS Integers, Sequences

CONSTANTS
  SHA3_BLOCK_LEN,   \* words the hash engine takes at a time
  None              \* the digest of an engine that failed

VARIABLES
  encrypted, size,  \* the bitstream asked for, in words
  frail,            \* the engine may fail, "sha", or the flash, "flash"
  pl,               \* words the PL has taken
  log,              \* events so far
  status            \* "loading", "running" or "refused"

vars == <<encrypted, size, frail, pl, log, status>>
asked == <<encrypted, size, frail>>

Init == pl = <<>> /\ log = <<>> /\ status = "loading"

AsMade == \A i \in 1 .. Len(pl) : pl[i].made
Whole == Len(pl) = size
PaddingFits(d) == d.pad = d.words % SHA3_BLOCK_LEN

Load ==
  /\ status = "loading" /\ log = <<>>
  /\ Len(pl') >= Len(pl) /\ \A i \in 1 .. Len(pl) : pl'[i] = pl[i]
  /\ UNCHANGED <<asked, log, status>>

Record ==
  /\ status = "loading" /\ log = <<>> /\ Whole
  /\ encrypted => AsMade
  /\ Len(log') = 1
  /\ LET d == log'[1] IN
       \/ d = None /\ "sha" \in frail
       \/ d # None /\ d.data = pl /\ (~encrypted => PaddingFits(d))
  /\ UNCHANGED <<asked, pl, status>>

Run ==
  /\ status = "loading" /\ status' = "running"
  /\ log # <<>> \/ (~encrypted /\ "flash" \in frail)
  /\ UNCHANGED <<asked, pl, log>>

Refuse ==
  /\ status = "loading" /\ status' = "refused"
  /\ pl' = IF encrypted /\ log = <<>> THEN <<>> ELSE pl
  /\ UNCHANGED <<asked, log>>

Next == Load \/ Record \/ Run \/ Refuse
Spec == Init /\ [][Next]_vars
=============================================================================
