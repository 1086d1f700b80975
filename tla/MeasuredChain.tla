--------------------------- MODULE MeasuredChain ---------------------------
(***************************************************************************)
(* What measured boot promises, without stages, partitions or buffers:     *)
(* code is recorded before a core is started on it, unless the record      *)
(* shows that a measurement was not made; the record of a boot begins with *)
(* the boot ROM and is only added to, nothing is added once the boot       *)
(* loader has left, and a record is given up for a new one only after a    *)
(* reset that stopped the application cores.  The other cores may run      *)
(* through such a reset on code of the record before.                      *)
(***************************************************************************)
EXTENDS Integers, Sequences

CONSTANTS
  Core,          \* all cores
  Application,   \* those that every reset stops
  Self,          \* the application core that boots
  Begun,         \* what a record holds when it is begun
  Unmade,        \* what a record holds for a measurement that was not made
  None           \* a core that does not run

VARIABLES
  recorded,      \* what was recorded, in order
  running,       \* for each core the code it was started on
  reset          \* a reset has happened and nothing else since

vars == <<recorded, running, reset>>

Init == recorded = <<>> /\ running = [c \in Core |-> None] /\ reset = TRUE

Begin ==
  /\ reset /\ ~reset'
  /\ recorded' = Begun \/ (recorded = <<>> /\ recorded' = <<>>)
  /\ UNCHANGED running

Record ==
  /\ ~reset /\ running[Self] = None
  /\ Len(recorded') >= Len(recorded)
  /\ \A i \in DOMAIN recorded : recorded'[i] = recorded[i]
  /\ UNCHANGED <<running, reset>>

Recorded == {recorded[i] : i \in DOMAIN recorded}

Accounted(code) == code \in Recorded \/ Unmade \in Recorded

Start(cores) ==
  /\ ~reset
  /\ \A c \in cores : running[c] = None /\ Accounted(running'[c])
  /\ running' = [c \in Core |-> IF c \in cores THEN running'[c] ELSE running[c]]
  /\ UNCHANGED <<recorded, reset>>

Stopped(cores) == [c \in Core |-> IF c \in cores THEN None ELSE running[c]]

SystemReset ==
  /\ recorded' = <<>> /\ running' = Stopped(Core)
  /\ reset' \in BOOLEAN

ApplicationReset ==
  /\ ~reset /\ reset'
  /\ running' = Stopped(Application)
  /\ UNCHANGED recorded

Next ==
  \/ Begin \/ Record
  \/ \E cores \in SUBSET Core : Start(cores)
  \/ SystemReset \/ ApplicationReset

Spec == Init /\ [][Next]_vars
=============================================================================
