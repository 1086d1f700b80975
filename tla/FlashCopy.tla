------------------------------ MODULE FlashCopy ------------------------------
(***************************************************************************)
(* What DeviceCopy of a boot device promises its callers: a copy inside    *)
(* the flash that reports success has put exactly the bytes that were      *)
(* asked for where they were asked for; whatever it reports, it has        *)
(* written nowhere else.  A byte of the flash is its address.              *)
(***************************************************************************)
EXTENDS Integers

CONSTANTS Cells,      \* addresses of the memory copied to
          Old         \* what memory holds before a copy

VARIABLES
  size,      \* bytes in the flash
  frail,     \* the device may refuse
  call,      \* source, destination and length asked for
  mem,       \* the memory
  result     \* "NONE", "BUSY", "OK" or "ERROR"

vars == <<size, frail, call, mem, result>>

Asked == {c \in Cells : call.dest <= c /\ c < call.dest + call.len}
Delivered == \A c \in Asked : mem[c] = call.src + (c - call.dest)

Init == result = "NONE"

Ask ==
  /\ result # "BUSY"
  /\ mem' = [c \in Cells |-> Old]
  /\ result' = IF call'.src + call'.len > size THEN "ERROR" ELSE "BUSY"
  /\ UNCHANGED <<size, frail>>

Fill ==
  /\ result = "BUSY"
  /\ mem' = [c \in Cells |-> IF c \in Asked THEN mem'[c] ELSE mem[c]]
  /\ UNCHANGED <<size, frail, call, result>>

Succeed ==
  /\ result = "BUSY" /\ Delivered
  /\ result' = "OK"
  /\ UNCHANGED <<size, frail, call, mem>>

Refuse ==
  /\ result = "BUSY" /\ frail
  /\ result' = "ERROR"
  /\ mem' = [c \in Cells |-> IF c \in Asked THEN mem'[c] ELSE mem[c]]
  /\ UNCHANGED <<size, frail, call>>

Find == result = "NONE" /\ UNCHANGED <<frail, call, mem, result>>

Next == Find \/ Ask \/ Fill \/ Succeed \/ Refuse

Spec == Init /\ [][Next]_vars
=============================================================================
