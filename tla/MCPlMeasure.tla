---------------------------- MODULE MCPlMeasure ----------------------------
(***************************************************************************)
(* Bitstreams for PlMeasure: plain ones in DDR and from flash whose size   *)
(* is below, at and above that of the buffer, with and without trailing    *)
(* no-ops; encrypted ones of no, one and two blocks whose headers agree    *)
(* with the partition header or do not.                                    *)
(***************************************************************************)
EXTENDS PlMeasure

Faults == SUBSET {"dma", "sha", "key", "flash"}
PlainBits ==
  {[size |-> n, encrypted |-> FALSE, blocks |-> <<>>, starts |-> s, ddr |-> d, faults |-> f] :
     n \in 1 .. 5, s \in {1, 3}, d \in BOOLEAN, f \in {{}, {"dma", "sha", "flash"}}}
EncryptedBits ==
  {[size |-> n, encrypted |-> TRUE, blocks |-> b, starts |-> s, ddr |-> TRUE, faults |-> f] :
     n \in {2, 3, 5}, b \in {<<>>, <<3>>, <<1, 2>>, <<2, 1, 2>>}, s \in {1, 3},
     f \in {{}, {"dma", "sha", "key"}}}
MCBitstreams == {b \in PlainBits \cup EncryptedBits : b.starts <= b.size}
=============================================================================
