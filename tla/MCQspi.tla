------------------------------- MODULE MCQspi -------------------------------
(***************************************************************************)
(* Boards and copies for the runs: chips of half a bank, one, two and four *)
(* banks, the last of two dies.                                            *)
(***************************************************************************)
EXTENDS QspiCopy

MCCells == 0 .. 31
MCCalls ==
  [src : {0, 6, 12, 14, 28, 30}, dest : {0, 4, 10}, len : {0, 4, 10, 20}]

B(mode, make, chip, wide, faults) ==
  [mode |-> mode, make |-> make, chip |-> chip, wide |-> wide, quad |-> TRUE,
   faults |-> faults]
MCBoards ==
  {B("SINGLE", "WINBOND", 4, FALSE, {}), B("SINGLE", "GIGADEVICE", 8, FALSE, {"fail"}),
   B("SINGLE", "MICRON", 32, FALSE, {"fail"}), B("STACKED", "ISSI", 8, FALSE, {}),
   B("STACKED", "SPANSION", 16, FALSE, {"lost"}),
   B("PARALLEL", "WINBOND", 8, FALSE, {}), B("PARALLEL", "MACRONIX", 16, FALSE, {}),
   B("PARALLEL", "SPANSION", 16, FALSE, {"fail", "lost"}),
   B("SINGLE", "MACRONIX", 16, TRUE, {"fail"}), B("STACKED", "MICRON", 32, TRUE, {}),
   B("PARALLEL", "MICRON", 32, TRUE, {}), B("PARALLEL", "MACRONIX", 32, TRUE, {})}

(***************************************************************************)
(* The driver serves them all.                                             *)
(***************************************************************************)
ASSUME BoardsAreServed == \A b \in MCBoards : Supported(b)
=============================================================================
