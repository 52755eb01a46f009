------------------------- MODULE MCExternalSymbols -------------------------
(* ExternalSymbols on a few tables and names.                              *)
EXTENDS ExternalSymbols, TLC

TableSymmetry == Permutations(Tables)
=============================================================================
