--------------------------- MODULE MCHistoryTable ---------------------------
(* TLC instances of HistoryTable.                                          *)
EXTENDS HistoryTable, TLC

(* The names are only compared for equality. *)
NameSymmetry == Permutations(Names)

=============================================================================
