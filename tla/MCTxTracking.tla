--------------------------- MODULE MCTxTracking ---------------------------
(* One legacy transaction, valid for two blocks.                           *)
EXTENDS TxTracking, TLC

CONSTANTS t1

MCOne == {t1}
MCLvbh == [s \in Sigs |-> 2]
===========================================================================
