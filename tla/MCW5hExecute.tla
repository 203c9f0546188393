--------------------------- MODULE MCW5hExecute ---------------------------
(* Funded orders executed by the watcher and by manual approvals.          *)
EXTENDS W5hExecute, TLC

CONSTANTS i1, i2, i3, u1, f1, x1, x2, m1, w

\* Equal amounts, so that two executions may build the same transaction.
MCAmount == [i \in Intents |-> 2]

\* The first order asks for more than the second.
MCThreshold == [i \in Intents |-> IF i = i1 THEN 1 ELSE 0]

MCAllFaults == FaultKinds \ {"lost_response"}

\* Faults before the broadcast, which lose no task and no statement.
MCLiveFaults == {"build_failed", "rejected"}

MCSymmetry == Permutations(ExecSigs)

===========================================================================
