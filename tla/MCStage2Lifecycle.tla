------------------------- MODULE MCStage2Lifecycle -------------------------
(* Overlapping watcher and executor frames over one or two rules.          *)
EXTENDS Stage2Lifecycle, TLC

CONSTANTS r1, r2, t1, t2, j1, j2, j3

\* The last executor frame runs in a process of its own: within the first
\* process frames meet at the in-flight sets, across processes only at the
\* statements of the store.
MCProcessOf == [f \in Frames |-> IF f = j3 THEN 2 ELSE 1]

===========================================================================
