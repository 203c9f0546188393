------------------------ MODULE MCSolendPipeline ------------------------
(* Two families of behaviours, each from a state the program reaches: the  *)
(* tool calls up to their signing handoffs, with no POST left to come; and *)
(* the POSTs and the confirmation of handoffs already parked.              *)
EXTENDS SolendPipeline

CONSTANTS r1, r2, w1, w2, h1, h2, c1, c2

\* From the first tool call on; the POSTs are over before there is a handoff.
RequestsFirst ==
  /\ RequestInit /\ Quiet
  /\ hand = [h \in Handoffs |-> Free]
  /\ sub = [c \in Submits |-> [NoPost EXCEPT !.pc = "done"]]

\* r1 was approved and prepared once per handoff, its JIT-ready entry has run
\* out; r2 was blocked by the policy.
HandedOver ==
  /\ Quiet
  /\ hand = [h \in Handoffs |-> [pc |-> "parked", r |-> r1, wallet |-> w1,
                                 lvbh |-> 1 + Validity, live |-> TRUE]]
  /\ sub = [c \in Submits |-> NoPost]
  /\ bound = w1 /\ rebinds = 0
  /\ kind = [r \in Requests |-> "deposit"]
  /\ tool = [r \in Requests |-> [pc |-> IF r = r1 THEN "done" ELSE "refused", wallet |-> bound]]
  /\ park = [r \in Requests |-> Null] /\ jit = park
  /\ lapsed = {} /\ checked = {r1}
  /\ wf = [r \in Requests |-> IF r = r1 THEN "approved" ELSE "none"]
  /\ routing = [r \in Requests |-> "none"]
  /\ inbox = [r \in Requests |-> IF r = r1 THEN "approved" ELSE "none"]
  /\ task = [r \in Requests |-> IF r = r1 THEN "done" ELSE "none"]

MCSpec == (RequestsFirst \/ HandedOver) /\ [][PNext]_pVars /\ SFairness
===========================================================================
