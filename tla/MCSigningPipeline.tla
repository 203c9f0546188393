------------------------ MODULE MCSigningPipeline ------------------------
(* One proposal under a two-stage chain, two signature ids, two wallets.   *)
EXTENDS SigningPipeline, TLC

CONSTANTS r1, s1, s2, c1, c2, o1, o2

MCReqs == {r1}
MCSigIds == {s1, s2}
MCCallers == {c1, c2}
MCOperators == {o1, o2}
MCRoles == {"analyst", "chief"}
MCRolesOf == o1 :> {"analyst"} @@ o2 :> {"analyst", "chief"}

\* Two analysts, then the chief.
MCChain == <<[allowed |-> {"analyst"}, min |-> 2], [allowed |-> {"chief"}, min |-> 1]>>

===========================================================================
