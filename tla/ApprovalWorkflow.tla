------------------------- MODULE ApprovalWorkflow -------------------------
(***************************************************************************)
(* The approval workflow of crates/types/src/approval.rs and the decision  *)
(* ApprovalStore takes on it (crates/gateway/src/approval_store.rs), as    *)
(* functions of one workflow.  SigningPipeline holds the workflows and     *)
(* calls them.                                                             *)
(*                                                                         *)
(* A role a stage asks for, and the role a decision claims, are data of    *)
(* the decision: the route (crates/api/src/routes/approve.rs) has already  *)
(* turned the caller into an operator and a role.                          *)
(***************************************************************************)
EXTENDS Naturals, Sequences, FiniteSets

CONSTANTS
  Operators,  \* authenticated operators
  Anonymous,  \* a caller without an identity: operator_id is None
  Roles,      \* role names
  RolesOf,    \* operator -> the roles it is registered with
  Chain       \* the stages the policy verdict asks for: [allowed, min]

ASSUME AnonymousAssumption == Anonymous \notin Operators
ASSUME RolesOfAssumption == RolesOf \in [Operators -> SUBSET Roles]
ASSUME ChainAssumption ==
  /\ Chain \in Seq([allowed : SUBSET Roles, min : Nat \ {0}])
  /\ Chain # <<>>

Voters == Operators \cup {Anonymous}
Vote == [op : Voters, role : Roles \cup {"none"}, ok : BOOLEAN]
Stage == [allowed : SUBSET Roles, min : Nat \ {0}, votes : Seq(Vote)]
Terminal == {"approved", "rejected", "expired"}
Workflow == [state : {"pending"} \cup Terminal, stages : Seq(Stage), leased : BOOLEAN]

approval_count(st) == Cardinality({k \in DOMAIN st.votes : st.votes[k].ok})
quorum_met(st) == approval_count(st) >= st.min
has_rejection(st) == \E k \in DOMAIN st.votes : ~st.votes[k].ok
is_pending(st) == ~quorum_met(st) /\ ~has_rejection(st)
has_operator_voted(st, op) == \E k \in DOMAIN st.votes : st.votes[k].op = op

\* The workflow of a fresh request: every stage without a vote.  Leased: with
\* an expiry of its own (with_lease_seconds), which a recovered one lacks.
NewWorkflow(leased) ==
  [state |-> "pending", leased |-> leased,
   stages |-> [k \in DOMAIN Chain |->
                 [allowed |-> Chain[k].allowed, min |-> Chain[k].min, votes |-> <<>>]]]

PendingStages(wf) == {k \in DOMAIN wf.stages : is_pending(wf.stages[k])}

\* current_stage: the first stage that still needs decisions.
current_stage(wf) ==
  CHOOSE k \in PendingStages(wf) : \A j \in PendingStages(wf) : k <= j

\* Seeded fault: the first stage that reaches its quorum approves the request.
StageQuorumMet(wf) == \E k \in DOMAIN wf.stages : quorum_met(wf.stages[k])

AllQuorumsMet(wf) == \A k \in DOMAIN wf.stages : quorum_met(wf.stages[k])

\* apply_decision on a pending workflow with a pending stage.
apply_decision(wf, vote) ==
  LET k == current_stage(wf)
      st == [wf.stages[k] EXCEPT !.votes = Append(@, vote)]
      voted == [wf EXCEPT !.stages = [@ EXCEPT ![k] = st]]
  IN  [voted EXCEPT !.state =
         IF ~vote.ok THEN "rejected"
         ELSE IF AllQuorumsMet(voted) THEN "approved" ELSE @]

---------------------------------------------------------------------------
(* The route: which role a decision carries.                               *)

\* An operator with registered roles votes with one it holds; an operator
\* without any, and an anonymous caller, declare their own.
RolesClaimable(op) ==
  IF op \in Operators /\ RolesOf[op] # {} THEN RolesOf[op] ELSE Roles \cup {"none"}

---------------------------------------------------------------------------
(* ApprovalStore::decide on a registered workflow.                         *)

\* Role and dedup checks.  The dedup only knows authenticated operators.
Admissible(st, vote) ==
  /\ st.allowed = {} \/ vote.role \in st.allowed
  /\ vote.op \in Operators => ~has_operator_voted(st, vote.op)

\* The workflow decide leaves behind: terminal, role-mismatched and duplicate
\* calls change nothing, an expired lease is noticed here and nowhere else.
Decided(wf, vote, leaseUp) ==
  IF wf.state # "pending" THEN wf
  ELSE IF wf.leased /\ leaseUp THEN [wf EXCEPT !.state = "expired"]
  ELSE IF PendingStages(wf) # {} /\ Admissible(wf.stages[current_stage(wf)], vote)
    THEN apply_decision(wf, vote)
  ELSE wf

---------------------------------------------------------------------------
\* What a grant is worth: no stage was rejected, each stage has its quorum of
\* votes in an allowed role, and no authenticated operator counts twice in one.
Authorised(wf) ==
  \A k \in DOMAIN wf.stages :
    LET st == wf.stages[k] IN
    /\ ~has_rejection(st)
    /\ quorum_met(st)
    /\ \A v \in DOMAIN st.votes : st.allowed = {} \/ st.votes[v].role \in st.allowed
    /\ \A v, w \in DOMAIN st.votes :
         v # w => st.votes[v].op = Anonymous \/ st.votes[v].op # st.votes[w].op
===========================================================================
