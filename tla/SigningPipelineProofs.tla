---------------------- MODULE SigningPipelineProofs ----------------------
(***************************************************************************)
(* Theorems about the signing pipeline: for any proposals, operators,      *)
(* roles and stages, any number of concurrent wallets, failing writes and  *)
(* crashes at any time.                                                    *)
(*                                                                         *)
(* The argument follows the two durable rows.  A request that can still be *)
(* handed over has a pending approval row, which the hand-over consumes    *)
(* first; a signature that can still be sent is in the orchestrator's map, *)
(* held by one call, or behind a pending signature row.  Where the write   *)
(* that consumes a row fails the request is excused.  The approval itself  *)
(* rests on the votes: no step appends one that its stage would not admit. *)
(***************************************************************************)
EXTENDS SigningPipeline, SequenceTheorems, TLAPS

TaskPcs == {"new", "persist", "announce", "gone", "wait", "submit", "record", "done"}
Task == [pc : TaskPcs, s : SigIds \cup {Null}, auto : BOOLEAN]
Call == [pc : {"idle", "mark", "send"}, s : SigIds \cup {Null}, ok : BOOLEAN]
RowStates == {"none", "pending", "consumed", "rejected", "expired"}

\* The stores and the frames are well formed.
SignType ==
  /\ wf \in [Reqs -> Workflow \cup {Null}]
  /\ listed \subseteq Reqs
  /\ routing \in [Reqs -> {"none"} \cup Terminal]
  /\ channel \in [Reqs -> {"none", "open"} \cup Terminal]
  /\ task \in [Reqs -> Task]
  /\ \A r \in Reqs : task[r].pc = "record" => task[r].s \in SigIds
  /\ apRow \in [Reqs -> RowStates]
  /\ orch \subseteq SigIds
  /\ owner \in [SigIds -> Reqs \cup {Null}]
  /\ sigRow \in [SigIds -> RowStates]
  /\ call \in [Callers -> Call]
  /\ \A c \in Callers : call[c].pc # "idle" => call[c].s \in SigIds
  /\ reaping \in SigIds \cup {Null}
  /\ handed \in [Reqs -> Nat] /\ sent \in [Reqs -> Nat]
  /\ excused \subseteq Reqs

\* A request that can still be handed over has not been: it has no row yet, or
\* its task waits behind a pending one.
RowGuardsHandOver ==
  \A r \in Reqs :
    /\ task[r].pc \in {"new", "persist"} \/ (task[r].pc = "submit" /\ task[r].auto)
         => handed[r] = 0 /\ apRow[r] = "none"
    /\ task[r].pc \in {"persist", "announce", "wait"} => ~task[r].auto
    /\ task[r].pc \in {"announce", "wait"} => apRow[r] = "pending"
    /\ r \notin excused =>
         /\ handed[r] <= 1
         /\ apRow[r] = "pending" \/ task[r].pc = "submit" => handed[r] = 0
         /\ task[r].pc = "submit" => apRow[r] # "pending"

\* A call that has taken the entry of s.
Busy(c, s) == call[c].pc # "idle" /\ call[c].s = s

\* A signature id is unused until it is minted for a request, and a request
\* that was not handed over has none and was not sent.
IdsAreFresh ==
  /\ \A s \in SigIds : owner[s] = Null =>
       s \notin orch /\ sigRow[s] = "none" /\ \A c \in Callers : ~Busy(c, s)
  /\ \A r \in Reqs : handed[r] = 0 => sent[r] = 0 /\ \A s \in SigIds : owner[s] # r
  /\ \A r \in Reqs : task[r].pc = "record" => owner[task[r].s] = r

\* The signature of r that can still be sent is in one place, and nothing was
\* sent: in the orchestrator, with one call, or behind a pending row.
SentFromOnePlace(r, s) ==
  /\ \A t \in SigIds : owner[t] = r => t = s
  /\ sent[r] > 0 => s \notin orch /\ sigRow[s] # "pending"
  /\ \A c \in Callers : Busy(c, s) =>
       /\ s \notin orch /\ sent[r] = 0
       /\ call[c].pc = "send" => sigRow[s] # "pending"
       /\ \A d \in Callers : Busy(d, s) => d = c

RowGuardsSend ==
  \A r \in Reqs : r \notin excused =>
    /\ sent[r] <= 1
    /\ \A s \in SigIds : owner[s] = r => SentFromOnePlace(r, s)

\* The votes of a stage: in a role it allows, no operator twice.
VotesCount(st) ==
  /\ \A v \in DOMAIN st.votes : st.allowed = {} \/ st.votes[v].role \in st.allowed
  /\ \A v, w \in DOMAIN st.votes :
       v # w => st.votes[v].op = Anonymous \/ st.votes[v].op # st.votes[w].op

\* Every stage holds votes that count; a rejection ends the workflow, and an
\* approval has every quorum.
Sound(w) ==
  /\ \A k \in DOMAIN w.stages : VotesCount(w.stages[k])
  /\ w.state # "rejected" => \A k \in DOMAIN w.stages : ~has_rejection(w.stages[k])
  /\ w.state = "approved" => \A k \in DOMAIN w.stages : quorum_met(w.stages[k])

Approved(r) == wf[r] # Null /\ wf[r].state = "approved"

\* What is on its way to the task as approved, and what the task submits, is
\* an approved workflow.
ApprovalStands ==
  \A r \in Reqs :
    /\ wf[r] # Null => Sound(wf[r])
    /\ r \in listed => wf[r] # Null
    /\ task[r].pc \in {"new", "persist"} => wf[r] = Null
    /\ \/ routing[r] = "approved" \/ channel[r] = "approved"
       \/ task[r].pc = "submit" /\ ~task[r].auto
       => Approved(r)

SignInv ==
  /\ SignType /\ RowGuardsHandOver /\ IdsAreFresh /\ RowGuardsSend /\ ApprovalStands

---------------------------------------------------------------------------
(* The workflow.                                                           *)

\* A fresh workflow is pending and sound.
LEMMA NewWorkflowIsSound ==
  ASSUME NEW leased \in BOOLEAN
  PROVE  LET w == NewWorkflow(leased) IN w \in Workflow /\ Sound(w) /\ w.state = "pending"
<1> DEFINE st(k) == [allowed |-> Chain[k].allowed, min |-> Chain[k].min, votes |-> <<>>]
           sts == [k \in DOMAIN Chain |-> st(k)]
           w == NewWorkflow(leased)
<1>1. \A k \in DOMAIN Chain : st(k) \in Stage /\ st(k).votes = <<>>
  <2>1. \A k \in DOMAIN Chain : Chain[k] \in [allowed : SUBSET Roles, min : Nat \ {0}]
    <3>1. \A k \in 1..Len(Chain) : Chain[k] \in [allowed : SUBSET Roles, min : Nat \ {0}]
      BY ChainAssumption, ElementOfSeq
    <3> QED BY <3>1, ChainAssumption
  <2>2. <<>> \in Seq(Vote)
    OBVIOUS
  <2> QED BY <2>1, <2>2 DEF Stage
<1>2. DOMAIN Chain = 1..Len(Chain) /\ Len(Chain) \in Nat
  BY ChainAssumption
<1> HIDE DEF st
<1>3. sts \in Seq(Stage) /\ \A k \in DOMAIN sts : sts[k].votes = <<>>
  BY <1>1, <1>2
<1>4. w = [state |-> "pending", leased |-> leased, stages |-> sts]
  BY DEF NewWorkflow, st
<1> HIDE DEF sts, w
<1>5. w \in Workflow /\ w.state = "pending" /\ w.stages = sts
  BY <1>3, <1>4 DEF Workflow, Terminal
<1>6. Sound(w)
  BY <1>3, <1>5 DEF Sound, VotesCount, has_rejection
<1> QED BY <1>5, <1>6 DEF w

\* A vote that a stage admits leaves it with votes that count.
LEMMA AdmittedVoteCounts ==
  ASSUME NEW st \in Stage, NEW vote \in Vote, VotesCount(st), Admissible(st, vote)
  PROVE  LET y == [st EXCEPT !.votes = Append(@, vote)] IN
           /\ y \in Stage /\ VotesCount(y)
           /\ vote.ok /\ ~has_rejection(st) => ~has_rejection(y)
<1> DEFINE y == [st EXCEPT !.votes = Append(@, vote)]
           n == Len(st.votes)
<1>1. st.votes \in Seq(Vote) /\ Append(st.votes, vote) \in Seq(Vote)
  BY DEF Stage
<1>2. y \in Stage /\ y.votes = Append(st.votes, vote) /\ y.allowed = st.allowed
  BY <1>1 DEF Stage
<1>3. /\ n \in Nat /\ DOMAIN st.votes = 1..n /\ DOMAIN y.votes = 1..(n + 1)
      /\ \A v \in 1..n : y.votes[v] = st.votes[v]
      /\ y.votes[n + 1] = vote
  BY <1>1, <1>2
<1>4. \A v \in DOMAIN y.votes : v \in DOMAIN st.votes \/ v = n + 1
  BY <1>3
<1> HIDE DEF y, n
<1>5. \A v \in DOMAIN y.votes : y.allowed = {} \/ y.votes[v].role \in y.allowed
  BY <1>2, <1>3, <1>4 DEF VotesCount, Admissible
<1>6. ASSUME NEW v \in DOMAIN st.votes
      PROVE  vote.op = Anonymous \/ st.votes[v].op # vote.op
  BY <1>6 DEF Admissible, has_operator_voted, Vote, Voters
<1>7. ASSUME NEW v \in DOMAIN y.votes, NEW w \in DOMAIN y.votes, v # w
      PROVE  y.votes[v].op = Anonymous \/ y.votes[v].op # y.votes[w].op
  <2>1. CASE v \in DOMAIN st.votes /\ w \in DOMAIN st.votes
    BY <1>3, <1>7, <2>1 DEF VotesCount
  <2>2. CASE v \in DOMAIN st.votes /\ w = n + 1
    BY <1>3, <1>6, <2>2
  <2>3. CASE v = n + 1 /\ w \in DOMAIN st.votes
    BY <1>3, <1>6, <2>3
  <2> QED BY <1>4, <1>7, <2>1, <2>2, <2>3
<1>8. vote.ok /\ ~has_rejection(st) => ~has_rejection(y)
  BY <1>3, <1>4 DEF has_rejection
<1> QED BY <1>2, <1>5, <1>7, <1>8 DEF VotesCount, y

\* ApprovalStore::decide keeps a workflow sound, and a decided one as it is.
LEMMA DecidedIsSound ==
  ASSUME NEW w \in Workflow, NEW vote \in Vote, NEW up \in BOOLEAN, Sound(w)
  PROVE  LET d == Decided(w, vote, up) IN
           /\ d \in Workflow /\ Sound(d)
           /\ w.state # "pending" => d = w
<1>1. CASE w.state # "pending"
  BY <1>1 DEF Decided
<1>2. CASE w.state = "pending" /\ w.leased /\ up
  <2> DEFINE d == [w EXCEPT !.state = "expired"]
  <2>1. d \in Workflow /\ d.state = "expired" /\ d.stages = w.stages
    BY DEF Workflow, Terminal
  <2>2. Decided(w, vote, up) = d
    BY <1>2 DEF Decided
  <2> HIDE DEF d
  <2>3. Sound(d)
    BY <1>2, <2>1 DEF Sound
  <2> QED BY <1>2, <2>1, <2>2, <2>3
<1>3. CASE /\ w.state = "pending" /\ ~(w.leased /\ up)
           /\ PendingStages(w) # {} /\ Admissible(w.stages[current_stage(w)], vote)
  <2> DEFINE k == current_stage(w)
             y == [w.stages[k] EXCEPT !.votes = Append(@, vote)]
             sts == [w.stages EXCEPT ![k] = y]
             voted == [w EXCEPT !.stages = sts]
             o == IF ~vote.ok THEN "rejected"
                  ELSE IF AllQuorumsMet(voted) THEN "approved" ELSE voted.state
             d == [voted EXCEPT !.state = o]
  <2>1. Decided(w, vote, up) = d
    <3>1. Decided(w, vote, up) = apply_decision(w, vote)
      BY <1>3 DEF Decided
    <3>2. apply_decision(w, vote) = d
      BY DEF apply_decision
    <3> QED BY <3>1, <3>2
  <2>2. w.stages \in Seq(Stage) /\ \A j \in DOMAIN w.stages : w.stages[j] \in Stage
    BY DEF Workflow
  <2>3. k \in DOMAIN w.stages => /\ y \in Stage /\ VotesCount(y)
                                 /\ vote.ok => ~has_rejection(y)
    BY <1>3, <2>2, AdmittedVoteCounts DEF Sound
  <2> HIDE DEF k, y
  <2>4. /\ sts \in Seq(Stage) /\ DOMAIN sts = DOMAIN w.stages
        /\ \A j \in DOMAIN sts : VotesCount(sts[j]) /\ (vote.ok => ~has_rejection(sts[j]))
    <3>1. \A j \in DOMAIN w.stages : VotesCount(w.stages[j]) /\ ~has_rejection(w.stages[j])
      BY <1>3 DEF Sound
    <3>2. DOMAIN sts = DOMAIN w.stages /\ \A j \in DOMAIN sts : sts[j] \in {w.stages[j], y}
                                       /\ (j # k => sts[j] = w.stages[j])
      BY <2>2
    <3>3. sts \in Seq(Stage)
      <4>1. CASE k \in DOMAIN w.stages
        BY <2>2, <2>3, <4>1, ExceptSeq
      <4>2. CASE k \notin DOMAIN w.stages
        <5>1. sts = w.stages
          BY <2>2, <4>2
        <5> QED BY <2>2, <5>1
      <4> QED BY <4>1, <4>2
    <3>4. \A j \in DOMAIN sts : VotesCount(sts[j]) /\ (vote.ok => ~has_rejection(sts[j]))
      BY <2>3, <3>1, <3>2
    <3> QED BY <3>2, <3>3, <3>4
  <2> HIDE DEF sts
  <2>5. voted \in Workflow /\ voted.stages = sts /\ voted.state = "pending"
    BY <1>3, <2>4 DEF Workflow
  <2> HIDE DEF voted
  <2>6. /\ o \in {"rejected", "approved", "pending"}
        /\ o # "rejected" => vote.ok
        /\ o = "approved" => AllQuorumsMet(voted)
    BY <2>5
  <2> HIDE DEF o
  <2>7. d \in Workflow /\ d.stages = sts /\ d.state = o
    BY <2>5, <2>6 DEF Workflow, Terminal
  <2> HIDE DEF d
  <2>8. Sound(d)
    BY <2>4, <2>5, <2>6, <2>7 DEF Sound, AllQuorumsMet
  <2> QED BY <1>3, <2>1, <2>7, <2>8
<1> QED BY <1>1, <1>2, <1>3 DEF Decided

---------------------------------------------------------------------------
(* What each half of the pipeline leaves alone.                            *)

\* A request moves to pc and keeps the rest of its task.
LEMMA TaskMove ==
  ASSUME SignType, NEW r \in Reqs, NEW p \in TaskPcs \ {"record"},
         task' = [task EXCEPT ![r].pc = p]
  PROVE  /\ task' \in [Reqs -> Task]
         /\ \A q \in Reqs : task'[q].pc = "record" => task'[q].s \in SigIds
         /\ task'[r].pc = p /\ task'[r].auto = task[r].auto
         /\ \A q \in Reqs : q # r => task'[q] = task[q]
<1> DEFINE y == [task[r] EXCEPT !.pc = p]
<1>1. y \in Task /\ y.pc = p /\ y.auto = task[r].auto
  BY DEF SignType, Task
<1>2. task' = [task EXCEPT ![r] = y]
  OBVIOUS
<1> HIDE DEF y
<1> QED BY <1>1, <1>2 DEF SignType

\* The steps up to the hand-over leave the signatures alone.
LEMMA SendsKept ==
  ASSUME SignInv, UNCHANGED <<orch, owner, sigRow, call, handed, sent>>,
         excused \subseteq excused',
         \A r \in Reqs : task'[r].pc = "record" => task'[r] = task[r]
  PROVE  IdsAreFresh' /\ RowGuardsSend'
<1>1. \A c \in Callers, s \in SigIds : Busy(c, s)' <=> Busy(c, s)
  BY DEF Busy
<1>2. \A r \in Reqs, s \in SigIds : SentFromOnePlace(r, s) => SentFromOnePlace(r, s)'
  BY <1>1 DEF SentFromOnePlace
<1>3. IdsAreFresh'
  BY <1>1 DEF SignInv, IdsAreFresh
<1>4. RowGuardsSend'
  BY <1>2 DEF SignInv, RowGuardsSend
<1> QED BY <1>3, <1>4

\* The steps after the hand-over leave the approvals and their rows alone.
LEMMA ApprovalsKept ==
  ASSUME SignInv, UNCHANGED <<wf, listed, routing, channel, apRow, handed>>,
         excused \subseteq excused',
         \A r \in Reqs : task'[r].pc \in {"new", "persist", "announce", "wait", "submit"}
                        => task'[r] = task[r]
  PROVE  RowGuardsHandOver' /\ ApprovalStands'
<1>1. RowGuardsHandOver'
  BY DEF SignInv, RowGuardsHandOver
<1>2. ApprovalStands'
  BY DEF SignInv, ApprovalStands, Approved
<1> QED BY <1>1, <1>2

---------------------------------------------------------------------------
(* Up to the hand-over.                                                    *)

\* Marked leaves a row as it is or writes the label over a pending one.
LEMMA MarkedRow ==
  ASSUME NEW st \in RowStates, NEW l \in RowStates, NEW ok
  PROVE  /\ Marked(st, l, ok) \in RowStates
         /\ Marked(st, l, ok) = "pending" => st = "pending"
         /\ st = "none" => Marked(st, l, ok) = "none"
         /\ ok /\ l # "pending" => Marked(st, l, ok) # "pending"
BY DEF Marked

\* A task that ends behind its row.
LEMMA TaskEnds ==
  ASSUME SignInv, NEW r \in Reqs, task[r].pc = "wait", NEW l \in RowStates, NEW ok \in BOOLEAN,
         apRow' = [apRow EXCEPT ![r] = Marked(@, l, ok)],
         Unpark(r), task' = [task EXCEPT ![r].pc = "done"],
         UNCHANGED <<wf, listed, leaseUp, routing, signer, call, reaping, restarts, history>>
  PROVE  SignInv'
<1>1. /\ task' \in [Reqs -> Task]
      /\ \A q \in Reqs : task'[q].pc = "record" => task'[q].s \in SigIds
      /\ task'[r].pc = "done"
      /\ \A q \in Reqs : q # r => task'[q] = task[q]
  BY TaskMove DEF SignInv, TaskPcs
<1>2. /\ apRow' \in [Reqs -> RowStates]
      /\ apRow'[r] = "pending" => apRow[r] = "pending"
      /\ \A q \in Reqs : q # r => apRow'[q] = apRow[q]
  BY MarkedRow DEF SignInv, SignType
<1>3. /\ channel' \in [Reqs -> {"none", "open"} \cup Terminal]
      /\ \A q \in Reqs : channel'[q] = "approved" => channel[q] = "approved"
  BY DEF Unpark, SignInv, SignType
<1>4. UNCHANGED <<wf, listed, routing, orch, owner, sigRow, call, reaping, handed, sent, excused>>
  BY DEF signer, history
<1>5. SignType'
  BY <1>1, <1>2, <1>3, <1>4 DEF SignInv, SignType
<1>6. RowGuardsHandOver'
  BY <1>1, <1>2, <1>4 DEF SignInv, RowGuardsHandOver
<1>7. ApprovalStands'
  BY <1>1, <1>3, <1>4 DEF SignInv, ApprovalStands, Approved
<1>8. IdsAreFresh' /\ RowGuardsSend'
  BY <1>1, <1>4, SendsKept
<1> QED BY <1>5, <1>6, <1>7, <1>8 DEF SignInv

\* The tool, up to a parked request.
LEMMA ToolSteps ==
  ASSUME SignInv, NEW r \in Reqs,
         Propose(r) \/ ParkForApproval(r) \/ SpawnResume(r) \/ ToolDropped(r)
  PROVE  SignInv'
<1>1. CASE Propose(r)
  <2>1. PICK p \in {"done", "submit", "persist"} :
          task' = [task EXCEPT ![r] = [pc |-> p, s |-> Null, auto |-> p = "submit"]]
    BY <1>1 DEF Propose
  <2> DEFINE y == [pc |-> p, s |-> Null, auto |-> p = "submit"]
  <2>2. y \in Task /\ y.pc = p /\ (y.auto <=> p = "submit")
    BY DEF Task, TaskPcs
  <2>3. task' = [task EXCEPT ![r] = y]
    BY <2>1
  <2> HIDE DEF y
  <2>4. /\ task' \in [Reqs -> Task] /\ task'[r].pc = p /\ (task'[r].auto <=> p = "submit")
        /\ \A q \in Reqs : q # r => task'[q] = task[q]
    BY <2>2, <2>3 DEF SignInv, SignType
  <2>5. /\ task[r].pc = "new"
        /\ UNCHANGED <<wf, listed, routing, channel, apRow, orch, owner, sigRow, call, reaping,
                       handed, sent, excused>>
    BY <1>1 DEF Propose, store, signer, history
  <2>6. SignType'
    BY <2>4, <2>5 DEF SignInv, SignType
  <2>7. RowGuardsHandOver'
    BY <2>4, <2>5 DEF SignInv, RowGuardsHandOver
  <2>8. ApprovalStands'
    BY <2>4, <2>5 DEF SignInv, ApprovalStands, Approved
  <2>9. IdsAreFresh' /\ RowGuardsSend'
    BY <2>4, <2>5, SendsKept
  <2> QED BY <2>6, <2>7, <2>8, <2>9 DEF SignInv
<1>2. CASE ParkForApproval(r)
  <2>1. /\ task[r].pc = "persist"
        /\ UNCHANGED <<routing, orch, owner, sigRow, call, reaping, handed, sent, excused>>
    BY <1>2 DEF ParkForApproval, signer, history
  <2>2. handed[r] = 0 /\ apRow[r] = "none" /\ wf[r] = Null /\ routing[r] # "approved"
    BY <2>1 DEF SignInv, RowGuardsHandOver, ApprovalStands, Approved
  <2>3. CASE /\ apRow' = [apRow EXCEPT ![r] = "pending"]
             /\ wf' = [wf EXCEPT ![r] = NewWorkflow(Leased)]
             /\ listed' = listed \cup {r}
             /\ channel' = [channel EXCEPT ![r] = "open"]
             /\ task' = [task EXCEPT ![r].pc = "announce"]
    <3>1. /\ task' \in [Reqs -> Task]
          /\ \A q \in Reqs : task'[q].pc = "record" => task'[q].s \in SigIds
          /\ task'[r].pc = "announce" /\ task'[r].auto = task[r].auto
          /\ \A q \in Reqs : q # r => task'[q] = task[q]
      BY <2>3, TaskMove DEF SignInv, TaskPcs
    <3>2. /\ wf' \in [Reqs -> Workflow \cup {Null}]
          /\ wf'[r] \in Workflow /\ Sound(wf'[r])
          /\ \A q \in Reqs : q # r => wf'[q] = wf[q]
      BY <2>3, NewWorkflowIsSound, SigningBounds DEF SignInv, SignType
    <3>3. wf'[r] # Null
      BY <3>2, SigningBounds
    <3>4. SignType'
      BY <2>1, <2>3, <3>1, <3>2 DEF SignInv, SignType, RowStates
    <3>5. RowGuardsHandOver'
      BY <2>1, <2>2, <2>3, <3>1 DEF SignInv, SignType, RowGuardsHandOver
    <3>6. ApprovalStands'
      BY <2>1, <2>2, <2>3, <3>1, <3>2, <3>3 DEF SignInv, SignType, ApprovalStands, Approved
    <3>7. IdsAreFresh' /\ RowGuardsSend'
      BY <2>1, <3>1, SendsKept
    <3> QED BY <3>4, <3>5, <3>6, <3>7 DEF SignInv
  <2>4. CASE /\ task' = [task EXCEPT ![r].pc = "done"]
             /\ UNCHANGED <<apRow, wf, listed, channel>>
    <3>1. /\ task' \in [Reqs -> Task]
          /\ \A q \in Reqs : task'[q].pc = "record" => task'[q].s \in SigIds
          /\ task'[r].pc = "done"
          /\ \A q \in Reqs : q # r => task'[q] = task[q]
      BY <2>4, TaskMove DEF SignInv, TaskPcs
    <3>2. SignType'
      BY <2>1, <2>4, <3>1 DEF SignInv, SignType
    <3>3. RowGuardsHandOver' /\ ApprovalStands'
      BY <2>1, <2>4, <3>1, ApprovalsKept
    <3>4. IdsAreFresh' /\ RowGuardsSend'
      BY <2>1, <3>1, SendsKept
    <3> QED BY <3>2, <3>3, <3>4 DEF SignInv
  <2> QED BY <1>2, <2>3, <2>4 DEF ParkForApproval, ParkAllowed
<1>3. CASE SpawnResume(r) \/ ToolDropped(r)
  <2>1. PICK p \in {"wait", "gone", "done"} :
          /\ task' = [task EXCEPT ![r].pc = p]
          /\ p = "wait" => task[r].pc = "announce"
    BY <1>3 DEF SpawnResume, ToolDropped
  <2>2. /\ \/ task[r].pc \in {"persist", "announce"}
           \/ task[r].pc = "submit" /\ task[r].auto
        /\ \/ UNCHANGED apRow
           \/ task[r].pc = "persist" /\ apRow' = [apRow EXCEPT ![r] = "pending"] /\ p # "wait"
        /\ UNCHANGED <<wf, listed, routing, channel, orch, owner, sigRow, call, reaping,
                       handed, sent, excused>>
    <3>1. CASE SpawnResume(r)
      BY <3>1 DEF SpawnResume, store, signer, history
    <3>2. CASE ToolDropped(r)
      BY <2>1, <3>2 DEF ToolDropped, signer, history
    <3> QED BY <1>3, <3>1, <3>2
  <2>3. /\ task' \in [Reqs -> Task]
        /\ \A q \in Reqs : task'[q].pc = "record" => task'[q].s \in SigIds
        /\ task'[r].pc = p /\ task'[r].auto = task[r].auto
        /\ \A q \in Reqs : q # r => task'[q] = task[q]
    BY <2>1, TaskMove DEF SignInv, TaskPcs
  <2>4. /\ apRow' \in [Reqs -> RowStates]
        /\ \A q \in Reqs : q # r => apRow'[q] = apRow[q]
        /\ apRow'[r] = apRow[r] \/ (task[r].pc = "persist" /\ p # "wait")
    BY <2>2 DEF SignInv, SignType, RowStates
  <2>5. SignType'
    BY <2>2, <2>3, <2>4 DEF SignInv, SignType
  <2>6. RowGuardsHandOver'
    BY <2>1, <2>2, <2>3, <2>4 DEF SignInv, RowGuardsHandOver
  <2>7. ApprovalStands'
    BY <2>2, <2>3 DEF SignInv, ApprovalStands, Approved
  <2>8. IdsAreFresh' /\ RowGuardsSend'
    BY <2>2, <2>3, SendsKept
  <2> QED BY <2>5, <2>6, <2>7, <2>8 DEF SignInv
<1> QED BY <1>1, <1>2, <1>3

\* Operators decide and the outcome is signalled; the lease runs out.
LEMMA OperatorSteps ==
  ASSUME SignInv, NEW r \in Reqs,
         LeaseRunsOut(r) \/ Signal(r) \/ \E vote \in Vote : Decide(r, vote)
  PROVE  SignInv'
<1>1. UNCHANGED <<apRow, task, orch, owner, sigRow, call, reaping, handed, sent, excused>>
  BY DEF LeaseRunsOut, Signal, Decide, signer, history
<1>2. RowGuardsHandOver'
  BY <1>1 DEF SignInv, RowGuardsHandOver
<1>3. IdsAreFresh' /\ RowGuardsSend'
  BY <1>1, SendsKept
<1>4. CASE LeaseRunsOut(r)
  <2>1. UNCHANGED <<wf, listed, routing, channel>>
    BY <1>4 DEF LeaseRunsOut
  <2>2. SignType'
    BY <1>1, <2>1 DEF SignInv, SignType
  <2>3. ApprovalStands'
    BY <1>1, <2>1 DEF SignInv, ApprovalStands, Approved
  <2> QED BY <1>2, <1>3, <2>2, <2>3 DEF SignInv
<1>5. CASE Signal(r)
  <2>1. /\ UNCHANGED <<wf, listed>>
        /\ routing' \in [Reqs -> {"none"} \cup Terminal]
        /\ channel' \in [Reqs -> {"none", "open"} \cup Terminal]
        /\ \A q \in Reqs : /\ routing'[q] = "approved" => routing[q] = "approved"
                           /\ channel'[q] = "approved" =>
                                channel[q] = "approved" \/ routing[q] = "approved"
    BY <1>5 DEF Signal, SignInv, SignType
  <2>2. SignType'
    BY <1>1, <2>1 DEF SignInv, SignType
  <2>3. ApprovalStands'
    BY <1>1, <2>1 DEF SignInv, ApprovalStands, Approved
  <2> QED BY <1>2, <1>3, <2>2, <2>3 DEF SignInv
<1>6. ASSUME NEW vote \in Vote, Decide(r, vote)
      PROVE  SignInv'
  <2> DEFINE w == Decided(wf[r], vote, r \in leaseUp)
  <2>1. /\ r \in listed /\ w # wf[r] /\ wf' = [wf EXCEPT ![r] = w]
        /\ listed' \in {listed, listed \ {r}}
        /\ routing' = IF w.state \in Terminal THEN [routing EXCEPT ![r] = w.state] ELSE routing
        /\ UNCHANGED channel
    BY <1>6 DEF Decide
  <2>2. wf[r] \in Workflow /\ wf[r] # Null /\ Sound(wf[r])
    BY <2>1 DEF SignInv, SignType, ApprovalStands
  <2>3. w \in Workflow /\ Sound(w) /\ wf[r].state = "pending"
    <3>1. (r \in leaseUp) \in BOOLEAN
      OBVIOUS
    <3> QED BY <2>1, <2>2, <3>1, DecidedIsSound
  <2>4. w # Null
    BY <2>3, SigningBounds
  <2> HIDE DEF w
  <2>5. /\ routing' \in [Reqs -> {"none"} \cup Terminal]
        /\ \A q \in Reqs : q # r => routing'[q] = routing[q]
        /\ routing'[r] = "approved" => w.state = "approved" \/ routing[r] = "approved"
    BY <2>1 DEF SignInv, SignType
  <2>6. SignType'
    BY <1>1, <2>1, <2>3, <2>5 DEF SignInv, SignType
  <2>7. ~Approved(r)
    BY <2>3 DEF Approved
  <2>8. ApprovalStands'
    BY <1>1, <2>1, <2>2, <2>3, <2>4, <2>5, <2>7 DEF SignInv, SignType, ApprovalStands, Approved
  <2> QED BY <1>2, <1>3, <2>6, <2>8 DEF SignInv
<1> QED BY <1>4, <1>5, <1>6

\* resume_after_approval.
LEMMA TaskSteps ==
  ASSUME SignInv, NEW r \in Reqs, TaskStep(r)
  PROVE  SignInv'
<1>1. CASE TaskTimesOut(r)
  BY <1>1, TaskEnds DEF TaskTimesOut, RowStates
<1>2. CASE TaskRefused(r)
  <2>1. channel[r] \in RowStates
    BY <1>2 DEF TaskRefused, RowStates
  <2> QED BY <1>2, <2>1, TaskEnds DEF TaskRefused
<1>3. CASE TaskApproved(r)
  <2>1. PICK ok \in BOOLEAN :
          /\ apRow' = [apRow EXCEPT ![r] = Marked(apRow[r], "consumed", ok)]
          /\ excused' = IF ok THEN excused ELSE excused \cup {r}
    BY <1>3 DEF TaskApproved, ConsumedRow
  <2>2. /\ task[r].pc = "wait" /\ channel[r] = "approved"
        /\ task' = [task EXCEPT ![r].pc = "submit"]
        /\ UNCHANGED <<wf, listed, routing, orch, owner, sigRow, call, reaping, handed, sent>>
    BY <1>3 DEF TaskApproved, ApprovedAnswer, signer
  <2>3. /\ task' \in [Reqs -> Task]
        /\ \A q \in Reqs : task'[q].pc = "record" => task'[q].s \in SigIds
        /\ task'[r].pc = "submit" /\ task'[r].auto = task[r].auto
        /\ \A q \in Reqs : q # r => task'[q] = task[q]
    BY <2>2, TaskMove DEF SignInv, TaskPcs
  <2>4. /\ apRow' \in [Reqs -> RowStates]
        /\ ok => apRow'[r] # "pending"
        /\ \A q \in Reqs : q # r => apRow'[q] = apRow[q]
    BY <2>1, MarkedRow DEF SignInv, SignType, RowStates
  <2>5. /\ channel' \in [Reqs -> {"none", "open"} \cup Terminal]
        /\ \A q \in Reqs : channel'[q] = "approved" => channel[q] = "approved"
    BY <1>3 DEF TaskApproved, Unpark, SignInv, SignType
  <2>6. excused \subseteq excused' /\ excused' \subseteq Reqs /\ (~ok => r \in excused')
    BY <2>1 DEF SignInv, SignType
  <2>7. SignType'
    BY <2>2, <2>3, <2>4, <2>5, <2>6 DEF SignInv, SignType
  <2>8. apRow[r] = "pending" /\ Approved(r) /\ ~task[r].auto
    BY <2>2 DEF SignInv, RowGuardsHandOver, ApprovalStands
  <2>9. RowGuardsHandOver'
    BY <2>2, <2>3, <2>4, <2>6, <2>8 DEF SignInv, RowGuardsHandOver
  <2>10. ApprovalStands'
    BY <2>2, <2>3, <2>5, <2>8 DEF SignInv, ApprovalStands, Approved
  <2>11. IdsAreFresh' /\ RowGuardsSend'
    BY <2>2, <2>3, <2>6, SendsKept
  <2> QED BY <2>7, <2>9, <2>10, <2>11 DEF SignInv
<1> QED BY <1>1, <1>2, <1>3 DEF TaskStep

---------------------------------------------------------------------------
(* The hand-over.                                                          *)

\* submit: a fresh id for a request that has none, a signature of its own, or
\* an error.
LEMMA SubmitSteps ==
  ASSUME SignInv, NEW r \in Reqs, SubmitStep(r)
  PROVE  SignInv'
<1>0. task[r].pc = "submit"
  BY DEF SubmitStep, SubmitPending, SubmitSigned, SubmitFails
<1>1. /\ r \notin excused => handed[r] = 0 /\ sent[r] = 0 /\ \A s \in SigIds : owner[s] # r
      /\ r \notin excused => apRow[r] # "pending"
  BY <1>0 DEF SignInv, RowGuardsHandOver, IdsAreFresh
<1>2. CASE SubmitPending(r)
  <2>1. PICK s \in SigIds : /\ owner[s] = Null
                            /\ orch' = orch \cup {s}
                            /\ owner' = [owner EXCEPT ![s] = r]
                            /\ task' = [task EXCEPT ![r] = [@ EXCEPT !.pc = "record", !.s = s]]
    BY <1>2 DEF SubmitPending, Fresh
  <2>2. /\ handed' = [handed EXCEPT ![r] = @ + 1]
        /\ UNCHANGED <<wf, listed, routing, channel, apRow, sigRow, call, reaping, sent, excused>>
    BY <1>2 DEF SubmitPending, store
  <2> DEFINE y == [task[r] EXCEPT !.pc = "record", !.s = s]
  <2>3. y \in Task /\ y.pc = "record" /\ y.s = s
    BY DEF SignInv, SignType, Task, TaskPcs
  <2>4. task' = [task EXCEPT ![r] = y]
    BY <2>1
  <2> HIDE DEF y
  <2>5. /\ task' \in [Reqs -> Task] /\ task'[r].pc = "record" /\ task'[r].s = s
        /\ \A q \in Reqs : q # r => task'[q] = task[q]
    BY <2>3, <2>4 DEF SignInv, SignType
  <2>6. /\ handed' \in [Reqs -> Nat] /\ handed'[r] = handed[r] + 1
        /\ \A q \in Reqs : q # r => handed'[q] = handed[q]
        /\ handed[r] \in Nat
    BY <2>2 DEF SignInv, SignType
  <2>7. /\ owner' \in [SigIds -> Reqs \cup {Null}] /\ owner'[s] = r
        /\ \A t \in SigIds : t # s => owner'[t] = owner[t]
    BY <2>1 DEF SignInv, SignType
  <2>8. /\ s \notin orch /\ sigRow[s] = "none" /\ \A c \in Callers : ~Busy(c, s)
        /\ \A c \in Callers, t \in SigIds : Busy(c, t)' <=> Busy(c, t)
    BY <2>1, <2>2 DEF SignInv, IdsAreFresh, Busy
  <2>9. SignType'
    BY <2>1, <2>2, <2>5, <2>6, <2>7 DEF SignInv, SignType
  <2>10. RowGuardsHandOver'
    BY <1>1, <2>2, <2>5, <2>6 DEF SignInv, RowGuardsHandOver
  <2>11. ApprovalStands'
    BY <2>2, <2>5 DEF SignInv, ApprovalStands, Approved
  <2>12. IdsAreFresh'
    <3>1. \A t \in SigIds : owner'[t] = Null =>
            t \notin orch' /\ sigRow'[t] = "none" /\ \A c \in Callers : ~Busy(c, t)'
      BY <2>1, <2>2, <2>7, <2>8, SigningBounds DEF SignInv, IdsAreFresh
    <3>2. \A q \in Reqs : handed'[q] = 0 => sent'[q] = 0 /\ \A t \in SigIds : owner'[t] # q
      BY <2>2, <2>6, <2>7 DEF SignInv, IdsAreFresh
    <3>3. \A q \in Reqs : task'[q].pc = "record" => owner'[task'[q].s] = q
      BY <2>1, <2>5, <2>7, SigningBounds DEF SignInv, SignType, IdsAreFresh
    <3> QED BY <3>1, <3>2, <3>3 DEF IdsAreFresh
  <2>13. RowGuardsSend'
    <3> SUFFICES ASSUME NEW q \in Reqs, q \notin excused
                 PROVE  /\ sent[q] <= 1
                        /\ \A t \in SigIds : owner'[t] = q => SentFromOnePlace(q, t)'
      BY <2>2 DEF RowGuardsSend
    <3>1. sent[q] <= 1
      BY DEF SignInv, RowGuardsSend
    <3>2. ASSUME NEW t \in SigIds, owner'[t] = q
          PROVE  SentFromOnePlace(q, t)'
      <4>1. CASE q = r
        BY <1>1, <2>2, <2>7, <2>8, <3>2, <4>1 DEF SentFromOnePlace
      <4>2. CASE q # r
        <5>1. t # s /\ owner[t] = q /\ SentFromOnePlace(q, t)
          BY <2>7, <3>2, <4>2 DEF SignInv, RowGuardsSend
        <5> QED BY <2>1, <2>2, <2>7, <2>8, <4>2, <5>1 DEF SentFromOnePlace
      <4> QED BY <4>1, <4>2
    <3> QED BY <3>1, <3>2
  <2> QED BY <2>9, <2>10, <2>11, <2>12, <2>13 DEF SignInv
<1>3. CASE SubmitSigned(r) \/ SubmitFails(r)
  <2>1. /\ task' = [task EXCEPT ![r].pc = "done"]
        /\ handed' = handed \/ handed' = [handed EXCEPT ![r] = @ + 1]
        /\ \/ sent' = sent
           \/ sent' = [sent EXCEPT ![r] = @ + 1] /\ handed' = [handed EXCEPT ![r] = @ + 1]
        /\ UNCHANGED <<wf, listed, routing, channel, apRow, orch, owner, sigRow, call, reaping, excused>>
    BY <1>3 DEF SubmitSigned, SubmitFails, store, signer, history
  <2>2. /\ task' \in [Reqs -> Task]
        /\ \A q \in Reqs : task'[q].pc = "record" => task'[q].s \in SigIds
        /\ task'[r].pc = "done"
        /\ \A q \in Reqs : q # r => task'[q] = task[q]
    BY <2>1, TaskMove DEF SignInv, TaskPcs
  <2>3. /\ handed' \in [Reqs -> Nat] /\ handed'[r] \in {handed[r], handed[r] + 1}
        /\ \A q \in Reqs : q # r => handed'[q] = handed[q]
        /\ handed[r] \in Nat
    BY <2>1 DEF SignInv, SignType
  <2>4. /\ sent' \in [Reqs -> Nat] /\ sent'[r] \in {sent[r], sent[r] + 1}
        /\ \A q \in Reqs : q # r => sent'[q] = sent[q]
        /\ sent[r] \in Nat
    BY <2>1 DEF SignInv, SignType
  <2>5. sent'[r] # sent[r] => handed'[r] = handed[r] + 1
    BY <2>1 DEF SignInv, SignType
  <2>6. SignType'
    BY <2>1, <2>2, <2>3, <2>4 DEF SignInv, SignType
  <2>7. RowGuardsHandOver'
    BY <1>1, <2>1, <2>2, <2>3 DEF SignInv, RowGuardsHandOver
  <2>8. ApprovalStands'
    BY <2>1, <2>2 DEF SignInv, ApprovalStands, Approved
  <2>9. \A c \in Callers, t \in SigIds : Busy(c, t)' <=> Busy(c, t)
    BY <2>1 DEF Busy
  <2>10. IdsAreFresh'
    BY <2>1, <2>2, <2>3, <2>4, <2>5, <2>9 DEF SignInv, IdsAreFresh
  <2>11. RowGuardsSend'
    <3> SUFFICES ASSUME NEW q \in Reqs, q \notin excused
                 PROVE  /\ sent'[q] <= 1
                        /\ \A t \in SigIds : owner[t] = q => SentFromOnePlace(q, t)'
      BY <2>1 DEF RowGuardsSend
    <3>1. CASE q = r
      BY <1>1, <2>4, <3>1
    <3>2. CASE q # r
      BY <2>1, <2>4, <2>9, <3>2 DEF SignInv, RowGuardsSend, SentFromOnePlace
    <3> QED BY <3>1, <3>2
  <2> QED BY <2>6, <2>7, <2>8, <2>10, <2>11 DEF SignInv
<1> QED BY <1>2, <1>3 DEF SubmitStep

---------------------------------------------------------------------------
(* After the hand-over.                                                    *)

\* persist_signature_and_meta: a row that comes after the wallet's answer
\* excuses its request; any other finds the entry still in the map.  A dropped
\* call leaves the entry with or without its row.
LEMMA RecordStep ==
  ASSUME SignInv, NEW r \in Reqs, RecordPending(r) \/ RecordDropped(r)
  PROVE  SignInv'
<1> DEFINE s == task[r].s
<1>1. /\ task[r].pc = "record" /\ s \in SigIds /\ owner[s] = r
      /\ task' = [task EXCEPT ![r] = [@ EXCEPT !.pc = "done", !.s = Null]]
      /\ UNCHANGED <<wf, listed, routing, channel, apRow, owner, call, reaping, handed, sent>>
  BY DEF RecordPending, RecordDropped, store, SignInv, SignType, IdsAreFresh
<1>2. \/ /\ sigRow' = [sigRow EXCEPT ![s] = "pending"] /\ orch' = orch
         /\ excused' = IF s \notin orch THEN excused \cup {r} ELSE excused
      \/ UNCHANGED <<sigRow, excused>> /\ orch' \in {orch, orch \ {s}}
  BY DEF RecordPending, RecordDropped
<1> DEFINE y == [task[r] EXCEPT !.pc = "done", !.s = Null]
<1>3. y \in Task /\ y.pc = "done"
  BY DEF SignInv, SignType, Task, TaskPcs
<1>4. task' = [task EXCEPT ![r] = y]
  BY <1>1
<1> HIDE DEF y, s
<1>5. /\ task' \in [Reqs -> Task] /\ task'[r].pc = "done"
      /\ \A q \in Reqs : q # r => task'[q] = task[q]
  BY <1>3, <1>4 DEF SignInv, SignType
<1>6. /\ sigRow' \in [SigIds -> RowStates]
      /\ \A t \in SigIds : t # s => sigRow'[t] = sigRow[t]
      /\ orch' \subseteq orch /\ excused \subseteq excused' /\ excused' \subseteq Reqs
      /\ sigRow'[s] = sigRow[s] \/ r \in excused' \/ s \in orch
  BY <1>1, <1>2 DEF SignInv, SignType, RowStates
<1>7. SignType'
  BY <1>1, <1>5, <1>6 DEF SignInv, SignType
<1>8. RowGuardsHandOver' /\ ApprovalStands'
  BY <1>1, <1>5, <1>6, ApprovalsKept
<1>9. \A c \in Callers, t \in SigIds : Busy(c, t)' <=> Busy(c, t)
  BY <1>1 DEF Busy
<1>10. IdsAreFresh'
  BY <1>1, <1>5, <1>6, <1>9, SigningBounds DEF SignInv, IdsAreFresh
<1>11. RowGuardsSend'
  <2> SUFFICES ASSUME NEW q \in Reqs, q \notin excused', NEW t \in SigIds, owner[t] = q
               PROVE  SentFromOnePlace(q, t)'
    BY <1>1, <1>6 DEF SignInv, RowGuardsSend
  <2>1. SentFromOnePlace(q, t)
    BY <1>6 DEF SignInv, RowGuardsSend
  <2>2. sigRow'[t] = sigRow[t] \/ t \in orch
    BY <1>1, <1>6
  <2> QED BY <1>1, <1>6, <1>9, <2>1, <2>2 DEF SentFromOnePlace, SignInv, SignType
<1> QED BY <1>7, <1>8, <1>10, <1>11 DEF SignInv

\* A step that takes entries out of the map or rows out of pending, and starts
\* no call.
LEMMA EntriesGo ==
  ASSUME SignInv, orch' \subseteq orch, sigRow' \in [SigIds -> RowStates],
         \A s \in SigIds : /\ sigRow'[s] = "pending" => sigRow[s] = "pending"
                           /\ sigRow[s] = "none" => sigRow'[s] = "none",
         call' = call, reaping' \in SigIds \cup {Null},
         UNCHANGED <<store, task, owner, history>>
  PROVE  SignInv'
<1>1. UNCHANGED <<wf, listed, routing, channel, apRow, handed, sent, excused>>
  BY DEF store, history
<1>2. SignType'
  BY <1>1 DEF SignInv, SignType
<1>3. RowGuardsHandOver' /\ ApprovalStands'
  BY <1>1, ApprovalsKept
<1>4. \A c \in Callers, t \in SigIds : Busy(c, t)' <=> Busy(c, t)
  BY DEF Busy
<1>5. IdsAreFresh'
  BY <1>1, <1>4 DEF SignInv, IdsAreFresh
<1>6. \A r \in Reqs, s \in SigIds : SentFromOnePlace(r, s) => SentFromOnePlace(r, s)'
  BY <1>1, <1>4 DEF SentFromOnePlace
<1>7. RowGuardsSend'
  BY <1>1, <1>6 DEF SignInv, RowGuardsSend
<1> QED BY <1>2, <1>3, <1>5, <1>7 DEF SignInv

\* The reaper and the TTL.
LEMMA ReaperSteps ==
  ASSUME SignInv, ReaperMarks \/ \E s \in SigIds : TtlRunsOut(s) \/ ReaperExpires(s)
  PROVE  SignInv'
<1>0. reaping \in SigIds \cup {Null} /\ sigRow \in [SigIds -> RowStates]
  BY DEF SignInv, SignType
<1>1. ASSUME NEW s \in SigIds, TtlRunsOut(s) \/ ReaperExpires(s)
      PROVE  SignInv'
  <2>1. orch' \subseteq orch /\ UNCHANGED <<store, task, owner, sigRow, call, history>>
    BY <1>1 DEF TtlRunsOut, ReaperExpires
  <2>2. reaping' \in SigIds \cup {Null}
    BY <1>0, <1>1 DEF TtlRunsOut, ReaperExpires
  <2> QED BY <1>0, <2>1, <2>2, EntriesGo
<1>2. CASE ReaperMarks
  <2>1. PICK ok \in BOOLEAN : sigRow' = [sigRow EXCEPT ![reaping] = Marked(@, "expired", ok)]
    BY <1>2 DEF ReaperMarks
  <2>2. reaping \in SigIds /\ reaping' = Null /\ UNCHANGED <<store, task, orch, owner, call, history>>
    BY <1>0, <1>2 DEF ReaperMarks
  <2>3. /\ sigRow' \in [SigIds -> RowStates]
        /\ \A s \in SigIds : /\ sigRow'[s] = "pending" => sigRow[s] = "pending"
                             /\ sigRow[s] = "none" => sigRow'[s] = "none"
    BY <1>0, <2>1, <2>2, MarkedRow DEF RowStates
  <2> QED BY <2>2, <2>3, EntriesGo
<1> QED BY <1>1, <1>2

\* complete: one call takes the entry; nobody else has it, and nothing of it
\* was sent.
LEMMA CompleteStep ==
  ASSUME SignInv, NEW c \in Callers, NEW s \in SigIds, Complete(c, s)
  PROVE  SignInv'
<1>1. PICK ok \in BOOLEAN : call' = [call EXCEPT ![c] = [pc |-> "mark", s |-> s, ok |-> ok]]
  BY DEF Complete
<1>2. /\ call[c].pc = "idle" /\ s \in orch /\ orch' = orch \ {s}
      /\ UNCHANGED <<wf, listed, routing, channel, apRow, task, owner, sigRow, reaping,
                     handed, sent, excused>>
  BY DEF Complete, ConsumeEntry, store, history
<1> DEFINE y == [pc |-> "mark", s |-> s, ok |-> ok]
<1>3. y \in Call /\ y.pc = "mark" /\ y.s = s /\ call' = [call EXCEPT ![c] = y]
  BY <1>1 DEF Call
<1> HIDE DEF y
<1>4. /\ call' \in [Callers -> Call] /\ call'[c].pc = "mark" /\ call'[c].s = s
      /\ \A d \in Callers : d # c => call'[d] = call[d]
  BY <1>3 DEF SignInv, SignType
<1>5. \A d \in Callers, t \in SigIds : /\ Busy(d, t)' => Busy(d, t) \/ (d = c /\ t = s)
                                       /\ d # c => (Busy(d, t)' <=> Busy(d, t))
  BY <1>4 DEF Busy
<1>6. SignType'
  BY <1>2, <1>4 DEF SignInv, SignType
<1>7. RowGuardsHandOver' /\ ApprovalStands'
  BY <1>2, ApprovalsKept
<1>8. owner[s] # Null
  BY <1>2 DEF SignInv, IdsAreFresh
<1>9. IdsAreFresh'
  BY <1>2, <1>5, <1>8 DEF SignInv, IdsAreFresh
<1>10. RowGuardsSend'
  <2> SUFFICES ASSUME NEW q \in Reqs, q \notin excused, NEW t \in SigIds, owner[t] = q
               PROVE  SentFromOnePlace(q, t)'
    BY <1>2 DEF SignInv, RowGuardsSend
  <2>1. SentFromOnePlace(q, t) /\ sent[q] \in Nat
    BY DEF SignInv, RowGuardsSend, SignType
  <2>2. CASE t = s
    BY <1>2, <1>4, <1>5, <2>1, <2>2 DEF SentFromOnePlace
  <2>3. CASE t # s
    <3>1. \A d \in Callers : Busy(d, t)' => Busy(d, t) /\ call'[d] = call[d]
      BY <1>2, <1>4, <1>5, <2>3 DEF Busy
    <3> QED BY <1>2, <2>1, <2>3, <3>1 DEF SentFromOnePlace
  <2> QED BY <2>2, <2>3
<1> QED BY <1>6, <1>7, <1>9, <1>10 DEF SignInv

\* The row is marked, or its request excused, before anything is sent.
LEMMA MarkStep ==
  ASSUME SignInv, NEW c \in Callers, MarkCompleted(c)
  PROVE  SignInv'
<1> DEFINE s == call[c].s
           y == IF call[c].ok THEN [call[c] EXCEPT !.pc = "send"] ELSE Idle
           l == IF call[c].ok THEN "consumed" ELSE "rejected"
<1>1. PICK ok \in BOOLEAN :
        /\ sigRow' = [sigRow EXCEPT ![s] = Marked(@, l, ok)]
        /\ excused' = IF ok THEN excused ELSE excused \cup {owner[s]}
        /\ call' = [call EXCEPT ![c] = y]
  BY DEF MarkCompleted
<1>2. /\ call[c].pc = "mark" /\ s \in SigIds /\ Busy(c, s) /\ owner[s] \in Reqs
      /\ UNCHANGED <<wf, listed, routing, channel, apRow, task, orch, owner, reaping, handed, sent>>
  <2>1. /\ call[c].pc = "mark" /\ s \in SigIds /\ Busy(c, s)
        /\ UNCHANGED <<wf, listed, routing, channel, apRow, task, orch, owner, reaping, handed, sent>>
    BY DEF MarkCompleted, store, SignInv, SignType, Busy
  <2> QED BY <2>1 DEF SignInv, SignType, IdsAreFresh
<1>3. y \in Call /\ (y.pc = "idle" \/ (y.pc = "send" /\ y.s = s))
  BY <1>2, SigningBounds DEF SignInv, SignType, Call, Idle
<1>4. l \in RowStates /\ l # "pending"
  BY DEF RowStates
<1> HIDE DEF s, y, l
<1>5. /\ call' \in [Callers -> Call]
      /\ call'[c].pc = "idle" \/ (call'[c].pc = "send" /\ call'[c].s = s)
      /\ \A d \in Callers : d # c => call'[d] = call[d]
  BY <1>1, <1>3 DEF SignInv, SignType
<1>6. \A d \in Callers, t \in SigIds : Busy(d, t)' => Busy(d, t)
  BY <1>2, <1>5 DEF Busy
<1>7. /\ sigRow' \in [SigIds -> RowStates]
      /\ \A t \in SigIds : /\ sigRow'[t] = "pending" => sigRow[t] = "pending"
                           /\ sigRow[t] = "none" => sigRow'[t] = "none"
      /\ ok => sigRow'[s] # "pending"
  BY <1>1, <1>2, <1>4, MarkedRow DEF SignInv, SignType
<1>8. excused \subseteq excused' /\ excused' \subseteq Reqs /\ (~ok => owner[s] \in excused')
  BY <1>1, <1>2 DEF SignInv, SignType
<1>9. SignType'
  BY <1>2, <1>5, <1>7, <1>8 DEF SignInv, SignType
<1>10. RowGuardsHandOver' /\ ApprovalStands'
  BY <1>2, <1>8, ApprovalsKept
<1>11. IdsAreFresh'
  BY <1>2, <1>6, <1>7 DEF SignInv, IdsAreFresh
<1>12. RowGuardsSend'
  <2> SUFFICES ASSUME NEW q \in Reqs, q \notin excused', NEW t \in SigIds, owner[t] = q
               PROVE  SentFromOnePlace(q, t)'
    BY <1>2, <1>8 DEF SignInv, RowGuardsSend
  <2>1. SentFromOnePlace(q, t)
    BY <1>8 DEF SignInv, RowGuardsSend
  <2>2. ASSUME NEW d \in Callers, Busy(d, t)', call'[d].pc = "send"
        PROVE  sigRow'[t] # "pending"
    <3>1. CASE d = c
      BY <1>5, <1>7, <1>8, <2>2, <3>1 DEF Busy
    <3>2. CASE d # c
      BY <1>5, <1>6, <1>7, <2>1, <2>2, <3>2 DEF SentFromOnePlace
    <3> QED BY <3>1, <3>2
  <2> QED BY <1>2, <1>6, <1>7, <2>1, <2>2 DEF SentFromOnePlace
<1> QED BY <1>9, <1>10, <1>11, <1>12 DEF SignInv

\* The broadcast: the call was alone with the signature, and lets it go.
LEMMA BroadcastStep ==
  ASSUME SignInv, NEW c \in Callers, Broadcast(c)
  PROVE  SignInv'
<1>0. PICK s \in SigIds : s = call[c].s
  BY DEF Broadcast, SignInv, SignType
<1>1. /\ call[c].pc = "send" /\ Busy(c, s)
      /\ sent' = sent \/ sent' = [sent EXCEPT ![owner[s]] = @ + 1]
      /\ call' = [call EXCEPT ![c] = Idle]
      /\ UNCHANGED <<wf, listed, routing, channel, apRow, task, orch, owner, sigRow, reaping,
                     handed, excused>>
  BY <1>0 DEF Broadcast, store, signer, Busy
<1>2. PICK r \in Reqs : r = owner[s] /\ handed[r] # 0
  BY <1>1 DEF SignInv, SignType, IdsAreFresh
<1>3. Idle \in Call /\ Idle.pc = "idle"
  BY DEF Idle, Call
<1>4. /\ call' \in [Callers -> Call] /\ call'[c].pc = "idle"
      /\ \A d \in Callers : d # c => call'[d] = call[d]
  BY <1>1, <1>3 DEF SignInv, SignType
<1>5. \A d \in Callers, t \in SigIds : Busy(d, t)' => Busy(d, t) /\ d # c /\ call'[d] = call[d]
  BY <1>4 DEF Busy
<1>6. /\ sent' \in [Reqs -> Nat] /\ sent[r] \in Nat
      /\ sent'[r] \in {sent[r], sent[r] + 1}
      /\ \A q \in Reqs : q # r => sent'[q] = sent[q]
  BY <1>1, <1>2 DEF SignInv, SignType
<1>7. SignType'
  BY <1>1, <1>4, <1>6 DEF SignInv, SignType
<1>8. RowGuardsHandOver' /\ ApprovalStands'
  BY <1>1, ApprovalsKept
<1>9. IdsAreFresh'
  BY <1>1, <1>2, <1>5, <1>6 DEF SignInv, IdsAreFresh
<1>10. RowGuardsSend'
  <2> SUFFICES ASSUME NEW q \in Reqs, q \notin excused
               PROVE  /\ sent'[q] <= 1
                      /\ \A t \in SigIds : owner[t] = q => SentFromOnePlace(q, t)'
    BY <1>1 DEF RowGuardsSend
  <2>1. /\ sent[q] <= 1
        /\ \A t \in SigIds : owner[t] = q => SentFromOnePlace(q, t)
    BY DEF SignInv, RowGuardsSend
  <2>2. CASE q = r
    <3>1. /\ owner[s] = q /\ sent[q] = 0 /\ s \notin orch /\ sigRow[s] # "pending"
          /\ \A t \in SigIds : owner[t] = q => t = s
          /\ \A d \in Callers : ~Busy(d, s)'
      BY <1>1, <1>2, <1>5, <2>1, <2>2 DEF SentFromOnePlace
    <3> QED BY <1>1, <1>6, <2>2, <3>1 DEF SentFromOnePlace
  <2>3. CASE q # r
    BY <1>1, <1>5, <1>6, <2>1, <2>3 DEF SentFromOnePlace
  <2> QED BY <2>2, <2>3
<1> QED BY <1>7, <1>8, <1>9, <1>10 DEF SignInv

---------------------------------------------------------------------------
(* Crash and recovery, and the invariant.                                  *)

\* A crash forgets every frame; what comes back is what a pending row says.
LEMMA RestartStep ==
  ASSUME SignInv, Restart
  PROVE  SignInv'
<1> DEFINE New(q) == [pc |-> q, s |-> Null, auto |-> FALSE]
<1>1. PICK oldA \in SUBSET {r \in Reqs : apRow[r] = "pending"},
           oldS \in SUBSET {s \in SigIds : sigRow[s] = "pending"},
           backA \in SUBSET {r \in Reqs : apRow[r] = "pending"},
           backS \in SUBSET {s \in SigIds : sigRow[s] = "pending"} :
        /\ backA \cap oldA = {}
        /\ apRow' = [r \in Reqs |-> IF r \in oldA THEN "expired" ELSE apRow[r]]
        /\ sigRow' = [s \in SigIds |-> IF s \in oldS THEN "expired" ELSE sigRow[s]]
        /\ wf' = [r \in Reqs |-> IF r \in backA THEN NewWorkflow(FALSE) ELSE Null]
        /\ listed' = backA
        /\ channel' = [r \in Reqs |-> IF r \in backA THEN "open" ELSE "none"]
        /\ task' = [r \in Reqs |-> IF r \in backA THEN New("wait")
                                   ELSE IF task[r].pc = "new" THEN task[r] ELSE New("done")]
        /\ orch' = backS
  <2>1. PICK oldA \in SUBSET {r \in Reqs : apRow[r] = "pending"},
             oldS \in SUBSET {s \in SigIds : sigRow[s] = "pending"},
             loadA \in BOOLEAN, loadS \in BOOLEAN :
               Restart!3!(oldA, oldS, loadA, loadS)
    BY DEF Restart
  <2> QED BY <2>1
<1>2. /\ reaping' = Null
      /\ routing' = [r \in Reqs |-> "none"]
      /\ call' = [c \in Callers |-> Idle]
      /\ UNCHANGED <<owner, handed, sent, excused>>
  BY DEF Restart, history
<1>3. /\ New("wait") \in Task /\ New("wait").pc = "wait" /\ ~New("wait").auto
      /\ New("done") \in Task /\ New("done").pc = "done"
  BY DEF Task, TaskPcs
<1> HIDE DEF New
<1>4. /\ task' \in [Reqs -> Task]
      /\ \A r \in Reqs : \/ r \in backA /\ task'[r].pc = "wait" /\ ~task'[r].auto
                         \/ r \notin backA /\ task'[r] = task[r] /\ task[r].pc = "new"
                         \/ r \notin backA /\ task'[r].pc = "done"
  BY <1>1, <1>3 DEF SignInv, SignType
<1>5. /\ apRow' \in [Reqs -> RowStates]
      /\ \A r \in Reqs : /\ apRow'[r] = "pending" => apRow[r] = "pending"
                         /\ apRow[r] = "none" => apRow'[r] = "none"
                         /\ r \in backA => apRow'[r] = "pending"
  BY <1>1 DEF SignInv, SignType, RowStates
<1>6. /\ sigRow' \in [SigIds -> RowStates]
      /\ \A s \in SigIds : /\ sigRow'[s] = "pending" => sigRow[s] = "pending"
                           /\ sigRow[s] = "none" => sigRow'[s] = "none"
                           /\ s \in backS => sigRow[s] = "pending"
  BY <1>1 DEF SignInv, SignType, RowStates
<1>7. /\ wf' \in [Reqs -> Workflow \cup {Null}]
      /\ \A r \in Reqs : IF r \in backA THEN wf'[r] # Null /\ Sound(wf'[r]) ELSE wf'[r] = Null
  BY <1>1, NewWorkflowIsSound, SigningBounds
<1>8. Idle \in Call /\ Idle.pc = "idle"
  BY DEF Idle, Call
<1>9. \A c \in Callers, s \in SigIds : ~Busy(c, s)'
  BY <1>2, <1>8 DEF Busy
<1>10. SignType'
  BY <1>1, <1>2, <1>4, <1>5, <1>6, <1>7, <1>8 DEF SignInv, SignType
<1>11. RowGuardsHandOver'
  BY <1>2, <1>4, <1>5 DEF SignInv, RowGuardsHandOver
<1>12. IdsAreFresh'
  BY <1>1, <1>2, <1>4, <1>6, <1>9 DEF SignInv, IdsAreFresh
<1>13. RowGuardsSend'
  BY <1>1, <1>2, <1>6, <1>9 DEF SignInv, RowGuardsSend, SentFromOnePlace
<1>14. ApprovalStands'
  <2>1. \A r \in Reqs : channel'[r] # "approved" /\ routing'[r] # "approved"
    BY <1>1, <1>2
  <2> QED BY <1>1, <1>4, <1>7, <2>1 DEF ApprovalStands, Approved
<1> QED BY <1>10, <1>11, <1>12, <1>13, <1>14 DEF SignInv

\* Nothing is proposed yet.
LEMMA SignInit == SInit => SignInv
<1> SUFFICES ASSUME SInit PROVE SignInv
  OBVIOUS
<1> DEFINE y == [pc |-> "new", s |-> Null, auto |-> FALSE]
<1>1. y \in Task /\ y.pc = "new" /\ Idle \in Call /\ Idle.pc = "idle"
  BY DEF Task, TaskPcs, Idle, Call
<1>2. task = [r \in Reqs |-> y]
  BY DEF SInit
<1> HIDE DEF y
<1>3. SignType
  BY <1>1, <1>2 DEF SInit, SignType, RowStates
<1>4. RowGuardsHandOver
  BY <1>1, <1>2 DEF SInit, RowGuardsHandOver
<1>5. IdsAreFresh
  BY <1>1, <1>2, SigningBounds DEF SInit, IdsAreFresh, Busy
<1>6. RowGuardsSend
  BY SigningBounds DEF SInit, RowGuardsSend
<1>7. ApprovalStands
  BY <1>1, <1>2 DEF SInit, ApprovalStands
<1> QED BY <1>3, <1>4, <1>5, <1>6, <1>7 DEF SignInv

\* Every step keeps the invariant.
LEMMA SignNext == SignInv /\ [SNext]_sVars => SignInv'
<1> SUFFICES ASSUME SignInv, [SNext]_sVars PROVE SignInv'
  OBVIOUS
<1>1. ASSUME NEW r \in Reqs,
             Propose(r) \/ ParkForApproval(r) \/ SpawnResume(r) \/ ToolDropped(r)
      PROVE  SignInv'
  BY <1>1, ToolSteps
<1>2. ASSUME NEW r \in Reqs, LeaseRunsOut(r) \/ Signal(r) \/ \E vote \in Vote : Decide(r, vote)
      PROVE  SignInv'
  BY <1>2, OperatorSteps
<1>3. ASSUME NEW r \in Reqs,
             TaskStep(r) \/ SubmitStep(r) \/ RecordPending(r) \/ RecordDropped(r)
      PROVE  SignInv'
  BY <1>3, TaskSteps, SubmitSteps, RecordStep
<1>4. ASSUME NEW s \in SigIds, NEW c \in Callers, Complete(c, s)
      PROVE  SignInv'
  BY <1>4, CompleteStep
<1>5. ASSUME NEW c \in Callers, MarkCompleted(c) \/ Broadcast(c)
      PROVE  SignInv'
  BY <1>5, MarkStep, BroadcastStep
<1>6. CASE ReaperMarks \/ \E s \in SigIds : TtlRunsOut(s) \/ ReaperExpires(s)
  BY <1>6, ReaperSteps
<1>7. CASE Restart
  BY <1>7, RestartStep
<1>8. CASE UNCHANGED sVars
  <2>1. UNCHANGED <<store, task, owner, sigRow, orch, call, reaping, history>>
    BY <1>8 DEF sVars, signer
  <2>2. sigRow \in [SigIds -> RowStates] /\ reaping \in SigIds \cup {Null}
    BY DEF SignInv, SignType
  <2> QED BY <2>1, <2>2, EntriesGo
<1> QED BY <1>1, <1>2, <1>3, <1>4, <1>5, <1>6, <1>7, <1>8 DEF SNext

\* The invariant holds throughout.
LEMMA SignInvAlways == SSpec => []SignInv
BY SignInit, SignNext, PTL DEF SSpec

---------------------------------------------------------------------------
(* The theorems.                                                           *)

\* An approved transaction is handed to the orchestrator at most once, across
\* crashes, votes cast again and concurrent wallets, unless the write that
\* consumes its approval row failed.
THEOREM SigningHandsOverOnce == SSpec => []HandedOverOnce
<1>1. SignInv => HandedOverOnce
  BY DEF SignInv, SignType, RowGuardsHandOver, HandedOverOnce
<1> QED BY <1>1, SignInvAlways, PTL

\* An approved transaction is broadcast at most once, unless the write that
\* consumes one of its rows failed or its signature row came after the answer.
THEOREM SigningSendsOnce == SSpec => []SentOnceUnlessExcused
<1>1. SignInv => SentOnceUnlessExcused
  BY DEF SignInv, SignType, RowGuardsSend, SentOnceUnlessExcused
<1> QED BY <1>1, SignInvAlways, PTL

\* Nothing parked reaches the orchestrator without every stage's quorum of
\* votes, in roles the stage allows, of distinct operators and with no
\* rejection, for any chain of stages.
THEOREM SigningHandOverIsAuthorised == SSpec => HandOverIsAuthorised
<1> DEFINE Step == \A r \in Reqs : handed'[r] > handed[r] /\ ~task[r].auto
                     => wf[r] # Null /\ wf[r].state = "approved" /\ Authorised(wf[r])
<1>1. SignInv /\ [SNext]_sVars => [Step]_sVars
  <2> SUFFICES ASSUME SignInv, SNext, NEW r \in Reqs, handed'[r] > handed[r], ~task[r].auto
               PROVE  wf[r] # Null /\ wf[r].state = "approved" /\ Authorised(wf[r])
    OBVIOUS
  <2>0. handed \in [Reqs -> Nat]
    BY DEF SignInv, SignType
  <2>1. task[r].pc = "submit"
    <3>1. handed' # handed
      BY <2>0
    <3>2. ASSUME NEW q \in Reqs, SubmitStep(q)
          PROVE  task[r].pc = "submit"
      <4>1. task[q].pc = "submit" /\ (handed' = handed \/ handed' = [handed EXCEPT ![q] = @ + 1])
        BY <3>2 DEF SubmitStep, SubmitPending, SubmitSigned, SubmitFails, history
      <4>2. q = r
        BY <2>0, <4>1
      <4> QED BY <4>1, <4>2
    <3>3. ASSUME NEW q \in Reqs,
                 \/ Propose(q) \/ ParkForApproval(q) \/ SpawnResume(q) \/ ToolDropped(q)
                 \/ LeaseRunsOut(q) \/ Signal(q)
                 \/ TaskStep(q) \/ RecordPending(q) \/ RecordDropped(q) \/ \E vote \in Vote : Decide(q, vote)
          PROVE  handed' = handed
      BY <3>3 DEF Propose, ParkForApproval, SpawnResume, ToolDropped, RecordDropped, LeaseRunsOut, Signal, TaskStep, TaskTimesOut,
         TaskRefused, TaskApproved, RecordPending, Decide, history
    <3>4. ASSUME NEW c \in Callers, MarkCompleted(c) \/ Broadcast(c) \/ \E s \in SigIds : Complete(c, s)
          PROVE  handed' = handed
      BY <3>4 DEF MarkCompleted, Broadcast, Complete, history
    <3>5. CASE ReaperMarks \/ Restart \/ \E s \in SigIds : TtlRunsOut(s) \/ ReaperExpires(s)
      <4>1. Restart => handed' = handed
        BY DEF Restart, history
      <4>2. ReaperMarks => handed' = handed
        BY DEF ReaperMarks, history
      <4>3. \A s \in SigIds : TtlRunsOut(s) \/ ReaperExpires(s) => handed' = handed
        BY DEF TtlRunsOut, ReaperExpires, history
      <4> QED BY <3>1, <3>5, <4>1, <4>2, <4>3
    <3> QED BY <3>1, <3>2, <3>3, <3>4, <3>5 DEF SNext
  <2>2. wf[r] # Null /\ wf[r].state = "approved" /\ Sound(wf[r])
    BY <2>1 DEF SignInv, ApprovalStands, Approved
  <2>3. Authorised(wf[r])
    BY <2>2 DEF Sound, VotesCount, Authorised
  <2> QED BY <2>2, <2>3
<1>2. [][Step]_sVars <=> HandOverIsAuthorised
  BY DEF HandOverIsAuthorised
<1> QED BY <1>1, <1>2, SignInvAlways, PTL DEF SSpec

=============================================================================
