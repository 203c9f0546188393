-------------------------- MODULE SigningPipeline --------------------------
(***************************************************************************)
(* A transaction from the submit_for_signing tool to the network:          *)
(*   crates/gateway/src/tools/signing.rs     the tool and the resume task  *)
(*   crates/gateway/src/approval_store.rs,                                 *)
(*   approval_routing.rs                     decisions and their signal    *)
(*   crates/gateway/src/pending_signing.rs   the parked transaction        *)
(*   crates/gateway/src/orchestrator/mod.rs  the pending signature map     *)
(*   crates/gateway/src/durable_pending.rs   rows that survive a restart   *)
(*   crates/gateway/src/daemon.rs            decide, the wallet's answer,  *)
(*                                           the reaper and recovery       *)
(*                                                                         *)
(* Every await that another task or a crash can fall into is a step        *)
(* boundary, except where only process memory changes after it: a crash    *)
(* there leaves the same state as a crash right after the step.  The       *)
(* completion metadata row is written and marked with its signature row.   *)
(***************************************************************************)
EXTENDS ApprovalWorkflow

CONSTANTS
  Reqs,         \* proposals, each with one approval request id
  SigIds,       \* signature request ids: a fresh UUID per hand-over
  Callers,      \* concurrent POSTs of a signed transaction
  Leased,       \* approval_lease_seconds > 0
  Null,
  MaxFailures,  \* bound: store writes that fail
  MaxRestarts   \* bound: crashes

ASSUME SigningBounds ==
  /\ Leased \in BOOLEAN /\ MaxFailures \in Nat /\ MaxRestarts \in Nat
  /\ Null \notin Reqs \cup SigIds /\ Null \notin Workflow

VARIABLES
  wf,        \* ApprovalStore.workflows: request -> workflow or Null
  listed,    \* ApprovalStore.pending
  leaseUp,   \* requests whose lease has run out
  routing,   \* request -> terminal outcome decided and not yet signalled
  parked,    \* PendingSigningStore entries
  channel,   \* request -> oneshot of the entry: "open" or the state it carries
  task,      \* request -> program counter and signature id of its task
  apRow,     \* pending_approvals: request -> state of its row
  orch,      \* SignatureOrchestrator.pending
  aged,      \* signature ids dispatched longer ago than the TTL
  owner,     \* signature id -> request it was minted for
  sigRow,    \* pending_signatures: signature id -> state of its row
  meta,      \* CompletionMetadataStore: signature id -> known block height?
  call,      \* caller -> program counter, signature id, verification result
  reaping,   \* signature id the reaper has removed and not yet marked
  failures, restarts,
  handed,    \* history: request -> hand-overs to the orchestrator
  sent,      \* history: request -> accepted broadcasts
  excused    \* history: requests a consumed row of which may still be pending

store == <<wf, listed, leaseUp, routing, parked, channel, apRow>>
signer == <<orch, aged, owner, sigRow, meta>>
history == <<handed, sent, excused>>
sVars == <<store, task, signer, call, reaping, failures, restarts, history>>

Idle == [pc |-> "idle", s |-> Null, ok |-> FALSE]

SInit ==
  /\ wf = [r \in Reqs |-> Null]
  /\ listed = {} /\ leaseUp = {} /\ parked = {}
  /\ routing = [r \in Reqs |-> "none"]
  /\ channel = [r \in Reqs |-> "none"]
  /\ task = [r \in Reqs |-> [pc |-> "new", s |-> Null, auto |-> FALSE]]
  /\ apRow = [r \in Reqs |-> "none"]
  /\ orch = {} /\ aged = {}
  /\ owner = [s \in SigIds |-> Null]
  /\ sigRow = [s \in SigIds |-> "none"]
  /\ meta = [s \in SigIds |-> "none"]
  /\ call = [c \in Callers |-> Idle]
  /\ reaping = Null
  /\ failures = 0 /\ restarts = 0
  /\ handed = [r \in Reqs |-> 0]
  /\ sent = [r \in Reqs |-> 0]
  /\ excused = {}

---------------------------------------------------------------------------
(* Store writes.  mark_*_terminal is best effort: its caller goes on.      *)

Write(ok) ==
  /\ ok \/ failures < MaxFailures
  /\ failures' = IF ok THEN failures ELSE failures + 1

\* UPDATE ... SET state = label WHERE request_id = ? AND state = 'pending'.
Marked(state, label, ok) == IF ok /\ state = "pending" THEN label ELSE state

---------------------------------------------------------------------------
(* The tool.                                                               *)

\* execute up to the verdict: blocked ends the call, an allowed transaction
\* goes straight to the orchestrator, the rest needs an operator.
Propose(r) ==
  /\ task[r].pc = "new"
  /\ \E pc \in {"done", "submit", "persist"} :
       task' = [task EXCEPT ![r] = [pc |-> pc, s |-> Null, auto |-> pc = "submit"]]
  /\ UNCHANGED <<store, signer, call, reaping, failures, restarts, history>>

\* The request goes live only behind its row.
ParkAllowed(r, ok) == ok

\* persist_approval, then park and register; the audit append is awaited.
ParkForApproval(r) ==
  /\ task[r].pc = "persist"
  /\ \E ok \in BOOLEAN :
       /\ Write(ok)
       /\ apRow' = IF ok THEN [apRow EXCEPT ![r] = "pending"] ELSE apRow
       /\ IF ParkAllowed(r, ok)
          THEN /\ wf' = [wf EXCEPT ![r] = NewWorkflow(Leased)]
               /\ listed' = listed \cup {r}
               /\ parked' = parked \cup {r}
               /\ channel' = [channel EXCEPT ![r] = "open"]
               /\ task' = [task EXCEPT ![r].pc = "announce"]
          ELSE /\ task' = [task EXCEPT ![r].pc = "done"]
               /\ UNCHANGED <<wf, listed, parked, channel>>
  /\ UNCHANGED <<leaseUp, routing, signer, call, reaping, restarts, history>>

\* After the audit append the receiver moves into resume_after_approval.
SpawnResume(r) ==
  /\ task[r].pc = "announce"
  /\ task' = [task EXCEPT ![r].pc = "wait"]
  /\ UNCHANGED <<store, signer, call, reaping, failures, restarts, history>>

\* The tool runs inside its HTTP handler: the call may be dropped at an await,
\* with or without what it was waiting for.  Once the entry is parked nothing
\* holds its receiver any more.
ToolDropped(r) ==
  /\ \/ task[r].pc \in {"persist", "announce"}
     \/ task[r].pc = "submit" /\ task[r].auto
  /\ task' = [task EXCEPT ![r].pc = IF @ = "announce" THEN "gone" ELSE "done"]
  /\ \/ UNCHANGED apRow
     \/ task[r].pc = "persist" /\ apRow' = [apRow EXCEPT ![r] = "pending"]
  /\ UNCHANGED <<wf, listed, leaseUp, routing, parked, channel, signer, call, reaping,
                 failures, restarts, history>>

---------------------------------------------------------------------------
(* Operators.                                                              *)

LeaseRunsOut(r) ==
  /\ task[r].pc \in {"announce", "wait", "gone"} /\ r \notin leaseUp
  /\ leaseUp' = leaseUp \cup {r}
  /\ UNCHANGED <<wf, listed, routing, parked, channel, apRow, task, signer, call,
                 reaping, failures, restarts, history>>

\* The route finds the request in the session's list; decide_inner decides,
\* then awaits the audit append before it signals.
Decide(r, vote) ==
  /\ r \in listed
  /\ vote.role \in RolesClaimable(vote.op)
  /\ LET w == Decided(wf[r], vote, r \in leaseUp) IN
     /\ w # wf[r]
     /\ wf' = [wf EXCEPT ![r] = w]
     /\ listed' = IF w.state \in Terminal THEN listed \ {r} ELSE listed
     /\ routing' = IF w.state \in Terminal THEN [routing EXCEPT ![r] = w.state] ELSE routing
  /\ UNCHANGED <<leaseUp, parked, channel, apRow, task, signer, call, reaping,
                 failures, restarts, history>>

\* route_approval_outcome: signal takes the sender of a parked entry once.
Signal(r) ==
  /\ routing[r] # "none"
  /\ routing' = [routing EXCEPT ![r] = "none"]
  /\ channel' = IF r \in parked /\ channel[r] = "open"
                THEN [channel EXCEPT ![r] = routing[r]] ELSE channel
  /\ UNCHANGED <<wf, listed, leaseUp, parked, apRow, task, signer, call, reaping,
                 failures, restarts, history>>

---------------------------------------------------------------------------
(* resume_after_approval.                                                  *)

Unpark(r) == parked' = parked \ {r} /\ channel' = [channel EXCEPT ![r] = "none"]

\* The lease ends first: the row is marked and the entry removed.  The
\* workflow stays registered and listed.
TaskTimesOut(r) ==
  /\ task[r].pc = "wait" /\ channel[r] = "open" /\ r \in leaseUp
  /\ \E ok \in BOOLEAN :
       Write(ok) /\ apRow' = [apRow EXCEPT ![r] = Marked(@, "expired", ok)]
  /\ Unpark(r)
  /\ task' = [task EXCEPT ![r].pc = "done"]
  /\ UNCHANGED <<wf, listed, leaseUp, routing, signer, call, reaping, restarts, history>>

\* Rejected or expired.
TaskRefused(r) ==
  /\ task[r].pc = "wait" /\ channel[r] \in {"rejected", "expired"}
  /\ \E ok \in BOOLEAN :
       Write(ok) /\ apRow' = [apRow EXCEPT ![r] = Marked(@, channel[r], ok)]
  /\ Unpark(r)
  /\ task' = [task EXCEPT ![r].pc = "done"]
  /\ UNCHANGED <<wf, listed, leaseUp, routing, signer, call, reaping, restarts, history>>

\* Seeded fault: the row is left pending until the signature is in.
KeepRowPending(r, ok) == apRow[r]

ApprovedAnswer(r) == channel[r] = "approved"

\* The row is marked before the parked entry is taken.
ConsumedRow(r, ok) == Marked(apRow[r], "consumed", ok)

TaskApproved(r) ==
  /\ task[r].pc = "wait" /\ ApprovedAnswer(r)
  /\ \E ok \in BOOLEAN :
       /\ Write(ok)
       /\ apRow' = [apRow EXCEPT ![r] = ConsumedRow(r, ok)]
       /\ excused' = IF ok THEN excused ELSE excused \cup {r}
  /\ Unpark(r)
  /\ task' = [task EXCEPT ![r].pc = "submit"]
  /\ UNCHANGED <<wf, listed, leaseUp, routing, signer, call, reaping, restarts, handed, sent>>

---------------------------------------------------------------------------
(* The orchestrator.                                                       *)

Fresh == {s \in SigIds : owner[s] = Null}

\* submit: the external adapter leaves a pending entry, the local one signs at
\* once, any error ends the task.
SubmitPending(r) ==
  /\ task[r].pc = "submit"
  /\ \E s \in Fresh :
       /\ orch' = orch \cup {s}
       /\ owner' = [owner EXCEPT ![s] = r]
       /\ task' = [task EXCEPT ![r] = [@ EXCEPT !.pc = "record", !.s = s]]
  /\ handed' = [handed EXCEPT ![r] = @ + 1]
  /\ UNCHANGED <<store, aged, sigRow, meta, call, reaping, failures, restarts, sent, excused>>

\* Only the tool sends what the local adapter signed; the resume task does not.
SubmitSigned(r) ==
  /\ task[r].pc = "submit"
  /\ task' = [task EXCEPT ![r].pc = "done"]
  /\ handed' = [handed EXCEPT ![r] = @ + 1]
  /\ \E accepted \in BOOLEAN :
       sent' = IF accepted /\ task[r].auto THEN [sent EXCEPT ![r] = @ + 1] ELSE sent
  /\ UNCHANGED <<store, signer, call, reaping, failures, restarts, excused>>

SubmitFails(r) ==
  /\ task[r].pc = "submit"
  /\ task' = [task EXCEPT ![r].pc = "done"]
  /\ UNCHANGED <<store, signer, call, reaping, failures, restarts, history>>

\* persist_signature_and_meta and completion_meta.insert, or abort_pending.
\* The insert replaces whatever row there is: a signature that arrived in the
\* meantime is back to pending.
RecordPending(r) ==
  /\ task[r].pc = "record"
  /\ LET s == task[r].s IN
     \E ok \in BOOLEAN :
       /\ Write(ok)
       /\ IF ok
          THEN /\ sigRow' = [sigRow EXCEPT ![s] = "pending"]
               /\ meta' = [meta EXCEPT ![s] = "known"]
               /\ UNCHANGED orch
          ELSE orch' = orch \ {s} /\ UNCHANGED <<sigRow, meta>>
       /\ excused' = IF ok /\ s \notin orch THEN excused \cup {r} ELSE excused
  /\ task' = [task EXCEPT ![r] = [@ EXCEPT !.pc = "done", !.s = Null]]
  /\ UNCHANGED <<store, aged, owner, call, reaping, restarts, handed, sent>>

\* The tool's call dropped while it records: the entry stays in the map, with
\* or without its row.
RecordDropped(r) ==
  /\ task[r].pc = "record" /\ task[r].auto
  /\ LET s == task[r].s IN
     \/ /\ sigRow' = [sigRow EXCEPT ![s] = "pending"]
        /\ excused' = IF s \notin orch THEN excused \cup {r} ELSE excused
     \/ UNCHANGED <<sigRow, excused>>
  /\ task' = [task EXCEPT ![r] = [@ EXCEPT !.pc = "done", !.s = Null]]
  /\ UNCHANGED <<store, orch, aged, owner, meta, call, reaping, failures, restarts,
                 handed, sent>>

---------------------------------------------------------------------------
(* The wallet's answer: submit_signed_tx_inner.                            *)

\* Seeded fault: complete looks the entry up and leaves it in the map.
LeaveEntry(s) == orch

ConsumeEntry(s) == orch \ {s}

\* complete removes the entry, then verifies; the metadata is taken.
Complete(c, s) ==
  /\ call[c].pc = "idle" /\ s \in orch
  /\ orch' = ConsumeEntry(s)
  /\ \E ok \in BOOLEAN : call' = [call EXCEPT ![c] = [pc |-> "mark", s |-> s, ok |-> ok]]
  /\ UNCHANGED <<store, task, aged, owner, sigRow, meta, reaping, failures, restarts, history>>

MarkCompleted(c) ==
  /\ call[c].pc = "mark"
  /\ LET s == call[c].s IN
     \E ok \in BOOLEAN :
       /\ Write(ok)
       /\ sigRow' = [sigRow EXCEPT ![s] =
                       Marked(@, IF call[c].ok THEN "consumed" ELSE "rejected", ok)]
       /\ meta' = [meta EXCEPT ![s] = "none"]
       /\ excused' = IF ok THEN excused ELSE excused \cup {owner[s]}
       /\ call' = [call EXCEPT ![c] = IF call[c].ok THEN [@ EXCEPT !.pc = "send"] ELSE Idle]
  /\ UNCHANGED <<store, task, orch, aged, owner, reaping, restarts, handed, sent>>

\* The request stays consumed whether or not the network accepts.
Broadcast(c) ==
  /\ call[c].pc = "send"
  /\ \E accepted \in BOOLEAN :
       sent' = IF accepted THEN [sent EXCEPT ![owner[call[c].s]] = @ + 1] ELSE sent
  /\ call' = [call EXCEPT ![c] = Idle]
  /\ UNCHANGED <<store, task, signer, reaping, failures, restarts, handed, excused>>

---------------------------------------------------------------------------
(* The reaper.                                                             *)

TtlRunsOut(s) ==
  /\ s \in orch /\ s \notin aged
  /\ aged' = aged \cup {s}
  /\ UNCHANGED <<store, task, orch, owner, sigRow, meta, call, reaping, failures,
                 restarts, history>>

\* Seeded fault: the reaper skips what has a completion row.
NoCandidate(s) == s \in orch \cap aged /\ meta[s] = "none"

ExpiredCandidate(s) == s \in orch \cap aged

ReaperExpires(s) ==
  /\ reaping = Null /\ ExpiredCandidate(s)
  /\ orch' = orch \ {s}
  /\ reaping' = s
  /\ UNCHANGED <<store, task, aged, owner, sigRow, meta, call, failures, restarts, history>>

ReaperMarks ==
  /\ reaping # Null
  /\ \E ok \in BOOLEAN :
       Write(ok) /\ sigRow' = [sigRow EXCEPT ![reaping] = Marked(@, "expired", ok)]
  /\ meta' = [meta EXCEPT ![reaping] = "none"]
  /\ reaping' = Null
  /\ UNCHANGED <<store, task, orch, aged, owner, call, restarts, history>>

---------------------------------------------------------------------------
(* Crash and recovery.                                                     *)

\* DurablePendingState::recover before the API opens: rows older than the TTL
\* expire, the other pending rows are loaded; either load may fail and leaves
\* its rows behind.  A recovered workflow has no votes and no lease, recovered
\* metadata no block height, a recovered signature a fresh TTL.
Restart ==
  /\ restarts < MaxRestarts
  /\ restarts' = restarts + 1
  /\ \E oldA \in SUBSET {r \in Reqs : apRow[r] = "pending"},
        oldS \in SUBSET {s \in SigIds : sigRow[s] = "pending"},
        loadA, loadS \in BOOLEAN :
       LET backA == IF loadA THEN {r \in Reqs : apRow[r] = "pending"} \ oldA ELSE {}
           backS == IF loadS THEN {s \in SigIds : sigRow[s] = "pending"} \ oldS ELSE {}
       IN
       /\ apRow' = [r \in Reqs |-> IF r \in oldA THEN "expired" ELSE apRow[r]]
       /\ sigRow' = [s \in SigIds |-> IF s \in oldS THEN "expired" ELSE sigRow[s]]
       /\ wf' = [r \in Reqs |-> IF r \in backA THEN NewWorkflow(FALSE) ELSE Null]
       /\ listed' = backA /\ parked' = backA
       /\ channel' = [r \in Reqs |-> IF r \in backA THEN "open" ELSE "none"]
       /\ task' = [r \in Reqs |->
                     IF r \in backA THEN [pc |-> "wait", s |-> Null, auto |-> FALSE]
                     ELSE IF task[r].pc = "new" THEN task[r]
                     ELSE [pc |-> "done", s |-> Null, auto |-> FALSE]]
       /\ orch' = backS
       /\ meta' = [s \in SigIds |-> IF s \in backS THEN "unknown" ELSE "none"]
  /\ leaseUp' = {} /\ aged' = {} /\ reaping' = Null
  /\ routing' = [r \in Reqs |-> "none"]
  /\ call' = [c \in Callers |-> Idle]
  /\ UNCHANGED <<owner, failures, history>>

---------------------------------------------------------------------------
TaskStep(r) == TaskTimesOut(r) \/ TaskRefused(r) \/ TaskApproved(r)
SubmitStep(r) == SubmitPending(r) \/ SubmitSigned(r) \/ SubmitFails(r)

SNext ==
  \/ \E r \in Reqs :
       \/ Propose(r) \/ ParkForApproval(r) \/ SpawnResume(r) \/ ToolDropped(r)
       \/ LeaseRunsOut(r) \/ Signal(r)
       \/ TaskStep(r) \/ SubmitStep(r) \/ RecordPending(r) \/ RecordDropped(r)
       \/ \E vote \in Vote : Decide(r, vote)
  \/ \E s \in SigIds : TtlRunsOut(s) \/ ReaperExpires(s) \/ \E c \in Callers : Complete(c, s)
  \/ \E c \in Callers : MarkCompleted(c) \/ Broadcast(c)
  \/ ReaperMarks
  \/ Restart

SSpec == SInit /\ [][SNext]_sVars

\* Tasks that are ready run, the lease and TTL timers fire and the reaper
\* ticks every 30 s.  Nothing is assumed of operators, of the wallet, of the
\* tool's callers, of dropped calls or of crashes.
SFairness ==
  /\ \A r \in Reqs : WF_sVars(LeaseRunsOut(r)) /\ WF_sVars(Signal(r))
                     /\ WF_sVars(TaskStep(r)) /\ WF_sVars(SubmitStep(r))
                     /\ WF_sVars(RecordPending(r)) /\ WF_sVars(ParkForApproval(r))
                     /\ WF_sVars(SpawnResume(r))
  /\ \A s \in SigIds : WF_sVars(TtlRunsOut(s)) /\ SF_sVars(ReaperExpires(s))
  /\ WF_sVars(ReaperMarks)
  /\ \A c \in Callers : WF_sVars(MarkCompleted(c)) /\ WF_sVars(Broadcast(c))

SFairSpec == SSpec /\ SFairness

---------------------------------------------------------------------------
(* Properties.                                                             *)

\* A parked transaction reaches the orchestrator only on the full authority of
\* its workflow in this process: every stage, its quorum, its roles, distinct
\* operators, and no rejection in between.
HandOverIsAuthorised ==
  [][\A r \in Reqs : handed'[r] > handed[r] /\ ~task[r].auto
                       => wf[r] # Null /\ wf[r].state = "approved" /\ Authorised(wf[r])]_sVars

\* One approval is one hand-over, across restarts, votes that are cast again
\* and concurrent wallets, unless the write that consumes its row failed.
HandedOverOnce == \A r \in Reqs : handed[r] > 1 => r \in excused

\* One approval is one broadcast, unless the write that consumes one of its
\* rows failed or the wallet answered before the signature row was written.
SentOnceUnlessExcused == \A r \in Reqs : sent[r] > 1 => r \in excused

\* Nothing is parked or left with the orchestrator for ever, except an entry
\* whose tool call was dropped between parking it and spawning its task.
NothingIsStuck ==
  /\ \A r \in Reqs : (r \in parked) ~> (r \notin parked \/ task[r].pc = "gone")
  /\ \A s \in SigIds : (s \in orch) ~> (s \notin orch)
===========================================================================
