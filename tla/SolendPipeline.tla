-------------------------- MODULE SolendPipeline --------------------------
(***************************************************************************)
(* A Solend deposit or withdraw-all of one session, from the tool call to  *)
(* the signing handoff (crates/gateway/src), composed with SolendSubmit:   *)
(*   tools/solend_deposit.rs, tools/solend_withdraw_all_usdc.rs            *)
(*   integrations/solend_park.rs, solend_withdraw_park.rs,                 *)
(*                solend_jit_ready.rs, solend_signing.rs                   *)
(*   runtime/solend_jit_prepare_wiring.rs,                                 *)
(*           solend_withdraw_jit_prepare_wiring.rs                         *)
(*                                                                         *)
(* What RPC reads say of positions and policies is left open.              *)
(***************************************************************************)
EXTENDS SolendSubmit

CONSTANTS
  Requests,     \* approval request ids, one per tool call
  Wallets,
  Validity,     \* blocks a fresh blockhash stays valid (150)
  MaxRebinds    \* bound

ASSUME PipelineBounds == {Validity, MaxRebinds} \subseteq Nat /\ Wallets # {}

VARIABLES
  bound, rebinds,  \* the wallet bound to the session
  kind,      \* request -> "deposit" or "withdraw"
  tool,      \* request -> the tool call: program counter and wallet
  park,      \* request -> the parked intent: wallet, sender not yet used
  lapsed,    \* requests whose lease has run out
  wf,        \* request -> state of its workflow
  routing,   \* request -> decision still to be routed
  inbox,     \* request -> what the resume task's receiver holds
  task,      \* request -> the resume task
  jit,       \* request -> JIT-ready entry, while its lease lasts
  checked    \* history: requests whose fresh re-check passed after approval

requestVars == <<bound, rebinds, kind, tool, park, lapsed, wf, routing, inbox, task, jit, checked>>
pVars == <<requestVars, submitVars>>

RequestInit ==
  /\ bound = (CHOOSE w \in Wallets : TRUE) /\ rebinds = 0
  /\ kind \in [Requests -> {"deposit", "withdraw"}]
  /\ tool = [r \in Requests |-> [pc |-> "new", wallet |-> Null]]
  /\ park = [r \in Requests |-> Null]
  /\ lapsed = {}
  /\ wf = [r \in Requests |-> "none"]
  /\ routing = [r \in Requests |-> "none"]
  /\ inbox = [r \in Requests |-> "none"]
  /\ task = [r \in Requests |-> "none"]
  /\ jit = [r \in Requests |-> Null]
  /\ checked = {}

PInit == SInit /\ RequestInit

---------------------------------------------------------------------------
(* The session's wallet and the leases.                                    *)

\* Nobody reads the binding, a lease or a JIT-ready entry once no prepare call
\* and no tool call is left to come.
CallsLeft == \E h \in Handoffs : hand[h].pc = "free"

Rebind ==
  /\ rebinds < MaxRebinds /\ CallsLeft
  /\ rebinds' = rebinds + 1
  /\ bound' \in Wallets \ {bound}
  /\ UNCHANGED <<kind, tool, park, lapsed, wf, routing, inbox, task, jit, checked,
                 submitVars>>

\* The approval lease, which is also the deposit entry's expires_at.
LeaseRunsOut(r) ==
  /\ wf[r] = "pending" \/ (kind[r] = "deposit" /\ park[r] # Null)
  /\ r \notin lapsed
  /\ lapsed' = lapsed \cup {r}
  /\ UNCHANGED <<bound, rebinds, kind, tool, park, wf, routing, inbox, task, jit, checked,
                 submitVars>>

JitRunsOut(r) ==
  /\ jit[r] # Null /\ CallsLeft
  /\ jit' = [jit EXCEPT ![r] = Null]
  /\ UNCHANGED <<bound, rebinds, kind, tool, park, lapsed, wf, routing, inbox, task, checked,
                 submitVars>>

---------------------------------------------------------------------------
(* The tools.                                                              *)

\* has_active_for_session_wallet.  A withdraw entry has an expires_at too, but
\* its store never reads it.
Active(k, wallet) ==
  \E r \in Requests :
    /\ kind[r] = k /\ park[r] # Null /\ park[r].wallet = wallet
    /\ k = "deposit" => r \notin lapsed

\* Input checks, the bound wallet and the pending-action guard; then the tool
\* reads the chain.
Propose(r) ==
  /\ tool[r].pc = "new"
  /\ tool' = [tool EXCEPT ![r] = IF Active(kind[r], bound) THEN [@ EXCEPT !.pc = "refused"]
                                 ELSE [pc |-> "reading", wallet |-> bound]]
  /\ UNCHANGED <<bound, rebinds, kind, park, lapsed, wf, routing, inbox, task, jit, checked,
                 submitVars>>

\* Passed: park, register the workflow, spawn the resume task.
Park(r) ==
  /\ tool[r].pc = "reading"
  /\ tool' = [tool EXCEPT ![r].pc = "done"]
  /\ park' = [park EXCEPT ![r] = [wallet |-> tool[r].wallet, open |-> TRUE]]
  /\ wf' = [wf EXCEPT ![r] = "pending"]
  /\ task' = [task EXCEPT ![r] = "wait"]
  /\ UNCHANGED <<bound, rebinds, kind, lapsed, routing, inbox, jit, checked,
                 submitVars>>

\* The read failed or the policy blocks.
Blocked(r) ==
  /\ tool[r].pc = "reading"
  /\ tool' = [tool EXCEPT ![r].pc = "refused"]
  /\ UNCHANGED <<bound, rebinds, kind, park, lapsed, wf, routing, inbox, task, jit, checked,
                 submitVars>>

---------------------------------------------------------------------------
(* The operator's decision.                                                *)

\* Single stage: one vote decides, a late one finds the lease expired.
Decide(r) ==
  /\ wf[r] = "pending"
  /\ \E s \in IF r \in lapsed THEN {"expired"} ELSE {"approved", "rejected"} :
       wf' = [wf EXCEPT ![r] = s] /\ routing' = [routing EXCEPT ![r] = s]
  /\ UNCHANGED <<bound, rebinds, kind, tool, park, lapsed, inbox, task, jit, checked,
                 submitVars>>

\* route_approval_outcome.  The deposit store drops an expired entry, and its
\* sender with it; the withdraw store delivers whatever the time.
Signal(r) ==
  /\ routing[r] # "none"
  /\ routing' = [routing EXCEPT ![r] = "none"]
  /\ \/ /\ park[r] = Null
        /\ UNCHANGED <<park, inbox>>
     \/ /\ park[r] # Null /\ kind[r] = "deposit" /\ r \in lapsed
        /\ park' = [park EXCEPT ![r] = Null]
        /\ inbox' = [inbox EXCEPT ![r] = "dropped"]
     \/ /\ park[r] # Null /\ ~(kind[r] = "deposit" /\ r \in lapsed)
        /\ park' = [park EXCEPT ![r].open = FALSE]
        /\ inbox' = [inbox EXCEPT ![r] = IF park[r].open THEN routing[r] ELSE @]
  /\ UNCHANGED <<bound, rebinds, kind, tool, lapsed, wf, task, jit, checked,
                 submitVars>>

---------------------------------------------------------------------------
(* run_solend_resume_task and run_solend_withdraw_resume_task.             *)

\* Not approved: the entry goes, and so does the task.
ResumeRefused(r) ==
  /\ task[r] = "wait" /\ inbox[r] \in {"rejected", "expired", "dropped"}
  /\ task' = [task EXCEPT ![r] = "done"]
  /\ park' = [park EXCEPT ![r] = Null]
  /\ UNCHANGED <<bound, rebinds, kind, tool, lapsed, wf, routing, inbox, jit, checked,
                 submitVars>>

\* Approved: load the entry; get sweeps an expired deposit.
ResumeApproved(r) ==
  /\ task[r] = "wait" /\ inbox[r] = "approved"
  /\ IF kind[r] = "deposit" /\ r \in lapsed
     THEN /\ task' = [task EXCEPT ![r] = "done"]
          /\ park' = [park EXCEPT ![r] = Null]
     ELSE /\ task' = [task EXCEPT ![r] = "recheck"]
          /\ UNCHANGED park
  /\ UNCHANGED <<bound, rebinds, kind, tool, lapsed, wf, routing, inbox, jit, checked,
                 submitVars>>

\* Seeded fault: the verdict at propose time is trusted.
VerdictAtPropose(pass) == TRUE

\* Only the verdict on the fresh snapshot counts.
FreshVerdict(pass) == pass

\* The fresh read and the second evaluation.  A blocked entry goes, a deposit
\* that passed goes too and is planned and simulated; a withdraw that passed
\* stays parked for the prepare route.
Recheck(r) ==
  /\ task[r] = "recheck"
  /\ \E pass \in BOOLEAN :
       /\ checked' = IF pass THEN checked \cup {r} ELSE checked
       /\ park' = IF kind[r] = "withdraw" /\ FreshVerdict(pass) THEN park
                  ELSE [park EXCEPT ![r] = Null]
       /\ task' = [task EXCEPT ![r] =
                     IF kind[r] = "deposit" /\ FreshVerdict(pass) THEN "preflight" ELSE "done"]
  /\ UNCHANGED <<bound, rebinds, kind, tool, lapsed, wf, routing, inbox, jit,
                 submitVars>>

\* The simulation passed: a JIT-ready entry under a lease of its own.
Preflight(r) ==
  /\ task[r] = "preflight"
  /\ task' = [task EXCEPT ![r] = "done"]
  /\ \E passed \in BOOLEAN :
       jit' = IF passed THEN [jit EXCEPT ![r] = [wallet |-> tool[r].wallet]] ELSE jit
  /\ UNCHANGED <<bound, rebinds, kind, tool, park, lapsed, wf, routing, inbox, checked,
                 submitVars>>

---------------------------------------------------------------------------
(* The prepare routes.                                                     *)

\* What a prepare call works from: the JIT-ready entry of a deposit, the
\* parked entry of a withdraw.
Planned(r) == IF kind[r] = "deposit" THEN jit[r] ELSE park[r]

\* An approved workflow, an entry, and the wallet it was made for still bound.
MayPrepare(r) ==
  /\ wf[r] = "approved"
  /\ Planned(r) # Null
  /\ Planned(r).wallet = bound

\* The entry is not used up: any number of calls may run, also at once.
Prepare(h, r) ==
  /\ hand[h].pc = "free" /\ MayPrepare(r)
  /\ hand' = [hand EXCEPT ![h] = [@ EXCEPT !.pc = "building", !.r = r,
                                           !.wallet = Planned(r).wallet]]
  /\ UNCHANGED <<requestVars, sub, senders, confirming, network>>

\* A withdraw is read and checked once more; then create_signing_handoff
\* fetches a blockhash, signs its part and parks the transaction.
HandOff(h) ==
  /\ hand[h].pc = "building" /\ tip + Validity < MaxHeight
  /\ hand' = [hand EXCEPT ![h] = [@ EXCEPT !.pc = "parked", !.lvbh = tip + Validity,
                                           !.live = TRUE]]
  /\ checked' = IF kind[hand[h].r] = "withdraw" THEN checked \cup {hand[h].r} ELSE checked
  /\ UNCHANGED <<bound, rebinds, kind, tool, park, lapsed, wf, routing, inbox, task, jit,
                 sub, senders, confirming, network>>

HandOffFails(h) ==
  /\ hand[h].pc = "building"
  /\ hand' = [hand EXCEPT ![h].pc = "gone"]
  /\ UNCHANGED <<requestVars, sub, senders, confirming, network>>

---------------------------------------------------------------------------
RequestStep(r) ==
  \/ LeaseRunsOut(r) \/ JitRunsOut(r) \/ Propose(r) \/ Park(r) \/ Blocked(r)
  \/ Decide(r) \/ Signal(r)
  \/ ResumeRefused(r) \/ ResumeApproved(r) \/ Recheck(r) \/ Preflight(r)

PNext ==
  \/ Rebind
  \/ \E r \in Requests : RequestStep(r)
  \/ \E h \in Handoffs : HandOff(h) \/ HandOffFails(h) \/ \E r \in Requests : Prepare(h, r)
  \/ SNext /\ UNCHANGED requestVars

PSpec == PInit /\ [][PNext]_pVars

---------------------------------------------------------------------------
(* Properties.                                                             *)

\* A transaction is handed to the wallet for signing only for a request that
\* was approved and whose position passed a fresh check after the approval, and
\* pays from the wallet the request was made for.
HandoffIsRechecked ==
  \A h \in Handoffs : hand[h].lvbh > 0 =>
    LET r == hand[h].r IN
    wf[r] = "approved" /\ r \in checked /\ hand[h].wallet = tool[r].wallet

===========================================================================
