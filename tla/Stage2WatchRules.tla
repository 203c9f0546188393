------------------------- MODULE Stage2WatchRules -------------------------
(***************************************************************************)
(* The durable repository of Stage 2 watch rules                           *)
(* (crates/state-store/src/stage2_watch_rules.rs).  As in W5hFunding each  *)
(* method that writes is one SQL statement, hence one atomic step.  The    *)
(* plain mark_* methods have no status in their WHERE clause; the *_if_*   *)
(* methods are compare-and-set.                                            *)
(*                                                                         *)
(* A rule's canonical hash covers its creation slot, so two builds of one  *)
(* rule id at different slots have different hashes: the slot stands for   *)
(* the hash.                                                               *)
(***************************************************************************)
EXTENDS Integers

CONSTANT Rules   \* rule ids

VARIABLE rules   \* rule id -> row of stage2_watch_rules

---------------------------------------------------------------------------

RuleStatus == {"active", "condition_met", "executing", "completed",
               "expired", "revoked", "failed"}

\* The statuses the listing queries exclude.
RuleTerminal == {"completed", "expired", "revoked", "failed"}

\* The two statuses the *_if_not_terminal methods accept.
PreExecution == {"active", "condition_met"}

RuleRow == [status : RuleStatus \cup {"absent"},
            hash : Nat,          \* created_at_slot, for canonical_rule_hash
            expires : Nat,       \* expires_at_slot
            nonce : Nat,         \* execution_nonce
            completed : BOOLEAN,
            revoked : BOOLEAN]

AbsentRule == [status |-> "absent", hash |-> 0, expires |-> 0, nonce |-> 0,
               completed |-> FALSE, revoked |-> FALSE]

RulePresent(r) == rules[r].status # "absent"

---------------------------------------------------------------------------
(* Operations. *)

\* insert: the PRIMARY KEY makes a second insert fail.
RuleInsert(r, slot, expires) ==
  /\ ~RulePresent(r)
  /\ rules' = [rules EXCEPT ![r] = [AbsentRule EXCEPT !.status = "active", !.hash = slot,
                                                      !.expires = expires]]

\* list_pending_lifecycle_limit without its LIMIT: what the scheduler may load.
PendingLifecycle ==
  {r \in Rules : /\ RulePresent(r)
                 /\ ~rules[r].completed
                 /\ ~rules[r].revoked
                 /\ rules[r].status \notin RuleTerminal}

\* list_active: the same filter and the slot expiry, for the health counters.
ListActive(slot) == {r \in PendingLifecycle : rules[r].expires > slot}

\* Seeded fault: the transition without its status predicate.
MarkConditionMetAnyStatus(r) ==
  /\ RulePresent(r)
  /\ rules' = [rules EXCEPT ![r].status = "condition_met"]

MarkConditionMetIfActive(r) ==
  /\ rules[r].status = "active"
  /\ rules' = [rules EXCEPT ![r].status = "condition_met"]

\* Seeded fault: a lease that a second executor can take again.
MarkExecutingAgain(r, n) ==
  /\ rules[r].status \in {"condition_met", "executing"}
  /\ rules' = [rules EXCEPT ![r] = [@ EXCEPT !.status = "executing", !.nonce = n]]

MarkExecutingIfConditionMet(r, n) ==
  /\ rules[r].status = "condition_met"
  /\ rules' = [rules EXCEPT ![r] = [@ EXCEPT !.status = "executing", !.nonce = n]]

MarkRuleCompleted(r) ==
  /\ RulePresent(r)
  /\ rules' = [rules EXCEPT ![r] = [@ EXCEPT !.status = "completed", !.completed = TRUE]]

MarkRuleFailed(r) ==
  /\ RulePresent(r)
  /\ rules' = [rules EXCEPT ![r].status = "failed"]

MarkFailedIfNotTerminal(r) ==
  /\ rules[r].status \in PreExecution
  /\ rules' = [rules EXCEPT ![r].status = "failed"]

\* Seeded fault: the plain mark_expired, which has no status predicate.
MarkExpiredAnyStatus(r) ==
  /\ RulePresent(r)
  /\ rules' = [rules EXCEPT ![r].status = "expired"]

MarkExpiredIfNotTerminal(r) ==
  /\ rules[r].status \in PreExecution
  /\ rules' = [rules EXCEPT ![r].status = "expired"]

MarkRevoked(r) ==
  /\ RulePresent(r)
  /\ rules' = [rules EXCEPT ![r] = [@ EXCEPT !.status = "revoked", !.revoked = TRUE]]

---------------------------------------------------------------------------

RulesInit == rules = [r \in Rules |-> AbsentRule]

===========================================================================
