----------------------------- MODULE W5hOrder -----------------------------
(***************************************************************************)
(* From a drafted order to its two rows: the in-memory draft store         *)
(* (crates/gateway/src/stage2_phase5c_draft.rs), the finalize handler      *)
(* (crates/gateway/src/runtime/stage2_w5h_intent_finalize_wiring.rs) and   *)
(* the W5h bridge (crates/gateway/src/stage2_w5h_bridge.rs), which the     *)
(* deterministic chat command enters without a draft.                      *)
(*                                                                         *)
(* The store's mutex makes each of its methods one step; every await of    *)
(* the bridge is a step boundary.  An order is its intent id, because the  *)
(* id is derived from the amount, the threshold and the controlled wallet  *)
(* and from nothing else.  The clock also stands for the slot.             *)
(***************************************************************************)
EXTENDS W5hFunding, Stage2WatchRules

CONSTANTS
  Drafts,       \* draft ids: a fresh UUID per draft
  Calls,        \* concurrent finalize and chat requests
  DraftTtl,     \* DEFAULT_DRAFT_TTL_SECONDS
  TombExtra,    \* TOMBSTONE_TTL_EXTRA_SECONDS
  RuleWindow,   \* slots until the rule expires
  BridgeFaults  \* the failures the environment may produce

ASSUME OrderRulesAreIntents == Rules = Intents
ASSUME TtlAssumption == DraftTtl \in Nat \ {0} /\ TombExtra \in Nat /\ RuleWindow \in Nat
ASSUME BridgeFaultsAssumption == BridgeFaults \subseteq {"fetch", "db_error", "restart"}

VARIABLES
  draft,    \* draft id -> slot of the store
  fin,      \* call -> program counter, order, caller and answer
  verdict,  \* history: draft id -> the first verdict on it while it was active
  runs,     \* history: draft id -> how often its order entered the bridge
  unruled   \* history: orders whose rule insert failed in some call

orderVars == <<row, now, rules, draft, fin, verdict, runs, unruled>>

---------------------------------------------------------------------------
(* DraftIntentStore.  "unused": not minted yet; "none": no entry.          *)

DraftSlot == [entry : {"unused", "none", "active", "tombstone"},
              i : Intents \cup {Null}, expires : Nat]

NoEntry == [entry |-> "none", i |-> Null, expires |-> 0]

LiveEntry(d, kind) == draft[d].entry = kind /\ draft[d].expires > now

\* insert, under an id that was never used.
DraftInsert(d, i) ==
  /\ draft[d].entry = "unused"
  /\ draft' = [draft EXCEPT ![d] = [entry |-> "active", i |-> i, expires |-> now + DraftTtl]]
  /\ UNCHANGED <<row, now, rules, fin, verdict, runs, unruled>>

\* What a successful consume_if_match puts in the slot.
ConsumedSlot(d) == [entry |-> "tombstone", i |-> draft[d].i,
                    expires |-> now + DraftTtl + TombExtra]

\* consume_if_match for each of its outcomes.
ConsumeOutcome(d, hashMatches) ==
  CASE LiveEntry(d, "active") -> IF hashMatches THEN "ok" ELSE "hash_mismatch"
    [] LiveEntry(d, "tombstone") -> "already_finalized"
    [] OTHER -> "not_found"

SlotAfterConsume(d, outcome) ==
  CASE outcome = "ok" -> ConsumedSlot(d)
    [] outcome = "not_found" /\ draft[d].entry # "unused" -> NoEntry
    [] OTHER -> draft[d]

---------------------------------------------------------------------------
(* The calls.  hash is the slot of the rule the answer names; the deadline *)
(* it shows to the user, which nothing reads back, is left out.            *)

IdleCall == [pc |-> "idle", i |-> Null, user |-> Null, hash |-> 0, reply |-> "none"]

CallReply(c, r) == fin' = [fin EXCEPT ![c] = [IdleCall EXCEPT !.reply = r]]

\* run_confirm up to its first await: consume the draft, read the wallet
\* bound to the session now (none: the draft is gone all the same).
FinalizeConfirm(c, d, u, hashMatches) ==
  LET outcome == ConsumeOutcome(d, hashMatches)
      call == [IdleCall EXCEPT !.i = draft[d].i, !.user = u]
  IN /\ fin[c].pc = "idle"
     /\ draft' = [draft EXCEPT ![d] = SlotAfterConsume(d, outcome)]
     /\ verdict' = [verdict EXCEPT ![d] = IF outcome = "ok" /\ @ = "none" THEN "confirmed" ELSE @]
     /\ IF outcome = "ok" /\ u # Null
        THEN /\ fin' = [fin EXCEPT ![c] = [call EXCEPT !.pc = "fetch"]]
             /\ runs' = [runs EXCEPT ![d] = @ + 1]
        ELSE /\ CallReply(c, IF outcome = "ok" THEN "bad_request" ELSE outcome)
             /\ UNCHANGED runs
     /\ UNCHANGED <<row, now, rules, unruled>>

\* Seeded fault: the reject path only looks the draft up.
RejectLooksUp(c, d) ==
  /\ fin[c].pc = "idle"
  /\ CallReply(c, "rejected")
  /\ verdict' = [verdict EXCEPT ![d] =
                   IF LiveEntry(d, "active") /\ @ = "none" THEN "rejected" ELSE @]
  /\ UNCHANGED <<row, now, rules, draft, runs, unruled>>

\* run_reject: the entry, or the tombstone, is dropped unconditionally.
FinalizeReject(c, d) ==
  /\ fin[c].pc = "idle"
  /\ draft' = [draft EXCEPT ![d] = IF @.entry = "unused" THEN @ ELSE NoEntry]
  /\ CallReply(c, "rejected")
  /\ verdict' = [verdict EXCEPT ![d] =
                   IF LiveEntry(d, "active") /\ @ = "none" THEN "rejected" ELSE @]
  /\ UNCHANGED <<row, now, rules, runs, unruled>>

\* handle_w5h_chat_command: the strict grammar matched, no draft is involved.
ChatCommand(c, i, u) ==
  /\ fin[c].pc = "idle"
  /\ fin' = [fin EXCEPT ![c] = [IdleCall EXCEPT !.pc = "fetch", !.i = i, !.user = u]]
  /\ UNCHANGED <<row, now, rules, draft, verdict, runs, unruled>>

\* The decision-metric snapshot; the rule is built at the slot it was read.
BridgeFetch(c) ==
  /\ fin[c].pc = "fetch"
  /\ \/ fin' = [fin EXCEPT ![c] = [@ EXCEPT !.pc = "rule", !.hash = now]]
     \/ "fetch" \in BridgeFaults /\ CallReply(c, "bridge_failed")
  /\ UNCHANGED <<row, now, rules, draft, verdict, runs, unruled>>

\* Seeded fault: on a collision the answer keeps the freshly built rule.
CollisionKeepsFresh(c) == fin[c].hash

\* PersistOutcome::AlreadyPresent: the persisted rule replaces the fresh one.
CollisionHash(c) == rules[fin[c].i].hash

\* persist_rule_idempotent: inserted, already there, or failed, in which
\* case the bridge goes on with the rule it has just built.
BridgePersistRule(c) ==
  LET i == fin[c].i
      Continue(h) == fin' = [fin EXCEPT ![c] = [@ EXCEPT !.pc = "intent", !.hash = h]]
  IN /\ fin[c].pc = "rule"
     /\ \/ /\ RuleInsert(i, fin[c].hash, fin[c].hash + RuleWindow)
           /\ Continue(fin[c].hash) /\ UNCHANGED unruled
        \/ RulePresent(i) /\ Continue(CollisionHash(c)) /\ UNCHANGED <<rules, unruled>>
        \/ /\ "db_error" \in BridgeFaults
           /\ Continue(fin[c].hash) /\ unruled' = unruled \cup {i} /\ UNCHANGED rules
     /\ UNCHANGED <<row, now, draft, verdict, runs>>

Answer(c) == fin' = [fin EXCEPT ![c] = [@ EXCEPT !.pc = "idle", !.reply = "ok"]]

\* Seeded fault: a confirm of a known order replaces its row.
UpsertIntent(c) ==
  LET i == fin[c].i IN
    /\ fin[c].pc = "intent"
    /\ row' = [row EXCEPT ![i] = [AbsentRow EXCEPT !.status = "funding_required",
                                                  !.user = fin[c].user,
                                                  !.hash = fin[c].hash,
                                                  !.expires = now + Window]]
    /\ Answer(c)
    /\ UNCHANGED <<now, rules, draft, verdict, runs, unruled>>

\* The intent row, or on a collision the row that is there already.
BridgePersistIntent(c) ==
  LET i == fin[c].i IN
    /\ fin[c].pc = "intent"
    /\ \/ Insert(i, fin[c].user, fin[c].hash, now) /\ Answer(c)
       \/ ~IsAbsent(row[i]) /\ Answer(c) /\ UNCHANGED row
       \/ "db_error" \in BridgeFaults /\ CallReply(c, "bridge_failed") /\ UNCHANGED row
    /\ UNCHANGED <<now, rules, draft, verdict, runs, unruled>>

\* The daemon restarts: drafts and calls are gone, the rows stay.
OrderRestart ==
  /\ "restart" \in BridgeFaults
  /\ draft' = [d \in Drafts |-> IF draft[d].entry = "unused" THEN draft[d] ELSE NoEntry]
  /\ fin' = [c \in Calls |-> IdleCall]
  /\ UNCHANGED <<row, now, rules, verdict, runs, unruled>>

OrderNext ==
  \/ \E d \in Drafts, i \in Intents : DraftInsert(d, i)
  \/ \E c \in Calls, d \in Drafts : \/ \E u \in Users \cup {Null}, b \in BOOLEAN :
                                         FinalizeConfirm(c, d, u, b)
                                    \/ FinalizeReject(c, d)
  \/ \E c \in Calls, i \in Intents, u \in Users : ChatCommand(c, i, u)
  \/ \E c \in Calls : BridgeFetch(c) \/ BridgePersistRule(c) \/ BridgePersistIntent(c)
  \/ OrderRestart

OrderInit ==
  /\ draft = [d \in Drafts |-> [NoEntry EXCEPT !.entry = "unused"]]
  /\ fin = [c \in Calls |-> IdleCall]
  /\ verdict = [d \in Drafts |-> "none"]
  /\ runs = [d \in Drafts |-> 0]
  /\ unruled = {}

\* The W5e demo command persists the same rule without an intent.
DemoCommand(i) ==
  /\ RuleInsert(i, now, now + RuleWindow)
  /\ UNCHANGED <<row, now, draft, fin, verdict, runs, unruled>>

OInit == FInit /\ RulesInit /\ OrderInit

ONext == \/ OrderNext
         \/ \E i \in Intents : DemoCommand(i)
         \/ Tick /\ UNCHANGED <<rules, draft, fin, verdict, runs, unruled>>

OSpec == OInit /\ [][ONext]_orderVars

---------------------------------------------------------------------------
(* Properties. *)

\* However confirms and rejects of one draft race, retry or come late, its
\* order enters the bridge at most once, and never after it was rejected.
DraftRunsOnce ==
  \A d \in Drafts : /\ runs[d] =< 1
                    /\ verdict[d] = "rejected" => runs[d] = 0

\* The memo the user is told to sign names the rule that is stored: an order
\* row has its rule, both carry the same canonical hash, and so does every
\* answer for that order.  Except for an order whose rule insert failed: the
\* bridge goes on with a rule that is nowhere, and the next call for the same
\* order stores one of another hash.
HashesAgree ==
  /\ \A i \in Intents \ unruled : ~IsAbsent(row[i]) =>
       RulePresent(i) /\ rules[i].hash = row[i].hash
  /\ \A c \in Calls : fin[c].reply = "ok" /\ fin[c].i \notin unruled =>
       fin[c].hash = row[fin[c].i].hash

===========================================================================
