--------------------------- MODULE TxLifecycle ---------------------------
(***************************************************************************)
(* crates/solana-core/src/tx_lifecycle.rs: the state a submitted           *)
(* transaction moves to on what a node answers.  The gateway's tracker and *)
(* the Solend confirmation tracker share it.                               *)
(***************************************************************************)
EXTENDS Integers

CONSTANT Grace   \* DROPPED_GRACE_BLOCKS

ASSUME GraceIsNat == Grace \in Nat

TxState == {"submitted", "dropped", "confirmed", "finalized", "failed", "expired"}

\* RpcObservation: the commitment a node reports, if any, and no error.
Levels == <<"processed", "confirmed", "finalized">>
NoObs == [at |-> "none", ok |-> TRUE]

BlockhashExpired(h, lvbh) == h > lvbh

\* A null answer never takes back a confirmation.
KeepOnNull(cur) == cur = "confirmed"

\* Seeded fault: a confirmed status is final.
FinalFromConfirmed(cur) == "finalized"

\* A confirmed status: Submitted, Dropped and Expired are upgraded.
OnConfirmed(cur) == "confirmed"

\* calculate_next_state.
calculate_next_state(cur, obs, h, sub, lvbh) ==
  IF cur \in {"finalized", "failed"} THEN cur
  ELSE IF ~obs.ok THEN "failed"
  ELSE IF obs.at = "finalized" THEN "finalized"
  ELSE IF obs.at = "confirmed" THEN OnConfirmed(cur)
  ELSE IF obs.at = "processed" \/ KeepOnNull(cur) THEN cur
  ELSE IF BlockhashExpired(h, lvbh) THEN "expired"
  ELSE IF h - sub >= Grace /\ cur = "submitted" THEN "dropped"
  ELSE cur

===========================================================================
