------------------------- MODULE W5hFundingConfirm -------------------------
(***************************************************************************)
(* The funding-confirm verifier                                            *)
(* (crates/gateway/src/stage2_w5h_funding_confirm.rs): the frontend posts  *)
(* the signature of the user's funding transaction; the handler binds the  *)
(* signature to the intent, fetches the transaction and either reserves    *)
(* the budget or declares the funding invalid.  Every await is a step      *)
(* boundary, so any number of handlers interleave with one another and     *)
(* with the other users of the repository.                                 *)
(***************************************************************************)
EXTENDS W5hFunding

CONSTANTS
  FundingSigs,   \* signatures of funding transactions
  Deltas,        \* what a funding transaction may add to the controlled ATA
  Handlers       \* concurrent executions of the route handler

ASSUME FundingSigsAssumption == FundingSigs \subseteq Sigs
ASSUME DeltasAssumption == Deltas \subseteq Nat

VARIABLES
  ftx,    \* signature -> what the cluster holds under it
  conf    \* handler -> its program counter, request and last reply

confirmVars == <<row, now, ftx, conf>>

---------------------------------------------------------------------------
(* The cluster's side of a funding transaction (external).  memos are the  *)
(* intents named by its SPL Memo payloads; delta is what it adds to the    *)
(* controlled USDC account where it succeeds.  chain says how the fork the *)
(* cluster follows holds it; blocks remembers how the blocks that were     *)
(* ever confirmed held it, the abandoned ones included.                    *)

ChainStates == {"unseen", "confirmed", "erring", "finalized", "failed"}

FundingTx == [memos : SUBSET Intents, delta : Deltas, chain : ChainStates,
              blocks : SUBSET {"confirmed", "erring"}]

\* A confirmed block holds the transaction, executed with or without an error.
\* Such a block may still be abandoned, and the transaction may then succeed
\* or fail in another one, or appear no more; a finalized block stays.
ChainStep(s) ==
  \E c \in ChainStates :
    /\ <<ftx[s].chain, c>> \in {"unseen"} \X {"confirmed", "erring"}
                               \cup {"confirmed", "erring"} \X {"unseen"}
                               \cup {<<"confirmed", "finalized">>, <<"erring", "failed">>}
    /\ ftx' = [ftx EXCEPT ![s] =
                 [@ EXCEPT !.chain = c,
                           !.blocks = ftx[s].blocks \cup ({c} \cap {"confirmed", "erring"})]]

\* getTransaction at commitment "confirmed" answers with the transaction.
Fetchable(s) == ftx[s].chain # "unseen"

\* meta.err is null.
Succeeded(s) == ftx[s].chain \in {"confirmed", "finalized"}

---------------------------------------------------------------------------
(* Pure verification. *)

\* verify_funding_memo: some memo carries exactly this rule id and hash.
MemoMatches(i, s) == i \in ftx[s].memos

\* Seeded fault: the delta may exceed the amount.
DeltaCovers(i, s) == Succeeded(s) /\ ftx[s].delta >= Amount[i]

\* verify_funding_delta: no error, and the increase equals the persisted amount.
DeltaMatches(i, s) == Succeeded(s) /\ ftx[s].delta = Amount[i]

Verified(i, s) == MemoMatches(i, s) /\ DeltaMatches(i, s)

---------------------------------------------------------------------------
(* The handler. *)

Replies == {"none", "intent_not_found", "request_mismatch", "funding_pending",
            "funding_invalid", "budget_reserved", "already_terminal", "repo_failed"}

IdleHandler == [pc |-> "idle", i |-> Null, s |-> Null, reply |-> "none"]

Confirmable == {"funding_required", "funding_submitted"}

\* Steps 1-3: what the handler answers from the row alone; "none" to go on.
EarlyReply(r, u) ==
  CASE IsAbsent(r) -> "intent_not_found"
    [] ~IsAbsent(r) /\ r.user # u -> "request_mismatch"
    [] r.user = u /\ r.status \in Confirmable -> "none"
    [] r.user = u /\ r.status = "budget_reserved" -> "budget_reserved"
    [] r.user = u /\ r.status = "funding_invalid" -> "funding_invalid"
    [] OTHER -> "already_terminal"

\* The handler goes to pc p, or ends with reply r.
ConfGoto(h, p) == conf' = [conf EXCEPT ![h].pc = p]
ConfReply(h, r) == conf' = [conf EXCEPT ![h] = [IdleHandler EXCEPT !.reply = r]]

ConfirmBegin(h, i, s, u) ==
  /\ conf[h].pc = "idle"
  /\ LET reply == EarlyReply(row[i], u) IN
       IF reply = "none"
       THEN conf' = [conf EXCEPT ![h] = [pc |-> "submit", i |-> i, s |-> s, reply |-> "none"]]
       ELSE ConfReply(h, reply)
  /\ UNCHANGED <<row, now, ftx>>

\* Step 4: bind the signature, or find the row bound to another one.
ConfirmSubmit(h) ==
  /\ conf[h].pc = "submit"
  /\ \/ MarkFundingSubmittedIfRequired(conf[h].i, conf[h].s) /\ ConfGoto(h, "fetch")
     \/ /\ ~CanSubmit(row[conf[h].i], conf[h].s)
        /\ ConfReply(h, "request_mismatch")
        /\ UNCHANGED row
  /\ UNCHANGED <<now, ftx>>

\* Seeded fault: a transaction that is not there yet is an invalid one.
PendingInvalidates(h) ==
  /\ conf[h].pc = "fetch"
  /\ ConfGoto(h, "invalidate")
  /\ UNCHANGED <<row, now, ftx>>

\* Step 5, no transaction to verify: not there yet, an RPC error, or a
\* transaction version the verifier does not support.  The row stays put.
ConfirmPending(h) ==
  /\ conf[h].pc = "fetch"
  /\ ConfReply(h, "funding_pending")
  /\ UNCHANGED <<row, now, ftx>>

\* Step 5 with the transaction, and the pure checks 6a and 6b on it.
ConfirmVerify(h) ==
  /\ conf[h].pc = "fetch"
  /\ Fetchable(conf[h].s)
  /\ ConfGoto(h, IF Verified(conf[h].i, conf[h].s) THEN "reserve" ELSE "invalidate")
  /\ UNCHANGED <<row, now, ftx>>

\* A failed check is recorded if the row is still submitted under this
\* signature; the answer does not depend on whether it was.
ConfirmInvalidate(h) ==
  /\ conf[h].pc = "invalidate"
  /\ \/ MarkFundingInvalidIfSubmitted(conf[h].i, conf[h].s)
     \/ ~SubmittedAs(row[conf[h].i], conf[h].s) /\ UNCHANGED row
  /\ ConfReply(h, "funding_invalid")
  /\ UNCHANGED <<now, ftx>>

\* Step 7: zero rows (another handler was first) is not an error.
ConfirmReserve(h) ==
  /\ conf[h].pc = "reserve"
  /\ \/ MarkBudgetReservedIfSubmitted(conf[h].i, conf[h].s)
     \/ ~SubmittedAs(row[conf[h].i], conf[h].s) /\ UNCHANGED row
  /\ ConfGoto(h, "reread")
  /\ UNCHANGED <<now, ftx>>

\* The answer is read back from the row.
ConfirmReread(h) ==
  /\ conf[h].pc = "reread"
  /\ ConfReply(h, IF row[conf[h].i].status = "budget_reserved"
              THEN "budget_reserved" ELSE "funding_pending")
  /\ UNCHANGED <<row, now, ftx>>

\* A statement fails, the client goes away and the handler's future is
\* dropped, or the daemon restarts: the handler ends, the rows stay.
ConfirmAbort(h) ==
  /\ conf[h].pc # "idle"
  /\ ConfReply(h, "repo_failed")
  /\ UNCHANGED <<row, now, ftx>>

HandlerStep(h) ==
  \/ ConfirmSubmit(h) \/ ConfirmPending(h) \/ ConfirmVerify(h)
  \/ ConfirmInvalidate(h) \/ ConfirmReserve(h) \/ ConfirmReread(h) \/ ConfirmAbort(h)

ConfirmNext ==
  \/ \E h \in Handlers, i \in Intents, s \in FundingSigs, u \in Users : ConfirmBegin(h, i, s, u)
  \/ \E h \in Handlers : HandlerStep(h)
  \/ \E s \in FundingSigs : ChainStep(s) /\ UNCHANGED <<row, now, conf>>

ConfirmInit ==
  /\ ftx \in [FundingSigs -> {f \in FundingTx : f.chain = "unseen" /\ f.blocks = {}}]
  /\ conf = [h \in Handlers |-> IdleHandler]

\* The verifier with the rest of the system reduced to what it may do to the
\* rows: create intents, execute, refund, let time pass.
OtherUsers ==
  \/ \E i \in Intents, u \in Users : Insert(i, u, now, now)
  \/ \E i \in Intents : ExecutionStep(i) \/ RefundStep(i)

CInit == FInit /\ ConfirmInit

CNext == \/ ConfirmNext
         \/ OtherUsers /\ UNCHANGED <<now, ftx, conf>>
         \/ Tick /\ UNCHANGED <<ftx, conf>>

CSpec == CInit /\ [][CNext]_confirmVars

---------------------------------------------------------------------------
(* Properties. *)

\* The transaction under s is the one order i asks for: its memo, its amount.
Pays(i, s) == i \in ftx[s].memos /\ ftx[s].delta = Amount[i]

\* A budget is treated as funded only if the transaction under its funding
\* signature names this very intent, is for exactly its amount and succeeded in
\* a block the cluster confirmed, however many handlers raced with whatever
\* signatures.  The fetch asks for "confirmed": the block may still be abandoned.
FundedIsVerified ==
  \A i \in Intents : row[i].status \in Funded =>
    /\ row[i].fundingSig \in FundingSigs
    /\ Pays(i, row[i].fundingSig)
    /\ "confirmed" \in ftx[row[i].fundingSig].blocks

\* No handler declares a funding transaction invalid that it has not seen to be
\* wrong: another memo, another amount, or an error in a confirmed block.
\* funding_invalid is terminal, so a wrong verdict loses the user's transfer.
InvalidIsDeserved ==
  \A i \in Intents : row[i].status = "funding_invalid" =>
    LET s == row[i].fundingSig IN ~Pays(i, s) \/ "erring" \in ftx[s].blocks

===========================================================================
