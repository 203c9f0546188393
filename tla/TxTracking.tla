---------------------------- MODULE TxTracking ----------------------------
(***************************************************************************)
(* Following a submitted transaction to its end:                           *)
(*   crates/gateway/src/daemon.rs             registration and recovery    *)
(*   crates/solana-core/src/tx_lifecycle.rs   calculate_next_state         *)
(*   crates/solana-core/src/tracker.rs        the polling worker           *)
(*   crates/gateway/src/lifecycle_persister.rs  rows and events            *)
(*   crates/state-store/src/tracking.rs       transaction_tracking         *)
(*                                                                         *)
(* The worker awaits the block height, the statuses and every rebroadcast; *)
(* between two awaits it is one step.  The network is external: a          *)
(* transaction lands while its blockhash is valid, a processed block may   *)
(* be abandoned, and a node may lag behind in height and in status.        *)
(* Events and audit records go together.  Which of the warm, cool and      *)
(* expiry-watch records a tick polls is left open; hot ones are always in. *)
(***************************************************************************)
EXTENDS TxLifecycle, Sequences, FiniteSets

CONSTANTS
  Sigs,        \* transaction signatures
  Lvbh,        \* signature -> last valid block height of its blockhash
  Legacy,      \* signatures of legacy transactions; the others are V0
  Validity,    \* blocks a blockhash stays valid (150)
  HotBlocks,   \* distance up to which every tick polls (30)
  Buffer,      \* EXPIRY_TRACKING_BUFFER
  MaxRetries,  \* RetryPolicy::max_retries
  Lag,         \* bound: blocks a node may be behind
  Skew,        \* bound: slots without a block
  MaxHeight, MaxFailures, MaxRestarts,  \* bounds
  Null

Row == [state : TxState, sub : Nat, lvbh : Nat]
Record == [state : TxState, sub : Nat, lvbh : Nat, retries : Nat, bytes : BOOLEAN]

ASSUME TrackingBounds ==
  /\ IsFiniteSet(Sigs) /\ Null \notin Row \cup Record
  /\ Lvbh \in [Sigs -> Nat \ {0}] /\ Legacy \subseteq Sigs
  /\ {Validity, HotBlocks, Buffer, MaxRetries, Lag, Skew, MaxHeight,
      MaxFailures, MaxRestarts} \subseteq Nat
  /\ \A s \in Sigs : Lvbh[s] + Buffer + Lag < MaxHeight

VARIABLES
  height,     \* block height of the network
  chain,      \* signature -> how far and how it executed
  net,        \* signatures the network has been given
  handler,    \* signature -> progress of submit_signed_tx_inner
  row,        \* transaction_tracking: state and submission height
  mem,        \* TransactionTracker.tracking
  poll,       \* the worker: program counter, height read, rebroadcasts left
  changes,    \* channel to the persister
  emitting,   \* events the persister has still to publish
  published,  \* signature -> events published
  failures, restarts

network == <<height, chain, net>>
worker == <<mem, poll>>
persister == <<changes, emitting, published>>
tVars == <<network, handler, row, worker, persister, failures, restarts>>

TInit ==
  /\ height = 1
  /\ chain = [s \in Sigs |-> NoObs]
  /\ net = {}
  /\ handler = [s \in Sigs |-> "new"]
  /\ row = [s \in Sigs |-> Null]
  /\ mem = [s \in Sigs |-> Null]
  /\ poll = [pc |-> "idle", h |-> 0, left |-> {}]
  /\ changes = <<>> /\ emitting = Null
  /\ published = [s \in Sigs |-> {}]
  /\ failures = 0 /\ restarts = 0

Write(ok) ==
  /\ ok \/ failures < MaxFailures
  /\ failures' = IF ok THEN failures ELSE failures + 1

---------------------------------------------------------------------------
(* The network.                                                            *)

NewBlock ==
  /\ height < MaxHeight
  /\ height' = height + 1
  /\ UNCHANGED <<chain, net, handler, row, worker, persister, failures, restarts>>

CanLand(s) == s \in net /\ chain[s].at = "none" /\ height <= Lvbh[s]

Land(s) ==
  /\ CanLand(s)
  /\ \E ok \in BOOLEAN : chain' = [chain EXCEPT ![s] = [at |-> "processed", ok |-> ok]]
  /\ UNCHANGED <<height, net, handler, row, worker, persister, failures, restarts>>

Settle(s) ==
  /\ chain[s].at \in {"processed", "confirmed"}
  /\ chain' = [chain EXCEPT ![s].at = IF @ = "processed" THEN "confirmed" ELSE "finalized"]
  /\ UNCHANGED <<height, net, handler, row, worker, persister, failures, restarts>>

\* The fork that holds the block loses.
Abandon(s) ==
  /\ chain[s].at = "processed"
  /\ chain' = [chain EXCEPT ![s] = NoObs]
  /\ UNCHANGED <<height, net, handler, row, worker, persister, failures, restarts>>

\* What a node may answer for a signature, and for the finalized height.
Answers(s) ==
  {NoObs} \cup
  {[at |-> Levels[k], ok |-> chain[s].ok] :
     k \in {k \in 1..3 : \E j \in k..3 : chain[s].at = Levels[j]}}

Heights == {h \in 1..height : h + Lag >= height}

---------------------------------------------------------------------------
(* Registration, in submit_signed_tx_inner.                                *)

Send(s) ==
  /\ handler[s] = "new"
  /\ net' = net \cup {s}
  /\ handler' = [handler EXCEPT ![s] = "sent"]
  /\ UNCHANGED <<height, chain, row, worker, persister, failures, restarts>>

\* last_valid_block_height.saturating_sub(150), never 0.
FallbackHeight(lvbh) == IF lvbh > Validity THEN lvbh - Validity ELSE 1

\* track: idempotent, in state Submitted.
Tracked(s, sub, lvbh) ==
  IF mem[s] # Null THEN mem[s]
  ELSE [state |-> "submitted", sub |-> sub, lvbh |-> lvbh, retries |-> 0, bytes |-> TRUE]

\* Durable first: no row, no record.
TrackAllowed(ok) == ok

\* The completion metadata gives the last valid height, or 0 if it was lost in
\* a restart; getBlockHeight or its fallback, INSERT OR IGNORE, then track.
Register(s) ==
  /\ handler[s] = "sent"
  /\ handler' = [handler EXCEPT ![s] = "done"]
  /\ \E lvbh \in {0, Lvbh[s]}, ok \in BOOLEAN :
     \E sub \in Heights \cup {FallbackHeight(lvbh)} :
       /\ Write(ok)
       /\ row' = IF ok /\ row[s] = Null
                 THEN [row EXCEPT ![s] = [state |-> "submitted", sub |-> sub, lvbh |-> lvbh]]
                 ELSE row
       /\ mem' = IF TrackAllowed(ok) THEN [mem EXCEPT ![s] = Tracked(s, sub, lvbh)] ELSE mem
  /\ UNCHANGED <<network, poll, persister, restarts>>

---------------------------------------------------------------------------
(* tx_lifecycle.rs: whether a record stays in memory.                       *)

\* Seeded fault: an expired record is never closed.
ContinueExpired(s, h) == mem[s].state \notin {"finalized", "failed"}

\* should_continue_tracking.
should_continue_tracking(s, h) ==
  \/ mem[s].state \in {"submitted", "dropped", "confirmed"}
  \/ mem[s].state = "expired" /\ h <= mem[s].lvbh + Buffer

---------------------------------------------------------------------------
(* tracker.rs: run.                                                        *)

InMemory == {s \in Sigs : mem[s] # Null}
Hot(h) == {s \in InMemory : h - mem[s].sub <= HotBlocks}

PollHeight ==
  /\ poll.pc = "idle" /\ InMemory # {}
  /\ \E h \in Heights : poll' = [poll EXCEPT !.pc = "status", !.h = h]
  /\ UNCHANGED <<network, handler, row, mem, persister, failures, restarts>>

\* One state change per record that moved, in the order of the batch.
ChangesOf(moved, new) ==
  {q \in [1..Cardinality(moved) -> [s : moved, to : TxState]] :
     /\ {q[k].s : k \in DOMAIN q} = moved
     /\ \A k \in DOMAIN q : q[k].to = new[q[k].s]}

\* Steps 3 to 4b: the batch's answers are applied, the changes are sent, and
\* the dropped records with bytes and retries left are collected.
ApplyStatuses(polled, obs) ==
  LET new == [s \in InMemory |->
                IF s \in polled
                THEN calculate_next_state(mem[s].state, obs[s], poll.h, mem[s].sub, mem[s].lvbh)
                ELSE mem[s].state]
  IN
  /\ mem' = [s \in Sigs |-> IF s \in InMemory THEN [mem[s] EXCEPT !.state = new[s]] ELSE Null]
  /\ \E q \in ChangesOf({s \in InMemory : new[s] # mem[s].state}, new) :
       changes' = changes \o q
  /\ poll' = [poll EXCEPT !.pc = "rebroadcast", !.left =
                {s \in InMemory : /\ new[s] = "dropped"
                                  /\ mem[s].retries < MaxRetries
                                  /\ mem[s].bytes
                                  /\ poll.h <= mem[s].lvbh}]
  /\ UNCHANGED <<network, handler, row, emitting, published, failures, restarts>>

PollStatuses ==
  /\ poll.pc = "status"
  /\ \E polled \in SUBSET InMemory :
       /\ Hot(poll.h) \subseteq polled /\ polled # {}
       /\ \E obs \in [polled -> UNION {Answers(s) : s \in polled}] :
            /\ \A s \in polled : obs[s] \in Answers(s)
            /\ ApplyStatuses(polled, obs)

\* Nothing is due this tick, or the height could not be used: the loop starts
\* over without clean-up.
PollSkips ==
  /\ poll.pc = "status" /\ Hot(poll.h) = {}
  /\ poll' = [poll EXCEPT !.pc = "idle"]
  /\ UNCHANGED <<network, handler, row, mem, persister, failures, restarts>>

\* The status call fails: no answer is applied, the loop goes on.
PollStatusesFails == poll.pc = "status" /\ ApplyStatuses({}, <<>>)

CountedRetry(s) == mem[s].retries + 1

\* rebroadcast decodes a legacy transaction: V0 bytes always fail.
Rebroadcast(s) ==
  /\ poll.pc = "rebroadcast" /\ s \in poll.left
  /\ poll' = [poll EXCEPT !.left = @ \ {s}]
  /\ \E sentAgain \in IF s \in Legacy THEN BOOLEAN ELSE {FALSE} :
       mem' = [mem EXCEPT ![s] =
                 IF sentAgain
                 THEN [@ EXCEPT !.retries = CountedRetry(s), !.state = "submitted", !.sub = poll.h]
                 ELSE [@ EXCEPT !.retries = CountedRetry(s)]]
  /\ UNCHANGED <<network, handler, row, persister, failures, restarts>>

CleanUp ==
  /\ poll.pc = "rebroadcast" /\ poll.left = {}
  /\ mem' = [s \in Sigs |-> IF s \in InMemory /\ should_continue_tracking(s, poll.h)
                            THEN mem[s] ELSE Null]
  /\ poll' = [poll EXCEPT !.pc = "idle"]
  /\ UNCHANGED <<network, handler, row, persister, failures, restarts>>

---------------------------------------------------------------------------
(* lifecycle_persister.rs: handle_change.                                  *)

\* Finalized publishes Confirmed first, whether or not it was published.
EventsOf(to) ==
  CASE to = "finalized" -> <<"confirmed", "finalized">>
    [] to = "submitted" -> <<>>
    [] OTHER -> <<to>>

\* update_state has no condition on the state it replaces; a change whose
\* write fails is dropped.
PersistChange ==
  /\ emitting = Null /\ changes # <<>>
  /\ LET c == Head(changes) IN
     \E ok \in BOOLEAN :
       /\ Write(ok)
       /\ row' = IF ok /\ row[c.s] # Null THEN [row EXCEPT ![c.s].state = c.to] ELSE row
       /\ emitting' = IF ok THEN [s |-> c.s, todo |-> EventsOf(c.to)] ELSE Null
  /\ changes' = Tail(changes)
  /\ UNCHANGED <<network, handler, worker, published, restarts>>

\* mark_event_emitted, then audit and publish; without the mark, neither.
EmitEvent ==
  /\ emitting # Null /\ emitting.todo # <<>>
  /\ \E ok \in BOOLEAN :
       /\ Write(ok)
       /\ published' = IF ok THEN [published EXCEPT ![emitting.s] = @ \cup {Head(emitting.todo)}]
                       ELSE published
  /\ emitting' = IF Tail(emitting.todo) = <<>> THEN Null
                 ELSE [emitting EXCEPT !.todo = Tail(@)]
  /\ UNCHANGED <<network, handler, row, worker, changes, restarts>>

---------------------------------------------------------------------------
(* Crash and start-up recovery.                                            *)

\* load_active takes every non-terminal row, also a confirmed one; what is
\* past its height by get_slot is marked expired, the rest is tracked again
\* as Submitted and without bytes.  get_slot may fail, and so may the load.
Restart ==
  /\ restarts < MaxRestarts
  /\ restarts' = restarts + 1
  /\ \E slot \in {0} \cup height..(height + Skew), loaded \in BOOLEAN :
       LET active == {s \in Sigs : row[s] # Null /\ loaded
                        /\ row[s].state \in {"submitted", "confirmed", "dropped"}}
           dead == {s \in active : slot > 0 /\ slot > row[s].lvbh + Buffer}
       IN
       /\ row' = [s \in Sigs |-> IF s \in dead THEN [row[s] EXCEPT !.state = "expired"] ELSE row[s]]
       /\ mem' = [s \in Sigs |->
                    IF s \in active \ dead
                    THEN [state |-> "submitted", sub |-> row[s].sub, lvbh |-> row[s].lvbh,
                          retries |-> 0, bytes |-> FALSE]
                    ELSE Null]
  /\ handler' = [s \in Sigs |-> IF handler[s] = "sent" THEN "done" ELSE handler[s]]
  /\ poll' = [pc |-> "idle", h |-> 0, left |-> {}]
  /\ changes' = <<>> /\ emitting' = Null
  /\ UNCHANGED <<network, published, failures>>

---------------------------------------------------------------------------
PollAnswers == PollStatuses \/ PollSkips \/ PollStatusesFails

TNext ==
  \/ NewBlock
  \/ \E s \in Sigs : Land(s) \/ Settle(s) \/ Abandon(s) \/ Send(s) \/ Register(s) \/ Rebroadcast(s)
  \/ PollHeight \/ PollAnswers \/ CleanUp
  \/ PersistChange \/ EmitEvent
  \/ Restart

TSpec == TInit /\ [][TNext]_tVars

\* A tick in which the nodes answer, and answer with what there is.
PollInTime ==
  /\ poll.pc = "status" /\ poll.h = height
  /\ ApplyStatuses(InMemory, chain)

\* Blocks are produced, a processed block is confirmed or abandoned and a
\* confirmed one finalized; the loop ticks, and again and again it reaches a
\* node that is up to date.  Nothing is assumed of submissions and crashes.
TFairness ==
  /\ WF_tVars(NewBlock)
  /\ \A s \in Sigs : WF_tVars(Settle(s) \/ Abandon(s)) /\ WF_tVars(Rebroadcast(s))
                     /\ SF_tVars(Settle(s))
  /\ WF_tVars(PollHeight) /\ SF_tVars(PollHeight /\ poll'.h = height)
  /\ WF_tVars(PollAnswers) /\ SF_tVars(PollInTime)
  /\ WF_tVars(CleanUp) /\ WF_tVars(PersistChange) /\ WF_tVars(EmitEvent)

TFairSpec == TSpec /\ TFairness

---------------------------------------------------------------------------
(* Properties.                                                             *)

\* A transaction is reported or recorded as finalized only if the network
\* finalized it without an error, however nodes lag and forks are abandoned.
FinalizedIsReal ==
  \A s \in Sigs :
    "finalized" \in published[s] \/ (row[s] # Null /\ row[s].state = "finalized")
      => chain[s] = [at |-> "finalized", ok |-> TRUE]

\* Every record is closed: rebroadcasts do not extend it without end.
TrackingCloses == \A s \in Sigs : (mem[s] # Null) ~> (mem[s] = Null)

===========================================================================
