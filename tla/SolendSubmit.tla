--------------------------- MODULE SolendSubmit ---------------------------
(***************************************************************************)
(* From a parked Solend signing handoff to the end of its transaction      *)
(* (crates/gateway/src):                                                   *)
(*   integrations/solend_signing.rs       the signing store                *)
(*   runtime/solend_submit_wiring.rs      the submit route                 *)
(*   integrations/solend_submit.rs        verification and broadcast       *)
(*   integrations/solend_lifecycle.rs     the recorded outcome             *)
(*   integrations/solend_confirmation.rs  the confirmation tracker         *)
(*                                                                         *)
(* Every store is in memory.  Between two awaits a task is one step, and   *)
(* tasks run on several threads.  The network is external: a transaction   *)
(* lands while its blockhash is valid, and a processed block may be        *)
(* abandoned.  Audit records change nothing and are left out.              *)
(***************************************************************************)
EXTENDS TxLifecycle

CONSTANTS
  Handoffs,     \* signing request ids
  Submits,      \* POSTs of a signed transaction
  Returned,     \* what a POST may carry: "good", "altered", "undecodable"
  MaxSends,     \* MAX_BROADCAST_ATTEMPTS
  MaxResends,   \* MAX_CONFIRMATION_REBROADCAST_ATTEMPTS
  GuardBuffer,  \* BLOCKHASH_GUARD_BUFFER_BLOCKS
  MaxHeight,    \* bound
  Null

ASSUME SubmitBounds ==
  /\ Returned \subseteq {"good", "altered", "undecodable"}
  /\ {MaxSends, MaxResends, GuardBuffer, MaxHeight} \subseteq Nat
  /\ Null \notin Handoffs

VARIABLES
  hand,      \* handoff -> its prepare call, then its signing-store entry
  sub,       \* POST -> program counter, handoff, payload, failed sends
  lifecycle, \* SolendSubmissionLifecycleStore
  tracked,   \* SolendConfirmationTracker.tracked
  poll,      \* its tick
  tip, final,  \* heights of the newest and of the newest finalized block
  chain,     \* handoff -> block, result and commitment of its transaction
  net,       \* handoffs whose transaction the network has been given
  senders    \* history: handoff -> the POSTs that sent it

confirming == <<lifecycle, tracked, poll>>
network == <<tip, final, chain, net>>
submitVars == <<hand, sub, senders, confirming, network>>

NoPoll == [pc |-> "idle", h |-> 0, left |-> {}]
Free == [pc |-> "free", r |-> Null, wallet |-> Null, lvbh |-> 0, live |-> FALSE]
NoPost == [pc |-> "idle", h |-> Null, tx |-> Null, sends |-> 0]

\* Nothing sent, recorded or tracked.
Quiet ==
  /\ lifecycle = [h \in Handoffs |-> "none"]
  /\ tracked = [h \in Handoffs |-> Null]
  /\ poll = NoPoll
  /\ tip = 1 /\ final = 0
  /\ chain = [h \in Handoffs |-> Null]
  /\ net = {}
  /\ senders = [h \in Handoffs |-> {}]

SInit ==
  /\ hand = [h \in Handoffs |-> Free]
  /\ sub = [c \in Submits |-> NoPost]
  /\ Quiet

---------------------------------------------------------------------------
(* solend_lifecycle.rs.                                                    *)

Terminal == {"finalized", "failed", "timeout", "expired", "rejected", "broadcast_failed"}

Precedence(o) ==
  CASE o = "submitted" -> 10
    [] o = "confirming" -> 20
    [] o \in {"finalized", "failed", "timeout"} -> 90
    [] o \in {"expired", "rejected", "broadcast_failed"} -> 100

\* record: the first write wins.
Recorded(h, o) == IF lifecycle[h] = "none" THEN o ELSE lifecycle[h]

\* transition: only upwards, never out of a terminal outcome, never from nothing.
Advanced(h, o) ==
  IF /\ lifecycle[h] \notin Terminal \cup {"none"}
     /\ Precedence(o) > Precedence(lifecycle[h])
  THEN o ELSE lifecycle[h]

---------------------------------------------------------------------------
(* The signing store and the submit route.                                 *)

SigningRunsOut(h) ==
  /\ hand[h].pc = "parked" /\ hand[h].live
  /\ hand' = [hand EXCEPT ![h].live = FALSE]
  /\ UNCHANGED <<sub, senders, confirming, network>>

SubmitEnds(c) == sub' = [sub EXCEPT ![c].pc = "done"]

\* summary_for_session, which sweeps an expired entry; with no entry the
\* answer comes from the lifecycle store.
Submit(c, h, tx) ==
  /\ sub[c].pc = "idle" /\ hand[h].pc \in {"parked", "gone"}
  /\ sub' = [sub EXCEPT ![c] =
               [pc |-> IF hand[h].live THEN "peeked" ELSE "done", h |-> h, tx |-> tx, sends |-> 0]]
  /\ hand' = IF hand[h].live THEN hand ELSE [hand EXCEPT ![h].pc = "gone"]
  /\ UNCHANGED <<senders, confirming, network>>

\* A body that does not decode is rejected before the entry is consumed, and
\* recorded as rejected.
RejectUndecoded(c) ==
  /\ sub[c].pc = "peeked" /\ sub[c].tx = "undecodable"
  /\ lifecycle' = [lifecycle EXCEPT ![sub[c].h] = Recorded(sub[c].h, "rejected")]
  /\ SubmitEnds(c)
  /\ UNCHANGED <<hand, senders, tracked, poll, network>>

\* Seeded fault: the entry is read and left in the store.
ReadEntry(h) == hand

\* consume: the entry is taken out of the store.
ConsumeEntry(h) == [hand EXCEPT ![h] = [@ EXCEPT !.pc = "gone", !.live = FALSE]]

Consume(c) ==
  /\ sub[c].pc = "peeked" /\ sub[c].tx # "undecodable"
  /\ IF hand[sub[c].h].live
     THEN hand' = ConsumeEntry(sub[c].h) /\ sub' = [sub EXCEPT ![c].pc = "verify"]
     ELSE hand' = [hand EXCEPT ![sub[c].h].pc = "gone"] /\ SubmitEnds(c)
  /\ UNCHANGED <<senders, confirming, network>>

\* Checks C to F on the message and its signatures, then the height.
Verify(c) ==
  /\ sub[c].pc = "verify"
  /\ \E read \in BOOLEAN, at \in final..tip :
       LET h == sub[c].h
           out == IF sub[c].tx # "good" \/ ~read THEN "rejected"
                  ELSE IF BlockhashExpired(at, hand[h].lvbh) THEN "expired" ELSE "none"
       IN
       /\ lifecycle' = IF out = "none" THEN lifecycle
                       ELSE [lifecycle EXCEPT ![h] = Recorded(h, out)]
       /\ sub' = [sub EXCEPT ![c].pc = IF out = "none" THEN "send" ELSE "done"]
  /\ UNCHANGED <<hand, senders, tracked, poll, network>>

\* The attempts are used up, or the next one finds no height or one past the
\* last valid.
SendGivesUp(c) ==
  /\ sub[c].pc = "send" /\ sub[c].sends > 0
  /\ lifecycle' = [lifecycle EXCEPT ![sub[c].h] = Recorded(sub[c].h, "broadcast_failed")]
  /\ SubmitEnds(c)
  /\ UNCHANGED <<hand, senders, tracked, poll, network>>

\* One attempt; an error does not say that the node did not take it.
Send(c) ==
  /\ sub[c].pc = "send" /\ sub[c].sends < MaxSends
  /\ sub[c].sends > 0 => ~BlockhashExpired(final, hand[sub[c].h].lvbh)
  /\ senders' = [senders EXCEPT ![sub[c].h] = @ \cup {c}]
  /\ \/ /\ net' = net \cup {sub[c].h}
        /\ sub' = [sub EXCEPT ![c].pc = "record"]
     \/ /\ net' \in {net, net \cup {sub[c].h}}
        /\ sub' = [sub EXCEPT ![c].sends = @ + 1]
  /\ UNCHANGED <<hand, confirming, tip, final, chain>>

RecordSubmitted(c) ==
  /\ sub[c].pc = "record"
  /\ lifecycle' = [lifecycle EXCEPT ![sub[c].h] = Recorded(sub[c].h, "submitted")]
  /\ sub' = [sub EXCEPT ![c].pc = "enqueue"]
  /\ UNCHANGED <<hand, senders, tracked, poll, network>>

\* The height, or the last valid one when it cannot be read; then enqueue, a
\* no-op for a tracked signature and for a terminal outcome.
Enqueue(c) ==
  /\ sub[c].pc = "enqueue"
  /\ LET h == sub[c].h IN
     \E at \in final..tip \cup {hand[h].lvbh} :
       tracked' = IF lifecycle[h] \in Terminal \/ tracked[h] # Null THEN tracked
                  ELSE [tracked EXCEPT ![h] = [state |-> "submitted", sub |-> at, resends |-> 0]]
  /\ SubmitEnds(c)
  /\ UNCHANGED <<hand, senders, lifecycle, poll, network>>

\* The client goes away and the server drops the request at an await.
Disconnect(c) ==
  /\ \/ sub[c].pc \in {"verify", "send", "record", "enqueue"}
     \/ sub[c].pc = "peeked" /\ sub[c].tx = "undecodable"
  /\ SubmitEnds(c)
  /\ UNCHANGED <<hand, senders, confirming, network>>

---------------------------------------------------------------------------
(* solend_confirmation.rs: tick_once.                                      *)

InTracker == {h \in Handoffs : tracked[h] # Null}

\* Seeded fault: the height of the newest block instead of a finalized one.
NewestHeights == 0..tip

\* The height a node may report at commitment finalized.
FinalizedHeights == 0..final

PollHeight ==
  /\ poll.pc = "idle" /\ InTracker # {}
  /\ \E h \in FinalizedHeights : poll' = [poll EXCEPT !.pc = "status", !.h = h]
  /\ UNCHANGED <<hand, sub, senders, lifecycle, tracked, network>>

\* What there is to know of a transaction.
Newest(h) ==
  IF chain[h] = Null THEN NoObs ELSE [at |-> chain[h].at, ok |-> chain[h].ok]

\* What a node may answer.  Height and statuses are read from clients of their
\* own, which may be of different nodes, and nothing is looked up in the ledger's
\* history: of a block below the height just read the node may know less than
\* there is, or nothing.
Answers(h) ==
  {NoObs, Newest(h)} \cup
    {[at |-> Levels[k], ok |-> Newest(h).ok] :
       k \in {k \in 1..3 : \E j \in k..3 : Newest(h).at = Levels[j]}}

\* on_state_change: the outcome a state stands for; Dropped is provisional.
OutcomeOf(state) ==
  CASE state = "confirmed" -> "confirming"
    [] state = "expired" -> "timeout"
    [] state \in {"finalized", "failed"} -> state

\* tick_once up to the rebroadcast pass: new states, their outcomes, and who is
\* to be sent again (the interval gate is left open).
ApplyStatuses(obs) ==
  LET new == [h \in InTracker |->
                calculate_next_state(tracked[h].state, obs[h], poll.h, tracked[h].sub, hand[h].lvbh)]
      moved == {h \in InTracker : new[h] # tracked[h].state /\ new[h] \notin {"submitted", "dropped"}}
  IN
  /\ tracked' = [h \in Handoffs |-> IF h \in InTracker THEN [tracked[h] EXCEPT !.state = new[h]] ELSE Null]
  /\ lifecycle' = [h \in Handoffs |-> IF h \in moved THEN Advanced(h, OutcomeOf(new[h])) ELSE lifecycle[h]]
  /\ \E due \in SUBSET {h \in InTracker : /\ obs[h] = NoObs
                                          /\ new[h] \in {"submitted", "dropped", "confirmed"}
                                          /\ tracked[h].resends < MaxResends
                                          /\ poll.h + GuardBuffer < hand[h].lvbh} :
       poll' = [poll EXCEPT !.pc = "resend", !.left = due]
  /\ UNCHANGED <<hand, sub, senders, network>>

PollStatuses ==
  /\ poll.pc = "status"
  /\ \E obs \in [InTracker -> UNION {Answers(h) : h \in InTracker}] :
       (\A h \in InTracker : obs[h] \in Answers(h)) /\ ApplyStatuses(obs)

\* The status call fails: the tick ends.
PollFails ==
  /\ poll.pc = "status"
  /\ poll' = NoPoll
  /\ UNCHANGED <<hand, sub, senders, lifecycle, tracked, network>>

\* The same bytes once more; every call counts, also a failed one.
Resend(h) ==
  /\ poll.pc = "resend" /\ h \in poll.left
  /\ poll' = [poll EXCEPT !.left = @ \ {h}]
  /\ tracked' = [tracked EXCEPT ![h].resends = @ + 1]
  /\ net' \in {net, net \cup {h}}
  /\ UNCHANGED <<hand, sub, senders, lifecycle, tip, final, chain>>

\* Seeded fault: a confirmed record is pruned like a terminal one.
SettledOrConfirmed(state) == state \in {"finalized", "failed", "expired", "confirmed"}

\* TxState::is_terminal.
is_terminal(state) == state \in {"finalized", "failed", "expired"}

Prune ==
  /\ poll.pc = "resend" /\ poll.left = {}
  /\ tracked' = [h \in Handoffs |-> IF h \in InTracker /\ ~is_terminal(tracked[h].state)
                                    THEN tracked[h] ELSE Null]
  /\ poll' = NoPoll
  /\ UNCHANGED <<hand, sub, senders, lifecycle, network>>

---------------------------------------------------------------------------
(* The network.                                                            *)

\* Blocks before the first blockhash is fetched count for nothing.
NewBlock ==
  /\ tip < MaxHeight /\ \E h \in Handoffs : hand[h].lvbh > 0
  /\ tip' = tip + 1
  /\ UNCHANGED <<hand, sub, senders, confirming, final, chain, net>>

CanLand(h) == h \in net /\ chain[h] = Null /\ tip <= hand[h].lvbh

Land(h) ==
  /\ CanLand(h)
  /\ \E ok \in BOOLEAN :
       chain' = [chain EXCEPT ![h] = [block |-> tip, ok |-> ok, at |-> "processed"]]
  /\ UNCHANGED <<hand, sub, senders, confirming, tip, final, net>>

Confirm(h) ==
  /\ chain[h] # Null /\ chain[h].at = "processed"
  /\ chain' = [chain EXCEPT ![h].at = "confirmed"]
  /\ UNCHANGED <<hand, sub, senders, confirming, tip, final, net>>

\* The fork that holds the block loses.
Abandon(h) ==
  /\ chain[h] # Null /\ chain[h].at = "processed"
  /\ chain' = [chain EXCEPT ![h] = Null]
  /\ UNCHANGED <<hand, sub, senders, confirming, tip, final, net>>

\* The next block is final, and with it what landed in it.
Finalize ==
  /\ final < tip
  /\ final' = final + 1
  /\ chain' = [h \in Handoffs |-> IF chain[h] # Null /\ chain[h].block <= final'
                                  THEN [chain[h] EXCEPT !.at = "finalized"] ELSE chain[h]]
  /\ UNCHANGED <<hand, sub, senders, confirming, tip, net>>

---------------------------------------------------------------------------
SNext ==
  \/ NewBlock \/ Finalize
  \/ \E h \in Handoffs : SigningRunsOut(h) \/ Resend(h) \/ Land(h) \/ Confirm(h) \/ Abandon(h)
  \/ \E c \in Submits :
       \/ \E h \in Handoffs, tx \in Returned : Submit(c, h, tx)
       \/ RejectUndecoded(c) \/ Consume(c) \/ Verify(c) \/ SendGivesUp(c) \/ Send(c)
       \/ RecordSubmitted(c) \/ Enqueue(c) \/ Disconnect(c)
  \/ PollHeight \/ PollStatuses \/ PollFails \/ Prune

\* A tick that reads the newest finalized height and is told all there is.
PollAnswered ==
  poll.pc = "status" /\ poll.h = final /\ ApplyStatuses([h \in InTracker |-> Newest(h)])

\* Blocks are produced and finalized; the tracker's loop ticks, and again and
\* again its reads succeed.  Nothing is assumed of clients.
SFairness ==
  /\ WF_submitVars(NewBlock) /\ WF_submitVars(Finalize)
  /\ WF_submitVars(PollHeight) /\ SF_submitVars(PollHeight /\ poll'.h = final)
  /\ WF_submitVars(PollStatuses \/ PollFails) /\ SF_submitVars(PollAnswered)
  /\ \A h \in Handoffs : WF_submitVars(Resend(h))
  /\ WF_submitVars(Prune)

---------------------------------------------------------------------------
(* Properties.                                                             *)

\* Replay and double submit: of the POSTs of one signing request at most one
\* ever sends, however they overlap and whatever lease ends in between.
OneSubmitSends == \A h \in Handoffs : \A c, d \in senders[h] : c = d

\* A POST of h whose body did not decode.
Spoilt(h) == \E c \in Submits : sub[c].h = h /\ sub[c].tx = "undecodable"

\* An outcome that tells the user to start over without a signature (Rejected,
\* Expired) is never that of a transaction the network was given: a refusal
\* comes before the first send, and the entry is gone for every other POST.
\* Except after a body that did not decode: its refusal leaves the entry.
RefusedIsNeverSent ==
  \A h \in Handoffs : lifecycle[h] \in {"rejected", "expired"} /\ ~Spoilt(h) => h \notin net

\* ConfirmationTimeout asks the user to propose again.  By then the fate of the
\* first transaction is decided, whatever the nodes answered: it is in a final
\* block or can never land, so that a look at the ledger settles which, and the
\* old one does not race with the new.
TimeoutIsDecided ==
  \A h \in Handoffs : lifecycle[h] = "timeout" =>
    IF chain[h] = Null THEN ~CanLand(h) ELSE chain[h].at = "finalized"

\* What the tracker follows comes to an outcome; none is given up on the way.
SubmissionsSettle ==
  \A h \in Handoffs : (tracked[h] # Null) ~> (lifecycle[h] \in Terminal)

===========================================================================
