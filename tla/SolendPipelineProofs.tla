---------------------- MODULE SolendPipelineProofs ----------------------
(***************************************************************************)
(* Theorems about the Solend pipeline: for any requests, wallets, handoffs *)
(* and overlapping POSTs, any leases, retries and rebroadcasts, and a      *)
(* network that lags, forks and loses answers.                             *)
(*                                                                         *)
(* The invariant has one part for each half.  SubmitInv is about the POSTs *)
(* and the confirmation of one handoff: whoever consumed the entry of the  *)
(* signing store is alone with it, and what the chain holds of a handoff   *)
(* lies below its last valid height.  RequestInv is about the requests:    *)
(* what a prepare call works from was approved and checked again.          *)
(***************************************************************************)
EXTENDS SolendPipeline, TLAPS

HandPcs == {"free", "building", "parked", "gone"}
Hand == [pc : HandPcs, r : Requests \cup {Null}, wallet : Wallets \cup {Null},
         lvbh : Nat, live : BOOLEAN]

InFlight == {"verify", "send", "record", "enqueue"}
PostPcs == {"idle", "peeked", "done"} \cup InFlight
Post == [pc : PostPcs, h : Handoffs \cup {Null},
         tx : Returned \cup {Null}, sends : Nat]

Outcome == {"none", "submitted", "confirming"} \cup Terminal
Track == [state : TxState, sub : Nat, resends : Nat]
Block == [block : Nat, ok : BOOLEAN, at : {"processed", "confirmed", "finalized"}]
Poll == [pc : {"idle", "status", "resend"}, h : Nat, left : SUBSET Handoffs]

\* The stores, the route's frames, the tracker and the chain are well formed.
SubmitType ==
  /\ hand \in [Handoffs -> Hand]
  /\ sub \in [Submits -> Post]
  /\ \A c \in Submits : sub[c].pc \in {"peeked"} \cup InFlight => sub[c].h \in Handoffs
  /\ \A c \in Submits : sub[c].pc = "idle" => sub[c].h = Null
  /\ senders \in [Handoffs -> SUBSET Submits]
  /\ lifecycle \in [Handoffs -> Outcome]
  /\ tracked \in [Handoffs -> Track \cup {Null}]
  /\ poll \in Poll
  /\ tip \in Nat /\ final \in 0..tip
  /\ chain \in [Handoffs -> Block \cup {Null}]
  /\ net \subseteq Handoffs

\* A POST that took the entry of h out of the signing store.
Flies(c, h) == sub[c].pc \in InFlight /\ sub[c].h = h
Claims(c, h) == c \in senders[h] \/ Flies(c, h)

\* An entry that can still be consumed is parked; one that was claimed is
\* gone, and gone for all but one POST.
EntryIsTaken ==
  \A h \in Handoffs :
    /\ hand[h].live => hand[h].pc = "parked"
    /\ \A c \in Submits : Claims(c, h) =>
         /\ hand[h].pc = "gone"
         /\ \A d \in Submits : Claims(d, h) => d = c

\* A POST has sent nothing before its send step, and something after it.
SendersAreSent ==
  \A c \in Submits :
    /\ sub[c].pc \in {"idle", "peeked", "verify"} => \A h \in Handoffs : c \notin senders[h]
    /\ sub[c].pc \in {"record", "enqueue"} => c \in senders[sub[c].h]
    /\ sub[c].pc = "peeked" => hand[sub[c].h].pc \in {"parked", "gone"}

\* What is with the network, tracked or about to be sent again was sent; what
\* has an outcome is past its preparation.
TracesAreSent ==
  \A h \in Handoffs :
    /\ (h \in net \/ tracked[h] # Null \/ h \in poll.left) => senders[h] # {}
    /\ h \in poll.left => tracked[h] \in Track
    /\ chain[h] # Null => h \in net
    /\ lifecycle[h] # "none" => hand[h].pc \in {"parked", "gone"}

\* A refusal other than that of a body that did not decode ends the handoff
\* before anything was sent.
RefusedIsUnclaimed ==
  \A h \in Handoffs : lifecycle[h] \in {"rejected", "expired"} /\ ~Spoilt(h) =>
    hand[h].pc = "gone" /\ \A c \in Submits : ~Claims(c, h)

\* A transaction lies in a block its blockhash allows, and is final once a
\* later block is; the tracker's height is that of a final block.
ChainIsBounded ==
  /\ \A h \in Handoffs : chain[h] # Null =>
       /\ chain[h].block <= hand[h].lvbh
       /\ chain[h].block < final => chain[h].at = "finalized"
  /\ poll.h <= final

\* After a timeout every block that could hold the transaction is final.
TimeoutIsPast ==
  \A h \in Handoffs : lifecycle[h] = "timeout" => hand[h].lvbh < final /\ hand[h].pc = "gone"

SubmitInv ==
  /\ SubmitType /\ EntryIsTaken /\ SendersAreSent /\ TracesAreSent
  /\ RefusedIsUnclaimed /\ ChainIsBounded /\ TimeoutIsPast

---------------------------------------------------------------------------
ToolPcs == {"new", "reading", "refused", "done"}
TaskPcs == {"none", "wait", "recheck", "preflight", "done"}
WfStates == {"none", "pending", "approved", "rejected", "expired"}

\* The request's stores are well formed.
RequestType ==
  /\ bound \in Wallets
  /\ kind \in [Requests -> {"deposit", "withdraw"}]
  /\ tool \in [Requests -> [pc : ToolPcs, wallet : Wallets \cup {Null}]]
  /\ park \in [Requests -> [wallet : Wallets \cup {Null}, open : BOOLEAN] \cup {Null}]
  /\ wf \in [Requests -> WfStates]
  /\ routing \in [Requests -> WfStates]
  /\ inbox \in [Requests -> WfStates \cup {"dropped"}]
  /\ task \in [Requests -> TaskPcs]
  /\ jit \in [Requests -> [wallet : Wallets \cup {Null}] \cup {Null}]
  /\ checked \subseteq Requests

\* What hangs on a request belongs to a finished tool call and names its
\* wallet, and a JIT-ready entry follows a fresh check.
RequestTraces ==
  \A r \in Requests :
    /\ (wf[r] # "none" \/ park[r] # Null \/ jit[r] # Null \/ task[r] # "none")
         => tool[r].pc = "done"
    /\ park[r] # Null => park[r].wallet = tool[r].wallet
    /\ jit[r] # Null => jit[r].wallet = tool[r].wallet /\ r \in checked
    /\ task[r] = "preflight" => r \in checked

\* A prepare call under way, and a handoff it left behind, stand for an
\* approved request and its wallet; a deposit was checked before the call, and
\* everything was before the handoff.
HandoffTraces ==
  \A h \in Handoffs :
    /\ hand[h].pc = "free" => hand[h].lvbh = 0
    /\ hand[h].pc = "building" \/ hand[h].lvbh > 0 =>
         /\ hand[h].r \in Requests
         /\ wf[hand[h].r] = "approved"
         /\ hand[h].wallet = tool[hand[h].r].wallet
         /\ kind[hand[h].r] = "deposit" \/ hand[h].lvbh > 0 => hand[h].r \in checked

RequestInv == RequestType /\ RequestTraces /\ HandoffTraces

PInv == SubmitInv /\ RequestInv

---------------------------------------------------------------------------
(* The POSTs.                                                              *)

\* A POST that moves to pc keeps what it carries.
LEMMA PostMove ==
  ASSUME SubmitType, NEW c \in Submits, NEW p \in PostPcs,
         sub' = [sub EXCEPT ![c].pc = p]
  PROVE  /\ sub' \in [Submits -> Post]
         /\ sub'[c].pc = p
         /\ \A d \in Submits : /\ sub'[d].h = sub[d].h /\ sub'[d].tx = sub[d].tx
                               /\ d # c => sub'[d] = sub[d]
         /\ \A h \in Handoffs : Spoilt(h)' <=> Spoilt(h)
<1> DEFINE y == [sub[c] EXCEPT !.pc = p]
<1>1. y \in Post /\ y.pc = p /\ y.h = sub[c].h /\ y.tx = sub[c].tx
  BY DEF SubmitType, Post
<1>2. sub' = [sub EXCEPT ![c] = y]
  OBVIOUS
<1> HIDE DEF y
<1>3. /\ sub' \in [Submits -> Post]
      /\ sub'[c].pc = p
      /\ \A d \in Submits : /\ sub'[d].h = sub[d].h /\ sub'[d].tx = sub[d].tx
                            /\ d # c => sub'[d] = sub[d]
  BY <1>1, <1>2 DEF SubmitType
<1> QED BY <1>3 DEF Spoilt

\* A step of a POST that has peeked at the entry of its handoff and leaves the
\* entry alone: a verification moves on to the send, a recorded send to the
\* tracker, or the POST ends.  A refusal is only recorded by a POST that ends,
\* before its send or after a body that did not decode.
LEMMA PostStep ==
  ASSUME SubmitInv, NEW c \in Submits, sub[c].pc \in {"peeked"} \cup InFlight,
         NEW p \in {"send", "enqueue", "done"},
         sub' = [sub EXCEPT ![c].pc = p],
         p = "send" => sub[c].pc = "verify",
         p = "enqueue" => sub[c].pc = "record",
         UNCHANGED <<hand, senders, poll, network>>,
         NEW o \in Outcome, lifecycle' = [lifecycle EXCEPT ![sub[c].h] = o],
         \/ o = lifecycle[sub[c].h]
         \/ o \in {"submitted", "broadcast_failed"}
         \/ /\ o \in {"rejected", "expired"} /\ p = "done"
            /\ sub[c].pc = "verify" \/ Spoilt(sub[c].h),
         tracked' \in [Handoffs -> Track \cup {Null}],
         \A h \in Handoffs : tracked'[h] # tracked[h] => c \in senders[h] /\ tracked'[h] \in Track
  PROVE  SubmitInv'
<1> DEFINE k == sub[c].h
<1>0. k \in Handoffs /\ hand[k].pc \in {"parked", "gone"}
  BY DEF SubmitInv, SubmitType, SendersAreSent, EntryIsTaken, Claims, Flies
<1>1. /\ sub' \in [Submits -> Post]
      /\ sub'[c].pc = p
      /\ \A d \in Submits : /\ sub'[d].h = sub[d].h /\ sub'[d].tx = sub[d].tx
                            /\ d # c => sub'[d] = sub[d]
      /\ \A h \in Handoffs : Spoilt(h)' <=> Spoilt(h)
  BY PostMove DEF SubmitInv, PostPcs, InFlight
<1>2. \A d \in Submits, h \in Handoffs : Claims(d, h)' => Claims(d, h)
  BY <1>1 DEF Claims, Flies, InFlight
<1>3. /\ lifecycle' \in [Handoffs -> Outcome]
      /\ lifecycle'[k] = o
      /\ \A h \in Handoffs : h # k => lifecycle'[h] = lifecycle[h]
  BY <1>0 DEF SubmitInv, SubmitType
<1> HIDE DEF k
<1>4. SubmitType'
  BY <1>1, <1>3 DEF SubmitInv, SubmitType, network, InFlight
<1>5. EntryIsTaken'
  BY <1>2 DEF SubmitInv, EntryIsTaken
<1>6. SendersAreSent'
  BY <1>1 DEF SubmitInv, SendersAreSent
<1>7. TracesAreSent'
  BY <1>0, <1>3 DEF SubmitInv, SubmitType, TracesAreSent, network
<1>8. RefusedIsUnclaimed'
  <2> SUFFICES ASSUME NEW h \in Handoffs, lifecycle'[h] \in {"rejected", "expired"}, ~Spoilt(h)
               PROVE  hand[h].pc = "gone" /\ \A d \in Submits : ~Claims(d, h)'
    BY <1>1 DEF RefusedIsUnclaimed
  <2>1. CASE lifecycle'[h] = lifecycle[h]
    BY <2>1, <1>2 DEF SubmitInv, RefusedIsUnclaimed
  <2>2. CASE lifecycle'[h] # lifecycle[h]
    <3>1. h = k /\ p = "done" /\ sub[c].pc = "verify"
      BY <2>2, <1>3 DEF k
    <3>2. Claims(c, h) /\ c \notin senders[h]
      BY <3>1 DEF Claims, Flies, InFlight, SubmitInv, SendersAreSent, k
    <3>3. ~Claims(c, h)'
      BY <3>1, <3>2, <1>1 DEF Claims, Flies, InFlight
    <3> QED BY <3>2, <3>3, <1>2 DEF SubmitInv, EntryIsTaken
  <2> QED BY <2>1, <2>2
<1>9. ChainIsBounded' /\ TimeoutIsPast'
  <2>1. ChainIsBounded'
    BY DEF SubmitInv, ChainIsBounded, network
  <2>2. TimeoutIsPast'
    BY <1>3 DEF SubmitInv, TimeoutIsPast, network, k
  <2> QED BY <2>1, <2>2
<1> QED BY <1>4, <1>5, <1>6, <1>7, <1>8, <1>9 DEF SubmitInv

\* The steps of a POST between its peek and its end, the consume and the send
\* excepted.
LEMMA PostSteps ==
  ASSUME SubmitInv, NEW c \in Submits,
         \/ RejectUndecoded(c) \/ Verify(c) \/ SendGivesUp(c)
         \/ RecordSubmitted(c) \/ Enqueue(c) \/ Disconnect(c)
  PROVE  SubmitInv'
<1> DEFINE k == sub[c].h
<1>1. /\ tracked \in [Handoffs -> Track \cup {Null}]
      /\ lifecycle \in [Handoffs -> Outcome]
      /\ sub[c].pc \in {"peeked"} \cup InFlight => k \in Handoffs
  BY DEF SubmitInv, SubmitType
<1>2. ASSUME k \in Handoffs, NEW o \in Outcome
      PROVE  Recorded(k, o) \in Outcome /\ Recorded(k, o) \in {lifecycle[k], o}
  BY <1>1, <1>2 DEF Recorded
<1>3. lifecycle' = lifecycle /\ k \in Handoffs => lifecycle' = [lifecycle EXCEPT ![k] = lifecycle[k]]
  BY <1>1
<1> HIDE DEF k
<1>4. CASE RejectUndecoded(c)
  <2>1. Spoilt(k) /\ k \in Handoffs
    BY <1>1, <1>4 DEF RejectUndecoded, Spoilt, k
  <2>2. Recorded(k, "rejected") \in Outcome /\ Recorded(k, "rejected") \in {lifecycle[k], "rejected"}
    BY <1>2, <2>1 DEF Outcome, Terminal
  <2> QED BY <1>1, <1>4, <2>1, <2>2, PostStep DEF RejectUndecoded, SubmitEnds, k
<1>5. CASE Verify(c)
  <2>0. k \in Handoffs /\ sub[c].pc = "verify"
    BY <1>1, <1>5 DEF Verify, InFlight
  <2>1. PICK out \in {"rejected", "expired", "none"} :
           /\ lifecycle' = IF out = "none" THEN lifecycle
                           ELSE [lifecycle EXCEPT ![k] = Recorded(k, out)]
           /\ sub' = [sub EXCEPT ![c].pc = IF out = "none" THEN "send" ELSE "done"]
    BY <1>5 DEF Verify, k
  <2>2. UNCHANGED <<hand, senders, tracked, poll, network>>
    BY <1>5 DEF Verify
  <2>3. CASE out = "none"
    <3>1. /\ lifecycle' = [lifecycle EXCEPT ![k] = lifecycle[k]]
          /\ lifecycle[k] \in Outcome
          /\ sub' = [sub EXCEPT ![c].pc = "send"]
      BY <1>1, <1>3, <2>0, <2>1, <2>3
    <3> QED BY <1>1, <2>0, <2>2, <3>1, PostStep DEF k, InFlight
  <2>4. CASE out # "none"
    <3>1. /\ lifecycle' = [lifecycle EXCEPT ![k] = Recorded(k, out)]
          /\ Recorded(k, out) \in Outcome /\ Recorded(k, out) \in {lifecycle[k], out}
          /\ sub' = [sub EXCEPT ![c].pc = "done"]
      BY <1>2, <2>0, <2>1, <2>4 DEF Outcome, Terminal
    <3> QED BY <1>1, <2>0, <2>1, <2>2, <2>4, <3>1, PostStep DEF k, InFlight
  <2> QED BY <2>3, <2>4
<1>6. CASE SendGivesUp(c)
  <2>1. k \in Handoffs /\ sub[c].pc \in InFlight
    BY <1>1, <1>6 DEF SendGivesUp, InFlight
  <2>2. /\ Recorded(k, "broadcast_failed") \in Outcome
        /\ Recorded(k, "broadcast_failed") \in {lifecycle[k], "broadcast_failed"}
    BY <1>2, <2>1 DEF Outcome, Terminal
  <2> QED BY <1>1, <1>6, <2>1, <2>2, PostStep DEF SendGivesUp, SubmitEnds, k
<1>7. CASE RecordSubmitted(c)
  <2>1. k \in Handoffs /\ sub[c].pc \in InFlight
    BY <1>1, <1>7 DEF RecordSubmitted, InFlight
  <2>2. Recorded(k, "submitted") \in Outcome /\ Recorded(k, "submitted") \in {lifecycle[k], "submitted"}
    BY <1>2, <2>1 DEF Outcome
  <2> QED BY <1>1, <1>7, <2>1, <2>2, PostStep DEF RecordSubmitted, k
<1>8. CASE Enqueue(c)
  <2>1. k \in Handoffs /\ sub[c].pc = "enqueue" /\ c \in senders[k]
    BY <1>1, <1>8 DEF Enqueue, InFlight, SubmitInv, SendersAreSent, k
  <2>2. PICK at \in final..tip \cup {hand[k].lvbh} :
          tracked' = IF lifecycle[k] \in Terminal \/ tracked[k] # Null THEN tracked
                     ELSE [tracked EXCEPT ![k] = [state |-> "submitted", sub |-> at, resends |-> 0]]
    BY <1>8 DEF Enqueue, k
  <2>3. at \in Nat
    BY <2>1, <2>2 DEF SubmitInv, SubmitType, Hand
  <2>4. [state |-> "submitted", sub |-> at, resends |-> 0] \in Track
    BY <2>3 DEF Track, TxState
  <2>5. /\ tracked' \in [Handoffs -> Track \cup {Null}]
        /\ \A h \in Handoffs : tracked'[h] # tracked[h] =>
             c \in senders[h] /\ tracked'[h] \in Track
    BY <1>1, <2>1, <2>2, <2>4
  <2>6. lifecycle' = [lifecycle EXCEPT ![k] = lifecycle[k]] /\ lifecycle[k] \in Outcome
    BY <1>1, <1>3, <1>8, <2>1 DEF Enqueue
  <2> QED BY <1>8, <2>1, <2>5, <2>6, PostStep DEF Enqueue, SubmitEnds, k, InFlight
<1>9. CASE Disconnect(c)
  <2>1. k \in Handoffs /\ sub[c].pc \in {"peeked"} \cup InFlight
    BY <1>1, <1>9 DEF Disconnect, InFlight
  <2>2. /\ lifecycle' = [lifecycle EXCEPT ![k] = lifecycle[k]] /\ lifecycle[k] \in Outcome
        /\ UNCHANGED <<tracked, poll>>
    BY <1>1, <1>3, <1>9, <2>1 DEF Disconnect, confirming
  <2> QED BY <1>1, <1>9, <2>1, <2>2, PostStep DEF Disconnect, SubmitEnds, k
<1> QED BY <1>4, <1>5, <1>6, <1>7, <1>8, <1>9

\* Submit: the route peeks at the entry, and sweeps one that has run out.
LEMMA SubmitStep ==
  ASSUME SubmitInv, NEW c \in Submits, NEW k \in Handoffs, NEW tx \in Returned,
         Submit(c, k, tx)
  PROVE  SubmitInv'
<1> DEFINE p == IF hand[k].live THEN "peeked" ELSE "done"
           y == [pc |-> p, h |-> k, tx |-> tx, sends |-> 0]
           z == [hand[k] EXCEPT !.pc = "gone"]
<1>1. /\ sub[c].pc = "idle" /\ hand[k].pc \in {"parked", "gone"}
      /\ sub' = [sub EXCEPT ![c] = y]
      /\ hand' = IF hand[k].live THEN hand ELSE [hand EXCEPT ![k] = z]
      /\ UNCHANGED <<senders, lifecycle, tracked, poll, tip, final, chain, net>>
  BY DEF Submit, confirming, network
<1>2. y \in Post /\ y.pc = p /\ y.h = k /\ p \in {"peeked", "done"}
  BY DEF Post, PostPcs
<1>3. z \in Hand /\ z.pc = "gone" /\ z.lvbh = hand[k].lvbh /\ z.live = hand[k].live
  BY DEF SubmitInv, SubmitType, Hand, HandPcs
<1> HIDE DEF y, z
<1>4. /\ sub' \in [Submits -> Post]
      /\ sub'[c].pc = p /\ sub'[c].h = k
      /\ \A d \in Submits : d # c => sub'[d] = sub[d]
  BY <1>1, <1>2 DEF SubmitInv, SubmitType
<1>5. /\ hand' \in [Handoffs -> Hand]
      /\ hand'[k].pc \in {"parked", "gone"}
      /\ hand[k].pc = "gone" => hand'[k].pc = "gone"
      /\ hand'[k].live => hand[k].live /\ hand'[k].pc = hand[k].pc
      /\ \A h \in Handoffs : hand'[h].lvbh = hand[h].lvbh /\ (h # k => hand'[h] = hand[h])
  BY <1>1, <1>3 DEF SubmitInv, SubmitType
<1>6. \A d \in Submits, h \in Handoffs : Claims(d, h)' => Claims(d, h)
  BY <1>1, <1>2, <1>4 DEF Claims, Flies, InFlight
<1>7. \A h \in Handoffs : Spoilt(h) => Spoilt(h)'
  BY <1>1, <1>4, SubmitBounds DEF Spoilt, SubmitInv, SubmitType
<1> HIDE DEF p
<1>8. SubmitType'
  BY <1>1, <1>2, <1>4, <1>5 DEF SubmitInv, SubmitType, InFlight
<1>9. EntryIsTaken'
  BY <1>1, <1>5, <1>6 DEF SubmitInv, EntryIsTaken
<1>10. SendersAreSent'
  BY <1>1, <1>2, <1>4, <1>5 DEF SubmitInv, SubmitType, SendersAreSent, InFlight
<1>11. TracesAreSent' /\ ChainIsBounded' /\ TimeoutIsPast'
  BY <1>1, <1>5 DEF SubmitInv, TracesAreSent, ChainIsBounded, TimeoutIsPast
<1>12. RefusedIsUnclaimed'
  BY <1>1, <1>5, <1>6, <1>7 DEF SubmitInv, RefusedIsUnclaimed
<1> QED BY <1>8, <1>9, <1>10, <1>11, <1>12 DEF SubmitInv

\* consume: of the POSTs that have peeked, the first one to come gets the
\* entry; for the others it is gone.
LEMMA ConsumeStep ==
  ASSUME SubmitInv, NEW c \in Submits, Consume(c)
  PROVE  SubmitInv'
<1> DEFINE k == sub[c].h
           p == IF hand[k].live THEN "verify" ELSE "done"
           z == IF hand[k].live THEN [hand[k] EXCEPT !.pc = "gone", !.live = FALSE]
                ELSE [hand[k] EXCEPT !.pc = "gone"]
<1>1. /\ sub[c].pc = "peeked" /\ k \in Handoffs /\ hand[k].pc \in {"parked", "gone"}
      /\ sub' = [sub EXCEPT ![c].pc = p]
      /\ hand' = [hand EXCEPT ![k] = z]
      /\ UNCHANGED <<senders, lifecycle, tracked, poll, tip, final, chain, net>>
  BY DEF Consume, ConsumeEntry, SubmitEnds, confirming, network, SubmitInv, SubmitType,
         SendersAreSent
<1>2. z \in Hand /\ z.pc = "gone" /\ z.lvbh = hand[k].lvbh /\ ~z.live
  <2>1. hand[k] \in Hand
    BY <1>1 DEF SubmitInv, SubmitType
  <2> QED BY <2>1 DEF Hand, HandPcs
<1>3. p \in {"verify", "done"} /\ (p = "verify" => hand[k].pc = "parked")
  BY <1>1 DEF SubmitInv, EntryIsTaken
<1> HIDE DEF z, p
<1>4. /\ sub' \in [Submits -> Post]
      /\ sub'[c].pc = p
      /\ \A d \in Submits : /\ sub'[d].h = sub[d].h /\ sub'[d].tx = sub[d].tx
                            /\ d # c => sub'[d] = sub[d]
      /\ \A h \in Handoffs : Spoilt(h)' <=> Spoilt(h)
  BY <1>1, <1>3, PostMove DEF SubmitInv, PostPcs, InFlight
<1>5. /\ hand' \in [Handoffs -> Hand]
      /\ hand'[k].pc = "gone" /\ ~hand'[k].live
      /\ \A h \in Handoffs : hand'[h].lvbh = hand[h].lvbh /\ (h # k => hand'[h] = hand[h])
  BY <1>1, <1>2 DEF SubmitInv, SubmitType
<1>6. \A d \in Submits, h \in Handoffs : Claims(d, h)' =>
        Claims(d, h) \/ (d = c /\ h = k /\ hand[k].pc = "parked")
  BY <1>1, <1>3, <1>4 DEF Claims, Flies, InFlight
<1> HIDE DEF k
<1>7. SubmitType'
  BY <1>1, <1>3, <1>4, <1>5 DEF SubmitInv, SubmitType, InFlight, k
<1>8. EntryIsTaken'
  BY <1>1, <1>5, <1>6 DEF SubmitInv, EntryIsTaken
<1>9. SendersAreSent'
  BY <1>1, <1>3, <1>4, <1>5 DEF SubmitInv, SubmitType, SendersAreSent, InFlight
<1>10. TracesAreSent' /\ ChainIsBounded' /\ TimeoutIsPast'
  BY <1>1, <1>5 DEF SubmitInv, TracesAreSent, ChainIsBounded, TimeoutIsPast
<1>11. RefusedIsUnclaimed'
  BY <1>1, <1>4, <1>5, <1>6 DEF SubmitInv, RefusedIsUnclaimed
<1> QED BY <1>7, <1>8, <1>9, <1>10, <1>11 DEF SubmitInv

\* One attempt to send, which the network may have got whatever it answered.
LEMMA SendStep ==
  ASSUME SubmitInv, NEW c \in Submits, Send(c)
  PROVE  SubmitInv'
<1> DEFINE k == sub[c].h
<1>1. /\ sub[c].pc = "send" /\ k \in Handoffs
      /\ senders' = [senders EXCEPT ![k] = @ \cup {c}]
      /\ net' \in {net, net \cup {k}}
      /\ \/ sub' = [sub EXCEPT ![c].pc = "record"]
         \/ sub' = [sub EXCEPT ![c].sends = @ + 1]
      /\ UNCHANGED <<hand, lifecycle, tracked, poll, tip, final, chain>>
  BY DEF Send, confirming, SubmitInv, SubmitType, InFlight
<1>2. PICK y \in Post : /\ sub' = [sub EXCEPT ![c] = y]
                        /\ y.pc \in {"send", "record"} /\ y.h = k /\ y.tx = sub[c].tx
  <2> DEFINE a == [sub[c] EXCEPT !.pc = "record"]
             b == [sub[c] EXCEPT !.sends = @ + 1]
  <2>1. /\ a \in Post /\ a.pc = "record" /\ a.h = k /\ a.tx = sub[c].tx
        /\ b \in Post /\ b.pc = "send" /\ b.h = k /\ b.tx = sub[c].tx
    BY <1>1 DEF SubmitInv, SubmitType, Post, PostPcs, InFlight
  <2>2. sub' = [sub EXCEPT ![c] = a] \/ sub' = [sub EXCEPT ![c] = b]
    BY <1>1
  <2> HIDE DEF a, b
  <2> QED BY <2>1, <2>2
<1>3. /\ sub' \in [Submits -> Post]
      /\ sub'[c].pc \in {"send", "record"}
      /\ \A d \in Submits : /\ sub'[d].h = sub[d].h /\ sub'[d].tx = sub[d].tx
                            /\ d # c => sub'[d] = sub[d]
  BY <1>2 DEF SubmitInv, SubmitType
<1>4. /\ senders' \in [Handoffs -> SUBSET Submits]
      /\ \A h \in Handoffs : senders[h] \subseteq senders'[h]
      /\ c \in senders'[k]
      /\ \A h \in Handoffs : h # k => senders'[h] = senders[h]
      /\ senders'[k] = senders[k] \cup {c}
  BY <1>1 DEF SubmitInv, SubmitType
<1>5. Claims(c, k) /\ \A d \in Submits, h \in Handoffs : Claims(d, h)' => Claims(d, h)
  BY <1>1, <1>3, <1>4 DEF Claims, Flies, InFlight
<1>6. \A h \in Handoffs : Spoilt(h)' <=> Spoilt(h)
  BY <1>3 DEF Spoilt
<1>7. SubmitType'
  BY <1>1, <1>3, <1>4 DEF SubmitInv, SubmitType, InFlight
<1>8. EntryIsTaken'
  BY <1>1, <1>5 DEF SubmitInv, EntryIsTaken
<1>9. SendersAreSent'
  BY <1>1, <1>3, <1>4 DEF SubmitInv, SubmitType, SendersAreSent, InFlight
<1>10. TracesAreSent'
  <2>1. \A h \in Handoffs : h = k \/ senders[h] # {} => senders'[h] # {}
    BY <1>4
  <2>2. \A h \in Handoffs : h \in net' => h \in net \/ h = k
    BY <1>1
  <2> QED BY <1>1, <2>1, <2>2 DEF SubmitInv, TracesAreSent
<1>11. RefusedIsUnclaimed'
  BY <1>1, <1>5, <1>6 DEF SubmitInv, RefusedIsUnclaimed
<1>12. ChainIsBounded' /\ TimeoutIsPast'
  BY <1>1 DEF SubmitInv, ChainIsBounded, TimeoutIsPast
<1> QED BY <1>7, <1>8, <1>9, <1>10, <1>11, <1>12 DEF SubmitInv

---------------------------------------------------------------------------
(* The entries of the signing store.                                       *)

\* A step that writes one entry y and nothing else: what was parked stays so
\* at its height, and only what is parked can be consumed.
LEMMA EntryStep ==
  ASSUME SubmitInv, NEW k \in Handoffs, NEW y \in Hand,
         hand' = [hand EXCEPT ![k] = y],
         y.live => y.pc = "parked",
         hand[k].pc \in {"parked", "gone"} => y.pc = hand[k].pc /\ y.lvbh = hand[k].lvbh,
         UNCHANGED <<sub, senders, confirming, network>>
  PROVE  SubmitInv'
<1>1. UNCHANGED <<sub, senders, lifecycle, tracked, poll, tip, final, chain, net>>
  BY DEF confirming, network
<1>2. /\ hand' \in [Handoffs -> Hand]
      /\ hand'[k] = y
      /\ \A h \in Handoffs : h # k => hand'[h] = hand[h]
  BY DEF SubmitInv, SubmitType
<1>3. \A d \in Submits, h \in Handoffs : Claims(d, h)' <=> Claims(d, h)
  BY <1>1 DEF Claims, Flies
<1>4. \A h \in Handoffs : Spoilt(h)' <=> Spoilt(h)
  BY <1>1 DEF Spoilt
<1>5. chain[k] # Null => hand[k].pc = "gone"
  BY DEF SubmitInv, SubmitType, TracesAreSent, EntryIsTaken, Claims
<1>6. SubmitType'
  BY <1>1, <1>2 DEF SubmitInv, SubmitType
<1>7. EntryIsTaken'
  BY <1>2, <1>3 DEF SubmitInv, EntryIsTaken
<1>8. SendersAreSent'
  BY <1>1, <1>2 DEF SubmitInv, SubmitType, SendersAreSent
<1>9. TracesAreSent'
  BY <1>1, <1>2 DEF SubmitInv, TracesAreSent
<1>10. RefusedIsUnclaimed'
  BY <1>1, <1>2, <1>3, <1>4 DEF SubmitInv, RefusedIsUnclaimed
<1>11. ChainIsBounded' /\ TimeoutIsPast'
  BY <1>1, <1>2, <1>5 DEF SubmitInv, ChainIsBounded, TimeoutIsPast
<1> QED BY <1>6, <1>7, <1>8, <1>9, <1>10, <1>11 DEF SubmitInv

---------------------------------------------------------------------------
(* The confirmation tracker.                                               *)

\* A step of the tracker that writes no outcome: it drops records or counts a
\* rebroadcast, and sends again only what it was going to send.
LEMMA TrackerStep ==
  ASSUME SubmitInv,
         tracked' \in [Handoffs -> Track \cup {Null}],
         \A h \in Handoffs : tracked'[h] # Null => senders[h] # {},
         \A h \in poll'.left : tracked'[h] \in Track,
         poll' \in Poll, poll'.left \subseteq poll.left, poll'.h <= final,
         net \subseteq net', net' \subseteq net \cup poll.left,
         UNCHANGED <<hand, sub, senders, lifecycle, tip, final, chain>>
  PROVE  SubmitInv'
<1>1. poll.left \subseteq Handoffs
  BY DEF SubmitInv, SubmitType, Poll
<1>2. \A d \in Submits, h \in Handoffs : Claims(d, h)' <=> Claims(d, h)
  BY DEF Claims, Flies
<1>3. \A h \in Handoffs : Spoilt(h)' <=> Spoilt(h)
  BY DEF Spoilt
<1>4. SubmitType'
  BY <1>1 DEF SubmitInv, SubmitType
<1>5. EntryIsTaken' /\ SendersAreSent'
  BY <1>2 DEF SubmitInv, EntryIsTaken, SendersAreSent
<1>6. TracesAreSent'
  BY DEF SubmitInv, TracesAreSent
<1>7. RefusedIsUnclaimed'
  BY <1>2, <1>3 DEF SubmitInv, RefusedIsUnclaimed
<1>8. ChainIsBounded' /\ TimeoutIsPast'
  BY DEF SubmitInv, ChainIsBounded, TimeoutIsPast
<1> QED BY <1>4, <1>5, <1>6, <1>7, <1>8 DEF SubmitInv

\* The confirmation tracker keeps the invariant of the submit side.
LEMMA TrackerSteps ==
  ASSUME SubmitInv,
         \/ PollHeight \/ PollFails \/ Prune
         \/ \E h \in Handoffs : Resend(h)
  PROVE  SubmitInv'
<1>1. /\ poll \in Poll /\ poll.h \in Nat /\ poll.h <= final /\ final \in Nat
      /\ tracked \in [Handoffs -> Track \cup {Null}]
      /\ poll.left \subseteq Handoffs
      /\ \A h \in poll.left : tracked[h] \in Track /\ senders[h] # {}
      /\ \A h \in Handoffs : tracked[h] # Null => senders[h] # {}
  BY DEF SubmitInv, SubmitType, ChainIsBounded, Poll, TracesAreSent
<1>2. NoPoll \in Poll /\ NoPoll.left = {} /\ NoPoll.h = 0
  BY DEF NoPoll, Poll
<1>3. CASE PollHeight
  <2>1. PICK at \in 0..final : poll' = [poll EXCEPT !.pc = "status", !.h = at]
    BY <1>3 DEF PollHeight, FinalizedHeights
  <2>2. at \in Nat /\ at <= final
    BY <1>1, <2>1
  <2>3. poll' \in Poll /\ poll'.left = poll.left /\ poll'.h = at
    BY <1>1, <2>1, <2>2 DEF Poll
  <2> QED BY <1>1, <1>3, <2>2, <2>3, TrackerStep DEF PollHeight, network
<1>4. CASE PollFails
  BY <1>1, <1>2, <1>4, TrackerStep DEF PollFails, network
<1>5. CASE Prune
  <2>1. /\ tracked' \in [Handoffs -> Track \cup {Null}]
        /\ \A h \in Handoffs : tracked'[h] # Null => tracked[h] # Null
    BY <1>1, <1>5 DEF Prune, InTracker
  <2> QED BY <1>1, <1>2, <1>5, <2>1, TrackerStep DEF Prune, network
<1>6. ASSUME NEW k \in Handoffs, Resend(k)
      PROVE  SubmitInv'
  <2> DEFINE y == [tracked[k] EXCEPT !.resends = @ + 1]
  <2>1. tracked' = [tracked EXCEPT ![k] = y] /\ k \in poll.left
    BY <1>6 DEF Resend
  <2>2. y \in Track
    BY <1>1, <2>1 DEF Track
  <2> HIDE DEF y
  <2>3. /\ tracked' \in [Handoffs -> Track \cup {Null}]
        /\ \A h \in poll.left : tracked'[h] \in Track
        /\ \A h \in Handoffs : h # k => tracked'[h] = tracked[h]
    BY <1>1, <2>1, <2>2
  <2>4. poll' \in Poll /\ poll'.left \subseteq poll.left /\ poll'.h = poll.h
    BY <1>1, <1>6 DEF Resend, Poll
  <2>5. net \subseteq net' /\ net' \subseteq net \cup poll.left
    BY <1>6 DEF Resend
  <2> QED BY <1>1, <1>6, <2>1, <2>3, <2>4, <2>5, TrackerStep DEF Resend
<1> QED BY <1>3, <1>4, <1>5, <1>6

\* calculate_next_state answers with a state, and gives a transaction up only
\* at a height beyond its last valid one.
LEMMA NextState ==
  ASSUME NEW cur \in TxState, NEW obs, NEW at, NEW from, NEW lvbh
  PROVE  LET n == calculate_next_state(cur, obs, at, from, lvbh) IN
           /\ n \in TxState
           /\ n = "expired" /\ n # cur => at > lvbh
BY DEF calculate_next_state, TxState, OnConfirmed, KeepOnNull, BlockhashExpired

\* tick_once: a transaction is given up at a finalized height beyond every block
\* that could hold it.
LEMMA StatusStep ==
  ASSUME SubmitInv, PollStatuses
  PROVE  SubmitInv'
<1> DEFINE New(obs) == [h \in InTracker |->
             calculate_next_state(tracked[h].state, obs[h], poll.h, tracked[h].sub, hand[h].lvbh)]
           Moved(obs) == {h \in InTracker : /\ New(obs)[h] # tracked[h].state
                                            /\ New(obs)[h] \notin {"submitted", "dropped"}}
<1>1. PICK obs : /\ \A h \in InTracker : obs[h] \in Answers(h)
                 /\ ApplyStatuses(obs)
  BY DEF PollStatuses
<1>2. PICK due \in SUBSET InTracker : poll' = [poll EXCEPT !.pc = "resend", !.left = due]
  BY <1>1 DEF ApplyStatuses
<1>3. /\ tracked' = [h \in Handoffs |-> IF h \in InTracker
                                        THEN [tracked[h] EXCEPT !.state = New(obs)[h]] ELSE Null]
      /\ lifecycle' = [h \in Handoffs |-> IF h \in Moved(obs)
                                          THEN Advanced(h, OutcomeOf(New(obs)[h])) ELSE lifecycle[h]]
      /\ UNCHANGED <<hand, sub, senders, tip, final, chain, net>>
  BY <1>1 DEF ApplyStatuses, network
<1>4. \A h \in InTracker : h \in Handoffs /\ tracked[h] \in Track /\ senders[h] # {}
  BY DEF InTracker, SubmitInv, SubmitType, TracesAreSent
<1>5. \A h \in InTracker :
        /\ New(obs)[h] \in TxState
        /\ New(obs)[h] = "expired" /\ New(obs)[h] # tracked[h].state
             => poll.h > hand[h].lvbh
  BY <1>4, NextState DEF Track
<1> DEFINE new == New(obs)
           moved == Moved(obs)
<1>6. moved \subseteq InTracker /\ \A h \in moved : /\ new[h] \in {"confirmed", "expired", "finalized", "failed"}
                                                    /\ new[h] # tracked[h].state
  BY <1>5 DEF TxState
<1>7. \A h \in moved : /\ OutcomeOf(new[h]) \in {"confirming", "timeout", "finalized", "failed"}
                       /\ OutcomeOf(new[h]) = "timeout" => new[h] = "expired"
  BY <1>6 DEF OutcomeOf
<1>8. /\ tracked' \in [Handoffs -> Track \cup {Null}]
      /\ \A h \in InTracker : tracked'[h] \in Track
  <2>1. \A h \in InTracker : [tracked[h] EXCEPT !.state = New(obs)[h]] \in Track
    BY <1>4, <1>5 DEF Track
  <2> QED BY <1>3, <1>4, <2>1
<1> HIDE DEF new, moved, New, Moved
<1>9. \A h \in Handoffs : \/ lifecycle'[h] = lifecycle[h]
                          \/ /\ h \in moved
                             /\ lifecycle[h] # "none"
                             /\ lifecycle'[h] \in {"confirming", "timeout", "finalized", "failed"}
                             /\ lifecycle'[h] = "timeout" => new[h] = "expired"
  BY <1>3, <1>7 DEF Advanced, new, moved
<1>10. poll' \in Poll /\ poll'.left = due /\ poll'.h = poll.h /\ due \subseteq Handoffs
  BY <1>2, <1>4 DEF SubmitInv, SubmitType, Poll
<1>11. \A d \in Submits, h \in Handoffs : Claims(d, h)' <=> Claims(d, h)
  BY <1>3 DEF Claims, Flies
<1>12. \A h \in Handoffs : Spoilt(h)' <=> Spoilt(h)
  BY <1>3 DEF Spoilt
<1>13. \A h \in Handoffs : senders[h] # {} => hand[h].pc = "gone"
  BY DEF SubmitInv, SubmitType, EntryIsTaken, Claims
<1>14. SubmitType'
  <2>1. lifecycle' \in [Handoffs -> Outcome]
    <3>1. \A h \in Handoffs : lifecycle'[h] \in Outcome
      BY <1>9 DEF SubmitInv, SubmitType, Outcome, Terminal
    <3> QED BY <1>3, <3>1
  <2> QED BY <1>3, <1>8, <1>10, <2>1 DEF SubmitInv, SubmitType
<1>15. EntryIsTaken' /\ SendersAreSent'
  BY <1>3, <1>11 DEF SubmitInv, EntryIsTaken, SendersAreSent
<1>16. TracesAreSent'
  <2>1. \A h \in Handoffs : /\ tracked'[h] # Null \/ h \in poll'.left => senders[h] # {}
                            /\ h \in poll'.left => tracked'[h] \in Track
    BY <1>3, <1>4, <1>8, <1>10
  <2> QED BY <1>3, <1>9, <2>1 DEF SubmitInv, TracesAreSent
<1>17. RefusedIsUnclaimed'
  BY <1>3, <1>9, <1>11, <1>12 DEF SubmitInv, RefusedIsUnclaimed
<1>18. ChainIsBounded'
  BY <1>3, <1>10 DEF SubmitInv, ChainIsBounded
<1>19. TimeoutIsPast'
  <2> SUFFICES ASSUME NEW h \in Handoffs, lifecycle'[h] = "timeout", lifecycle[h] # "timeout"
               PROVE  hand[h].lvbh < final /\ hand[h].pc = "gone"
    BY <1>3 DEF SubmitInv, TimeoutIsPast
  <2>1. h \in moved /\ new[h] = "expired"
    BY <1>9
  <2>2. h \in InTracker /\ hand[h].lvbh < poll.h
    BY <1>5, <1>6, <2>1 DEF new
  <2>3. poll.h <= final /\ {poll.h, final, hand[h].lvbh} \subseteq Nat
    BY DEF SubmitInv, ChainIsBounded, SubmitType, Poll, Hand
  <2> QED BY <1>4, <1>13, <2>2, <2>3
<1> QED BY <1>14, <1>15, <1>16, <1>17, <1>18, <1>19 DEF SubmitInv

---------------------------------------------------------------------------
(* The network.                                                            *)

\* A step of the network that changes the chain only, at one handoff: a
\* transaction lands in the newest block, is confirmed, or is abandoned.
LEMMA ChainStep ==
  ASSUME SubmitInv, NEW k \in Handoffs, NEW y \in Block \cup {Null},
         chain' = [chain EXCEPT ![k] = y],
         y # Null => /\ k \in net
                     /\ y.block <= hand[k].lvbh
                     /\ y.block < final => y.at = "finalized",
         UNCHANGED <<hand, sub, senders, confirming, tip, final, net>>
  PROVE  SubmitInv'
<1>1. UNCHANGED <<lifecycle, tracked, poll>>
  BY DEF confirming
<1>2. /\ chain' \in [Handoffs -> Block \cup {Null}]
      /\ chain'[k] = y
      /\ \A h \in Handoffs : h # k => chain'[h] = chain[h]
  BY DEF SubmitInv, SubmitType
<1>3. \A d \in Submits, h \in Handoffs : Claims(d, h)' <=> Claims(d, h)
  BY DEF Claims, Flies
<1>4. \A h \in Handoffs : Spoilt(h)' <=> Spoilt(h)
  BY DEF Spoilt
<1>5. SubmitType'
  BY <1>1, <1>2 DEF SubmitInv, SubmitType
<1>6. EntryIsTaken' /\ SendersAreSent'
  BY <1>3 DEF SubmitInv, EntryIsTaken, SendersAreSent
<1>7. TracesAreSent'
  BY <1>1, <1>2 DEF SubmitInv, TracesAreSent
<1>8. RefusedIsUnclaimed'
  BY <1>1, <1>3, <1>4 DEF SubmitInv, RefusedIsUnclaimed
<1>9. ChainIsBounded' /\ TimeoutIsPast'
  BY <1>1, <1>2 DEF SubmitInv, ChainIsBounded, TimeoutIsPast
<1> QED BY <1>5, <1>6, <1>7, <1>8, <1>9 DEF SubmitInv

\* So does the chain, whatever it does to a transaction that was sent.
LEMMA ChainSteps ==
  ASSUME SubmitInv, NEW k \in Handoffs, Land(k) \/ Confirm(k) \/ Abandon(k)
  PROVE  SubmitInv'
<1>1. /\ tip \in Nat /\ final \in Nat /\ final <= tip
      /\ chain \in [Handoffs -> Block \cup {Null}]
      /\ hand[k].lvbh \in Nat
  BY DEF SubmitInv, SubmitType, Hand
<1>2. CASE Land(k)
  <2>1. PICK ok \in BOOLEAN :
          chain' = [chain EXCEPT ![k] = [block |-> tip, ok |-> ok, at |-> "processed"]]
    BY <1>2 DEF Land
  <2> DEFINE y == [block |-> tip, ok |-> ok, at |-> "processed"]
  <2>2. y \in Block /\ y.block = tip
    BY <1>1 DEF Block
  <2> HIDE DEF y
  <2>3. chain' = [chain EXCEPT ![k] = y]
    BY <2>1 DEF y
  <2>4. k \in net /\ tip <= hand[k].lvbh
    BY <1>2 DEF Land, CanLand
  <2>5. UNCHANGED <<hand, sub, senders, confirming, tip, final, net>>
    BY <1>2 DEF Land
  <2>6. y.block <= hand[k].lvbh /\ ~(y.block < final)
    BY <1>1, <2>2, <2>4
  <2> QED BY <2>2, <2>3, <2>4, <2>5, <2>6, ChainStep
<1>3. CASE Confirm(k)
  <2> DEFINE y == [chain[k] EXCEPT !.at = "confirmed"]
  <2>1. chain[k] \in Block /\ chain[k] # Null /\ chain[k].at = "processed"
    BY <1>1, <1>3 DEF Confirm
  <2>2. y \in Block /\ y.block = chain[k].block
    BY <2>1 DEF Block
  <2>3. chain' = [chain EXCEPT ![k] = y]
    BY <1>3 DEF Confirm
  <2> HIDE DEF y
  <2>4. k \in net /\ chain[k].block <= hand[k].lvbh /\ ~(chain[k].block < final)
    BY <2>1 DEF SubmitInv, TracesAreSent, ChainIsBounded
  <2>5. UNCHANGED <<hand, sub, senders, confirming, tip, final, net>>
    BY <1>3 DEF Confirm
  <2> QED BY <2>2, <2>3, <2>4, <2>5, ChainStep
<1>4. CASE Abandon(k)
  BY <1>4, ChainStep DEF Abandon
<1> QED BY <1>2, <1>3, <1>4

\* Blocks are produced and become final; every transaction in a block that
\* is final is final.
LEMMA BlockSteps ==
  ASSUME SubmitInv, NewBlock \/ Finalize
  PROVE  SubmitInv'
<1>1. UNCHANGED <<hand, sub, senders, lifecycle, tracked, poll, net>>
  BY DEF NewBlock, Finalize, confirming
<1>2. \A d \in Submits, h \in Handoffs : Claims(d, h)' <=> Claims(d, h)
  BY <1>1 DEF Claims, Flies
<1>3. \A h \in Handoffs : Spoilt(h)' <=> Spoilt(h)
  BY <1>1 DEF Spoilt
<1>4. /\ tip \in Nat /\ final \in Nat /\ final <= tip /\ poll.h \in Nat
      /\ chain \in [Handoffs -> Block \cup {Null}]
      /\ \A h \in Handoffs : hand[h].lvbh \in Nat
  BY DEF SubmitInv, SubmitType, Poll, Hand
<1>5. /\ tip' \in Nat /\ final' \in 0..tip' /\ tip <= tip' /\ final <= final'
      /\ chain' \in [Handoffs -> Block \cup {Null}]
      /\ \A h \in Handoffs : /\ chain[h] = Null => chain'[h] = Null
                             /\ chain[h] # Null => /\ chain'[h].block = chain[h].block
                                                   /\ chain[h].block < final' =>
                                                        chain'[h].at = "finalized"
  <2>1. CASE NewBlock
    BY <1>4, <2>1 DEF NewBlock, SubmitInv, ChainIsBounded
  <2>2. CASE Finalize
    <3>1. \A h \in Handoffs : chain[h] # Null =>
            /\ [chain[h] EXCEPT !.at = "finalized"] \in Block
            /\ [chain[h] EXCEPT !.at = "finalized"].block = chain[h].block
            /\ [chain[h] EXCEPT !.at = "finalized"].at = "finalized"
            /\ chain[h].block \in Nat
      BY <1>4 DEF Block
    <3>2. \A h \in Handoffs : chain'[h] = IF chain[h] # Null /\ chain[h].block <= final'
                                          THEN [chain[h] EXCEPT !.at = "finalized"] ELSE chain[h]
      BY <2>2 DEF Finalize
    <3>3. final' = final + 1 /\ final < tip /\ tip' = tip
      BY <2>2 DEF Finalize
    <3>4. \A h \in Handoffs : chain'[h] \in Block \cup {Null}
      BY <1>4, <3>1, <3>2
    <3>5. chain' \in [Handoffs -> Block \cup {Null}]
      BY <2>2, <3>4 DEF Finalize
    <3>6. \A h \in Handoffs : /\ chain[h] = Null => chain'[h] = Null
                              /\ chain[h] # Null =>
                                   /\ chain'[h].block = chain[h].block
                                   /\ chain[h].block <= final' => chain'[h].at = "finalized"
      BY <3>1, <3>2
    <3>7. tip' \in Nat /\ final' \in 0..tip' /\ tip <= tip' /\ final <= final'
      BY <1>4, <3>3
    <3>8. \A n \in Nat : n < final' => n <= final'
      BY <3>7
    <3> QED BY <3>1, <3>5, <3>6, <3>7, <3>8
  <2> QED BY <2>1, <2>2
<1>6. SubmitType'
  BY <1>1, <1>5 DEF SubmitInv, SubmitType
<1>7. EntryIsTaken' /\ SendersAreSent'
  BY <1>1, <1>2 DEF SubmitInv, EntryIsTaken, SendersAreSent
<1>8. TracesAreSent'
  BY <1>1, <1>5 DEF SubmitInv, TracesAreSent
<1>9. RefusedIsUnclaimed'
  BY <1>1, <1>2, <1>3 DEF SubmitInv, RefusedIsUnclaimed
<1>10. ChainIsBounded'
  BY <1>1, <1>4, <1>5 DEF SubmitInv, ChainIsBounded
<1>11. TimeoutIsPast'
  BY <1>1, <1>4, <1>5 DEF SubmitInv, TimeoutIsPast
<1> QED BY <1>6, <1>7, <1>8, <1>9, <1>10, <1>11 DEF SubmitInv

---------------------------------------------------------------------------
(* The two halves together.                                                *)

\* The submit route, the tracker and the network keep their half.
LEMMA SubmitNext ==
  ASSUME SubmitInv, SNext
  PROVE  SubmitInv'
<1>1. ASSUME NEW k \in Handoffs, SigningRunsOut(k)
      PROVE  SubmitInv'
  <2> DEFINE y == [hand[k] EXCEPT !.live = FALSE]
  <2>1. y \in Hand /\ y.pc = hand[k].pc /\ y.lvbh = hand[k].lvbh /\ ~y.live
    BY DEF SubmitInv, SubmitType, Hand
  <2>2. hand' = [hand EXCEPT ![k] = y] /\ UNCHANGED <<sub, senders, confirming, network>>
    BY <1>1 DEF SigningRunsOut
  <2> HIDE DEF y
  <2> QED BY <2>1, <2>2, EntryStep
<1>2. ASSUME NEW c \in Submits, NEW h \in Handoffs, NEW tx \in Returned, Submit(c, h, tx)
      PROVE  SubmitInv'
  BY <1>2, SubmitStep
<1>3. ASSUME NEW c \in Submits,
             \/ RejectUndecoded(c) \/ Verify(c) \/ SendGivesUp(c)
             \/ RecordSubmitted(c) \/ Enqueue(c) \/ Disconnect(c)
      PROVE  SubmitInv'
  BY <1>3, PostSteps
<1>4. ASSUME NEW c \in Submits, Consume(c) \/ Send(c)
      PROVE  SubmitInv'
  BY <1>4, ConsumeStep, SendStep
<1>5. CASE PollHeight \/ PollFails \/ Prune \/ \E h \in Handoffs : Resend(h)
  BY <1>5, TrackerSteps
<1>6. CASE PollStatuses
  BY <1>6, StatusStep
<1>7. ASSUME NEW h \in Handoffs, Land(h) \/ Confirm(h) \/ Abandon(h)
      PROVE  SubmitInv'
  BY <1>7, ChainSteps
<1>8. CASE NewBlock \/ Finalize
  BY <1>8, BlockSteps
<1> QED BY <1>1, <1>2, <1>3, <1>4, <1>5, <1>6, <1>7, <1>8 DEF SNext

\* Nor does the submit half disturb what HandoffTraces needs of an entry.
LEMMA SubmitKeepsEntries ==
  ASSUME SubmitInv, SNext, NEW h \in Handoffs
  PROVE  /\ hand'[h].r = hand[h].r /\ hand'[h].wallet = hand[h].wallet
         /\ hand'[h].lvbh = hand[h].lvbh
         /\ hand'[h].pc \in {hand[h].pc, "gone"}
<1> DEFINE Kept(x, y) == /\ y.r = x.r /\ y.wallet = x.wallet /\ y.lvbh = x.lvbh
                         /\ y.pc \in {x.pc, "gone"}
<1>1. \A x \in Hand : /\ Kept(x, [x EXCEPT !.live = FALSE])
                      /\ Kept(x, [x EXCEPT !.pc = "gone"])
                      /\ Kept(x, [x EXCEPT !.pc = "gone", !.live = FALSE])
                      /\ Kept(x, x)
  BY DEF Hand
<1>2. hand \in [Handoffs -> Hand]
  BY DEF SubmitInv, SubmitType
<1>3. PICK k : \/ hand' = hand
               \/ hand' = [hand EXCEPT ![k] = [@ EXCEPT !.live = FALSE]]
               \/ hand' = [hand EXCEPT ![k] = [@ EXCEPT !.pc = "gone"]]
               \/ hand' = [hand EXCEPT ![k] = [@ EXCEPT !.pc = "gone", !.live = FALSE]]
  <2>1. ASSUME NEW k \in Handoffs, SigningRunsOut(k)
        PROVE  hand' = [hand EXCEPT ![k] = [@ EXCEPT !.live = FALSE]]
    BY <2>1 DEF SigningRunsOut
  <2>2. ASSUME NEW c \in Submits, NEW k \in Handoffs, NEW tx \in Returned, Submit(c, k, tx)
        PROVE  hand' = hand \/ hand' = [hand EXCEPT ![k] = [@ EXCEPT !.pc = "gone"]]
    BY <2>2 DEF Submit
  <2>3. ASSUME NEW c \in Submits, Consume(c)
        PROVE  \/ hand' = [hand EXCEPT ![sub[c].h] = [@ EXCEPT !.pc = "gone"]]
               \/ hand' = [hand EXCEPT ![sub[c].h] = [@ EXCEPT !.pc = "gone", !.live = FALSE]]
    BY <2>3 DEF Consume, ConsumeEntry
  <2>4. ASSUME NEW c \in Submits,
               \/ RejectUndecoded(c) \/ Verify(c) \/ SendGivesUp(c) \/ Send(c)
               \/ RecordSubmitted(c) \/ Enqueue(c) \/ Disconnect(c)
        PROVE  hand' = hand
    BY <2>4 DEF RejectUndecoded, Verify, SendGivesUp, Send, RecordSubmitted, Enqueue, Disconnect
  <2>5. ASSUME NEW k \in Handoffs, Resend(k) \/ Land(k) \/ Confirm(k) \/ Abandon(k)
        PROVE  hand' = hand
    BY <2>5 DEF Resend, Land, Confirm, Abandon
  <2>6. CASE NewBlock \/ Finalize \/ PollHeight \/ PollStatuses \/ PollFails \/ Prune
    BY <2>6 DEF NewBlock, Finalize, PollHeight, PollStatuses, ApplyStatuses, PollFails, Prune
  <2> QED BY <2>1, <2>2, <2>3, <2>4, <2>5, <2>6 DEF SNext
<1>4. Kept(hand[h], hand'[h])
  <2> HIDE DEF Kept
  <2> QED BY <1>1, <1>2, <1>3
<1> QED BY <1>4

\* The steps before a handoff leave the other half alone, or write one entry
\* that no POST can have seen yet.
LEMMA PrepareKeepsSubmits ==
  ASSUME SubmitInv, RequestInv, NEW h \in Handoffs,
         HandOff(h) \/ HandOffFails(h) \/ \E r \in Requests : Prepare(h, r)
  PROVE  SubmitInv'
<1>1. hand[h] \in Hand /\ tip \in Nat
  BY DEF SubmitInv, SubmitType
<1>2. PICK y \in Hand : /\ hand' = [hand EXCEPT ![h] = y]
                        /\ y.live => y.pc = "parked"
  <2>1. CASE HandOff(h)
    <3> DEFINE y == [hand[h] EXCEPT !.pc = "parked", !.lvbh = tip + Validity, !.live = TRUE]
    <3>1. tip + Validity \in Nat
      BY <1>1, PipelineBounds
    <3>2. y \in Hand /\ y.pc = "parked"
      BY <1>1, <3>1 DEF Hand, HandPcs
    <3>3. hand' = [hand EXCEPT ![h] = y]
      BY <2>1 DEF HandOff
    <3> HIDE DEF y
    <3> QED BY <3>2, <3>3
  <2>2. CASE HandOffFails(h)
    <3> DEFINE y == [hand[h] EXCEPT !.pc = "gone"]
    <3>1. y \in Hand /\ y.live = hand[h].live /\ ~hand[h].live
      BY <1>1, <2>2 DEF Hand, HandPcs, HandOffFails, SubmitInv, EntryIsTaken
    <3>2. hand' = [hand EXCEPT ![h] = y]
      BY <2>2 DEF HandOffFails
    <3> HIDE DEF y
    <3> QED BY <3>1, <3>2
  <2>3. ASSUME NEW r \in Requests, Prepare(h, r)
        PROVE  \E y \in Hand : hand' = [hand EXCEPT ![h] = y] /\ (y.live => y.pc = "parked")
    <3> DEFINE w == Planned(r).wallet
               y == [hand[h] EXCEPT !.pc = "building", !.r = r, !.wallet = w]
    <3>1. w \in Wallets
      BY <2>3 DEF Prepare, MayPrepare, RequestInv, RequestType
    <3> HIDE DEF w
    <3>2. ~hand[h].live
      BY <2>3 DEF Prepare, SubmitInv, EntryIsTaken
    <3>3. y \in Hand /\ y.live = hand[h].live
      BY <1>1, <3>1 DEF Hand, HandPcs
    <3>4. hand' = [hand EXCEPT ![h] = y]
      BY <2>3 DEF Prepare, w
    <3> HIDE DEF y
    <3> QED BY <3>2, <3>3, <3>4
  <2> QED BY <2>1, <2>2, <2>3
<1>3. hand[h].pc \notin {"parked", "gone"} /\ UNCHANGED <<sub, senders, confirming, network>>
  BY DEF HandOff, HandOffFails, Prepare
<1> QED BY <1>2, <1>3, EntryStep

\* What a handoff rests on stays: an approval, the wallet of an approved
\* request, its kind and its fresh check.
HandoffBasisKept ==
  /\ \A q \in Requests : wf[q] = "approved" =>
       wf'[q] = "approved" /\ tool'[q].wallet = tool[q].wallet
  /\ checked \subseteq checked' /\ kind' = kind

\* The tool, the operator and the resume task keep the requests' half.
LEMMA RequestSteps ==
  ASSUME PInv, NEW r \in Requests, RequestStep(r)
  PROVE  RequestType' /\ RequestTraces' /\ HandoffBasisKept
<1> USE DEF HandoffBasisKept
<1>0. RequestType /\ RequestTraces
  BY DEF PInv, RequestInv
<1>1. CASE LeaseRunsOut(r)
  BY <1>0, <1>1 DEF LeaseRunsOut, RequestType, RequestTraces
<1>2. CASE JitRunsOut(r)
  BY <1>0, <1>2 DEF JitRunsOut, RequestType, RequestTraces
<1>3. CASE Propose(r)
  <2> DEFINE y == IF Active(kind[r], bound) THEN [tool[r] EXCEPT !.pc = "refused"]
                  ELSE [pc |-> "reading", wallet |-> bound]
  <2>1. y \in [pc : ToolPcs, wallet : Wallets \cup {Null}]
    BY <1>0 DEF RequestType, ToolPcs
  <2>2. tool[r].pc = "new" /\ tool' = [tool EXCEPT ![r] = y]
        /\ UNCHANGED <<bound, kind, park, wf, routing, inbox, task, jit, checked>>
    BY <1>3 DEF Propose
  <2> HIDE DEF y
  <2>3. RequestType'
    BY <1>0, <2>1, <2>2 DEF RequestType
  <2>4. RequestTraces' /\ HandoffBasisKept
    BY <1>0, <2>1, <2>2 DEF RequestType, RequestTraces
  <2> QED BY <2>3, <2>4
<1>4. CASE Park(r)
  <2> DEFINE y == [tool[r] EXCEPT !.pc = "done"]
             z == [wallet |-> tool[r].wallet, open |-> TRUE]
  <2>1. /\ y \in [pc : ToolPcs, wallet : Wallets \cup {Null}]
        /\ y.pc = "done" /\ y.wallet = tool[r].wallet
        /\ z \in [wallet : Wallets \cup {Null}, open : BOOLEAN] /\ z.wallet = tool[r].wallet
    BY <1>0 DEF RequestType, ToolPcs
  <2>2. /\ tool[r].pc = "reading" /\ tool' = [tool EXCEPT ![r] = y]
        /\ park' = [park EXCEPT ![r] = z]
        /\ wf' = [wf EXCEPT ![r] = "pending"] /\ task' = [task EXCEPT ![r] = "wait"]
        /\ UNCHANGED <<bound, kind, routing, inbox, jit, checked>>
    BY <1>4 DEF Park
  <2> HIDE DEF y, z
  <2>3. RequestType'
    BY <1>0, <2>1, <2>2 DEF RequestType, WfStates, TaskPcs
  <2>4. RequestTraces' /\ HandoffBasisKept
    BY <1>0, <2>1, <2>2 DEF RequestType, RequestTraces
  <2> QED BY <2>3, <2>4
<1>5. CASE Blocked(r)
  <2> DEFINE y == [tool[r] EXCEPT !.pc = "refused"]
  <2>1. y \in [pc : ToolPcs, wallet : Wallets \cup {Null}] /\ y.wallet = tool[r].wallet
    BY <1>0 DEF RequestType, ToolPcs
  <2>2. tool[r].pc = "reading" /\ tool' = [tool EXCEPT ![r] = y]
        /\ UNCHANGED <<bound, kind, park, wf, routing, inbox, task, jit, checked>>
    BY <1>5 DEF Blocked
  <2> HIDE DEF y
  <2> QED BY <1>0, <2>1, <2>2 DEF RequestType, RequestTraces
<1>6. CASE Decide(r)
  <2>1. PICK s \in {"expired", "approved", "rejected"} :
          wf' = [wf EXCEPT ![r] = s] /\ routing' = [routing EXCEPT ![r] = s]
    BY <1>6 DEF Decide
  <2>2. wf[r] = "pending" /\ UNCHANGED <<bound, kind, tool, park, inbox, task, jit, checked>>
    BY <1>6 DEF Decide
  <2> QED BY <1>0, <2>1, <2>2 DEF RequestType, RequestTraces, WfStates
<1>7. CASE Signal(r)
  <2>1. /\ routing' = [routing EXCEPT ![r] = "none"]
        /\ UNCHANGED <<bound, kind, tool, wf, task, jit, checked>>
    BY <1>7 DEF Signal
  <2>2. PICK z, m : /\ park' = park \/ park' = [park EXCEPT ![r] = z]
                    /\ inbox' = inbox \/ inbox' = [inbox EXCEPT ![r] = m]
                    /\ z \in [wallet : Wallets \cup {Null}, open : BOOLEAN] \cup {Null}
                    /\ z # Null => park[r] # Null /\ z.wallet = park[r].wallet
                    /\ m \in WfStates \cup {"dropped"}
    <3>1. CASE park[r] = Null
      BY <1>7, <3>1 DEF Signal, WfStates
    <3>2. CASE park[r] # Null /\ kind[r] = "deposit" /\ r \in lapsed
      BY <1>7, <3>2 DEF Signal
    <3>3. CASE park[r] # Null /\ ~(kind[r] = "deposit" /\ r \in lapsed)
      <4> DEFINE z == [park[r] EXCEPT !.open = FALSE]
                 m == IF park[r].open THEN routing[r] ELSE inbox[r]
      <4>1. z \in [wallet : Wallets \cup {Null}, open : BOOLEAN] /\ z.wallet = park[r].wallet
        BY <1>0, <3>3 DEF RequestType
      <4>2. m \in WfStates \cup {"dropped"}
        BY <1>0 DEF RequestType
      <4>3. park' = [park EXCEPT ![r] = z] /\ inbox' = [inbox EXCEPT ![r] = m]
        BY <1>7, <3>3 DEF Signal
      <4> HIDE DEF z, m
      <4> QED BY <3>3, <4>1, <4>2, <4>3
    <3> QED BY <3>1, <3>2, <3>3
  <2>3. /\ park' \in [Requests -> [wallet : Wallets \cup {Null}, open : BOOLEAN] \cup {Null}]
        /\ inbox' \in [Requests -> WfStates \cup {"dropped"}]
        /\ \A q \in Requests : park'[q] # Null => park[q] # Null /\ park'[q].wallet = park[q].wallet
    <3>1. inbox' \in [Requests -> WfStates \cup {"dropped"}]
      BY <1>0, <2>2 DEF RequestType
    <3>2. CASE park' = park
      BY <1>0, <3>1, <3>2 DEF RequestType
    <3>3. CASE park' = [park EXCEPT ![r] = z]
      BY <1>0, <2>2, <3>1, <3>3 DEF RequestType
    <3> QED BY <2>2, <3>2, <3>3
  <2> QED BY <1>0, <2>1, <2>3 DEF RequestType, RequestTraces, WfStates
<1>8. CASE ResumeRefused(r)
  BY <1>0, <1>8 DEF ResumeRefused, RequestType, RequestTraces, TaskPcs
<1>9. CASE ResumeApproved(r)
  <2>1. /\ task[r] = "wait"
        /\ task' \in {[task EXCEPT ![r] = "done"], [task EXCEPT ![r] = "recheck"]}
        /\ park' \in {park, [park EXCEPT ![r] = Null]}
        /\ UNCHANGED <<bound, kind, tool, wf, routing, inbox, jit, checked>>
    BY <1>9 DEF ResumeApproved
  <2>2. /\ task' \in [Requests -> TaskPcs]
        /\ \A q \in Requests : /\ task'[q] # "none" => task[q] # "none"
                               /\ task'[q] = "preflight" => task[q] = "preflight"
    BY <1>0, <2>1 DEF RequestType, TaskPcs
  <2>3. /\ park' \in [Requests -> [wallet : Wallets \cup {Null}, open : BOOLEAN] \cup {Null}]
        /\ \A q \in Requests : park'[q] # Null => park'[q] = park[q]
    BY <1>0, <2>1 DEF RequestType
  <2> QED BY <1>0, <2>1, <2>2, <2>3 DEF RequestType, RequestTraces
<1>10. CASE Recheck(r)
  <2>1. PICK pass \in BOOLEAN :
          /\ checked' = IF pass THEN checked \cup {r} ELSE checked
          /\ park' \in {park, [park EXCEPT ![r] = Null]}
          /\ task' = [task EXCEPT ![r] =
                        IF kind[r] = "deposit" /\ pass THEN "preflight" ELSE "done"]
    BY <1>10 DEF Recheck, FreshVerdict
  <2>2. task[r] = "recheck" /\ UNCHANGED <<bound, kind, tool, wf, routing, inbox, jit>>
    BY <1>10 DEF Recheck
  <2>3. CASE pass
    BY <1>0, <2>1, <2>2, <2>3 DEF RequestType, RequestTraces, TaskPcs
  <2>4. CASE ~pass
    BY <1>0, <2>1, <2>2, <2>4 DEF RequestType, RequestTraces, TaskPcs
  <2> QED BY <2>3, <2>4
<1>11. CASE Preflight(r)
  <2> DEFINE z == [wallet |-> tool[r].wallet]
  <2>1. z \in [wallet : Wallets \cup {Null}] /\ z.wallet = tool[r].wallet
    BY <1>0 DEF RequestType
  <2>2. /\ task[r] = "preflight" /\ task' = [task EXCEPT ![r] = "done"]
        /\ jit' = jit \/ jit' = [jit EXCEPT ![r] = z]
        /\ UNCHANGED <<bound, kind, tool, park, wf, routing, inbox, checked>>
    BY <1>11 DEF Preflight
  <2> HIDE DEF z
  <2> QED BY <1>0, <2>1, <2>2 DEF RequestType, RequestTraces, TaskPcs
<1> QED BY <1>1, <1>2, <1>3, <1>4, <1>5, <1>6, <1>7, <1>8, <1>9, <1>10, <1>11 DEF RequestStep

\* The handoffs keep what they rest on while nothing happens to their entry
\* but that it is consumed or runs out.
LEMMA HandoffsKept ==
  ASSUME PInv, HandoffBasisKept,
         \A h \in Handoffs : /\ hand'[h].r = hand[h].r /\ hand'[h].wallet = hand[h].wallet
                             /\ hand'[h].lvbh = hand[h].lvbh
                             /\ hand'[h].pc \in {hand[h].pc, "gone"}
  PROVE  HandoffTraces'
BY DEF PInv, RequestInv, HandoffTraces, HandoffBasisKept

\* Prepare, then the handoff, which for a withdrawal checks once more.
LEMMA PrepareSteps ==
  ASSUME PInv, NEW h \in Handoffs,
         HandOff(h) \/ HandOffFails(h) \/ \E r \in Requests : Prepare(h, r)
  PROVE  RequestInv'
<1>0. RequestType /\ RequestTraces /\ HandoffTraces /\ hand \in [Handoffs -> Hand]
  BY DEF PInv, RequestInv, SubmitInv, SubmitType
<1>1. CASE HandOffFails(h)
  <2> DEFINE y == [hand[h] EXCEPT !.pc = "gone"]
  <2>1. y.pc = "gone" /\ y.r = hand[h].r /\ y.wallet = hand[h].wallet /\ y.lvbh = hand[h].lvbh
    BY <1>0 DEF Hand
  <2>2. hand' = [hand EXCEPT ![h] = y] /\ UNCHANGED requestVars
    BY <1>1 DEF HandOffFails
  <2> HIDE DEF y
  <2>3. HandoffTraces'
    BY <1>0, <2>1, <2>2, HandoffsKept DEF HandoffBasisKept, requestVars
  <2> QED BY <1>0, <2>2, <2>3 DEF RequestInv, RequestType, RequestTraces, requestVars
<1>2. CASE HandOff(h)
  <2> DEFINE y == [hand[h] EXCEPT !.pc = "parked", !.lvbh = tip + Validity, !.live = TRUE]
             q == hand[h].r
  <2>1. y.pc = "parked" /\ y.r = q /\ y.wallet = hand[h].wallet
    BY <1>0 DEF Hand
  <2>2. /\ hand[h].pc = "building" /\ hand' = [hand EXCEPT ![h] = y]
        /\ checked' = IF kind[q] = "withdraw" THEN checked \cup {q} ELSE checked
        /\ UNCHANGED <<bound, kind, tool, park, wf, routing, inbox, task, jit>>
    BY <1>2 DEF HandOff
  <2>3. /\ q \in Requests /\ wf[q] = "approved" /\ hand[h].wallet = tool[q].wallet
        /\ kind[q] = "deposit" => q \in checked
    BY <1>0, <2>2 DEF HandoffTraces
  <2> HIDE DEF y, q
  <2>4. q \in checked' /\ checked \subseteq checked' /\ checked' \subseteq Requests
    BY <1>0, <2>2, <2>3 DEF RequestType
  <2>5. HandoffTraces'
    BY <1>0, <2>1, <2>2, <2>3, <2>4 DEF HandoffTraces
  <2> QED BY <1>0, <2>2, <2>4, <2>5 DEF RequestInv, RequestType, RequestTraces
<1>3. ASSUME NEW r \in Requests, Prepare(h, r)
      PROVE  RequestInv'
  <2> DEFINE w == Planned(r).wallet
             y == [hand[h] EXCEPT !.pc = "building", !.r = r, !.wallet = w]
  <2>1. y.pc = "building" /\ y.r = r /\ y.wallet = w /\ y.lvbh = hand[h].lvbh
    BY <1>0 DEF Hand
  <2>2. hand[h].pc = "free" /\ hand' = [hand EXCEPT ![h] = y] /\ UNCHANGED requestVars
    BY <1>3 DEF Prepare
  <2>3. /\ wf[r] = "approved" /\ w = tool[r].wallet
        /\ kind[r] = "deposit" => r \in checked
    BY <1>0, <1>3 DEF Prepare, MayPrepare, Planned, RequestTraces
  <2>4. hand[h].lvbh = 0
    BY <1>0, <2>2 DEF HandoffTraces
  <2> HIDE DEF y, w
  <2>5. HandoffTraces'
    BY <1>0, <2>1, <2>2, <2>3, <2>4 DEF HandoffTraces, requestVars
  <2> QED BY <1>0, <2>2, <2>5 DEF RequestInv, RequestType, RequestTraces, requestVars
<1> QED BY <1>1, <1>2, <1>3

\* The invariant holds initially: nothing is parked, sent or tracked.
LEMMA PInvInit == PInit => PInv
<1> SUFFICES ASSUME PInit PROVE PInv
  OBVIOUS
<1>1. SubmitInv
  <2> USE DEF PInit, SInit, Quiet
  <2>1. Free \in Hand /\ ~Free.live /\ Free.pc = "free" /\ Free.lvbh = 0
    BY DEF Free, Hand, HandPcs
  <2>2. NoPost \in Post /\ NoPost.pc = "idle" /\ NoPost.h = Null
    BY DEF NoPost, Post, PostPcs
  <2>3. NoPoll \in Poll /\ NoPoll.h = 0 /\ NoPoll.left = {}
    BY DEF NoPoll, Poll
  <2>4. SubmitType
    BY <2>1, <2>2, <2>3 DEF SubmitType, Outcome, InFlight
  <2>5. EntryIsTaken /\ SendersAreSent
    BY <2>1, <2>2 DEF EntryIsTaken, SendersAreSent, Claims, Flies, InFlight
  <2>6. TracesAreSent /\ RefusedIsUnclaimed /\ ChainIsBounded /\ TimeoutIsPast
    BY <2>3 DEF TracesAreSent, RefusedIsUnclaimed, ChainIsBounded, TimeoutIsPast
  <2> QED BY <2>4, <2>5, <2>6 DEF SubmitInv
<1>2. RequestInv
  <2> USE DEF PInit, RequestInit
  <2>1. bound \in Wallets
    BY PipelineBounds
  <2>2. RequestType
    BY <2>1 DEF RequestType, ToolPcs, TaskPcs, WfStates
  <2>3. RequestTraces
    BY DEF RequestTraces
  <2>4. HandoffTraces
    BY DEF HandoffTraces, SInit, Free
  <2> QED BY <2>2, <2>3, <2>4 DEF RequestInv
<1> QED BY <1>1, <1>2 DEF PInv

\* Every step keeps the invariant.
LEMMA PInvNext == PInv /\ [PNext]_pVars => PInv'
<1> SUFFICES ASSUME PInv, [PNext]_pVars PROVE PInv'
  OBVIOUS
<1>1. ASSUME UNCHANGED submitVars
      PROVE  SubmitInv'
  BY <1>1 DEF PInv, SubmitInv, submitVars, confirming, network, SubmitType, EntryIsTaken,
     SendersAreSent, TracesAreSent, RefusedIsUnclaimed, ChainIsBounded, TimeoutIsPast,
     Claims, Flies, Spoilt
<1>2. ASSUME UNCHANGED requestVars
      PROVE  RequestType' /\ RequestTraces' /\ HandoffBasisKept
  BY <1>2 DEF PInv, RequestInv, requestVars, RequestType, RequestTraces, HandoffBasisKept
<1>3. UNCHANGED hand /\ HandoffBasisKept => HandoffTraces'
  BY HandoffsKept
<1>4. CASE Rebind
  <2>1. UNCHANGED submitVars /\ bound' \in Wallets
    BY <1>4 DEF Rebind
  <2>2. UNCHANGED <<kind, tool, park, wf, routing, inbox, task, jit, checked>>
    BY <1>4 DEF Rebind
  <2>3. RequestType' /\ RequestTraces' /\ HandoffBasisKept
    BY <2>1, <2>2 DEF PInv, RequestInv, RequestType, RequestTraces, HandoffBasisKept
  <2> QED BY <1>1, <1>3, <2>1, <2>3 DEF PInv, RequestInv, submitVars
<1>5. ASSUME NEW r \in Requests, RequestStep(r)
      PROVE  PInv'
  <2>1. UNCHANGED submitVars
    BY <1>5 DEF RequestStep, LeaseRunsOut, JitRunsOut, Propose, Park, Blocked, Decide, Signal,
       ResumeRefused, ResumeApproved, Recheck, Preflight
  <2>2. RequestType' /\ RequestTraces' /\ HandoffBasisKept
    BY <1>5, RequestSteps
  <2> QED BY <1>1, <1>3, <2>1, <2>2 DEF PInv, RequestInv, submitVars
<1>6. ASSUME NEW h \in Handoffs,
             HandOff(h) \/ HandOffFails(h) \/ \E r \in Requests : Prepare(h, r)
      PROVE  PInv'
  BY <1>6, PrepareSteps, PrepareKeepsSubmits DEF PInv
<1>7. CASE SNext /\ UNCHANGED requestVars
  <2>1. SubmitInv'
    BY <1>7, SubmitNext DEF PInv
  <2>2. HandoffTraces'
    BY <1>2, <1>7, SubmitKeepsEntries, HandoffsKept DEF PInv
  <2> QED BY <1>2, <1>7, <2>1, <2>2 DEF PInv, RequestInv
<1>8. CASE UNCHANGED pVars
  BY <1>1, <1>2, <1>3, <1>8 DEF PInv, RequestInv, pVars, submitVars
<1> QED BY <1>4, <1>5, <1>6, <1>7, <1>8 DEF PNext

\* The invariant holds throughout.
LEMMA PInvAlways == PSpec => []PInv
<1> QED BY PInvInit, PInvNext, PTL DEF PSpec

---------------------------------------------------------------------------
(* The theorems.                                                           *)

\* However the POSTs of one signing request overlap, retry and are cut off, at
\* most one of them ever gives its transaction to the network.
THEOREM SolendOneSubmitSends == PSpec => []OneSubmitSends
<1>1. PInv => OneSubmitSends
  BY DEF PInv, SubmitInv, SubmitType, EntryIsTaken, Claims, OneSubmitSends
<1> QED BY <1>1, PInvAlways, PTL

\* A transaction the user is told to start over for, as rejected or expired,
\* was never given to the network, unless a body of its did not decode.
THEOREM SolendRefusedIsNeverSent == PSpec => []RefusedIsNeverSent
<1>1. PInv => RefusedIsNeverSent
  BY DEF PInv, SubmitInv, SubmitType, TracesAreSent, RefusedIsUnclaimed, Claims,
         RefusedIsNeverSent
<1> QED BY <1>1, PInvAlways, PTL

\* A confirmation timeout is reported only when the transaction's fate is
\* decided: it is in a final block, or no later block can take it, whatever the
\* nodes answer, from whichever node height and status come, and however often
\* the tracker sends it again.
THEOREM SolendTimeoutIsDecided == PSpec => []TimeoutIsDecided
<1>1. PInv => TimeoutIsDecided
  <2> SUFFICES ASSUME PInv, NEW h \in Handoffs, lifecycle[h] = "timeout"
               PROVE  IF chain[h] = Null THEN ~CanLand(h) ELSE chain[h].at = "finalized"
    BY DEF TimeoutIsDecided
  <2>1. hand[h].lvbh < final /\ final <= tip /\ {hand[h].lvbh, final, tip} \subseteq Nat
    BY DEF PInv, SubmitInv, TimeoutIsPast, SubmitType, Hand
  <2>2. chain[h] # Null => chain[h].at = "finalized"
    <3> SUFFICES ASSUME chain[h] # Null PROVE chain[h].at = "finalized"
      OBVIOUS
    <3>1. chain[h].block \in Nat /\ chain[h].block <= hand[h].lvbh
      BY DEF PInv, SubmitInv, SubmitType, Block, ChainIsBounded
    <3>2. chain[h].block < final
      BY <2>1, <3>1
    <3> QED BY <3>2 DEF PInv, SubmitInv, ChainIsBounded
  <2>3. ~CanLand(h)
    BY <2>1 DEF CanLand
  <2> QED BY <2>2, <2>3
<1> QED BY <1>1, PInvAlways, PTL

\* Every transaction handed to a wallet is of a request that was approved,
\* checked again after the approval, and made for that wallet, whatever wallet
\* the session was bound to in between.
THEOREM SolendHandoffIsRechecked == PSpec => []HandoffIsRechecked
<1>1. PInv => HandoffIsRechecked
  BY DEF PInv, RequestInv, HandoffTraces, HandoffIsRechecked
<1> QED BY <1>1, PInvAlways, PTL

=============================================================================
