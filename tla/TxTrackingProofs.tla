------------------------- MODULE TxTrackingProofs -------------------------
(***************************************************************************)
(* A theorem about transaction tracking: for any transactions, node lag,   *)
(* grace, retries, failing writes and crashes, finality is never invented. *)
(*                                                                         *)
(* The argument follows a verdict on its way from a node's answer through  *)
(* memory, the channel, the row and the events: at each place a finalized  *)
(* transaction is one the network has finalized without an error, which is *)
(* the one thing the network never takes back.                             *)
(***************************************************************************)
EXTENDS TxTracking, FiniteSetTheorems, SequenceTheorems, TLAPS

Obs == [at : {"none", "processed", "confirmed", "finalized"}, ok : BOOLEAN]
Change == [s : Sigs, to : TxState]
Emission == [s : Sigs, todo : Seq(TxState)]

\* The network finalized s, without an error.
Real(s) == chain[s].at = "finalized" /\ chain[s].ok

NetworkType == height \in Nat /\ chain \in [Sigs -> Obs]

RowsAreReal ==
  /\ row \in [Sigs -> Row \cup {Null}]
  /\ \A s \in Sigs : row[s] # Null /\ row[s].state = "finalized" => Real(s)

RecordsAreReal ==
  /\ mem \in [Sigs -> Record \cup {Null}]
  /\ \A s \in Sigs : mem[s] # Null /\ mem[s].state = "finalized" => Real(s)

\* What is still to be rebroadcast is in memory.
PollType ==
  /\ poll \in [pc : {"idle", "status", "rebroadcast"}, h : Nat, left : SUBSET Sigs]
  /\ \A s \in poll.left : mem[s] # Null

ChangesAreReal ==
  /\ changes \in Seq(Change)
  /\ \A k \in DOMAIN changes : changes[k].to = "finalized" => Real(changes[k].s)

EmissionIsReal ==
  /\ emitting \in Emission \cup {Null}
  /\ emitting # Null =>
       \A k \in DOMAIN emitting.todo : emitting.todo[k] = "finalized" => Real(emitting.s)

EventsAreReal ==
  /\ published \in [Sigs -> SUBSET TxState]
  /\ \A s \in Sigs : "finalized" \in published[s] => Real(s)

TrackInv ==
  /\ NetworkType /\ RowsAreReal /\ RecordsAreReal /\ PollType
  /\ ChangesAreReal /\ EmissionIsReal /\ EventsAreReal

\* The elements of a sequence.
LEMMA InSeq ==
  ASSUME NEW S, NEW q \in Seq(S), NEW k \in DOMAIN q
  PROVE  q[k] \in S
<1>1. k \in 1..Len(q)
  OBVIOUS
<1> QED BY <1>1, ElementOfSeq

---------------------------------------------------------------------------
(* The answers of a node.                                                  *)

\* An observation of finality without an error is of a finalized transaction.
LEMMA AnswerIsReal ==
  ASSUME NetworkType, NEW s \in Sigs, NEW obs \in Answers(s), obs.ok, obs.at = "finalized"
  PROVE  Real(s)
<1>1. obs # NoObs
  BY DEF NoObs
<1>2. PICK k \in 1..3, j \in 1..3 :
        obs = [at |-> Levels[k], ok |-> chain[s].ok] /\ chain[s].at = Levels[j] /\ k <= j
  BY <1>1 DEF Answers
<1>3. obs.at = Levels[k] /\ obs.ok = chain[s].ok
  BY <1>2
<1>4. k = 3 /\ j = 3
  BY <1>2, <1>3 DEF Levels
<1> QED BY <1>2, <1>3, <1>4 DEF Real, Levels

\* Only such an observation leads to the state finalized.
LEMMA NextStateIsReal ==
  ASSUME NEW cur \in TxState, NEW obs, NEW h, NEW sub, NEW lvbh
  PROVE  LET n == calculate_next_state(cur, obs, h, sub, lvbh)
         IN n \in TxState /\ (n = "finalized" => \/ cur = "finalized"
                                                 \/ obs.ok /\ obs.at = "finalized")
  BY DEF calculate_next_state, OnConfirmed, TxState

\* A step of the network takes no finality back; the gateway is left alone.
LEMMA NetworkSteps ==
  ASSUME TrackInv, NEW s \in Sigs, NewBlock \/ Land(s) \/ Settle(s) \/ Abandon(s)
  PROVE  TrackInv'
<1>1. UNCHANGED <<row, mem, poll, changes, emitting, published>>
  BY DEF NewBlock, Land, Settle, Abandon, worker, persister
<1>2. NetworkType' /\ \A t \in Sigs : Real(t) => Real(t)'
  <2>1. CASE NewBlock
    BY <2>1 DEF NewBlock, TrackInv, NetworkType, Real
  <2>2. ASSUME NEW x \in Obs, chain[s].at # "finalized", height' = height,
               chain' = [chain EXCEPT ![s] = x]
        PROVE  NetworkType' /\ \A t \in Sigs : Real(t) => Real(t)'
    BY <2>2 DEF TrackInv, NetworkType, Real
  <2>3. CASE Land(s)
    <3>1. PICK ok \in BOOLEAN : chain' = [chain EXCEPT ![s] = [at |-> "processed", ok |-> ok]]
      BY <2>3 DEF Land
    <3>2. [at |-> "processed", ok |-> ok] \in Obs
      BY DEF Obs
    <3> QED BY <2>2, <2>3, <3>1, <3>2 DEF Land, CanLand
  <2>4. CASE Settle(s)
    <3> DEFINE y == [chain[s] EXCEPT !.at = IF @ = "processed" THEN "confirmed" ELSE "finalized"]
    <3>1. chain[s] \in Obs
      BY DEF TrackInv, NetworkType
    <3>2. y \in Obs
      BY <3>1 DEF Obs
    <3>3. chain' = [chain EXCEPT ![s] = y] /\ chain[s].at # "finalized" /\ height' = height
      BY <2>4 DEF Settle
    <3> HIDE DEF y
    <3> QED BY <2>2, <3>2, <3>3
  <2>5. CASE Abandon(s)
    <3>1. NoObs \in Obs
      BY DEF NoObs, Obs
    <3> QED BY <2>2, <2>5, <3>1 DEF Abandon
  <2> QED BY <2>1, <2>3, <2>4, <2>5
<1>3. RowsAreReal' /\ RecordsAreReal' /\ EventsAreReal'
  BY <1>1, <1>2 DEF TrackInv, RowsAreReal, RecordsAreReal, EventsAreReal
<1>4. ChangesAreReal'
  <2>1. \A k \in DOMAIN changes : changes[k].s \in Sigs
    <3>1. \A k \in DOMAIN changes : changes[k] \in Change
      BY InSeq DEF TrackInv, ChangesAreReal
    <3> QED BY <3>1 DEF Change
  <2> QED BY <1>1, <1>2, <2>1 DEF TrackInv, ChangesAreReal
<1>5. EmissionIsReal'
  BY <1>1, <1>2 DEF TrackInv, EmissionIsReal, Emission
<1>6. PollType'
  BY <1>1 DEF TrackInv, PollType
<1> QED BY <1>2, <1>3, <1>4, <1>5, <1>6 DEF TrackInv

---------------------------------------------------------------------------
(* The gateway: the network stands still.                                  *)

\* What a step of the gateway leaves alone stays real.
LEMMA StillReal ==
  ASSUME TrackInv, UNCHANGED network
  PROVE  /\ NetworkType' /\ \A s \in Sigs : Real(s)' <=> Real(s)
         /\ UNCHANGED row => RowsAreReal'
         /\ UNCHANGED mem => RecordsAreReal'
         /\ UNCHANGED <<mem, poll>> => PollType'
         /\ UNCHANGED changes => ChangesAreReal'
         /\ UNCHANGED emitting => EmissionIsReal'
         /\ UNCHANGED published => EventsAreReal'
<1>1. chain' = chain /\ height' = height
  BY DEF network
<1> QED BY <1>1 DEF TrackInv, NetworkType, Real, RowsAreReal, RecordsAreReal, PollType,
           ChangesAreReal, EmissionIsReal, EventsAreReal

\* A registration starts from submitted, in the row and in memory.
LEMMA RegisterStep ==
  ASSUME TrackInv, NEW s \in Sigs, Register(s)
  PROVE  TrackInv'
<1>1. UNCHANGED network /\ UNCHANGED <<poll, changes, emitting, published>>
  BY DEF Register, persister
<1>2. PICK lvbh \in {0, Lvbh[s]}, ok \in BOOLEAN, sub \in Nat :
        /\ row' = IF ok /\ row[s] = Null
                  THEN [row EXCEPT ![s] = [state |-> "submitted", sub |-> sub, lvbh |-> lvbh]]
                  ELSE row
        /\ mem' = IF TrackAllowed(ok) THEN [mem EXCEPT ![s] = Tracked(s, sub, lvbh)] ELSE mem
  <2>1. \A l \in {0, Lvbh[s]} : Heights \cup {FallbackHeight(l)} \subseteq Nat
    BY TrackingBounds DEF Heights, FallbackHeight, TrackInv, NetworkType
  <2> QED BY <2>1 DEF Register
<1>3. lvbh \in Nat
  BY TrackingBounds
<1> DEFINE x == [state |-> "submitted", sub |-> sub, lvbh |-> lvbh]
           y == [state |-> "submitted", sub |-> sub, lvbh |-> lvbh, retries |-> 0, bytes |-> TRUE]
<1>4. /\ x \in Row /\ x.state = "submitted" /\ y \in Record /\ y.state = "submitted"
  BY <1>3 DEF Row, Record, TxState
<1>5. /\ row' = row \/ row' = [row EXCEPT ![s] = x]
      /\ mem' = mem \/ (mem[s] = Null /\ mem' = [mem EXCEPT ![s] = y])
  <2>1. mem \in [Sigs -> Record \cup {Null}]
    BY DEF TrackInv, RecordsAreReal
  <2> QED BY <1>2, <2>1 DEF Tracked
<1> HIDE DEF x, y
<1>6. RowsAreReal'
  BY <1>1, <1>4, <1>5, StillReal DEF TrackInv, RowsAreReal
<1>7. RecordsAreReal'
  BY <1>1, <1>4, <1>5, StillReal DEF TrackInv, RecordsAreReal
<1>8. PollType'
  <2>1. Null \notin Record
    BY TrackingBounds
  <2> QED BY <1>1, <1>4, <1>5, <2>1 DEF TrackInv, PollType, RecordsAreReal
<1> QED BY <1>1, <1>6, <1>7, <1>8, StillReal DEF TrackInv

\* The answers of a batch are applied: what becomes finalized in memory and
\* goes to the persister was observed so.
LEMMA ApplySteps ==
  ASSUME TrackInv, NEW polled \in SUBSET InMemory, NEW obs,
         \A s \in polled : obs[s] \in Answers(s),
         ApplyStatuses(polled, obs)
  PROVE  TrackInv'
<1> DEFINE next(s) == calculate_next_state(mem[s].state, obs[s], poll.h, mem[s].sub, mem[s].lvbh)
           new == [s \in InMemory |-> IF s \in polled THEN next(s) ELSE mem[s].state]
           moved == {s \in InMemory : new[s] # mem[s].state}
<1>1. /\ UNCHANGED network /\ UNCHANGED <<row, emitting, published>>
      /\ mem' = [s \in Sigs |-> IF s \in InMemory THEN [mem[s] EXCEPT !.state = new[s]] ELSE Null]
      /\ \E q \in ChangesOf(moved, new) : changes' = changes \o q
      /\ \E left \in SUBSET InMemory : poll' = [poll EXCEPT !.pc = "rebroadcast", !.left = left]
  BY DEF ApplyStatuses
<1>2. \A s \in InMemory : s \in Sigs /\ mem[s] \in Record
  BY DEF InMemory, TrackInv, RecordsAreReal
<1>3. \A s \in InMemory : new[s] \in TxState /\ (new[s] = "finalized" => Real(s))
  <2> SUFFICES ASSUME NEW s \in InMemory
               PROVE  new[s] \in TxState /\ (new[s] = "finalized" => Real(s))
    OBVIOUS
  <2>1. mem[s].state \in TxState /\ (mem[s].state = "finalized" => Real(s))
    BY <1>2 DEF Record, TrackInv, RecordsAreReal, InMemory
  <2>2. CASE s \notin polled
    BY <2>1, <2>2
  <2>3. CASE s \in polled
    <3>1. next(s) \in TxState /\ (next(s) = "finalized" => \/ mem[s].state = "finalized"
                                                           \/ obs[s].ok /\ obs[s].at = "finalized")
      BY <2>1, NextStateIsReal
    <3>2. new[s] = next(s)
      BY <2>3
    <3> HIDE DEF next, new
    <3> QED BY <1>2, <2>1, <2>3, <3>1, <3>2, AnswerIsReal DEF TrackInv
  <2> QED BY <2>2, <2>3
<1> HIDE DEF new
<1>4. \A s \in InMemory : LET y == [mem[s] EXCEPT !.state = new[s]]
                          IN y \in Record /\ y.state = new[s]
  BY <1>2, <1>3 DEF Record
<1>5. RecordsAreReal'
  <2>1. mem' \in [Sigs -> Record \cup {Null}]
    BY <1>1, <1>4
  <2>2. ASSUME NEW s \in Sigs, mem'[s] # Null, mem'[s].state = "finalized"
        PROVE  Real(s)'
    <3>1. s \in InMemory /\ new[s] = "finalized"
      BY <1>1, <1>4, <2>2
    <3> QED BY <1>1, <1>3, <3>1, StillReal
  <2> QED BY <2>1, <2>2 DEF RecordsAreReal
<1>6. PollType'
  <2>1. PICK left \in SUBSET InMemory : poll' = [poll EXCEPT !.pc = "rebroadcast", !.left = left]
    BY <1>1
  <2>2. poll' \in [pc : {"idle", "status", "rebroadcast"}, h : Nat, left : SUBSET Sigs]
        /\ poll'.left = left
    BY <1>2, <2>1 DEF TrackInv, PollType
  <2>3. \A s \in InMemory : mem'[s] # Null
    BY <1>1, <1>2, <1>4, TrackingBounds
  <2> QED BY <2>1, <2>2, <2>3 DEF PollType
<1>7. ChangesAreReal'
  <2>1. PICK q \in ChangesOf(moved, new) : changes' = changes \o q
    BY <1>1
  <2>2. moved \subseteq Sigs /\ IsFiniteSet(moved)
    BY <1>2, TrackingBounds, FS_Subset
  <2>3. Cardinality(moved) \in Nat
    BY <2>2, FS_CardinalityType
  <2>4. /\ q \in [1..Cardinality(moved) -> [s : moved, to : TxState]]
        /\ \A k \in DOMAIN q : q[k].to = new[q[k].s]
    BY DEF ChangesOf
  <2>5. \A k \in DOMAIN q : q[k] \in Change /\ (q[k].to = "finalized" => Real(q[k].s))
    <3> SUFFICES ASSUME NEW k \in DOMAIN q
                 PROVE  q[k] \in Change /\ (q[k].to = "finalized" => Real(q[k].s))
      OBVIOUS
    <3>1. q[k] \in [s : moved, to : TxState] /\ q[k].to = new[q[k].s]
      BY <2>4
    <3>2. q[k].s \in moved /\ q[k] \in Change
      BY <2>2, <3>1 DEF Change
    <3> QED BY <1>3, <3>1, <3>2
  <2>6. q \in Seq(Change)
    <3>1. PICK n \in Nat : n = Cardinality(moved)
      BY <2>3
    <3>2. q \in [1..n -> Change]
      BY <2>4, <2>5, <3>1
    <3> QED BY <3>2
  <2>7. changes \in Seq(Change)
        /\ \A k \in DOMAIN changes : changes[k].to = "finalized" => Real(changes[k].s)
    BY DEF TrackInv, ChangesAreReal
  <2>8. ASSUME NEW k \in DOMAIN changes', changes'[k].to = "finalized"
        PROVE  changes'[k].s \in Sigs /\ Real(changes'[k].s)
    <3>1. CASE k <= Len(changes)
      <4>1. k \in DOMAIN changes /\ changes'[k] = changes[k] /\ changes[k] \in Change
        BY <2>1, <2>6, <2>7, <2>8, <3>1, InSeq
      <4> QED BY <2>7, <2>8, <4>1 DEF Change
    <3>2. CASE ~(k <= Len(changes))
      <4>1. k - Len(changes) \in DOMAIN q /\ changes'[k] = q[k - Len(changes)]
        BY <2>1, <2>6, <2>7, <2>8, <3>2
      <4> QED BY <2>5, <2>8, <4>1 DEF Change
    <3> QED BY <3>1, <3>2
  <2>9. changes' \in Seq(Change)
    BY <2>1, <2>6, <2>7
  <2>10. chain' = chain
    BY <1>1 DEF network
  <2> QED BY <2>8, <2>9, <2>10 DEF ChangesAreReal, Real
<1> QED BY <1>1, <1>5, <1>6, <1>7, StillReal DEF TrackInv

\* The rest of the worker: heights, rebroadcasts and clean-up put nothing into
\* memory that was not there, or put it back to submitted.
LEMMA WorkerSteps ==
  ASSUME TrackInv,
         \/ PollHeight \/ PollSkips \/ CleanUp
         \/ \E s \in Sigs : Rebroadcast(s)
  PROVE  TrackInv'
<1>1. UNCHANGED network /\ UNCHANGED <<row, changes, emitting, published>>
  BY DEF PollHeight, PollSkips, CleanUp, Rebroadcast, persister
<1> DEFINE Poll == [pc : {"idle", "status", "rebroadcast"}, h : Nat, left : SUBSET Sigs]
<1>2. poll \in Poll /\ mem \in [Sigs -> Record \cup {Null}]
  BY DEF TrackInv, PollType, RecordsAreReal
<1>3. CASE PollHeight
  <2>1. PICK h \in Nat : poll' = [poll EXCEPT !.pc = "status", !.h = h]
    <3>1. Heights \subseteq Nat
      BY DEF Heights, TrackInv, NetworkType
    <3> QED BY <1>3, <3>1 DEF PollHeight
  <2>2. poll' \in Poll /\ poll'.left = poll.left /\ mem' = mem
    BY <1>2, <1>3, <2>1 DEF PollHeight
  <2> QED BY <1>1, <2>2, StillReal DEF TrackInv, PollType
<1>4. CASE PollSkips
  <2>1. poll' \in Poll /\ poll'.left = poll.left /\ mem' = mem
    BY <1>2, <1>4 DEF PollSkips
  <2> QED BY <1>1, <2>1, StillReal DEF TrackInv, PollType
<1>5. CASE CleanUp
  <2>1. poll' \in Poll /\ poll'.left = {}
    BY <1>2, <1>5 DEF CleanUp
  <2>2. /\ mem' \in [Sigs -> Record \cup {Null}]
        /\ \A s \in Sigs : mem'[s] # Null => mem'[s] = mem[s]
    BY <1>2, <1>5 DEF CleanUp
  <2>3. RecordsAreReal'
    BY <1>1, <2>2, StillReal DEF TrackInv, RecordsAreReal
  <2> QED BY <1>1, <2>1, <2>3, StillReal DEF TrackInv, PollType
<1>6. ASSUME NEW s \in Sigs, Rebroadcast(s)
      PROVE  TrackInv'
  <2>1. mem[s] \in Record /\ mem[s] # Null /\ poll.h \in Nat
    BY <1>2, <1>6 DEF Rebroadcast, TrackInv, PollType
  <2> DEFINE x == [mem[s] EXCEPT !.retries = CountedRetry(s)]
             y == [mem[s] EXCEPT !.retries = CountedRetry(s), !.state = "submitted", !.sub = poll.h]
  <2>2. /\ x \in Record /\ x.state = mem[s].state
        /\ y \in Record /\ y.state = "submitted"
    <3>1. CountedRetry(s) \in Nat
      BY <2>1 DEF CountedRetry, Record
    <3> QED BY <2>1, <3>1 DEF Record, TxState
  <2>3. mem' = [mem EXCEPT ![s] = x] \/ mem' = [mem EXCEPT ![s] = y]
    BY <1>6 DEF Rebroadcast
  <2> HIDE DEF x, y
  <2>4. RecordsAreReal'
    BY <1>1, <1>2, <2>1, <2>2, <2>3, StillReal DEF TrackInv, RecordsAreReal
  <2>5. poll' \in Poll /\ poll'.left \subseteq poll.left
    BY <1>2, <1>6 DEF Rebroadcast
  <2>6. \A t \in Sigs : mem[t] # Null => mem'[t] # Null
    BY <1>2, <2>2, <2>3, TrackingBounds
  <2>7. PollType'
    BY <2>5, <2>6 DEF TrackInv, PollType
  <2> QED BY <1>1, <2>4, <2>7, StillReal DEF TrackInv
<1> QED BY <1>3, <1>4, <1>5, <1>6

\* The persister moves a change into the row, then into events.
LEMMA PersistStep ==
  ASSUME TrackInv, PersistChange
  PROVE  TrackInv'
<1> DEFINE c == Head(changes)
<1>1. /\ UNCHANGED network /\ UNCHANGED <<mem, poll, published>>
      /\ changes # <<>> /\ changes' = Tail(changes)
  BY DEF PersistChange, worker
<1>2. changes \in Seq(Change)
      /\ \A k \in DOMAIN changes : changes[k].to = "finalized" => Real(changes[k].s)
  BY DEF TrackInv, ChangesAreReal
<1>3. c \in Change /\ (c.to = "finalized" => Real(c.s))
  <2>1. 1 \in DOMAIN changes /\ c = changes[1]
    BY <1>1, <1>2
  <2> QED BY <1>2, <2>1, InSeq
<1>4. c.s \in Sigs /\ c.to \in TxState
  BY <1>3 DEF Change
<1>5. PICK ok \in BOOLEAN :
        /\ row' = IF ok /\ row[c.s] # Null THEN [row EXCEPT ![c.s].state = c.to] ELSE row
        /\ emitting' = IF ok THEN [s |-> c.s, todo |-> EventsOf(c.to)] ELSE Null
  BY DEF PersistChange
<1> HIDE DEF c
<1>6. RowsAreReal'
  <2>1. CASE row' = row
    BY <1>1, <2>1, StillReal
  <2>2. CASE row[c.s] # Null /\ row' = [row EXCEPT ![c.s].state = c.to]
    <3> DEFINE y == [row[c.s] EXCEPT !.state = c.to]
    <3>1. row[c.s] \in Row
      BY <1>4, <2>2 DEF TrackInv, RowsAreReal
    <3>2. y \in Row /\ y.state = c.to
      BY <1>4, <3>1 DEF Row
    <3>3. row' = [row EXCEPT ![c.s] = y]
      BY <2>2
    <3> HIDE DEF y
    <3> QED BY <1>1, <1>3, <1>4, <3>2, <3>3, StillReal DEF TrackInv, RowsAreReal
  <2> QED BY <1>5, <2>1, <2>2
<1>7. ChangesAreReal'
  <2>1. /\ changes' \in Seq(Change)
        /\ \A k \in DOMAIN changes' : k + 1 \in DOMAIN changes /\ changes'[k] = changes[k + 1]
    BY <1>1, <1>2
  <2>2. chain' = chain
    BY <1>1 DEF network
  <2> QED BY <1>2, <2>1, <2>2 DEF ChangesAreReal, Real
<1>8. EmissionIsReal'
  <2> DEFINE es == EventsOf(c.to)
             y == [s |-> c.s, todo |-> es]
  <2>1. es \in Seq(TxState) /\ \A k \in DOMAIN es : es[k] = "finalized" => c.to = "finalized"
    <3>1. CASE c.to = "finalized"
      <4>1. es = <<"confirmed", "finalized">>
        BY <3>1 DEF EventsOf
      <4> HIDE DEF es
      <4> QED BY <3>1, <4>1 DEF TxState
    <3>2. CASE c.to = "submitted"
      BY <3>2 DEF EventsOf
    <3>3. CASE c.to \notin {"finalized", "submitted"}
      <4>1. es = <<c.to>>
        BY <3>3 DEF EventsOf
      <4> HIDE DEF es
      <4> QED BY <1>4, <3>3, <4>1
    <3> QED BY <3>1, <3>2, <3>3
  <2> HIDE DEF es
  <2>2. y \in Emission /\ y.s = c.s /\ y.todo = es
    BY <1>4, <2>1 DEF Emission
  <2>3. emitting' = y \/ emitting' = Null
    BY <1>5 DEF es
  <2> HIDE DEF y
  <2>4. chain' = chain
    BY <1>1 DEF network
  <2> QED BY <1>3, <2>1, <2>2, <2>3, <2>4 DEF EmissionIsReal, Real
<1> QED BY <1>1, <1>6, <1>7, <1>8, StillReal DEF TrackInv

\* An event that is published was still to be.
LEMMA EmitStep ==
  ASSUME TrackInv, EmitEvent
  PROVE  TrackInv'
<1>1. /\ UNCHANGED network /\ UNCHANGED <<row, mem, poll, changes>>
      /\ emitting # Null /\ emitting.todo # <<>>
  BY DEF EmitEvent, worker
<1>2. /\ emitting \in Emission /\ emitting.s \in Sigs /\ emitting.todo \in Seq(TxState)
      /\ \A k \in DOMAIN emitting.todo : emitting.todo[k] = "finalized" => Real(emitting.s)
  BY <1>1 DEF TrackInv, EmissionIsReal, Emission
<1>3. PICK q \in Seq(TxState) : q = emitting.todo
  BY <1>2
<1>4. q # <<>> /\ 1 \in DOMAIN q /\ Head(q) = q[1] /\ Head(q) \in TxState
  BY <1>1, <1>3, InSeq
<1>5. EventsAreReal'
  <2>1. published' = published
        \/ published' = [published EXCEPT ![emitting.s] = @ \cup {Head(q)}]
    BY <1>3 DEF EmitEvent
  <2>2. Head(q) = "finalized" => Real(emitting.s)
    BY <1>2, <1>3, <1>4
  <2> QED BY <1>1, <1>2, <1>4, <2>1, <2>2, StillReal DEF TrackInv, EventsAreReal
<1>6. EmissionIsReal'
  <2> DEFINE y == [emitting EXCEPT !.todo = Tail(@)]
  <2>1. emitting' = Null \/ emitting' = y
    BY DEF EmitEvent
  <2>2. /\ Tail(q) \in Seq(TxState)
        /\ \A k \in DOMAIN Tail(q) : k + 1 \in DOMAIN q /\ Tail(q)[k] = q[k + 1]
    BY <1>4
  <2>3. y \in Emission /\ y.s = emitting.s /\ y.todo = Tail(q)
    BY <1>2, <1>3, <2>2 DEF Emission
  <2> HIDE DEF y
  <2>4. chain' = chain
    BY <1>1 DEF network
  <2> QED BY <1>2, <1>3, <2>1, <2>2, <2>3, <2>4 DEF EmissionIsReal, Real
<1> QED BY <1>1, <1>5, <1>6, StillReal DEF TrackInv

\* Recovery finalizes nothing: a row is expired, or tracked as submitted.
LEMMA RestartStep ==
  ASSUME TrackInv, Restart
  PROVE  TrackInv'
<1>1. /\ UNCHANGED network /\ published' = published
      /\ poll' = [pc |-> "idle", h |-> 0, left |-> {}]
      /\ changes' = <<>> /\ emitting' = Null
  BY DEF Restart
<1> DEFINE x(s) == [row[s] EXCEPT !.state = "expired"]
           y(s) == [state |-> "submitted", sub |-> row[s].sub, lvbh |-> row[s].lvbh,
                    retries |-> 0, bytes |-> FALSE]
<1>2. PICK dead \in SUBSET {s \in Sigs : row[s] # Null}, back \in SUBSET {s \in Sigs : row[s] # Null} :
        /\ row' = [s \in Sigs |-> IF s \in dead THEN x(s) ELSE row[s]]
        /\ mem' = [s \in Sigs |-> IF s \in back THEN y(s) ELSE Null]
  <2>1. PICK slot \in {0} \cup height..(height + Skew), loaded \in BOOLEAN :
          Restart!3!(slot, loaded)
    BY DEF Restart
  <2> QED BY <2>1
<1>3. \A s \in Sigs : row[s] # Null =>
        /\ x(s) \in Row /\ x(s).state = "expired"
        /\ y(s) \in Record /\ y(s).state = "submitted"
  <2>1. \A s \in Sigs : row[s] # Null => row[s] \in Row
    BY DEF TrackInv, RowsAreReal
  <2> QED BY <2>1 DEF Row, Record, TxState
<1> HIDE DEF x, y
<1>4. RowsAreReal'
  BY <1>1, <1>2, <1>3, StillReal DEF TrackInv, RowsAreReal
<1>5. RecordsAreReal'
  BY <1>1, <1>2, <1>3 DEF RecordsAreReal
<1>6. PollType'
  BY <1>1 DEF PollType
<1>7. ChangesAreReal' /\ EmissionIsReal'
  BY <1>1 DEF ChangesAreReal, EmissionIsReal
<1> QED BY <1>1, <1>4, <1>5, <1>6, <1>7, StillReal DEF TrackInv

\* The invariant is inductive, and holds throughout.
LEMMA TrackNext == TrackInv /\ [TNext]_tVars => TrackInv'
<1> SUFFICES ASSUME TrackInv, [TNext]_tVars PROVE TrackInv'
  OBVIOUS
<1>1. ASSUME NEW s \in Sigs, Send(s) PROVE TrackInv'
  <2>1. UNCHANGED <<height, chain, row, mem, poll, changes, emitting, published>>
    BY <1>1 DEF Send, worker, persister
  <2> QED BY <2>1 DEF TrackInv, NetworkType, RowsAreReal, RecordsAreReal, PollType,
             ChangesAreReal, EmissionIsReal, EventsAreReal, Real
<1>2. ASSUME NEW s \in Sigs, Land(s) \/ Settle(s) \/ Abandon(s)
      PROVE  TrackInv'
  BY <1>2, NetworkSteps
<1>3. CASE NewBlock
  <2>1. UNCHANGED <<chain, row, mem, poll, changes, emitting, published>> /\ height' = height + 1
    BY <1>3 DEF NewBlock, worker, persister
  <2> QED BY <2>1 DEF TrackInv, NetworkType, RowsAreReal, RecordsAreReal, PollType,
             ChangesAreReal, EmissionIsReal, EventsAreReal, Real
<1>4. CASE PollAnswers
  <2>1. CASE PollStatuses
    BY <2>1, ApplySteps DEF PollStatuses
  <2>2. CASE PollStatusesFails
    BY <2>2, ApplySteps DEF PollStatusesFails
  <2> QED BY <1>4, <2>1, <2>2, WorkerSteps DEF PollAnswers
<1>5. CASE UNCHANGED tVars
  <2>1. UNCHANGED network /\ UNCHANGED <<row, mem, poll, changes, emitting, published>>
    BY <1>5 DEF tVars, worker, persister
  <2> QED BY <2>1, StillReal DEF TrackInv
<1> QED BY <1>1, <1>2, <1>3, <1>4, <1>5, RegisterStep, WorkerSteps, PersistStep, EmitStep,
           RestartStep DEF TNext

---------------------------------------------------------------------------
\* A transaction is published or recorded as finalized only if the network
\* finalized it without an error.
THEOREM TrackingFinalizedIsReal == TSpec => []FinalizedIsReal
<1>1. TInit => TrackInv
  <2> SUFFICES ASSUME TInit PROVE TrackInv
    OBVIOUS
  <2>1. NoObs \in Obs
    BY DEF NoObs, Obs
  <2>2. NetworkType
    BY <2>1 DEF TInit, NetworkType
  <2> QED BY <2>2 DEF TInit, TrackInv, RowsAreReal, RecordsAreReal, PollType,
             ChangesAreReal, EmissionIsReal, EventsAreReal
<1>2. TrackInv => FinalizedIsReal
  <2> SUFFICES ASSUME TrackInv, NEW s \in Sigs, Real(s)
               PROVE  chain[s] = [at |-> "finalized", ok |-> TRUE]
    BY DEF TrackInv, RowsAreReal, EventsAreReal, FinalizedIsReal
  <2>1. chain[s] \in Obs
    BY DEF TrackInv, NetworkType
  <2> QED BY <2>1 DEF Obs, Real
<1> QED BY <1>1, <1>2, TrackNext, PTL DEF TSpec

=============================================================================
