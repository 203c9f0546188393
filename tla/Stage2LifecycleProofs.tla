----------------------- MODULE Stage2LifecycleProofs -----------------------
(***************************************************************************)
(* Theorems about the rule lifecycle: for any rules, any number of watcher *)
(* and executor frames in any number of processes, any batch size, and     *)
(* with revocations, restarts and store errors at any time.                *)
(*                                                                         *)
(* The argument uses the compare-and-set lease and nothing else: neither   *)
(* the in-flight sets, which a restart empties and which another process   *)
(* does not see, nor what a frame has loaded.                              *)
(***************************************************************************)
EXTENDS Stage2Lifecycle, TLAPS

JobPcs == {"idle", "loop", "lease", "dispatch", "complete", "fail"}

Job == [pc : JobPcs, todo : SUBSET Rules, r : Rules \cup {"none"},
        nonces : [Rules -> Nat]]

\* The rows are well formed, and so are the executor's frames.
LifeType == /\ rules \in [Rules -> RuleRow]
            /\ slot \in Nat
            /\ job \in [Jobs -> Job]
            /\ \A f \in Jobs : job[f].pc \in {"lease", "dispatch", "complete", "fail"}
                                 => job[f].r \in Rules
            /\ sent \in [Rules -> Seq(Nat)]

Unleased == {"absent", "active", "condition_met"}

\* A rule that was never leased has its first nonce and was never sent.
FreshUntilLeased ==
  \A r \in Rules : /\ rules[r].status \in Unleased => rules[r].nonce = 0
                   /\ rules[r].nonce = 0 => sent[r] = <<>>

\* A frame between its lease and its write-back: the row carries its nonce and
\* is still executing unless it was revoked, no other frame has the rule, and
\* until it dispatches nobody has.
HolderIsAlone ==
  \A f \in Jobs, r \in Rules : JobHolds(f, r) =>
    /\ rules[r].nonce = Nonce(f) /\ rules[r].status \in {"executing", "revoked"}
    /\ job[f].pc = "dispatch" => sent[r] = <<>>
    /\ \A g \in Jobs : JobHolds(g, r) => g = f

LifeInv == LifeType /\ FreshUntilLeased /\ HolderIsAlone /\ DispatchedOnce

---------------------------------------------------------------------------
(* What the steps of each kind may do to a rule.                           *)

\* Writing the status column of a row leaves a row with the old nonce.
LEMMA StatusWrite ==
  ASSUME NEW x \in RuleRow, NEW s \in RuleStatus
  PROVE  LET y == [x EXCEPT !.status = s] IN
           y \in RuleRow /\ y.status = s /\ y.nonce = x.nonce
BY DEF RuleRow, RuleStatus

\* mark_completed writes a well-formed row with the old nonce.
LEMMA CompletionWrite ==
  ASSUME NEW x \in RuleRow
  PROVE  LET y == [x EXCEPT !.status = "completed", !.completed = TRUE] IN
           y \in RuleRow /\ y.status = "completed" /\ y.nonce = x.nonce
BY DEF RuleRow, RuleStatus

\* insert creates a well-formed active row under the first nonce.
LEMMA FreshRule ==
  ASSUME NEW h \in Nat, NEW e \in Nat
  PROVE  LET y == [AbsentRule EXCEPT !.status = "active", !.hash = h, !.expires = e] IN
           y \in RuleRow /\ y.status = "active" /\ y.nonce = 0
BY DEF RuleRow, RuleStatus, AbsentRule

\* The row of q moves to status s and keeps its nonce.
MovesTo(q, s) == rules'[q].status = s /\ rules'[q].nonce = rules[q].nonce

\* A watcher frame moves rules that are still before their execution, and
\* touches nothing an executor relies on.
WatcherEffect ==
  /\ rules' \in [Rules -> RuleRow]
  /\ \A q \in Rules : \/ rules'[q] = rules[q]
                      \/ /\ rules[q].status \in PreExecution
                         /\ \E s \in {"condition_met", "expired", "failed"} : MovesTo(q, s)
  /\ UNCHANGED <<slot, job, sent>>

\* Every watcher step, and force_tick_rule, has at most that effect.
LEMMA TickEffect ==
  ASSUME LifeType, NEW f \in Ticks, TickStep(f) \/ \E r \in Rules : ForceTick(f, r)
  PROVE  WatcherEffect
<1>1. CASE UNCHANGED rules /\ UNCHANGED <<slot, job, sent>>
    BY <1>1 DEF WatcherEffect, LifeType
<1>2. ASSUME NEW s \in {"condition_met", "expired", "failed"}, NEW q,
             rules[q].status \in PreExecution,
             rules' = [rules EXCEPT ![q].status = s],
             UNCHANGED <<slot, job, sent>>
      PROVE  WatcherEffect
    <2>1. CASE q \in Rules
        <3> DEFINE y == [rules[q] EXCEPT !.status = s]
        <3>1. y \in RuleRow /\ y.status = s /\ y.nonce = rules[q].nonce
            <4>1. rules[q] \in RuleRow /\ s \in RuleStatus
                BY <2>1 DEF LifeType, RuleStatus
            <4> QED BY <4>1, StatusWrite
        <3>2. rules' = [rules EXCEPT ![q] = y]
            BY <1>2
        <3> HIDE DEF y
        <3> QED BY <1>2, <2>1, <3>1, <3>2 DEF LifeType, WatcherEffect, MovesTo
    <2>2. CASE q \notin Rules
        BY <1>2, <2>2 DEF LifeType, WatcherEffect
    <2> QED BY <2>1, <2>2
<1>3. CASE TickExpire(f) \/ TickMet(f) \/ TickFail(f)
    BY <1>1, <1>2, <1>3 DEF TickExpire, TickMet, TickFail, Attempt, MarkExpiredIfNotTerminal,
                MarkConditionMetIfActive, MarkFailedIfNotTerminal, PreExecution
<1> QED BY <1>1, <1>3
        DEF TickStep, TickStart, TickTake, TickEvaluate, ForceTick

\* A watcher step keeps the invariant: a holder's rule is out of its reach.
LEMMA WatcherKeepsInv ==
  ASSUME LifeInv, WatcherEffect
  PROVE  LifeInv'
<1>1. \A q \in Rules : /\ rules'[q].nonce = rules[q].nonce
                       /\ rules'[q].status \in Unleased => rules[q].status \in Unleased
                       /\ rules[q].status \notin Unleased => rules'[q] = rules[q]
    BY DEF WatcherEffect, MovesTo, PreExecution, Unleased
<1>2. LifeType'
    BY DEF LifeInv, LifeType, WatcherEffect
<1>3. \A g \in Jobs, r \in Rules : JobHolds(g, r)' = JobHolds(g, r) /\ Nonce(g)' = Nonce(g)
    BY DEF WatcherEffect, JobHolds, Nonce
<1>4. HolderIsAlone'
    BY <1>1, <1>3 DEF LifeInv, HolderIsAlone, WatcherEffect, Unleased
<1>5. FreshUntilLeased' /\ DispatchedOnce'
    BY <1>1 DEF LifeInv, FreshUntilLeased, DispatchedOnce, WatcherEffect
<1> QED BY <1>2, <1>4, <1>5 DEF LifeInv

\* A frame that neither leases, dispatches nor writes leaves every holder in
\* place: frame f ends up without a rule, or about to lease.
FrameMoves(f) ==
  /\ job' \in [Jobs -> Job]
  /\ job'[f].pc \in {"idle", "loop", "lease"}
  /\ job'[f].pc = "lease" => job'[f].r \in Rules
  /\ \A g \in Jobs \ {f} : job'[g] = job[g]

\* A frame that drops its guard holds nothing afterwards.
LEMMA JobDoneMoves ==
  ASSUME LifeType, NEW f \in Jobs, JobDone(f)
  PROVE  FrameMoves(f)
<1>1. IdleJob \in Job /\ IdleJob.pc = "idle"
    BY DEF IdleJob, Job, JobPcs
<1> QED BY <1>1 DEF LifeType, JobDone, JobNext, FrameMoves, Job, JobPcs

\* Loading a batch and taking a rule from it hold nothing yet.
LEMMA JobStartMoves ==
  ASSUME LifeType, NEW f \in Jobs, JobStart(f) \/ JobTake(f)
  PROVE  FrameMoves(f)
<1>1. IdleJob \in Job /\ IdleJob.pc = "idle"
    BY DEF IdleJob, Job, JobPcs
<1>2. ASSUME NEW B \in SUBSET Rules, JobLoad(f, B)
      PROVE  FrameMoves(f)
    <2>1. WithStatus(B, "condition_met") \subseteq Rules /\ [r \in Rules |-> rules[r].nonce] \in [Rules -> Nat]
        BY DEF WithStatus, LifeType, RuleRow
    <2> DEFINE j == [IdleJob EXCEPT !.pc = "loop", !.todo = WithStatus(B, "condition_met"),
                                    !.nonces = [r \in Rules |-> rules[r].nonce]]
    <2>2. j \in Job /\ j.pc = "loop"
        BY <1>1, <2>1 DEF Job, JobPcs
    <2>3. job' = [job EXCEPT ![f] = j]
        BY <1>2 DEF JobLoad
    <2> QED BY <2>2, <2>3 DEF LifeType, FrameMoves
<1>3. CASE JobStart(f)
    BY <1>2, <1>3 DEF JobStart
<1>4. CASE JobTake(f)
    <2> PICK q \in job[f].todo :
          \/ job' = [job EXCEPT ![f] = IdleJob]
          \/ job' = [job EXCEPT ![f] = [[job[f] EXCEPT !.todo = @ \ {q}, !.r = q] EXCEPT !.r = "none"]]
          \/ job' = [job EXCEPT ![f] = [[job[f] EXCEPT !.todo = @ \ {q}, !.r = q] EXCEPT !.pc = "lease"]]
        BY <1>4 DEF JobTake
    <2> DEFINE j == [job[f] EXCEPT !.todo = @ \ {q}, !.r = q]
    <2>0. job[f] \in Job /\ job[f].pc = "loop" /\ q \in Rules /\ job[f].todo \ {q} \in SUBSET Rules
        BY <1>4 DEF JobTake, LifeType, Job
    <2>1. j \in Job /\ j.r = q /\ q \in Rules /\ j.pc = "loop"
        BY <2>0 DEF Job
    <2>2. /\ [j EXCEPT !.r = "none"] \in Job /\ [j EXCEPT !.r = "none"].pc = "loop"
          /\ [j EXCEPT !.pc = "lease"] \in Job /\ [j EXCEPT !.pc = "lease"].pc = "lease"
          /\ [j EXCEPT !.pc = "lease"].r = q
        BY <2>1 DEF Job, JobPcs
    <2> QED BY <1>1, <2>1, <2>2 DEF LifeType, FrameMoves
<1> QED BY <1>3, <1>4

\* The invariant depends on a frame only through the rule it holds.
LEMMA MovesKeepInv ==
  ASSUME LifeInv, NEW f \in Jobs, FrameMoves(f), UNCHANGED <<rules, slot, sent>>
  PROVE  LifeInv'
<1> USE DEF LifeInv, FrameMoves
<1>1. LifeType'
    BY DEF LifeType
<1>2. \A g \in Jobs, r \in Rules : JobHolds(g, r)' => g # f /\ JobHolds(g, r) /\ Nonce(g)' = Nonce(g)
    BY DEF JobHolds, Nonce
<1>3. HolderIsAlone'
    BY <1>2 DEF HolderIsAlone, JobHolds
<1> QED BY <1>1, <1>3 DEF FreshUntilLeased, DispatchedOnce

\* The lease: the row was in condition_met, so nobody held the rule, and
\* from now on this frame does, under the nonce it wrote.
LEMMA LeaseKeepsInv ==
  ASSUME LifeInv, NEW f \in Jobs, JobLease(f)
  PROVE  LifeInv'
<1> DEFINE q == job[f].r
<1>1. q \in Rules /\ job[f].pc = "lease" /\ UNCHANGED <<slot, sent>>
    BY DEF LifeInv, LifeType, JobLease
<1>2. CASE /\ MarkExecutingIfConditionMet(q, Nonce(f))
           /\ \E l \in {"dispatch", "fail"} : JobGoto(f, l)
    <2> PICK l \in {"dispatch", "fail"} : JobGoto(f, l)
        BY <1>2
    <2>1. Nonce(f) \in Nat \ {0}
        BY <1>1 DEF Nonce, LifeInv, LifeType, Job
    <2>2. /\ rules' \in [Rules -> RuleRow]
          /\ rules[q].status = "condition_met"
          /\ rules'[q].status = "executing" /\ rules'[q].nonce = Nonce(f)
          /\ \A r \in Rules \ {q} : rules'[r] = rules[r]
        BY <1>1, <1>2, <2>1 DEF MarkExecutingIfConditionMet, LifeInv, LifeType, RuleRow, RuleStatus
    <2>3. /\ job' \in [Jobs -> Job]
          /\ job'[f].pc = l /\ job'[f].r = q /\ job'[f].nonces = job[f].nonces
          /\ \A g \in Jobs \ {f} : job'[g] = job[g]
        BY DEF JobGoto, LifeInv, LifeType, Job, JobPcs
    <2>4. sent[q] = <<>> /\ \A g \in Jobs : ~JobHolds(g, q)
        BY <1>1, <2>2 DEF LifeInv, FreshUntilLeased, HolderIsAlone, Unleased
    <2>5. LifeType'
        BY <1>1, <2>2, <2>3 DEF LifeInv, LifeType
    <2>6. \A g \in Jobs, r \in Rules : JobHolds(g, r)' =>
            (g = f /\ r = q) \/ (g # f /\ r # q /\ JobHolds(g, r) /\ Nonce(g)' = Nonce(g))
        BY <2>3, <2>4 DEF JobHolds, Nonce
    <2>7. Nonce(f)' = Nonce(f)
        BY <2>3 DEF Nonce
    <2>8. HolderIsAlone'
        BY <1>1, <2>2, <2>3, <2>4, <2>6, <2>7 DEF LifeInv, HolderIsAlone, Unleased, JobHolds
    <2>9. FreshUntilLeased' /\ DispatchedOnce'
        BY <1>1, <2>1, <2>2, <2>4 DEF LifeInv, FreshUntilLeased, DispatchedOnce, Unleased
    <2> QED BY <2>5, <2>8, <2>9 DEF LifeInv
<1>3. CASE JobDone(f) /\ UNCHANGED rules
    BY <1>1, <1>3, JobDoneMoves, MovesKeepInv DEF LifeInv
<1> QED BY <1>2, <1>3 DEF JobLease

\* The dispatch: the holder was alone and nothing was sent before.
LEMMA DispatchKeepsInv ==
  ASSUME LifeInv, NEW f \in Jobs, JobDispatch(f)
  PROVE  LifeInv'
<1> DEFINE q == job[f].r
<1> PICK l \in {"complete", "fail"} : JobGoto(f, l)
    BY DEF JobDispatch
<1>1. /\ q \in Rules /\ JobHolds(f, q) /\ job[f].pc = "dispatch"
      /\ UNCHANGED <<rules, slot>>
    BY DEF JobDispatch, LifeInv, LifeType, JobHolds
<1>2. sent[q] = <<>> /\ rules[q].nonce = Nonce(f) /\ Nonce(f) \in Nat \ {0}
    BY <1>1 DEF LifeInv, HolderIsAlone, Nonce, LifeType, Job
<1>3. Append(<<>>, Nonce(f)) = <<Nonce(f)>>
    OBVIOUS
<1>4. /\ sent' \in [Rules -> Seq(Nat)] /\ sent'[q] = <<rules[q].nonce>>
      /\ \A r \in Rules \ {q} : sent'[r] = sent[r]
    <2>1. sent' = [sent EXCEPT ![q] = <<Nonce(f)>>]
        BY <1>2, <1>3 DEF JobDispatch
    <2>2. <<Nonce(f)>> \in Seq(Nat)
        BY <1>2
    <2> QED BY <1>1, <1>2, <2>1, <2>2 DEF LifeInv, LifeType
<1>5. /\ job' \in [Jobs -> Job]
      /\ job'[f].pc = l /\ job'[f].r = q /\ job'[f].nonces = job[f].nonces
      /\ \A g \in Jobs \ {f} : job'[g] = job[g]
    BY DEF JobGoto, LifeInv, LifeType, Job, JobPcs
<1>6. LifeType'
    BY <1>1, <1>4, <1>5 DEF LifeInv, LifeType
<1>7. \A g \in Jobs, r \in Rules :
        JobHolds(g, r)' => JobHolds(g, r) /\ Nonce(g)' = Nonce(g) /\ (r = q => g = f)
    BY <1>1, <1>5 DEF JobHolds, Nonce, LifeInv, HolderIsAlone
<1>8. HolderIsAlone'
    BY <1>1, <1>4, <1>5, <1>7 DEF LifeInv, HolderIsAlone
<1>9. FreshUntilLeased' /\ DispatchedOnce'
    BY <1>1, <1>2, <1>4 DEF LifeInv, FreshUntilLeased, DispatchedOnce
<1> QED BY <1>6, <1>8, <1>9 DEF LifeInv

\* The holder's write-back, after which nobody holds the rule, or a revocation:
\* the status of one rule changes and its nonce does not.
LEMMA SettleKeepsInv ==
  ASSUME LifeInv, NEW q \in Rules, UNCHANGED <<slot, sent>>,
         rules' \in [Rules -> RuleRow],
         rules'[q].nonce = rules[q].nonce, rules'[q].status \notin Unleased,
         \A r \in Rules \ {q} : rules'[r] = rules[r],
         \/ UNCHANGED job /\ rules'[q].status = "revoked"
         \/ \E f \in Jobs : FrameMoves(f) /\ JobHolds(f, q)
  PROVE  LifeInv'
<1>1. \A r \in Rules : /\ rules'[r].nonce = rules[r].nonce
                       /\ rules'[r].status \in Unleased => rules[r].status \in Unleased
                       /\ rules[r].status \notin Unleased => rules'[r].status \notin Unleased
    OBVIOUS
<1>2. LifeType'
    BY DEF LifeInv, LifeType, FrameMoves
<1>3. \A g \in Jobs, r \in Rules :
        JobHolds(g, r)' => JobHolds(g, r) /\ Nonce(g)' = Nonce(g) /\ job'[g] = job[g]
    BY DEF JobHolds, Nonce, FrameMoves
<1>4. \A g \in Jobs : JobHolds(g, q)' => rules'[q].status = "revoked"
    BY <1>3 DEF LifeInv, HolderIsAlone, FrameMoves, JobHolds
<1>5. HolderIsAlone'
    BY <1>1, <1>3, <1>4 DEF LifeInv, HolderIsAlone
<1>6. FreshUntilLeased' /\ DispatchedOnce'
    BY <1>1 DEF LifeInv, FreshUntilLeased, DispatchedOnce
<1> QED BY <1>2, <1>5, <1>6 DEF LifeInv

\* mark_completed and mark_failed come from the holder: they settle its rule
\* and give it up.
LEMMA WriteBackKeepsInv ==
  ASSUME LifeInv, NEW f \in Jobs, JobComplete(f) \/ JobFail(f)
  PROVE  LifeInv'
<1> DEFINE q == job[f].r
<1>1. /\ q \in Rules /\ FrameMoves(f) /\ JobHolds(f, q) /\ UNCHANGED <<slot, sent>>
    BY JobDoneMoves DEF JobComplete, JobFail, JobHolds, LifeInv, LifeType
<1>2. CASE UNCHANGED rules
    BY <1>1, <1>2, MovesKeepInv
<1>3. CASE MarkRuleCompleted(q) \/ MarkRuleFailed(q)
    <2> PICK y \in RuleRow : /\ rules' = [rules EXCEPT ![q] = y]
                             /\ y.status \in {"completed", "failed"} /\ y.nonce = rules[q].nonce
        <3>1. rules[q] \in RuleRow
            BY <1>1 DEF LifeInv, LifeType
        <3>2. CASE MarkRuleCompleted(q)
            BY <3>1, <3>2, CompletionWrite DEF MarkRuleCompleted
        <3>3. CASE MarkRuleFailed(q)
            <4>1. rules' = [rules EXCEPT ![q] = [rules[q] EXCEPT !.status = "failed"]]
                BY <3>3 DEF MarkRuleFailed
            <4> QED BY <3>1, <4>1, StatusWrite DEF RuleStatus
        <3> QED BY <1>3, <3>2, <3>3
    <2>1. /\ rules' \in [Rules -> RuleRow] /\ rules'[q] = y
          /\ \A r \in Rules \ {q} : rules'[r] = rules[r]
        BY <1>1 DEF LifeInv, LifeType
    <2> QED BY <1>1, <2>1, SettleKeepsInv DEF Unleased
<1> QED BY <1>2, <1>3 DEF JobComplete, JobFail, Attempt

---------------------------------------------------------------------------
(* The invariant.                                                          *)

\* Every initial state satisfies the invariant.
LEMMA LifeInitInv == LifeInit => LifeInv
<1> SUFFICES ASSUME LifeInit PROVE LifeInv
    OBVIOUS
<1>1. AbsentRule \in RuleRow /\ IdleJob \in Job
    BY DEF AbsentRule, RuleRow, IdleJob, Job, JobPcs
<1>2. LifeType
    BY <1>1 DEF LifeInit, RulesInit, LifeType, IdleJob
<1>3. FreshUntilLeased /\ HolderIsAlone /\ DispatchedOnce
    BY DEF LifeInit, RulesInit, AbsentRule, IdleJob, FreshUntilLeased, HolderIsAlone,
           DispatchedOnce, JobHolds
<1> QED BY <1>2, <1>3 DEF LifeInv

\* A created rule was absent, so no frame holds it.
LEMMA CreateKeepsInv ==
  ASSUME LifeInv, NEW q \in Rules, Create(q)
  PROVE  LifeInv'
<1>1. /\ rules' \in [Rules -> RuleRow] /\ rules[q].status = "absent"
      /\ rules'[q].nonce = 0 /\ rules'[q].status = "active"
      /\ \A r \in Rules \ {q} : rules'[r] = rules[r]
      /\ UNCHANGED <<slot, job, sent>>
    <2>1. slot \in Nat /\ slot + RuleLife \in Nat
        BY LifeAssumption DEF LifeInv, LifeType
    <2> DEFINE y == [AbsentRule EXCEPT !.status = "active", !.hash = slot, !.expires = slot + RuleLife]
    <2>2. y \in RuleRow /\ y.status = "active" /\ y.nonce = 0
        BY <2>1, FreshRule
    <2>3. rules' = [rules EXCEPT ![q] = y] /\ rules[q].status = "absent" /\ UNCHANGED <<slot, job, sent>>
        BY DEF Create, RuleInsert, RulePresent
    <2> QED BY <2>2, <2>3 DEF LifeInv, LifeType
<1>2. \A f \in Jobs : ~JobHolds(f, q)
    BY <1>1 DEF LifeInv, HolderIsAlone, Unleased
<1>3. rules[q].nonce = 0 /\ sent[q] = <<>>
    BY <1>1 DEF LifeInv, FreshUntilLeased, Unleased
<1>4. LifeType'
    BY <1>1 DEF LifeInv, LifeType
<1>5. HolderIsAlone'
    BY <1>1, <1>2 DEF LifeInv, HolderIsAlone, JobHolds, Nonce
<1>6. FreshUntilLeased' /\ DispatchedOnce'
    BY <1>1, <1>3 DEF LifeInv, FreshUntilLeased, DispatchedOnce
<1> QED BY <1>4, <1>5, <1>6 DEF LifeInv

\* A restart only takes frames away: what they held stays leased in the row.
LEMMA RestartKeepsInv ==
  ASSUME LifeInv, NEW p \in Processes, ProcessRestart(p)
  PROVE  LifeInv'
<1>1. IdleJob \in Job /\ IdleJob.pc = "idle"
    BY DEF IdleJob, Job, JobPcs
<1>2. /\ job' \in [Jobs -> Job] /\ UNCHANGED <<rules, slot, sent>>
      /\ \A f \in Jobs : job'[f] \in {job[f], IdleJob}
    BY <1>1 DEF ProcessRestart, LifeInv, LifeType
<1>3. LifeType'
    BY <1>1, <1>2 DEF LifeInv, LifeType
<1>4. \A g \in Jobs, r \in Rules :
        JobHolds(g, r)' => JobHolds(g, r) /\ Nonce(g)' = Nonce(g) /\ job'[g] = job[g]
    BY <1>1, <1>2 DEF JobHolds, Nonce
<1>5. HolderIsAlone'
    BY <1>2, <1>4 DEF LifeInv, HolderIsAlone
<1> QED BY <1>2, <1>3, <1>5 DEF LifeInv, FreshUntilLeased, DispatchedOnce

\* The invariant is inductive.
LEMMA LifeNextInv == LifeInv /\ [LifeNext]_lifeVars => LifeInv'
<1> SUFFICES ASSUME LifeInv, [LifeNext]_lifeVars PROVE LifeInv'
    OBVIOUS
<1>1. ASSUME NEW f \in Ticks, TickStep(f) \/ \E r \in Rules : ForceTick(f, r)
      PROVE  LifeInv'
    BY <1>1, TickEffect, WatcherKeepsInv DEF LifeInv
<1>2. ASSUME NEW f \in Jobs, JobStep(f)
      PROVE  LifeInv'
    <2>1. CASE JobStart(f) \/ JobTake(f)
        BY <2>1, JobStartMoves, MovesKeepInv DEF JobStart, JobTake, LifeInv
    <2> QED BY <1>2, <2>1, LeaseKeepsInv, DispatchKeepsInv, WriteBackKeepsInv DEF JobStep
<1>3. ASSUME NEW q \in Rules, Revoke(q)
      PROVE  LifeInv'
    <2>1. /\ rules' \in [Rules -> RuleRow]
          /\ rules'[q].nonce = rules[q].nonce /\ rules'[q].status = "revoked"
          /\ \A r \in Rules \ {q} : rules'[r] = rules[r]
          /\ UNCHANGED <<slot, job, sent>>
        BY <1>3 DEF Revoke, MarkRevoked, LifeInv, LifeType, RuleRow, RuleStatus
    <2> QED BY <2>1, SettleKeepsInv DEF Unleased
<1>4. CASE SlotStep
    BY <1>4 DEF SlotStep, LifeInv, LifeType, FreshUntilLeased, HolderIsAlone, DispatchedOnce,
                JobHolds, Nonce
<1>5. CASE UNCHANGED lifeVars
    BY <1>5 DEF lifeVars, LifeInv, LifeType, FreshUntilLeased, HolderIsAlone, DispatchedOnce,
                JobHolds, Nonce
<1> QED BY <1>1, <1>2, <1>3, <1>4, <1>5, CreateKeepsInv, RestartKeepsInv DEF LifeNext

\* One-shot execution: however many executors in however many processes load
\* a rule, it is handed to the execution client at most once, under the nonce
\* its row carries.
THEOREM LifecycleDispatchesOnce == LifeSpec => []DispatchedOnce
<1>1. LifeInv => DispatchedOnce
    BY DEF LifeInv
<1> QED BY <1>1, LifeInitInv, LifeNextInv, PTL DEF LifeSpec

---------------------------------------------------------------------------
(* What a step may never do.                                               *)

\* The two action properties, as step formulas.
OverwritesAsHolder ==
  \A r \in Rules :
    rules[r].status \in RuleTerminal /\ rules'[r].status \notin {rules[r].status, "revoked"}
      => rules[r].status = "revoked" /\ \E f \in Jobs : WritesBack(f, r)

KeepsRevocation ==
  \A r \in Rules : rules[r].status = "revoked" /\ rules[r].nonce = 0 =>
    rules'[r].status = "revoked" /\ sent'[r] = sent[r]

\* Every step from a state of the invariant keeps both.
LEMMA LifeStepAllowed ==
  LifeInv /\ [LifeNext]_lifeVars => OverwritesAsHolder /\ KeepsRevocation
<1> SUFFICES ASSUME LifeInv, [LifeNext]_lifeVars PROVE OverwritesAsHolder /\ KeepsRevocation
    OBVIOUS
<1> USE DEF OverwritesAsHolder, KeepsRevocation
<1>1. CASE UNCHANGED <<rules, sent>>
    BY <1>1
<1>2. ASSUME NEW f \in Ticks, TickStep(f) \/ \E r \in Rules : ForceTick(f, r)
      PROVE  OverwritesAsHolder /\ KeepsRevocation
    BY <1>2, TickEffect DEF LifeInv, LifeType, RuleRow, WatcherEffect, PreExecution, RuleTerminal
<1>3. ASSUME NEW f \in Jobs, JobStep(f)
      PROVE  OverwritesAsHolder /\ KeepsRevocation
    <2>1. CASE JobLease(f)
        BY <2>1 DEF JobLease, MarkExecutingIfConditionMet, LifeInv, LifeType, RuleRow, RuleTerminal
    <2>2. CASE JobDispatch(f) \/ JobComplete(f) \/ JobFail(f)
        <3> DEFINE q == job[f].r
        <3>1. q \in Rules /\ JobHolds(f, q)
            BY <2>2 DEF JobDispatch, JobComplete, JobFail, JobHolds, LifeInv, LifeType
        <3>2. /\ rules[q].nonce # 0 /\ rules[q].nonce = Nonce(f)
              /\ rules[q].status \in {"executing", "revoked"}
            BY <3>1 DEF LifeInv, HolderIsAlone, Nonce, LifeType, Job
        <3>3. \A r \in Rules \ {q} : rules'[r] = rules[r] /\ sent'[r] = sent[r]
            BY <2>2 DEF JobDispatch, JobComplete, JobFail, Attempt, MarkRuleCompleted,
                        MarkRuleFailed, LifeInv, LifeType
        <3>4. rules'[q].status # rules[q].status => WritesBack(f, q)
            <4>1. CASE JobDispatch(f)
                BY <4>1 DEF JobDispatch
            <4>2. CASE JobComplete(f) \/ JobFail(f)
                <5>1. ~JobHolds(f, q)'
                    BY <4>2, JobDoneMoves DEF JobComplete, JobFail, FrameMoves, JobHolds, LifeInv
                <5>2. rules'[q].status # rules[q].status =>
                        rules'[q].status = IF job[f].pc = "complete" THEN "completed" ELSE "failed"
                    BY <3>1, <4>2 DEF JobComplete, JobFail, Attempt, MarkRuleCompleted,
                        MarkRuleFailed, LifeInv, LifeType, RuleRow
                <5> QED BY <3>1, <3>2, <5>1, <5>2 DEF WritesBack, JobHolds
            <4> QED BY <2>2, <4>1, <4>2
        <3>5. OverwritesAsHolder
            BY <3>2, <3>3, <3>4 DEF RuleTerminal
        <3> QED BY <3>1, <3>2, <3>3, <3>5
    <2> QED BY <1>1, <1>3, <2>1, <2>2 DEF JobStep, JobStart, JobTake
<1>4. ASSUME NEW q \in Rules, Create(q) \/ Revoke(q)
      PROVE  OverwritesAsHolder /\ KeepsRevocation
    <2>1. /\ \A r \in Rules \ {q} : rules'[r] = rules[r]
          /\ sent' = sent
        BY <1>4 DEF Create, Revoke, RuleInsert, MarkRevoked, LifeInv, LifeType
    <2>2. \/ rules[q].status \notin RuleTerminal
          \/ rules'[q].status \in {rules[q].status, "revoked"}
        <3>1. CASE Create(q)
            BY <3>1 DEF Create, RuleInsert, RulePresent, LifeInv, LifeType, RuleRow, RuleTerminal
        <3>2. CASE Revoke(q)
            BY <3>2 DEF Revoke, MarkRevoked, LifeInv, LifeType, RuleRow
        <3> QED BY <1>4, <3>1, <3>2
    <2> QED BY <2>1, <2>2 DEF RuleTerminal
<1> QED BY <1>1, <1>2, <1>3, <1>4 DEF LifeNext, ProcessRestart, SlotStep, lifeVars

\* A terminal status is replaced only by a revocation, and a revocation only by
\* the write-back of the frame that leased the rule before it.
THEOREM LifecycleHolderOverwrites == LifeSpec => OnlyHolderOverwrites
<1>1. OverwritesAsHolder =>
        \A r \in Rules :
          /\ rules[r].status \in RuleTerminal
          /\ rules'[r].status \notin {rules[r].status, "revoked"}
          => rules[r].status = "revoked" /\ \E f \in Jobs : WritesBack(f, r)
    BY DEF OverwritesAsHolder
<1> QED BY <1>1, LifeInitInv, LifeNextInv, LifeStepAllowed, PTL DEF LifeSpec, OnlyHolderOverwrites

\* A revocation that comes before the lease is final: no frame leases or
\* dispatches the rule afterwards.
THEOREM LifecycleRevocationIsFinal == LifeSpec => RevokedBeforeLeaseIsFinal
<1>1. KeepsRevocation =>
        \A r \in Rules :
          rules[r].status = "revoked" /\ rules[r].nonce = 0 =>
            rules'[r].status = "revoked" /\ sent'[r] = sent[r]
    BY DEF KeepsRevocation
<1> QED BY <1>1, LifeInitInv, LifeNextInv, LifeStepAllowed, PTL
        DEF LifeSpec, RevokedBeforeLeaseIsFinal

===========================================================================
