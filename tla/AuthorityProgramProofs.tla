---------------------- MODULE AuthorityProgramProofs ----------------------
(***************************************************************************)
(* Theorems about the authority program: for any users, rules, grants and  *)
(* calls, and any order of create, revoke, close and execute at an address *)
(* that is used again and again.                                           *)
(*                                                                         *)
(* The argument numbers the authorizations: the record at an address is    *)
(* that of the last one created there, so what it says of being completed  *)
(* or revoked is said of that one.  What the pure checks promise is taken  *)
(* from AuthorityChecksProofs, and the watcher's evaluator is compared     *)
(* with the program's gate condition by condition.                         *)
(***************************************************************************)
EXTENDS ConditionEvaluator, AuthorityChecksProofs

Of(field) == {g[field] : g \in Grants}

AuthorizationRecord ==
  [executor : Of("executor"), delegated : Wallets, hash : Of("hash"),
   action : Of("action"), max : Nat, used : Nat, destination : Destinations, expires : Nat,
   revoked : BOOLEAN, completed : BOOLEAN, nonce : Nat, last_slot : Nat]

\* Collateral at Solend, and the part of it a withdraw takes.
Stake == 0 .. Collateral

AuthType ==
  /\ authz \in [Address -> AuthorizationRecord \cup {Absent}]
  /\ clock \in [slot : Nat, unix : Nat]
  /\ balance \in [Destinations -> Nat]
  /\ position \in [Wallets -> [collateral : Stake, ctoken : Stake]]
  /\ created \in 0 .. MaxGrants
  /\ granted \in [Address -> 0 .. created]
  /\ takenBack \subseteq 1 .. created
  /\ runs \in [1 .. MaxGrants -> Nat]

\* Each authorization was created once, at one address; what is not created
\* has not run.
GrantsAreNumbered ==
  /\ \A p, q \in Address : granted[p] # 0 /\ granted[p] = granted[q] => p = q
  /\ \A g \in 1 .. MaxGrants : g > created => runs[g] = 0
  /\ \A p \in Address : authz[p] # Absent => granted[p] # 0

\* The flags of a record are those of the authorization last created there.
RecordSpeaksOfGrant ==
  \A p \in Address : authz[p] # Absent =>
    /\ ~authz[p].completed => runs[granted[p]] = 0
    /\ ~authz[p].revoked => granted[p] \notin takenBack

AuthInv == AuthType /\ GrantsAreNumbered /\ RecordSpeaksOfGrant /\ GrantRunsOnce

---------------------------------------------------------------------------
(* The instructions.                                                       *)

\* The program starts without records.
LEMMA AuthInit == AInit => AuthInv
<1> SUFFICES ASSUME AInit PROVE AuthInv
  OBVIOUS
<1>1. PICK n \in 1 .. Collateral :
        position = [w \in Wallets |-> [collateral |-> Collateral, ctoken |-> n]]
  BY DEF AInit
<1>2. AuthType
  BY <1>1, AuthorityAssumption DEF AInit, AuthType, Stake
<1>3. GrantsAreNumbered /\ RecordSpeaksOfGrant
  BY DEF AInit, GrantsAreNumbered, RecordSpeaksOfGrant
<1>4. GrantRunsOnce
  BY DEF AInit, GrantRunsOnce
<1> QED BY <1>2, <1>3, <1>4 DEF AuthInv

\* A created record is fresh, and so is its number.
LEMMA CreateKeepsInv ==
  ASSUME AuthInv, NEW p \in Address, NEW g \in Grants, process_create_authorization(p, g)
  PROVE  AuthInv'
<1> DEFINE y == [executor |-> g.executor, delegated |-> g.delegated, hash |-> g.hash,
                 action |-> g.action, max |-> g.max, used |-> 0,
                 destination |-> g.destination, expires |-> g.expires,
                 revoked |-> FALSE, completed |-> FALSE, nonce |-> 0, last_slot |-> 0]
<1>1. y \in AuthorizationRecord
  BY ArgumentsAssumption DEF AuthorizationRecord, Of
<1>2. authz' = [authz EXCEPT ![p] = y] /\ created < MaxGrants
  BY DEF process_create_authorization
<1> HIDE DEF y
<1>3. /\ created' = created + 1
      /\ granted' = [granted EXCEPT ![p] = created + 1]
      /\ UNCHANGED <<clock, balance, position, takenBack, runs>>
  BY DEF process_create_authorization
<1>4. AuthType'
  BY <1>1, <1>2, <1>3, AuthorityAssumption DEF AuthInv, AuthType
<1>5. GrantsAreNumbered'
  BY <1>2, <1>3 DEF AuthInv, AuthType, GrantsAreNumbered
<1>6. RecordSpeaksOfGrant'
  BY <1>2, <1>3, AuthorityAssumption DEF AuthInv, AuthType, GrantsAreNumbered, RecordSpeaksOfGrant
<1>7. GrantRunsOnce'
  BY <1>3 DEF AuthInv, GrantRunsOnce
<1> QED BY <1>4, <1>5, <1>6, <1>7 DEF AuthInv

\* A revocation marks the record and the authorization together.
LEMMA RevokeKeepsInv ==
  ASSUME AuthInv, NEW u \in Signers, NEW p \in Address, process_revoke(u, p)
  PROVE  AuthInv'
<1> DEFINE y == [authz[p] EXCEPT !.revoked = TRUE]
<1>0. authz[p] \in AuthorizationRecord
  BY DEF process_revoke, AuthInv, AuthType
<1>1. y \in AuthorizationRecord /\ y.revoked /\ y.completed = authz[p].completed
  BY <1>0 DEF AuthorizationRecord
<1>2. authz' = [authz EXCEPT ![p] = y] /\ authz[p] # Absent
  BY DEF process_revoke
<1> HIDE DEF y
<1>3. /\ takenBack' = takenBack \cup {granted[p]}
      /\ UNCHANGED <<clock, balance, position, created, granted, runs>>
  BY DEF process_revoke
<1>4. AuthType'
  <2>1. granted[p] \in 1 .. created
    BY <1>2 DEF AuthInv, AuthType, GrantsAreNumbered
  <2> QED BY <1>1, <1>2, <1>3, <2>1 DEF AuthInv, AuthType
<1>5. GrantsAreNumbered'
  BY <1>2, <1>3 DEF AuthInv, AuthType, GrantsAreNumbered
<1>6. RecordSpeaksOfGrant'
  BY <1>1, <1>2, <1>3 DEF AuthInv, AuthType, GrantsAreNumbered, RecordSpeaksOfGrant
<1>7. GrantRunsOnce'
  BY <1>3 DEF AuthInv, GrantRunsOnce
<1> QED BY <1>4, <1>5, <1>6, <1>7 DEF AuthInv

\* Closing frees the address; the number stays used.
LEMMA CloseKeepsInv ==
  ASSUME AuthInv, NEW u \in Signers, NEW p \in Address, process_close_authorization(u, p)
  PROVE  AuthInv'
<1>1. /\ authz' = [authz EXCEPT ![p] = Absent]
      /\ UNCHANGED <<clock, balance, position, created, granted, takenBack, runs>>
  BY DEF process_close_authorization, history
<1> QED BY <1>1 DEF AuthInv, AuthType, GrantsAreNumbered, RecordSpeaksOfGrant, GrantRunsOnce

\* The record an execution leaves.
LEMMA ExecutedRecordIs ==
  ASSUME NEW r \in AuthorizationRecord, NEW c \in Calls, AuthType
  PROVE  LET y == ExecutedRecord(c, r)
         IN y \in AuthorizationRecord /\ y.completed /\ y.used = r.used + c.amount
<1>1. c.amount \in Nat /\ c.nonce \in Nat /\ clock.slot \in Nat /\ r.used \in Nat
  BY ArgumentsAssumption DEF AuthType, AuthorizationRecord
<1> DEFINE a == [r EXCEPT !.used = r.used + c.amount]
           b == [a EXCEPT !.completed = TRUE]
           d == [b EXCEPT !.nonce = c.nonce]
           y == [d EXCEPT !.last_slot = clock.slot]
<1>2. a \in AuthorizationRecord /\ a.used = r.used + c.amount
  BY <1>1 DEF AuthorizationRecord
<1>3. b \in AuthorizationRecord /\ b.used = a.used /\ b.completed
  <2> HIDE DEF a
  <2> QED BY <1>2 DEF AuthorizationRecord
<1>4. d \in AuthorizationRecord /\ d.used = b.used /\ d.completed = b.completed
  <2> HIDE DEF b
  <2> QED BY <1>1, <1>3 DEF AuthorizationRecord
<1>5. y \in AuthorizationRecord /\ y.used = d.used /\ y.completed = d.completed
  <2> HIDE DEF d
  <2> QED BY <1>1, <1>4 DEF AuthorizationRecord
<1>6. ExecutedRecord(c, r) = y
  BY DEF ExecutedRecord, AuthorizationRecord
<1> HIDE DEF y
<1> QED BY <1>2, <1>3, <1>4, <1>5, <1>6

\* What a successful execution is of: the record that stands at the address,
\* and the effect it has on it.
LEMMA ExecutionOf ==
  ASSUME AuthInv, NEW c \in Calls, process_execute_action(c)
  PROVE  LET p == c.account
             r == authz[p]
             y == authz'[p]
         IN /\ p \in Address /\ r \in AuthorizationRecord /\ r # Absent
            /\ ~r.completed /\ ~r.revoked /\ clock.slot < r.expires
            /\ y \in AuthorizationRecord /\ y.completed
            /\ y.used \in 1 .. r.max
            /\ authz' = [authz EXCEPT ![p] = y]
            /\ runs' = [runs EXCEPT ![granted[p]] = @ + 1]
            /\ UNCHANGED <<clock, created, granted, takenBack>>
<1> DEFINE p == c.account
           r == authz[p]
           y == ExecutedRecord(c, r)
<1>1. p \in Address /\ r # Absent /\ r \in AuthorizationRecord
  BY ArgumentsAssumption DEF process_execute_action, Admitted, AuthInv, AuthType, Address
<1>2. /\ ~r.completed /\ ~r.revoked /\ clock.slot < r.expires
      /\ c.amount # 0 /\ r.used + c.amount <= r.max
      /\ SolendCalls(c, r)
      /\ authz' = [authz EXCEPT ![p] = y]
      /\ runs' = [runs EXCEPT ![granted[p]] = @ + 1]
      /\ UNCHANGED <<clock, created, granted, takenBack>>
  BY DEF process_execute_action, Admitted, RecordLive, WithinCap
<1>3. c.amount \in Nat /\ c.nonce \in Nat /\ clock.slot \in Nat
  BY ArgumentsAssumption DEF AuthInv, AuthType
<1>4. y \in AuthorizationRecord /\ y.completed /\ y.used = r.used + c.amount
  BY <1>1, ExecutedRecordIs DEF AuthInv
<1>5. y.used \in 1 .. r.max
  BY <1>1, <1>2, <1>3, <1>4 DEF AuthorizationRecord
<1> HIDE DEF y
<1>6. authz'[p] = y
  BY <1>1, <1>2 DEF AuthInv, AuthType
<1> QED BY <1>1, <1>2, <1>4, <1>5, <1>6

\* What the calls to Solend move: nothing, or collateral of the wallet the
\* record names into its destination.
LEMMA SolendMoves ==
  ASSUME AuthInv, NEW c \in Calls, NEW r \in AuthorizationRecord, SolendCalls(c, r)
  PROVE  \/ UNCHANGED <<position, balance>>
         \/ \E n \in Stake : \E paid \in Redeems(n) :
              /\ n <= position[r.delegated].collateral
              /\ position' = [position EXCEPT ![r.delegated] =
                                [position[r.delegated] EXCEPT !.collateral = @ - n]]
              /\ balance' = [balance EXCEPT ![r.destination] = @ + paid]
<1> DEFINE n == position[r.delegated].ctoken
<1>1. n \in Stake
  BY DEF AuthInv, AuthType, AuthorizationRecord
<1>2. CASE try_solend_cpi_skeleton(c, r)
  <2>1. /\ c.cpi.wallet = r.delegated /\ c.cpi.obligation_owner = r.delegated
        /\ c.cpi.destination = r.destination
    BY <1>2 DEF try_solend_cpi_skeleton, require_external_delegated_wallet_signer,
                validate_solend_withdraw_shadow_mapping
  <2>2. /\ n <= position[r.delegated].collateral
        /\ position' = [position EXCEPT ![r.delegated] =
                          [position[r.delegated] EXCEPT !.collateral = @ - n]]
        /\ \E paid \in Redeems(n) : balance' = [balance EXCEPT ![r.destination] = @ + paid]
    BY <1>2, <2>1 DEF try_solend_cpi_skeleton
  <2> QED BY <1>1, <2>2
<1> QED BY <1>2 DEF SolendCalls

\* The step keeps balances and positions numbers.
LEMMA SolendTypes ==
  ASSUME AuthInv, NEW c \in Calls, NEW r \in AuthorizationRecord, SolendCalls(c, r)
  PROVE  /\ balance' \in [Destinations -> Nat]
         /\ position' \in [Wallets -> [collateral : Stake, ctoken : Stake]]
<1>1. CASE UNCHANGED <<position, balance>>
  BY <1>1 DEF AuthInv, AuthType
<1>2. ASSUME NEW n \in Stake, NEW paid \in Redeems(n),
             n <= position[r.delegated].collateral,
             position' = [position EXCEPT ![r.delegated] =
                            [position[r.delegated] EXCEPT !.collateral = @ - n]],
             balance' = [balance EXCEPT ![r.destination] = @ + paid]
      PROVE  /\ balance' \in [Destinations -> Nat]
             /\ position' \in [Wallets -> [collateral : Stake, ctoken : Stake]]
  <2> DEFINE pos == position[r.delegated]
             y == [pos EXCEPT !.collateral = @ - n]
  <2>1. /\ balance \in [Destinations -> Nat] /\ r.destination \in Destinations
        /\ position \in [Wallets -> [collateral : Stake, ctoken : Stake]]
        /\ r.delegated \in Wallets
    BY DEF AuthInv, AuthType, AuthorizationRecord
  <2>2. pos \in [collateral : Stake, ctoken : Stake] /\ n <= pos.collateral
    BY <1>2, <2>1
  <2>3. y \in [collateral : Stake, ctoken : Stake]
    <3> HIDE DEF pos
    <3>1. pos.collateral - n \in Stake
      BY <2>2, AuthorityAssumption DEF Stake
    <3> QED BY <2>2, <3>1
  <2>4. position' = [position EXCEPT ![r.delegated] = y]
    BY <1>2
  <2>5. paid \in Nat
    BY AuthorityAssumption DEF Stake
  <2> HIDE DEF y
  <2> QED BY <1>2, <2>1, <2>3, <2>4, <2>5
<1> QED BY <1>1, <1>2, SolendMoves

\* An execution is the first of its authorization.
LEMMA ExecuteKeepsInv ==
  ASSUME AuthInv, NEW c \in Calls, process_execute_action(c)
  PROVE  AuthInv'
<1> DEFINE p == c.account
<1>1. PICK y \in AuthorizationRecord :
        /\ p \in Address /\ authz[p] \in AuthorizationRecord /\ authz[p] # Absent
        /\ ~authz[p].completed /\ ~authz[p].revoked
        /\ y.completed
        /\ authz' = [authz EXCEPT ![p] = y]
        /\ runs' = [runs EXCEPT ![granted[p]] = @ + 1]
        /\ UNCHANGED <<clock, created, granted, takenBack>>
  BY ExecutionOf
<1>2. SolendCalls(c, authz[p])
  BY DEF process_execute_action
<1>3. AuthType'
  <2>1. /\ balance' \in [Destinations -> Nat]
        /\ position' \in [Wallets -> [collateral : Stake, ctoken : Stake]]
    BY <1>1, <1>2, SolendTypes
  <2>2. granted[p] \in 1 .. MaxGrants
    BY <1>1, AuthorityAssumption DEF AuthInv, AuthType, GrantsAreNumbered
  <2>3. runs' \in [1 .. MaxGrants -> Nat]
    BY <1>1, <2>2 DEF AuthInv, AuthType
  <2> QED BY <1>1, <2>1, <2>3 DEF AuthInv, AuthType
<1>4. granted[p] \in 1 .. created /\ created \in 0 .. MaxGrants /\ runs[granted[p]] = 0
  BY <1>1 DEF AuthInv, AuthType, GrantsAreNumbered, RecordSpeaksOfGrant
<1>5. GrantsAreNumbered'
  BY <1>1, <1>4 DEF AuthInv, AuthType, GrantsAreNumbered
<1>6. RecordSpeaksOfGrant'
  BY <1>1, <1>4 DEF AuthInv, AuthType, GrantsAreNumbered, RecordSpeaksOfGrant
<1>7. GrantRunsOnce'
  BY <1>1, <1>4 DEF AuthInv, AuthType, GrantRunsOnce
<1> QED BY <1>3, <1>5, <1>6, <1>7 DEF AuthInv

\* The bracket, tokens and the clock leave records and authorizations alone.
LEMMA SurroundingsKeepInv ==
  ASSUME AuthInv,
         \/ \E e \in {g.executor : g \in Grants}, k \in Brackets :
              \/ \E m \in MinOutputs : process_pre_jupiter_bracket_check(e, k[1], k[2], k[3], m)
              \/ process_post_jupiter_bracket_check(e, k[1], k[2], k[3])
         \/ \E d \in Destinations, to \in 0 .. MaxBalance : TokensMove(d, to)
         \/ \E seconds \in ClockSteps : Tick(seconds)
         \/ UNCHANGED avars
  PROVE  AuthInv' /\ UNCHANGED <<authz, position, runs>>
<1>1. UNCHANGED <<authz, position, created, granted, takenBack, runs>>
  BY DEF process_pre_jupiter_bracket_check, process_post_jupiter_bracket_check, TokensMove,
         Tick, avars, history
<1>2. \/ UNCHANGED <<balance, clock>>
      \/ /\ \E d \in Destinations, to \in 0 .. MaxBalance : balance' = [balance EXCEPT ![d] = to]
         /\ clock' = clock
      \/ /\ \E seconds \in ClockSteps :
              clock' = [slot |-> clock.slot + 1, unix |-> clock.unix + seconds]
         /\ balance' = balance
  BY DEF process_pre_jupiter_bracket_check, process_post_jupiter_bracket_check, TokensMove,
         Tick, avars
<1>3. balance' \in [Destinations -> Nat] /\ clock' \in [slot : Nat, unix : Nat]
  BY <1>2, AuthorityAssumption DEF AuthInv, AuthType
<1> QED BY <1>1, <1>3 DEF AuthInv, AuthType, GrantsAreNumbered, RecordSpeaksOfGrant,
           GrantRunsOnce

\* Only an execution runs an authorization or moves collateral.
LEMMA OtherStepsKeepInv ==
  ASSUME AuthInv, OtherStep \/ UNCHANGED avars
  PROVE  AuthInv' /\ UNCHANGED <<runs, position>>
<1>1. ASSUME NEW p \in Address, NEW g \in Grants, process_create_authorization(p, g)
      PROVE  AuthInv' /\ UNCHANGED <<runs, position>>
  BY <1>1, CreateKeepsInv DEF process_create_authorization
<1>2. ASSUME NEW u \in Signers, NEW p \in Address, process_revoke(u, p)
      PROVE  AuthInv' /\ UNCHANGED <<runs, position>>
  BY <1>2, RevokeKeepsInv DEF process_revoke
<1>3. ASSUME NEW u \in Signers, NEW p \in Address, process_close_authorization(u, p)
      PROVE  AuthInv' /\ UNCHANGED <<runs, position>>
  BY <1>3, CloseKeepsInv DEF process_close_authorization, history
<1> QED BY <1>1, <1>2, <1>3, SurroundingsKeepInv DEF OtherStep

\* The invariant is inductive.
LEMMA AuthNext == AuthInv /\ [ANext]_avars => AuthInv'
  BY OtherStepsKeepInv, ExecuteKeepsInv DEF ANext

\* The invariant holds throughout.
LEMMA AuthInvAlways == ASpec => []AuthInv
  BY AuthInit, AuthNext, PTL DEF ASpec

---------------------------------------------------------------------------
(* The theorems.                                                           *)

\* However often a rule is executed, revoked, closed and created again, each
\* authorization the user signed is executed at most once.
THEOREM AuthorityGrantRunsOnce == ASpec => []GrantRunsOnce
<1>1. AuthInv => GrantRunsOnce
  BY DEF AuthInv
<1> QED BY <1>1, AuthInvAlways, PTL

\* An execution is of an authorization that stands, unexpired and not taken
\* back, and stays below its cap.
THEOREM AuthorityRunNeedsStandingGrant == ASpec => RunNeedsStandingGrant
<1> DEFINE Step ==
      \A g \in 1 .. MaxGrants : runs'[g] # runs[g] =>
        /\ g \notin takenBack
        /\ \E p \in Address :
             /\ granted[p] = g
             /\ authz[p] # Absent
             /\ clock.slot < authz[p].expires
             /\ authz'[p].used \in 1 .. authz[p].max
<1>1. AuthInv /\ [ANext]_avars => [Step]_avars
  <2> SUFFICES ASSUME AuthInv, ANext PROVE Step
    OBVIOUS
  <2>1. CASE OtherStep
    BY <2>1, OtherStepsKeepInv
  <2>2. ASSUME NEW c \in Calls, process_execute_action(c)
        PROVE  Step
    <3> SUFFICES ASSUME NEW g \in 1 .. MaxGrants, runs'[g] # runs[g]
                 PROVE  /\ g \notin takenBack
                        /\ \E p \in Address :
                             /\ granted[p] = g
                             /\ authz[p] # Absent
                             /\ clock.slot < authz[p].expires
                             /\ authz'[p].used \in 1 .. authz[p].max
      OBVIOUS
    <3> DEFINE p == c.account
    <3>1. /\ p \in Address /\ authz[p] # Absent /\ ~authz[p].revoked
          /\ clock.slot < authz[p].expires
          /\ authz'[p].used \in 1 .. authz[p].max
          /\ runs' = [runs EXCEPT ![granted[p]] = @ + 1]
      BY <2>2, ExecutionOf
    <3>2. granted[p] = g
      BY <3>1 DEF AuthInv, AuthType
    <3>3. g \notin takenBack
      BY <3>1, <3>2 DEF AuthInv, RecordSpeaksOfGrant
    <3> QED BY <3>1, <3>2, <3>3
  <2> QED BY <2>1, <2>2 DEF ANext
<1>2. [][Step]_avars <=> RunNeedsStandingGrant
  BY DEF RunNeedsStandingGrant
<1> QED BY <1>1, <1>2, AuthInvAlways, PTL DEF ASpec

\* Collateral leaves a wallet's obligation only in the step that completes an
\* authorization naming that wallet, and what Solend pays for all of it arrives
\* at the destination the user signed.
THEOREM AuthorityWithdrawIsGranted == ASpec => WithdrawIsGranted
<1> DEFINE Step ==
      \A w \in Wallets : position'[w].collateral # position[w].collateral =>
        \E p \in Address :
          /\ authz[p] # Absent
          /\ authz[p].delegated = w
          /\ ~authz[p].completed /\ authz'[p].completed
          /\ balance'[authz[p].destination] - balance[authz[p].destination]
               \in Redeems(position[w].collateral - position'[w].collateral)
<1>1. AuthInv /\ [ANext]_avars => [Step]_avars
  <2> SUFFICES ASSUME AuthInv, ANext PROVE Step
    OBVIOUS
  <2>1. CASE OtherStep
    BY <2>1, OtherStepsKeepInv
  <2>2. ASSUME NEW c \in Calls, process_execute_action(c),
               NEW w \in Wallets, position'[w].collateral # position[w].collateral
        PROVE  \E p \in Address :
                 /\ authz[p] # Absent
                 /\ authz[p].delegated = w
                 /\ ~authz[p].completed /\ authz'[p].completed
                 /\ balance'[authz[p].destination] - balance[authz[p].destination]
                      \in Redeems(position[w].collateral - position'[w].collateral)
    <3> DEFINE p == c.account
               r == authz[p]
    <3>1. p \in Address /\ r \in AuthorizationRecord /\ r # Absent /\ ~r.completed
          /\ authz'[p].completed
      BY <2>2, ExecutionOf
    <3>2. SolendCalls(c, r)
      BY <2>2 DEF process_execute_action
    <3>3. PICK n \in Stake : \E paid \in Redeems(n) :
            /\ n <= position[r.delegated].collateral
            /\ position' = [position EXCEPT ![r.delegated] =
                              [position[r.delegated] EXCEPT !.collateral = @ - n]]
            /\ balance' = [balance EXCEPT ![r.destination] = @ + paid]
      BY <2>2, <3>1, <3>2, SolendMoves
    <3>9. PICK paid \in Redeems(n) : balance' = [balance EXCEPT ![r.destination] = @ + paid]
      BY <3>3
    <3>10. n \in Nat /\ paid \in Nat
      BY <3>9, AuthorityAssumption DEF Stake
    <3>4. position \in [Wallets -> [collateral : Stake, ctoken : Stake]]
          /\ balance \in [Destinations -> Nat]
          /\ r.destination \in Destinations
      BY <3>1 DEF AuthInv, AuthType, AuthorizationRecord
    <3>5. r.delegated = w
      BY <2>2, <3>3, <3>4
    <3>6. position'[w].collateral = position[w].collateral - n
      BY <3>3, <3>4, <3>5
    <3>7. balance'[r.destination] = balance[r.destination] + paid
      BY <3>4, <3>9
    <3>8. /\ balance'[r.destination] - balance[r.destination] = paid
          /\ position[w].collateral - position'[w].collateral = n
      <4>1. position[w].collateral \in Nat /\ balance[r.destination] \in Nat
        BY <3>4, <3>5 DEF Stake
      <4> QED BY <3>6, <3>7, <3>10, <4>1
    <3> QED BY <3>1, <3>5, <3>8
  <2> QED BY <2>1, <2>2 DEF ANext
<1>2. [][Step]_avars <=> WithdrawIsGranted
  BY DEF WithdrawIsGranted
<1> QED BY <1>1, <1>2, AuthInvAlways, PTL DEF ASpec

---------------------------------------------------------------------------
(* What the program's checks promise, in every state.                      *)

\* mul_div_floor_u128 at the width that the run tries, of the theorem for
\* every width.
THEOREM AuthorityMulDivIsExact == ASpec => []MulDivIsExact
<1>1. MulDivIsExact
  <2>1. 2 \in Nat \ {0}
    OBVIOUS
  <2> QED BY <2>1, MulDivFloorIsExact DEF MulDivIsExact
<1> QED BY <1>1, PTL

\* verify_same_tx_refresh_and_withdraw: the lists of the run's length, of the
\* theorem for every length.
THEOREM AuthoritySiblingsAreExact == ASpec => []SiblingsAreExact
<1> DEFINE X == {[reserve |-> b.reserve, obligation |-> b.obligation,
                  market |-> b.market, destination |-> b.destination] :
                    b \in {c.solend : c \in Calls} \ {Absent}}
<1>1. ASSUME NEW n \in 0 .. MaxSiblings, NEW l \in [1 .. n -> Descriptors], NEW x \in X,
             verify_same_tx_refresh_and_withdraw(l, x)
      PROVE  \E r, w \in 1 .. n :
               /\ r < w
               /\ {i \in 1 .. n : Touches(l[i], x)} = {r, w}
               /\ l[r].variant = "refresh"
               /\ l[w].variant = "withdraw" /\ l[w].destination = x.destination
  <2>1. n \in Nat /\ l \in Seq(Descriptors) /\ Len(l) = n
    BY SiblingsAssumption
  <2>2. x.reserve # Absent
    BY ProofsAssumption
  <2> QED BY <1>1, <2>1, <2>2, SiblingWalkIsExact
<1>2. SiblingsAreExact
  BY <1>1 DEF SiblingsAreExact
<1> QED BY <1>2, PTL

\* current_borrow_rate_wad, supply_apr_wad: for any reserves whose fields have
\* their widths, the rate meets the configured one at each kink, and neither
\* it nor the supply rate falls when the utilisation rises.
THEOREM AuthorityRateFollowsCurve == ASpec => []RateFollowsCurve
<1>1. ASSUME NEW s \in Reserves, is_reserve_config_valid(s)
      PROVE  /\ UtilOf[s] = 0 => RateOf[s] = pct_to_wad(s.min_rate)
             /\ (UtilOf[s] = pct_to_wad(s.optimal_util) /\ s.optimal_util # 0) =>
                  RateOf[s] = pct_to_wad(s.optimal_rate)
             /\ (UtilOf[s] = pct_to_wad(s.max_util) /\ s.max_util > s.optimal_util) =>
                  RateOf[s] = pct_to_wad(s.max_rate)
             /\ (UtilOf[s] = Wad /\ s.max_util < 100) =>
                  RateOf[s] = pct_to_wad(s.super_max_rate)
  BY <1>1, ReservesAssumption, RateMeetsKinks DEF UtilOf, RateOf
<1>2. ASSUME NEW s \in Reserves, is_reserve_config_valid(s), NEW t \in Reserves,
             SameCurve(s, t), UtilOf[s] <= UtilOf[t]
      PROVE  RateOf[s] <= RateOf[t] /\ AprOf[s] <= AprOf[t]
  <2>1. s \in ReserveSnapshot /\ t \in ReserveSnapshot
    BY ReservesAssumption
  <2>2. /\ t.min_rate = s.min_rate /\ t.optimal_rate = s.optimal_rate
        /\ t.max_rate = s.max_rate /\ t.super_max_rate = s.super_max_rate
        /\ t.optimal_util = s.optimal_util /\ t.max_util = s.max_util
        /\ t.take_rate = s.take_rate
    BY <1>2, <2>1 DEF SameCurve, ReserveSnapshot
  <2>3. utilization_wad(s) <= utilization_wad(t)
    BY <1>2 DEF UtilOf
  <2>4. /\ current_borrow_rate_wad(s) <= current_borrow_rate_wad(t)
        /\ supply_apr_wad(s) <= supply_apr_wad(t)
    BY <1>2, <2>1, <2>2, <2>3, SupplyRateMonotone
  <2> QED BY <2>4 DEF RateOf, AprOf
<1>3. RateFollowsCurve
  BY <1>1, <1>2 DEF RateFollowsCurve
<1> QED BY <1>3, PTL

\* A power of ten is positive.
LEMMA TenToIs == TenTo \in [Nat -> Nat \ {0}] /\ TenTo[0] = 1
<1> DEFINE P(f) == f = [n \in Nat |-> IF n = 0 THEN 1 ELSE 10 * f[n - 1]]
           S == Nat \ {0}
           c == 1
           F == [n \in Nat |-> [v \in S |-> 10 * v]]
<1>1. PICK g \in [Nat -> S] : g[0] = 1 /\ \A n \in Nat : g[n + 1] = 10 * g[n]
  <2>1. F \in [Nat -> [S -> S]]
    OBVIOUS
  <2>2. \E g : Recurs(g, S, c, F)
    <3>1. c \in S
      OBVIOUS
    <3> HIDE DEF F, S, c
    <3> QED BY <2>1, <3>1, RecursionOverNat
  <2> QED BY <2>2 DEF Recurs
<1>2. P(g)
  BY <1>1
<1>3. P(TenTo)
  <2>1. TenTo = CHOOSE f : P(f)
    BY DEF TenTo
  <2> HIDE DEF P
  <2> QED BY <1>2, <2>1
<1>4. \A n \in Nat : TenTo[n] = IF n = 0 THEN 1 ELSE 10 * TenTo[n - 1]
  BY <1>3
<1> DEFINE T == {n \in Nat : TenTo[n] \in S}
<1>5. Nat \subseteq T
  <2>1. 0 \in T /\ \A n \in Nat : n \in T => n + 1 \in T
    BY <1>4
  <2> HIDE DEF T
  <2> QED BY <2>1, NatSetInduction
<1> QED BY <1>3, <1>4, <1>5

\* A conservative bound that meets the threshold makes every price of the
\* interval meet it, whichever side has the larger exponent.
LEMMA BoundSpeaksForInterval ==
  ASSUME NEW c, NEW s, s.price \in Int, s.conf \in Nat, s.exponent \in Int,
         c.threshold \in Int, c.exponent \in Int,
         BoundAgrees(c), c.bound_mode # "midpoint", PythHolds(c, s),
         NEW q \in s.price - s.conf .. s.price + s.conf
  PROVE  StandsTo(q, s.exponent, c)
<1> DEFINE diff == s.exponent - c.exponent
           x == PriceBound(c, s)
           y == c.threshold
<1>1. diff \in Int /\ y \in Int /\ q \in Int
  OBVIOUS
<1>2. \/ x \in Int /\ x <= q /\ c.comparison \in {"gt", "gte"}
      \/ x \in Int /\ q <= x /\ c.comparison \in {"lt", "lte"}
  BY DEF BoundAgrees, PriceBound
<1>3. TenTo[0] = 1 /\ \A n \in Nat : TenTo[n] \in Nat \ {0}
  BY TenToIs
<1>4. CASE diff >= 0
  <2> DEFINE k == TenTo[diff]
  <2>1. k \in Nat \ {0}
    BY <1>1, <1>3, <1>4
  <2>2. StandsTo(q, s.exponent, c) <=> Compare(c.comparison, q * k, y)
    <3>1. ~(s.exponent < c.exponent) /\ c.exponent - c.exponent = 0
      BY <1>4
    <3>2. y * 1 = y
      BY <1>1
    <3> QED BY <1>3, <3>1, <3>2 DEF StandsTo
  <2>3. Compare(c.comparison, x * k, y)
    BY <1>4 DEF PythHolds
  <2> HIDE DEF k, x, y
  <2>4. \A u, v \in Int : u <= v => u * k \in Int /\ v * k \in Int /\ u * k <= v * k
    BY <2>1
  <2>5. Compare(c.comparison, q * k, y)
    <3>1. CASE x \in Int /\ x <= q /\ c.comparison \in {"gt", "gte"}
      <4>1. x * k \in Int /\ q * k \in Int /\ x * k <= q * k
        BY <1>1, <2>4, <3>1
      <4>2. CASE c.comparison = "gt"
        <5>1. x * k > y
          BY <2>3, <4>2 DEF Compare
        <5>2. q * k > y
          BY <1>1, <4>1, <5>1
        <5> QED BY <4>2, <5>2 DEF Compare
      <4>3. CASE c.comparison = "gte"
        <5>1. x * k >= y
          BY <2>3, <4>3 DEF Compare
        <5>2. q * k >= y
          BY <1>1, <4>1, <5>1
        <5> QED BY <4>3, <5>2 DEF Compare
      <4> QED BY <3>1, <4>2, <4>3
    <3>2. CASE x \in Int /\ q <= x /\ c.comparison \in {"lt", "lte"}
      <4>1. x * k \in Int /\ q * k \in Int /\ q * k <= x * k
        BY <1>1, <2>4, <3>2
      <4>2. CASE c.comparison = "lt"
        <5>1. x * k < y
          BY <2>3, <4>2 DEF Compare
        <5>2. q * k < y
          BY <1>1, <4>1, <5>1
        <5> QED BY <4>2, <5>2 DEF Compare
      <4>3. CASE c.comparison = "lte"
        <5>1. x * k <= y
          BY <2>3, <4>3 DEF Compare
        <5>2. q * k <= y
          BY <1>1, <4>1, <5>1
        <5> QED BY <4>3, <5>2 DEF Compare
      <4> QED BY <3>2, <4>2, <4>3
    <3> QED BY <1>2, <3>1, <3>2 DEF x
  <2> QED BY <2>2, <2>5
<1>5. CASE diff < 0
  <2> DEFINE z == y * TenTo[c.exponent - s.exponent]
  <2>1. c.exponent - s.exponent \in Nat /\ c.exponent - s.exponent = -diff
    BY <1>5
  <2>2. z \in Int
    BY <1>1, <1>3, <2>1
  <2>3. StandsTo(q, s.exponent, c) <=> Compare(c.comparison, q, z)
    <3>1. s.exponent < c.exponent /\ s.exponent - s.exponent = 0 /\ q * 1 = q
      BY <1>1, <1>5
    <3> QED BY <1>3, <3>1 DEF StandsTo
  <2>4. Compare(c.comparison, x, z)
    <3>1. ~(diff >= 0)
      BY <1>1, <1>5
    <3> QED BY <2>1, <3>1 DEF PythHolds
  <2> HIDE DEF x, z
  <2>5. Compare(c.comparison, q, z)
    <3>1. CASE x \in Int /\ x <= q /\ c.comparison \in {"gt", "gte"}
      <4>1. CASE c.comparison = "gt"
        BY <1>1, <2>2, <2>4, <3>1, <4>1 DEF Compare
      <4>2. CASE c.comparison = "gte"
        BY <1>1, <2>2, <2>4, <3>1, <4>2 DEF Compare
      <4> QED BY <3>1, <4>1, <4>2
    <3>2. CASE x \in Int /\ q <= x /\ c.comparison \in {"lt", "lte"}
      <4>1. CASE c.comparison = "lt"
        BY <1>1, <2>2, <2>4, <3>2, <4>1 DEF Compare
      <4>2. CASE c.comparison = "lte"
        BY <1>1, <2>2, <2>4, <3>2, <4>2 DEF Compare
      <4> QED BY <3>2, <4>1, <4>2
    <3> QED BY <1>2, <3>1, <3>2 DEF x
  <2> QED BY <2>3, <2>5
<1> QED BY <1>1, <1>4, <1>5

\* verify_pyth_price_condition, evaluate_condition_logic: a call that is
\* admitted uses snapshots of the past that are fresh at that moment, and one
\* that requires all its conditions has, for a conservative bound, a threshold
\* that every price of the confidence interval meets, whatever the exponents.
THEOREM AuthorityAdmittedPricesHold == ASpec => []AdmittedPricesHold
<1>1. ASSUME NEW call \in Calls, Admitted(call), NEW k \in DOMAIN call.proof.conditions,
             call.proof.conditions[k].kind = "pyth"
      PROVE  LET c == call.proof.conditions[k].condition
                 s == call.proof.conditions[k].snapshot
             IN /\ clock.unix - s.publish_time \in 0 .. c.max_age
                /\ (call.proof.logic = "all" /\ c.bound_mode # "midpoint") =>
                     \A q \in s.price - s.conf .. s.price + s.conf :
                       StandsTo(q, s.exponent, c)
  <2> DEFINE pc == call.proof.conditions[k]
             c == pc.condition
             s == pc.snapshot
  <2>1. ConditionsPass(call.proof, clock)
    BY <1>1 DEF Admitted
  <2>2. Gates(pc, clock) /\ (call.proof.logic = "all" => Holds(pc))
    BY <2>1 DEF ConditionsPass
  <2>3. PythGates(c, s, clock.unix) /\ (call.proof.logic = "all" => PythHolds(c, s))
    BY <1>1, <2>2 DEF Gates, Holds
  <2>4. clock.unix - s.publish_time \in 0 .. c.max_age /\ BoundAgrees(c)
    BY <2>3 DEF PythGates
  <2>5. /\ s.price \in Int /\ s.conf \in Nat /\ s.exponent \in Int
        /\ c.threshold \in Int /\ c.exponent \in Int
    BY <1>1, ProofsAssumption
  <2> HIDE DEF pc, c, s
  <2>6. ASSUME call.proof.logic = "all", c.bound_mode # "midpoint",
               NEW q \in s.price - s.conf .. s.price + s.conf
        PROVE  StandsTo(q, s.exponent, c)
    BY <2>3, <2>4, <2>5, <2>6, BoundSpeaksForInterval
  <2> QED BY <2>4, <2>6 DEF pc, c, s
<1>2. AdmittedPricesHold
  BY <1>1 DEF AdmittedPricesHold
<1> QED BY <1>2, PTL

---------------------------------------------------------------------------
(* The watcher's evaluator beside the program.                             *)

\* What the evaluator may say of a condition or a rule.
Verdicts == {"true", "false", "terminal", "transient"}

\* One condition: the evaluator says that it is met only when the program's
\* gates and comparison both pass.
LEMMA VerdictIsGate ==
  ASSUME NEW pc, NEW read, NEW ctx, NEW p,
         p = [kind |-> pc.kind, condition |-> pc.condition, snapshot |-> read[pc.key].value],
         read[pc.key] # Absent, read[pc.key].error = "none"
  PROVE  LET out == evaluate_one_condition(pc, read, ctx)
         IN /\ out \in Verdicts
            /\ out = "true" => Gates(p, ctx) /\ Holds(p)
<1> DEFINE c == pc.condition
           s == read[pc.key].value
           out == evaluate_one_condition(pc, read, ctx)
<1>1. p.kind = pc.kind /\ p.condition = c /\ p.snapshot = s
  OBVIOUS
<1>2. CASE pc.kind = "pyth"
  <2>1. out = eval_pyth(c, s, ctx.unix)
    BY <1>2 DEF evaluate_one_condition
  <2>2. Gates(p, ctx) <=> PythGates(c, s, ctx.unix)
    BY <1>1, <1>2 DEF Gates
  <2>3. Holds(p) <=> PythHolds(c, s)
    BY <1>1, <1>2 DEF Holds
  <2> HIDE DEF c, s, out
  <2>4. eval_pyth(c, s, ctx.unix) \in Verdicts
    BY DEF eval_pyth, Verdict, Verdicts
  <2>5. eval_pyth(c, s, ctx.unix) = "true" => PythGates(c, s, ctx.unix) /\ PythHolds(c, s)
    BY DEF eval_pyth, PythGates, AgeAllowed, Verdict
  <2> QED BY <2>1, <2>2, <2>3, <2>4, <2>5 DEF out
<1>3. CASE pc.kind # "pyth"
  <2>1. out = eval_solend(pc.key, c, s, ctx.slot)
    BY <1>3 DEF evaluate_one_condition
  <2>2. Gates(p, ctx) <=> SolendGates(c, s, ctx.slot)
    BY <1>1, <1>3 DEF Gates
  <2>3. Holds(p) <=> SolendHolds(c, s)
    BY <1>1, <1>3 DEF Holds
  <2> HIDE DEF c, s, out
  <2>4. eval_solend(pc.key, c, s, ctx.slot) \in Verdicts
    BY DEF eval_solend, Verdict, Verdicts
  <2>5. eval_solend(pc.key, c, s, ctx.slot) = "true" => SolendGates(c, s, ctx.slot) /\ SolendHolds(c, s)
    BY DEF eval_solend, SolendGates, AgeAllowed, Verdict
  <2> QED BY <2>1, <2>2, <2>3, <2>4, <2>5 DEF out
<1> QED BY <1>2, <1>3

\* A reading is absent, an error of either kind or a value.
Readable(read) ==
  \A k \in Keys : read[k] # Absent => read[k].error \in {"none", "terminal", "transient"}

\* A rule: the verdict of all its conditions against the program's gate.
LEMMA RuleVerdictIsGate ==
  ASSUME NEW rule \in Watched, NEW read, Readable(read), NEW ctx
  PROVE  LET out == evaluate_rule_against_batch(rule, read, ctx)
         IN (out = "true" /\ rule.logic = "all") => GatePasses(rule, read, ctx)
<1> DEFINE cs == rule.conditions
           K == DOMAIN cs
           one(k) == evaluate_one_condition(cs[k], read, ctx)
           p(k) == [kind |-> cs[k].kind, condition |-> cs[k].condition,
                    snapshot |-> read[cs[k].key].value]
           ps == [k \in K |-> p(k)]
           outs == {one(k) : k \in K}
           out == evaluate_rule_against_batch(rule, read, ctx)
<1>1. /\ Len(cs) \in 1 .. MaxConditions /\ K = 1 .. Len(cs)
      /\ \A k \in K : cs[k].key \in Keys
  <2> DEFINE S == {cs[k] : k \in DOMAIN cs}
  <2>1. cs \in Seq(S) /\ Len(cs) \in 1 .. MaxConditions /\ \A k \in K : cs[k].key \in Keys
    BY WatchedAssumption
  <2> HIDE DEF S, cs
  <2>2. DOMAIN cs = 1 .. Len(cs)
    BY <2>1
  <2> QED BY <2>1, <2>2
<1>2. K # {} /\ ps # << >> /\ Len(ps) <= MaxConditions /\ DOMAIN ps = K
      /\ \A k \in K : ps[k] = p(k)
  <2>1. Len(cs) \in Nat /\ Len(cs) # 0 /\ 1 \in K /\ Len(cs) <= MaxConditions
    BY <1>1, ScaleAssumption
  <2> DEFINE n == Len(cs)
  <2>2. ps \in Seq({p(k) : k \in K}) /\ Len(ps) = n
    <3>1. K = 1 .. n /\ n \in Nat
      BY <1>1, <2>1
    <3> DEFINE S == {p(k) : k \in K}
    <3>2. ps \in [1 .. n -> S]
      BY <3>1
    <3> HIDE DEF n, S, ps
    <3>3. ps \in Seq(S) /\ Len(ps) = n
      BY <3>1, <3>2
    <3> QED BY <3>3 DEF S
  <2> QED BY <2>1, <2>2
<1>3. ConditionsPass(ProofOf(rule, read), ctx) <=>
        /\ \A k \in K : Gates(p(k), ctx)
        /\ IF rule.logic = "all" THEN \A k \in K : Holds(p(k)) ELSE \E k \in K : Holds(p(k))
  <2>1. ProofOf(rule, read) = [logic |-> rule.logic, conditions |-> ps]
    BY DEF ProofOf
  <2>2. ProofOf(rule, read).logic = rule.logic /\ ProofOf(rule, read).conditions = ps
    BY <2>1
  <2> HIDE DEF ps, p, K
  <2> QED BY <1>2, <2>2 DEF ConditionsPass
<1>4. GatePasses(rule, read, ctx) <=>
        /\ \A k \in K : read[cs[k].key] # Absent /\ read[cs[k].key].error = "none"
        /\ ConditionsPass(ProofOf(rule, read), ctx)
  BY DEF GatePasses, KeysOf
<1>5. out = IF (IF rule.logic = "all" THEN "false" ELSE "true") \in outs
            THEN (IF rule.logic = "all" THEN "false" ELSE "true")
            ELSE IF "terminal" \in outs THEN "terminal"
            ELSE IF "transient" \in outs THEN "transient"
            ELSE Verdict(rule.logic = "all")
  BY DEF evaluate_rule_against_batch
<1>6. ASSUME NEW k \in K, read[cs[k].key] # Absent, read[cs[k].key].error = "none"
      PROVE  /\ one(k) \in Verdicts
             /\ one(k) = "true" => Gates(p(k), ctx) /\ Holds(p(k))
  BY <1>6, VerdictIsGate
<1>7. ASSUME NEW k \in K, ~(read[cs[k].key] # Absent /\ read[cs[k].key].error = "none")
      PROVE  one(k) \in {"terminal", "transient"}
  <2>1. cs[k].key \in Keys
    BY <1>1
  <2> QED BY <1>7, <2>1 DEF Readable, evaluate_one_condition
<1>8. \A o : o \in outs <=> \E k \in K : o = one(k)
  OBVIOUS
<1> HIDE DEF outs, one, p, K, out
<1>9. ASSUME out = "true", rule.logic = "all" PROVE GatePasses(rule, read, ctx)
  <2>1. "false" \notin outs /\ "terminal" \notin outs /\ "transient" \notin outs
    BY <1>5, <1>9 DEF Verdict
  <2>2. \A k \in K : one(k) \notin {"false", "terminal", "transient"}
    BY <1>8, <2>1
  <2>3. \A k \in K : read[cs[k].key] # Absent /\ read[cs[k].key].error = "none"
    BY <1>7, <2>2
  <2>4. \A k \in K : one(k) = "true"
    BY <1>6, <2>2, <2>3 DEF Verdicts
  <2>5. \A k \in K : Gates(p(k), ctx) /\ Holds(p(k))
    BY <1>6, <2>3, <2>4
  <2> QED BY <1>3, <1>4, <1>9, <2>3, <2>5
<1> QED BY <1>9 DEF out

\* The state of a tick.
TickRecord ==
  [pc : {"idle", "ready", "fetch", "view"}, ctx : [slot : Nat, unix : Nat] \cup {Absent},
   rule : Watched \cup {Absent}, asked : SUBSET Keys, out : Verdicts \cup {"none"}]

\* Whatever the cache holds was fetched under its token.
OfToken(c) == \A k \in Keys : c.read[k] # Absent => c.read[k].by = c.token

\* A tick that fetches or views has a watched rule in hand, and the cache
\* holds readings only, of one tick.
EvalInv ==
  /\ tick \in [Ticks -> TickRecord]
  /\ Readable(cache.read) /\ OfToken(cache)
  /\ \A f \in Ticks : tick[f].pc \in {"fetch", "view"} => tick[f].rule \in Watched

\* Rotating the cache leaves it readable, and of one tick.
LEMMA RotationReadable ==
  ASSUME EvalInv, NEW ctx
  PROVE  /\ Readable(ensure_token(ctx).read) /\ OfToken(ensure_token(ctx))
         /\ ensure_token(ctx).token = ctx
<1> DEFINE empty == [token |-> ctx, read |-> Unread]
<1>1. /\ empty.read = Unread /\ empty.token = ctx
      /\ \A k \in Keys : empty.read[k] = Absent
  BY DEF Unread
<1>2. Readable(empty.read) /\ OfToken(empty)
  BY <1>1 DEF Readable, OfToken
<1>3. \/ ensure_token(ctx) = empty
      \/ ensure_token(ctx) = cache /\ cache.token = ctx
  BY DEF ensure_token
<1> HIDE DEF empty
<1> QED BY <1>1, <1>2, <1>3 DEF EvalInv

\* A tick that begins has no rule in hand.
LEMMA BeginKeepsInv ==
  ASSUME EvalInv, AuthType, NEW f \in Ticks, BeginTick(f)
  PROVE  EvalInv'
<1> DEFINE y == [NoTick EXCEPT !.pc = "ready", !.ctx = clock]
<1>1. NoTick \in TickRecord
  BY DEF NoTick, TickRecord
<1>2. y \in TickRecord /\ y.pc = "ready"
  BY <1>1 DEF TickRecord, AuthType
<1>3. tick' = [tick EXCEPT ![f] = y] /\ cache' = cache
  BY DEF BeginTick
<1> HIDE DEF y
<1> QED BY <1>2, <1>3 DEF EvalInv, Readable, OfToken

\* The rule in hand is one of the watched.
LEMMA PlanKeepsInv ==
  ASSUME EvalInv, NEW f \in Ticks, NEW rule \in Watched, PlanRequest(f, rule)
  PROVE  EvalInv'
<1> DEFINE missing == {k \in KeysOf(rule) : cache'.read[k] = Absent}
           t == tick[f]
           y == [t EXCEPT !.pc = IF missing = {} THEN "view" ELSE "fetch",
                          !.rule = rule, !.asked = missing, !.out = "none"]
<1>1. t \in TickRecord /\ missing \subseteq Keys
  BY WatchedAssumption DEF EvalInv, KeysOf
<1>2. tick' = [tick EXCEPT ![f] = y] /\ cache' = ensure_token(tick[f].ctx)
  BY DEF PlanRequest
<1> HIDE DEF missing, t
<1>3. y \in TickRecord /\ y.rule = rule
  BY <1>1 DEF TickRecord
<1> HIDE DEF y
<1>4. Readable(cache'.read) /\ OfToken(cache')
  BY <1>2, RotationReadable
<1> QED BY <1>2, <1>3, <1>4 DEF EvalInv

\* What is stored is an answer of the provider.
LEMMA FetchKeepsInv ==
  ASSUME EvalInv, NEW f \in Ticks, FetchBatch(f)
  PROVE  EvalInv'
<1> DEFINE t == tick[f]
           y == [t EXCEPT !.pc = "view", !.asked = {}]
           old == ensure_token(t.ctx).read
           new(batch) == [k \in Keys |-> IF k \in t.asked THEN batch[k] ELSE old[k]]
<1>1. t \in TickRecord /\ t.rule \in Watched
  BY DEF EvalInv, FetchBatch
<1>2. PICK batch :
        /\ \A k \in t.asked : batch[k] \in Readings(k, t.ctx)
        /\ cache' = [token |-> t.ctx, read |-> new(batch)]
  <2>1. PICK batch \in [t.asked -> UNION {Readings(k, t.ctx) : k \in t.asked}] :
          /\ \A k \in t.asked : batch[k] \in Readings(k, t.ctx)
          /\ cache' = IntegrateBatch(t.ctx, batch)
    BY DEF FetchBatch
  <2>2. DOMAIN batch = t.asked
    OBVIOUS
  <2> QED BY <2>1, <2>2 DEF IntegrateBatch, With
<1>3. tick' = [tick EXCEPT ![f] = y]
  BY DEF FetchBatch
<1>4. Readable(old) /\ \A k \in Keys : old[k] # Absent => old[k].by = t.ctx
  BY RotationReadable DEF OfToken
<1>8. cache'.token = t.ctx /\ cache'.read = new(batch)
  BY <1>2
<1> HIDE DEF t, old
<1>5. y \in TickRecord /\ y.rule \in Watched
  BY <1>1 DEF TickRecord
<1> HIDE DEF y
<1>6. ASSUME NEW k \in Keys, NEW v \in Readings(k, t.ctx), v # Absent
      PROVE  v.error \in {"none", "terminal", "transient"} /\ v.by = t.ctx
  <2>1. \/ \E e \in Errors(k) : v.error = e
        \/ v.error = "none"
    BY <1>6 DEF Readings
  <2>2. v.by = t.ctx
    BY <1>6 DEF Readings
  <2> QED BY <2>1, <2>2, WatchedAssumption
<1>7. Readable(cache'.read) /\ OfToken(cache')
  <2> SUFFICES ASSUME NEW k \in Keys, cache'.read[k] # Absent
               PROVE  /\ cache'.read[k].error \in {"none", "terminal", "transient"}
                      /\ cache'.read[k].by = cache'.token
    BY DEF Readable, OfToken
  <2>1. cache'.read[k] = IF k \in t.asked THEN batch[k] ELSE old[k]
    BY <1>8
  <2>2. CASE k \in t.asked
    BY <1>2, <1>6, <1>8, <2>1, <2>2
  <2>3. CASE k \notin t.asked
    BY <1>4, <1>8, <2>1, <2>3 DEF Readable
  <2> QED BY <2>2, <2>3
<1> QED BY <1>3, <1>5, <1>7 DEF EvalInv

\* The verdict ends the rule.
LEMMA ViewKeepsInv ==
  ASSUME EvalInv, NEW f \in Ticks, EvaluateView(f)
  PROVE  /\ EvalInv'
         /\ tick'[f].out = evaluate_rule_against_batch(tick[f].rule, cache.read, tick[f].ctx)
<1> DEFINE t == tick[f]
           out == evaluate_rule_against_batch(t.rule, cache.read, t.ctx)
           y == [t EXCEPT !.pc = "ready", !.rule = Absent, !.out = out]
<1>1. t \in TickRecord /\ tick \in [Ticks -> TickRecord]
  BY DEF EvalInv
<1>2. out \in Verdicts
  BY DEF evaluate_rule_against_batch, Verdict, Verdicts
<1>3. tick' = [tick EXCEPT ![f] = y] /\ cache' = cache
  BY DEF EvaluateView
<1> HIDE DEF t, out
<1>4. y \in TickRecord /\ y.pc = "ready" /\ y.out = out
  BY <1>1, <1>2 DEF TickRecord
<1> HIDE DEF y
<1>5. EvalInv'
  BY <1>3, <1>4 DEF EvalInv, Readable, OfToken
<1>6. tick'[f].out = out
  BY <1>1, <1>3, <1>4
<1> QED BY <1>5, <1>6 DEF out, t

\* evaluate, for any rules, readings and number of overlapping ticks: a rule
\* whose conditions must all hold is called true only on readings that one tick
\* fetched, and only where the program's gate passes on them at the tick's own
\* slot and time.
THEOREM EvaluatorTrueIsOfOneTick == ESpec => TrueIsOfOneTick
<1> DEFINE Next == (ANext /\ UNCHANGED evalVars) \/ (ENext /\ UNCHANGED avars)
           vars == <<avars, evalVars>>
           Inv == AuthInv /\ EvalInv
           Step ==
             \A f \in Ticks :
               GivesVerdict(f) /\ tick'[f].out = "true" /\ tick[f].rule.logic = "all" =>
                 /\ GatePasses(tick[f].rule, cache.read, tick[f].ctx)
                 /\ \A j, k \in KeysOf(tick[f].rule) : cache.read[j].by = cache.read[k].by
<1>1. AInit /\ EInit => Inv
  <2> SUFFICES ASSUME AInit, EInit PROVE EvalInv
    BY AuthInit
  <2>1. NoTick \in TickRecord /\ NoTick.pc = "idle"
    BY DEF NoTick, TickRecord
  <2>2. tick = [f \in Ticks |-> NoTick] /\ cache.read = Unread
    BY DEF EInit, NothingRead
  <2>3. Readable(cache.read) /\ OfToken(cache)
    BY <2>2 DEF Readable, Unread, OfToken
  <2> HIDE DEF NoTick
  <2> QED BY <2>1, <2>2, <2>3 DEF EvalInv
<1>2. Inv /\ [Next]_vars => Inv'
  <2> SUFFICES ASSUME Inv, [Next]_vars PROVE Inv'
    OBVIOUS
  <2>1. CASE UNCHANGED evalVars /\ [ANext]_avars
    <3>1. AuthInv'
      BY <2>1, AuthNext
    <3>2. EvalInv'
      BY <2>1 DEF evalVars, EvalInv, Readable, OfToken
    <3> QED BY <3>1, <3>2
  <2>2. CASE ENext /\ UNCHANGED avars
    <3>1. AuthInv'
      BY <2>2, AuthNext
    <3>2. EvalInv'
      BY <2>2, BeginKeepsInv, PlanKeepsInv, FetchKeepsInv, ViewKeepsInv DEF ENext, AuthInv
    <3> QED BY <3>1, <3>2
  <2> QED BY <2>1, <2>2
<1>3. Inv /\ [Next]_vars => [Step]_vars
  <2> SUFFICES ASSUME Inv, Next,
                      NEW f \in Ticks, tick[f].pc = "view", tick'[f].pc = "ready",
                      tick'[f].out = "true", tick[f].rule.logic = "all"
               PROVE  /\ GatePasses(tick[f].rule, cache.read, tick[f].ctx)
                      /\ \A j, k \in KeysOf(tick[f].rule) : cache.read[j].by = cache.read[k].by
    BY DEF GivesVerdict
  <2>1. tick \in [Ticks -> TickRecord] /\ tick[f].rule \in Watched /\ Readable(cache.read)
    BY DEF EvalInv
  <2>2. EvaluateView(f)
    <3>1. tick' # tick
      OBVIOUS
    <3>2. PICK g \in Ticks : \/ BeginTick(g) \/ FetchBatch(g) \/ EvaluateView(g)
                             \/ \E rule \in Watched : PlanRequest(g, rule)
      BY <3>1 DEF ENext, evalVars
    <3>3. \E y : tick' = [tick EXCEPT ![g] = y]
      BY <3>2 DEF BeginTick, FetchBatch, EvaluateView, PlanRequest
    <3>4. g = f
      BY <2>1, <3>3
    <3> QED BY <3>2, <3>4 DEF BeginTick, FetchBatch, PlanRequest
  <2>3. tick'[f].out = evaluate_rule_against_batch(tick[f].rule, cache.read, tick[f].ctx)
    BY <2>2, ViewKeepsInv
  <2>4. GatePasses(tick[f].rule, cache.read, tick[f].ctx)
    BY <2>1, <2>3, RuleVerdictIsGate
  <2>5. \A k \in KeysOf(tick[f].rule) : k \in Keys /\ cache.read[k] # Absent
    BY <2>1, <2>4, WatchedAssumption DEF GatePasses, KeysOf
  <2> QED BY <2>4, <2>5 DEF EvalInv, OfToken
<1>4. [][Step]_vars <=> TrueIsOfOneTick
  BY DEF TrueIsOfOneTick
<1> QED BY <1>1, <1>2, <1>3, <1>4, PTL DEF ESpec

=============================================================================
