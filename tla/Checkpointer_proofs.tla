------------------------- MODULE Checkpointer_proofs -------------------------
(***************************************************************************)
(* What module Checkpointer says of its small instance, for every set of   *)
(* workers, workflows, keys and values, every budget and window, and every *)
(* bound.                                                                  *)
(***************************************************************************)
EXTENDS Checkpointer, TLAPS

(* Both helpers of the claim row return one of their arguments.            *)
LEMMA LesserIsLesser ==
  ASSUME NEW a \in Nat, NEW b \in Nat
  PROVE  Lesser(a, b) \in Nat /\ Lesser(a, b) <= a /\ Lesser(a, b) <= b
BY DEF Lesser

(* Likewise the later of two deadlines: extra budget never shortens one.   *)
LEMMA GreaterIsGreater ==
  ASSUME NEW a \in Nat, NEW b \in Nat
  PROVE  Greater(a, b) \in Nat /\ Greater(a, b) >= a /\ Greater(a, b) >= b
BY DEF Greater

(* A sign of life leaves token, budget and window alone, and puts the      *)
(* liveness deadline at or below both limits.                              *)
LEMMA HeardFromRow ==
  ASSUME now \in Nat, NEW row \in Claim
  PROVE  /\ HeardFrom(row) \in Claim
         /\ HeardFrom(row).token = row.token
         /\ HeardFrom(row).held_until = row.held_until
         /\ HeardFrom(row).alive = row.alive
         /\ HeardFrom(row).alive_until <= row.held_until
         /\ HeardFrom(row).alive_until <= now + row.alive
<1> DEFINE until == Lesser(now + row.alive, row.held_until)
<1>1. /\ now + row.alive \in Nat
      /\ row.held_until \in Nat
  BY DEF Claim
<1>2. /\ until \in Nat
      /\ until <= now + row.alive
      /\ until <= row.held_until
  BY <1>1, LesserIsLesser
<1>3. HeardFrom(row) = [row EXCEPT !.alive_until = until]
  BY DEF HeardFrom
<1> HIDE DEF until
<1> QED BY <1>2, <1>3 DEF Claim

(* More budget never brings the deadline it had forward.                   *)
LEMMA GrantedRow ==
  ASSUME now \in Nat, NEW row \in Claim, NEW budget \in Budgets, NEW alive \in Windows
  PROVE  /\ Granted(row, budget, alive) \in Claim
         /\ Granted(row, budget, alive).token = row.token
         /\ Granted(row, budget, alive).held_until >= row.held_until
         /\ Granted(row, budget, alive).alive_until <= Granted(row, budget, alive).held_until
         /\ Granted(row, budget, alive).alive_until <= now + Granted(row, budget, alive).alive
<1> DEFINE limit == Greater(row.held_until, now + budget)
           longer == [row EXCEPT !.held_until = limit, !.alive = alive]
<1>1. /\ budget \in Nat
      /\ alive \in Nat
      /\ row.held_until \in Nat
      /\ now + budget \in Nat
  BY DurationsPositive DEF Claim
<1>2. limit \in Nat /\ limit >= row.held_until
  BY <1>1, GreaterIsGreater
<1>3. Granted(row, budget, alive) = HeardFrom(longer)
  BY DEF Granted
<1> HIDE DEF limit
<1>4. /\ longer \in Claim
      /\ longer.token = row.token
      /\ longer.held_until = limit
  BY <1>1, <1>2 DEF Claim
<1> HIDE DEF longer
<1> QED BY <1>2, <1>3, <1>4, HeardFromRow

(* A row handed back keeps its token and has both deadlines over.          *)
LEMMA OverRow ==
  ASSUME NEW row \in Claim
  PROVE  /\ Over(row) \in Claim
         /\ Over(row).token = row.token
         /\ Over(row).held_until = 0
         /\ Over(row).alive_until = 0
         /\ Over(row).alive = row.alive
BY DEF Over, Claim

(* A discard frees the row and, where there was a claim, outranks it.      *)
LEMMA SupersededRow ==
  ASSUME NEW row \in Claim
  PROVE  /\ Superseded(row) \in Claim
         /\ Superseded(row).token = IF row.token = 0 THEN 0 ELSE row.token + 1
         /\ Superseded(row).alive_until <= row.alive_until
         /\ row.alive_until <= row.held_until =>
              Superseded(row).alive_until <= Superseded(row).held_until
         /\ Superseded(row).alive = row.alive
<1> DEFINE next == [row EXCEPT !.token = row.token + 1]
<1>1. /\ next \in Claim
      /\ next.token = row.token + 1
      /\ next.alive = row.alive
  BY DEF Claim
<1>2. Superseded(row) = IF row.token = 0 THEN row ELSE Over(next)
  BY DEF Superseded
<1>3. row.alive_until \in Nat
  BY DEF Claim
<1> HIDE DEF next
<1> QED BY <1>1, <1>2, <1>3, OverRow

(* First-writer-wins keeps a log a log: it either stays as it is or gains  *)
(* one record under a key it did not hold.                                 *)
LEMMA SetDefaultLog ==
  ASSUME hashes \in [Workflows -> Seq(Stored)], NEW w \in Workflows,
         NEW k \in Keys, NEW v \in Values, NEW by \in Nat,
         SetDefault(w, k, v, by)
  PROVE  /\ hashes' \in [Workflows -> Seq(Stored)]
         /\ \A u \in Workflows : u # w => hashes'[u] = hashes[u]
         /\ \/ hashes'[w] = hashes[w] /\ k \in KeysOf(hashes[w])
            \/ /\ k \notin KeysOf(hashes[w])
               /\ hashes'[w] = Append(hashes[w], [key |-> k, value |-> v, by |-> by])
<1>1. [key |-> k, value |-> v, by |-> by] \in Stored
  BY DEF Stored
<1>2. CASE k \in KeysOf(hashes[w])
  BY <1>2 DEF SetDefault
<1>3. CASE k \notin KeysOf(hashes[w])
  BY <1>1, <1>3 DEF SetDefault
<1> QED BY <1>2, <1>3

-----------------------------------------------------------------------------
(* Every reachable state is made of what the code keeps: rows of four      *)
(* numbers, logs of records under step and inbox keys, tokens.             *)
THEOREM TypeInvariant == Spec => []TypeOK
<1>1. Init => TypeOK
  BY DEF Init, TypeOK, Unclaimed, Claim
<1>2. TypeOK /\ [Next]_vars => TypeOK'
  <2> SUFFICES ASSUME TypeOK, [Next]_vars
               PROVE  TypeOK'
    OBVIOUS
  <2> USE DEF TypeOK
  <2>0. StepKeys \subseteq Keys
    BY DEF Keys
  <2>1. CASE Tick
    BY <2>1 DEF Tick
  <2>2. ASSUME NEW p \in Workers, NEW w \in Workflows,
               NEW budget \in Budgets, NEW alive \in Windows,
               Take(p, w, budget, alive)
        PROVE  TypeOK'
    <3> DEFINE row == [token |-> claims[w].token + 1, held_until |-> now + budget,
                       alive_until |-> now + Lesser(alive, budget), alive |-> alive]
    <3>0. budget \in Nat /\ alive \in Nat
      BY DurationsPositive
    <3>a. Lesser(alive, budget) \in Nat
      BY <3>0, LesserIsLesser
    <3>1. row \in Claim
      BY <3>0, <3>a DEF Claim
    <3>2. claims' = [claims EXCEPT ![w] = row]
      BY <2>2 DEF Take
    <3> HIDE DEF row
    <3>3. claims[w].token + 1 \in Nat
      BY DEF Claim
    <3> QED BY <2>2, <3>1, <3>2, <3>3 DEF Take
  <2>3. ASSUME NEW p \in Workers, NEW w \in Workflows,
               NEW budget \in Budgets, NEW alive \in Windows,
               Extend(p, w, budget, alive)
        PROVE  TypeOK'
    BY <2>3, GrantedRow DEF Extend
  <2>4. ASSUME NEW p \in Workers, NEW w \in Workflows, NEW alive \in Windows,
               Renew(p, w, alive)
        PROVE  TypeOK'
    <3> DEFINE row == [claims[w] EXCEPT !.alive = alive]
    <3>1. row \in Claim
      BY DurationsPositive DEF Claim
    <3>2. claims' = [claims EXCEPT ![w] = HeardFrom(row)]
      BY <2>4 DEF Renew
    <3> HIDE DEF row
    <3> QED BY <2>4, <3>1, <3>2, HeardFromRow DEF Renew
  <2>5. ASSUME NEW p \in Workers, NEW w \in Workflows, Wrote(p, w), now' = now
        PROVE  claims' \in [Workflows -> Claim] /\ heard' \in [Workflows -> Nat]
    BY <2>5, HeardFromRow DEF Wrote
  <2>6. ASSUME NEW p \in Workers, NEW w \in Workflows, NEW k \in StepKeys, NEW v \in Values,
               RecordStep(p, w, k, v)
        PROVE  TypeOK'
    BY <2>0, <2>5, <2>6, SetDefaultLog DEF RecordStep
  <2>7. ASSUME NEW p \in Workers, NEW w \in Workflows, NEW k \in StepKeys, NEW v \in Values,
               Transact(p, w, k, v)
        PROVE  TypeOK'
    <3>1. data' \in [Workflows -> [StepKeys -> Nat]]
      BY <2>7 DEF Transact
    <3>2. hashes' \in [Workflows -> Seq(Stored)]
      <4>1. SetDefault(w, k, v, held[p][w]) /\ k \in Keys /\ held[p][w] \in Nat
        BY <2>0, <2>7 DEF Transact
      <4> QED BY <4>1, SetDefaultLog
    <3>3. Wrote(p, w) /\ now' = now /\ held' = held
      BY <2>7 DEF Transact
    <3> QED BY <2>5, <3>1, <3>2, <3>3
  <2>8. ASSUME NEW p \in Workers, NEW w \in Workflows, NEW k \in StepKeys,
               TransactFails(p, w, k)
        PROVE  TypeOK'
    BY <2>5, <2>8 DEF TransactFails
  <2>9. ASSUME NEW w \in Workflows, NEW k \in StepKeys, NEW v \in Values, Supply(w, k, v)
        PROVE  TypeOK'
    BY <2>0, <2>9, SetDefaultLog DEF Supply
  <2>10. ASSUME NEW w \in Workflows, NEW v \in Values, AppendInbox(w, v)
         PROVE  TypeOK'
    <3>1. Len(hashes[w]) \in Keys
      BY <2>10, BoundsNatural DEF AppendInbox, Keys
    <3>2. [key |-> Len(hashes[w]), value |-> v, by |-> 0] \in Stored
      BY <3>1 DEF Stored
    <3> QED BY <2>10, <3>2 DEF AppendInbox
  <2>11. ASSUME NEW w \in Workflows, Discard(w)
         PROVE  TypeOK'
    BY <2>11, SupersededRow DEF Discard
  <2>12. ASSUME NEW p \in Workers, NEW w \in Workflows, Release(p, w)
         PROVE  TypeOK'
    BY <2>12, OverRow DEF Release
  <2>13. ASSUME NEW p \in Workers, NEW w \in Workflows, Forget(p, w)
         PROVE  TypeOK'
    BY <2>13 DEF Forget
  <2>14. CASE UNCHANGED vars
    BY <2>14 DEF vars
  <2> QED BY <2>1, <2>2, <2>3, <2>4, <2>6, <2>7, <2>8, <2>9, <2>10, <2>11, <2>12, <2>13, <2>14
          DEF Next, Passing, Outside
<1> QED BY <1>1, <1>2, PTL DEF Spec

-----------------------------------------------------------------------------
(* Exclusion.  OneWriter is not inductive: it needs that no Pass outranks  *)
(* the fence and that no two Passes carry one token; the two facts about   *)
(* deadlines come along because the same steps preserve them.              *)

ClaimsInv ==
  /\ AliveWithinBudget
  /\ NoPassAboveFence
  /\ TokensDistinct
  /\ AliveIsEarned

(* What extend, renew, record and transact do to a row, for a Pass the     *)
(* fence lets through.                                                     *)
LEMMA SignOfLife ==
  ASSUME TypeOK, ClaimsInv, NEW p \in Workers, NEW w \in Workflows, Fits(p, w),
         NEW row \in Claim, row.token = claims[w].token,
         row.alive_until <= row.held_until, row.alive_until <= now + row.alive,
         claims' = [claims EXCEPT ![w] = row],
         heard' = [heard EXCEPT ![w] = IF held[p][w] = claims[w].token THEN now ELSE @],
         held' = held
  PROVE  ClaimsInv'
<1>1. /\ held[p][w] = claims[w].token
      /\ \A u \in Workflows : claims[u] \in Claim
  <2>1. held[p][w] \in Nat /\ claims[w].token \in Nat
    BY DEF TypeOK, Claim
  <2> QED BY <2>1 DEF ClaimsInv, NoPassAboveFence, Fits, TypeOK
<1>2. /\ claims'[w] = row
      /\ heard'[w] = now
      /\ \A u \in Workflows : u # w => claims'[u] = claims[u] /\ heard'[u] = heard[u]
  BY <1>1 DEF TypeOK
<1>3. AliveWithinBudget'
  BY <1>2 DEF AliveWithinBudget, ClaimsInv
<1>4. NoPassAboveFence'
  BY <1>2 DEF NoPassAboveFence, ClaimsInv
<1>5. TokensDistinct'
  BY DEF TokensDistinct, ClaimsInv
<1>6. AliveIsEarned'
  BY <1>2 DEF AliveIsEarned, ClaimsInv
<1> QED BY <1>3, <1>4, <1>5, <1>6 DEF ClaimsInv

(* A write, refused or first or second, is a sign of life and no more.     *)
LEMMA WroteIsSignOfLife ==
  ASSUME TypeOK, ClaimsInv, NEW p \in Workers, NEW w \in Workflows, Fits(p, w),
         Wrote(p, w), held' = held
  PROVE  ClaimsInv'
<1>1. claims[w] \in Claim /\ now \in Nat
  BY DEF TypeOK
<1>2. PICK row \in Claim : row = HeardFrom(claims[w])
  BY <1>1, HeardFromRow
<1>3. /\ row.token = claims[w].token
      /\ row.held_until = claims[w].held_until
      /\ row.alive_until <= row.held_until
      /\ row.alive_until <= now + row.alive
  BY <1>1, <1>2, HeardFromRow
<1>4. /\ claims' = [claims EXCEPT ![w] = row]
      /\ heard' = [heard EXCEPT ![w] = IF held[p][w] = claims[w].token THEN now ELSE @]
  BY <1>2 DEF Wrote
<1> QED BY <1>3, <1>4, SignOfLife

(* A freed row, whether or not its token rose, and held unchanged.         *)
LEMMA FreedRow ==
  ASSUME TypeOK, ClaimsInv, NEW w \in Workflows, NEW row \in Claim,
         row.token >= claims[w].token, row.alive = claims[w].alive,
         row.alive_until <= row.held_until, row.alive_until <= claims[w].alive_until,
         claims' = [claims EXCEPT ![w] = row], heard' = heard, held' = held
  PROVE  ClaimsInv'
<1>1. /\ claims'[w] = row
      /\ \A u \in Workflows : u # w => claims'[u] = claims[u]
      /\ \A u \in Workflows : claims[u] \in Claim
      /\ \A u \in Workflows : heard[u] \in Nat
      /\ \A q \in Workers : held[q][w] \in Nat
  BY DEF TypeOK
<1>2. AliveWithinBudget'
  BY <1>1 DEF AliveWithinBudget, ClaimsInv
<1>3. NoPassAboveFence'
  BY <1>1 DEF NoPassAboveFence, ClaimsInv, Claim
<1>4. TokensDistinct'
  BY DEF TokensDistinct, ClaimsInv
<1>5. AliveIsEarned'
  <2>1. claims[w].alive_until <= heard[w] + claims[w].alive
    BY DEF AliveIsEarned, ClaimsInv
  <2>2. claims'[w].alive_until <= heard'[w] + claims'[w].alive
    BY <1>1, <2>1 DEF Claim
  <2> QED BY <1>1, <2>2 DEF AliveIsEarned, ClaimsInv
<1> QED BY <1>2, <1>3, <1>4, <1>5 DEF ClaimsInv

(* A claim mints a token above every Pass there is.                        *)
LEMMA TakeOutranks ==
  ASSUME TypeOK, ClaimsInv, NEW p \in Workers, NEW w \in Workflows,
         NEW budget \in Budgets, NEW alive \in Windows, Take(p, w, budget, alive)
  PROVE  ClaimsInv'
<1> DEFINE row == [token |-> claims[w].token + 1, held_until |-> now + budget,
                   alive_until |-> now + Lesser(alive, budget), alive |-> alive]
<1>1. budget \in Nat /\ alive \in Nat /\ now \in Nat
  BY DurationsPositive DEF TypeOK
<1>2. claims[w].token \in Nat /\ \A u \in Workflows : claims[u] \in Claim
  BY DEF TypeOK, Claim
<1>a. /\ Lesser(alive, budget) \in Nat
      /\ Lesser(alive, budget) <= alive
      /\ Lesser(alive, budget) <= budget
  BY <1>1, LesserIsLesser
<1>3. /\ row.token = claims[w].token + 1
      /\ row.alive_until <= row.held_until
      /\ row.alive_until <= now + row.alive
  BY <1>1, <1>a
<1>4. claims' = [claims EXCEPT ![w] = row]
  BY DEF Take
<1> HIDE DEF row
<1>5. /\ claims'[w] = row
      /\ heard'[w] = now
      /\ \A u \in Workflows : u # w => claims'[u] = claims[u] /\ heard'[u] = heard[u]
  BY <1>4 DEF Take, TypeOK
<1>6. /\ held'[p][w] = claims[w].token + 1
      /\ \A q \in Workers, u \in Workflows : q # p \/ u # w => held'[q][u] = held[q][u]
      /\ \A q \in Workers, u \in Workflows : held[q][u] \in Nat
  BY DEF Take, TypeOK
<1>7. AliveWithinBudget'
  BY <1>3, <1>5 DEF AliveWithinBudget, ClaimsInv
<1>8. NoPassAboveFence'
  BY <1>2, <1>3, <1>5, <1>6 DEF NoPassAboveFence, ClaimsInv
<1>9. TokensDistinct'
  <2> SUFFICES ASSUME NEW q \in Workers, NEW r \in Workers, NEW u \in Workflows,
                      held'[q][u] > 0, held'[q][u] = held'[r][u]
               PROVE  q = r
    BY DEF TokensDistinct
  <2>1. held[q][w] <= claims[w].token /\ held[r][w] <= claims[w].token
    BY DEF NoPassAboveFence, ClaimsInv
  <2> QED BY <1>2, <1>6, <2>1 DEF TokensDistinct, ClaimsInv
<1>10. AliveIsEarned'
  BY <1>3, <1>5 DEF AliveIsEarned, ClaimsInv
<1> QED BY <1>7, <1>8, <1>9, <1>10 DEF ClaimsInv

(* Every operation of the store keeps the four facts about its claim rows. *)
LEMMA ClaimsInvStep == TypeOK /\ ClaimsInv /\ [Next]_vars => ClaimsInv'
<1> SUFFICES ASSUME TypeOK, ClaimsInv, [Next]_vars
             PROVE  ClaimsInv'
  OBVIOUS
<1>1. CASE Tick
  BY <1>1 DEF Tick, ClaimsInv, AliveWithinBudget, NoPassAboveFence, TokensDistinct, AliveIsEarned
<1>2. ASSUME NEW p \in Workers, NEW w \in Workflows,
             NEW budget \in Budgets, NEW alive \in Windows, Take(p, w, budget, alive)
      PROVE  ClaimsInv'
  BY <1>2, TakeOutranks
<1>3. ASSUME NEW p \in Workers, NEW w \in Workflows,
             NEW budget \in Budgets, NEW alive \in Windows, Extend(p, w, budget, alive)
      PROVE  ClaimsInv'
  <2>1. claims[w] \in Claim /\ now \in Nat
    BY DEF TypeOK
  <2>2. PICK row \in Claim : row = Granted(claims[w], budget, alive)
    BY <2>1, GrantedRow
  <2>3. /\ row.token = claims[w].token
        /\ row.alive_until <= row.held_until
        /\ row.alive_until <= now + row.alive
    BY <2>1, <2>2, GrantedRow
  <2> QED BY <1>3, <2>2, <2>3, SignOfLife DEF Extend
<1>4. ASSUME NEW p \in Workers, NEW w \in Workflows, NEW alive \in Windows, Renew(p, w, alive)
      PROVE  ClaimsInv'
  <2> DEFINE kept == [claims[w] EXCEPT !.alive = alive]
  <2>1. kept \in Claim /\ kept.token = claims[w].token /\ now \in Nat
    BY DurationsPositive DEF TypeOK, Claim
  <2>2. claims' = [claims EXCEPT ![w] = HeardFrom(kept)]
    BY <1>4 DEF Renew
  <2> HIDE DEF kept
  <2>3. PICK row \in Claim : row = HeardFrom(kept)
    BY <2>1, HeardFromRow
  <2>4. /\ row.token = claims[w].token
        /\ row.alive_until <= row.held_until
        /\ row.alive_until <= now + row.alive
    BY <2>1, <2>3, HeardFromRow
  <2>5. /\ Fits(p, w) /\ held' = held
        /\ heard' = [heard EXCEPT ![w] = IF held[p][w] = claims[w].token THEN now ELSE @]
    BY <1>4 DEF Renew
  <2> QED BY <2>2, <2>3, <2>4, <2>5, SignOfLife
<1>5. ASSUME NEW p \in Workers, NEW w \in Workflows, NEW k \in StepKeys, NEW v \in Values,
             RecordStep(p, w, k, v) \/ Transact(p, w, k, v)
      PROVE  ClaimsInv'
  BY <1>5, WroteIsSignOfLife DEF RecordStep, Transact
<1>6. ASSUME NEW p \in Workers, NEW w \in Workflows, NEW k \in StepKeys, TransactFails(p, w, k)
      PROVE  ClaimsInv'
  BY <1>6, WroteIsSignOfLife DEF TransactFails
<1>7. ASSUME NEW w \in Workflows, NEW k \in StepKeys, NEW v \in Values, Supply(w, k, v)
      PROVE  ClaimsInv'
  BY <1>7 DEF Supply, ClaimsInv, AliveWithinBudget, NoPassAboveFence, TokensDistinct, AliveIsEarned
<1>8. ASSUME NEW w \in Workflows, NEW v \in Values, AppendInbox(w, v)
      PROVE  ClaimsInv'
  BY <1>8
     DEF AppendInbox, ClaimsInv, AliveWithinBudget, NoPassAboveFence, TokensDistinct, AliveIsEarned
<1>9. ASSUME NEW w \in Workflows, Discard(w)
      PROVE  ClaimsInv'
  <2>1. claims[w] \in Claim /\ claims[w].alive_until <= claims[w].held_until
    BY DEF TypeOK, ClaimsInv, AliveWithinBudget
  <2>2. PICK row \in Claim : row = Superseded(claims[w])
    BY <2>1, SupersededRow
  <2>3. claims[w].token \in Nat
    BY <2>1 DEF Claim
  <2>4. /\ row.token >= claims[w].token
        /\ row.alive = claims[w].alive
        /\ row.alive_until <= row.held_until
        /\ row.alive_until <= claims[w].alive_until
    BY <2>1, <2>2, <2>3, SupersededRow
  <2> QED BY <1>9, <2>2, <2>4, FreedRow DEF Discard
<1>10. ASSUME NEW p \in Workers, NEW w \in Workflows, Release(p, w)
       PROVE  ClaimsInv'
  <2>1. claims[w] \in Claim
    BY DEF TypeOK
  <2>2. /\ claims[w].token \in Nat
        /\ claims[w].alive_until \in Nat
        /\ claims[w].alive_until <= claims[w].held_until
    BY <2>1 DEF Claim, ClaimsInv, AliveWithinBudget
  <2>3. PICK row \in Claim :
          row = IF held[p][w] = claims[w].token THEN Over(claims[w]) ELSE claims[w]
    BY <2>1, OverRow
  <2>4. /\ row.token >= claims[w].token
        /\ row.alive = claims[w].alive
        /\ row.alive_until <= row.held_until
        /\ row.alive_until <= claims[w].alive_until
    BY <2>1, <2>2, <2>3, OverRow
  <2> QED BY <1>10, <2>3, <2>4, FreedRow DEF Release
<1>11. ASSUME NEW p \in Workers, NEW w \in Workflows, Forget(p, w)
       PROVE  ClaimsInv'
  <2>1. /\ claims' = claims /\ heard' = heard /\ now' = now
        /\ \A q \in Workers, u \in Workflows : held'[q][u] = 0 \/ held'[q][u] = held[q][u]
        /\ \A u \in Workflows : claims[u].token \in Nat
    BY <1>11 DEF Forget, TypeOK, Claim
  <2> QED BY <2>1
          DEF ClaimsInv, AliveWithinBudget, NoPassAboveFence, TokensDistinct, AliveIsEarned
<1>12. CASE UNCHANGED vars
  BY <1>12 DEF vars, ClaimsInv, AliveWithinBudget, NoPassAboveFence, TokensDistinct, AliveIsEarned
<1> QED BY <1>1, <1>2, <1>3, <1>4, <1>5, <1>6, <1>7, <1>8, <1>9, <1>10, <1>11, <1>12
        DEF Next, Passing, Outside

(* The four facts hold in every reachable state.                           *)
THEOREM ClaimsInvariant == Spec => []ClaimsInv
<1>1. Init => ClaimsInv
  BY DEF Init, Unclaimed, ClaimsInv, AliveWithinBudget, NoPassAboveFence, TokensDistinct,
         AliveIsEarned
<1> QED BY <1>1, ClaimsInvStep, TypeInvariant, PTL DEF Spec

(* The fence lets at most one Pass write, however many are in hand.        *)
THEOREM Exclusion == Spec => []OneWriter
<1>1. TypeOK /\ ClaimsInv => OneWriter
  <2> SUFFICES ASSUME TypeOK, ClaimsInv,
                      NEW p \in Workers, NEW q \in Workers, NEW w \in Workflows,
                      Fits(p, w), Fits(q, w)
               PROVE  p = q
    BY DEF OneWriter
  <2>1. /\ held[p][w] \in Nat /\ held[q][w] \in Nat /\ claims[w].token \in Nat
        /\ held[p][w] <= claims[w].token /\ held[q][w] <= claims[w].token
    BY DEF TypeOK, Claim, ClaimsInv, NoPassAboveFence
  <2>2. held[p][w] > 0 /\ held[p][w] = held[q][w]
    BY <2>1 DEF Fits
  <2> QED BY <2>2 DEF ClaimsInv, TokensDistinct
<1> QED BY <1>1, TypeInvariant, ClaimsInvariant, PTL

(* No renewal and no write carries a claim past its budget or a release.   *)
THEOREM DeadlineWithinBudget == Spec => []AliveWithinBudget
<1>1. ClaimsInv => AliveWithinBudget
  BY DEF ClaimsInv
<1> QED BY <1>1, ClaimsInvariant, PTL

(* Nobody but the newest pass keeps a claim alive.                         *)
THEOREM DeadlineIsEarned == Spec => []AliveIsEarned
<1>1. ClaimsInv => AliveIsEarned
  BY DEF ClaimsInv
<1> QED BY <1>1, ClaimsInvariant, PTL

-----------------------------------------------------------------------------
(* The records.  That passes write in token order needs that nothing was   *)
(* written by a pass above the fence.                                      *)

WrittenBelowFence ==
  \A w \in Workflows : \A i \in 1..Len(hashes[w]) : hashes[w][i].by <= claims[w].token

RecordsInv ==
  /\ KeysRecordedOnce
  /\ InboxInOrder
  /\ WritesInTokenOrder
  /\ WrittenBelowFence

(* A log is a sequence of records, each of a key, a value and a token.     *)
LEMMA RecordsTyped ==
  ASSUME TypeOK
  PROVE  /\ \A u \in Workflows : claims[u].token \in Nat
         /\ \A u \in Workflows : \A i \in 1..Len(hashes[u]) : hashes[u][i].by \in Nat
<1>1. ASSUME NEW u \in Workflows, NEW i \in 1..Len(hashes[u])
      PROVE  hashes[u][i].by \in Nat
  <2>1. hashes[u] \in Seq(Stored)
    BY DEF TypeOK
  <2>2. hashes[u][i] \in Stored
    BY <2>1
  <2> QED BY <2>2 DEF Stored
<1>2. \A u \in Workflows : claims[u].token \in Nat
  BY DEF TypeOK, Claim
<1> QED BY <1>1, <1>2

(* The log after a well-typed step is one too.                             *)
LEMMA NextRecordsTyped ==
  ASSUME TypeOK'
  PROVE  /\ \A u \in Workflows : claims'[u].token \in Nat
         /\ \A u \in Workflows : \A i \in 1..Len(hashes'[u]) : hashes'[u][i].by \in Nat
<1>1. ASSUME NEW u \in Workflows, NEW i \in 1..Len(hashes'[u])
      PROVE  hashes'[u][i].by \in Nat
  <2>1. hashes'[u] \in Seq(Stored)
    BY DEF TypeOK
  <2>2. hashes'[u][i] \in Stored
    BY <2>1
  <2> QED BY <2>2 DEF Stored
<1>2. \A u \in Workflows : claims'[u].token \in Nat
  BY DEF TypeOK, Claim
<1> QED BY <1>1, <1>2

(* A log that gains one record under a fresh key, by the newest pass or by *)
(* nobody.                                                                 *)
LEMMA OneMoreRecord ==
  ASSUME TypeOK, TypeOK', RecordsInv, NEW w \in Workflows, NEW r \in Stored,
         \A u \in Workflows : u # w => hashes'[u] = hashes[u],
         hashes'[w] = Append(hashes[w], r),
         r.key \notin KeysOf(hashes[w]), r.key \in Nat => r.key = Len(hashes[w]),
         r.by = 0 \/ r.by = claims[w].token,
         \A u \in Workflows : claims'[u].token >= claims[u].token
  PROVE  RecordsInv'
<1>1. hashes[w] \in Seq(Stored) /\ hashes'[w] \in Seq(Stored)
  BY DEF TypeOK
<1>2. /\ Len(hashes'[w]) = Len(hashes[w]) + 1
      /\ Len(hashes[w]) \in Nat
      /\ \A i \in 1..Len(hashes[w]) : hashes'[w][i] = hashes[w][i]
      /\ hashes'[w][Len(hashes[w]) + 1] = r
  BY <1>1
<1>3. \A i \in 1..Len(hashes[w]) : hashes[w][i].key # r.key
  BY DEF KeysOf
<1>4. /\ \A u \in Workflows : claims[u].token \in Nat /\ claims'[u].token \in Nat
      /\ \A u \in Workflows : \A i \in 1..Len(hashes[u]) : hashes[u][i].by \in Nat
  BY RecordsTyped, NextRecordsTyped
<1>5. r.by \in Nat /\ r.by <= claims[w].token
  BY <1>4 DEF Stored
<1>6. KeysRecordedOnce'
  <2>1. \A i, j \in 1..Len(hashes'[w]) : hashes'[w][i].key = hashes'[w][j].key => i = j
    BY <1>2, <1>3 DEF RecordsInv, KeysRecordedOnce
  <2> QED BY <2>1 DEF RecordsInv, KeysRecordedOnce
<1>7. InboxInOrder'
  <2>1. \A i \in 1..Len(hashes'[w]) : hashes'[w][i].key \in Nat => hashes'[w][i].key = i - 1
    BY <1>2 DEF RecordsInv, InboxInOrder
  <2> QED BY <2>1 DEF RecordsInv, InboxInOrder
<1>8. WritesInTokenOrder'
  <2>1. ASSUME NEW i \in 1..Len(hashes'[w]), NEW j \in 1..Len(hashes'[w]),
               i < j, hashes'[w][j].by > 0
        PROVE  hashes'[w][i].by <= hashes'[w][j].by
    <3>1. i \in 1..Len(hashes[w])
      BY <1>2, <2>1
    <3>2. CASE j \in 1..Len(hashes[w])
      BY <1>2, <2>1, <3>1, <3>2 DEF RecordsInv, WritesInTokenOrder
    <3>3. CASE j = Len(hashes[w]) + 1
      BY <1>2, <2>1, <3>1, <3>3 DEF RecordsInv, WrittenBelowFence
    <3> QED BY <1>2, <3>2, <3>3
  <2> QED BY <2>1 DEF RecordsInv, WritesInTokenOrder
<1>9. WrittenBelowFence'
  <2>1. \A i \in 1..Len(hashes'[w]) : hashes'[w][i].by <= claims[w].token
    BY <1>2, <1>5 DEF RecordsInv, WrittenBelowFence
  <2>2. ASSUME NEW u \in Workflows, NEW i \in 1..Len(hashes'[u])
        PROVE  hashes'[u][i].by <= claims'[u].token
    <3>1. hashes'[u][i].by <= claims[u].token
      BY <2>1 DEF RecordsInv, WrittenBelowFence
    <3>2. hashes'[u][i].by \in Nat
      BY NextRecordsTyped
    <3> QED BY <1>4, <3>1, <3>2
  <2> QED BY <2>2 DEF WrittenBelowFence
<1> QED BY <1>6, <1>7, <1>8, <1>9 DEF RecordsInv

(* Nothing recorded, or everything discarded, and the fence no lower.      *)
LEMMA SameRecords ==
  ASSUME TypeOK, TypeOK', RecordsInv,
         \A u \in Workflows : hashes'[u] = hashes[u] \/ hashes'[u] = <<>>,
         \A u \in Workflows : claims'[u].token >= claims[u].token
  PROVE  RecordsInv'
<1>1. \A u \in Workflows : hashes'[u] = hashes[u] \/ Len(hashes'[u]) = 0
  OBVIOUS
<1>2. WrittenBelowFence'
  <2> SUFFICES ASSUME NEW u \in Workflows, NEW i \in 1..Len(hashes'[u])
               PROVE  hashes'[u][i].by <= claims'[u].token
    BY DEF WrittenBelowFence
  <2>1. hashes'[u] = hashes[u]
    BY <1>1
  <2>2. hashes[u][i].by <= claims[u].token
    BY <2>1 DEF RecordsInv, WrittenBelowFence
  <2>3. hashes[u][i].by \in Nat /\ claims[u].token \in Nat /\ claims'[u].token \in Nat
    BY <2>1, RecordsTyped, NextRecordsTyped
  <2> QED BY <2>1, <2>2, <2>3
<1>3. KeysRecordedOnce' /\ InboxInOrder' /\ WritesInTokenOrder'
  BY <1>1 DEF RecordsInv, KeysRecordedOnce, InboxInOrder, WritesInTokenOrder
<1> QED BY <1>2, <1>3 DEF RecordsInv

(* No step lowers a fence, and every step but a claim and a discard leaves *)
(* all of them where they are.                                             *)
LEMMA SignsOfLifeKeepFence ==
  ASSUME TypeOK, NEW p \in Workers, NEW w \in Workflows,
         \/ \E budget \in Budgets, alive \in Windows : Extend(p, w, budget, alive)
         \/ \E alive \in Windows : Renew(p, w, alive)
         \/ Wrote(p, w)
         \/ Release(p, w)
  PROVE  \A u \in Workflows : claims'[u].token = claims[u].token
<1>1. claims[w] \in Claim /\ now \in Nat
  BY DEF TypeOK
<1>2. ASSUME NEW row \in Claim, claims' = [claims EXCEPT ![w] = row],
             row.token = claims[w].token
      PROVE  \A u \in Workflows : claims'[u].token = claims[u].token
  BY <1>2 DEF TypeOK
<1>3. ASSUME NEW budget \in Budgets, NEW alive \in Windows, Extend(p, w, budget, alive)
      PROVE  \A u \in Workflows : claims'[u].token = claims[u].token
  BY <1>1, <1>2, <1>3, GrantedRow DEF Extend
<1>4. ASSUME NEW alive \in Windows, Renew(p, w, alive)
      PROVE  \A u \in Workflows : claims'[u].token = claims[u].token
  <2> DEFINE kept == [claims[w] EXCEPT !.alive = alive]
  <2>1. kept \in Claim /\ kept.token = claims[w].token
    BY <1>1, DurationsPositive DEF Claim
  <2>2. claims' = [claims EXCEPT ![w] = HeardFrom(kept)]
    BY <1>4 DEF Renew
  <2> HIDE DEF kept
  <2> QED BY <1>1, <1>2, <2>1, <2>2, HeardFromRow
<1>5. CASE Wrote(p, w)
  BY <1>1, <1>2, <1>5, HeardFromRow DEF Wrote
<1>6. CASE Release(p, w)
  BY <1>1, <1>2, <1>6, OverRow DEF Release
<1> QED BY <1>3, <1>4, <1>5, <1>6

(* A claim puts the fence above where it was: it mints the next token.     *)
LEMMA ClaimRaisesFence ==
  ASSUME TypeOK, NEW p \in Workers, NEW w \in Workflows,
         NEW budget \in Budgets, NEW alive \in Windows, Take(p, w, budget, alive)
  PROVE  /\ claims'[w].token = claims[w].token + 1
         /\ \A u \in Workflows : u # w => claims'[u].token = claims[u].token
BY DEF Take, TypeOK

(* A discard never lowers the fence.                                       *)
LEMMA DiscardRaisesFence ==
  ASSUME TypeOK, NEW w \in Workflows, Discard(w)
  PROVE  /\ claims'[w].token = IF claims[w].token = 0 THEN 0 ELSE claims[w].token + 1
         /\ \A u \in Workflows : u # w => claims'[u].token = claims[u].token
<1>1. claims[w] \in Claim
  BY DEF TypeOK
<1> QED BY <1>1, SupersededRow DEF Discard, TypeOK

(* Every operation of the store keeps the facts about the logs.            *)
LEMMA RecordsInvStep ==
  TypeOK /\ TypeOK' /\ ClaimsInv /\ RecordsInv /\ [Next]_vars => RecordsInv'
<1> SUFFICES ASSUME TypeOK, TypeOK', ClaimsInv, RecordsInv, [Next]_vars
             PROVE  RecordsInv'
  OBVIOUS
<1>0. /\ \A u \in Workflows : claims[u].token \in Nat
      /\ \A k \in StepKeys : k \in Keys /\ k \notin Nat
  BY StepKeysNotInbox DEF TypeOK, Claim, Keys
<1>1. CASE Tick \/ UNCHANGED vars
  BY <1>0, <1>1, SameRecords DEF Tick, vars
<1>2. ASSUME NEW p \in Workers, NEW w \in Workflows,
             NEW budget \in Budgets, NEW alive \in Windows, Take(p, w, budget, alive)
      PROVE  RecordsInv'
  <2>1. \A u \in Workflows : claims'[u].token >= claims[u].token
    BY <1>0, <1>2, ClaimRaisesFence
  <2> QED BY <1>2, <2>1, SameRecords DEF Take
<1>3. ASSUME NEW p \in Workers, NEW w \in Workflows, hashes' = hashes,
             \/ \E budget \in Budgets, alive \in Windows : Extend(p, w, budget, alive)
             \/ \E alive \in Windows : Renew(p, w, alive)
             \/ Wrote(p, w)
             \/ Release(p, w)
      PROVE  RecordsInv'
  <2>1. \A u \in Workflows : claims'[u].token >= claims[u].token
    BY <1>0, <1>3, SignsOfLifeKeepFence
  <2> QED BY <1>3, <2>1, SameRecords
<1>4. ASSUME NEW w \in Workflows, NEW k \in StepKeys, NEW v \in Values, NEW by \in Nat,
             SetDefault(w, k, v, by), by = 0 \/ by = claims[w].token,
             \A u \in Workflows : claims'[u].token >= claims[u].token
      PROVE  RecordsInv'
  <2>1. hashes \in [Workflows -> Seq(Stored)] /\ k \in Keys /\ k \notin Nat
    BY <1>0 DEF TypeOK
  <2>2. \A u \in Workflows : u # w => hashes'[u] = hashes[u]
    BY <1>4, <2>1, SetDefaultLog
  <2>3. CASE hashes'[w] = hashes[w]
    BY <1>4, <2>2, <2>3, SameRecords
  <2>4. CASE /\ k \notin KeysOf(hashes[w])
             /\ hashes'[w] = Append(hashes[w], [key |-> k, value |-> v, by |-> by])
    <3>1. PICK r \in Stored : r = [key |-> k, value |-> v, by |-> by]
      BY <2>1 DEF Stored
    <3>2. r.key = k /\ r.by = by
      BY <3>1
    <3>3. /\ hashes'[w] = Append(hashes[w], r)
          /\ r.key \notin KeysOf(hashes[w])
          /\ r.key \in Nat => r.key = Len(hashes[w])
          /\ r.by = 0 \/ r.by = claims[w].token
      BY <1>4, <2>1, <2>4, <3>1, <3>2
    <3> QED BY <1>4, <2>2, <3>3, OneMoreRecord
  <2> QED BY <1>4, <2>1, <2>3, <2>4, SetDefaultLog
<1>5. ASSUME NEW p \in Workers, NEW w \in Workflows, Fits(p, w)
      PROVE  held[p][w] \in Nat /\ held[p][w] = claims[w].token
  BY <1>0, <1>5 DEF TypeOK, ClaimsInv, NoPassAboveFence, Fits
<1>6. ASSUME NEW p \in Workers, NEW w \in Workflows, NEW k \in StepKeys, NEW v \in Values,
             RecordStep(p, w, k, v) \/ Transact(p, w, k, v)
      PROVE  RecordsInv'
  <2>1. Fits(p, w) /\ Wrote(p, w) /\ SetDefault(w, k, v, held[p][w])
    BY <1>6 DEF RecordStep, Transact
  <2>2. \A u \in Workflows : claims'[u].token >= claims[u].token
    BY <1>0, <2>1, SignsOfLifeKeepFence
  <2> QED BY <1>4, <1>5, <2>1, <2>2
<1>7. ASSUME NEW p \in Workers, NEW w \in Workflows, NEW k \in StepKeys, TransactFails(p, w, k)
      PROVE  RecordsInv'
  BY <1>3, <1>7 DEF TransactFails
<1>8. ASSUME NEW w \in Workflows, NEW k \in StepKeys, NEW v \in Values, Supply(w, k, v)
      PROVE  RecordsInv'
  BY <1>0, <1>4, <1>8 DEF Supply
<1>9. ASSUME NEW w \in Workflows, NEW v \in Values, AppendInbox(w, v)
      PROVE  RecordsInv'
  <2>0. hashes[w] \in Seq(Stored)
    BY DEF TypeOK
  <2>1. Len(hashes[w]) \in Nat /\ Len(hashes[w]) \in Keys
    BY <1>9, <2>0, BoundsNatural DEF AppendInbox, Keys
  <2>2. PICK r \in Stored : r = [key |-> Len(hashes[w]), value |-> v, by |-> 0]
    BY <2>1 DEF Stored
  <2>3. r.key = Len(hashes[w]) /\ r.by = 0
    BY <2>2
  <2>4. r.key \notin KeysOf(hashes[w])
    BY <2>1, <2>3 DEF KeysOf, RecordsInv, InboxInOrder
  <2>5. /\ hashes'[w] = Append(hashes[w], r)
        /\ \A u \in Workflows : u # w => hashes'[u] = hashes[u]
        /\ claims' = claims
    BY <1>9, <2>2 DEF AppendInbox, TypeOK
  <2>6. \A u \in Workflows : claims'[u].token >= claims[u].token
    BY <1>0, <2>5
  <2> QED BY <2>3, <2>4, <2>5, <2>6, OneMoreRecord
<1>10. ASSUME NEW w \in Workflows, Discard(w)
       PROVE  RecordsInv'
  <2>1. \A u \in Workflows : claims'[u].token >= claims[u].token
    BY <1>0, <1>10, DiscardRaisesFence
  <2>2. \A u \in Workflows : hashes'[u] = hashes[u] \/ hashes'[u] = <<>>
    BY <1>10 DEF Discard, TypeOK
  <2> QED BY <2>1, <2>2, SameRecords
<1>11. ASSUME NEW p \in Workers, NEW w \in Workflows, Forget(p, w)
       PROVE  RecordsInv'
  BY <1>0, <1>11, SameRecords DEF Forget
<1>12. ASSUME NEW p \in Workers, NEW w \in Workflows, Passing(p, w)
       PROVE  RecordsInv'
  BY <1>2, <1>3, <1>6, <1>7, <1>11, <1>12 DEF Passing, Extend, Renew, Release
<1> QED BY <1>1, <1>8, <1>9, <1>10, <1>12 DEF Next, Outside

(* Records land in token order under fresh keys, inbox keys in append      *)
(* order, and none is by a pass above the fence.                           *)
THEOREM RecordsInvariant == Spec => []RecordsInv
<1>1. Init => RecordsInv
  BY DEF Init, RecordsInv, KeysRecordedOnce, InboxInOrder, WritesInTokenOrder, WrittenBelowFence
<1> QED BY <1>1, RecordsInvStep, TypeInvariant, ClaimsInvariant, PTL DEF Spec

(* Once a pass has written, nothing an earlier one had in flight lands     *)
(* behind it.                                                              *)
THEOREM TokenOrder == Spec => []WritesInTokenOrder
<1>1. RecordsInv => WritesInTokenOrder
  BY DEF RecordsInv
<1> QED BY <1>1, RecordsInvariant, PTL

-----------------------------------------------------------------------------
(* Transacted effects.                                                     *)

(* First writer wins: a write keeps every key recorded and adds its own.   *)
LEMMA KeysOfGrow ==
  ASSUME NEW log \in Seq(Stored), NEW r \in Stored
  PROVE  KeysOf(Append(log, r)) = KeysOf(log) \cup {r.key}
<1>1. /\ Len(Append(log, r)) = Len(log) + 1
      /\ Len(log) \in Nat
      /\ \A i \in 1..Len(log) : Append(log, r)[i] = log[i]
      /\ Append(log, r)[Len(log) + 1] = r
  OBVIOUS
<1>2. \A k : k \in KeysOf(Append(log, r)) => k \in KeysOf(log) \cup {r.key}
  BY <1>1 DEF KeysOf
<1>3. \A k : k \in KeysOf(log) \cup {r.key} => k \in KeysOf(Append(log, r))
  BY <1>1 DEF KeysOf
<1> QED BY <1>2, <1>3

(* Every operation keeps effects and their records together.               *)
LEMMA EffectStep ==
  TypeOK /\ TypeOK' /\ EffectWithItsRecord /\ [Next]_vars => EffectWithItsRecord'
<1> SUFFICES ASSUME TypeOK, TypeOK', EffectWithItsRecord, [Next]_vars
             PROVE  EffectWithItsRecord'
  OBVIOUS
<1>0. /\ hashes \in [Workflows -> Seq(Stored)]
      /\ data \in [Workflows -> [StepKeys -> Nat]]
      /\ held \in [Workers -> [Workflows -> Nat]]
      /\ StepKeys \subseteq Keys
  BY DEF TypeOK, Keys
<1>1. CASE UNCHANGED <<hashes, data>>
  BY <1>1 DEF EffectWithItsRecord
<1>2. ASSUME NEW w \in Workflows, NEW k \in StepKeys, NEW v \in Values, NEW by \in Nat,
             SetDefault(w, k, v, by)
      PROVE  /\ \A u \in Workflows : KeysOf(hashes[u]) \subseteq KeysOf(hashes'[u])
             /\ k \in KeysOf(hashes'[w])
  <2>1. k \in Keys /\ [key |-> k, value |-> v, by |-> by] \in Stored
    BY <1>0 DEF Stored
  <2>2. \A u \in Workflows : u # w => hashes'[u] = hashes[u]
    BY <1>0, <1>2, <2>1, SetDefaultLog
  <2>3. CASE hashes'[w] = hashes[w] /\ k \in KeysOf(hashes[w])
    BY <2>2, <2>3
  <2>4. CASE hashes'[w] = Append(hashes[w], [key |-> k, value |-> v, by |-> by])
    <3>1. hashes[w] \in Seq(Stored)
      BY <1>0
    <3>2. KeysOf(hashes'[w]) = KeysOf(hashes[w]) \cup {k}
      BY <2>1, <2>4, <3>1, KeysOfGrow
    <3> QED BY <2>2, <3>2
  <2> QED BY <1>0, <1>2, <2>1, <2>3, <2>4, SetDefaultLog
<1>3. ASSUME NEW w \in Workflows, NEW k \in StepKeys, NEW v \in Values, NEW by \in Nat,
             SetDefault(w, k, v, by), data' = data
      PROVE  EffectWithItsRecord'
  BY <1>2, <1>3 DEF EffectWithItsRecord
<1>4. ASSUME NEW p \in Workers, NEW w \in Workflows, NEW k \in StepKeys, NEW v \in Values,
             Transact(p, w, k, v)
      PROVE  EffectWithItsRecord'
  <2>1. /\ \A u \in Workflows : KeysOf(hashes[u]) \subseteq KeysOf(hashes'[u])
        /\ k \in KeysOf(hashes'[w])
    BY <1>0, <1>2, <1>4 DEF Transact
  <2>2. /\ data'[w][k] = IF k \in KeysOf(hashes[w]) THEN data[w][k] ELSE data[w][k] + 1
        /\ \A u \in Workflows, j \in StepKeys : u # w \/ j # k => data'[u][j] = data[u][j]
    BY <1>0, <1>4 DEF Transact
  <2>3. data[w][k] \in Nat /\ data[w][k] <= 1
    BY <1>0 DEF EffectWithItsRecord
  <2>4. k \notin KeysOf(hashes[w]) => data[w][k] = 0
    BY <2>3 DEF EffectWithItsRecord
  <2>5. data'[w][k] <= 1
    BY <2>2, <2>3, <2>4
  <2> QED BY <2>1, <2>2, <2>5 DEF EffectWithItsRecord
<1>5. ASSUME NEW w \in Workflows, NEW v \in Values, AppendInbox(w, v)
      PROVE  EffectWithItsRecord'
  <2>1. [key |-> Len(hashes[w]), value |-> v, by |-> 0] \in Stored
    BY <1>0, <1>5, BoundsNatural DEF AppendInbox, Keys, Stored
  <2>2. \A u \in Workflows : KeysOf(hashes[u]) \subseteq KeysOf(hashes'[u])
    BY <1>0, <1>5, <2>1, KeysOfGrow DEF AppendInbox
  <2> QED BY <1>5, <2>2 DEF AppendInbox, EffectWithItsRecord
<1>6. ASSUME NEW w \in Workflows, Discard(w)
      PROVE  EffectWithItsRecord'
  BY <1>0, <1>6 DEF Discard, EffectWithItsRecord
<1>7. ASSUME NEW p \in Workers, NEW w \in Workflows, NEW k \in StepKeys, NEW v \in Values,
             RecordStep(p, w, k, v)
      PROVE  EffectWithItsRecord'
  BY <1>0, <1>3, <1>7 DEF RecordStep
<1>8. ASSUME NEW w \in Workflows, NEW k \in StepKeys, NEW v \in Values, Supply(w, k, v)
      PROVE  EffectWithItsRecord'
  BY <1>3, <1>8 DEF Supply
<1>9. ASSUME NEW p \in Workers, NEW w \in Workflows, Passing(p, w)
      PROVE  EffectWithItsRecord'
  BY <1>1, <1>4, <1>7, <1>9
     DEF Passing, Take, Extend, Renew, TransactFails, Release, Forget
<1>10. CASE Tick \/ UNCHANGED vars
  BY <1>1, <1>10 DEF Tick, vars
<1> QED BY <1>5, <1>6, <1>8, <1>9, <1>10 DEF Next, Outside

(* An effect is applied at most once, and only together with its record.   *)
THEOREM EffectOnce == Spec => []EffectWithItsRecord
<1>1. Init => EffectWithItsRecord
  BY DEF Init, EffectWithItsRecord
<1> QED BY <1>1, EffectStep, TypeInvariant, PTL DEF Spec

-----------------------------------------------------------------------------
(* The store implements the fenced log.                                    *)

Fences == [w \in Workflows |-> claims[w].token]

(* The fence of the abstract log is the token of the claim row.            *)
LEMMA FenceAt ==
  ASSUME NEW w \in Workflows, NEW token,
         claims'[w].token = token,
         \A u \in Workflows : u # w => claims'[u].token = claims[u].token
  PROVE  Fences' = [Fences EXCEPT ![w] = token]
BY DEF Fences

(* A step that keeps every token keeps the fence of the abstract log.      *)
LEMMA FenceStays ==
  ASSUME \A u \in Workflows : claims'[u].token = claims[u].token
  PROVE  Fences' = Fences
BY DEF Fences

(* Every operation of the store is a step of the fenced log, or a stutter. *)
LEMMA LogStep ==
  TypeOK /\ TypeOK' /\ ClaimsInv /\ RecordsInv /\ [Next]_vars => [Log!Next]_(Log!vars)
<1> SUFFICES ASSUME TypeOK, TypeOK', ClaimsInv, RecordsInv, [Next]_vars
             PROVE  Log!Next \/ UNCHANGED <<Fences, held, hashes>>
  BY DEF Log!vars, Fences
<1>0. /\ hashes \in [Workflows -> Seq(Stored)]
      /\ \A u \in Workflows : claims[u].token \in Nat
      /\ StepKeys \subseteq Keys
      /\ \A u \in Workflows : Log!KeysOf(hashes[u]) = KeysOf(hashes[u])
  BY DEF TypeOK, Claim, Keys, KeysOf, Log!KeysOf
<1>1. CASE Tick \/ UNCHANGED vars
  BY <1>1 DEF Tick, vars, Fences
<1>2. ASSUME NEW p \in Workers, NEW w \in Workflows,
             NEW budget \in Budgets, NEW alive \in Windows, Take(p, w, budget, alive)
      PROVE  Log!Next
  <2>1. Fences' = [Fences EXCEPT ![w] = claims[w].token + 1]
    BY <1>2, ClaimRaisesFence, FenceAt
  <2>2. Log!Grant(p, w)
    BY <1>2, <2>1 DEF Take, Log!Grant, Fences
  <2> QED BY <2>2 DEF Log!Next
<1>3. ASSUME NEW p \in Workers, NEW w \in Workflows, hashes' = hashes, held' = held,
             \/ \E budget \in Budgets, alive \in Windows : Extend(p, w, budget, alive)
             \/ \E alive \in Windows : Renew(p, w, alive)
             \/ Wrote(p, w)
             \/ Release(p, w)
      PROVE  UNCHANGED <<Fences, held, hashes>>
  BY <1>3, SignsOfLifeKeepFence, FenceStays
<1>4. ASSUME NEW p \in Workers, NEW w \in Workflows, NEW k \in StepKeys, NEW v \in Values,
             RecordStep(p, w, k, v) \/ Transact(p, w, k, v)
      PROVE  Log!Next \/ UNCHANGED <<Fences, held, hashes>>
  <2>1. Fits(p, w) /\ Wrote(p, w) /\ SetDefault(w, k, v, held[p][w]) /\ held' = held
    BY <1>4 DEF RecordStep, Transact
  <2>2. Fences' = Fences
    BY <2>1, SignsOfLifeKeepFence, FenceStays
  <2>3. CASE k \in KeysOf(hashes[w])
    BY <1>0, <2>1, <2>2, <2>3 DEF SetDefault
  <2>4. CASE k \notin KeysOf(hashes[w])
    <3>1. hashes' = [hashes EXCEPT ![w] = Append(@, [key |-> k, value |-> v, by |-> held[p][w]])]
      BY <2>1, <2>4 DEF SetDefault
    <3>2. held[p][w] > 0 /\ held[p][w] = Fences[w]
      BY <1>0, <2>1 DEF Fits, Fences, ClaimsInv, NoPassAboveFence, TypeOK
    <3>3. Log!Write(p, w, k, v)
      BY <1>0, <2>1, <2>2, <2>4, <3>1, <3>2 DEF Log!Write, Fences
    <3> QED BY <1>0, <3>3 DEF Log!Next
  <2> QED BY <2>3, <2>4
<1>5. ASSUME NEW w \in Workflows, NEW k \in Keys, NEW v \in Values,
             UNCHANGED <<claims, held>>, k \notin KeysOf(hashes[w]),
             hashes' = [hashes EXCEPT ![w] = Append(@, [key |-> k, value |-> v, by |-> 0])]
      PROVE  Log!Next
  <2>1. Log!Answer(w, k, v)
    BY <1>0, <1>5 DEF Log!Answer
  <2> QED BY <2>1 DEF Log!Next
<1>6. ASSUME NEW w \in Workflows, NEW k \in StepKeys, NEW v \in Values, Supply(w, k, v)
      PROVE  Log!Next \/ UNCHANGED <<Fences, held, hashes>>
  <2>1. CASE k \in KeysOf(hashes[w])
    BY <1>0, <1>6, <2>1 DEF Supply, SetDefault, Fences
  <2>2. CASE k \notin KeysOf(hashes[w])
    BY <1>0, <1>5, <1>6, <2>2 DEF Supply, SetDefault
  <2> QED BY <2>1, <2>2
<1>7. ASSUME NEW w \in Workflows, NEW v \in Values, AppendInbox(w, v)
      PROVE  Log!Next
  <2>1. Len(hashes[w]) \in Nat /\ Len(hashes[w]) \in Keys
    BY <1>0, <1>7, BoundsNatural DEF AppendInbox, Keys
  <2>2. Len(hashes[w]) \notin KeysOf(hashes[w])
    BY <2>1 DEF KeysOf, RecordsInv, InboxInOrder
  <2> QED BY <1>5, <1>7, <2>1, <2>2 DEF AppendInbox
<1>8. ASSUME NEW w \in Workflows, Discard(w)
      PROVE  Log!Next
  <2>1. Fences' = [Fences EXCEPT ![w] = IF claims[w].token = 0 THEN 0 ELSE claims[w].token + 1]
    BY <1>8, DiscardRaisesFence, FenceAt
  <2>2. Log!Forget(w)
    BY <1>8, <2>1 DEF Discard, Log!Forget, Fences
  <2> QED BY <2>2 DEF Log!Next
<1>9. ASSUME NEW p \in Workers, NEW w \in Workflows, Forget(p, w)
      PROVE  Log!Next
  <2>1. Log!Drop(p, w)
    BY <1>9 DEF Forget, Log!Drop
  <2> QED BY <2>1 DEF Log!Next
<1>10. ASSUME NEW p \in Workers, NEW w \in Workflows, Passing(p, w)
       PROVE  Log!Next \/ UNCHANGED <<Fences, held, hashes>>
  BY <1>2, <1>3, <1>4, <1>9, <1>10 DEF Passing, Extend, Renew, TransactFails, Release
<1> QED BY <1>1, <1>6, <1>7, <1>8, <1>10 DEF Next, Outside

(* Leases, budgets, renewals and releases decide who is granted a pass and *)
(* when, and change nothing about what a granted one may write.            *)
THEOREM ImplementsLog == Spec => LogSpec
<1>1. Init => Log!Init
  BY DEF Init, Unclaimed, Log!Init
<1> QED BY <1>1, LogStep, TypeInvariant, ClaimsInvariant, RecordsInvariant, PTL
        DEF Spec, LogSpec, Log!Spec

-----------------------------------------------------------------------------
(* What a step may never do.                                               *)

(* A log grows by whole records or goes altogether.                        *)
THEOREM LogsGrowOrGo == Spec => LogGrowsOrGoes
<1> DEFINE Kept(w) == /\ Len(hashes'[w]) >= Len(hashes[w])
                      /\ \A i \in 1..Len(hashes[w]) : hashes'[w][i] = hashes[w][i]
<1>1. TypeOK /\ [Next]_vars =>
        \A w \in Workflows :
          \/ hashes'[w] = <<>>
          \/ /\ Len(hashes'[w]) >= Len(hashes[w])
             /\ \A i \in 1..Len(hashes[w]) : hashes'[w][i] = hashes[w][i]
  <2> SUFFICES ASSUME TypeOK, [Next]_vars, NEW u \in Workflows
               PROVE  hashes'[u] = <<>> \/ Kept(u)
    OBVIOUS
  <2>0. /\ hashes \in [Workflows -> Seq(Stored)]
        /\ StepKeys \subseteq Keys
        /\ \A p \in Workers, w \in Workflows : held[p][w] \in Nat
        /\ Len(hashes[u]) \in Nat
    BY DEF TypeOK, Keys
  <2>1. ASSUME hashes' = hashes
        PROVE  Kept(u)
    BY <2>0, <2>1
  <2>2. ASSUME NEW r, hashes'[u] = Append(hashes[u], r), r \in Stored
        PROVE  Kept(u)
    BY <2>0, <2>2
  <2>3. ASSUME NEW w \in Workflows, NEW k \in StepKeys, NEW v \in Values, NEW by \in Nat,
               SetDefault(w, k, v, by)
        PROVE  Kept(u)
    <3>1. k \in Keys /\ [key |-> k, value |-> v, by |-> by] \in Stored
      BY <2>0 DEF Stored
    <3>2. \/ hashes'[u] = hashes[u]
          \/ hashes'[u] = Append(hashes[u], [key |-> k, value |-> v, by |-> by])
      BY <2>0, <2>3, <3>1, SetDefaultLog
    <3> QED BY <2>0, <2>2, <3>1, <3>2
  <2>4. ASSUME NEW w \in Workflows, NEW v \in Values, AppendInbox(w, v)
        PROVE  Kept(u)
    <3>1. [key |-> Len(hashes[w]), value |-> v, by |-> 0] \in Stored
      BY <2>0, <2>4, BoundsNatural DEF AppendInbox, Keys, Stored
    <3>2. \/ hashes'[u] = hashes[u]
          \/ hashes'[u] = Append(hashes[u], [key |-> Len(hashes[w]), value |-> v, by |-> 0])
      BY <2>0, <2>4 DEF AppendInbox
    <3> QED BY <2>0, <2>2, <3>1, <3>2
  <2>5. ASSUME NEW w \in Workflows, Discard(w)
        PROVE  hashes'[u] = <<>> \/ Kept(u)
    BY <2>0, <2>5 DEF Discard
  <2>6. ASSUME NEW p \in Workers, NEW w \in Workflows, NEW k \in StepKeys, NEW v \in Values,
               RecordStep(p, w, k, v) \/ Transact(p, w, k, v)
        PROVE  Kept(u)
    BY <2>0, <2>3, <2>6 DEF RecordStep, Transact
  <2>7. ASSUME NEW w \in Workflows, NEW k \in StepKeys, NEW v \in Values, Supply(w, k, v)
        PROVE  Kept(u)
    BY <2>3, <2>7 DEF Supply
  <2> HIDE DEF Kept
  <2>8. ASSUME NEW p \in Workers, NEW w \in Workflows, Passing(p, w)
        PROVE  Kept(u)
    BY <2>1, <2>6, <2>8 DEF Passing, Take, Extend, Renew, TransactFails, Release, Forget
  <2>9. CASE Tick \/ UNCHANGED vars
    BY <2>1, <2>9 DEF Tick, vars
  <2> QED BY <2>4, <2>5, <2>7, <2>8, <2>9 DEF Next, Outside
<1> QED BY <1>1, TypeInvariant, PTL DEF Spec, LogGrowsOrGoes

(* When records go, no Pass in anybody's hands can write them back.        *)
THEOREM DiscardsFence == Spec => DiscardFencesEveryPass
<1> DEFINE Fenced(w, p) == held'[p][w] < claims'[w].token
<1>1. TypeOK /\ ClaimsInv /\ [Next]_vars =>
        \A w \in Workflows, p \in Workers :
          hashes[w] # <<>> /\ hashes'[w] = <<>> /\ held[p][w] > 0 => Fenced(w, p)
  <2> SUFFICES ASSUME TypeOK, ClaimsInv, [Next]_vars,
                      NEW u \in Workflows, NEW q \in Workers,
                      hashes[u] # <<>>, hashes'[u] = <<>>, held[q][u] > 0
               PROVE  Fenced(u, q)
    OBVIOUS
  <2>0. /\ hashes \in [Workflows -> Seq(Stored)]
        /\ held[q][u] \in Nat /\ claims[u].token \in Nat
        /\ held[q][u] <= claims[u].token
    BY DEF TypeOK, Claim, ClaimsInv, NoPassAboveFence
  <2>1. hashes'[u] # hashes[u]
    OBVIOUS
  <2>2. ASSUME NEW w \in Workflows, Discard(w)
        PROVE  Fenced(u, q)
    <3>1. w = u
      BY <2>0, <2>1, <2>2 DEF Discard
    <3>2. claims'[u].token = IF claims[u].token = 0 THEN 0 ELSE claims[u].token + 1
      BY <2>2, <3>1, DiscardRaisesFence
    <3>3. held' = held
      BY <2>2 DEF Discard
    <3> QED BY <2>0, <3>2, <3>3
  <2>3. ASSUME NEW w \in Workflows, NEW k \in StepKeys, NEW v \in Values, NEW by,
               SetDefault(w, k, v, by)
        PROVE  FALSE
    BY <2>0, <2>1, <2>3 DEF SetDefault
  <2>4. ASSUME NEW w \in Workflows, NEW v \in Values, AppendInbox(w, v)
        PROVE  FALSE
    BY <2>0, <2>1, <2>4 DEF AppendInbox
  <2>5. ASSUME NEW p \in Workers, NEW w \in Workflows, NEW k \in StepKeys, NEW v \in Values,
               RecordStep(p, w, k, v) \/ Transact(p, w, k, v)
        PROVE  FALSE
    BY <2>3, <2>5 DEF RecordStep, Transact
  <2>6. ASSUME NEW w \in Workflows, NEW k \in StepKeys, NEW v \in Values, Supply(w, k, v)
        PROVE  FALSE
    BY <2>3, <2>6 DEF Supply
  <2>7. ASSUME NEW p \in Workers, NEW w \in Workflows, Passing(p, w)
        PROVE  FALSE
    BY <2>1, <2>5, <2>7 DEF Passing, Take, Extend, Renew, TransactFails, Release, Forget
  <2>8. CASE Tick \/ UNCHANGED vars
    BY <2>1, <2>8 DEF Tick, vars
  <2> QED BY <2>2, <2>4, <2>6, <2>7, <2>8 DEF Next, Outside
<1> QED BY <1>1, TypeInvariant, ClaimsInvariant, PTL DEF Spec, DiscardFencesEveryPass
-----------------------------------------------------------------------------
(* Only one Pass may write: the store implements PassLog.                  *)

Writers == [w \in Workflows |-> Newest(w)]

Recorded == [w \in Workflows |-> KeysOf(hashes[w])]

(* Who is let through is a function of the fence and the Passes held.      *)
WritersAreWhoFits ==
  \A w \in Workflows :
    /\ Writers[w] \in Workers \cup {NoWorker}
    /\ \A p \in Workers : Writers[w] = p <=> Fits(p, w)

(* Since at most one fits, the one chosen is the one that does.            *)
LEMMA WhoFitsIsNewest == TypeOK /\ ClaimsInv => WritersAreWhoFits
<1> SUFFICES ASSUME TypeOK, ClaimsInv, NEW w \in Workflows
             PROVE  /\ Newest(w) \in Workers \cup {NoWorker}
                    /\ \A p \in Workers : Newest(w) = p <=> Fits(p, w)
  BY DEF WritersAreWhoFits, Writers
<1>1. \A p, q \in Workers : Fits(p, w) /\ Fits(q, w) => p = q
  BY DEF Fits, ClaimsInv, NoPassAboveFence, TokensDistinct, TypeOK, Claim
<1>2. CASE \E p \in Workers : Fits(p, w)
  <2>1. Newest(w) = CHOOSE p \in Workers : Fits(p, w)
    BY <1>2 DEF Newest
  <2>2. Newest(w) \in Workers /\ Fits(Newest(w), w)
    BY <1>2, <2>1
  <2> QED BY <1>1, <2>2
<1>3. CASE ~ \E p \in Workers : Fits(p, w)
  <2>1. Newest(w) = NoWorker
    BY <1>3 DEF Newest
  <2> QED BY <1>3, <2>1, NoWorkerIsNone
<1> QED BY <1>2, <1>3

(* The same of the state a step leads to.                                  *)
LEMMA WhoFitsIsNewestNext == TypeOK' /\ ClaimsInv' => WritersAreWhoFits'
BY WhoFitsIsNewest, PTL

(* Where a step lets through whom it let through before, the writer stays. *)
LEMMA WriterStays ==
  ASSUME WritersAreWhoFits, WritersAreWhoFits', NEW w \in Workflows,
         \A p \in Workers : Fits(p, w)' <=> Fits(p, w)
  PROVE  Writers'[w] = Writers[w]
<1>1. /\ Writers[w] \in Workers \cup {NoWorker}
      /\ \A p \in Workers : Writers[w] = p <=> Fits(p, w)
  BY DEF WritersAreWhoFits
<1>2. /\ Writers'[w] \in Workers \cup {NoWorker}
      /\ \A p \in Workers : Writers'[w] = p <=> Fits(p, w)'
  BY DEF WritersAreWhoFits
<1> QED BY <1>1, <1>2

(* Where nobody is let through, there is no writer.                        *)
LEMMA NoWriterWhereNobodyFits ==
  ASSUME WritersAreWhoFits', NEW w \in Workflows, \A p \in Workers : ~ Fits(p, w)'
  PROVE  Writers'[w] = NoWorker
<1>1. /\ Writers'[w] \in Workers \cup {NoWorker}
      /\ \A p \in Workers : Writers'[w] = p <=> Fits(p, w)'
  BY DEF WritersAreWhoFits
<1> QED BY <1>1

(* Whom the fence lets through at u changes only with the token of u or    *)
(* the Passes held at u.                                                   *)
LEMMA FitsUnchanged ==
  ASSUME NEW u \in Workflows, claims'[u].token = claims[u].token,
         NEW q \in Workers, held'[q][u] = held[q][u]
  PROVE  Fits(q, u)' <=> Fits(q, u)
BY DEF Fits

(* A step that changes neither changes no writer anywhere.                 *)
LEMMA WritersStay ==
  ASSUME WritersAreWhoFits, WritersAreWhoFits', held' = held,
         \A u \in Workflows : claims'[u].token = claims[u].token
  PROVE  Writers' = Writers
<1>1. \A u \in Workflows : \A q \in Workers : Fits(q, u)' <=> Fits(q, u)
  BY FitsUnchanged
<1>2. \A u \in Workflows : Writers'[u] = Writers[u]
  BY <1>1, WriterStays
<1> QED BY <1>2 DEF Writers

(* A step that is about w changes no writer elsewhere.                     *)
LEMMA WriterSetAt ==
  ASSUME WritersAreWhoFits, WritersAreWhoFits', NEW w \in Workflows,
         \A u \in Workflows : u # w =>
           /\ claims'[u].token = claims[u].token
           /\ \A q \in Workers : held'[q][u] = held[q][u]
  PROVE  Writers' = [Writers EXCEPT ![w] = Writers'[w]]
<1>1. \A u \in Workflows : u # w => Writers'[u] = Writers[u]
  BY FitsUnchanged, WriterStays
<1>2. Writers = [u \in Workflows |-> Writers[u]] /\ Writers' = [u \in Workflows |-> Writers'[u]]
  BY DEF Writers
<1> HIDE DEF Writers
<1> QED BY <1>1, <1>2

(* One record more, or none when the key has one already, adds its key.    *)
LEMMA KeyFiled ==
  ASSUME TypeOK, NEW w \in Workflows, NEW k \in Keys, NEW v \in Values, NEW by \in Nat,
         \A u \in Workflows : u # w => hashes'[u] = hashes[u],
         \/ hashes'[w] = hashes[w] /\ k \in KeysOf(hashes[w])
         \/ hashes'[w] = Append(hashes[w], [key |-> k, value |-> v, by |-> by])
  PROVE  OnePass!Files(w, k)
<1>1. hashes[w] \in Seq(Stored) /\ [key |-> k, value |-> v, by |-> by] \in Stored
  BY DEF TypeOK, Stored
<1>2. KeysOf(hashes'[w]) = KeysOf(hashes[w]) \cup {k}
  BY <1>1, KeysOfGrow
<1>3. \A u \in Workflows : u # w => KeysOf(hashes'[u]) = KeysOf(hashes[u])
  OBVIOUS
<1>4. Recorded' = [Recorded EXCEPT ![w] = @ \cup {k}]
  <2> DEFINE Before(u) == KeysOf(hashes[u])
             After(u) == KeysOf(hashes'[u])
  <2>1. /\ Recorded = [u \in Workflows |-> Before(u)]
        /\ Recorded' = [u \in Workflows |-> After(u)]
    BY DEF Recorded, KeysOf
  <2>2. After(w) = Before(w) \cup {k} /\ \A u \in Workflows : u # w => After(u) = Before(u)
    BY <1>2, <1>3
  <2> HIDE DEF Before, After
  <2> QED BY <2>1, <2>2
<1> QED BY <1>4 DEF OnePass!Files, Recorded

(* That is what writing a key where it has no record does.                 *)
LEMMA DefaultFiled ==
  ASSUME TypeOK, NEW w \in Workflows, NEW k \in Keys, NEW v \in Values, NEW by \in Nat,
         SetDefault(w, k, v, by)
  PROVE  OnePass!Files(w, k)
<1>1. hashes \in [Workflows -> Seq(Stored)]
  BY DEF TypeOK
<1>2. /\ \A u \in Workflows : u # w => hashes'[u] = hashes[u]
      /\ \/ hashes'[w] = hashes[w] /\ k \in KeysOf(hashes[w])
         \/ hashes'[w] = Append(hashes[w], [key |-> k, value |-> v, by |-> by])
  BY <1>1, SetDefaultLog
<1> QED BY <1>2, KeyFiled

(* Every operation of the store is a step of the one-Pass log, or a        *)
(* stutter.                                                                *)
LEMMA PassStep ==
  TypeOK /\ TypeOK' /\ ClaimsInv /\ ClaimsInv' /\ [Next]_vars => [OnePass!Next]_(OnePass!vars)
<1> SUFFICES ASSUME TypeOK, TypeOK', ClaimsInv, ClaimsInv', [Next]_vars
             PROVE  OnePass!Next \/ UNCHANGED <<Writers, Recorded>>
  BY DEF OnePass!vars, Writers, Recorded
<1>0. /\ hashes \in [Workflows -> Seq(Stored)]
      /\ \A u \in Workflows : claims[u].token \in Nat
      /\ held \in [Workers -> [Workflows -> Nat]]
      /\ StepKeys \subseteq Keys
      /\ WritersAreWhoFits /\ WritersAreWhoFits'
  BY WhoFitsIsNewest, WhoFitsIsNewestNext DEF TypeOK, Claim, Keys
<1>1. CASE Tick \/ UNCHANGED vars
  <2>1. UNCHANGED <<claims, held, hashes>>
    BY <1>1 DEF Tick, vars
  <2>2. Writers' = Writers
    BY <1>0, <2>1, WritersStay
  <2> QED BY <2>1, <2>2 DEF Recorded, KeysOf
<1>2. ASSUME NEW p \in Workers, NEW w \in Workflows,
             NEW budget \in Budgets, NEW alive \in Windows, Take(p, w, budget, alive)
      PROVE  OnePass!Next
  <2>1. /\ claims'[w].token = claims[w].token + 1
        /\ \A u \in Workflows : u # w => claims'[u].token = claims[u].token
    BY <1>2, ClaimRaisesFence
  <2>2. /\ held'[p][w] = claims[w].token + 1
        /\ \A u \in Workflows, q \in Workers : u # w => held'[q][u] = held[q][u]
        /\ hashes' = hashes
    BY <1>0, <1>2 DEF Take
  <2>3. Fits(p, w)'
    BY <1>0, <2>1, <2>2 DEF Fits
  <2>4. Writers'[w] = p
    BY <1>0, <2>3 DEF WritersAreWhoFits
  <2>5. Writers' = [Writers EXCEPT ![w] = p]
    BY <1>0, <2>1, <2>2, <2>4, WriterSetAt
  <2>6. OnePass!Grant(p, w)
    BY <2>2, <2>5 DEF OnePass!Grant, Writers, KeysOf
  <2> QED BY <2>6 DEF OnePass!Next
<1>3. ASSUME NEW p \in Workers, NEW w \in Workflows, hashes' = hashes, held' = held,
             \/ \E budget \in Budgets, alive \in Windows : Extend(p, w, budget, alive)
             \/ \E alive \in Windows : Renew(p, w, alive)
             \/ Wrote(p, w)
             \/ Release(p, w)
      PROVE  UNCHANGED <<Writers, Recorded>>
  <2>1. Writers' = Writers
    BY <1>0, <1>3, SignsOfLifeKeepFence, WritersStay
  <2> QED BY <1>3, <2>1 DEF Recorded, KeysOf
<1>4. ASSUME NEW p \in Workers, NEW w \in Workflows, NEW k \in StepKeys, NEW v \in Values,
             RecordStep(p, w, k, v) \/ Transact(p, w, k, v)
      PROVE  OnePass!Next
  <2>1. Fits(p, w) /\ Wrote(p, w) /\ SetDefault(w, k, v, held[p][w]) /\ held' = held
    BY <1>4 DEF RecordStep, Transact
  <2>2. Writers' = Writers
    BY <1>0, <2>1, SignsOfLifeKeepFence, WritersStay
  <2>3. Writers[w] = p
    BY <1>0, <2>1 DEF WritersAreWhoFits
  <2>4. k \in Keys /\ held[p][w] \in Nat
    BY <1>0
  <2>5. OnePass!Files(w, k)
    BY <2>1, <2>4, DefaultFiled
  <2>6. OnePass!Write(p, w, k)
    BY <2>2, <2>3, <2>5 DEF OnePass!Write, Writers
  <2> QED BY <2>4, <2>6 DEF OnePass!Next
<1>5. ASSUME NEW w \in Workflows, NEW k \in Keys, OnePass!Files(w, k), UNCHANGED <<claims, held>>
      PROVE  OnePass!Next
  <2>1. Writers' = Writers
    BY <1>0, <1>5, WritersStay
  <2>2. OnePass!Answer(w, k)
    BY <1>5, <2>1 DEF OnePass!Answer, Writers
  <2> QED BY <2>2 DEF OnePass!Next
<1>6. ASSUME NEW w \in Workflows, NEW k \in StepKeys, NEW v \in Values, Supply(w, k, v)
      PROVE  OnePass!Next
  <2>1. k \in Keys /\ 0 \in Nat
    BY <1>0
  <2>2. OnePass!Files(w, k)
    BY <1>6, <2>1, DefaultFiled DEF Supply
  <2> QED BY <1>5, <1>6, <2>1, <2>2 DEF Supply
<1>7. ASSUME NEW w \in Workflows, NEW v \in Values, AppendInbox(w, v)
      PROVE  OnePass!Next
  <2>1. Len(hashes[w]) \in Keys
    BY <1>0, <1>7, BoundsNatural DEF AppendInbox, Keys
  <2>2. /\ hashes'[w] = Append(hashes[w], [key |-> Len(hashes[w]), value |-> v, by |-> 0])
        /\ \A u \in Workflows : u # w => hashes'[u] = hashes[u]
    BY <1>0, <1>7 DEF AppendInbox
  <2>3. OnePass!Files(w, Len(hashes[w]))
    BY <2>1, <2>2, KeyFiled
  <2> QED BY <1>5, <1>7, <2>1, <2>3 DEF AppendInbox
<1>8. ASSUME NEW w \in Workflows, Discard(w)
      PROVE  OnePass!Next
  <2>1. /\ claims'[w].token = IF claims[w].token = 0 THEN 0 ELSE claims[w].token + 1
        /\ \A u \in Workflows : u # w => claims'[u].token = claims[u].token
    BY <1>8, DiscardRaisesFence
  <2>2. held' = held /\ hashes' = [hashes EXCEPT ![w] = <<>>]
    BY <1>8 DEF Discard
  <2>3. \A p \in Workers : held[p][w] \in Nat /\ held[p][w] <= claims[w].token
    BY <1>0 DEF ClaimsInv, NoPassAboveFence
  <2>4. \A p \in Workers : ~ Fits(p, w)'
    BY <1>0, <2>1, <2>2, <2>3 DEF Fits
  <2>5. Writers' = [Writers EXCEPT ![w] = NoWorker]
    BY <1>0, <2>1, <2>2, <2>4, NoWriterWhereNobodyFits, WriterSetAt
  <2>6. Recorded' = [Recorded EXCEPT ![w] = {}]
    <3>1. KeysOf(<<>>) = {}
      BY DEF KeysOf
    <3>2. hashes'[w] = <<>> /\ \A u \in Workflows : u # w => hashes'[u] = hashes[u]
      BY <1>0, <2>2
    <3>3. Recorded' = [u \in Workflows |-> IF u = w THEN {} ELSE KeysOf(hashes[u])]
      BY <3>1, <3>2 DEF Recorded
    <3> QED BY <3>3 DEF Recorded
  <2>7. OnePass!Forget(w)
    BY <2>5, <2>6 DEF OnePass!Forget, Writers, Recorded
  <2> QED BY <2>7 DEF OnePass!Next
<1>9. ASSUME NEW p \in Workers, NEW w \in Workflows, Forget(p, w)
      PROVE  OnePass!Next
  <2>1. /\ UNCHANGED <<claims, hashes>>
        /\ held'[p][w] = 0
        /\ \A q \in Workers : q # p => held'[q][w] = held[q][w]
        /\ \A u \in Workflows, q \in Workers : u # w => held'[q][u] = held[q][u]
    BY <1>0, <1>9 DEF Forget
  <2>2. ~ Fits(p, w)' /\ \A q \in Workers : q # p => (Fits(q, w)' <=> Fits(q, w))
    BY <2>1, FitsUnchanged DEF Fits
  <2>3. /\ Writers[w] \in Workers \cup {NoWorker} /\ Writers'[w] \in Workers \cup {NoWorker}
        /\ \A q \in Workers : Writers[w] = q <=> Fits(q, w)
        /\ \A q \in Workers : Writers'[w] = q <=> Fits(q, w)'
    BY <1>0 DEF WritersAreWhoFits
  <2>4. Writers'[w] = IF Writers[w] = p THEN NoWorker ELSE Writers[w]
    BY <2>2, <2>3, NoWorkerIsNone
  <2>5. Writers' = [Writers EXCEPT ![w] = IF Writers[w] = p THEN NoWorker ELSE Writers[w]]
    BY <1>0, <2>1, <2>4, WriterSetAt
  <2>6. OnePass!Drop(p, w)
    BY <2>1, <2>5 DEF OnePass!Drop, Writers, KeysOf
  <2> QED BY <2>6 DEF OnePass!Next
<1>10. ASSUME NEW p \in Workers, NEW w \in Workflows, Passing(p, w)
       PROVE  OnePass!Next \/ UNCHANGED <<Writers, Recorded>>
  BY <1>2, <1>3, <1>4, <1>9, <1>10 DEF Passing, Extend, Renew, TransactFails, Release
<1> QED BY <1>1, <1>6, <1>7, <1>8, <1>10 DEF Next, Outside

(* To whoever only asks who may write and which keys there are, as the     *)
(* worker does, the store is one Pass per workflow and a set of keys.      *)
THEOREM ImplementsPassLog == Spec => PassSpec
<1>1. Init => OnePass!Init
  BY DEF Init, Newest, Fits, KeysOf, OnePass!Init
<1> QED BY <1>1, PassStep, TypeInvariant, ClaimsInvariant, PTL
        DEF Spec, PassSpec, OnePass!Spec
=============================================================================
