---------------------------- MODULE ContractProofs ----------------------------
(***************************************************************************)
(* The contracts.  What StakingContract keeps for any accounts, amounts    *)
(* and length of the list: types, that nobody pays for another, and that   *)
(* the books balance.  What VM keeps for any codes, sizes and host: types, *)
(* that gas pays for what a call takes, that no data runs, and that a      *)
(* contract reads what it stored.                                          *)
(***************************************************************************)
EXTENDS StakingContract, VM, Lemmas

\* A product, a quotient and a remainder of natural numbers are natural numbers.
LEMMA NatProduct ==
  ASSUME NEW m \in Nat, NEW n \in Nat
  PROVE  m * n \in Nat
  OBVIOUS

LEMMA NatDivision ==
  ASSUME NEW m \in Nat, NEW n \in Nat, n > 0
  PROVE  m \div n \in Nat /\ m % n \in Nat
  OBVIOUS

\* The counts of distributeRewards are natural numbers.
LEMMA CountsAreNat ==
  ASSUME validatorList \in Seq(Addr)
  PROVE  activeCount \in Nat /\ \A a \in Addr : Shares(a) \in Nat
  <1>1. IsFiniteSet(DOMAIN validatorList)
    BY FS_Interval
  <1>2. ActivePlaces \subseteq DOMAIN validatorList
    BY DEF ActivePlaces
  <1>3. \A S \in SUBSET ActivePlaces : Cardinality(S) \in Nat
    BY <1>1, <1>2, FS_Subset, FS_CardinalityType
  <1> QED
    BY <1>3 DEF activeCount, Shares

----------------------------------------------------------------------------
(***************************************************************************)
(* Types                                                                   *)
(***************************************************************************)

\* The counters of the contract and the amounts that no record holds any more.
NumbersOK ==
  /\ totalStaked \in Nat /\ rewardPool \in Nat /\ balance \in Nat
  /\ ownerless \in Nat /\ unpaid \in Nat /\ fund \in Nat

\* The contract starts without validators.
LEMMA TypeInit == ContractInit => ContractTypeOK
  BY DEF ContractInit, ContractTypeOK, NoValidator, Validator

\* The record of one validator is replaced.
LEMMA SetRecord ==
  ASSUME validators \in [Addr -> Validator], NEW a \in Addr, NEW s \in Nat, NEW on \in BOOLEAN
  PROVE  [validators EXCEPT ![a].stake = s, ![a].active = on] \in [Addr -> Validator]
  BY DEF Validator

\* Every call keeps the types; the list only grows, so an active validator keeps its place.
LEMMA TypeNext == ContractTypeOK /\ [ContractNext]_contractVars => ContractTypeOK'
  <1> SUFFICES ASSUME ContractTypeOK, [ContractNext]_contractVars PROVE ContractTypeOK'
    OBVIOUS
  <1> USE DEF ContractAssumption
  <1> USE ContractAssumption
  <1>1. ASSUME NEW a \in Addr, NEW amount \in Stakes, register(a, amount)
        PROVE  ContractTypeOK'
    <2>1. validators' \in [Addr -> Validator]
      BY <1>1 DEF ContractTypeOK, register, Validator
    <2>2. validatorList' \in Seq(Addr) /\ validatorList'[Len(validatorList) + 1] = a
            /\ \A i \in DOMAIN validatorList : validatorList'[i] = validatorList[i]
            /\ DOMAIN validatorList' = DOMAIN validatorList \cup {Len(validatorList) + 1}
      BY <1>1 DEF ContractTypeOK, register
    <2>3. NumbersOK'
      BY <1>1 DEF NumbersOK, ContractTypeOK, register, Receive, Validator
    <2>4. ASSUME NEW b \in Addr, validators'[b].active
          PROVE  /\ validators'[b].stake >= MIN_STAKE
                 /\ \E i \in DOMAIN validatorList' : validatorList'[i] = b
      <3>1. CASE b = a
        BY <1>1, <2>2, <3>1 DEF ContractTypeOK, register
      <3>2. CASE b # a
        <4>1. validators'[b] = validators[b]
          BY <1>1, <3>2 DEF ContractTypeOK, register
        <4> QED
          BY <4>1, <2>2, <2>4 DEF ContractTypeOK
      <3> QED
        BY <3>1, <3>2
    <2> QED
      BY <2>1, <2>2, <2>3, <2>4 DEF NumbersOK, ContractTypeOK
  <1>2. ASSUME NEW a \in Addr, unstake(a)
        PROVE  ContractTypeOK'
    <2>1. validators' \in [Addr -> Validator] /\ UNCHANGED validatorList
      <3>1. /\ validators' = [validators EXCEPT ![a].active = FALSE, ![a].stake = 0]
            /\ UNCHANGED validatorList
        BY <1>2 DEF unstake
      <3>2. validators \in [Addr -> Validator]
        BY DEF ContractTypeOK
      <3> QED
        BY <3>1, <3>2 DEF Validator
    <2>2. NumbersOK'
      <3>1. validators[a].stake \in Nat
        BY DEF ContractTypeOK, Validator
      <3> QED
        BY <1>2, <3>1 DEF NumbersOK, ContractTypeOK, unstake, Send, history
    <2>3. \A b \in Addr : validators'[b].active => validators'[b] = validators[b]
      BY <1>2 DEF ContractTypeOK, unstake, Validator
    <2> QED
      BY <2>1, <2>2, <2>3 DEF NumbersOK, ContractTypeOK
  <1>3. ASSUME NEW a \in Addr, claimReward(a)
        PROVE  ContractTypeOK'
    <2>1. validators' \in [Addr -> Validator] /\ UNCHANGED validatorList
      BY <1>3 DEF ContractTypeOK, claimReward, Validator
    <2>2. NumbersOK'
      <3>1. validators[a].rewardDebt \in Nat
        BY DEF ContractTypeOK, Validator
      <3> QED
        BY <1>3, <3>1 DEF NumbersOK, ContractTypeOK, claimReward, Send, history
    <2>3. \A b \in Addr : /\ validators'[b].active = validators[b].active
                          /\ validators'[b].stake = validators[b].stake
      BY <1>3 DEF ContractTypeOK, claimReward, Validator
    <2> QED
      BY <2>1, <2>2, <2>3 DEF NumbersOK, ContractTypeOK
  <1>4. ASSUME NEW a \in Addr, NEW amount \in Slashes, slash(a, amount)
        PROVE  ContractTypeOK'
    <2> DEFINE slashAmt == IF amount > validators[a].stake THEN validators[a].stake ELSE amount
               left == validators[a].stake - slashAmt
               stays == left >= MIN_STAKE
    <2>1. slashAmt \in Nat /\ left \in Nat /\ stays \in BOOLEAN /\ (stays => left >= MIN_STAKE)
      BY DEF ContractTypeOK, Validator
    <2>2. /\ validators[a].active
          /\ totalStaked >= slashAmt
          /\ validators' = [validators EXCEPT ![a].stake = left, ![a].active = stays]
          /\ totalStaked' = totalStaked - slashAmt
          /\ fund' = fund + slashAmt
          /\ UNCHANGED <<validatorList, rewardPool, balance, ownerless, unpaid>>
      BY <1>4 DEF slash
    <2> HIDE DEF slashAmt, left, stays
    <2>3. validators' \in [Addr -> Validator]
      BY <2>1, <2>2, SetRecord DEF ContractTypeOK
    <2>4. NumbersOK'
      BY <2>1, <2>2 DEF NumbersOK, ContractTypeOK
    <2>5. \A b \in Addr : validators'[b].active =>
             validators[b].active /\ validators'[b].stake >= MIN_STAKE
      <3>1. /\ validators'[a].stake = left
            /\ \A b \in Addr \ {a} : validators'[b] = validators[b]
        BY <2>2 DEF ContractTypeOK, Validator
      <3>2. validators'[a].active => stays
        BY <2>2 DEF ContractTypeOK, Validator
      <3>3. ASSUME NEW b \in Addr, validators'[b].active
            PROVE  validators[b].active /\ validators'[b].stake >= MIN_STAKE
        <4>1. CASE b = a
          <5>1. stays
            BY <3>2, <3>3, <4>1
          <5> QED
            BY <2>1, <2>2, <3>1, <4>1, <5>1
        <4>2. CASE b # a
          BY <3>1, <3>3, <4>2 DEF ContractTypeOK
        <4> QED
          BY <4>1, <4>2
      <3> QED
        BY <3>3
    <2> QED
      BY <2>2, <2>3, <2>4, <2>5 DEF NumbersOK, ContractTypeOK
  <1>5. ASSUME NEW amount \in Payments, distributeRewards(amount)
        PROVE  ContractTypeOK'
    <2> DEFINE perValidator == amount \div activeCount
    <2>1. activeCount \in Nat /\ \A a \in Addr : Shares(a) \in Nat
      BY CountsAreNat DEF ContractTypeOK
    <2>2. amount \in Nat /\ perValidator \in Nat /\ amount % activeCount \in Nat
      BY <1>5, <2>1, NatDivision DEF distributeRewards
    <2>3. \A a \in Addr : Shares(a) * perValidator \in Nat
      BY <2>1, <2>2, NatProduct
    <2> HIDE DEF perValidator
    <2>4. validators' = [a \in Addr |->
            [validators[a] EXCEPT !.rewardDebt = @ + Shares(a) * perValidator]]
      BY <1>5 DEF distributeRewards, perValidator
    <2>5. \A a \in Addr : /\ validators'[a] \in Validator
                          /\ validators'[a].active = validators[a].active
                          /\ validators'[a].stake = validators[a].stake
      <3> SUFFICES ASSUME NEW a \in Addr
                   PROVE  /\ validators'[a] \in Validator
                          /\ validators'[a].active = validators[a].active
                          /\ validators'[a].stake = validators[a].stake
        OBVIOUS
      <3> DEFINE share == Shares(a) * perValidator
      <3>1. share \in Nat
        BY <2>3
      <3>2. validators'[a] = [validators[a] EXCEPT !.rewardDebt = @ + share]
        BY <2>4
      <3>3. validators[a] \in Validator
        BY DEF ContractTypeOK
      <3> HIDE DEF share
      <3> QED
        BY <3>1, <3>2, <3>3 DEF Validator
    <2>6. NumbersOK'
      BY <1>5, <2>2 DEF NumbersOK, ContractTypeOK, distributeRewards, Receive
    <2>7. validators' \in [Addr -> Validator]
      BY Zenon, <2>4, <2>5
    <2>8. validatorList' = validatorList
      BY <1>5 DEF distributeRewards
    <2>9. \A a \in Addr : validators'[a].active =>
            /\ validators'[a].stake >= MIN_STAKE
            /\ \E i \in DOMAIN validatorList' : validatorList'[i] = a
      BY <2>5, <2>8 DEF ContractTypeOK
    <2>10. validatorList' \in Seq(Addr)
      BY <2>8 DEF ContractTypeOK
    <2> QED
      BY <2>6, <2>7, <2>9, <2>10 DEF NumbersOK, ContractTypeOK
  <1>6. ASSUME NEW amount \in Payments, receive(amount)
        PROVE  ContractTypeOK'
    BY <1>6 DEF ContractTypeOK, receive, Receive
  <1>7. CASE UNCHANGED contractVars
    BY <1>7 DEF ContractTypeOK, contractVars
  <1> QED
    BY <1>1, <1>2, <1>3, <1>4, <1>5, <1>6, <1>7 DEF ContractNext

\* The contract's records and totals are unsigned numbers in every state, and an
\* active validator has the minimum at stake and a place in the list.
THEOREM TypeCorrect == ContractSpec => []ContractTypeOK
  BY TypeInit, TypeNext, PTL DEF ContractSpec

----------------------------------------------------------------------------
(***************************************************************************)
(* Payments                                                                *)
(***************************************************************************)

\* What is owed is a number, so a record that stays does not lose.
LEMMA OwedIsNat == ASSUME ContractTypeOK PROVE \A a \in Addr : Owed(validators[a]) \in Nat
  BY DEF ContractTypeOK, Owed, Validator

\* A step that pays one validator and leaves the others alone is fair.
LEMMA PaidAlone ==
  ASSUME ContractTypeOK, NEW a \in Addr, PaidFrom(a),
         OnlyTouches(a)
  PROVE  FairStep
  BY OwedIsNat DEF FairStep, OnlyTouches

\* Every call of the contract is fair.
LEMMA FairNext == ContractTypeOK /\ [ContractNext]_contractVars => [FairStep]_contractVars
  <1> SUFFICES ASSUME ContractTypeOK, ContractNext PROVE FairStep
    BY DEF FairStep
  <1> USE DEF ContractAssumption
  <1> USE ContractAssumption
  <1>1. ASSUME NEW a \in Addr, NEW amount \in Stakes, register(a, amount)
        PROVE  FairStep
    BY <1>1 DEF ContractTypeOK, register, IsRegistered, Receive, FairStep, OnlyTouches, Owed, Validator
  <1>2. ASSUME NEW a \in Addr, unstake(a)
        PROVE  FairStep
    <2>1. /\ validators[a].active
          /\ validators'[a].stake = 0
          /\ validators'[a].rewardDebt = validators[a].rewardDebt
          /\ balance' = balance - validators[a].stake
          /\ OnlyTouches(a)
      BY <1>2 DEF ContractTypeOK, unstake, Send, Validator, OnlyTouches
    <2>2. PaidFrom(a)
      BY <2>1 DEF PaidFrom, Owed, ContractTypeOK, Validator
    <2> QED
      BY <2>1, <2>2, PaidAlone
  <1>3. ASSUME NEW a \in Addr, claimReward(a)
        PROVE  FairStep
    <2>1. /\ validators[a].active
          /\ validators'[a].stake = validators[a].stake
          /\ validators'[a].rewardDebt = 0
          /\ balance' = balance - validators[a].rewardDebt
          /\ OnlyTouches(a)
      BY <1>3 DEF ContractTypeOK, claimReward, Send, Validator, OnlyTouches
    <2>2. PaidFrom(a)
      BY <2>1 DEF PaidFrom, Owed, ContractTypeOK, Validator
    <2> QED
      BY <2>1, <2>2, PaidAlone
  <1>4. ASSUME NEW a \in Addr, NEW amount \in Slashes, slash(a, amount)
        PROVE  FairStep
    <2> DEFINE slashAmt == IF amount > validators[a].stake THEN validators[a].stake ELSE amount
    <2>1. /\ slashAmt \in Nat
          /\ validators'[a].stake = validators[a].stake - slashAmt
          /\ validators'[a].rewardDebt = validators[a].rewardDebt
          /\ fund' = fund + slashAmt
          /\ balance' = balance
          /\ OnlyTouches(a)
      BY <1>4 DEF ContractTypeOK, slash, Validator, OnlyTouches
    <2>2. fund' - fund = Owed(validators[a]) - Owed(validators'[a])
      BY <2>1 DEF ContractTypeOK, Owed, Validator
    <2>3. balance \in Nat /\ ~(balance' < balance)
      BY <2>1 DEF ContractTypeOK
    <2>4. \A b \in Addr : Owed(validators'[b]) < Owed(validators[b]) => b = a
      BY <2>1, OwedIsNat DEF OnlyTouches
    <2> QED
      BY <2>1, <2>2, <2>3, <2>4 DEF FairStep
  <1>5. ASSUME NEW amount \in Payments, distributeRewards(amount)
        PROVE  FairStep
    <2> DEFINE perValidator == amount \div activeCount
    <2>1. activeCount \in Nat /\ \A a \in Addr : Shares(a) \in Nat
      BY CountsAreNat DEF ContractTypeOK
    <2>2. amount \in Nat /\ perValidator \in Nat
      BY <1>5, <2>1, NatDivision DEF distributeRewards
    <2>3. \A a \in Addr : Shares(a) * perValidator \in Nat
      BY <2>1, <2>2, NatProduct
    <2> HIDE DEF perValidator
    <2>4. validators' = [a \in Addr |->
            [validators[a] EXCEPT !.rewardDebt = @ + Shares(a) * perValidator]]
      BY <1>5 DEF distributeRewards, perValidator
    <2>5. ASSUME NEW a \in Addr
          PROVE  ~(Owed(validators'[a]) < Owed(validators[a]))
      <3>1. validators[a].stake \in Nat /\ validators[a].rewardDebt \in Nat
        BY DEF ContractTypeOK, Validator
      <3>2. /\ validators'[a].stake = validators[a].stake
            /\ validators'[a].rewardDebt = validators[a].rewardDebt + Shares(a) * perValidator
        BY <2>4 DEF ContractTypeOK, Validator
      <3> QED
        BY <2>3, <3>1, <3>2 DEF Owed
    <2>6. ~(balance' < balance)
      BY <1>5, <2>2 DEF ContractTypeOK, distributeRewards, Receive
    <2> QED
      BY <2>5, <2>6 DEF FairStep, OnlyTouches
  <1>6. ASSUME NEW amount \in Payments, receive(amount)
        PROVE  FairStep
    BY <1>6 DEF ContractTypeOK, receive, Receive, FairStep, OnlyTouches, Owed, Validator
  <1> QED
    BY <1>1, <1>2, <1>3, <1>4, <1>5, <1>6 DEF ContractNext

\* Whatever the validators and the owner do, money leaves the contract only for a
\* validator that is owed it, and nobody's stake or reward pays for another.
THEOREM NobodyElsePaysCorrect == ContractSpec => NobodyElsePays
  <1>1. ContractSpec => [][FairStep]_contractVars
    BY TypeCorrect, FairNext, PTL DEF ContractSpec
  <1> QED
    BY <1>1 DEF NobodyElsePays

----------------------------------------------------------------------------
(***************************************************************************)
(* The books                                                               *)
(***************************************************************************)

StakesIn(vs) == [a \in Addr |-> vs[a].stake]
RewardsIn(vs) == [a \in Addr |-> vs[a].rewardDebt]

StakeIn(vs) == SumFunctionOnSet(StakesIn(vs), Addr)
RewardIn(vs) == SumFunctionOnSet(RewardsIn(vs), Addr)

\* Stake and Reward are sums over Addr, and numbers.
LEMMA SumsOfRecords ==
  ASSUME validators \in [Addr -> Validator]
  PROVE  /\ Stake = StakeIn(validators) /\ Reward = RewardIn(validators)
         /\ StakeIn(validators) \in Nat /\ RewardIn(validators) \in Nat
<1>1. /\ Stake = SumFunction(StakesIn(validators)) /\ DOMAIN StakesIn(validators) = Addr
      /\ Reward = SumFunction(RewardsIn(validators)) /\ DOMAIN RewardsIn(validators) = Addr
  BY DEF Stake, Reward, StakesIn, RewardsIn
<1>2. Stake = StakeIn(validators) /\ Reward = RewardIn(validators)
  BY Zenon, <1>1 DEF SumFunction, StakeIn, RewardIn
<1>3. \A a \in Addr : StakesIn(validators)[a] \in Nat /\ RewardsIn(validators)[a] \in Nat
  BY DEF StakesIn, RewardsIn, Validator
<1>4. StakeIn(validators) \in Nat /\ RewardIn(validators) \in Nat
  BY <1>3, ContractAssumption, SumNat DEF StakeIn, RewardIn
<1> QED  BY <1>2, <1>4

\* A call that touches one validator moves the sums by what it moves the record.
LEMMA SumsMove ==
  ASSUME NEW vs \in [Addr -> Validator], NEW ws \in [Addr -> Validator], NEW a \in Addr,
         \A b \in Addr \ {a} : ws[b] = vs[b]
  PROVE  /\ StakeIn(ws) = StakeIn(vs) + (ws[a].stake - vs[a].stake)
         /\ RewardIn(ws) = RewardIn(vs) + (ws[a].rewardDebt - vs[a].rewardDebt)
<1>1. SumFunctionOnSet(StakesIn(ws), Addr) =
        SumFunctionOnSet(StakesIn(vs), Addr) + (StakesIn(ws)[a] - StakesIn(vs)[a])
  <2> DEFINE f == StakesIn(vs)
             g == StakesIn(ws)
  <2>1. /\ \A b \in Addr : f[b] \in Int /\ g[b] \in Int
        /\ \A b \in Addr \ {a} : g[b] = f[b]
    BY DEF StakesIn, Validator
  <2> HIDE DEF f, g
  <2>2. SumFunctionOnSet(g, Addr) = SumFunctionOnSet(f, Addr) + (g[a] - f[a])
    BY <2>1, ContractAssumption, SumChange
  <2> QED  BY <2>2 DEF f, g
<1>2. SumFunctionOnSet(RewardsIn(ws), Addr) =
        SumFunctionOnSet(RewardsIn(vs), Addr) + (RewardsIn(ws)[a] - RewardsIn(vs)[a])
  <2> DEFINE f == RewardsIn(vs)
             g == RewardsIn(ws)
  <2>1. /\ \A b \in Addr : f[b] \in Int /\ g[b] \in Int
        /\ \A b \in Addr \ {a} : g[b] = f[b]
    BY DEF RewardsIn, Validator
  <2> HIDE DEF f, g
  <2>2. SumFunctionOnSet(g, Addr) = SumFunctionOnSet(f, Addr) + (g[a] - f[a])
    BY <2>1, ContractAssumption, SumChange
  <2> QED  BY <2>2 DEF f, g
<1> QED  BY <1>1, <1>2 DEF StakeIn, RewardIn, StakesIn, RewardsIn

\* What a distribution credits to all validators together is a share for every active
\* place in the list: the loop that adds and the count that divides see the same places.
LEMMA SharesAddUp ==
  ASSUME validatorList \in Seq(Addr), NEW vs \in [Addr -> Validator],
         NEW ws \in [Addr -> Validator], NEW per \in Nat,
         \A a \in Addr : /\ ws[a].stake = vs[a].stake
                         /\ ws[a].rewardDebt = vs[a].rewardDebt + Shares(a) * per
  PROVE  StakeIn(ws) = StakeIn(vs) /\ RewardIn(ws) = RewardIn(vs) + activeCount * per
<1> DEFINE counts == [a \in Addr |-> Shares(a)]
           credits == [a \in Addr |-> Shares(a) * per]
<1>1. \A a \in Addr : Shares(a) \in Nat /\ Shares(a) * per \in Nat
  BY CountsAreNat, NatProduct
<1>2. IsFiniteSet(ActivePlaces) /\ \A i \in ActivePlaces : validatorList[i] \in Addr
  <2>1. IsFiniteSet(DOMAIN validatorList)
    BY FS_Interval
  <2>2. ActivePlaces \in SUBSET DOMAIN validatorList
    BY DEF ActivePlaces
  <2> QED  BY <2>1, <2>2, FS_Subset
<1>3. SumFunctionOnSet(counts, Addr) = activeCount
  <2>1. SumFunctionOnSet([a \in Addr |-> Cardinality({i \in ActivePlaces : validatorList[i] = a})],
                         Addr) = Cardinality(ActivePlaces)
    BY <1>2, ContractAssumption, SumCounts
  <2>2. counts = [a \in Addr |-> Cardinality({i \in ActivePlaces : validatorList[i] = a})]
    BY DEF Shares
  <2> HIDE DEF counts
  <2> QED  BY <2>1, <2>2 DEF activeCount
<1>4. SumFunctionOnSet(credits, Addr) = SumFunctionOnSet(counts, Addr) * per
  <2>1. \A a \in Addr : counts[a] \in Int /\ credits[a] = counts[a] * per
    BY <1>1
  <2> HIDE DEF counts, credits
  <2>2. per \in Int
    OBVIOUS
  <2> QED  BY Zenon, <2>1, <2>2, ContractAssumption, SumTimes
<1>5. SumFunctionOnSet(RewardsIn(ws), Addr) =
        SumFunctionOnSet(RewardsIn(vs), Addr) + SumFunctionOnSet(credits, Addr)
  <2> DEFINE f == RewardsIn(vs)
             h == RewardsIn(ws)
  <2>1. \A a \in Addr : /\ f[a] \in Int /\ credits[a] \in Int
                        /\ h[a] = f[a] + credits[a]
    BY <1>1 DEF RewardsIn, Validator
  <2> HIDE DEF f, h, credits
  <2>2. SumFunctionOnSet(h, Addr) = SumFunctionOnSet(f, Addr) + SumFunctionOnSet(credits, Addr)
    BY <2>1, ContractAssumption, SumPlus
  <2> QED  BY <2>2 DEF f, h
<1>6. StakesIn(ws) = StakesIn(vs)
  BY DEF StakesIn
<1> HIDE DEF counts, credits
<1> QED  BY <1>3, <1>4, <1>5, <1>6 DEF StakeIn, RewardIn

\* The contract starts with empty books.
LEMMA AccountedInit == ContractInit => Accounted
<1> SUFFICES ASSUME ContractInit PROVE Accounted
  OBVIOUS
<1>1. validators \in [Addr -> Validator]
  BY TypeInit DEF ContractTypeOK
<1>2. \A a \in Addr : StakesIn(validators)[a] = 0 /\ RewardsIn(validators)[a] = 0
  BY DEF ContractInit, NoValidator, StakesIn, RewardsIn
<1>3. StakeIn(validators) = 0 /\ RewardIn(validators) = 0
  BY <1>2, ContractAssumption, SumZero DEF StakeIn, RewardIn
<1> QED  BY <1>1, <1>3, SumsOfRecords DEF ContractInit, Accounted

\* Every call keeps the books.
LEMMA AccountedNext == ContractTypeOK /\ Accounted /\ [ContractNext]_contractVars => Accounted'
<1> SUFFICES ASSUME ContractTypeOK, Accounted, [ContractNext]_contractVars PROVE Accounted'
  OBVIOUS
<1> DEFINE S == StakeIn(validators)
           R == RewardIn(validators)
<1>1. validators' \in [Addr -> Validator] /\ validators \in [Addr -> Validator]
      /\ NumbersOK /\ validatorList \in Seq(Addr)
  BY TypeNext DEF ContractTypeOK, NumbersOK
<1>n. /\ totalStaked \in Nat /\ rewardPool \in Nat /\ balance \in Nat
      /\ ownerless \in Nat /\ unpaid \in Nat /\ fund \in Nat
  BY <1>1 DEF NumbersOK
<1>2. /\ totalStaked = S + ownerless /\ rewardPool = R + unpaid
      /\ balance = totalStaked + rewardPool + fund /\ S \in Nat /\ R \in Nat
  BY <1>1, SumsOfRecords DEF Accounted
<1>3. Stake' = StakeIn(validators') /\ Reward' = RewardIn(validators')
  <2>1. /\ Stake' = SumFunction(StakesIn(validators')) /\ DOMAIN StakesIn(validators') = Addr
        /\ Reward' = SumFunction(RewardsIn(validators')) /\ DOMAIN RewardsIn(validators') = Addr
    BY DEF Stake, Reward, StakesIn, RewardsIn
  <2> QED  BY Zenon, <2>1 DEF SumFunction, StakeIn, RewardIn
<1>4. SUFFICES /\ totalStaked' = StakeIn(validators') + ownerless'
               /\ rewardPool' = RewardIn(validators') + unpaid'
               /\ balance' = totalStaked' + rewardPool' + fund'
  BY <1>3 DEF Accounted
<1> DEFINE Books == /\ totalStaked' = StakeIn(validators') + ownerless'
                    /\ rewardPool' = RewardIn(validators') + unpaid'
                    /\ balance' = totalStaked' + rewardPool' + fund'
<1>5. \A a \in Addr : /\ validators[a].stake \in Nat /\ validators[a].rewardDebt \in Nat
                      /\ validators'[a].stake \in Nat /\ validators'[a].rewardDebt \in Nat
  BY <1>1 DEF Validator
<1>6. ASSUME NEW a \in Addr, OnlyTouches(a)
      PROVE  /\ StakeIn(validators') = S + (validators'[a].stake - validators[a].stake)
             /\ RewardIn(validators') = R + (validators'[a].rewardDebt - validators[a].rewardDebt)
  BY <1>1, <1>6, SumsMove DEF OnlyTouches
<1> HIDE DEF S, R
<1>7. ASSUME NEW a \in Addr, NEW amount \in Stakes, register(a, amount)
      PROVE  Books
  <2>1. /\ validators'[a].stake = amount /\ validators'[a].rewardDebt = 0 /\ OnlyTouches(a)
        /\ balance' = balance + amount /\ totalStaked' = totalStaked + amount
        /\ ownerless' = ownerless + validators[a].stake
        /\ unpaid' = unpaid + validators[a].rewardDebt
        /\ UNCHANGED <<rewardPool, fund>>
    BY <1>1, <1>7 DEF register, Receive, OnlyTouches
  <2>2. amount \in Nat
    BY ContractAssumption
  <2>3. /\ StakeIn(validators') = S + (amount - validators[a].stake)
        /\ RewardIn(validators') = R + (0 - validators[a].rewardDebt)
    BY <1>6, <2>1
  <2>4. validators[a].stake \in Nat /\ validators[a].rewardDebt \in Nat
    BY <1>5
  <2> QED  BY <1>n, <1>2, <2>1, <2>2, <2>3, <2>4
<1>8. ASSUME NEW a \in Addr, unstake(a)
      PROVE  Books
  <2>1. /\ validators'[a].stake = 0 /\ validators'[a].rewardDebt = validators[a].rewardDebt
        /\ OnlyTouches(a)
        /\ balance' = balance - validators[a].stake
        /\ totalStaked' = totalStaked - validators[a].stake
        /\ UNCHANGED <<rewardPool, ownerless, unpaid, fund>>
    BY <1>1, <1>8 DEF unstake, Send, OnlyTouches, history, Validator
  <2> QED  BY <1>n, <1>2, <1>5, <1>6, <2>1
<1>9. ASSUME NEW a \in Addr, claimReward(a)
      PROVE  Books
  <2>1. /\ validators'[a].stake = validators[a].stake /\ validators'[a].rewardDebt = 0
        /\ OnlyTouches(a)
        /\ balance' = balance - validators[a].rewardDebt
        /\ rewardPool' = rewardPool - validators[a].rewardDebt
        /\ UNCHANGED <<totalStaked, ownerless, unpaid, fund>>
    BY <1>1, <1>9 DEF claimReward, Send, OnlyTouches, history, Validator
  <2> QED  BY <1>n, <1>2, <1>5, <1>6, <2>1
<1>10. ASSUME NEW a \in Addr, NEW amount \in Slashes, slash(a, amount)
       PROVE  Books
  <2> DEFINE slashAmt == IF amount > validators[a].stake THEN validators[a].stake ELSE amount
  <2>1. slashAmt \in Nat
    BY <1>5, ContractAssumption
  <2>2. /\ validators'[a].stake = validators[a].stake - slashAmt
        /\ validators'[a].rewardDebt = validators[a].rewardDebt
        /\ OnlyTouches(a)
        /\ totalStaked' = totalStaked - slashAmt
        /\ fund' = fund + slashAmt
        /\ UNCHANGED <<rewardPool, balance, ownerless, unpaid>>
    BY <1>1, <1>10 DEF slash, OnlyTouches, Validator
  <2> HIDE DEF slashAmt
  <2> QED  BY <1>n, <1>2, <1>5, <1>6, <2>1, <2>2
<1>11. ASSUME NEW amount \in Payments, distributeRewards(amount)
       PROVE  Books
  <2> DEFINE per == amount \div activeCount
             rest == amount % activeCount
  <2>1. activeCount \in Nat /\ activeCount > 0 /\ amount \in Nat
    BY <1>1, <1>11, CountsAreNat, ContractAssumption DEF distributeRewards
  <2>2. per \in Nat /\ rest \in Nat
    BY <2>1, NatDivision
  <2>3. amount = activeCount * per + rest
    BY <2>1
  <2>4. /\ validators' = [a \in Addr |->
              [validators[a] EXCEPT !.rewardDebt = @ + Shares(a) * per]]
        /\ balance' = balance + amount /\ rewardPool' = rewardPool + amount
        /\ unpaid' = unpaid + rest /\ UNCHANGED <<totalStaked, ownerless, fund>>
    BY <1>11 DEF distributeRewards, Receive
  <2> HIDE DEF per, rest
  <2>5. \A a \in Addr :
          /\ validators'[a].stake = validators[a].stake
          /\ validators'[a].rewardDebt = validators[a].rewardDebt + Shares(a) * per
    BY <1>1, <2>4 DEF Validator
  <2>6. StakeIn(validators') = S /\ RewardIn(validators') = R + activeCount * per
    BY <1>1, <2>2, <2>5, SharesAddUp DEF S, R
  <2> DEFINE all == activeCount * per
  <2>7. all \in Nat
    BY <2>1, <2>2, NatProduct
  <2>8. amount = all + rest /\ RewardIn(validators') = R + all
    BY <2>3, <2>6
  <2> HIDE DEF all
  <2> QED  BY <1>n, <1>2, <2>2, <2>4, <2>6, <2>7, <2>8
<1>12. ASSUME NEW amount \in Payments, receive(amount)
       PROVE  Books
  <2>1. /\ validators' = validators /\ balance' = balance + amount /\ fund' = fund + amount
        /\ UNCHANGED <<totalStaked, rewardPool, ownerless, unpaid>> /\ amount \in Nat
    BY <1>12, ContractAssumption DEF receive, Receive
  <2> QED  BY <1>n, <1>2, <2>1 DEF S, R
<1>13. CASE UNCHANGED contractVars
  BY <1>2, <1>13 DEF contractVars, S, R
<1> QED  BY <1>7, <1>8, <1>9, <1>10, <1>11, <1>12, <1>13 DEF ContractNext

\* Through leaving, slashing, returning and distributions with a remainder the two
\* totals of the contract are what they total and its balance covers both, for any
\* accounts and any length of the list.
THEOREM AccountedCorrect == ContractSpec => []Accounted
  BY AccountedInit, AccountedNext, TypeCorrect, PTL DEF ContractSpec

----------------------------------------------------------------------------
(***************************************************************************)
(* VM: sizes, powers and bytes                                             *)
(***************************************************************************)

\* What VMAssumption says of the sizes of the machine.
LEMMA Sizes ==
  /\ WordLen \in Nat \ {0} /\ IntSize \in Nat \ {0} /\ MemCap \in Nat /\ MaxShift \in Nat
  /\ MaxGas \in Nat /\ MaxCalls \in Nat
BY VMAssumption

\* A power of a positive number is positive.
LEMMA PowerFacts ==
  ASSUME NEW b \in Nat \ {0}, NEW n \in Nat
  PROVE  Power(b, n) \in Nat \ {0}
<1> DEFINE A == Nat \ {0}
           Equation(x) == x = [k \in 0 .. n |-> IF k = 0 THEN 1 ELSE b * x[k - 1]]
           step == [k \in 1 .. n |-> [v \in A |-> b * v]]
           u == CHOOSE x : Equation(x)
           T == {k \in 0 .. n : u[k] \in A}
<1>0. \A v \in A : b * v \in A
  OBVIOUS
<1>1. Power(b, n) = u[n]
  BY Zenon DEF Power
<1>2. \E x : Equation(x)
  <2>1. step \in [1 .. n -> [A -> A]] /\ 1 \in A
    BY <1>0
  <2>2. \A k \in 1 .. n : \A v \in A : step[k][v] = b * v
    OBVIOUS
  <2> HIDE DEF step, A
  <2>3. PICK f : Recursion(f, n, A, 1, step)
    BY <2>1, RecursionHolds
  <2>4. ASSUME NEW i \in 0 .. n PROVE f[i] = IF i = 0 THEN 1 ELSE b * f[i - 1]
    <3>1. CASE i = 0
      BY <2>3, <3>1 DEF Recursion
    <3>2. CASE i # 0
      <4>1. i \in 1 .. n /\ i - 1 \in 0 .. n
        BY <3>2
      <4> QED  BY <2>2, <2>3, <3>2, <4>1 DEF Recursion
    <3> QED  BY <3>1, <3>2
  <2>5. f = [i \in 0 .. n |-> f[i]]
    BY <2>3 DEF Recursion
  <2>6. Equation(f)
    BY <2>4, <2>5
  <2> HIDE DEF Equation
  <2> QED  BY <2>6
<1>3. Equation(u)
  BY Zenon, <1>2
<1> HIDE DEF u
<1>4. u[0] = 1 /\ \A k \in 1 .. n : u[k] = b * u[k - 1]
  BY <1>3
<1>5. 0 \in T
  BY <1>4
<1>6. ASSUME NEW k \in 1 .. n, k - 1 \in T PROVE k \in T
  BY <1>0, <1>4, <1>6
<1>7. \A k \in 0 .. n : k \in T
  <2> HIDE DEF T
  <2> QED  BY <1>5, <1>6, UpToInduction
<1> QED  BY <1>1, <1>7

\* The bytes from the first on, by what they spell so far.
LEMMA SetBytesType ==
  ASSUME NEW s \in Seq(Nat)
  PROVE  SetBytes(s) \in Nat
<1> DEFINE n == Len(s)
           Equation(x) == x = [k \in 0 .. n |-> IF k = 0 THEN 0 ELSE (256 * x[k - 1]) + s[k]]
           step == [k \in 1 .. n |-> [v \in Nat |-> (256 * v) + s[k]]]
           u == CHOOSE x : Equation(x)
           T == {k \in 0 .. n : u[k] \in Nat}
<1>0. n \in Nat /\ \A k \in 1 .. n : s[k] \in Nat
  OBVIOUS
<1>1. SetBytes(s) = u[n]
  BY Zenon DEF SetBytes
<1> HIDE DEF n
<1>8. \A k \in 1 .. n : \A v \in Nat : (256 * v) + s[k] \in Nat
  BY <1>0
<1>2. \E x : Equation(x)
  <2>1. step \in [1 .. n -> [Nat -> Nat]]
    BY <1>8
  <2>2. \A k \in 1 .. n : \A v \in Nat : step[k][v] = (256 * v) + s[k]
    OBVIOUS
  <2> HIDE DEF step
  <2>3. PICK f : Recursion(f, n, Nat, 0, step)
    BY <1>0, <2>1, RecursionHolds
  <2>4. ASSUME NEW i \in 0 .. n PROVE f[i] = IF i = 0 THEN 0 ELSE (256 * f[i - 1]) + s[i]
    <3>1. CASE i = 0
      BY <2>3, <3>1 DEF Recursion
    <3>2. CASE i # 0
      <4>1. i \in 1 .. n /\ i - 1 \in 0 .. n
        BY <1>0, <3>2
      <4>2. f[i] = step[i][f[i - 1]] /\ f[i - 1] \in Nat
        BY <2>3, <4>1 DEF Recursion
      <4> QED  BY <2>2, <3>2, <4>1, <4>2
    <3> QED  BY <3>1, <3>2
  <2>5. f = [i \in 0 .. n |-> f[i]]
    BY <2>3 DEF Recursion
  <2>6. Equation(f)
    BY <2>4, <2>5
  <2> HIDE DEF Equation
  <2> QED  BY <2>6
<1>3. Equation(u)
  BY Zenon, <1>2
<1> HIDE DEF u
<1>4. u[0] = 0 /\ \A k \in 1 .. n : u[k] = (256 * u[k - 1]) + s[k]
  BY <1>0, <1>3
<1>5. 0 \in T
  BY <1>0, <1>4
<1>6. ASSUME NEW k \in 1 .. n, k - 1 \in T PROVE k \in T
  <2>1. u[k - 1] \in Nat /\ k \in 0 .. n
    BY <1>0, <1>6
  <2> QED  BY <1>4, <1>8, <2>1
<1>7. \A k \in 0 .. n : k \in T
  <2> HIDE DEF T
  <2> QED  BY <1>0, <1>5, <1>6, UpToInduction
<1> QED  BY <1>0, <1>1, <1>7

\* The low bits of an integer, as an int.
LEMMA ToIntType ==
  ASSUME NEW x \in Int
  PROVE  /\ Magnitude(x) \in Nat /\ Magnitude(x) % IntSize \in Nat /\ ToInt(x) \in Int
<1>1. Magnitude(x) \in Nat
  BY DEF Magnitude
<1>2. \A y \in Nat : y % IntSize \in Nat
  BY Sizes
<1>3. \A y \in Nat : (IF 2 * y < IntSize THEN y ELSE y - IntSize) \in Int
  BY Sizes
<1> QED  BY <1>1, <1>2, <1>3 DEF ToInt

\* A right shift of an integer is an integer: one halving after another.
LEMMA ShiftRightType ==
  ASSUME NEW x \in Int, NEW w \in Int
  PROVE  ShiftRight(x, w) \in Int
<1> DEFINE n == Magnitude(w) % IntSize
           Equation(f) == f = [k \in 0 .. n |-> IF k = 0 THEN x ELSE f[k - 1] \div 2]
           step == [k \in 1 .. n |-> [v \in Int |-> v \div 2]]
           u == CHOOSE f : Equation(f)
           T == {k \in 0 .. n : u[k] \in Int}
<1>0. n \in Nat
  BY ToIntType
<1>1. ShiftRight(x, w) = u[n]
  BY Zenon DEF ShiftRight
<1> HIDE DEF n
<1>8. \A v \in Int : v \div 2 \in Int
  OBVIOUS
<1>2. \E f : Equation(f)
  <2>1. step \in [1 .. n -> [Int -> Int]]
    BY <1>8
  <2>2. \A k \in 1 .. n : \A v \in Int : step[k][v] = v \div 2
    OBVIOUS
  <2> HIDE DEF step
  <2>3. PICK f : Recursion(f, n, Int, x, step)
    BY <1>0, <2>1, RecursionHolds
  <2>4. ASSUME NEW i \in 0 .. n PROVE f[i] = IF i = 0 THEN x ELSE f[i - 1] \div 2
    <3>1. CASE i = 0
      BY <2>3, <3>1 DEF Recursion
    <3>2. CASE i # 0
      <4>1. i \in 1 .. n /\ i - 1 \in 0 .. n
        BY <1>0, <3>2
      <4>2. f[i] = step[i][f[i - 1]] /\ f[i - 1] \in Int
        BY <2>3, <4>1 DEF Recursion
      <4> QED  BY <2>2, <3>2, <4>1, <4>2
    <3> QED  BY <3>1, <3>2
  <2>5. f = [i \in 0 .. n |-> f[i]]
    BY <2>3 DEF Recursion
  <2>6. Equation(f)
    BY <2>4, <2>5
  <2> HIDE DEF Equation
  <2> QED  BY <2>6
<1>3. Equation(u)
  BY Zenon, <1>2
<1> HIDE DEF u
<1>4. u[0] = x /\ \A k \in 1 .. n : u[k] = u[k - 1] \div 2
  BY <1>0, <1>3
<1>5. 0 \in T
  BY <1>0, <1>4
<1>6. ASSUME NEW k \in 1 .. n, k - 1 \in T PROVE k \in T
  <2>1. u[k - 1] \in Int /\ k \in 0 .. n
    BY <1>0, <1>6
  <2> QED  BY <1>4, <1>8, <2>1
<1>7. \A k \in 0 .. n : k \in T
  <2> HIDE DEF T
  <2> QED  BY <1>0, <1>5, <1>6, UpToInduction
<1> QED  BY <1>0, <1>1, <1>7

\* Words are natural numbers, and 0 is one.
LEMMA WordType == Word \subseteq Nat /\ 0 \in Word
<1>1. Power(256, WordLen) \in Nat \ {0}
  BY Sizes, PowerFacts
<1> QED  BY <1>1 DEF Word

\* padTo32 makes a word of every integer, and a word of itself.
LEMMA padTo32Facts ==
  ASSUME NEW x \in Int
  PROVE  padTo32(x) \in Word /\ (x \in Word => padTo32(x) = x)
<1> DEFINE Equation(f) == f = [n \in Nat |-> IF n \in Word THEN n ELSE f[n \div 256]]
           m == [n \in Nat |-> n]
           out == [n \in Nat |-> IF n \in Word THEN n ELSE 0]
           down == [n \in Nat |-> n \div 256]
           make == [n \in Nat |-> [v \in Word |-> v]]
           u == CHOOSE f : Equation(f)
           T == {n \in Nat : u[n] \in Word}
<1>0. \A n \in Nat : /\ n \div 256 \in Nat
                     /\ n \notin Word => n \div 256 < n
  <2>1. \A n \in Nat : n \div 256 \in Nat
    OBVIOUS
  <2>2. \A n \in Nat \ {0} : n \div 256 < n
    OBVIOUS
  <2> QED  BY <2>1, <2>2, WordType
<1>1. padTo32(x) = u[Magnitude(x)]
  BY Zenon DEF padTo32
<1>2. Recurses(Nat, Word, m, Word, out, down, make)
  BY <1>0, WordType DEF Recurses
<1>3. /\ \A n \in Nat : down[n] = n \div 256 /\ (n \in Word => out[n] = n)
      /\ \A n \in Nat : \A v \in Word : make[n][v] = v
  OBVIOUS
<1> HIDE DEF m, out, down, make
<1>4. \E f : Equation(f)
  <2>1. PICK f : Solution(f, Nat, Word, Word, out, down, make)
    BY <1>2, DescentHolds
  <2>2. \A n \in Nat : f[n] = IF n \in Word THEN n ELSE f[n \div 256]
    BY <1>0, <1>3, <2>1 DEF Solution, Descent
  <2>3. f = [n \in Nat |-> f[n]]
    BY <2>1 DEF Solution
  <2>4. Equation(f)
    BY <2>2, <2>3
  <2> HIDE DEF Equation
  <2> QED  BY <2>4
<1>5. Equation(u)
  BY Zenon, <1>4
<1> HIDE DEF u
<1>6. \A n \in Nat : u[n] = IF n \in Word THEN n ELSE u[n \div 256]
  BY <1>5
<1> DEFINE id == [n \in Nat |-> n]
<1>7. \A n \in Nat : n \in T
  <2>1. id \in [Nat -> Nat] /\ \A n \in Nat : id[n] = n
    OBVIOUS
  <2> HIDE DEF id
  <2>2. ASSUME NEW n \in Nat, \A k \in Nat : id[k] < id[n] => k \in T PROVE n \in T
    <3>1. CASE n \in Word
      BY <1>6, <3>1
    <3>2. CASE n \notin Word
      <4>1. n \div 256 \in T
        BY <1>0, <2>1, <2>2, <3>2
      <4> QED  BY <1>6, <3>2, <4>1
    <3> QED  BY <3>1, <3>2
  <2> HIDE DEF T
  <2> QED  BY <2>1, <2>2, MeasureInduction
<1>8. Magnitude(x) \in Nat /\ (x \in Word => Magnitude(x) = x)
  BY WordType DEF Magnitude
<1>9. u[Magnitude(x)] \in Word
  BY <1>7, <1>8
<1>10. x \in Word => u[Magnitude(x)] = x
  BY <1>6, <1>8
<1> QED  BY <1>1, <1>9, <1>10

\* The bit that And, Or and Xor make of two, by their sum.
Combine(op, n) == CASE op = "AND" -> n \div 2 [] op = "OR" -> (n + 1) \div 2 [] OTHER -> (n % 2)

\* The bits of x before those of its sign.
Extent(x) == IF x < 0 THEN -x - 1 ELSE x

\* Halving an integer brings it closer to its sign.
LEMMA ExtentHalves ==
  ASSUME NEW x \in Int
  PROVE  /\ Extent(x) \in Nat /\ x \div 2 \in Int /\ Extent(x \div 2) <= Extent(x)
         /\ x \notin {0, -1} => Extent(x \div 2) < Extent(x)
<1>1. PICK h \in Int : h = x \div 2 /\ (x = 2 * h \/ x = (2 * h) + 1)
  OBVIOUS
<1>2. Extent(x) \in Nat /\ Extent(h) <= Extent(x)
  BY <1>1 DEF Extent
<1>3. x \notin {0, -1} => Extent(h) < Extent(x)
  BY <1>1 DEF Extent
<1> QED  BY <1>1, <1>2, <1>3

\* And, Or and Xor of integers are integers: the recursion ends at the signs.
LEMMA BitwiseType ==
  ASSUME NEW op, NEW a \in Int, NEW b \in Int
  PROVE  Bitwise(op, a, b) \in Int
<1> DEFINE D == Int \X Int
           E == {0, -1} \X {0, -1}
           bits(w) == Combine(op, (w[1] % 2) + (w[2] % 2))
           half(w) == <<w[1] \div 2, w[2] \div 2>>
           Equation(f) == f = [w \in D |-> IF w \in E THEN -bits(w) ELSE 2 * f[half(w)] + bits(w)]
           m == [w \in D |-> Extent(w[1]) + Extent(w[2])]
           out == [w \in D |-> -bits(w)]
           down == [w \in D |-> half(w)]
           make == [w \in D |-> [v \in Int |-> 2 * v + bits(w)]]
           u == CHOOSE f : Equation(f)
           T == {w \in D : u[w] \in Int}
<1>1. Bitwise(op, a, b) = u[<<a, b>>]
  BY Zenon DEF Bitwise, Combine
<1>2. \A w \in D : w[1] \in Int /\ w[2] \in Int /\ w = <<w[1], w[2]>>
  OBVIOUS
<1>3. \A w \in D : bits(w) \in Int /\ -bits(w) \in Int
  <2>1. \A w \in D : (w[1] % 2) + (w[2] % 2) \in Int
    BY <1>2
  <2>2. \A n \in Int : n \div 2 \in Int /\ (n + 1) \div 2 \in Int /\ (n % 2) \in Int
    OBVIOUS
  <2>3. \A n \in Int : Combine(op, n) \in Int
    BY <2>2 DEF Combine
  <2> QED  BY <2>1, <2>3
<1>4. \A w \in D : half(w) \in D /\ m[w] \in Nat
  BY <1>2, ExtentHalves
<1>5. \A w \in D \ E : m[half(w)] < m[w]
  <2> TAKE w \in D \ E
  <2>1. w[1] \in Int /\ w[2] \in Int /\ (w[1] \notin {0, -1} \/ w[2] \notin {0, -1})
    BY <1>2
  <2> DEFINE p == Extent(w[1])
             q == Extent(w[2])
             r == Extent(w[1] \div 2)
             s == Extent(w[2] \div 2)
  <2>2. m[w] = p + q /\ m[half(w)] = r + s
    BY <1>2, <1>4
  <2>3. p \in Nat /\ q \in Nat /\ r \in Nat /\ s \in Nat /\ r <= p /\ s <= q /\ (r < p \/ s < q)
    BY <2>1, ExtentHalves
  <2> HIDE DEF p, q, r, s, m
  <2> QED  BY <2>2, <2>3
<1>6. /\ \A w \in D : down[w] = half(w) /\ out[w] = -bits(w)
      /\ \A w \in D : \A v \in Int : make[w][v] = 2 * v + bits(w)
  OBVIOUS
<1>7. Recurses(D, Int, m, E, out, down, make)
  <2>1. m \in [D -> Nat] /\ out \in [D -> Int] /\ down \in [D -> D]
    BY <1>3, <1>4
  <2>2. make \in [D -> [Int -> Int]]
    <3>1. \A w \in D : \A v \in Int : 2 * v + bits(w) \in Int
      BY <1>3
    <3> QED  BY <3>1
  <2>3. \A w \in D \ E : m[down[w]] < m[w]
    BY <1>5, <1>6
  <2> HIDE DEF m, out, down, make, D, E
  <2> QED  BY <2>1, <2>2, <2>3 DEF Recurses
<1> HIDE DEF m, out, down, make
<1>8. \E f : Equation(f)
  <2>1. PICK f : Solution(f, D, Int, E, out, down, make)
    <3> HIDE DEF D, E
    <3> QED  BY <1>7, DescentHolds
  <2>2. \A w \in D : f[w] \in Int
    BY <2>1 DEF Solution
  <2>3. ASSUME NEW w \in D PROVE f[w] = IF w \in E THEN -bits(w) ELSE 2 * f[half(w)] + bits(w)
    <3>1. f[w] = IF w \in E THEN out[w] ELSE make[w][f[down[w]]]
      BY <2>1 DEF Solution, Descent
    <3>2. half(w) \in D /\ down[w] = half(w) /\ f[half(w)] \in Int
      BY <1>4, <1>6, <2>2
    <3> HIDE DEF D, E, half, bits
    <3> QED  BY <1>6, <3>1, <3>2
  <2>4. f = [w \in D |-> f[w]]
    BY <2>1 DEF Solution
  <2>5. Equation(f)
    <3> HIDE DEF D, E, half, bits
    <3> QED  BY <2>3, <2>4
  <2> HIDE DEF Equation
  <2> QED  BY <2>5
<1>9. Equation(u)
  BY Zenon, <1>8
<1> HIDE DEF u
<1>10. \A w \in D : u[w] = IF w \in E THEN -bits(w) ELSE 2 * u[half(w)] + bits(w)
  <2> HIDE DEF D, E, half, bits
  <2> QED  BY <1>9
<1>11. \A w \in D : w \in T
  <2>1. ASSUME NEW w \in D, \A z \in D : m[z] < m[w] => z \in T PROVE w \in T
    <3>1. CASE w \in E
      BY <1>3, <1>10, <3>1
    <3>2. CASE w \notin E
      <4>1. half(w) \in D /\ m[half(w)] < m[w]
        BY <1>4, <1>5, <3>2
      <4>2. u[half(w)] \in Int /\ bits(w) \in Int
        BY <1>3, <2>1, <4>1
      <4>3. 2 * u[half(w)] + bits(w) \in Int
        BY <4>2
      <4>4. u[w] = 2 * u[half(w)] + bits(w)
        BY <1>10, <3>2
      <4> QED  BY <4>3, <4>4
    <3> QED  BY <3>1, <3>2
  <2>2. m \in [D -> Nat]
    BY <1>7 DEF Recurses
  <2> HIDE DEF T, D
  <2> QED  BY <2>1, <2>2, MeasureInduction
<1>12. <<a, b>> \in D
  OBVIOUS
<1> QED  BY <1>1, <1>11, <1>12

\* What a binary instruction pushes is an integer.
LEMMA ResultType ==
  ASSUME NEW op \in Binary, NEW a \in Int, NEW b \in Int
  PROVE  Result(op, a, b) \in Int
<1>1. /\ a + b \in Int /\ a - b \in Int /\ a * b \in Int
      /\ \A p : Truth(p) \in Int
  BY DEF Truth
<1>2. (IF b = 0 THEN 0 ELSE IF b > 0 THEN a \div b ELSE -(a \div (-b))) \in Int
  <2>1. b > 0 => a \div b \in Int
    OBVIOUS
  <2>2. \A c \in Int : c > 0 => a \div c \in Int
    OBVIOUS
  <2>3. b < 0 => -b \in Int /\ -b > 0
    OBVIOUS
  <2>4. b < 0 => -(a \div (-b)) \in Int
    BY <2>2, <2>3
  <2> QED  BY <2>1, <2>4
<1>3. (IF b = 0 THEN 0 ELSE a % Magnitude(b)) \in Int
  <2>1. \A c \in Nat \ {0} : (a % c) \in Int
    OBVIOUS
  <2>2. b # 0 => Magnitude(b) \in Nat \ {0}
    BY DEF Magnitude
  <2> QED  BY <2>1, <2>2
<1>4. Bitwise(op, a, b) \in Int /\ ShiftRight(b, a) \in Int
  BY BitwiseType, ShiftRightType
<1> QED  BY <1>1, <1>2, <1>3, <1>4 DEF Result, Binary

----------------------------------------------------------------------------
(***************************************************************************)
(* The stack, the memory and the code                                      *)
(***************************************************************************)

----------------------------------------------------------------------------
(***************************************************************************)
(* VM: instructions, the memory and the places of a code                   *)
(***************************************************************************)

\* What an instruction costs covers the words that it leaves beyond those it takes.
LEMMA Costs ==
  /\ \A op : gasCost(op) \in Nat
  /\ \A op : Arity(op) \in Nat
  /\ \A op : Immediate(op) \in Nat
  /\ \A op \in {"PUSH1", "PUSH32", "DUP", "PC", "GAS"} \cup Host : gasCost(op) >= 1
  /\ gasCost("LOG0") = 375 /\ gasCost("LOG1") = 750
  /\ Arity("LOG0") = 2 /\ Arity("LOG1") = 3
<1>1. \A op : gasCost(op) \in Nat
  BY DEF gasCost
<1>2. \A op : Arity(op) \in Nat
  BY DEF Arity
<1>3. \A op : Immediate(op) \in Nat
  BY Sizes DEF Immediate
<1>4. \A op \in {"PUSH1", "PUSH32", "DUP", "PC", "GAS"} \cup Host : gasCost(op) >= 1
  BY DEF gasCost, Binary, Host
<1>5. gasCost("LOG0") = 375 /\ gasCost("LOG1") = 750
  BY DEF gasCost, Binary
<1>6. Arity("LOG0") = 2 /\ Arity("LOG1") = 3
  BY DEF Arity, Binary
<1> QED  BY <1>1, <1>2, <1>3, <1>4, <1>5, <1>6

\* The operands of the instructions that the lemmas below look at.
LEMMA OperandCounts ==
  /\ \A op \in Binary \cup {"SHL", "SWAP", "MSTORE", "SSTORE", "JUMPI", "RETURN", "REVERT", "LOG0", "SHA3"} : Arity(op) = 2
  /\ \A op \in {"NOT", "POP", "DUP", "MLOAD", "SLOAD", "JUMP", "BALANCE"} : Arity(op) = 1
  /\ Arity("CALL") = 7
BY DEF Arity, Binary

\* A byte.
Octet == 0 .. 255

\* The top n words, and the stack without them.
LEMMA TopType ==
  ASSUME stack \in Seq(Int), NEW n \in Nat, Len(stack) >= n
  PROVE  /\ \A i \in 0 .. n - 1 : Top(i) \in Int
         /\ Popped(n) \in Seq(Int) /\ Len(Popped(n)) = Len(stack) - n
<1>1. \A i \in 0 .. n - 1 : Len(stack) - i \in 1 .. Len(stack)
  OBVIOUS
<1>2. \A i \in 1 .. Len(stack) : stack[i] \in Int
  OBVIOUS
<1>3. \A i \in 0 .. n - 1 : Top(i) \in Int
  BY <1>1, <1>2 DEF Top
<1>4. Popped(n) \in Seq(Int) /\ Len(Popped(n)) = Len(stack) - n
  <2> DEFINE d == Len(stack) - n
  <2>1. d \in 0 .. Len(stack)
    OBVIOUS
  <2> HIDE DEF d
  <2>2. SubSeq(stack, 1, d) \in Seq(Int) /\ Len(SubSeq(stack, 1, d)) = d
    BY <2>1
  <2> QED  BY <2>2 DEF Popped, d
<1> QED  BY <1>3, <1>4

\* What the memory holds, as bytes and as the number they spell.
LEMMA BytesType ==
  ASSUME memory \in [0 .. MemCap - 1 -> Octet], NEW off \in Int, NEW size \in Int, InMemory(off, size)
  PROVE  Bytes(off, size) \in Seq(Nat) /\ SetBytes(Bytes(off, size)) \in Nat
<1>1. \A i \in 1 .. size : off + i - 1 \in 0 .. MemCap - 1
  BY Sizes DEF InMemory
<1>2. \A i \in 1 .. size : memory[off + i - 1] \in Nat
  <2>1. Octet \subseteq Nat
    BY DEF Octet
  <2>2. \A i \in 1 .. size : memory[off + i - 1] \in Octet
    BY <1>1
  <2> QED  BY <2>1, <2>2
<1>3. size \in Nat
  BY DEF InMemory
<1>4. Bytes(off, size) \in Seq(Nat)
  BY <1>2, <1>3 DEF Bytes
<1> QED  BY <1>4, SetBytesType

\* Where the instruction after the one at i starts.
After(c, i) == i + 1 + Immediate(Name[c[i + 1]])

\* A set of places with the place after every instruction in it.
Closed(c, B) == \A i \in B : i \in Nat /\ (i < Len(c) => After(c, i) \in B)

\* The places where instructions start: the first, and the next one after each.
LEMMA BoundaryFacts ==
  ASSUME NEW c \in Seq(Octet)
  PROVE  0 \in Boundary(c) /\ Closed(c, Boundary(c))
<1> DEFINE Equation(f) == f = [i \in Nat |-> {i} \cup IF i < Len(c) THEN f[After(c, i)] ELSE {}]
           V == SUBSET Nat
           base == {i \in Nat : ~(i < Len(c))}
           m == [i \in Nat |-> IF i < Len(c) THEN Len(c) - i ELSE 0]
           out == [i \in Nat |-> {i}]
           down == [i \in Nat |-> After(c, i)]
           make == [i \in Nat |-> [B \in V |-> {i} \cup B]]
           u == CHOOSE f : Equation(f)
           T == {i \in Nat : i \in u[i] /\ Closed(c, u[i])}
<1>0. Len(c) \in Nat
  OBVIOUS
<1>1. Boundary(c) = u[0]
  BY Zenon DEF Boundary, After
<1>2. \A i \in Nat : After(c, i) \in Nat /\ After(c, i) > i
  <2>1. \A x : Immediate(x) \in Nat
    BY Costs
  <2> QED  BY <2>1 DEF After
<1>3. \A i \in Nat : m[i] \in Nat /\ (i < Len(c) => m[After(c, i)] < m[i])
  <2> TAKE i \in Nat
  <2>1. PICK j \in Nat : j = After(c, i) /\ j > i
    BY <1>2
  <2> QED  BY <1>0, <2>1
<1>4. /\ \A i \in Nat : out[i] = {i} /\ down[i] = After(c, i)
      /\ \A i \in Nat : \A B \in V : make[i][B] = {i} \cup B
  OBVIOUS
<1>5. Recurses(Nat, V, m, base, out, down, make)
  <2>1. m \in [Nat -> Nat] /\ out \in [Nat -> V] /\ down \in [Nat -> Nat] /\ make \in [Nat -> [V -> V]]
    BY <1>2, <1>3
  <2>2. \A i \in Nat \ base : m[down[i]] < m[i]
    BY <1>3, <1>4
  <2> HIDE DEF m, out, down, make, base, V
  <2> QED  BY <2>1, <2>2 DEF Recurses
<1> HIDE DEF m, out, down, make
<1>6. \E f : Equation(f)
  <2>1. PICK f : Solution(f, Nat, V, base, out, down, make)
    <3> HIDE DEF V, base
    <3> QED  BY <1>5, DescentHolds
  <2>2. ASSUME NEW i \in Nat PROVE f[i] = {i} \cup IF i < Len(c) THEN f[After(c, i)] ELSE {}
    <3>1. f[i] = IF i \in base THEN out[i] ELSE make[i][f[down[i]]]
      BY <2>1 DEF Solution, Descent
    <3>2. After(c, i) \in Nat /\ f[After(c, i)] \in V
      BY <1>2, <2>1 DEF Solution
    <3>3. CASE i < Len(c)
      BY <1>4, <3>1, <3>2, <3>3
    <3>4. CASE ~(i < Len(c))
      BY <1>4, <3>1, <3>4
    <3> QED  BY <3>3, <3>4
  <2>3. f = [i \in Nat |-> f[i]]
    BY <2>1 DEF Solution
  <2>4. Equation(f)
    BY <2>2, <2>3
  <2> HIDE DEF Equation
  <2> QED  BY <2>4
<1>7. Equation(u)
  BY Zenon, <1>6
<1> HIDE DEF u
<1>8. \A i \in Nat : u[i] = {i} \cup IF i < Len(c) THEN u[After(c, i)] ELSE {}
  BY <1>7
<1>9. \A i \in Nat : i \in T
  <2>1. ASSUME NEW i \in Nat, \A j \in Nat : m[j] < m[i] => j \in T PROVE i \in T
    <3>1. CASE i < Len(c)
      <4>1. After(c, i) \in T
        BY <1>2, <1>3, <2>1, <3>1
      <4>2. u[i] = {i} \cup u[After(c, i)]
        BY <1>8, <3>1
      <4>3. Closed(c, u[i])
        BY <4>1, <4>2 DEF Closed
      <4> QED  BY <4>2, <4>3
    <3>2. CASE ~(i < Len(c))
      <4>1. u[i] = {i}
        BY <1>8, <3>2
      <4> QED  BY <3>2, <4>1 DEF Closed
    <3> QED  BY <3>1, <3>2
  <2>2. m \in [Nat -> Nat]
    BY <1>5 DEF Recurses
  <2> HIDE DEF T
  <2> QED  BY <2>1, <2>2, MeasureInduction
<1> QED  BY <1>1, <1>9

----------------------------------------------------------------------------
(***************************************************************************)
(* The inductive invariant                                                 *)
(***************************************************************************)

----------------------------------------------------------------------------
(***************************************************************************)
(* VM: the invariant                                                       *)
(***************************************************************************)

\* The machine: what it has taken from the host is paid for, and it is aligned.
MachineOK ==
  /\ code \in Seq(Octet)
  /\ calls \in 0 .. MaxCalls
  /\ status \in {"none", "run", "ok", "failed", "panic"}
  /\ limit \in 0 .. MaxGas /\ gasLeft \in 0 .. limit
  /\ pc \in 0 .. Len(code)
  /\ stack \in Seq(Int)
  /\ logs \in Nat
  /\ GasMeters
  /\ Aligned

MemoryOK == memory \in [0 .. MemCap - 1 -> Octet]

\* The storage holds words, and of tame keys and values what was stored last.
StorageOK ==
  /\ DOMAIN storage \subseteq Word
  /\ \A k \in DOMAIN storage : storage[k] \in Word
  /\ tame => DOMAIN exact = DOMAIN storage /\ \A k \in DOMAIN storage : storage[k] = exact[k]

IInv == MachineOK /\ MemoryOK /\ StorageOK

\* A step that leaves the memory, and one that leaves the storage.
LEMMA MemoryFrame ==
  ASSUME MemoryOK, memory' = memory
  PROVE  MemoryOK'
BY DEF MemoryOK

LEMMA StorageFrame ==
  ASSUME StorageOK, UNCHANGED storageVars
  PROVE  StorageOK'
BY DEF StorageOK, storageVars

\* An instruction that ends the call.
LEMMA EndKeeps ==
  ASSUME MachineOK, NEW result \in {"ok", "failed", "panic"}, End(result),
         gasLeft' \in 0 .. gasLeft, UNCHANGED <<code, calls, limit, logs>>
  PROVE  MachineOK'
<1>1. /\ status' = result /\ pc' = pc /\ stack' = stack
      /\ code' = code /\ calls' = calls /\ limit' = limit /\ logs' = logs
  BY DEF End
<1>2. gasLeft' \in 0 .. limit /\ GasMeters'
  <2>1. /\ limit \in Nat /\ gasLeft \in Nat /\ gasLeft <= limit /\ Len(stack) \in Nat /\ logs \in Nat
        /\ Len(stack) + 375 * logs <= limit - gasLeft
    BY Sizes DEF MachineOK, GasMeters
  <2>2. gasLeft' \in Nat /\ gasLeft' <= gasLeft
    BY <2>1
  <2>3. Len(stack') + 375 * logs' <= limit' - gasLeft'
    BY <1>1, <2>1, <2>2
  <2> QED  BY <2>1, <2>2, <2>3 DEF GasMeters
<1>3. Aligned'
  BY <1>1 DEF MachineOK, Aligned
<1> QED  BY <1>1, <1>2, <1>3 DEF MachineOK

\* What is on the stack and in the logs after the instruction is paid for.
LEMMA MetersKeep ==
  ASSUME MachineOK, NEW ops, Runs(ops), stack' \in Seq(Int), logs' \in Nat,
         Len(stack') + 375 * logs' <= Len(stack) + 375 * logs + gasCost(Op)
  PROVE  GasMeters'
<1>1. gasLeft' = gasLeft - gasCost(Op) /\ limit' = limit
  BY DEF Runs, Charge
<1>2. gasCost(Op) \in Nat
  BY Costs
<1>3. /\ limit \in Nat /\ gasLeft \in Nat /\ Len(stack) \in Nat /\ logs \in Nat
      /\ Len(stack) + 375 * logs <= limit - gasLeft
  BY Sizes DEF MachineOK, GasMeters
<1>4. Len(stack') \in Nat
  OBVIOUS
<1>5. Len(stack') + 375 * logs' <= limit' - gasLeft'
  <2> DEFINE before == Len(stack) + 375 * logs
             after == Len(stack') + 375 * logs'
  <2>1. before \in Int /\ after \in Int /\ before <= limit - gasLeft /\ after <= before + gasCost(Op)
    BY <1>3, <1>4
  <2>2. limit' - gasLeft' = limit - gasLeft + gasCost(Op)
    BY <1>1, <1>2, <1>3
  <2> HIDE DEF before, after
  <2>3. after <= limit - gasLeft + gasCost(Op)
    BY <1>2, <1>3, <2>1
  <2> QED  BY <2>2, <2>3 DEF after
<1> QED  BY <1>5 DEF GasMeters

\* What Runs says of the instruction.
LEMMA OpAt ==
  ASSUME MachineOK, NEW ops, Runs(ops)
  PROVE  /\ Running /\ Op \in ops
         /\ pc < Len(code) /\ Op = Name[code[pc + 1]] /\ pc \in Nat
         /\ pc + 1 + Immediate(Op) \in 0 .. Len(code)
         /\ Len(stack) >= Arity(Op)
         /\ gasLeft' = gasLeft - gasCost(Op) /\ gasLeft' \in 0 .. limit /\ gasLeft' \in 0 .. gasLeft
         /\ limit' = limit /\ code' = code /\ calls' = calls
         /\ stack \in Seq(Int) /\ Len(stack) \in Nat /\ logs \in Nat /\ limit \in Nat
<1>1. /\ Running /\ Op \in ops /\ gasLeft >= gasCost(Op) /\ gasLeft' = gasLeft - gasCost(Op)
      /\ Len(stack) >= Arity(Op) /\ pc + Immediate(Op) < Len(code)
      /\ limit' = limit /\ code' = code /\ calls' = calls
  BY DEF Runs, Charge
<1>2. gasCost(Op) \in Nat /\ Immediate(Op) \in Nat
  BY Costs
<1>3. /\ pc \in Nat /\ Len(code) \in Nat /\ gasLeft \in Nat /\ gasLeft <= limit /\ limit \in Nat
      /\ stack \in Seq(Int) /\ Len(stack) \in Nat /\ logs \in Nat
  BY Sizes DEF MachineOK
<1>4. pc < Len(code) /\ pc + 1 + Immediate(Op) \in 0 .. Len(code)
      /\ gasLeft' \in 0 .. limit /\ gasLeft' \in 0 .. gasLeft
  BY <1>1, <1>2, <1>3
<1>5. Op = Name[code[pc + 1]]
  BY <1>4 DEF Op
<1> QED  BY <1>1, <1>3, <1>4, <1>5

\* An instruction that the next one follows.
LEMMA ContinueKeeps ==
  ASSUME MachineOK, NEW ops, Runs(ops), NEW s \in Seq(Int), Continue(s), logs' \in Nat,
         Len(s) + 375 * logs' <= Len(stack) + 375 * logs + gasCost(Op)
  PROVE  MachineOK'
<1>1. stack' = s /\ pc' = pc + 1 + Immediate(Op) /\ status' = status
  BY DEF Continue
<1>2. /\ pc \in Nat /\ pc < Len(code) /\ Op = Name[code[pc + 1]]
      /\ pc + 1 + Immediate(Op) \in 0 .. Len(code)
      /\ gasLeft' \in 0 .. limit /\ limit' = limit /\ code' = code /\ calls' = calls
  BY OpAt
<1>3. GasMeters'
  BY <1>1, MetersKeep
<1>4. Aligned'
  <2>1. pc' = After(code, pc)
    BY <1>1, <1>2 DEF After
  <2>2. Closed(code, Boundary(code))
    BY BoundaryFacts DEF MachineOK
  <2>3. pc \in Boundary(code) => After(code, pc) \in Boundary(code)
    BY <1>2, <2>2 DEF Closed
  <2> QED  BY <1>2, <2>1, <2>3 DEF MachineOK, Aligned
<1> QED  BY <1>1, <1>2, <1>3, <1>4 DEF MachineOK

\* A jump to a JUMPDEST, or to nowhere.
LEMMA JumpKeeps ==
  ASSUME MachineOK, NEW ops, Runs(ops), NEW x \in Int, NEW s \in Seq(Int), Len(s) <= Len(stack),
         JumpTo(x, s), logs' = logs
  PROVE  MachineOK'
<1>0. /\ gasLeft' \in 0 .. limit /\ limit' = limit /\ code' = code /\ calls' = calls
      /\ gasLeft' \in 0 .. gasLeft /\ logs \in Nat /\ Len(stack) \in Nat
  BY OpAt
<1>1. CASE ~JumpDest(x)
  <2>1. End("failed")
    BY <1>1 DEF JumpTo
  <2> QED  BY <1>0, <2>1, EndKeeps
<1>2. CASE JumpDest(x)
  <2>1. pc' = ToInt(x) /\ stack' = s /\ status' = status
    BY <1>2 DEF JumpTo
  <2>2. ToInt(x) \in 0 .. Len(code) - 1 /\ Name[code[ToInt(x) + 1]] = "JUMPDEST"
    BY <1>2 DEF JumpDest
  <2>3. pc' \in 0 .. Len(code')
    <3>1. Len(code) \in Nat
      BY DEF MachineOK
    <3> QED  BY <1>0, <2>1, <2>2, <3>1
  <2>4. Aligned'
    BY <1>0, <2>1, <2>2 DEF Aligned
  <2>5. GasMeters'
    <3>1. gasCost(Op) \in Nat /\ Len(s) \in Nat
      BY Costs
    <3>2. Len(s) + 375 * logs <= Len(stack) + 375 * logs + gasCost(Op)
      BY <1>0, <3>1
    <3> QED  BY <1>0, <2>1, <3>2, MetersKeep
  <2> QED  BY <1>0, <2>1, <2>3, <2>4, <2>5 DEF MachineOK
<1> QED  BY <1>1, <1>2

----------------------------------------------------------------------------
(***************************************************************************)
(* Every step                                                              *)
(***************************************************************************)

----------------------------------------------------------------------------
(***************************************************************************)
(* VM: the actions                                                         *)
(***************************************************************************)

LEMMA InitKeeps == Init => IInv
<1> SUFFICES ASSUME Init PROVE IInv
  OBVIOUS
<1>1. /\ code \in Program /\ storage = << >> /\ exact = << >> /\ calls = 0 /\ status = "none"
      /\ limit = 0 /\ gasLeft = 0 /\ pc = 0 /\ stack = << >> /\ memory = EmptyMemory /\ logs = 0
  BY DEF Init
<1>2. code \in Seq(Octet)
  BY <1>1, VMAssumption DEF Octet
<1>3. GasMeters
  BY <1>1 DEF GasMeters
<1>4. Aligned
  BY <1>1, <1>2, BoundaryFacts DEF Aligned
<1>5. MachineOK
  <2>1. /\ 0 \in 0 .. Len(code) /\ 0 \in 0 .. MaxCalls /\ 0 \in 0 .. MaxGas /\ 0 \in 0 .. 0
        /\ << >> \in Seq(Int)
    BY <1>2, Sizes
  <2> QED  BY <1>1, <1>2, <1>3, <1>4, <2>1 DEF MachineOK
<1>6. MemoryOK
  BY <1>1 DEF MemoryOK, EmptyMemory, Octet
<1>7. StorageOK
  BY <1>1 DEF StorageOK
<1> QED  BY <1>5, <1>6, <1>7 DEF IInv

LEMMA ExecuteKeeps ==
  ASSUME IInv, NEW gas \in GasLimit, Execute(gas)
  PROVE  IInv'
<1>1. /\ calls < MaxCalls /\ calls' = calls + 1 /\ status' = "run"
      /\ limit' = (IF gas > MaxGas THEN MaxGas ELSE gas)
      /\ gasLeft' = limit' /\ pc' = 0 /\ stack' = << >> /\ memory' = EmptyMemory /\ logs' = 0
      /\ code' = code /\ UNCHANGED storageVars
  BY DEF Execute, CanCall, storageVars
<1>2. code \in Seq(Octet) /\ calls \in 0 .. MaxCalls
  BY DEF IInv, MachineOK
<1>3. limit' \in 0 .. MaxGas /\ gasLeft' \in 0 .. limit' /\ calls' \in 0 .. MaxCalls
      /\ 0 \in 0 .. Len(code) /\ << >> \in Seq(Int)
  BY <1>1, <1>2, Sizes, VMAssumption
<1>4. GasMeters'
  BY <1>1, <1>3, Sizes DEF GasMeters
<1>5. Aligned'
  BY <1>1, <1>2, BoundaryFacts DEF Aligned
<1>6. MachineOK'
  BY <1>1, <1>2, <1>3, <1>4, <1>5 DEF MachineOK
<1>7. MemoryOK'
  BY <1>1 DEF MemoryOK, EmptyMemory, Octet
<1> QED  BY <1>1, <1>6, <1>7, StorageFrame DEF IInv

LEMMA ExecuteTooLargeKeeps ==
  ASSUME IInv, ExecuteTooLarge
  PROVE  IInv'
<1>1. /\ calls < MaxCalls /\ calls' = calls + 1 /\ status' = "failed"
      /\ UNCHANGED <<code, limit, gasLeft, pc, stack, memory, logs>> /\ UNCHANGED storageVars
  BY DEF ExecuteTooLarge, CanCall, storageVars
<1>2. calls' \in 0 .. MaxCalls
  BY <1>1, Sizes DEF IInv, MachineOK
<1>3. GasMeters' /\ Aligned'
  BY <1>1 DEF IInv, MachineOK, GasMeters, Aligned
<1>4. MachineOK'
  BY <1>1, <1>2, <1>3 DEF IInv, MachineOK
<1> QED  BY <1>1, <1>4, MemoryFrame, StorageFrame DEF IInv

\* A call that ends, and leaves memory and storage.
LEMMA EndsKeep ==
  ASSUME IInv, NEW result \in {"ok", "failed", "panic"}, End(result), gasLeft' \in 0 .. gasLeft,
         UNCHANGED <<code, calls, limit, memory, logs, storageVars>>
  PROVE  IInv'
<1>1. MachineOK'
  BY EndKeeps DEF IInv
<1> QED  BY <1>1, MemoryFrame, StorageFrame DEF IInv

LEMMA StopsKeep ==
  ASSUME IInv, RunOff \/ OutOfGas \/ BadInstruction \/ Stop \/ Return
  PROVE  IInv'
<1>0. MachineOK /\ gasLeft \in Nat
  BY Sizes DEF IInv, MachineOK
<1>1. CASE RunOff \/ OutOfGas
  <2>1. End("ok") \/ End("failed")
    BY <1>1 DEF RunOff, OutOfGas
  <2>2. UNCHANGED <<code, calls, limit, memory, logs, storageVars>> /\ gasLeft' = gasLeft
    BY <1>1 DEF RunOff, OutOfGas
  <2>3. gasLeft' \in 0 .. gasLeft
    BY <1>0, <2>2
  <2> QED  BY <2>1, <2>2, <2>3, EndsKeep
<1>2. CASE BadInstruction
  <2>1. End("failed") /\ UNCHANGED <<code, calls, limit, memory, logs, storageVars>> /\ Charge
    BY <1>2 DEF BadInstruction
  <2>2. gasLeft' \in 0 .. gasLeft
    <3>1. gasLeft >= gasCost(Op) /\ gasLeft' = gasLeft - gasCost(Op) /\ gasCost(Op) \in Nat
      BY <2>1, Costs DEF Charge
    <3> QED  BY <1>0, <3>1
  <2> QED  BY <2>1, <2>2, EndsKeep
<1>3. CASE Stop
  <2>1. Runs({"STOP"}) /\ End("ok") /\ UNCHANGED <<memory, logs, storageVars>>
    BY <1>3 DEF Stop
  <2>2. gasLeft' \in 0 .. gasLeft /\ limit' = limit /\ code' = code /\ calls' = calls
    BY <1>0, <2>1, OpAt
  <2> QED  BY <2>1, <2>2, EndsKeep
<1>4. CASE Return
  <2>1. Runs({"RETURN", "REVERT"}) /\ UNCHANGED <<memory, logs, storageVars>>
    BY <1>4 DEF Return
  <2>2. PICK result \in {"ok", "failed", "panic"} : End(result)
    BY <1>4 DEF Return
  <2>3. gasLeft' \in 0 .. gasLeft /\ limit' = limit /\ code' = code /\ calls' = calls
    BY <1>0, <2>1, OpAt
  <2> QED  BY <2>1, <2>2, <2>3, EndsKeep
<1> QED  BY <1>1, <1>2, <1>3, <1>4

\* An instruction that ends the call with a panic.
LEMMA PanicKeeps ==
  ASSUME IInv, NEW ops, Runs(ops), End("panic"), UNCHANGED <<memory, logs, storageVars>>
  PROVE  IInv'
<1>1. gasLeft' \in 0 .. gasLeft /\ limit' = limit /\ code' = code /\ calls' = calls
  BY OpAt DEF IInv
<1> QED  BY <1>1, EndsKeep

\* An instruction that leaves s, memory and storage.
LEMMA LeavesKeep ==
  ASSUME IInv, NEW ops, Runs(ops), NEW s \in Seq(Int), Continue(s), Len(s) <= Len(stack) + gasCost(Op),
         UNCHANGED <<memory, logs, storageVars>>
  PROVE  IInv'
<1>0. MachineOK /\ logs \in Nat /\ Len(stack) \in Nat
  BY OpAt DEF IInv
<1>1. Len(s) + 375 * logs' <= Len(stack) + 375 * logs + gasCost(Op) /\ logs' \in Nat
  <2>1. gasCost(Op) \in Nat /\ Len(s) \in Nat
    BY Costs
  <2> QED  BY <1>0, <2>1
<1>2. MachineOK'
  BY <1>0, <1>1, ContinueKeeps
<1> QED  BY <1>2, MemoryFrame, StorageFrame DEF IInv

\* The same when n words leave the stack and one comes.
LEMMA ReplacesKeep ==
  ASSUME IInv, NEW ops, Runs(ops), NEW n \in Nat \ {0}, Len(stack) >= n, NEW v \in Int,
         Continue(Append(Popped(n), v)), UNCHANGED <<memory, logs, storageVars>>
  PROVE  IInv'
<1>0. stack \in Seq(Int) /\ Len(stack) \in Nat
  BY OpAt DEF IInv
<1>1. Popped(n) \in Seq(Int) /\ Len(Popped(n)) = Len(stack) - n
  BY <1>0, TopType
<1> DEFINE s == Append(Popped(n), v)
<1>2. s \in Seq(Int) /\ Len(s) = Len(stack) - n + 1
  BY <1>1
<1>3. Len(s) <= Len(stack) + gasCost(Op)
  <2>1. gasCost(Op) \in Nat
    BY Costs
  <2> QED  BY <1>0, <1>2, <2>1
<1>4. Continue(s)
  OBVIOUS
<1> HIDE DEF s
<1> QED  BY <1>2, <1>3, <1>4, LeavesKeep

\* And when one comes that is paid for.
LEMMA PushesKeep ==
  ASSUME IInv, NEW ops, Runs(ops), gasCost(Op) >= 1, NEW v \in Int,
         Continue(Append(stack, v)), UNCHANGED <<memory, logs, storageVars>>
  PROVE  IInv'
<1>0. stack \in Seq(Int) /\ Len(stack) \in Nat
  BY OpAt DEF IInv
<1> DEFINE s == Append(stack, v)
<1>2. s \in Seq(Int) /\ Len(s) = Len(stack) + 1
  BY <1>0
<1>3. Len(s) <= Len(stack) + gasCost(Op)
  <2>1. gasCost(Op) \in Nat
    BY Costs
  <2> QED  BY <1>0, <1>2, <2>1
<1>4. Continue(s)
  OBVIOUS
<1> HIDE DEF s
<1> QED  BY <1>2, <1>3, <1>4, LeavesKeep

LEMMA CalculateKeeps ==
  ASSUME IInv, Calculate
  PROVE  IInv'
<1>1. /\ Runs(Binary) /\ Continue(Append(Popped(2), Result(Op, Top(1), Top(0))))
      /\ UNCHANGED <<memory, logs, storageVars>>
  BY DEF Calculate
<1>2. Op \in Binary /\ Len(stack) >= Arity(Op) /\ stack \in Seq(Int)
  BY <1>1, OpAt DEF IInv
<1>3. Len(stack) >= 2
  BY <1>2, OperandCounts
<1>4. Top(1) \in Int /\ Top(0) \in Int
  BY <1>2, <1>3, TopType
<1>5. Result(Op, Top(1), Top(0)) \in Int
  BY <1>2, <1>4, ResultType
<1> QED  BY <1>1, <1>3, <1>5, ReplacesKeep

LEMMA NotKeeps ==
  ASSUME IInv, Not
  PROVE  IInv'
<1>1. /\ Runs({"NOT"}) /\ Continue(Append(Popped(1), -Top(0) - 1))
      /\ UNCHANGED <<memory, logs, storageVars>>
  BY DEF Not
<1>2. Op = "NOT" /\ Len(stack) >= Arity(Op) /\ stack \in Seq(Int)
  BY <1>1, OpAt DEF IInv
<1>3. Len(stack) >= 1
  BY <1>2, OperandCounts
<1>4. Top(0) \in Int
  BY <1>2, <1>3, TopType
<1>5. -Top(0) - 1 \in Int
  BY <1>4
<1> QED  BY <1>1, <1>3, <1>5, ReplacesKeep

LEMMA ShiftLeftKeeps ==
  ASSUME IInv, ShiftLeft
  PROVE  IInv'
<1> DEFINE n == Magnitude(Top(1)) % IntSize
           v == IF Top(0) = 0 THEN 0 ELSE Top(0) * Power(2, n)
<1>1. /\ Runs({"SHL"}) /\ UNCHANGED <<memory, logs, storageVars>>
      /\ Continue(Append(Popped(2), v)) \/ End("panic")
  BY DEF ShiftLeft
<1>2. Op = "SHL" /\ Len(stack) >= Arity(Op) /\ stack \in Seq(Int)
  BY <1>1, OpAt DEF IInv
<1>3. Len(stack) >= 2
  BY <1>2, OperandCounts
<1>4. Top(1) \in Int /\ Top(0) \in Int
  BY <1>2, <1>3, TopType
<1>5. v \in Int
  <2>1. n \in Nat
    BY <1>4, ToIntType
  <2> HIDE DEF n
  <2>2. Power(2, n) \in Nat
    BY <2>1, PowerFacts
  <2> QED  BY <1>4, <2>2
<1> HIDE DEF v
<1> QED  BY <1>1, <1>3, <1>5, ReplacesKeep, PanicKeeps

LEMMA PushKeeps ==
  ASSUME IInv, Push
  PROVE  IInv'
<1> DEFINE imm == SubSeq(code, pc + 2, pc + 1 + Immediate(Op))
<1>1. /\ Runs({"PUSH1", "PUSH32"}) /\ Continue(Append(stack, SetBytes(imm)))
      /\ UNCHANGED <<memory, logs, storageVars>>
  BY DEF Push
<1>2. /\ Op \in {"PUSH1", "PUSH32"} /\ pc \in Nat /\ pc + 1 + Immediate(Op) \in 0 .. Len(code)
      /\ code \in Seq(Octet)
  BY <1>1, OpAt DEF IInv, MachineOK
<1>3. imm \in Seq(Nat)
  <2>1. PICK a \in Nat : a = pc + 2 /\ a >= 1
    BY <1>2
  <2>2. PICK b \in 0 .. Len(code) : b = pc + 1 + Immediate(Op)
    BY <1>2
  <2>3. code \in Seq(Nat)
    <3>1. Octet \subseteq Nat
      BY DEF Octet
    <3>2. \A i \in 1 .. Len(code) : code[i] \in Octet
      BY <1>2
    <3>3. \A i \in 1 .. Len(code) : code[i] \in Nat
      BY <3>1, <3>2
    <3> QED  BY <1>2, <3>3
  <2>4. SubSeq(code, a, b) \in Seq(Nat)
    BY <2>1, <2>2, <2>3
  <2> QED  BY <2>1, <2>2, <2>4
<1>4. SetBytes(imm) \in Int
  <2> HIDE DEF imm
  <2>1. SetBytes(imm) \in Nat
    BY <1>3, SetBytesType
  <2> QED  BY <2>1
<1>5. gasCost(Op) >= 1
  BY <1>2, Costs
<1> HIDE DEF imm
<1> QED  BY <1>1, <1>4, <1>5, PushesKeep

LEMMA ShuffleKeeps ==
  ASSUME IInv, Shuffle
  PROVE  IInv'
<1> DEFINE s == CASE Op = "POP" -> Popped(1)
                  [] Op = "DUP" -> Append(stack, Top(0))
                  [] Op = "SWAP" -> Popped(2) \o <<Top(0), Top(1)>>
                  [] Op = "JUMPDEST" -> stack
           ops == {"POP", "DUP", "SWAP", "JUMPDEST"}
<1>1. /\ Runs(ops) /\ Continue(s) /\ UNCHANGED <<memory, logs, storageVars>>
  BY DEF Shuffle
<1>2. Op \in ops /\ Len(stack) >= Arity(Op) /\ stack \in Seq(Int) /\ Len(stack) \in Nat
  BY <1>1, OpAt DEF IInv
<1>3. gasCost(Op) \in Nat
  BY Costs
<1>4. s \in Seq(Int) /\ Len(s) <= Len(stack) + gasCost(Op)
  <2>1. CASE Op = "POP"
    <3>1. Len(stack) >= 1 /\ s = Popped(1)
      BY <1>2, <2>1, OperandCounts
    <3>2. Popped(1) \in Seq(Int) /\ Len(Popped(1)) = Len(stack) - 1
      BY <1>2, <3>1, TopType
    <3> HIDE DEF s
    <3> QED  BY <1>2, <1>3, <3>1, <3>2
  <2>2. CASE Op = "DUP"
    <3>0. s = Append(stack, Top(0))
      BY <2>2
    <3> HIDE DEF s
    <3>1. Len(stack) >= 1 /\ gasCost(Op) >= 1
      BY <1>2, <2>2, OperandCounts, Costs
    <3>2. Top(0) \in Int
      BY <1>2, <3>1, TopType
    <3>3. Append(stack, Top(0)) \in Seq(Int) /\ Len(Append(stack, Top(0))) = Len(stack) + 1
      BY <1>2, <3>2
    <3> QED  BY <1>2, <1>3, <3>0, <3>1, <3>3
  <2>3. CASE Op = "SWAP"
    <3>0. s = Popped(2) \o <<Top(0), Top(1)>>
      BY <2>3
    <3> HIDE DEF s
    <3>1. Len(stack) >= 2
      BY <1>2, <2>3, OperandCounts
    <3>2. Popped(2) \in Seq(Int) /\ Len(Popped(2)) = Len(stack) - 2 /\ Top(0) \in Int /\ Top(1) \in Int
      BY <1>2, <3>1, TopType
    <3>3. <<Top(0), Top(1)>> \in Seq(Int) /\ Len(<<Top(0), Top(1)>>) = 2
      BY <3>2
    <3>4. s \in Seq(Int) /\ Len(s) = Len(stack)
      BY <1>2, <3>0, <3>1, <3>2, <3>3
    <3> QED  BY <1>2, <1>3, <3>4
  <2>4. CASE Op = "JUMPDEST"
    <3>1. s = stack
      BY <2>4
    <3> HIDE DEF s
    <3> QED  BY <1>2, <1>3, <3>1
  <2> QED  BY <1>2, <2>1, <2>2, <2>3, <2>4
<1> HIDE DEF s, ops
<1> QED  BY <1>1, <1>4, LeavesKeep

LEMMA TellKeeps ==
  ASSUME IInv, Tell
  PROVE  IInv'
<1> DEFINE v == CASE Op = "PC" -> pc [] Op = "GAS" -> gasLeft' [] OTHER -> Env(Op)
           ops == {"PC", "GAS"} \cup Host
<1>1. /\ Runs(ops) /\ Continue(Append(stack, v)) /\ UNCHANGED <<memory, logs, storageVars>>
  BY DEF Tell
<1>2. Op \in ops /\ pc \in Nat /\ gasLeft' \in 0 .. limit
  BY <1>1, OpAt DEF IInv
<1>3. v \in Int
  <2>1. Op \in Host => Env(Op) \in Int
    BY HostAssumption
  <2> QED  BY <1>2, <2>1
<1>4. gasCost(Op) >= 1
  BY <1>2, Costs
<1> HIDE DEF v, ops
<1> QED  BY <1>1, <1>3, <1>4, PushesKeep

LEMMA TellBalanceKeeps ==
  ASSUME IInv, TellBalance
  PROVE  IInv'
<1>1. /\ Runs({"BALANCE"}) /\ Continue(Append(Popped(1), Balance(padTo32(Top(0)))))
      /\ UNCHANGED <<memory, logs, storageVars>>
  BY DEF TellBalance
<1>2. Op = "BALANCE" /\ Len(stack) >= Arity(Op) /\ stack \in Seq(Int)
  BY <1>1, OpAt DEF IInv
<1>3. Len(stack) >= 1
  BY <1>2, OperandCounts
<1>4. Top(0) \in Int
  BY <1>2, <1>3, TopType
<1>5. Balance(padTo32(Top(0))) \in Int
  BY <1>4, padTo32Facts, HostAssumption
<1> QED  BY <1>1, <1>3, <1>5, ReplacesKeep

\* What an instruction finds on the stack.
LEMMA Operands ==
  ASSUME IInv, NEW ops, Runs(ops), NEW n \in Nat, Arity(Op) = n
  PROVE  /\ Op \in ops /\ Len(stack) >= n /\ stack \in Seq(Int) /\ Len(stack) \in Nat
         /\ \A i \in 0 .. n - 1 : Top(i) \in Int
         /\ Popped(n) \in Seq(Int) /\ Len(Popped(n)) = Len(stack) - n
<1>1. Op \in ops /\ Len(stack) >= n /\ stack \in Seq(Int) /\ Len(stack) \in Nat
  BY OpAt DEF IInv
<1> QED  BY <1>1, TopType

LEMMA MLoadKeeps ==
  ASSUME IInv, MLoad
  PROVE  IInv'
<1> DEFINE off == ToInt(Top(0))
<1>1. /\ Runs({"MLOAD"}) /\ UNCHANGED <<memory, logs, storageVars>>
      /\ \/ InMemory(off, WordLen) /\ Continue(Append(Popped(1), SetBytes(Bytes(off, WordLen))))
         \/ End("panic")
  BY DEF MLoad
<1>2. Arity(Op) = 1
  <2>1. Op = "MLOAD"
    BY <1>1 DEF Runs
  <2> QED  BY <2>1, OperandCounts
<1>3. Len(stack) >= 1 /\ Top(0) \in Int
  BY <1>1, <1>2, Operands
<1>4. off \in Int /\ WordLen \in Int
  BY <1>3, ToIntType, Sizes
<1> HIDE DEF off
<1>5. CASE InMemory(off, WordLen) /\ Continue(Append(Popped(1), SetBytes(Bytes(off, WordLen))))
  <2>1. SetBytes(Bytes(off, WordLen)) \in Nat
    BY <1>4, <1>5, BytesType DEF IInv, MemoryOK
  <2>2. SetBytes(Bytes(off, WordLen)) \in Int
    BY <2>1
  <2> QED  BY <1>1, <1>3, <1>5, <2>2, ReplacesKeep
<1> QED  BY <1>1, <1>5, PanicKeeps

LEMMA SLoadKeeps ==
  ASSUME IInv, SLoad
  PROVE  IInv'
<1> DEFINE v == StorageGet(padTo32(Top(0)))
<1>1. /\ Runs({"SLOAD"}) /\ Continue(Append(Popped(1), v))
      /\ UNCHANGED <<memory, logs, storageVars>>
  BY DEF SLoad
<1>2. Arity(Op) = 1
  <2>1. Op = "SLOAD"
    BY <1>1 DEF Runs
  <2> QED  BY <2>1, OperandCounts
<1>3. Len(stack) >= 1
  BY <1>1, <1>2, Operands
<1>4. v \in Int
  <2>1. ASSUME NEW k PROVE StorageGet(k) \in Int
    <3>1. \A j \in DOMAIN storage : storage[j] \in Word
      BY DEF IInv, StorageOK
    <3>2. CASE k \in DOMAIN storage
      <4>1. StorageGet(k) \in Word
        BY <3>1, <3>2 DEF StorageGet
      <4>2. \A x \in Word : x \in Int
        BY WordType
      <4> QED  BY Zenon, <4>1, <4>2
    <3> QED  BY <3>2 DEF StorageGet
  <2> QED  BY <2>1
<1> HIDE DEF v
<1> QED  BY <1>1, <1>3, <1>4, ReplacesKeep

LEMMA Sha3Keeps ==
  ASSUME IInv, Sha3
  PROVE  IInv'
<1>1. /\ Runs({"SHA3"}) /\ UNCHANGED <<memory, logs, storageVars>>
      /\ \/ \E w \in Digest : Continue(Append(Popped(2), w))
         \/ End("panic")
  BY DEF Sha3
<1>2. Arity(Op) = 2
  <2>1. Op = "SHA3"
    BY <1>1 DEF Runs
  <2> QED  BY <2>1, OperandCounts
<1>3. Len(stack) >= 2
  BY <1>1, <1>2, Operands
<1>4. ASSUME NEW w \in Digest, Continue(Append(Popped(2), w)) PROVE IInv'
  <2>1. w \in Int
    BY VMAssumption
  <2> QED  BY <1>1, <1>3, <1>4, <2>1, ReplacesKeep
<1> QED  BY <1>1, <1>4, PanicKeeps

LEMMA CallKeeps ==
  ASSUME IInv, Call
  PROVE  IInv'
<1>1. /\ Runs({"CALL"}) /\ Continue(Append(Popped(7), 0)) /\ UNCHANGED <<memory, logs, storageVars>>
  BY DEF Call
<1>2. Arity(Op) = 7
  <2>1. Op = "CALL"
    BY <1>1 DEF Runs
  <2> QED  BY <2>1, OperandCounts
<1>3. Len(stack) >= 7
  BY <1>1, <1>2, Operands
<1> QED  BY <1>1, <1>3, ReplacesKeep

\* An instruction that takes two words and leaves none.
LEMMA TakesKeep ==
  ASSUME IInv, NEW ops, Runs(ops), Arity(Op) = 2, Continue(Popped(2)), UNCHANGED logs
  PROVE  MachineOK'
<1>1. /\ Popped(2) \in Seq(Int) /\ Len(Popped(2)) = Len(stack) - 2 /\ Len(stack) \in Nat
  BY Operands
<1>2. MachineOK /\ logs \in Nat /\ gasCost(Op) \in Nat
  BY Costs DEF IInv, MachineOK
<1>3. Len(Popped(2)) + 375 * logs' <= Len(stack) + 375 * logs + gasCost(Op) /\ logs' \in Nat
  BY <1>1, <1>2
<1> QED  BY <1>1, <1>2, <1>3, ContinueKeeps

LEMMA MStoreKeeps ==
  ASSUME IInv, MStore
  PROVE  IInv'
<1> DEFINE off == ToInt(Top(1))
           val == Magnitude(Top(0))
           byte(i) == (val \div Power(256, off + WordLen - 1 - i)) % 256
           stored == [i \in DOMAIN memory |-> IF i \in off .. off + WordLen - 1 THEN byte(i) ELSE memory[i]]
<1>1. /\ Runs({"MSTORE"}) /\ UNCHANGED <<logs, storageVars>>
      /\ \/ InMemory(off, WordLen) /\ memory' = stored /\ Continue(Popped(2))
         \/ End("panic") /\ UNCHANGED memory
  BY DEF MStore
<1>2. Arity(Op) = 2
  <2>1. Op = "MSTORE"
    BY <1>1 DEF Runs
  <2> QED  BY <2>1, OperandCounts
<1>3. Top(0) \in Int /\ Top(1) \in Int
  <2>1. Runs({"MSTORE"})
    BY <1>1
  <2> HIDE DEF stored
  <2>2. \A i \in 0 .. 2 - 1 : Top(i) \in Int
    BY <1>2, <2>1, Operands
  <2> QED  BY <2>2
<1>4. off \in Int /\ val \in Nat
  BY <1>3, ToIntType
<1>5. memory \in [0 .. MemCap - 1 -> Octet]
  BY DEF IInv, MemoryOK
<1>6. stored \in [0 .. MemCap - 1 -> Octet]
  <2> HIDE DEF off, val
  <2>1. ASSUME NEW i \in off .. off + WordLen - 1 PROVE byte(i) \in Octet
    <3>1. off + WordLen - 1 - i \in Nat
      BY <1>4, Sizes
    <3>2. PICK p \in Nat \ {0} : p = Power(256, off + WordLen - 1 - i)
      BY <3>1, PowerFacts
    <3>3. val \div p \in Int
      BY <1>4, <3>2
    <3>4. \A x \in Int : (x % 256) \in Octet
      BY DEF Octet
    <3> QED  BY <3>2, <3>3, <3>4
  <2> HIDE DEF byte
  <2> QED  BY <1>5, <2>1
<1> HIDE DEF off, stored
<1>7. CASE memory' = stored /\ Continue(Popped(2))
  <2>1. MachineOK'
    BY <1>1, <1>2, <1>7, TakesKeep
  <2>2. MemoryOK'
    BY <1>6, <1>7 DEF MemoryOK
  <2> QED  BY <1>1, <2>1, <2>2, StorageFrame DEF IInv
<1> QED  BY <1>1, <1>7, PanicKeeps

LEMMA SStoreKeeps ==
  ASSUME IInv, SStore
  PROVE  IInv'
<1> DEFINE key == Top(1)
           val == Top(0)
<1>1. /\ Runs({"SSTORE"}) /\ Continue(Popped(2)) /\ UNCHANGED <<memory, logs>>
      /\ storage' = Put(storage, padTo32(key), padTo32(val)) /\ exact' = Put(exact, key, val)
      /\ tame' = (tame /\ {key, val} \subseteq Word)
  BY DEF SStore
<1>2. Arity(Op) = 2
  <2>1. Op = "SSTORE"
    BY <1>1 DEF Runs
  <2> QED  BY <2>1, OperandCounts
<1>3. key \in Int /\ val \in Int
  BY <1>1, <1>2, Operands
<1>4. MachineOK'
  BY <1>1, <1>2, TakesKeep
<1> HIDE DEF key, val
<1>5. /\ padTo32(key) \in Word /\ padTo32(val) \in Word
      /\ key \in Word => padTo32(key) = key
      /\ val \in Word => padTo32(val) = val
  BY <1>3, padTo32Facts
<1>6. /\ DOMAIN storage' = DOMAIN storage \cup {padTo32(key)}
      /\ \A k \in DOMAIN storage' : storage'[k] = IF k = padTo32(key) THEN padTo32(val) ELSE storage[k]
      /\ DOMAIN exact' = DOMAIN exact \cup {key}
      /\ \A k \in DOMAIN exact' : exact'[k] = IF k = key THEN val ELSE exact[k]
  BY <1>1 DEF Put
<1>7. StorageOK'
  <2>1. DOMAIN storage' \subseteq Word /\ \A k \in DOMAIN storage' : storage'[k] \in Word
    BY <1>5, <1>6 DEF IInv, StorageOK
  <2>2. ASSUME tame'
        PROVE  DOMAIN exact' = DOMAIN storage' /\ \A k \in DOMAIN storage' : storage'[k] = exact'[k]
    <3>1. padTo32(key) = key /\ padTo32(val) = val
      BY <1>1, <1>5, <2>2
    <3>2. DOMAIN exact = DOMAIN storage /\ \A k \in DOMAIN storage : storage[k] = exact[k]
      BY <1>1, <2>2 DEF IInv, StorageOK
    <3> QED  BY <1>6, <3>1, <3>2
  <2> QED  BY <2>1, <2>2 DEF StorageOK
<1> QED  BY <1>1, <1>4, <1>7, MemoryFrame DEF IInv

LEMMA JumpsKeep ==
  ASSUME IInv, Jump \/ JumpIf
  PROVE  IInv'
<1>0. MachineOK
  BY DEF IInv
<1>1. ASSUME Jump PROVE MachineOK'
  <2>1. Runs({"JUMP"}) /\ JumpTo(Top(0), Popped(1)) /\ logs' = logs
    BY <1>1 DEF Jump
  <2>2. Arity(Op) = 1
    <3>1. Op = "JUMP"
      BY <2>1 DEF Runs
    <3> QED  BY <3>1, OperandCounts
  <2>3. /\ Top(0) \in Int /\ Popped(1) \in Seq(Int) /\ Len(Popped(1)) = Len(stack) - 1
        /\ Len(stack) \in Nat
    BY <2>1, <2>2, Operands
  <2>4. Len(Popped(1)) <= Len(stack)
    BY <2>3
  <2> QED  BY <1>0, <2>1, <2>3, <2>4, JumpKeeps
<1>2. ASSUME JumpIf PROVE MachineOK'
  <2>1. Runs({"JUMPI"}) /\ (JumpTo(Top(1), Popped(2)) \/ Continue(Popped(2))) /\ logs' = logs
    BY <1>2 DEF JumpIf
  <2>2. Arity(Op) = 2
    <3>1. Op = "JUMPI"
      BY <2>1 DEF Runs
    <3> QED  BY <3>1, OperandCounts
  <2>3. /\ Top(1) \in Int /\ Popped(2) \in Seq(Int) /\ Len(Popped(2)) = Len(stack) - 2
        /\ Len(stack) \in Nat
    BY <2>1, <2>2, Operands
  <2>4. Len(Popped(2)) <= Len(stack)
    BY <2>3
  <2>5. CASE JumpTo(Top(1), Popped(2))
    BY <1>0, <2>1, <2>3, <2>4, <2>5, JumpKeeps
  <2>6. CASE Continue(Popped(2))
    BY <2>1, <2>2, <2>6, TakesKeep
  <2> QED  BY <2>1, <2>5, <2>6
<1>3. UNCHANGED <<memory, storageVars>>
  BY DEF Jump, JumpIf
<1> QED  BY <1>1, <1>2, <1>3, MemoryFrame, StorageFrame DEF IInv

LEMMA LogKeeps ==
  ASSUME IInv, Log
  PROVE  IInv'
<1> DEFINE n == Arity(Op)
<1>1. /\ Runs({"LOG0", "LOG1"}) /\ UNCHANGED <<memory, storageVars>>
      /\ \/ Continue(Popped(n)) /\ logs' = logs + 1
         \/ End("panic") /\ UNCHANGED logs
  BY DEF Log
<1>2. Op \in {"LOG0", "LOG1"}
  BY <1>1 DEF Runs
<1>3. n \in Nat /\ gasCost(Op) >= 375 /\ gasCost(Op) \in Nat
  BY <1>2, Costs
<1>4. n = Arity(Op)
  OBVIOUS
<1> HIDE DEF n
<1>5. Popped(n) \in Seq(Int) /\ Len(Popped(n)) = Len(stack) - n /\ Len(stack) \in Nat
  BY <1>1, <1>3, <1>4, Operands
<1>6. MachineOK /\ logs \in Nat
  BY DEF IInv, MachineOK
<1>7. CASE Continue(Popped(n)) /\ logs' = logs + 1
  <2>1. Len(Popped(n)) + 375 * logs' <= Len(stack) + 375 * logs + gasCost(Op) /\ logs' \in Nat
    BY <1>3, <1>5, <1>6, <1>7
  <2>2. MachineOK'
    BY <1>1, <1>5, <1>6, <1>7, <2>1, ContinueKeeps
  <2> QED  BY <1>1, <2>2, MemoryFrame, StorageFrame DEF IInv
<1> QED  BY <1>1, <1>7, PanicKeeps

LEMMA StutterKeeps ==
  ASSUME IInv, UNCHANGED vars
  PROVE  IInv'
<1>1. /\ UNCHANGED <<code, calls, status, limit, gasLeft, pc, stack, logs>>
      /\ memory' = memory /\ UNCHANGED storageVars
  BY DEF vars, storageVars
<1>2. MachineOK'
  BY <1>1 DEF IInv, MachineOK, GasMeters, Aligned
<1> QED  BY <1>1, <1>2, MemoryFrame, StorageFrame DEF IInv

LEMMA NextKeeps == IInv /\ [Next]_vars => IInv'
<1> SUFFICES ASSUME IInv, [Next]_vars PROVE IInv'
  OBVIOUS
<1>1. ASSUME NEW gas \in GasLimit, Execute(gas) PROVE IInv'
  BY <1>1, ExecuteKeeps
<1>2. CASE Instruction
  BY <1>2, StopsKeep, CalculateKeeps, NotKeeps, ShiftLeftKeeps, PushKeeps, ShuffleKeeps, TellKeeps,
     TellBalanceKeeps, MLoadKeeps, MStoreKeeps, SLoadKeeps, SStoreKeeps, JumpsKeep, LogKeeps,
     Sha3Keeps, CallKeeps DEF Instruction
<1> QED  BY <1>1, <1>2, ExecuteTooLargeKeeps, StutterKeeps DEF Next

----------------------------------------------------------------------------
(***************************************************************************)
(* VM: what the invariant gives                                            *)
(***************************************************************************)

LEMMA VMInvariant == Spec => []IInv
BY InitKeeps, NextKeeps, PTL DEF Spec

\* VM: every variable keeps its type, gas is never overdrawn and storage holds words of WordLen
\* bytes, whatever integers the code makes and stores.
THEOREM TypesKept == Spec => []TypeOK
<1>1. IInv => TypeOK
  BY DEF IInv, MachineOK, MemoryOK, StorageOK, TypeOK, Octet
<1> QED  BY <1>1, VMInvariant, PTL

\* VM: what a call takes of the host is paid for: its stack is no longer and its logs are no more
\* than the gas it has used allows, for every program and gas limit.
THEOREM GasPays == Spec => []GasMeters
<1>1. IInv => GasMeters
  BY DEF IInv, MachineOK
<1> QED  BY <1>1, VMInvariant, PTL

\* VM: in a code whose immediates hold no JUMPDEST, what runs is an instruction and never data,
\* whatever jumps it takes.
THEOREM StaysAligned == Spec => []Aligned
<1>1. IInv => Aligned
  BY DEF IInv, MachineOK
<1> QED  BY <1>1, VMInvariant, PTL

\* VM: a contract reads what it stored last, over any number of calls that end in any way, as long
\* as its keys and values are words.
THEOREM ReadsWhatItStored == Spec => []StoreExact
<1>1. IInv => StoreExact
  <2> SUFFICES ASSUME IInv, tame, NEW k \in DOMAIN exact \cup DOMAIN storage
               PROVE  StorageGet(padTo32(k)) = IF k \in DOMAIN exact THEN exact[k] ELSE 0
    BY DEF StoreExact
  <2>1. /\ k \in DOMAIN storage /\ k \in DOMAIN exact /\ k \in Word /\ storage[k] = exact[k]
    BY DEF IInv, StorageOK
  <2>2. padTo32(k) = k
    BY <2>1, WordType, padTo32Facts
  <2> QED  BY <2>1, <2>2 DEF StorageGet
<1> QED  BY <1>1, VMInvariant, PTL

\* A step in which a call goes on takes gas.
Spends == [][Running /\ Running' => gasLeft' < gasLeft]_vars

\* Instructions that do not end the call have a price.
LEMMA Prices == \A op : op \notin {"STOP", "RETURN", "REVERT"} => gasCost(op) \in Nat \ {0}
BY DEF gasCost

LEMMA GoingOnSpends ==
  ASSUME IInv, Instruction, Running'
  PROVE  gasLeft' < gasLeft
<1>1. ASSUME NEW result \in {"ok", "failed", "panic"}, End(result) PROVE FALSE
  BY <1>1 DEF End, Running
<1>2. ~RunOff /\ ~OutOfGas /\ ~BadInstruction /\ ~Stop
  BY <1>1 DEF RunOff, OutOfGas, BadInstruction, Stop
<1>3. ~Return
  <2>1. Return => \E result \in {"ok", "failed", "panic"} : End(result)
    BY DEF Return
  <2> QED  BY <1>1, <2>1
<1> DEFINE rest == (Binary \cup Host)
                   \cup {"NOT", "SHL", "PUSH1", "PUSH32", "POP", "DUP", "SWAP", "JUMPDEST", "PC", "GAS",
                         "BALANCE", "MLOAD", "MSTORE", "SLOAD", "SSTORE", "JUMP", "JUMPI", "LOG0", "LOG1",
                         "SHA3", "CALL"}
<1>4. PICK ops \in SUBSET rest : Runs(ops)
  <2>1. Calculate \/ Not \/ ShiftLeft \/ Push => \E ops \in SUBSET rest : Runs(ops)
    BY DEF Calculate, Not, ShiftLeft, Push
  <2>2. Shuffle \/ Tell \/ TellBalance \/ MLoad => \E ops \in SUBSET rest : Runs(ops)
    BY DEF Shuffle, Tell, TellBalance, MLoad
  <2>3. MStore \/ SLoad \/ SStore \/ Jump => \E ops \in SUBSET rest : Runs(ops)
    BY DEF MStore, SLoad, SStore, Jump
  <2>4. JumpIf \/ Log \/ Sha3 \/ Call => \E ops \in SUBSET rest : Runs(ops)
    BY DEF JumpIf, Log, Sha3, Call
  <2> QED  BY <1>2, <1>3, <2>1, <2>2, <2>3, <2>4 DEF Instruction
<1>5. Op \notin {"STOP", "RETURN", "REVERT"}
  <2>1. Op \in rest
    BY <1>4 DEF Runs
  <2>2. \A op \in rest : op \notin {"STOP", "RETURN", "REVERT"}
    BY DEF Binary, Host
  <2> QED  BY <2>1, <2>2
<1>6. gasCost(Op) \in Nat \ {0}
  BY <1>5, Prices
<1>7. gasLeft' = gasLeft - gasCost(Op) /\ gasLeft \in Nat
  BY <1>4, Sizes DEF Runs, Charge, IInv, MachineOK
<1> QED  BY <1>6, <1>7

\* VM: every step with which a call goes on lowers the gas it has left, which is never below
\* zero: the measure by which no code, its jumps included, runs for ever.
THEOREM GoingOnCosts == Spec => Spends
<1>1. IInv /\ [Next]_vars => [Running /\ Running' => gasLeft' < gasLeft]_vars
  <2> SUFFICES ASSUME IInv, Next, Running, Running' PROVE gasLeft' < gasLeft
    OBVIOUS
  <2>1. ~ExecuteTooLarge /\ \A gas \in GasLimit : ~Execute(gas)
    BY DEF ExecuteTooLarge, Execute, CanCall, Running
  <2> QED  BY <2>1, GoingOnSpends DEF Next
<1> QED  BY <1>1, VMInvariant, PTL DEF Spec, Spends

=============================================================================
