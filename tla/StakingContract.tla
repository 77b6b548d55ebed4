--------------------------- MODULE StakingContract ---------------------------
(***************************************************************************)
(* GYDSStaking.sol, the staking contract that is deployed on the chain.    *)
(*                                                                         *)
(* A call is one transaction: it is executed whole or reverted whole, so   *)
(* every function is one action, whose guard is what does not revert: its  *)
(* require's, its modifiers, the checked arithmetic of Solidity 0.8 (no    *)
(* unsigned number below zero, no division by zero), and the balance that  *)
(* a transfer needs.  Amounts are far from 2^256.  The accounts that stake *)
(* take what they are sent.                                                *)
(*                                                                         *)
(* A validator that leaves stays in validatorList, and one that registers  *)
(* again is in it twice: it then counts twice in activeCount and is paid   *)
(* twice by distributeRewards.  One that is slashed below the minimum can  *)
(* neither unstake nor claim; when it registers again, register overwrites *)
(* what was left of its stake and of its reward.                           *)
(***************************************************************************)
EXTENDS Integers, FiniteSets, Sequences, Functions

CONSTANTS Addr,       \* the accounts that may register
          MIN_STAKE,
          Stakes,     \* what register may be sent
          Payments,   \* what distributeRewards and receive may be sent
          Slashes,    \* the amounts that slash may name
          MaxList,    \* bound on the length of validatorList
          MaxBalance  \* bound on the balance of the contract

\* Addr is finite: finitely many accounts ever call the contract.
ASSUME ContractAssumption ==
  /\ IsFiniteSet(Addr)
  /\ MIN_STAKE \in Nat \ {0}
  /\ Stakes \subseteq Nat /\ Payments \subseteq Nat /\ Slashes \subseteq Nat
  /\ MaxList \in Nat /\ MaxBalance \in Nat

VARIABLES
  validators,     \* the mapping, whose default is a record of zeros
  validatorList,
  totalStaked,
  rewardPool,
  balance,        \* address(this).balance
  ownerless,      \* history: stakes that register overwrote
  unpaid,         \* history: rewards that register overwrote, and remainders
  fund            \* history: what was slashed or given: no function pays it out

contractVars == <<validators, validatorList, totalStaked, rewardPool, balance, ownerless,
                  unpaid, fund>>

history == <<ownerless, unpaid, fund>>

Validator == [stake: Nat, active: BOOLEAN, rewardDebt: Nat]

NoValidator == [stake |-> 0, active |-> FALSE, rewardDebt |-> 0]

ContractInit ==
  /\ validators = [a \in Addr |-> NoValidator]
  /\ validatorList = <<>>
  /\ totalStaked = 0 /\ rewardPool = 0 /\ balance = 0
  /\ ownerless = 0 /\ unpaid = 0 /\ fund = 0

----------------------------------------------------------------------------

\* Mutant of IsRegistered: a validator is known by its stake.
HasStake(a) == validators[a].stake > 0

IsRegistered(a) == validators[a].active

\* The places of the list whose validator is active.
ActivePlaces == {i \in DOMAIN validatorList : validators[validatorList[i]].active}

\* Mutant of activeCount: every validator counts once.
activeCountDistinct == Cardinality({validatorList[i] : i \in ActivePlaces})

activeCount == Cardinality(ActivePlaces)

\* How often the loop of distributeRewards comes to a while it is active.
Shares(a) == Cardinality({i \in ActivePlaces : validatorList[i] = a})

Receive(amount) == balance + amount <= MaxBalance /\ balance' = balance + amount

Send(amount) == balance >= amount /\ balance' = balance - amount

----------------------------------------------------------------------------

register(a, amount) ==
  /\ amount >= MIN_STAKE
  /\ ~IsRegistered(a)
  /\ Len(validatorList) < MaxList
  /\ Receive(amount)
  /\ validators' = [validators EXCEPT
                      ![a] = [stake |-> amount, active |-> TRUE, rewardDebt |-> 0]]
  /\ validatorList' = Append(validatorList, a)
  /\ totalStaked' = totalStaked + amount
  /\ ownerless' = ownerless + validators[a].stake
  /\ unpaid' = unpaid + validators[a].rewardDebt
  /\ UNCHANGED <<rewardPool, fund>>

unstake(a) ==
  LET amount == validators[a].stake IN
  /\ validators[a].active
  /\ totalStaked >= amount
  /\ Send(amount)
  /\ validators' = [validators EXCEPT ![a].active = FALSE, ![a].stake = 0]
  /\ totalStaked' = totalStaked - amount
  /\ UNCHANGED <<validatorList, rewardPool, history>>

\* Called by the owner.
distributeRewards(amount) ==
  LET perValidator == amount \div activeCount IN
  /\ Len(validatorList) > 0
  /\ activeCount > 0
  /\ Receive(amount)
  /\ validators' = [a \in Addr |->
       [validators[a] EXCEPT !.rewardDebt = @ + Shares(a) * perValidator]]
  /\ rewardPool' = rewardPool + amount
  /\ unpaid' = unpaid + (amount % activeCount)
  /\ UNCHANGED <<validatorList, totalStaked, ownerless, fund>>

\* Mutant of claimReward: the reward stays on the books.
claimRewardKept(a) ==
  LET reward == validators[a].rewardDebt IN
  /\ validators[a].active
  /\ reward > 0
  /\ rewardPool >= reward
  /\ Send(reward)
  /\ rewardPool' = rewardPool - reward
  /\ UNCHANGED <<validators, validatorList, totalStaked, history>>

claimReward(a) ==
  LET reward == validators[a].rewardDebt IN
  /\ validators[a].active
  /\ reward > 0
  /\ rewardPool >= reward
  /\ Send(reward)
  /\ validators' = [validators EXCEPT ![a].rewardDebt = 0]
  /\ rewardPool' = rewardPool - reward
  /\ UNCHANGED <<validatorList, totalStaked, history>>

\* Mutant of slash: a validator below the minimum stays active.
slashOnly(a, amount) ==
  LET slashAmt == IF amount > validators[a].stake THEN validators[a].stake ELSE amount IN
  /\ validators[a].active
  /\ totalStaked >= slashAmt
  /\ validators' = [validators EXCEPT ![a].stake = @ - slashAmt]
  /\ totalStaked' = totalStaked - slashAmt
  /\ fund' = fund + slashAmt
  /\ UNCHANGED <<validatorList, rewardPool, balance, ownerless, unpaid>>

\* Called by the owner.
slash(a, amount) ==
  LET slashAmt == IF amount > validators[a].stake THEN validators[a].stake ELSE amount
      left == validators[a].stake - slashAmt
  IN
  /\ validators[a].active
  /\ totalStaked >= slashAmt
  /\ validators' = [validators EXCEPT ![a].stake = left, ![a].active = left >= MIN_STAKE]
  /\ totalStaked' = totalStaked - slashAmt
  /\ fund' = fund + slashAmt
  /\ UNCHANGED <<validatorList, rewardPool, balance, ownerless, unpaid>>

\* Anybody may send to the contract, and nothing is noted.
receive(amount) ==
  /\ amount > 0
  /\ Receive(amount)
  /\ fund' = fund + amount
  /\ UNCHANGED <<validators, validatorList, totalStaked, rewardPool, ownerless, unpaid>>

----------------------------------------------------------------------------

ContractNext ==
  \/ \E a \in Addr : \/ \E amount \in Stakes : register(a, amount)
                     \/ unstake(a)
                     \/ claimReward(a)
                     \/ \E amount \in Slashes : slash(a, amount)
  \/ \E amount \in Payments : distributeRewards(amount) \/ receive(amount)

ContractSpec == ContractInit /\ [][ContractNext]_contractVars

----------------------------------------------------------------------------
(***************************************************************************)
(* Properties                                                              *)
(***************************************************************************)

\* The types of the contract's state; and a validator is active only with the
\* minimum staked and a place in the list, where every share is found.
ContractTypeOK ==
  /\ validators \in [Addr -> Validator]
  /\ validatorList \in Seq(Addr)
  /\ totalStaked \in Nat /\ rewardPool \in Nat /\ balance \in Nat
  /\ ownerless \in Nat /\ unpaid \in Nat /\ fund \in Nat
  /\ \A a \in Addr : validators[a].active =>
       /\ validators[a].stake >= MIN_STAKE
       /\ \E i \in DOMAIN validatorList : validatorList[i] = a

Stake == SumFunction([a \in Addr |-> validators[a].stake])
Reward == SumFunction([a \in Addr |-> validators[a].rewardDebt])

\* The two totals are what they total and what was written over, and the contract
\* holds both: through leaving, slashing and returning, with a place in the list for
\* every return and shares that leave a remainder, no division or subtraction is off.
Accounted ==
  /\ totalStaked = Stake + ownerless
  /\ rewardPool = Reward + unpaid
  /\ balance = totalStaked + rewardPool + fund

\* What the contract owes validator a.
Owed(v) == v.stake + v.rewardDebt

\* Money leaves the contract only for a validator that is active, which is owed that
\* much less afterwards.
PaidFrom(a) ==
  /\ validators[a].active
  /\ Owed(validators[a]) - Owed(validators'[a]) = balance - balance'

\* The records of all others stay.
OnlyTouches(a) == \A b \in Addr \ {a} : validators'[b] = validators[b]

FairStep ==
  /\ balance' < balance => \E a \in Addr : PaidFrom(a)
  /\ \A a \in Addr : Owed(validators'[a]) < Owed(validators[a]) =>
       /\ \/ PaidFrom(a)
          \/ fund' - fund = Owed(validators[a]) - Owed(validators'[a])
               /\ validators'[a].rewardDebt = validators[a].rewardDebt
          \/ ~validators[a].active /\ validators'[a].active
       /\ OnlyTouches(a)

\* What a validator is owed falls only by what it is paid, by what is taken from an
\* active validator's stake into the fund, or by its own return; and one validator's
\* claim, leaving, slash or return leaves what all others are owed as it is.
NobodyElsePays == [][FairStep]_contractVars
=============================================================================
