------------------------------ MODULE Staking -------------------------------
(***************************************************************************)
(* staking.Program (gpl/staking/staking.go), the proof-of-stake program.   *)
(*                                                                         *)
(* As in TokenProgram, a call holds p.mu throughout and is one step that   *)
(* saves one record or two, of which the second may be lost.  A call that  *)
(* is refused, or that saves nothing, is not a step.  Most calls give up   *)
(* when a read fails, but RegisterValidator, Delegate and saveSlash drop   *)
(* its error and go on as if there were no record.  One call meets one     *)
(* failure at most.  The program moves no money: ClaimRewards returns an   *)
(* amount for its caller to credit.                                        *)
(***************************************************************************)
EXTENDS Integers, FiniteSets, Functions, Store

CONSTANTS Validator,          \* addresses of validators
          Delegator,          \* addresses of delegators
          MinValidatorStake,
          MinDelegation,
          Amounts,            \* stakes, rewards and slashes of calls, of any sign
          Commissions,        \* commissions of validators, in basis points
          Blocks,             \* the block numbers callers name
          MaxStake,           \* bound on stakes
          MaxSlashes,         \* bound on the slashes of a validator
          MaxRewards,         \* bound on the commission a validator earns
          MaxFaults           \* bound on the calls that meet a failure of the storage

\* Delegator is finite: finitely many addresses ever appear in calls.
ASSUME StakingAssumption ==
  /\ IsFiniteSet(Delegator)
  /\ Amounts \subseteq Int /\ Blocks \subseteq Nat
  /\ MinValidatorStake \in Nat /\ MinDelegation \in Nat \ {0}
  /\ Commissions \subseteq Nat  \* RegisterValidator takes those up to 10000
  /\ {MaxStake, MaxSlashes, MaxRewards, MaxFaults} \subseteq Nat

VARIABLES
  store,   \* p.store: validators, delegations and slash records under their keys
  faults,  \* how many calls met a failure of the storage and changed records
  earned,  \* history: the commission that AccrueRewards credited to each validator
  paid,    \* history: what ClaimRewards returned to each validator
  lost,    \* history: the rewards in the records that new registrations overwrote
  off      \* history: how far each TotalStake was driven from the stakes it totals
           \* by slashes beyond the validator's own stake and by failures

vars == <<store, faults, earned, paid, lost, off>>

validatorKey(v) == <<"validator", v>>
delegationKey(v, d) == <<"delegation", v, d>>
slashKey(v, idx) == <<"slash", v, idx>>

\* A commission, in hundredths of a percent.
BasisPoints == 0 .. 10000

ValidatorInfo ==
  [selfStake: Nat, totalStake: Int, commission: BasisPoints, jailed: BOOLEAN,
   jailUntil: Blocks \cup {0}, slashCount: Nat, accumRewards: Nat]

Delegation == [amount: Nat, pendingReward: Nat, rewardDebt: Nat]

\* The amount is negative when the caller's is, or the total stake.
SlashRecord == [amount: Int]

NewDelegation == [amount |-> 0, pendingReward |-> 0, rewardDebt |-> 0]

Init ==
  /\ store = <<>>
  /\ faults = 0
  /\ earned = [v \in Validator |-> 0]
  /\ paid = [v \in Validator |-> 0]
  /\ lost = [v \in Validator |-> 0]
  /\ off = [v \in Validator |-> 0]

----------------------------------------------------------------------------

HasValidator(v) == Has(store, validatorKey(v))
HasDelegation(v, d) == Has(store, delegationKey(v, d))

Info(v) == store[validatorKey(v)]

getDelegation(v, d) == GetOr(store, delegationKey(v, d), NewDelegation)

SaveValidator(v, info) == store' = Put(store, validatorKey(v), info)

\* A failure of the storage.
Fault == faults < MaxFaults /\ faults' = faults + 1

\* The total of v moves by delta against the stakes it totals.
Drift(v, delta) == off' = [off EXCEPT ![v] = @ + delta]

----------------------------------------------------------------------------

NewValidator(selfStake, commission) ==
  [selfStake |-> selfStake, totalStake |-> selfStake, commission |-> commission,
   jailed |-> FALSE, jailUntil |-> 0, slashCount |-> 0, accumRewards |-> 0]

\* The error of Has is dropped: when that fails, a validator that is there is
\* registered once more, over its record.
RegisterValidator(v, selfStake, commission) ==
  /\ selfStake >= MinValidatorStake
  /\ commission <= 10000
  /\ SaveValidator(v, NewValidator(selfStake, commission))
  /\ \/ ~HasValidator(v) /\ UNCHANGED <<faults, lost, off>>
     \/ /\ HasValidator(v) /\ Fault
        /\ Drift(v, Info(v).selfStake - Info(v).totalStake)
        /\ lost' = [lost EXCEPT ![v] = @ + Info(v).accumRewards]
  /\ UNCHANGED <<earned, paid>>

\* Mutant of AddSelfStake: the total is forgotten.
AddSelfStakeOnly(v, amount) ==
  /\ amount > 0
  /\ HasValidator(v) /\ ~Info(v).jailed
  /\ SaveValidator(v, [Info(v) EXCEPT !.selfStake = @ + amount])
  /\ UNCHANGED <<faults, earned, paid, lost, off>>

AddSelfStake(v, amount) ==
  /\ amount > 0
  /\ HasValidator(v) /\ ~Info(v).jailed
  /\ SaveValidator(v, [Info(v) EXCEPT !.selfStake = @ + amount, !.totalStake = @ + amount])
  /\ UNCHANGED <<faults, earned, paid, lost, off>>

\* The end of Delegate and Undelegate: the validator is saved, then the
\* delegation, unless the second Put is lost.
Bond(v, d, amount) ==
  LET info == [Info(v) EXCEPT !.totalStake = @ + amount]
      bond == [getDelegation(v, d) EXCEPT !.amount = @ + amount]
  IN /\ \/ /\ store' = PutBoth(store, validatorKey(v), info, delegationKey(v, d), bond)
           /\ UNCHANGED <<faults, off>>
        \/ SaveValidator(v, info) /\ Fault /\ Drift(v, amount)
     /\ UNCHANGED <<earned, paid, lost>>

\* A delegation that cannot be read counts as none: a new one is saved over it.
BondAnew(v, d, amount) ==
  /\ HasDelegation(v, d)
  /\ store' = PutBoth(store, validatorKey(v), [Info(v) EXCEPT !.totalStake = @ + amount],
                      delegationKey(v, d), [NewDelegation EXCEPT !.amount = amount])
  /\ Fault /\ Drift(v, getDelegation(v, d).amount)
  /\ UNCHANGED <<earned, paid, lost>>

Delegate(v, d, amount) ==
  /\ amount >= MinDelegation
  /\ HasValidator(v) /\ ~Info(v).jailed
  /\ Bond(v, d, amount) \/ BondAnew(v, d, amount)

\* Mutant of Undelegate: the delegation is not compared with the amount.
UndelegateUnchecked(v, d, amount) ==
  /\ amount > 0
  /\ HasValidator(v) /\ HasDelegation(v, d)
  /\ Bond(v, d, -amount)

\* A jailed validator keeps nobody's stake.
Undelegate(v, d, amount) ==
  /\ amount > 0
  /\ HasValidator(v) /\ HasDelegation(v, d)
  /\ getDelegation(v, d).amount >= amount
  /\ Bond(v, d, -amount)

\* The validator's share of the reward of an epoch, rounded down.
Commission(info, totalReward) == (totalReward * info.commission) \div 10000

\* Mutant of AccrueRewards: a jailed validator earns on.
AccrueRewardsInJail(v, totalReward) ==
  /\ totalReward > 0
  /\ HasValidator(v)
  /\ LET commission == Commission(Info(v), totalReward) IN
       /\ SaveValidator(v, [Info(v) EXCEPT !.accumRewards = @ + commission])
       /\ earned' = [earned EXCEPT ![v] = @ + commission]
  /\ UNCHANGED <<faults, paid, lost, off>>

\* AccrueRewards credits the commission and drops the rest of the reward: nothing
\* ever adds to a delegation's pending reward.
AccrueRewards(v, totalReward) ==
  /\ totalReward > 0
  /\ HasValidator(v) /\ ~Info(v).jailed
  /\ LET commission == Commission(Info(v), totalReward) IN
       /\ SaveValidator(v, [Info(v) EXCEPT !.accumRewards = @ + commission])
       /\ earned' = [earned EXCEPT ![v] = @ + commission]
  /\ UNCHANGED <<faults, paid, lost, off>>

\* Mutant of ClaimRewards: the rewards stay on the account.
ClaimRewardsAgain(v, claimant) ==
  /\ HasValidator(v)
  /\ claimant = v /\ Info(v).accumRewards # 0
  /\ paid' = [paid EXCEPT ![v] = @ + Info(v).accumRewards]
  /\ UNCHANGED <<store, faults, earned, lost, off>>

\* ClaimRewards, for the validator itself and for a delegator.
ClaimRewards(v, claimant) ==
  /\ HasValidator(v)
  /\ IF claimant = v
     THEN /\ Info(v).accumRewards # 0
          /\ SaveValidator(v, [Info(v) EXCEPT !.accumRewards = 0])
          /\ paid' = [paid EXCEPT ![v] = @ + Info(v).accumRewards]
     ELSE /\ HasDelegation(v, claimant)
          /\ getDelegation(v, claimant).pendingReward # 0
          /\ store' = Put(store, delegationKey(v, claimant),
                          [getDelegation(v, claimant) EXCEPT
                             !.rewardDebt = @ + getDelegation(v, claimant).pendingReward,
                             !.pendingReward = 0])
          /\ UNCHANGED paid
  /\ UNCHANGED <<faults, earned, lost, off>>

\* Mutant of slashIndex: every record goes under the first index.
slashIndexLost(v, isRead) == 0

\* saveSlash reads the number of earlier slashes from the storage, and drops the error.
slashIndex(v, isRead) == IF isRead THEN Info(v).slashCount ELSE 0

\* Slash takes at most the total stake, from the total and from the validator's
\* own stake as far as that goes; a negative amount, which nobody refuses, it adds
\* to both.  The record is saved first and its error dropped.
Slash(v, amount, jailUntil) ==
  /\ HasValidator(v)
  /\ LET old == Info(v)
         slash == IF amount > old.totalStake THEN old.totalStake ELSE amount
         self == IF old.selfStake >= slash THEN old.selfStake - slash ELSE 0
         info == [old EXCEPT !.totalStake = @ - slash, !.selfStake = self, !.jailed = TRUE,
                             !.jailUntil = jailUntil, !.slashCount = @ + 1]
         record == [amount |-> slash]
         drift == old.selfStake - self - slash
     IN \/ \E isRead \in BOOLEAN :
             /\ store' = PutBoth(store, slashKey(v, slashIndex(v, isRead)), record,
                                 validatorKey(v), info)
             /\ Drift(v, drift)
             /\ IF isRead THEN UNCHANGED faults ELSE Fault
        \/ SaveValidator(v, info) /\ Fault /\ Drift(v, drift)
        \/ /\ store' = Put(store, slashKey(v, slashIndex(v, TRUE)), record)
           /\ Fault
           /\ UNCHANGED off
  /\ UNCHANGED <<earned, paid, lost>>

Unjail(v, blockNum) ==
  /\ HasValidator(v)
  /\ blockNum >= Info(v).jailUntil
  /\ SaveValidator(v, [Info(v) EXCEPT !.jailed = FALSE])
  /\ UNCHANGED <<faults, earned, paid, lost, off>>

----------------------------------------------------------------------------

\* The bounds: calls that would go beyond them are not made.
WithinBounds ==
  \A v \in Validator :
    HasValidator(v) => /\ Info(v).totalStake \in -MaxStake .. MaxStake
                       /\ Info(v).selfStake <= MaxStake
                       /\ Info(v).slashCount <= MaxSlashes
                       /\ earned[v] <= MaxRewards

Call(v) ==
  \/ \E stake \in Amounts, c \in Commissions : RegisterValidator(v, stake, c)
  \/ \E amount \in Amounts :
       \/ AddSelfStake(v, amount)
       \/ \E d \in Delegator : Delegate(v, d, amount) \/ Undelegate(v, d, amount)
       \/ AccrueRewards(v, amount)
       \/ \E until \in Blocks : Slash(v, amount, until)
  \/ \E c \in Delegator \cup {v} : ClaimRewards(v, c)
  \/ \E b \in Blocks : Unjail(v, b)

Next ==
  /\ \E v \in Validator : Call(v)
  /\ WithinBounds'

Spec == Init /\ [][Next]_vars

----------------------------------------------------------------------------
(***************************************************************************)
(* Properties                                                              *)
(***************************************************************************)

\* Records have the types of ValidatorInfo, Delegation and SlashRecord: whatever amounts
\* the callers name, own stakes, delegations and rewards are never negative.
TypeOK ==
  /\ DOMAIN store \subseteq {validatorKey(v) : v \in Validator}
                            \cup {delegationKey(v, d) : v \in Validator, d \in Delegator}
                            \cup {slashKey(v, i) : v \in Validator, i \in 0 .. MaxSlashes}
  /\ \A v \in Validator :
       /\ HasValidator(v) => Info(v) \in ValidatorInfo
       /\ \A d \in Delegator : HasDelegation(v, d) => getDelegation(v, d) \in Delegation
       /\ \A i \in 0 .. MaxSlashes :
            Has(store, slashKey(v, i)) => store[slashKey(v, i)] \in SlashRecord
  /\ faults \in 0 .. MaxFaults
  /\ {earned, paid, lost} \subseteq [Validator -> Nat]
  /\ off \in [Validator -> Int]

Delegated(v) == SumFunction([d \in Delegator |-> getDelegation(v, d).amount])

\* After any sequence of calls a validator's TotalStake is its own stake and what is
\* delegated to it, but for slashes beyond the own stake (nobody's stake covers the
\* rest), calls that saved one record of two, and records that a failing read let
\* a new delegation or a new registration overwrite.
StakeAccounted ==
  \A v \in Validator :
    HasValidator(v) => Info(v).totalStake = Info(v).selfStake + Delegated(v) + off[v]

\* A validator is paid every commission it earned exactly once, or still has it to
\* claim, unless it was in a record that a new registration overwrote.
RewardsPaidOnce ==
  \A v \in Validator :
    paid[v] + lost[v] + (IF HasValidator(v) THEN Info(v).accumRewards ELSE 0) = earned[v]

HasSlash(v, i) == Has(store, slashKey(v, i))

\* From a slash to the unjailing after it, no reward is added to a validator's account,
\* whatever the callers try, and no stake but by one more slash (of a negative amount,
\* or of a total that withdrawals took below zero: see SlashPenalises), whose record,
\* unless it was lost, tells how much.
JailedEarnsNothing ==
  [][\A v \in Validator :
       HasValidator(v) /\ Info(v).jailed /\ Info(v)'.jailed =>
         /\ Info(v)'.accumRewards <= Info(v).accumRewards
         /\ \/ /\ Info(v)'.totalStake <= Info(v).totalStake
               /\ Info(v)'.selfStake <= Info(v).selfStake
            \/ /\ Info(v)'.slashCount = Info(v).slashCount + 1
               /\ \/ faults' # faults
                  \/ /\ Has(store', slashKey(v, Info(v).slashCount))
                     /\ store'[slashKey(v, Info(v).slashCount)].amount =
                          Info(v).totalStake - Info(v)'.totalStake]_vars

\* The slash history is complete, but for one record for each failure, and stays as
\* it was written: the retry of a half-saved slash overwrites no other record, and a
\* slash that cannot read how many there were overwrites none but the first.
SlashHistory ==
  /\ [](\A v \in Validator :
          HasValidator(v) =>
            Cardinality({i \in 0 .. Info(v).slashCount - 1 : ~HasSlash(v, i)}) <= faults)
  /\ [][\A v \in Validator :
          HasValidator(v) =>
            \A i \in 0 .. Info(v).slashCount - 1 :
              HasSlash(v, i) =>
                /\ HasSlash(v, i)'
                /\ \/ store'[slashKey(v, i)] = store[slashKey(v, i)]
                   \/ i = 0 /\ faults' # faults]_vars

\* "Slash penalises a misbehaving validator": no call of Slash raises the stake of
\* the validator, its own or the total.
SlashPenalises ==
  [][\A v \in Validator :
       HasValidator(v) /\ Info(v)'.slashCount > Info(v).slashCount =>
         /\ Info(v)'.selfStake <= Info(v).selfStake
         /\ Info(v)'.totalStake <= Info(v).totalStake]_vars
=============================================================================
