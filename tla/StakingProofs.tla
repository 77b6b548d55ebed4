---------------------------- MODULE StakingProofs ----------------------------
(***************************************************************************)
(* What Staking keeps for any validators, delegators, amounts of any sign, *)
(* commissions and number of failures of the storage.                      *)
(*                                                                         *)
(* As in TokenProofs, the first part says of any store what one Put does;  *)
(* the calls compose that.                                                 *)
(***************************************************************************)
EXTENDS Staking, Lemmas

\* The three kinds of keys do not meet, and a key tells whose it is.
LEMMA KeysDiffer ==
  /\ \A v, w, d : validatorKey(v) # delegationKey(w, d)
  /\ \A v, w, i : validatorKey(v) # slashKey(w, i)
  /\ \A v, d, w, i : delegationKey(v, d) # slashKey(w, i)
  /\ \A v, w : validatorKey(v) = validatorKey(w) => v = w
  /\ \A v, d, w, e : delegationKey(v, d) = delegationKey(w, e) => v = w /\ d = e
  /\ \A v, i, w, j : slashKey(v, i) = slashKey(w, j) => v = w /\ i = j
BY DEF validatorKey, delegationKey, slashKey

----------------------------------------------------------------------------
(***************************************************************************)
(* One Put                                                                 *)
(***************************************************************************)

InfoIn(s, v) == s[validatorKey(v)]

DelegationIn(s, v, d) == GetOr(s, delegationKey(v, d), NewDelegation)

AmountsIn(s, v) == [d \in Delegator |-> DelegationIn(s, v, d).amount]

DelegatedIn(s, v) == SumFunctionOnSet(AmountsIn(s, v), Delegator)

MissingIn(s, v) == {i \in 0 .. InfoIn(s, v).slashCount - 1 : ~Has(s, slashKey(v, i))}

\* The types of the records; and there is no delegation to a validator that is not
\* registered, and no slash record beyond the bound.
StoreOK(s) ==
  /\ DOMAIN s \subseteq {validatorKey(v) : v \in Validator}
                        \cup {delegationKey(v, d) : v \in Validator, d \in Delegator}
                        \cup {slashKey(v, i) : v \in Validator, i \in 0 .. MaxSlashes}
  /\ \A v \in Validator : Has(s, validatorKey(v)) =>
       InfoIn(s, v) \in ValidatorInfo /\ InfoIn(s, v).slashCount <= MaxSlashes
  /\ \A v \in Validator, d \in Delegator : Has(s, delegationKey(v, d)) =>
       s[delegationKey(v, d)] \in Delegation /\ Has(s, validatorKey(v))
  /\ \A v \in Validator, i \in 0 .. MaxSlashes : Has(s, slashKey(v, i)) =>
       s[slashKey(v, i)] \in SlashRecord

SameInfo(s, t, v) ==
  /\ Has(t, validatorKey(v)) <=> Has(s, validatorKey(v))
  /\ Has(s, validatorKey(v)) => InfoIn(t, v) = InfoIn(s, v)

SameSlash(s, t, v, i) ==
  /\ Has(t, slashKey(v, i)) <=> Has(s, slashKey(v, i))
  /\ Has(s, slashKey(v, i)) => t[slashKey(v, i)] = s[slashKey(v, i)]

\* t is s with a validator's record replaced.
ValidatorSaved(s, t, v, info) ==
  /\ StoreOK(t) /\ Has(t, validatorKey(v)) /\ InfoIn(t, v) = info
  /\ \A w \in Validator \ {v} : SameInfo(s, t, w)
  /\ \A w \in Validator, d \in Delegator : DelegationIn(t, w, d) = DelegationIn(s, w, d)
  /\ \A w \in Validator : DelegatedIn(t, w) = DelegatedIn(s, w)
  /\ \A w \in Validator, i \in Int : SameSlash(s, t, w, i)

\* t is s with a delegation replaced.
DelegationSaved(s, t, v, d, bond) ==
  /\ StoreOK(t)
  /\ \A w \in Validator : SameInfo(s, t, w)
  /\ \A w \in Validator :
       DelegatedIn(t, w) =
         DelegatedIn(s, w) + IF w = v THEN bond.amount - DelegationIn(s, v, d).amount ELSE 0
  /\ \A w \in Validator, i \in Int : SameSlash(s, t, w, i)

\* t is s with a slash record written.
SlashSaved(s, t, v, n, record) ==
  /\ StoreOK(t) /\ Has(t, slashKey(v, n)) /\ t[slashKey(v, n)] = record
  /\ \A w \in Validator : SameInfo(s, t, w)
  /\ \A w \in Validator : DelegatedIn(t, w) = DelegatedIn(s, w)
  /\ \A w \in Validator, i \in Int : w # v \/ i # n => SameSlash(s, t, w, i)

\* The numbers of a validator's record.
LEMMA InfoTypes ==
  ASSUME NEW r \in ValidatorInfo
  PROVE  /\ r.selfStake \in Nat /\ r.totalStake \in Int /\ r.accumRewards \in Nat
         /\ r.slashCount \in Nat /\ r.commission \in Nat /\ r.jailed \in BOOLEAN
<1>1. r.selfStake \in Nat /\ r.totalStake \in Int /\ r.accumRewards \in Nat
  BY DEF ValidatorInfo
<1>2. r.slashCount \in Nat /\ r.jailed \in BOOLEAN
  BY DEF ValidatorInfo
<1>3. r.commission \in BasisPoints
  BY DEF ValidatorInfo
<1>4. BasisPoints \subseteq Nat
  BY DEF BasisPoints
<1> QED  BY <1>1, <1>2, <1>3, <1>4

\* Every delegator has a delegation to every validator, if only the one made up for it.
LEMMA DelegationTypes ==
  ASSUME NEW s, StoreOK(s), NEW v \in Validator, NEW d \in Delegator
  PROVE  DelegationIn(s, v, d) \in Delegation
BY DEF StoreOK, DelegationIn, GetOr, NewDelegation, Delegation

LEMMA DelegatedTypes ==
  ASSUME NEW s, StoreOK(s), NEW v \in Validator
  PROVE  DelegatedIn(s, v) \in Int
<1>1. \A d \in Delegator : AmountsIn(s, v)[d] \in Int
  BY DelegationTypes DEF AmountsIn, Delegation
<1> QED  BY <1>1, StakingAssumption, SumInt DEF DelegatedIn

\* Nothing is delegated to a validator that is not registered.
LEMMA NothingDelegated ==
  ASSUME NEW s, StoreOK(s), NEW v \in Validator, ~Has(s, validatorKey(v))
  PROVE  DelegatedIn(s, v) = 0
<1>1. \A d \in Delegator : AmountsIn(s, v)[d] = 0
  BY DEF AmountsIn, StoreOK, DelegationIn, GetOr, NewDelegation
<1> QED  BY <1>1, StakingAssumption, SumZero DEF DelegatedIn

\* Stores whose delegations are the same have the same sums of them.
LEMMA SameDelegated ==
  ASSUME NEW s, NEW t, NEW v \in Validator,
         \A d \in Delegator : DelegationIn(t, v, d) = DelegationIn(s, v, d)
  PROVE  DelegatedIn(t, v) = DelegatedIn(s, v)
<1>1. AmountsIn(t, v) = AmountsIn(s, v)
  BY DEF AmountsIn
<1> QED  BY <1>1 DEF DelegatedIn

\* Put of a validator's record.
LEMMA PutValidator ==
  ASSUME NEW s, StoreOK(s), NEW v \in Validator, NEW info \in ValidatorInfo,
         info.slashCount <= MaxSlashes
  PROVE  ValidatorSaved(s, Put(s, validatorKey(v), info), v, info)
<1> DEFINE t == Put(s, validatorKey(v), info)
<1>1. /\ DOMAIN t = DOMAIN s \cup {validatorKey(v)}
      /\ t[validatorKey(v)] = info
      /\ \A k \in DOMAIN s : k # validatorKey(v) => t[k] = s[k]
  BY DEF Put
<1> HIDE DEF t
<1>2. Has(t, validatorKey(v)) /\ InfoIn(t, v) = info
  BY <1>1 DEF Has, InfoIn
<1>3. \A w \in Validator \ {v} : SameInfo(s, t, w)
  BY <1>1, KeysDiffer DEF Has, SameInfo, InfoIn
<1>4. ASSUME NEW w \in Validator, NEW d \in Delegator
      PROVE  /\ Has(t, delegationKey(w, d)) <=> Has(s, delegationKey(w, d))
             /\ Has(s, delegationKey(w, d)) => t[delegationKey(w, d)] = s[delegationKey(w, d)]
  BY <1>1, KeysDiffer DEF Has
<1>5. \A w \in Validator, d \in Delegator : DelegationIn(t, w, d) = DelegationIn(s, w, d)
  BY <1>4 DEF DelegationIn, GetOr
<1>6. \A w \in Validator, i \in Int : SameSlash(s, t, w, i)
  BY <1>1, KeysDiffer DEF Has, SameSlash
<1>7. StoreOK(t)
  <2>1. DOMAIN t \subseteq {validatorKey(w) : w \in Validator}
                           \cup {delegationKey(w, d) : w \in Validator, d \in Delegator}
                           \cup {slashKey(w, i) : w \in Validator, i \in 0 .. MaxSlashes}
    BY <1>1 DEF StoreOK
  <2>2. ASSUME NEW w \in Validator, Has(t, validatorKey(w))
        PROVE  InfoIn(t, w) \in ValidatorInfo /\ InfoIn(t, w).slashCount <= MaxSlashes
    <3>1. CASE w = v
      BY <1>2, <3>1
    <3>2. CASE w # v
      BY <1>3, <2>2, <3>2 DEF StoreOK, SameInfo
    <3> QED  BY <3>1, <3>2
  <2>3. ASSUME NEW w \in Validator, NEW d \in Delegator, Has(t, delegationKey(w, d))
        PROVE  t[delegationKey(w, d)] \in Delegation /\ Has(t, validatorKey(w))
    BY <1>2, <1>3, <1>4, <2>3 DEF StoreOK, SameInfo
  <2>4. ASSUME NEW w \in Validator, NEW i \in 0 .. MaxSlashes, Has(t, slashKey(w, i))
        PROVE  t[slashKey(w, i)] \in SlashRecord
    BY <1>6, <2>4, StakingAssumption DEF StoreOK, SameSlash
  <2> QED  BY <2>1, <2>2, <2>3, <2>4 DEF StoreOK
<1>8. \A w \in Validator : DelegatedIn(t, w) = DelegatedIn(s, w)
  BY <1>5, SameDelegated
<1> QED  BY <1>2, <1>3, <1>5, <1>6, <1>7, <1>8 DEF ValidatorSaved, t

\* Put of a delegation to a registered validator.
LEMMA PutDelegation ==
  ASSUME NEW s, StoreOK(s), NEW v \in Validator, NEW d \in Delegator, NEW bond \in Delegation,
         Has(s, validatorKey(v))
  PROVE  DelegationSaved(s, Put(s, delegationKey(v, d), bond), v, d, bond)
<1> DEFINE t == Put(s, delegationKey(v, d), bond)
<1>1. /\ DOMAIN t = DOMAIN s \cup {delegationKey(v, d)}
      /\ t[delegationKey(v, d)] = bond
      /\ \A k \in DOMAIN s : k # delegationKey(v, d) => t[k] = s[k]
  BY DEF Put
<1> HIDE DEF t
<1>2. \A w \in Validator : SameInfo(s, t, w)
  BY <1>1, KeysDiffer DEF Has, SameInfo, InfoIn
<1>3. \A w \in Validator, i \in Int : SameSlash(s, t, w, i)
  BY <1>1, KeysDiffer DEF Has, SameSlash
<1>4. \A w \in Validator, e \in Delegator :
        DelegationIn(t, w, e) = IF w = v /\ e = d THEN bond ELSE DelegationIn(s, w, e)
  BY <1>1, KeysDiffer DEF Has, DelegationIn, GetOr
<1>5. StoreOK(t)
  <2>1. DOMAIN t \subseteq {validatorKey(w) : w \in Validator}
                           \cup {delegationKey(w, e) : w \in Validator, e \in Delegator}
                           \cup {slashKey(w, i) : w \in Validator, i \in 0 .. MaxSlashes}
    BY <1>1 DEF StoreOK
  <2>2. ASSUME NEW w \in Validator, Has(t, validatorKey(w))
        PROVE  InfoIn(t, w) \in ValidatorInfo /\ InfoIn(t, w).slashCount <= MaxSlashes
    BY <1>2, <2>2 DEF StoreOK, SameInfo
  <2>3. ASSUME NEW w \in Validator, NEW e \in Delegator, Has(t, delegationKey(w, e))
        PROVE  t[delegationKey(w, e)] \in Delegation /\ Has(t, validatorKey(w))
    <3>1. CASE w = v /\ e = d
      BY <1>1, <1>2, <3>1 DEF SameInfo
    <3>2. CASE ~(w = v /\ e = d)
      <4>1. delegationKey(w, e) # delegationKey(v, d)
        BY <3>2, KeysDiffer
      <4>2. Has(s, delegationKey(w, e)) /\ t[delegationKey(w, e)] = s[delegationKey(w, e)]
        BY <1>1, <2>3, <4>1 DEF Has
      <4> QED  BY <1>2, <4>2 DEF StoreOK, SameInfo
    <3> QED  BY <3>1, <3>2
  <2>4. ASSUME NEW w \in Validator, NEW i \in 0 .. MaxSlashes, Has(t, slashKey(w, i))
        PROVE  t[slashKey(w, i)] \in SlashRecord
    BY <1>3, <2>4, StakingAssumption DEF StoreOK, SameSlash
  <2> QED  BY <2>1, <2>2, <2>3, <2>4 DEF StoreOK
<1>6. ASSUME NEW w \in Validator
      PROVE  DelegatedIn(t, w) =
               DelegatedIn(s, w) + IF w = v THEN bond.amount - DelegationIn(s, v, d).amount ELSE 0
  <2> DEFINE f == AmountsIn(s, w)
             g == AmountsIn(t, w)
  <2>1. \A e \in Delegator : f[e] \in Int /\ g[e] \in Int
    BY <1>5, DelegationTypes DEF AmountsIn, Delegation
  <2>2. CASE w = v
    <3>1. \A e \in Delegator \ {d} : g[e] = f[e]
      BY <1>4 DEF AmountsIn
    <3>2. g[d] = bond.amount /\ f[d] = DelegationIn(s, v, d).amount
      BY <1>4, <2>2 DEF AmountsIn
    <3> HIDE DEF f, g
    <3>3. SumFunctionOnSet(g, Delegator) = SumFunctionOnSet(f, Delegator) + (g[d] - f[d])
      BY <2>1, <3>1, StakingAssumption, SumChange
    <3> QED  BY <2>2, <3>2, <3>3 DEF DelegatedIn, f, g
  <2>3. CASE w # v
    <3>1. DelegatedIn(t, w) = DelegatedIn(s, w)
      BY <1>4, <2>3, SameDelegated
    <3>2. DelegatedIn(s, w) \in Int
      BY DelegatedTypes
    <3> QED  BY <2>3, <3>1, <3>2
  <2> QED  BY <2>2, <2>3
<1> QED  BY <1>2, <1>3, <1>5, <1>6 DEF DelegationSaved, t

\* Put of a slash record.
LEMMA PutSlash ==
  ASSUME NEW s, StoreOK(s), NEW v \in Validator, NEW n \in 0 .. MaxSlashes,
         NEW record \in SlashRecord
  PROVE  SlashSaved(s, Put(s, slashKey(v, n), record), v, n, record)
<1> DEFINE t == Put(s, slashKey(v, n), record)
<1>1. /\ DOMAIN t = DOMAIN s \cup {slashKey(v, n)}
      /\ t[slashKey(v, n)] = record
      /\ \A k \in DOMAIN s : k # slashKey(v, n) => t[k] = s[k]
  BY DEF Put
<1> HIDE DEF t
<1>2. \A w \in Validator : SameInfo(s, t, w)
  BY <1>1, KeysDiffer DEF Has, SameInfo, InfoIn
<1>3. ASSUME NEW w \in Validator, NEW d \in Delegator
      PROVE  /\ Has(t, delegationKey(w, d)) <=> Has(s, delegationKey(w, d))
             /\ Has(s, delegationKey(w, d)) => t[delegationKey(w, d)] = s[delegationKey(w, d)]
  BY <1>1, KeysDiffer DEF Has
<1>4. \A w \in Validator : DelegatedIn(t, w) = DelegatedIn(s, w)
  <2>1. \A w \in Validator, d \in Delegator : DelegationIn(t, w, d) = DelegationIn(s, w, d)
    BY <1>3 DEF DelegationIn, GetOr
  <2> QED  BY <2>1, SameDelegated
<1>5. \A w \in Validator, i \in Int : w # v \/ i # n => SameSlash(s, t, w, i)
  BY <1>1, KeysDiffer DEF Has, SameSlash
<1>6. Has(t, slashKey(v, n)) /\ t[slashKey(v, n)] = record
  BY <1>1 DEF Has
<1>7. StoreOK(t)
  <2>1. DOMAIN t \subseteq {validatorKey(w) : w \in Validator}
                           \cup {delegationKey(w, d) : w \in Validator, d \in Delegator}
                           \cup {slashKey(w, i) : w \in Validator, i \in 0 .. MaxSlashes}
    BY <1>1 DEF StoreOK
  <2>2. ASSUME NEW w \in Validator, Has(t, validatorKey(w))
        PROVE  InfoIn(t, w) \in ValidatorInfo /\ InfoIn(t, w).slashCount <= MaxSlashes
    BY <1>2, <2>2 DEF StoreOK, SameInfo
  <2>3. ASSUME NEW w \in Validator, NEW d \in Delegator, Has(t, delegationKey(w, d))
        PROVE  t[delegationKey(w, d)] \in Delegation /\ Has(t, validatorKey(w))
    BY <1>2, <1>3, <2>3 DEF StoreOK, SameInfo
  <2>4. ASSUME NEW w \in Validator, NEW i \in 0 .. MaxSlashes, Has(t, slashKey(w, i))
        PROVE  t[slashKey(w, i)] \in SlashRecord
    <3>1. CASE w = v /\ i = n
      BY <1>1, <3>1
    <3>2. CASE w # v \/ i # n
      BY <1>5, <2>4, <3>2, StakingAssumption DEF StoreOK, SameSlash
    <3> QED  BY <3>1, <3>2
  <2> QED  BY <2>1, <2>2, <2>3, <2>4 DEF StoreOK
<1> QED  BY <1>2, <1>4, <1>5, <1>6, <1>7 DEF SlashSaved, t

----------------------------------------------------------------------------
(***************************************************************************)
(* The inductive invariant                                                 *)
(***************************************************************************)

Earned(v) == IF Has(store, validatorKey(v)) THEN InfoIn(store, v).accumRewards ELSE 0

\* What the properties need to be inductive: nothing drifted before the registration.
IInv ==
  /\ StoreOK(store)
  /\ faults \in 0 .. MaxFaults
  /\ earned \in [Validator -> Nat] /\ paid \in [Validator -> Nat]
  /\ lost \in [Validator -> Nat] /\ off \in [Validator -> Int]
  /\ \A v \in Validator : Has(store, validatorKey(v)) =>
       /\ InfoIn(store, v).totalStake = InfoIn(store, v).selfStake + DelegatedIn(store, v) + off[v]
       /\ Cardinality(MissingIn(store, v)) <= faults
  /\ \A v \in Validator : ~Has(store, validatorKey(v)) => off[v] = 0
  /\ \A v \in Validator : paid[v] + lost[v] + Earned(v) = earned[v]

SlashesKept ==
  \A v \in Validator : HasValidator(v) =>
    Cardinality({i \in 0 .. Info(v).slashCount - 1 : ~HasSlash(v, i)}) <= faults

LEMMA IInvImplies == IInv => TypeOK /\ StakeAccounted /\ RewardsPaidOnce /\ SlashesKept
<1> SUFFICES ASSUME IInv PROVE TypeOK /\ StakeAccounted /\ RewardsPaidOnce /\ SlashesKept
  OBVIOUS
<1>1. TypeOK
  BY DEF IInv, StoreOK, TypeOK, HasValidator, HasDelegation, Info, InfoIn, getDelegation, GetOr
<1>2. ASSUME NEW v \in Validator PROVE Delegated(v) = DelegatedIn(store, v)
  <2> DEFINE f == [d \in Delegator |-> getDelegation(v, d).amount]
  <2>1. f = AmountsIn(store, v)
    BY DEF getDelegation, AmountsIn, DelegationIn
  <2>2. DOMAIN f = Delegator
    OBVIOUS
  <2> QED  BY Zenon, <2>1, <2>2 DEF Delegated, SumFunction, DelegatedIn
<1>3. StakeAccounted
  BY <1>2 DEF IInv, StakeAccounted, HasValidator, Info, InfoIn
<1>4. RewardsPaidOnce
  BY DEF IInv, RewardsPaidOnce, Earned, HasValidator, Info, InfoIn
<1>5. SlashesKept
  BY DEF IInv, SlashesKept, HasValidator, Info, InfoIn, MissingIn, HasSlash
<1> QED  BY <1>1, <1>3, <1>4, <1>5

LEMMA IInvInit == Init => IInv
<1> SUFFICES ASSUME Init PROVE IInv
  OBVIOUS
<1>1. \A key : ~Has(store, key)
  BY DEF Has, Init
<1>2. StoreOK(store)
  BY <1>1 DEF StoreOK, Has, Init
<1>3. \A v \in Validator : Earned(v) = 0
  BY <1>1 DEF Earned
<1> QED  BY <1>1, <1>2, <1>3, StakingAssumption DEF IInv, Init

\* Records that are missing are finitely many.
LEMMA MissingTypes ==
  ASSUME NEW s, StoreOK(s), NEW v \in Validator, Has(s, validatorKey(v))
  PROVE  IsFiniteSet(MissingIn(s, v)) /\ Cardinality(MissingIn(s, v)) \in Nat
<1>1. InfoIn(s, v).slashCount \in Nat
  BY InfoTypes DEF StoreOK
<1>2. IsFiniteSet(0 .. InfoIn(s, v).slashCount - 1)
  BY <1>1, FS_Interval
<1>3. MissingIn(s, v) \in SUBSET (0 .. InfoIn(s, v).slashCount - 1)
  BY DEF MissingIn
<1> QED  BY <1>2, <1>3, FS_Subset, FS_CardinalityType

\* No validator has more records missing when its count and its earlier records stay.
LEMMA MissingStays ==
  ASSUME NEW s, NEW t, StoreOK(s), NEW v \in Validator, Has(s, validatorKey(v)),
         InfoIn(t, v).slashCount = InfoIn(s, v).slashCount,
         \A i \in 0 .. InfoIn(s, v).slashCount - 1 : SameSlash(s, t, v, i)
  PROVE  MissingIn(t, v) = MissingIn(s, v)
BY DEF MissingIn, SameSlash

----------------------------------------------------------------------------
(***************************************************************************)
(* What a step must do                                                     *)
(***************************************************************************)

\* The body of JailedEarnsNothing, for one validator.
NothingEarnedBy(v) ==
  Has(store, validatorKey(v)) /\ InfoIn(store, v).jailed /\ InfoIn(store', v).jailed =>
    /\ InfoIn(store', v).accumRewards <= InfoIn(store, v).accumRewards
    /\ \/ /\ InfoIn(store', v).totalStake <= InfoIn(store, v).totalStake
          /\ InfoIn(store', v).selfStake <= InfoIn(store, v).selfStake
       \/ /\ InfoIn(store', v).slashCount = InfoIn(store, v).slashCount + 1
          /\ \/ faults' # faults
             \/ /\ Has(store', slashKey(v, InfoIn(store, v).slashCount))
                /\ store'[slashKey(v, InfoIn(store, v).slashCount)].amount =
                     InfoIn(store, v).totalStake - InfoIn(store', v).totalStake

NothingEarned == \A v \in Validator : NothingEarnedBy(v)

\* A slash record stays: as it was, unless it is the first and something failed.
SlashKept(v, i) ==
  Has(store, slashKey(v, i)) =>
    /\ Has(store', slashKey(v, i))
    /\ \/ store'[slashKey(v, i)] = store[slashKey(v, i)]
       \/ i = 0 /\ faults' # faults

\* The second half of the body of SlashHistory.
RecordsStay ==
  \A v \in Validator : Has(store, validatorKey(v)) =>
    \A i \in 0 .. InfoIn(store, v).slashCount - 1 : SlashKept(v, i)

StepOK == IInv' /\ NothingEarned /\ RecordsStay

\* A function of validators moves by delta at v.
Moves(f, g, v, delta) ==
  /\ g \in [Validator -> Int]
  /\ \A w \in Validator : g[w] = f[w] + IF w = v THEN delta ELSE 0

\* A call concerns one validator; its record, the delegations to it and its slash
\* records are what the call leaves, and the histories take note.
LEMMA CallStep ==
  ASSUME IInv, NEW v \in Validator, StoreOK(store'), Has(store', validatorKey(v)),
         \A w \in Validator \ {v} : SameInfo(store, store', w),
         \A w \in Validator \ {v} : DelegatedIn(store', w) = DelegatedIn(store, w),
         \A w \in Validator \ {v}, i \in Int : SameSlash(store, store', w, i),
         faults' \in faults .. MaxFaults,
         earned' \in [Validator -> Nat], paid' \in [Validator -> Nat],
         \A w \in Validator \ {v} : earned'[w] = earned[w] /\ paid'[w] = paid[w],
         lost' \in [Validator -> Nat], \A w \in Validator \ {v} : lost'[w] = lost[w],
         off' \in [Validator -> Int], \A w \in Validator \ {v} : off'[w] = off[w],
         InfoIn(store', v).totalStake =
           InfoIn(store', v).selfStake + DelegatedIn(store', v) + off'[v],
         paid'[v] + lost'[v] + InfoIn(store', v).accumRewards = earned'[v],
         Cardinality(MissingIn(store', v)) <= faults',
         Has(store, validatorKey(v)) =>
           \A i \in 0 .. InfoIn(store, v).slashCount - 1 : SlashKept(v, i)
  PROVE  IInv' /\ RecordsStay
<1> USE DEF IInv
<1>1. faults \in Nat /\ faults' \in 0 .. MaxFaults /\ faults <= faults'
  BY StakingAssumption
<1>2. ASSUME NEW w \in Validator, Has(store', validatorKey(w))
      PROVE  /\ InfoIn(store', w).totalStake =
                  InfoIn(store', w).selfStake + DelegatedIn(store', w) + off'[w]
             /\ Cardinality(MissingIn(store', w)) <= faults'
  <2>1. CASE w = v
    BY <2>1
  <2>2. CASE w # v
    <3>1. Has(store, validatorKey(w)) /\ InfoIn(store', w) = InfoIn(store, w)
      BY <1>2, <2>2 DEF SameInfo
    <3>2. InfoIn(store, w) \in ValidatorInfo
      BY <3>1 DEF StoreOK
    <3>3. InfoIn(store, w).slashCount \in Nat
      BY <3>2, InfoTypes
    <3>4. MissingIn(store', w) = MissingIn(store, w)
      BY <2>2, <3>1, <3>3, MissingStays
    <3>5. Cardinality(MissingIn(store, w)) \in Nat /\ Cardinality(MissingIn(store, w)) <= faults
      BY <3>1, MissingTypes
    <3> QED  BY <1>1, <2>2, <3>1, <3>4, <3>5
  <2> QED  BY <2>1, <2>2
<1>3. ASSUME NEW w \in Validator, ~Has(store', validatorKey(w)) PROVE off'[w] = 0
  BY <1>3 DEF SameInfo
<1>4. ASSUME NEW w \in Validator PROVE paid'[w] + lost'[w] + Earned(w)' = earned'[w]
  BY DEF SameInfo, Earned
<1>5. RecordsStay
  <2> SUFFICES ASSUME NEW w \in Validator, Has(store, validatorKey(w)),
                      NEW i \in 0 .. InfoIn(store, w).slashCount - 1
               PROVE  SlashKept(w, i)
    BY DEF RecordsStay
  <2>1. CASE w = v
    BY <2>1
  <2>2. CASE w # v
    <3>1. InfoIn(store, w) \in ValidatorInfo
      BY DEF StoreOK
    <3>2. InfoIn(store, w).slashCount \in Nat
      BY <3>1, InfoTypes
    <3>3. i \in Int
      BY <3>2
    <3>4. SameSlash(store, store', w, i)
      BY <2>2, <3>3
    <3> QED  BY <3>4 DEF SameSlash, SlashKept
  <2> QED  BY <2>1, <2>2
<1> QED  BY <1>1, <1>2, <1>3, <1>4, <1>5

\* What a call leaves alone earns nothing.
LEMMA OthersEarnNothing ==
  ASSUME IInv, NEW v \in Validator,
         \A w \in Validator \ {v} : SameInfo(store, store', w),
         NothingEarnedBy(v)
  PROVE  NothingEarned
<1> SUFFICES ASSUME NEW w \in Validator, w # v PROVE NothingEarnedBy(w)
  BY DEF NothingEarned
<1> SUFFICES ASSUME Has(store, validatorKey(w)) PROVE NothingEarnedBy(w)
  BY DEF NothingEarnedBy
<1>1. InfoIn(store', w) = InfoIn(store, w)
  BY DEF SameInfo
<1>2. InfoIn(store, w) \in ValidatorInfo
  BY DEF IInv, StoreOK
<1>3. /\ InfoIn(store, w).totalStake \in Int /\ InfoIn(store, w).selfStake \in Int
      /\ InfoIn(store, w).accumRewards \in Int
  BY <1>2, InfoTypes
<1> QED  BY <1>1, <1>3 DEF NothingEarnedBy

\* A call that saves one record of a registered validator and no slash.
LEMMA ValidatorStep ==
  ASSUME IInv, NEW v \in Validator, Has(store, validatorKey(v)), NEW info \in ValidatorInfo,
         info.slashCount = InfoIn(store, v).slashCount,
         SaveValidator(v, info), faults' \in faults .. MaxFaults,
         NEW delta \in Int, NEW e \in Nat, NEW p \in Nat,
         Moves(off, off', v, delta), Moves(earned, earned', v, e), Moves(paid, paid', v, p),
         lost' = lost,
         info.totalStake - info.selfStake =
           InfoIn(store, v).totalStake - InfoIn(store, v).selfStake + delta,
         info.accumRewards = InfoIn(store, v).accumRewards + e - p,
         InfoIn(store, v).jailed /\ info.jailed =>
           /\ info.totalStake <= InfoIn(store, v).totalStake
           /\ info.selfStake <= InfoIn(store, v).selfStake
           /\ info.accumRewards <= InfoIn(store, v).accumRewards
  PROVE  StepOK
<1> DEFINE old == InfoIn(store, v)
<1>1. old \in ValidatorInfo /\ old.slashCount <= MaxSlashes
  BY DEF IInv, StoreOK
<1>2. ValidatorSaved(store, store', v, info)
  BY <1>1, PutValidator DEF SaveValidator, IInv
<1>3. /\ old.totalStake \in Int /\ old.selfStake \in Int /\ old.accumRewards \in Int
      /\ info.totalStake \in Int /\ info.selfStake \in Int /\ info.accumRewards \in Int
  BY <1>1, InfoTypes
<1>4. /\ old.totalStake = old.selfStake + DelegatedIn(store, v) + off[v]
      /\ paid[v] + lost[v] + old.accumRewards = earned[v] /\ lost[v] \in Nat
      /\ off[v] \in Int /\ paid[v] \in Nat /\ earned[v] \in Nat /\ DelegatedIn(store, v) \in Int
      /\ Cardinality(MissingIn(store, v)) <= faults /\ faults \in Nat
  BY StakingAssumption, DelegatedTypes DEF IInv, Earned
<1>5. \A i \in 0 .. old.slashCount - 1 :
        SameSlash(store, store', v, i) /\ SlashKept(v, i)
  <2>1. old.slashCount \in Int
    BY <1>1, InfoTypes
  <2>2. \A i \in Int : SameSlash(store, store', v, i)
    BY <1>2 DEF ValidatorSaved
  <2>3. \A i \in Int : SlashKept(v, i)
    BY <2>2 DEF SameSlash, SlashKept
  <2> QED  BY <2>1, <2>2, <2>3
<1>6. MissingIn(store', v) = MissingIn(store, v)
  BY <1>2, <1>5, MissingStays DEF IInv, ValidatorSaved
<1>7. Cardinality(MissingIn(store', v)) <= faults'
  <2>1. Cardinality(MissingIn(store, v)) \in Nat
    BY MissingTypes DEF IInv
  <2> QED  BY <1>4, <1>6, <2>1
<1>8. /\ earned' \in [Validator -> Nat] /\ paid' \in [Validator -> Nat]
      /\ lost' \in [Validator -> Nat] /\ off' \in [Validator -> Int]
  <2>1. \A w \in Validator : earned[w] \in Nat /\ paid[w] \in Nat
    BY DEF IInv
  <2>2. \A w \in Validator : earned'[w] \in Nat /\ paid'[w] \in Nat
    BY <2>1 DEF Moves
  <2> QED  BY <2>2 DEF IInv, Moves
<1>9. \A w \in Validator \ {v} :
        earned'[w] = earned[w] /\ paid'[w] = paid[w] /\ off'[w] = off[w] /\ lost'[w] = lost[w]
  BY DEF IInv, Moves
<1>10. earned'[v] = earned[v] + e /\ paid'[v] = paid[v] + p /\ off'[v] = off[v] + delta
  BY DEF Moves
<1>11. /\ InfoIn(store', v) = info /\ StoreOK(store') /\ Has(store', validatorKey(v))
       /\ \A w \in Validator \ {v} : SameInfo(store, store', w)
       /\ \A w \in Validator : DelegatedIn(store', w) = DelegatedIn(store, w)
       /\ \A w \in Validator, i \in Int : SameSlash(store, store', w, i)
  BY <1>2 DEF ValidatorSaved
<1>12. info.totalStake = info.selfStake + DelegatedIn(store', v) + off'[v]
       /\ paid'[v] + lost'[v] + info.accumRewards = earned'[v]
  <2> HIDE DEF old
  <2>1. info.totalStake - info.selfStake = old.totalStake - old.selfStake + delta
        /\ info.accumRewards = old.accumRewards + e - p
    BY DEF old
  <2>2. lost'[v] = lost[v]
    OBVIOUS
  <2>3. info.totalStake = info.selfStake + DelegatedIn(store', v) + off'[v]
    <3>1. DelegatedIn(store', v) = DelegatedIn(store, v)
      BY <1>11
    <3>2. /\ old.totalStake = old.selfStake + DelegatedIn(store, v) + off[v]
          /\ off[v] \in Int /\ DelegatedIn(store, v) \in Int
      BY <1>4
    <3>3. info.totalStake = info.selfStake + DelegatedIn(store, v) + (off[v] + delta)
      BY <1>3, <2>1, <3>2
    <3> QED  BY <1>10, <3>1, <3>3
  <2>4. paid'[v] + lost'[v] + info.accumRewards = earned'[v]
    BY <1>3, <1>4, <1>10, <2>1, <2>2
  <2> QED  BY <2>3, <2>4
<1>13. IInv' /\ RecordsStay
  BY <1>5, <1>7, <1>8, <1>9, <1>11, <1>12, CallStep
<1>14. NothingEarnedBy(v)
  BY <1>11 DEF NothingEarnedBy
<1>15. NothingEarned
  BY <1>11, <1>14, OthersEarnNothing
<1> QED  BY <1>13, <1>15 DEF StepOK

----------------------------------------------------------------------------
(***************************************************************************)
(* The calls                                                               *)
(***************************************************************************)

\* A function that does not change moves by 0, one that is counted up by the count.
LEMMA MovesNot ==
  ASSUME NEW f \in [Validator -> Int], NEW v \in Validator
  PROVE  Moves(f, f, v, 0)
BY DEF Moves

LEMMA MovesBy ==
  ASSUME NEW f \in [Validator -> Int], NEW v \in Validator, NEW delta \in Int
  PROVE  Moves(f, [f EXCEPT ![v] = @ + delta], v, delta)
BY DEF Moves

\* One field of a validator's record is set; the others stay.
LEMMA SetSlashCount ==
  ASSUME NEW r \in ValidatorInfo, NEW x \in Nat, NEW q, q = [r EXCEPT !.slashCount = x]
  PROVE  /\ q \in ValidatorInfo /\ q.selfStake = r.selfStake /\ q.totalStake = r.totalStake
         /\ q.jailed = r.jailed /\ q.slashCount = x /\ q.accumRewards = r.accumRewards
BY DEF ValidatorInfo

LEMMA SetSelfStake ==
  ASSUME NEW r \in ValidatorInfo, NEW x \in Nat, NEW q, q = [r EXCEPT !.selfStake = x]
  PROVE  /\ q \in ValidatorInfo /\ q.selfStake = x /\ q.totalStake = r.totalStake
         /\ q.jailed = r.jailed /\ q.slashCount = r.slashCount /\ q.accumRewards = r.accumRewards
BY DEF ValidatorInfo

LEMMA SetTotalStake ==
  ASSUME NEW r \in ValidatorInfo, NEW x \in Int, NEW q, q = [r EXCEPT !.totalStake = x]
  PROVE  /\ q \in ValidatorInfo /\ q.selfStake = r.selfStake /\ q.totalStake = x
         /\ q.jailed = r.jailed /\ q.slashCount = r.slashCount /\ q.accumRewards = r.accumRewards
BY DEF ValidatorInfo

LEMMA SetAccumRewards ==
  ASSUME NEW r \in ValidatorInfo, NEW x \in Nat, NEW q, q = [r EXCEPT !.accumRewards = x]
  PROVE  /\ q \in ValidatorInfo /\ q.selfStake = r.selfStake /\ q.totalStake = r.totalStake
         /\ q.jailed = r.jailed /\ q.slashCount = r.slashCount /\ q.accumRewards = x
BY DEF ValidatorInfo

LEMMA SetJailed ==
  ASSUME NEW r \in ValidatorInfo, NEW x \in BOOLEAN, NEW q, q = [r EXCEPT !.jailed = x]
  PROVE  /\ q \in ValidatorInfo /\ q.selfStake = r.selfStake /\ q.totalStake = r.totalStake
         /\ q.jailed = x /\ q.slashCount = r.slashCount /\ q.accumRewards = r.accumRewards
BY DEF ValidatorInfo

LEMMA SetJailUntil ==
  ASSUME NEW r \in ValidatorInfo, NEW x \in Blocks \cup {0}, NEW q, q = [r EXCEPT !.jailUntil = x]
  PROVE  /\ q \in ValidatorInfo /\ q.selfStake = r.selfStake /\ q.totalStake = r.totalStake
         /\ q.jailed = r.jailed /\ q.slashCount = r.slashCount /\ q.accumRewards = r.accumRewards
BY DEF ValidatorInfo

\* What IInv says of a registered validator.
LEMMA KnownValidator ==
  ASSUME IInv, NEW v \in Validator, HasValidator(v)
  PROVE  /\ Info(v) = InfoIn(store, v) /\ Info(v) \in ValidatorInfo
         /\ Info(v).selfStake \in Nat /\ Info(v).totalStake \in Int
         /\ Info(v).accumRewards \in Nat /\ Info(v).slashCount \in Nat
         /\ Info(v).commission \in Nat /\ Info(v).jailed \in BOOLEAN
         /\ Info(v).slashCount <= MaxSlashes
         /\ Has(store, validatorKey(v))
<1>1. Has(store, validatorKey(v)) /\ Info(v) = InfoIn(store, v)
  BY DEF HasValidator, Info, InfoIn
<1>2. Info(v) \in ValidatorInfo /\ Info(v).slashCount <= MaxSlashes
  BY <1>1 DEF IInv, StoreOK
<1> QED  BY <1>1, <1>2, InfoTypes

LEMMA HistoryTypes ==
  ASSUME IInv
  PROVE  /\ off \in [Validator -> Int] /\ earned \in [Validator -> Int]
         /\ paid \in [Validator -> Int] /\ lost \in [Validator -> Int]
         /\ faults \in faults .. MaxFaults
         /\ faults \in Nat /\ MaxFaults \in Nat
BY StakingAssumption DEF IInv

\* Nobody has delegated to a new validator, nothing of it has drifted, and it has no
\* slashes; when it is registered anew, the drift and what is lost make up for the
\* record that was overwritten.
LEMMA RegisterStep ==
  ASSUME IInv, NEW v \in Validator, NEW stake \in Amounts, NEW c \in Commissions,
         RegisterValidator(v, stake, c)
  PROVE  StepOK
<1> DEFINE info == NewValidator(stake, c)
<1>1. SaveValidator(v, info) /\ UNCHANGED <<earned, paid>>
  BY DEF RegisterValidator
<1>2. info \in ValidatorInfo /\ info.slashCount = 0 /\ stake \in Nat /\ ~info.jailed
      /\ info.totalStake = stake /\ info.selfStake = stake /\ info.accumRewards = 0
  <2>1. stake \in Nat /\ c \in BasisPoints
    <3>1. c \in Nat /\ c <= 10000 /\ stake \in Nat
      BY StakingAssumption DEF RegisterValidator
    <3> QED  BY <3>1 DEF BasisPoints
  <2> QED  BY <2>1 DEF ValidatorInfo, NewValidator
<1> HIDE DEF info
<1>3. ValidatorSaved(store, store', v, info)
  BY <1>1, <1>2, StakingAssumption, PutValidator DEF SaveValidator, IInv
<1>4. /\ InfoIn(store', v) = info /\ StoreOK(store') /\ Has(store', validatorKey(v))
      /\ \A w \in Validator \ {v} : SameInfo(store, store', w)
      /\ \A w \in Validator : DelegatedIn(store', w) = DelegatedIn(store, w)
      /\ \A w \in Validator, i \in Int : SameSlash(store, store', w, i)
  BY <1>3 DEF ValidatorSaved
<1>5. faults' \in faults .. MaxFaults
  BY HistoryTypes DEF RegisterValidator, Fault
<1>6. Cardinality(MissingIn(store', v)) <= faults'
  <2>1. MissingIn(store', v) = {}
    BY <1>2, <1>4 DEF MissingIn
  <2> QED  BY <1>5, <2>1, HistoryTypes, FS_EmptySet
<1>7. /\ off' \in [Validator -> Int] /\ \A w \in Validator \ {v} : off'[w] = off[w]
      /\ lost' \in [Validator -> Nat] /\ \A w \in Validator \ {v} : lost'[w] = lost[w]
      /\ DelegatedIn(store, v) + off'[v] = 0
      /\ lost'[v] = lost[v] + Earned(v)
  <2>1. off \in [Validator -> Int] /\ lost \in [Validator -> Nat]
    BY DEF IInv
  <2>2. CASE ~HasValidator(v) /\ UNCHANGED <<faults, lost, off>>
    <3>1. DelegatedIn(store, v) = 0 /\ off[v] = 0 /\ Earned(v) = 0 /\ lost[v] \in Nat
      BY <2>1, <2>2, NothingDelegated DEF IInv, HasValidator, Earned
    <3> QED  BY <2>1, <2>2, <3>1
  <2>3. CASE /\ HasValidator(v)
             /\ Drift(v, Info(v).selfStake - Info(v).totalStake)
             /\ lost' = [lost EXCEPT ![v] = @ + Info(v).accumRewards]
    <3>1. /\ Info(v).selfStake \in Nat /\ Info(v).totalStake \in Int
          /\ Info(v).accumRewards \in Nat /\ Earned(v) = Info(v).accumRewards
          /\ Info(v).totalStake = Info(v).selfStake + DelegatedIn(store, v) + off[v]
      <4>1. Info(v) = InfoIn(store, v) /\ Has(store, validatorKey(v))
        BY <2>3, KnownValidator
      <4> QED  BY <2>3, <4>1, KnownValidator DEF IInv, Earned
    <3>2. DelegatedIn(store, v) \in Int /\ off[v] \in Int /\ lost[v] \in Nat
      BY <2>1, DelegatedTypes DEF IInv
    <3>3. off' = [off EXCEPT ![v] = @ + (Info(v).selfStake - Info(v).totalStake)]
      BY <2>3 DEF Drift
    <3>4. off'[v] = off[v] + (Info(v).selfStake - Info(v).totalStake)
      BY <2>1, <3>3
    <3> QED  BY <2>1, <2>3, <3>1, <3>2, <3>3, <3>4
  <2> QED  BY <2>2, <2>3 DEF RegisterValidator
<1>8. InfoIn(store', v).totalStake =
        InfoIn(store', v).selfStake + DelegatedIn(store', v) + off'[v]
  <2>1. DelegatedIn(store, v) \in Int /\ off'[v] \in Int
    BY <1>7, DelegatedTypes DEF IInv
  <2> QED  BY <1>2, <1>4, <1>7, <2>1
<1>9. paid'[v] + lost'[v] + InfoIn(store', v).accumRewards = earned'[v]
  <2>1. /\ paid[v] + lost[v] + Earned(v) = earned[v]
        /\ paid[v] \in Nat /\ lost[v] \in Nat /\ lost'[v] \in Nat
    BY <1>7 DEF IInv
  <2>2. Earned(v) \in Nat
    BY InfoTypes DEF IInv, StoreOK, Earned
  <2> QED  BY <1>1, <1>2, <1>4, <1>7, <2>1, <2>2
<1>10. Has(store, validatorKey(v)) =>
         \A i \in 0 .. InfoIn(store, v).slashCount - 1 : SlashKept(v, i)
  <2>1. \A i \in Int : SlashKept(v, i)
    BY <1>4 DEF SameSlash, SlashKept
  <2>2. Has(store, validatorKey(v)) => InfoIn(store, v).slashCount \in Nat
    BY InfoTypes DEF IInv, StoreOK
  <2> QED  BY <2>1, <2>2
<1>11. IInv' /\ RecordsStay
  <2>1. /\ earned' \in [Validator -> Nat] /\ paid' \in [Validator -> Nat]
        /\ \A w \in Validator \ {v} : earned'[w] = earned[w] /\ paid'[w] = paid[w]
    BY <1>1 DEF IInv
  <2> QED  BY <1>4, <1>5, <1>6, <1>7, <1>8, <1>9, <1>10, <2>1, CallStep
<1>12. NothingEarned
  <2>1. NothingEarnedBy(v)
    BY <1>2, <1>4 DEF NothingEarnedBy
  <2> QED  BY <1>4, <2>1, OthersEarnNothing
<1> QED  BY <1>11, <1>12 DEF StepOK

LEMMA AddSelfStakeStep ==
  ASSUME IInv, NEW v \in Validator, NEW amount \in Amounts, AddSelfStake(v, amount)
  PROVE  StepOK
<1> DEFINE half == [Info(v) EXCEPT !.selfStake = @ + amount]
           info == [half EXCEPT !.totalStake = @ + amount]
<1>1. HasValidator(v) /\ ~Info(v).jailed /\ SaveValidator(v, info) /\ amount \in Nat
      /\ UNCHANGED <<faults, earned, paid, lost, off>>
  BY StakingAssumption DEF AddSelfStake
<1>k. Info(v) \in ValidatorInfo /\ Info(v).selfStake \in Nat /\ Info(v).totalStake \in Int
      /\ Info(v).accumRewards \in Nat /\ Info(v) = InfoIn(store, v)
      /\ Has(store, validatorKey(v))
  BY Zenon, <1>1, KnownValidator
<1>2. /\ half \in ValidatorInfo /\ half.selfStake = Info(v).selfStake + amount
      /\ half.totalStake = Info(v).totalStake /\ half.slashCount = Info(v).slashCount
      /\ half.accumRewards = Info(v).accumRewards
  BY <1>1, <1>k, SetSelfStake
<1> HIDE DEF half
<1>3. /\ info \in ValidatorInfo /\ info.selfStake = Info(v).selfStake + amount
      /\ info.totalStake = Info(v).totalStake + amount
      /\ info.slashCount = Info(v).slashCount /\ info.accumRewards = Info(v).accumRewards
  BY <1>1, <1>2, <1>k, SetTotalStake
<1> HIDE DEF info
<1>4. /\ Moves(off, off', v, 0) /\ Moves(earned, earned', v, 0) /\ Moves(paid, paid', v, 0)
      /\ faults' \in faults .. MaxFaults
  BY <1>1, HistoryTypes, MovesNot
<1>5. info.totalStake - info.selfStake = Info(v).totalStake - Info(v).selfStake + 0
      /\ info.accumRewards = Info(v).accumRewards + 0 - 0
  BY <1>1, <1>3, <1>k
<1> QED  BY <1>1, <1>3, <1>4, <1>5, <1>k, ValidatorStep

LEMMA UnjailStep ==
  ASSUME IInv, NEW v \in Validator, NEW b \in Blocks, Unjail(v, b)
  PROVE  StepOK
<1> DEFINE info == [Info(v) EXCEPT !.jailed = FALSE]
<1>1. HasValidator(v) /\ SaveValidator(v, info) /\ UNCHANGED <<faults, earned, paid, lost, off>>
  BY DEF Unjail
<1>k. Info(v) \in ValidatorInfo /\ Info(v).selfStake \in Nat /\ Info(v).totalStake \in Int
      /\ Info(v).accumRewards \in Nat /\ Info(v) = InfoIn(store, v)
      /\ Has(store, validatorKey(v))
  BY Zenon, <1>1, KnownValidator
<1>2. /\ info \in ValidatorInfo /\ info.selfStake = Info(v).selfStake
      /\ info.totalStake = Info(v).totalStake /\ ~info.jailed
      /\ info.slashCount = Info(v).slashCount /\ info.accumRewards = Info(v).accumRewards
  BY <1>k, SetJailed
<1> HIDE DEF info
<1>3. /\ Moves(off, off', v, 0) /\ Moves(earned, earned', v, 0) /\ Moves(paid, paid', v, 0)
      /\ faults' \in faults .. MaxFaults
  BY <1>1, HistoryTypes, MovesNot
<1>4. info.totalStake - info.selfStake = Info(v).totalStake - Info(v).selfStake + 0
      /\ info.accumRewards = Info(v).accumRewards + 0 - 0
  BY <1>2, <1>k
<1> QED  BY <1>1, <1>2, <1>3, <1>4, <1>k, ValidatorStep

\* A commission is a natural number.
LEMMA CommissionTypes ==
  ASSUME NEW info, info.commission \in Nat, NEW reward \in Nat
  PROVE  Commission(info, reward) \in Nat
<1> DEFINE p == reward * info.commission
<1>1. p \in Nat
  OBVIOUS
<1> HIDE DEF p
<1>2. p \div 10000 \in Nat
  BY <1>1
<1> QED  BY <1>2 DEF Commission, p

LEMMA AccrueStep ==
  ASSUME IInv, NEW v \in Validator, NEW reward \in Amounts, AccrueRewards(v, reward)
  PROVE  StepOK
<1> DEFINE commission == Commission(Info(v), reward)
           info == [Info(v) EXCEPT !.accumRewards = @ + commission]
<1>1. /\ HasValidator(v) /\ ~Info(v).jailed /\ SaveValidator(v, info)
      /\ earned' = [earned EXCEPT ![v] = @ + commission] /\ UNCHANGED <<faults, paid, lost, off>>
  BY DEF AccrueRewards
<1>k. Info(v) \in ValidatorInfo /\ Info(v).selfStake \in Nat /\ Info(v).totalStake \in Int
      /\ Info(v).accumRewards \in Nat /\ Info(v) = InfoIn(store, v)
      /\ Has(store, validatorKey(v)) /\ Info(v).commission \in Nat
  BY Zenon, <1>1, KnownValidator
<1>2. commission \in Nat
  <2>1. reward \in Nat
    BY StakingAssumption DEF AccrueRewards
  <2> QED  BY <1>k, <2>1, CommissionTypes
<1> HIDE DEF commission
<1>3. /\ info \in ValidatorInfo /\ info.selfStake = Info(v).selfStake
      /\ info.totalStake = Info(v).totalStake /\ info.slashCount = Info(v).slashCount
      /\ info.accumRewards = Info(v).accumRewards + commission
  BY <1>2, <1>k, SetAccumRewards
<1> HIDE DEF info
<1>4. Moves(off, off', v, 0) /\ Moves(paid, paid', v, 0) /\ faults' \in faults .. MaxFaults
  BY <1>1, HistoryTypes, MovesNot
<1>5. Moves(earned, earned', v, commission)
  <2>1. earned \in [Validator -> Int] /\ commission \in Int
    BY <1>2, HistoryTypes
  <2> QED  BY Zenon, <1>1, <2>1, MovesBy
<1>6. info.totalStake - info.selfStake = Info(v).totalStake - Info(v).selfStake + 0
      /\ info.accumRewards = Info(v).accumRewards + commission - 0
  BY <1>2, <1>3, <1>k
<1>7. /\ info.slashCount = InfoIn(store, v).slashCount
      /\ info.totalStake - info.selfStake =
           InfoIn(store, v).totalStake - InfoIn(store, v).selfStake + 0
      /\ info.accumRewards = InfoIn(store, v).accumRewards + commission - 0
      /\ ~InfoIn(store, v).jailed /\ 0 \in Int /\ 0 \in Nat
  BY <1>1, <1>3, <1>6, <1>k
<1> QED  BY Zenon, <1>1, <1>2, <1>3, <1>4, <1>5, <1>7, <1>k, ValidatorStep

\* The validator claims: what was on its account moves to what it was paid.
LEMMA ClaimOwnStep ==
  ASSUME IInv, NEW v \in Validator, ClaimRewards(v, v)
  PROVE  StepOK
<1> DEFINE info == [Info(v) EXCEPT !.accumRewards = 0]
           claimed == Info(v).accumRewards
<1>1. /\ HasValidator(v) /\ SaveValidator(v, info)
      /\ paid' = [paid EXCEPT ![v] = @ + claimed] /\ UNCHANGED <<faults, earned, lost, off>>
  BY DEF ClaimRewards
<1>k. Info(v) \in ValidatorInfo /\ Info(v).selfStake \in Nat /\ Info(v).totalStake \in Int
      /\ claimed \in Nat /\ Info(v) = InfoIn(store, v) /\ Has(store, validatorKey(v))
  BY Zenon, <1>1, KnownValidator
<1>2. /\ info \in ValidatorInfo /\ info.selfStake = Info(v).selfStake
      /\ info.totalStake = Info(v).totalStake /\ info.slashCount = Info(v).slashCount
      /\ info.accumRewards = 0
  BY <1>k, SetAccumRewards
<1> HIDE DEF info
<1>3. Moves(off, off', v, 0) /\ Moves(earned, earned', v, 0) /\ faults' \in faults .. MaxFaults
  BY <1>1, HistoryTypes, MovesNot
<1>4. Moves(paid, paid', v, claimed)
  <2>1. paid \in [Validator -> Int] /\ claimed \in Int
    BY <1>k, HistoryTypes
  <2> QED  BY Zenon, <1>1, <2>1, MovesBy
<1>5. /\ info.slashCount = InfoIn(store, v).slashCount
      /\ info.totalStake - info.selfStake =
           InfoIn(store, v).totalStake - InfoIn(store, v).selfStake + 0
      /\ info.accumRewards = InfoIn(store, v).accumRewards + 0 - claimed
      /\ info.totalStake <= InfoIn(store, v).totalStake
      /\ info.selfStake <= InfoIn(store, v).selfStake
      /\ info.accumRewards <= InfoIn(store, v).accumRewards
      /\ 0 \in Int /\ 0 \in Nat
  BY <1>2, <1>k
<1> QED  BY Zenon, <1>1, <1>2, <1>3, <1>4, <1>5, <1>k, ValidatorStep

\* A call that leaves every validator's record and every slash record alone.
LEMMA SameValidators ==
  ASSUME IInv, StoreOK(store'), \A w \in Validator : SameInfo(store, store', w),
         \A w \in Validator : DelegatedIn(store', w) = DelegatedIn(store, w),
         \A w \in Validator, i \in Int : SameSlash(store, store', w, i),
         UNCHANGED <<faults, earned, paid, lost, off>>,
         NEW v \in Validator, Has(store, validatorKey(v))
  PROVE  StepOK
<1>1. Has(store', validatorKey(v)) /\ InfoIn(store', v) = InfoIn(store, v)
  BY DEF SameInfo
<1>2. InfoIn(store, v) \in ValidatorInfo
  BY DEF IInv, StoreOK
<1>3. /\ InfoIn(store, v).totalStake \in Int /\ InfoIn(store, v).selfStake \in Nat
      /\ InfoIn(store, v).accumRewards \in Nat /\ InfoIn(store, v).slashCount \in Nat
  BY <1>2, InfoTypes
<1>4. \A i \in 0 .. InfoIn(store, v).slashCount - 1 :
        SameSlash(store, store', v, i) /\ SlashKept(v, i)
  BY <1>3 DEF SameSlash, SlashKept
<1>5. MissingIn(store', v) = MissingIn(store, v)
  BY <1>1, <1>4, MissingStays DEF IInv
<1>6. /\ InfoIn(store', v).totalStake =
           InfoIn(store', v).selfStake + DelegatedIn(store', v) + off'[v]
      /\ paid'[v] + lost'[v] + InfoIn(store', v).accumRewards = earned'[v]
      /\ Cardinality(MissingIn(store', v)) <= faults'
  BY <1>1, <1>5 DEF IInv, Earned
<1>7. /\ earned' \in [Validator -> Nat] /\ paid' \in [Validator -> Nat]
      /\ lost' \in [Validator -> Nat] /\ off' \in [Validator -> Int]
      /\ faults' \in faults .. MaxFaults
  BY HistoryTypes DEF IInv
<1>8. IInv' /\ RecordsStay
  BY <1>1, <1>4, <1>6, <1>7, CallStep
<1>9. NothingEarned
  <2>1. NothingEarnedBy(v)
    BY <1>1, <1>3 DEF NothingEarnedBy
  <2> QED  BY <2>1, OthersEarnNothing
<1> QED  BY <1>8, <1>9 DEF StepOK

\* A delegator claims: its own record changes, and no amount.
LEMMA ClaimDelegatedStep ==
  ASSUME IInv, NEW v \in Validator, NEW d \in Delegator, d # v, ClaimRewards(v, d)
  PROVE  StepOK
<1> DEFINE old == getDelegation(v, d)
           half == [old EXCEPT !.rewardDebt = @ + old.pendingReward]
           bond == [half EXCEPT !.pendingReward = 0]
<1>1. /\ HasValidator(v) /\ store' = Put(store, delegationKey(v, d), bond)
      /\ UNCHANGED <<faults, earned, paid, lost, off>>
  BY DEF ClaimRewards
<1>2. old = DelegationIn(store, v, d) /\ old \in Delegation
  BY DelegationTypes DEF getDelegation, DelegationIn, IInv
<1> HIDE DEF old
<1>3. half \in Delegation /\ half.amount = old.amount
  BY <1>2 DEF Delegation
<1> HIDE DEF half
<1>4. bond \in Delegation /\ bond.amount = old.amount /\ old.amount \in Nat
  BY <1>2, <1>3 DEF Delegation
<1> HIDE DEF bond
<1>5. DelegationSaved(store, store', v, d, bond)
  BY <1>1, <1>4, PutDelegation DEF IInv, HasValidator
<1>6. ASSUME NEW w \in Validator PROVE DelegatedIn(store', w) = DelegatedIn(store, w)
  <2>1. DelegatedIn(store, w) \in Int
    BY DelegatedTypes DEF IInv
  <2>2. bond.amount - DelegationIn(store, v, d).amount = 0
    BY <1>2, <1>4
  <2> QED  BY <1>5, <2>1, <2>2 DEF DelegationSaved
<1>7. /\ StoreOK(store') /\ \A w \in Validator : SameInfo(store, store', w)
      /\ \A w \in Validator, i \in Int : SameSlash(store, store', w, i)
  BY <1>5 DEF DelegationSaved
<1> QED  BY <1>1, <1>6, <1>7, SameValidators DEF HasValidator

\* The total and the delegation are saved together; what they do not move alike the
\* drift records.
LEMMA BothStep ==
  ASSUME IInv, NEW v \in Validator, NEW d \in Delegator, Has(store, validatorKey(v)),
         NEW info \in ValidatorInfo, NEW bond \in Delegation,
         NEW amount \in Int, NEW delta \in Int,
         store' = PutBoth(store, validatorKey(v), info, delegationKey(v, d), bond),
         info.selfStake = InfoIn(store, v).selfStake,
         info.totalStake = InfoIn(store, v).totalStake + amount,
         info.slashCount = InfoIn(store, v).slashCount,
         info.accumRewards = InfoIn(store, v).accumRewards,
         ~InfoIn(store, v).jailed \/ amount <= 0,
         bond.amount = DelegationIn(store, v, d).amount + amount - delta,
         Moves(off, off', v, delta), faults' \in faults .. MaxFaults,
         UNCHANGED <<earned, paid, lost>>
  PROVE  StepOK
<1> DEFINE m == Put(store, validatorKey(v), info)
<1>0. /\ InfoIn(store, v) \in ValidatorInfo /\ InfoIn(store, v).slashCount <= MaxSlashes
      /\ \A w \in Validator : DelegatedIn(store, w) \in Int
      /\ DelegationIn(store, v, d).amount \in Int
  <2>1. StoreOK(store)
    BY DEF IInv
  <2>2. InfoIn(store, v) \in ValidatorInfo /\ InfoIn(store, v).slashCount <= MaxSlashes
    BY <2>1 DEF StoreOK
  <2>3. DelegationIn(store, v, d) \in Delegation
    BY <2>1, DelegationTypes
  <2>4. DelegationIn(store, v, d).amount \in Int
    BY <2>3 DEF Delegation
  <2>5. \A w \in Validator : DelegatedIn(store, w) \in Int
    BY <2>1, DelegatedTypes
  <2> QED  BY <2>2, <2>4, <2>5
<1>k. /\ InfoIn(store, v).selfStake \in Nat /\ InfoIn(store, v).totalStake \in Int
      /\ InfoIn(store, v).accumRewards \in Nat /\ InfoIn(store, v).slashCount \in Nat
  BY <1>0, InfoTypes
<1>1. store' = Put(m, delegationKey(v, d), bond)
  BY DEF PutBoth
<1>2. ValidatorSaved(store, m, v, info)
  BY <1>0, PutValidator DEF IInv
<1> HIDE DEF m
<1>3. /\ InfoIn(m, v) = info /\ StoreOK(m) /\ Has(m, validatorKey(v))
      /\ \A w \in Validator \ {v} : SameInfo(store, m, w)
      /\ \A w \in Validator : DelegatedIn(m, w) = DelegatedIn(store, w)
      /\ \A w \in Validator, i \in Int : SameSlash(store, m, w, i)
      /\ DelegationIn(m, v, d) = DelegationIn(store, v, d)
  BY <1>2 DEF ValidatorSaved
<1>4. DelegationSaved(m, store', v, d, bond)
  BY <1>1, <1>3, PutDelegation
<1>5. /\ StoreOK(store') /\ Has(store', validatorKey(v)) /\ InfoIn(store', v) = info
      /\ \A w \in Validator \ {v} : SameInfo(store, store', w)
      /\ \A w \in Validator, i \in Int : SameSlash(store, store', w, i)
  BY <1>3, <1>4 DEF DelegationSaved, SameInfo, SameSlash
<1>6. /\ \A w \in Validator \ {v} : DelegatedIn(store', w) = DelegatedIn(store, w)
      /\ DelegatedIn(store', v) = DelegatedIn(store, v) + amount - delta
  <2>1. /\ \A w \in Validator \ {v} : DelegatedIn(store', w) = DelegatedIn(m, w) + 0
        /\ DelegatedIn(store', v) =
             DelegatedIn(m, v) + (bond.amount - DelegationIn(store, v, d).amount)
    BY <1>3, <1>4 DEF DelegationSaved
  <2>2. bond.amount - DelegationIn(store, v, d).amount = amount - delta
    BY <1>0
  <2> QED  BY <1>0, <1>3, <2>1, <2>2
<1>7. \A i \in 0 .. InfoIn(store, v).slashCount - 1 :
        SameSlash(store, store', v, i) /\ SlashKept(v, i)
  BY <1>5, <1>k DEF SameSlash, SlashKept
<1>8. MissingIn(store', v) = MissingIn(store, v)
  BY <1>5, <1>7, MissingStays DEF IInv
<1>9. /\ InfoIn(store, v).totalStake =
           InfoIn(store, v).selfStake + DelegatedIn(store, v) + off[v]
      /\ paid[v] + lost[v] + InfoIn(store, v).accumRewards = earned[v]
      /\ Cardinality(MissingIn(store, v)) <= faults /\ off[v] \in Int
      /\ Cardinality(MissingIn(store, v)) \in Nat
  <2>1. /\ InfoIn(store, v).totalStake =
             InfoIn(store, v).selfStake + DelegatedIn(store, v) + off[v]
        /\ Cardinality(MissingIn(store, v)) <= faults /\ off[v] \in Int
    BY DEF IInv
  <2>2. paid[v] + lost[v] + InfoIn(store, v).accumRewards = earned[v]
    BY DEF IInv, Earned
  <2>3. StoreOK(store)
    BY DEF IInv
  <2>4. Cardinality(MissingIn(store, v)) \in Nat
    BY <2>3, MissingTypes
  <2> QED  BY <2>1, <2>2, <2>4
<1>10. off' \in [Validator -> Int] /\ off'[v] = off[v] + delta
       /\ \A w \in Validator \ {v} : off'[w] = off[w]
  BY DEF IInv, Moves
<1>11. InfoIn(store', v).totalStake =
         InfoIn(store', v).selfStake + DelegatedIn(store', v) + off'[v]
  BY <1>0, <1>5, <1>6, <1>9, <1>10, <1>k
<1>12. /\ paid'[v] + lost'[v] + InfoIn(store', v).accumRewards = earned'[v]
       /\ Cardinality(MissingIn(store', v)) <= faults'
  BY <1>5, <1>8, <1>9, HistoryTypes
<1>13. /\ earned' \in [Validator -> Nat] /\ paid' \in [Validator -> Nat]
       /\ lost' \in [Validator -> Nat]
  BY DEF IInv
<1>14. IInv' /\ RecordsStay
  BY <1>5, <1>6, <1>7, <1>10, <1>11, <1>12, <1>13, CallStep
<1>15. NothingEarned
  <2>1. NothingEarnedBy(v)
    BY <1>5, <1>k DEF NothingEarnedBy
  <2> QED  BY <1>5, <2>1, OthersEarnNothing
<1> QED  BY <1>14, <1>15 DEF StepOK

\* The total of a validator's record moves by amount.
LEMMA AddTotalStake ==
  ASSUME IInv, NEW v \in Validator, HasValidator(v), NEW amount \in Int, NEW info,
         info = [Info(v) EXCEPT !.totalStake = @ + amount]
  PROVE  /\ Has(store, validatorKey(v)) /\ Info(v) = InfoIn(store, v)
         /\ info \in ValidatorInfo /\ info.selfStake = Info(v).selfStake
         /\ info.totalStake = Info(v).totalStake + amount
         /\ info.slashCount = Info(v).slashCount
         /\ info.accumRewards = Info(v).accumRewards /\ info.jailed = Info(v).jailed
         /\ Info(v).selfStake \in Nat /\ Info(v).totalStake \in Int
         /\ Info(v).accumRewards \in Nat
<1>1. /\ Info(v) \in ValidatorInfo /\ Info(v).selfStake \in Nat /\ Info(v).totalStake \in Int
      /\ Info(v).accumRewards \in Nat /\ Info(v) = InfoIn(store, v)
      /\ Has(store, validatorKey(v))
  BY Zenon, KnownValidator
<1>2. Info(v).totalStake + amount \in Int
  BY <1>1
<1>3. info = [Info(v) EXCEPT !.totalStake = Info(v).totalStake + amount]
  OBVIOUS
<1> QED  BY <1>1, <1>2, <1>3, SetTotalStake

\* Delegate and Undelegate: the total and the delegation move together, unless the
\* second Put is lost, which the drift records.
LEMMA BondStep ==
  ASSUME IInv, NEW v \in Validator, NEW d \in Delegator, NEW amount \in Int,
         HasValidator(v), getDelegation(v, d).amount + amount \in Nat,
         ~Info(v).jailed \/ amount <= 0, Bond(v, d, amount)
  PROVE  StepOK
<1> DEFINE info == [Info(v) EXCEPT !.totalStake = @ + amount]
           old == getDelegation(v, d)
           bond == [old EXCEPT !.amount = @ + amount]
<1>1. /\ UNCHANGED <<earned, paid, lost>>
      /\ \/ /\ store' = PutBoth(store, validatorKey(v), info, delegationKey(v, d), bond)
            /\ UNCHANGED <<faults, off>>
         \/ SaveValidator(v, info) /\ Fault /\ Drift(v, amount)
  BY DEF Bond
<1>2. /\ Has(store, validatorKey(v)) /\ Info(v) = InfoIn(store, v)
      /\ info \in ValidatorInfo /\ info.selfStake = Info(v).selfStake
      /\ info.totalStake = Info(v).totalStake + amount
      /\ info.slashCount = Info(v).slashCount
      /\ info.accumRewards = Info(v).accumRewards /\ info.jailed = Info(v).jailed
      /\ Info(v).selfStake \in Nat /\ Info(v).totalStake \in Int
      /\ Info(v).accumRewards \in Nat
  BY AddTotalStake
<1> HIDE DEF info
<1>3. old = DelegationIn(store, v, d) /\ old \in Delegation
  BY DelegationTypes DEF getDelegation, DelegationIn, IInv
<1>4. bond \in Delegation /\ bond.amount = old.amount + amount /\ old.amount \in Nat
  <2>1. old.amount + amount \in Nat
    OBVIOUS
  <2> HIDE DEF old
  <2> QED  BY <1>3, <2>1 DEF Delegation
<1> HIDE DEF old, bond
<1>5. ASSUME store' = PutBoth(store, validatorKey(v), info, delegationKey(v, d), bond),
             UNCHANGED <<faults, off>>
      PROVE  StepOK
  <2>1. Moves(off, off', v, 0) /\ faults' \in faults .. MaxFaults
    BY <1>5, HistoryTypes, MovesNot
  <2>2. /\ bond.amount = DelegationIn(store, v, d).amount + amount - 0
        /\ 0 \in Int /\ (~InfoIn(store, v).jailed \/ amount <= 0)
    BY <1>2, <1>3, <1>4
  <2>3. /\ info.selfStake = InfoIn(store, v).selfStake
        /\ info.totalStake = InfoIn(store, v).totalStake + amount
        /\ info.slashCount = InfoIn(store, v).slashCount
        /\ info.accumRewards = InfoIn(store, v).accumRewards
    BY Zenon, <1>2
  <2> QED  BY Zenon, <1>1, <1>2, <1>4, <1>5, <2>1, <2>2, <2>3, BothStep
<1>6. ASSUME SaveValidator(v, info), Fault, Drift(v, amount)
      PROVE  StepOK
  <2>1. faults' \in faults .. MaxFaults
    BY <1>6, HistoryTypes DEF Fault
  <2>2. Moves(off, off', v, amount)
    BY Zenon, <1>6, HistoryTypes, MovesBy DEF Drift
  <2>3. Moves(earned, earned', v, 0) /\ Moves(paid, paid', v, 0) /\ lost' = lost
    BY <1>1, HistoryTypes, MovesNot
  <2>4. /\ info.totalStake - info.selfStake =
             InfoIn(store, v).totalStake - InfoIn(store, v).selfStake + amount
        /\ info.accumRewards = InfoIn(store, v).accumRewards + 0 - 0
        /\ info.slashCount = InfoIn(store, v).slashCount
        /\ 0 \in Nat
    BY <1>2
  <2>5. InfoIn(store, v).jailed /\ info.jailed =>
          /\ info.totalStake <= InfoIn(store, v).totalStake
          /\ info.selfStake <= InfoIn(store, v).selfStake
          /\ info.accumRewards <= InfoIn(store, v).accumRewards
    BY <1>2
  <2> QED  BY Zenon, <1>2, <1>6, <2>1, <2>2, <2>3, <2>4, <2>5, ValidatorStep
<1> QED  BY Zenon, <1>1, <1>5, <1>6

\* Delegate when the old delegation is not read: what it was the drift records.
LEMMA BondAnewStep ==
  ASSUME IInv, NEW v \in Validator, NEW d \in Delegator, NEW amount \in Nat,
         HasValidator(v), ~Info(v).jailed, BondAnew(v, d, amount)
  PROVE  StepOK
<1> DEFINE info == [Info(v) EXCEPT !.totalStake = @ + amount]
           old == getDelegation(v, d)
           bond == [NewDelegation EXCEPT !.amount = amount]
<1>1. /\ store' = PutBoth(store, validatorKey(v), info, delegationKey(v, d), bond)
      /\ Fault /\ Drift(v, old.amount) /\ UNCHANGED <<earned, paid, lost>>
  BY DEF BondAnew
<1>2. /\ Has(store, validatorKey(v)) /\ Info(v) = InfoIn(store, v)
      /\ info \in ValidatorInfo /\ info.selfStake = Info(v).selfStake
      /\ info.totalStake = Info(v).totalStake + amount
      /\ info.slashCount = Info(v).slashCount
      /\ info.accumRewards = Info(v).accumRewards
  BY AddTotalStake
<1> HIDE DEF info
<1>3. old = DelegationIn(store, v, d) /\ old \in Delegation
  BY DelegationTypes DEF getDelegation, DelegationIn, IInv
<1>4. bond \in Delegation /\ bond.amount = amount
  BY DEF NewDelegation, Delegation
<1> HIDE DEF old, bond
<1>5. old.amount \in Int /\ bond.amount = DelegationIn(store, v, d).amount + amount - old.amount
  <2>1. old.amount \in Int
    BY <1>3 DEF Delegation
  <2> QED  BY <1>3, <1>4, <2>1
<1>6. Moves(off, off', v, old.amount) /\ faults' \in faults .. MaxFaults
  <2>1. Moves(off, off', v, old.amount)
    BY Zenon, <1>1, <1>5, HistoryTypes, MovesBy DEF Drift
  <2>2. faults' \in faults .. MaxFaults
    BY <1>1, HistoryTypes DEF Fault
  <2> QED  BY <2>1, <2>2
<1>7. /\ info.selfStake = InfoIn(store, v).selfStake
      /\ info.totalStake = InfoIn(store, v).totalStake + amount
      /\ info.slashCount = InfoIn(store, v).slashCount
      /\ info.accumRewards = InfoIn(store, v).accumRewards
      /\ ~InfoIn(store, v).jailed /\ amount \in Int
  BY <1>2
<1> QED  BY Zenon, <1>1, <1>2, <1>4, <1>5, <1>6, <1>7, BothStep

LEMMA DelegateStep ==
  ASSUME IInv, NEW v \in Validator, NEW d \in Delegator, NEW amount \in Amounts,
         Delegate(v, d, amount)
  PROVE  StepOK
<1>1. /\ HasValidator(v) /\ ~Info(v).jailed /\ amount \in Nat
      /\ Bond(v, d, amount) \/ BondAnew(v, d, amount)
  BY StakingAssumption DEF Delegate
<1>2. getDelegation(v, d) \in Delegation
  BY DelegationTypes DEF getDelegation, DelegationIn, IInv
<1>3. getDelegation(v, d).amount + amount \in Nat /\ amount \in Int
  BY <1>1, <1>2 DEF Delegation
<1>4. CASE Bond(v, d, amount)
  BY <1>1, <1>3, <1>4, BondStep
<1>5. CASE BondAnew(v, d, amount)
  BY <1>1, <1>5, BondAnewStep
<1> QED  BY <1>1, <1>4, <1>5

LEMMA UndelegateStep ==
  ASSUME IInv, NEW v \in Validator, NEW d \in Delegator, NEW amount \in Amounts,
         Undelegate(v, d, amount)
  PROVE  StepOK
<1> DEFINE minus == -amount
<1>1. /\ HasValidator(v) /\ Bond(v, d, minus) /\ amount \in Nat
      /\ getDelegation(v, d).amount >= amount
  BY StakingAssumption DEF Undelegate
<1>2. getDelegation(v, d) \in Delegation
  BY DelegationTypes DEF getDelegation, DelegationIn, IInv
<1>3. getDelegation(v, d).amount + minus \in Nat /\ minus \in Int /\ minus <= 0
  BY <1>1, <1>2 DEF Delegation
<1> HIDE DEF minus
<1> QED  BY Zenon, <1>1, <1>3, BondStep

\* When the count of slashes goes up by one, at most one more record is missing: the
\* last.
LEMMA MissingOneMore ==
  ASSUME NEW s, NEW t, StoreOK(s), NEW v \in Validator, Has(s, validatorKey(v)),
         InfoIn(t, v).slashCount = InfoIn(s, v).slashCount + 1,
         \A i \in 0 .. InfoIn(s, v).slashCount - 1 :
           Has(s, slashKey(v, i)) => Has(t, slashKey(v, i))
  PROVE  /\ Has(t, slashKey(v, InfoIn(s, v).slashCount)) =>
              Cardinality(MissingIn(t, v)) <= Cardinality(MissingIn(s, v))
         /\ Cardinality(MissingIn(t, v)) <= Cardinality(MissingIn(s, v)) + 1
<1> DEFINE n == InfoIn(s, v).slashCount
           more == MissingIn(s, v) \cup {n}
<1>1. n \in Nat
  BY InfoTypes DEF StoreOK
<1>2. MissingIn(s, v) = {i \in 0 .. n - 1 : ~Has(s, slashKey(v, i))}
      /\ MissingIn(t, v) = {i \in 0 .. n : ~Has(t, slashKey(v, i))}
  BY <1>1 DEF MissingIn
<1>3. \A i \in 0 .. n - 1 : Has(s, slashKey(v, i)) => Has(t, slashKey(v, i))
  OBVIOUS
<1> HIDE DEF n
<1>4. MissingIn(t, v) \subseteq more
      /\ (Has(t, slashKey(v, n)) => MissingIn(t, v) \subseteq MissingIn(s, v))
  BY <1>1, <1>2, <1>3
<1>5. n \notin MissingIn(s, v)
  BY <1>1, <1>2
<1>6. IsFiniteSet(MissingIn(s, v)) /\ Cardinality(MissingIn(s, v)) \in Nat
  BY MissingTypes
<1>7. IsFiniteSet(more) /\ Cardinality(more) = Cardinality(MissingIn(s, v)) + 1
  BY <1>5, <1>6, FS_AddElement
<1>8. Cardinality(MissingIn(t, v)) <= Cardinality(more)
  BY <1>4, <1>7, FS_Subset
<1>9. Has(t, slashKey(v, n)) => Cardinality(MissingIn(t, v)) <= Cardinality(MissingIn(s, v))
  BY <1>4, <1>6, FS_Subset
<1> QED  BY <1>7, <1>8, <1>9 DEF n

\* Slash, whole or half saved.  Its record goes where no record is counted yet, so that
\* the records of earlier slashes stay; or, when the count is not read, over the first.
LEMMA SlashStep ==
  ASSUME IInv, NEW v \in Validator, NEW amount \in Amounts, NEW until \in Blocks,
         Slash(v, amount, until),
         HasValidator(v)' => Info(v)'.slashCount <= MaxSlashes
  PROVE  StepOK
<1> DEFINE old == Info(v)
           slash == IF amount > old.totalStake THEN old.totalStake ELSE amount
           self == IF old.selfStake >= slash THEN old.selfStake - slash ELSE 0
           info == [old EXCEPT !.totalStake = @ - slash, !.selfStake = self, !.jailed = TRUE,
                               !.jailUntil = until, !.slashCount = @ + 1]
           record == [amount |-> slash]
           drift == old.selfStake - self - slash
           n == old.slashCount
<1>1. /\ HasValidator(v) /\ UNCHANGED <<earned, paid, lost>>
      /\ \/ /\ store' = PutBoth(store, slashKey(v, n), record, validatorKey(v), info)
            /\ Drift(v, drift)
            /\ UNCHANGED faults
         \/ /\ store' = PutBoth(store, slashKey(v, 0), record, validatorKey(v), info)
            /\ Drift(v, drift)
            /\ Fault
         \/ SaveValidator(v, info) /\ Fault /\ Drift(v, drift)
         \/ /\ store' = Put(store, slashKey(v, n), record)
            /\ Fault
            /\ UNCHANGED off
  BY DEF Slash, slashIndex
<1>2. /\ old \in ValidatorInfo /\ old.selfStake \in Nat /\ old.totalStake \in Int
      /\ old.accumRewards \in Nat /\ n \in Nat /\ n <= MaxSlashes
      /\ old = InfoIn(store, v) /\ Has(store, validatorKey(v))
  BY Zenon, <1>1, KnownValidator
<1> HIDE DEF old
<1>3. slash \in Int /\ self \in Nat /\ drift \in Int
  BY <1>2, StakingAssumption
<1> HIDE DEF self
<1>4. record \in SlashRecord /\ record.amount = slash
  BY <1>3 DEF SlashRecord
<1> HIDE DEF slash, record
<1>5. /\ info \in ValidatorInfo /\ info.selfStake = self /\ info.jailed
      /\ info.totalStake = old.totalStake - slash /\ info.slashCount = n + 1
      /\ info.accumRewards = old.accumRewards
  <2> DEFINE a == [old EXCEPT !.totalStake = @ - slash]
             b == [a EXCEPT !.selfStake = self]
             c == [b EXCEPT !.jailed = TRUE]
             e == [c EXCEPT !.jailUntil = until]
             f == [e EXCEPT !.slashCount = @ + 1]
  <2>1. info = f
    OBVIOUS
  <2>2. old.totalStake - slash \in Int
    BY <1>2, <1>3
  <2>3. /\ a \in ValidatorInfo /\ a.totalStake = old.totalStake - slash
        /\ a.slashCount = n /\ a.accumRewards = old.accumRewards
    BY <1>2, <2>2, SetTotalStake
  <2> HIDE DEF a
  <2>4. /\ b \in ValidatorInfo /\ b.totalStake = old.totalStake - slash /\ b.selfStake = self
        /\ b.slashCount = n /\ b.accumRewards = old.accumRewards
    BY <1>3, <2>3, SetSelfStake
  <2> HIDE DEF b
  <2>5. /\ c \in ValidatorInfo /\ c.totalStake = old.totalStake - slash /\ c.selfStake = self
        /\ c.slashCount = n /\ c.accumRewards = old.accumRewards /\ c.jailed
    <3>1. /\ c \in ValidatorInfo /\ c.totalStake = b.totalStake /\ c.selfStake = b.selfStake
          /\ c.slashCount = b.slashCount /\ c.accumRewards = b.accumRewards
          /\ c.jailed = TRUE
      BY <2>4, SetJailed
    <3> QED  BY <2>4, <3>1
  <2> HIDE DEF c
  <2>6. /\ e \in ValidatorInfo /\ e.totalStake = old.totalStake - slash /\ e.selfStake = self
        /\ e.slashCount = n /\ e.accumRewards = old.accumRewards /\ e.jailed
    BY <1>3, <2>5, SetJailUntil
  <2> HIDE DEF e
  <2>7. /\ f \in ValidatorInfo /\ f.totalStake = old.totalStake - slash /\ f.selfStake = self
        /\ f.slashCount = n + 1 /\ f.accumRewards = old.accumRewards /\ f.jailed
    <3>1. e.slashCount + 1 = n + 1 /\ n + 1 \in Nat
      BY <1>2, <2>6
    <3>2. f = [e EXCEPT !.slashCount = n + 1]
      BY <3>1
    <3> QED  BY <2>6, <3>1, <3>2, SetSlashCount
  <2> HIDE DEF f, info
  <2> QED  BY Zenon, <2>1, <2>7
<1> HIDE DEF info, drift, n
<1>6. /\ old.totalStake = old.selfStake + DelegatedIn(store, v) + off[v]
      /\ paid[v] + lost[v] + old.accumRewards = earned[v] /\ off[v] \in Int
      /\ Cardinality(MissingIn(store, v)) <= faults /\ faults \in Nat
      /\ DelegatedIn(store, v) \in Int
  BY <1>2, HistoryTypes, DelegatedTypes DEF IInv, Earned
<1>7. IsFiniteSet(MissingIn(store, v)) /\ Cardinality(MissingIn(store, v)) \in Nat
  BY <1>2, MissingTypes DEF IInv
<1>8. ASSUME NEW s, ValidatorSaved(s, store', v, info), StoreOK(s), NEW k \in Nat,
             \A w \in Validator : SameInfo(store, s, w),
             \A w \in Validator : DelegatedIn(s, w) = DelegatedIn(store, w),
             \A w \in Validator, i \in Int : w # v \/ i # k => SameSlash(store, s, w, i),
             Has(store, slashKey(v, k)) => Has(s, slashKey(v, k)),
             \/ /\ k = n /\ Has(s, slashKey(v, n)) /\ s[slashKey(v, n)] = record
                /\ faults' = faults
             \/ k \in {0, n} /\ Fault,
             Drift(v, drift)
      PROVE  StepOK
  <2>1. /\ StoreOK(store') /\ Has(store', validatorKey(v)) /\ InfoIn(store', v) = info
        /\ \A w \in Validator \ {v} : SameInfo(store, store', w)
        /\ \A w \in Validator : DelegatedIn(store', w) = DelegatedIn(store, w)
    BY <1>8 DEF ValidatorSaved, SameInfo
  <2>2. \A w \in Validator, i \in Int : w # v \/ i # k => SameSlash(store, store', w, i)
    BY <1>8 DEF ValidatorSaved, SameSlash
  <2>3. \A i \in Int : SameSlash(s, store', v, i)
    BY <1>8 DEF ValidatorSaved
  <2>4. faults' \in faults .. MaxFaults /\ (faults' = faults \/ faults' = faults + 1)
    BY <1>8, HistoryTypes DEF Fault
  <2>5. \A i \in 0 .. n - 1 :
          SlashKept(v, i) /\ (Has(store, slashKey(v, i)) => Has(store', slashKey(v, i)))
    <3>1. \A i \in 0 .. n - 1 : i \in Int /\ i # n
      BY <1>2 DEF n
    <3> SUFFICES ASSUME NEW i \in 0 .. n - 1
                 PROVE  /\ SlashKept(v, i)
                        /\ Has(store, slashKey(v, i)) => Has(store', slashKey(v, i))
      OBVIOUS
    <3>2. CASE i # k
      BY <2>2, <3>1, <3>2 DEF SameSlash, SlashKept
    <3>3. CASE i = k
      <4>1. k = 0 /\ Fault
        BY <1>8, <3>1, <3>3
      <4>2. faults' # faults
        BY <1>6, <4>1 DEF Fault
      <4>3. Has(store, slashKey(v, k)) => Has(store', slashKey(v, k))
        BY <1>8, <2>3 DEF SameSlash
      <4> QED  BY <3>3, <4>1, <4>2, <4>3 DEF SlashKept
    <3> QED  BY <3>2, <3>3
  <2>6. /\ Has(store', slashKey(v, n)) =>
             Cardinality(MissingIn(store', v)) <= Cardinality(MissingIn(store, v))
        /\ Cardinality(MissingIn(store', v)) <= Cardinality(MissingIn(store, v)) + 1
    <3>1. n = InfoIn(store, v).slashCount
      BY <1>2 DEF n
    <3> QED  BY <1>2, <1>5, <2>1, <2>5, <3>1, MissingOneMore DEF IInv
  <2>7. \/ /\ faults' = faults /\ Has(store', slashKey(v, n))
           /\ store'[slashKey(v, n)] = record
        \/ faults' = faults + 1
    <3>1. n \in Int
      BY <1>2 DEF n
    <3> QED  BY <1>8, <2>3, <3>1 DEF SameSlash, Fault
  <2>8. Cardinality(MissingIn(store', v)) <= faults'
    <3>1. Cardinality(MissingIn(store', v)) \in Nat
      BY <2>1, MissingTypes
    <3> QED  BY <1>6, <1>7, <2>6, <2>7, <3>1
  <2>9. /\ off' \in [Validator -> Int] /\ off'[v] = off[v] + drift
        /\ \A w \in Validator \ {v} : off'[w] = off[w]
    BY <1>3, <1>8, HistoryTypes DEF Drift, drift
  <2>10. /\ InfoIn(store', v).totalStake =
              InfoIn(store', v).selfStake + DelegatedIn(store', v) + off'[v]
         /\ paid'[v] + lost'[v] + InfoIn(store', v).accumRewards = earned'[v]
    BY <1>1, <1>2, <1>3, <1>5, <1>6, <2>1, <2>9 DEF drift
  <2>11. /\ earned' \in [Validator -> Nat] /\ paid' \in [Validator -> Nat]
         /\ lost' \in [Validator -> Nat]
         /\ \A w \in Validator \ {v} : earned'[w] = earned[w] /\ paid'[w] = paid[w]
         /\ \A w \in Validator \ {v} : lost'[w] = lost[w]
    BY <1>1 DEF IInv
  <2>12. \A w \in Validator \ {v}, i \in Int : SameSlash(store, store', w, i)
    BY <2>2
  <2>13. IInv' /\ RecordsStay
    <3>1. \A i \in 0 .. InfoIn(store, v).slashCount - 1 : SlashKept(v, i)
      BY <1>2, <2>5 DEF n
    <3> QED  BY <2>1, <2>4, <2>8, <2>9, <2>10, <2>11, <2>12, <3>1, CallStep
  <2>14. NothingEarnedBy(v)
    <3>1. /\ InfoIn(store', v).slashCount = InfoIn(store, v).slashCount + 1
          /\ InfoIn(store', v).accumRewards <= InfoIn(store, v).accumRewards
          /\ InfoIn(store, v).totalStake - InfoIn(store', v).totalStake = record.amount
          /\ n = InfoIn(store, v).slashCount
      BY <1>2, <1>3, <1>4, <1>5, <2>1 DEF n
    <3>2. \/ faults' # faults
          \/ Has(store', slashKey(v, n)) /\ store'[slashKey(v, n)] = record
      BY <1>6, <2>7
    <3> QED  BY <3>1, <3>2 DEF NothingEarnedBy
  <2>15. NothingEarned
    BY <2>1, <2>14, OthersEarnNothing
  <2> QED  BY <2>13, <2>15 DEF StepOK
<1>9. n \in 0 .. MaxSlashes
  BY <1>2, StakingAssumption DEF n
<1>10. ASSUME Has(store', validatorKey(v)), InfoIn(store', v) = info
       PROVE  info.slashCount <= MaxSlashes
  BY <1>10 DEF HasValidator, Info, InfoIn
<1>11. ASSUME NEW k \in 0 .. MaxSlashes,
              store' = PutBoth(store, slashKey(v, k), record, validatorKey(v), info),
              Drift(v, drift), (k = n /\ UNCHANGED faults) \/ (k = 0 /\ Fault)
       PROVE  StepOK
  <2> DEFINE m == Put(store, slashKey(v, k), record)
  <2>1. store' = Put(m, validatorKey(v), info)
    BY <1>11 DEF PutBoth
  <2>2. SlashSaved(store, m, v, k, record)
    BY <1>4, <1>11, PutSlash DEF IInv
  <2> HIDE DEF m
  <2>3. Has(store', validatorKey(v)) /\ InfoIn(store', v) = info
    BY <2>1 DEF Put, Has, InfoIn
  <2>4. info.slashCount <= MaxSlashes
    BY <1>10, <2>3
  <2>5. StoreOK(m)
    BY <2>2 DEF SlashSaved
  <2>6. ValidatorSaved(m, store', v, info)
    BY <1>5, <2>1, <2>4, <2>5, PutValidator
  <2>7. /\ \A w \in Validator : SameInfo(store, m, w)
        /\ \A w \in Validator : DelegatedIn(m, w) = DelegatedIn(store, w)
        /\ \A w \in Validator, i \in Int : w # v \/ i # k => SameSlash(store, m, w, i)
        /\ Has(m, slashKey(v, k)) /\ m[slashKey(v, k)] = record
    BY <2>2 DEF SlashSaved
  <2>8. \/ /\ k = n /\ Has(m, slashKey(v, n)) /\ m[slashKey(v, n)] = record
           /\ faults' = faults
        \/ k \in {0, n} /\ Fault
    BY <1>11, <2>7
  <2>9. k \in Nat
    BY <1>11
  <2> QED  BY Zenon, <1>8, <1>11, <2>5, <2>6, <2>7, <2>8, <2>9
<1>12. ASSUME SaveValidator(v, info), Fault, Drift(v, drift)
       PROVE  StepOK
  <2>1. store' = Put(store, validatorKey(v), info)
    BY <1>12 DEF SaveValidator
  <2>2. Has(store', validatorKey(v)) /\ InfoIn(store', v) = info
    BY <2>1 DEF Put, Has, InfoIn
  <2>3. info.slashCount <= MaxSlashes
    BY <1>10, <2>2
  <2>4. ValidatorSaved(store, store', v, info)
    BY <1>5, <2>1, <2>3, PutValidator DEF IInv
  <2>5. \A w \in Validator : SameInfo(store, store, w)
    BY DEF SameInfo
  <2>6. \A w \in Validator, i \in Int : SameSlash(store, store, w, i)
    BY DEF SameSlash
  <2>7. StoreOK(store)
    BY DEF IInv
  <2>8. n \in Nat /\ n \in {0, n}
    BY <1>2 DEF n
  <2> QED  BY Zenon, <1>8, <1>12, <2>4, <2>5, <2>6, <2>7, <2>8
<1>13. ASSUME store' = Put(store, slashKey(v, n), record), Fault, UNCHANGED off
       PROVE  StepOK
  <2>1. SlashSaved(store, store', v, n, record)
    BY <1>4, <1>9, <1>13, PutSlash DEF IInv
  <2>2. /\ StoreOK(store') /\ \A w \in Validator : SameInfo(store, store', w)
        /\ \A w \in Validator : DelegatedIn(store', w) = DelegatedIn(store, w)
        /\ \A w \in Validator, i \in Int : w # v \/ i # n => SameSlash(store, store', w, i)
    BY <2>1 DEF SlashSaved
  <2>3. Has(store', validatorKey(v)) /\ InfoIn(store', v) = InfoIn(store, v)
    BY <1>2, <2>2 DEF SameInfo
  <2>4. \A i \in 0 .. InfoIn(store, v).slashCount - 1 :
          SameSlash(store, store', v, i) /\ SlashKept(v, i)
    BY <1>2, <2>2 DEF n, SameSlash, SlashKept
  <2>5. MissingIn(store', v) = MissingIn(store, v)
    BY <1>2, <2>3, <2>4, MissingStays DEF IInv
  <2>6. faults' = faults + 1 /\ faults' \in faults .. MaxFaults
    BY <1>13, HistoryTypes DEF Fault
  <2>7. /\ InfoIn(store', v).totalStake =
             InfoIn(store', v).selfStake + DelegatedIn(store', v) + off'[v]
        /\ paid'[v] + lost'[v] + InfoIn(store', v).accumRewards = earned'[v]
        /\ Cardinality(MissingIn(store', v)) <= faults'
    BY <1>1, <1>2, <1>6, <1>7, <1>13, <2>2, <2>3, <2>5, <2>6
  <2>8. /\ earned' \in [Validator -> Nat] /\ paid' \in [Validator -> Nat]
        /\ off' \in [Validator -> Int] /\ lost' \in [Validator -> Nat]
        /\ \A w \in Validator \ {v} : earned'[w] = earned[w] /\ paid'[w] = paid[w]
        /\ \A w \in Validator \ {v} : off'[w] = off[w] /\ lost'[w] = lost[w]
    BY <1>1, <1>13 DEF IInv
  <2>9. \A w \in Validator \ {v}, i \in Int : SameSlash(store, store', w, i)
    BY <2>2
  <2>10. IInv' /\ RecordsStay
    BY <2>2, <2>3, <2>4, <2>6, <2>7, <2>8, <2>9, CallStep
  <2>11. NothingEarned
    <3>1. NothingEarnedBy(v)
      BY <1>2, <2>3 DEF NothingEarnedBy
    <3> QED  BY <2>2, <3>1, OthersEarnNothing
  <2> QED  BY <2>10, <2>11 DEF StepOK
<1>14. \/ /\ store' = PutBoth(store, slashKey(v, n), record, validatorKey(v), info)
          /\ Drift(v, drift)
          /\ UNCHANGED faults
       \/ /\ store' = PutBoth(store, slashKey(v, 0), record, validatorKey(v), info)
          /\ Drift(v, drift)
          /\ Fault
       \/ SaveValidator(v, info) /\ Fault /\ Drift(v, drift)
       \/ /\ store' = Put(store, slashKey(v, n), record)
          /\ Fault
          /\ UNCHANGED off
  BY Zenon, <1>1
<1>15. CASE /\ store' = PutBoth(store, slashKey(v, n), record, validatorKey(v), info)
            /\ Drift(v, drift)
            /\ UNCHANGED faults
  <2>1. n = n /\ UNCHANGED faults
    BY <1>15
  <2> QED  BY Zenon, <1>9, <1>11, <1>15, <2>1
<1>16. CASE /\ store' = PutBoth(store, slashKey(v, 0), record, validatorKey(v), info)
            /\ Drift(v, drift)
            /\ Fault
  <2>1. 0 \in 0 .. MaxSlashes
    BY StakingAssumption
  <2>2. 0 = 0 /\ Fault
    BY <1>16
  <2> QED  BY Zenon, <1>11, <1>16, <2>1, <2>2
<1> QED  BY Zenon, <1>12, <1>13, <1>14, <1>15, <1>16

\* Every step keeps the invariant and does what the action properties demand.
LEMMA EveryStep == IInv /\ [Next]_vars => StepOK
<1> SUFFICES ASSUME IInv, [Next]_vars PROVE StepOK
  OBVIOUS
<1>1. ASSUME NEW v \in Validator, Call(v), WithinBounds' PROVE StepOK
  <2>1. CASE \E stake \in Amounts, c \in Commissions : RegisterValidator(v, stake, c)
    BY <2>1, RegisterStep
  <2>2. CASE \E amount \in Amounts : AddSelfStake(v, amount)
    BY <2>2, AddSelfStakeStep
  <2>3. CASE \E amount \in Amounts, d \in Delegator : Delegate(v, d, amount)
    BY <2>3, DelegateStep
  <2>4. CASE \E amount \in Amounts, d \in Delegator : Undelegate(v, d, amount)
    BY <2>4, UndelegateStep
  <2>5. CASE \E amount \in Amounts : AccrueRewards(v, amount)
    BY <2>5, AccrueStep
  <2>6. CASE \E amount \in Amounts, until \in Blocks : Slash(v, amount, until)
    <3>1. HasValidator(v)' => Info(v)'.slashCount <= MaxSlashes
      BY <1>1 DEF WithinBounds
    <3> QED  BY <2>6, <3>1, SlashStep
  <2>7. CASE \E c \in Delegator \cup {v} : ClaimRewards(v, c)
    BY <2>7, ClaimOwnStep, ClaimDelegatedStep
  <2>8. CASE \E b \in Blocks : Unjail(v, b)
    BY <2>8, UnjailStep
  <2> QED  BY <1>1, <2>1, <2>2, <2>3, <2>4, <2>5, <2>6, <2>7, <2>8 DEF Call
<1>2. CASE UNCHANGED vars
  <2>1. IInv'
    BY <1>2 DEF IInv, vars, Earned
  <2>2. NothingEarned
    <3>1. \A w \in Validator : Has(store, validatorKey(w)) =>
            /\ InfoIn(store, w).totalStake \in Int /\ InfoIn(store, w).selfStake \in Nat
            /\ InfoIn(store, w).accumRewards \in Nat
      BY InfoTypes DEF IInv, StoreOK
    <3> QED  BY <1>2, <3>1 DEF vars, NothingEarned, NothingEarnedBy
  <2>3. RecordsStay
    BY <1>2 DEF vars, RecordsStay, SlashKept
  <2> QED  BY <2>1, <2>2, <2>3 DEF StepOK
<1> QED  BY <1>1, <1>2 DEF Next

----------------------------------------------------------------------------
(***************************************************************************)
(* The theorems                                                            *)
(***************************************************************************)

LEMMA Invariance == Spec => []IInv
<1>1. Init => IInv
  BY IInvInit
<1>2. IInv /\ [Next]_vars => IInv'
  BY EveryStep DEF StepOK
<1> QED  BY <1>1, <1>2, PTL DEF Spec

\* Whatever calls are made, with amounts of any sign, and whatever the storage fails
\* to read or to save, the records keep their types: no own stake, delegation or reward
\* gets below zero (selfStake of ValidatorInfo, amount of Delegation, AccumRewards).
THEOREM TypeCorrect == Spec => []TypeOK
BY Invariance, IInvImplies, PTL

\* Every validator's TotalStake is its own stake and the delegations to it, but for the
\* drift of slashes beyond the own stake and of failures: for any number of delegators,
\* not only those of the runs.
THEOREM StakeAccountedCorrect == Spec => []StakeAccounted
BY Invariance, IInvImplies, PTL

\* Every commission AccrueRewards credits is claimed once or still to be claimed, unless
\* a new registration overwrote it.
THEOREM RewardsPaidOnceCorrect == Spec => []RewardsPaidOnce
BY Invariance, IInvImplies, PTL

\* From a slash to the unjailing after it a validator gains no rewards, and stake only
\* by one more slash, whose record tells how much: Slash refuses no negative amount, and
\* caps what it takes at a total that can be negative.
THEOREM JailedEarnsNothingCorrect == Spec => JailedEarnsNothing
<1>1. IInv /\ [Next]_vars =>
        [\A v \in Validator :
           HasValidator(v) /\ Info(v).jailed /\ Info(v)'.jailed =>
             /\ Info(v)'.accumRewards <= Info(v).accumRewards
             /\ \/ /\ Info(v)'.totalStake <= Info(v).totalStake
                   /\ Info(v)'.selfStake <= Info(v).selfStake
                \/ /\ Info(v)'.slashCount = Info(v).slashCount + 1
                   /\ \/ faults' # faults
                      \/ /\ Has(store', slashKey(v, Info(v).slashCount))
                         /\ store'[slashKey(v, Info(v).slashCount)].amount =
                              Info(v).totalStake - Info(v)'.totalStake]_vars
  BY EveryStep DEF StepOK, NothingEarned, NothingEarnedBy, HasValidator, Info, InfoIn
<1> QED  BY <1>1, Invariance, PTL DEF Spec, JailedEarnsNothing

\* The slash history is complete but for one record for each failure, and what was
\* written stays as it was: a retried slash overwrites no other, and one that saveSlash
\* cannot count (v == nil) none but the first.
THEOREM SlashHistoryCorrect == Spec => SlashHistory
<1>1. IInv /\ [Next]_vars =>
        [\A v \in Validator :
           HasValidator(v) =>
             \A i \in 0 .. Info(v).slashCount - 1 :
               HasSlash(v, i) =>
                 /\ HasSlash(v, i)'
                 /\ \/ store'[slashKey(v, i)] = store[slashKey(v, i)]
                    \/ i = 0 /\ faults' # faults]_vars
  BY EveryStep DEF StepOK, RecordsStay, SlashKept, HasValidator, HasSlash, Info, InfoIn
<1>2. IInv => (\A v \in Validator : HasValidator(v) =>
          Cardinality({i \in 0 .. Info(v).slashCount - 1 : ~HasSlash(v, i)}) <= faults)
  BY IInvImplies DEF SlashesKept
<1> QED  BY <1>1, <1>2, Invariance, PTL DEF Spec, SlashHistory
=============================================================================
