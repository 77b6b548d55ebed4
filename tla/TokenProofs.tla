----------------------------- MODULE TokenProofs -----------------------------
(***************************************************************************)
(* What TokenProgram keeps for any tokens, owners, amounts, capacity of    *)
(* the channel and number of failures of the storage.                      *)
(*                                                                         *)
(* Every call is one or two Puts, so the proofs go by Puts: the first part *)
(* says of any store what one Put of an account or of a token does to the  *)
(* records, the supplies and the sums of balances, and the steps of the    *)
(* program only compose that.                                              *)
(***************************************************************************)
EXTENDS TokenProgram, Lemmas

\* Keys of tokens and of accounts do not meet, and a key tells whose it is.
LEMMA KeysDiffer ==
  /\ \A i, j, o : tokenKey(i) # accountKey(j, o)
  /\ \A i, j : tokenKey(i) = tokenKey(j) => i = j
  /\ \A i, j, o, q : accountKey(i, o) = accountKey(j, q) => i = j /\ o = q
BY DEF tokenKey, accountKey

----------------------------------------------------------------------------
(***************************************************************************)
(* One Put                                                                 *)
(***************************************************************************)

AccountIn(s, id, o) == GetOr(s, accountKey(id, o), NewAccount)

SupplyIn(s, id) == IF Has(s, tokenKey(id)) THEN s[tokenKey(id)].supply ELSE 0

BalancesIn(s, id) == [o \in Owner |-> AccountIn(s, id, o).balance]

HoldingsIn(s, id) == SumFunctionOnSet(BalancesIn(s, id), Owner)

\* The types of the records; and there is no account without its token.
StoreOK(s) ==
  /\ DOMAIN s \subseteq {tokenKey(id) : id \in TokenId}
                        \cup {accountKey(id, o) : id \in TokenId, o \in Owner}
  /\ \A id \in TokenId : Has(s, tokenKey(id)) => s[tokenKey(id)] \in TokenInfo
  /\ \A id \in TokenId, o \in Owner : Has(s, accountKey(id, o)) =>
       s[accountKey(id, o)] \in TokenAccount /\ Has(s, tokenKey(id))

\* Nothing is ever deleted.
Grows(s, t) == \A key : Has(s, key) => Has(t, key)

\* t is s with the account of o replaced.
AccountSaved(s, t, id, o, acc) ==
  /\ StoreOK(t) /\ Grows(s, t)
  /\ \A j \in TokenId, q \in Owner :
       AccountIn(t, j, q) = IF j = id /\ q = o THEN acc ELSE AccountIn(s, j, q)
  /\ \A j \in TokenId : SupplyIn(t, j) = SupplyIn(s, j)
  /\ \A j \in TokenId :
       HoldingsIn(t, j) =
         HoldingsIn(s, j) + IF j = id THEN acc.balance - AccountIn(s, id, o).balance ELSE 0

\* t is s with the token's record replaced.
TokenSaved(s, t, id, info) ==
  /\ StoreOK(t) /\ Grows(s, t) /\ Has(t, tokenKey(id)) /\ t[tokenKey(id)] = info
  /\ \A j \in TokenId, q \in Owner : AccountIn(t, j, q) = AccountIn(s, j, q)
  /\ \A j \in TokenId : SupplyIn(t, j) = IF j = id THEN info.supply ELSE SupplyIn(s, j)
  /\ \A j \in TokenId : HoldingsIn(t, j) = HoldingsIn(s, j)

\* Every owner has an account of every token, if only the one made up for it.
LEMMA AccountTypes ==
  ASSUME NEW s, StoreOK(s), NEW id \in TokenId, NEW o \in Owner
  PROVE  AccountIn(s, id, o) \in TokenAccount
BY DEF StoreOK, AccountIn, GetOr, NewAccount, TokenAccount

LEMMA SupplyTypes ==
  ASSUME NEW s, StoreOK(s), NEW id \in TokenId
  PROVE  SupplyIn(s, id) \in Int
BY DEF StoreOK, SupplyIn, TokenInfo

LEMMA HoldingsTypes ==
  ASSUME NEW s, StoreOK(s), NEW id \in TokenId
  PROVE  HoldingsIn(s, id) \in Int
<1>1. \A o \in Owner : BalancesIn(s, id)[o] \in Int
  BY AccountTypes DEF BalancesIn, TokenAccount
<1> QED  BY <1>1, TokenAssumption, SumInt DEF HoldingsIn

\* Put of an account whose token is there.
LEMMA PutAccount ==
  ASSUME NEW s, StoreOK(s), NEW id \in TokenId, NEW o \in Owner, NEW acc \in TokenAccount,
         Has(s, tokenKey(id))
  PROVE  AccountSaved(s, Put(s, accountKey(id, o), acc), id, o, acc)
<1> DEFINE t == Put(s, accountKey(id, o), acc)
<1>1. /\ DOMAIN t = DOMAIN s \cup {accountKey(id, o)}
      /\ t[accountKey(id, o)] = acc
      /\ \A k \in DOMAIN s : k # accountKey(id, o) => t[k] = s[k]
  BY DEF Put
<1> HIDE DEF t
<1>2. Grows(s, t)
  BY <1>1 DEF Grows, Has
<1>3. ASSUME NEW j \in TokenId
      PROVE  /\ Has(t, tokenKey(j)) <=> Has(s, tokenKey(j))
             /\ Has(s, tokenKey(j)) => t[tokenKey(j)] = s[tokenKey(j)]
  BY <1>1, KeysDiffer DEF Has
<1>4. ASSUME NEW j \in TokenId, NEW q \in Owner
      PROVE  AccountIn(t, j, q) = IF j = id /\ q = o THEN acc ELSE AccountIn(s, j, q)
  BY <1>1, KeysDiffer DEF Has, AccountIn, GetOr
<1>5. StoreOK(t)
  <2>1. DOMAIN t \subseteq {tokenKey(i) : i \in TokenId}
                           \cup {accountKey(i, q) : i \in TokenId, q \in Owner}
    BY <1>1 DEF StoreOK
  <2>2. \A j \in TokenId : Has(t, tokenKey(j)) => t[tokenKey(j)] \in TokenInfo
    BY <1>3 DEF StoreOK
  <2>3. ASSUME NEW j \in TokenId, NEW q \in Owner, Has(t, accountKey(j, q))
        PROVE  t[accountKey(j, q)] \in TokenAccount /\ Has(t, tokenKey(j))
    <3>1. CASE j = id /\ q = o
      BY <1>1, <1>3, <3>1
    <3>2. CASE ~(j = id /\ q = o)
      <4>1. accountKey(j, q) # accountKey(id, o)
        BY <3>2, KeysDiffer
      <4>2. Has(s, accountKey(j, q)) /\ t[accountKey(j, q)] = s[accountKey(j, q)]
        BY <1>1, <2>3, <4>1 DEF Has
      <4> QED  BY <1>3, <4>2 DEF StoreOK
    <3> QED  BY <3>1, <3>2
  <2> QED  BY <2>1, <2>2, <2>3 DEF StoreOK
<1>6. \A j \in TokenId : SupplyIn(t, j) = SupplyIn(s, j)
  BY <1>3 DEF SupplyIn
<1>7. ASSUME NEW j \in TokenId
      PROVE  HoldingsIn(t, j) =
               HoldingsIn(s, j) + IF j = id THEN acc.balance - AccountIn(s, id, o).balance ELSE 0
  <2> DEFINE f == BalancesIn(s, j)
             g == BalancesIn(t, j)
  <2>1. \A q \in Owner : f[q] \in Int /\ g[q] \in Int
    BY <1>5, AccountTypes DEF BalancesIn, TokenAccount
  <2>2. CASE j = id
    <3>1. \A q \in Owner \ {o} : g[q] = f[q]
      BY <1>4 DEF BalancesIn
    <3>2. g[o] = acc.balance /\ f[o] = AccountIn(s, id, o).balance
      BY <1>4, <2>2 DEF BalancesIn
    <3> HIDE DEF f, g
    <3>3. SumFunctionOnSet(g, Owner) = SumFunctionOnSet(f, Owner) + (g[o] - f[o])
      BY <2>1, <3>1, TokenAssumption, SumChange
    <3> QED  BY <2>2, <3>2, <3>3 DEF HoldingsIn, f, g
  <2>3. CASE j # id
    <3>1. \A q \in Owner : g[q] = f[q]
      BY <1>4, <2>3 DEF BalancesIn
    <3>2. SumFunctionOnSet(g, Owner) = SumFunctionOnSet(f, Owner)
      <4> HIDE DEF f, g
      <4> QED  BY <3>1, TokenAssumption, SumSame
    <3>3. HoldingsIn(s, j) \in Int
      BY HoldingsTypes
    <3> QED  BY <2>3, <3>2, <3>3 DEF HoldingsIn
  <2> QED  BY <2>2, <2>3
<1> QED  BY <1>2, <1>4, <1>5, <1>6, <1>7 DEF AccountSaved, t

\* Put of a token's record.
LEMMA PutToken ==
  ASSUME NEW s, StoreOK(s), NEW id \in TokenId, NEW info \in TokenInfo
  PROVE  TokenSaved(s, Put(s, tokenKey(id), info), id, info)
<1> DEFINE t == Put(s, tokenKey(id), info)
<1>1. /\ DOMAIN t = DOMAIN s \cup {tokenKey(id)}
      /\ t[tokenKey(id)] = info
      /\ \A k \in DOMAIN s : k # tokenKey(id) => t[k] = s[k]
  BY DEF Put
<1> HIDE DEF t
<1>2. Grows(s, t) /\ Has(t, tokenKey(id))
  BY <1>1 DEF Grows, Has
<1>3. ASSUME NEW j \in TokenId
      PROVE  /\ Has(t, tokenKey(j)) <=> j = id \/ Has(s, tokenKey(j))
             /\ Has(s, tokenKey(j)) /\ j # id => t[tokenKey(j)] = s[tokenKey(j)]
  BY <1>1, KeysDiffer DEF Has
<1>4. ASSUME NEW j \in TokenId, NEW q \in Owner
      PROVE  /\ Has(t, accountKey(j, q)) <=> Has(s, accountKey(j, q))
             /\ Has(s, accountKey(j, q)) => t[accountKey(j, q)] = s[accountKey(j, q)]
  BY <1>1, KeysDiffer DEF Has
<1>5. \A j \in TokenId, q \in Owner : AccountIn(t, j, q) = AccountIn(s, j, q)
  BY <1>4 DEF AccountIn, GetOr
<1>6. StoreOK(t)
  <2>1. DOMAIN t \subseteq {tokenKey(i) : i \in TokenId}
                           \cup {accountKey(i, q) : i \in TokenId, q \in Owner}
    BY <1>1 DEF StoreOK
  <2>2. ASSUME NEW j \in TokenId, Has(t, tokenKey(j)) PROVE t[tokenKey(j)] \in TokenInfo
    BY <1>1, <1>3, <2>2 DEF StoreOK
  <2>3. ASSUME NEW j \in TokenId, NEW q \in Owner, Has(t, accountKey(j, q))
        PROVE  t[accountKey(j, q)] \in TokenAccount /\ Has(t, tokenKey(j))
    BY <1>3, <1>4, <2>3 DEF StoreOK
  <2> QED  BY <2>1, <2>2, <2>3 DEF StoreOK
<1>7. \A j \in TokenId : SupplyIn(t, j) = IF j = id THEN info.supply ELSE SupplyIn(s, j)
  BY <1>1, <1>3 DEF SupplyIn
<1>8. \A j \in TokenId : HoldingsIn(t, j) = HoldingsIn(s, j)
  <2>1. \A j \in TokenId : BalancesIn(t, j) = BalancesIn(s, j)
    BY <1>5 DEF BalancesIn
  <2> QED  BY <2>1 DEF HoldingsIn
<1> QED  BY <1>1, <1>2, <1>5, <1>6, <1>7, <1>8 DEF TokenSaved, t

----------------------------------------------------------------------------
(***************************************************************************)
(* The inductive invariant, and the events                                 *)
(***************************************************************************)

ChannelOK == eventCh \in Seq(EventLog) /\ Len(eventCh) <= EventCap

\* What SupplyAccounted needs to be inductive: a new token has no accounts yet.
IInv ==
  /\ StoreOK(store)
  /\ ChannelOK
  /\ faults \in 0 .. MaxFaults
  /\ off \in [TokenId -> Int]
  /\ \A id \in TokenId : HoldingsIn(store, id) = SupplyIn(store, id) + off[id]

LEMMA IInvImplies == IInv => TypeOK /\ SupplyAccounted
<1> SUFFICES ASSUME IInv PROVE TypeOK /\ SupplyAccounted
  OBVIOUS
<1>1. TypeOK
  BY DEF IInv, StoreOK, ChannelOK, TypeOK, HasToken, HasAccount, Info, Account
<1>2. ASSUME NEW id \in TokenId PROVE Holdings(id) = HoldingsIn(store, id)
  <2> DEFINE f == [o \in Owner |-> Balance(id, o)]
  <2>1. f = BalancesIn(store, id)
    BY DEF Balance, getOrCreateAccount, BalancesIn, AccountIn
  <2>2. DOMAIN f = Owner
    OBVIOUS
  <2> QED  BY Zenon, <2>1, <2>2 DEF Holdings, SumFunction, HoldingsIn
<1>3. \A id \in TokenId : Supply(id) = SupplyIn(store, id)
  BY DEF Supply, SupplyIn, HasToken, Info
<1>4. SupplyAccounted
  BY <1>2, <1>3 DEF IInv, SupplyAccounted
<1> QED  BY <1>1, <1>4

LEMMA IInvInit == Init => IInv
<1> SUFFICES ASSUME Init PROVE IInv
  OBVIOUS
<1> USE DEF Init
<1>1. \A key : ~Has(store, key)
  BY DEF Has
<1>2. StoreOK(store)
  BY <1>1 DEF StoreOK, Has
<1>3. ChannelOK
  BY TokenAssumption DEF ChannelOK
<1>4. ASSUME NEW id \in TokenId
      PROVE  HoldingsIn(store, id) = SupplyIn(store, id) + off[id]
  <2>1. \A o \in Owner : BalancesIn(store, id)[o] = 0
    BY <1>1 DEF BalancesIn, AccountIn, GetOr, NewAccount
  <2>2. HoldingsIn(store, id) = 0
    BY <2>1, TokenAssumption, SumZero DEF HoldingsIn
  <2>3. SupplyIn(store, id) = 0
    BY <1>1 DEF SupplyIn
  <2> QED  BY <2>2, <2>3
<1> QED  BY <1>2, <1>3, <1>4, TokenAssumption DEF IInv

\* The last event of the channel, when emit found room, is the one it was given.
LEMMA EmitTells ==
  ASSUME ChannelOK, NEW name, NEW id, NEW from, NEW to, NEW amount,
         [event |-> name, id |-> id, from |-> from, to |-> to, amount |-> amount] \in EventLog,
         emit(name, id, from, to, amount)
  PROVE  /\ ChannelOK'
         /\ Len(eventCh) # EventCap =>
              /\ Len(eventCh') > Len(eventCh)
              /\ eventCh'[Len(eventCh')] =
                   [event |-> name, id |-> id, from |-> from, to |-> to, amount |-> amount]
<1> DEFINE e == [event |-> name, id |-> id, from |-> from, to |-> to, amount |-> amount]
<1>1. e \in EventLog
  OBVIOUS
<1>2. eventCh' = IF Len(eventCh) < EventCap THEN Append(eventCh, e) ELSE eventCh
  BY DEF emit
<1> HIDE DEF e
<1>3. EventCap \in Nat /\ Len(eventCh) \in Nat
  BY TokenAssumption DEF ChannelOK
<1>4. CASE Len(eventCh) < EventCap
  <2>1. eventCh' \in Seq(EventLog) /\ Len(eventCh') = Len(eventCh) + 1 /\ eventCh'[Len(eventCh')] = e
    BY <1>1, <1>2, <1>4 DEF ChannelOK
  <2> QED  BY <1>3, <1>4, <2>1 DEF ChannelOK, e
<1>5. CASE ~(Len(eventCh) < EventCap)
  BY <1>2, <1>3, <1>5 DEF ChannelOK
<1> QED  BY <1>4, <1>5

----------------------------------------------------------------------------
(***************************************************************************)
(* What a step must do, in the terms of the first part                     *)
(***************************************************************************)

\* The body of EventsTellBalances.
EventsTell ==
  \A id \in TokenId, o \in Owner :
    AccountIn(store', id, o).balance # AccountIn(store, id, o).balance =>
      \/ faults' # faults
      \/ Len(eventCh) = EventCap
      \/ LET e == eventCh'[Len(eventCh')] IN
           /\ Len(eventCh') > Len(eventCh) /\ e.id = id
           /\ e.from # e.to =>
                AccountIn(store', id, o).balance - AccountIn(store, id, o).balance = Told(e, o)

\* The body of FrozenKeeps.
Keeps ==
  \A id \in TokenId, o \in Owner :
    LET old == AccountIn(store, id, o)
        new == AccountIn(store', id, o)
    IN  old.frozen /\ new.balance < old.balance =>
          \/ old.allowance - new.allowance = old.balance - new.balance
          \/ SupplyIn(store, id) - SupplyIn(store', id) = old.balance - new.balance
          \/ faults' # faults

StepOK == IInv' /\ EventsTell /\ Keeps

\* A call that met a failure: what the balances gain on the supply is what off notes.
LEMMA FaultStep ==
  ASSUME IInv, NEW id \in TokenId, NEW delta \in Int, Fault(id, delta), ChannelOK',
         StoreOK(store'),
         \A j \in TokenId : HoldingsIn(store', j) - SupplyIn(store', j) =
           HoldingsIn(store, j) - SupplyIn(store, j) + IF j = id THEN delta ELSE 0
  PROVE  StepOK
<1>1. faults' # faults /\ faults' \in 0 .. MaxFaults
  BY TokenAssumption DEF IInv, Fault
<1>3. off' = [off EXCEPT ![id] = @ + delta] /\ off' \in [TokenId -> Int]
  BY DEF IInv, Fault
<1>4. ASSUME NEW j \in TokenId PROVE HoldingsIn(store', j) = SupplyIn(store', j) + off'[j]
  <2>1. /\ HoldingsIn(store, j) \in Int /\ SupplyIn(store, j) \in Int
        /\ HoldingsIn(store', j) \in Int /\ SupplyIn(store', j) \in Int
    BY HoldingsTypes, SupplyTypes DEF IInv
  <2>2. off'[j] = off[j] + IF j = id THEN delta ELSE 0
    BY <1>3 DEF IInv
  <2>3. off[j] \in Int /\ HoldingsIn(store, j) = SupplyIn(store, j) + off[j]
    BY DEF IInv
  <2> QED  BY <2>1, <2>2, <2>3
<1> QED  BY <1>1, <1>3, <1>4 DEF StepOK, IInv, EventsTell, Keeps

\* A call that saved its first record only.
LEMMA HalfStep ==
  ASSUME IInv, NEW id \in TokenId, NEW key, NEW value, NEW delta \in Int,
         SaveHalf(key, value, id, delta),
         StoreOK(store'),
         \A j \in TokenId : HoldingsIn(store', j) - SupplyIn(store', j) =
           HoldingsIn(store, j) - SupplyIn(store, j) + IF j = id THEN delta ELSE 0
  PROVE  StepOK
<1>1. Fault(id, delta)
  BY DEF SaveHalf
<1>2. ChannelOK'
  BY DEF IInv, SaveHalf, ChannelOK
<1> QED  BY <1>1, <1>2, FaultStep

\* A call that saved all it had to save.
LEMMA WholeStep ==
  ASSUME IInv, NEW id \in TokenId, NEW delta \in Int,
         off' = [off EXCEPT ![id] = @ + delta] \/ (delta = 0 /\ UNCHANGED off),
         UNCHANGED faults, ChannelOK', StoreOK(store'),
         \A j \in TokenId : HoldingsIn(store', j) - SupplyIn(store', j) =
           HoldingsIn(store, j) - SupplyIn(store, j) + IF j = id THEN delta ELSE 0
  PROVE  IInv'
<1>1. off' \in [TokenId -> Int]
  BY DEF IInv
<1>2. ASSUME NEW j \in TokenId PROVE HoldingsIn(store', j) = SupplyIn(store', j) + off'[j]
  <2>1. /\ HoldingsIn(store, j) \in Int /\ SupplyIn(store, j) \in Int
        /\ HoldingsIn(store', j) \in Int /\ SupplyIn(store', j) \in Int
    BY HoldingsTypes, SupplyTypes DEF IInv
  <2>2. off'[j] = off[j] + IF j = id THEN delta ELSE 0
    BY DEF IInv
  <2>3. off[j] \in Int /\ HoldingsIn(store, j) = SupplyIn(store, j) + off[j]
    BY DEF IInv
  <2> QED  BY <2>1, <2>2, <2>3
<1> QED  BY <1>1, <1>2 DEF IInv

LEMMA BalancedStep ==
  ASSUME IInv, NEW id \in TokenId, UNCHANGED <<faults, off>>, ChannelOK', StoreOK(store'),
         \A j \in TokenId : HoldingsIn(store', j) - SupplyIn(store', j) =
           HoldingsIn(store, j) - SupplyIn(store, j)
  PROVE  IInv'
<1>1. \A j \in TokenId : HoldingsIn(store', j) - SupplyIn(store', j) =
        HoldingsIn(store, j) - SupplyIn(store, j) + IF j = id THEN 0 ELSE 0
  BY HoldingsTypes, SupplyTypes DEF IInv
<1> QED  BY <1>1, WholeStep

----------------------------------------------------------------------------
(***************************************************************************)
(* The calls                                                               *)
(***************************************************************************)

\* The program reads the records that the first part speaks of.
LEMMA Reads ==
  ASSUME NEW id \in TokenId, NEW o \in Owner
  PROVE  /\ getOrCreateAccount(id, o) = AccountIn(store, id, o)
         /\ HasAccount(id, o) => Account(id, o) = AccountIn(store, id, o)
BY DEF getOrCreateAccount, AccountIn, HasAccount, Account, GetOr

LEMMA ReadsToken ==
  ASSUME IInv, NEW id \in TokenId, HasToken(id)
  PROVE  Has(store, tokenKey(id)) /\ Info(id) \in TokenInfo /\ Info(id).supply = SupplyIn(store, id)
BY DEF IInv, StoreOK, HasToken, Info, SupplyIn

\* A token that is not there has neither supply nor balances.
LEMMA NoTokenNoHoldings ==
  ASSUME IInv, NEW id \in TokenId, ~HasToken(id)
  PROVE  SupplyIn(store, id) = 0 /\ \A o \in Owner : AccountIn(store, id, o) = NewAccount
BY DEF IInv, StoreOK, HasToken, SupplyIn, AccountIn, GetOr

\* The creator's account.
LEMMA FirstAccount ==
  ASSUME NEW amount \in Nat, NEW acc, acc = [NewAccount EXCEPT !.balance = amount]
  PROVE  acc \in TokenAccount /\ acc.balance = amount
<1>1. acc = [balance |-> amount, frozen |-> FALSE, delegate |-> Nobody, allowance |-> 0]
  BY DEF NewAccount
<1>2. \A b \in Nat, f \in BOOLEAN, d \in Owner \cup {Nobody}, a \in Int :
        [balance |-> b, frozen |-> f, delegate |-> d, allowance |-> a] \in TokenAccount
  BY DEF TokenAccount
<1>3. [balance |-> amount, frozen |-> FALSE, delegate |-> Nobody, allowance |-> 0] \in TokenAccount
  <2>1. FALSE \in BOOLEAN /\ 0 \in Int /\ Nobody \in Owner \cup {Nobody}
    OBVIOUS
  <2> QED  BY Zenon, <1>2, <2>1
<1>4. acc.balance = amount
  BY <1>1
<1> QED  BY Zenon, <1>1, <1>3, <1>4

LEMMA CreateStep ==
  ASSUME IInv, NEW id \in TokenId, NEW amount \in Amounts, NEW m \in Authorities,
         NEW f \in FreezeAuths, CreateToken(id, amount, m, f)
  PROVE  StepOK
<1> DEFINE info == [supply |-> amount, mintAuthority |-> m, freezeAuth |-> f]
           acc == [NewAccount EXCEPT !.balance = amount]
           c == Creator[id]
           u == Put(store, tokenKey(id), info)
<1>1. amount \in Nat /\ c \in Owner /\ ~HasToken(id)
  BY TokenAssumption DEF CreateToken
<1>2. info \in TokenInfo /\ info.supply = amount
  BY <1>1 DEF TokenInfo
<1>3. acc \in TokenAccount /\ acc.balance = amount
  BY <1>1, FirstAccount
<1>4. TokenSaved(store, u, id, info)
  BY <1>2, PutToken DEF IInv
<1>5. SupplyIn(store, id) = 0 /\ \A o \in Owner : AccountIn(store, id, o) = NewAccount
  BY <1>1, NoTokenNoHoldings
<1>6. \A j \in TokenId : HoldingsIn(store, j) \in Int /\ SupplyIn(store, j) \in Int
  BY HoldingsTypes, SupplyTypes DEF IInv
<1> DEFINE e == [event |-> "Create", id |-> id, from |-> Nobody, to |-> c, amount |-> amount]
<1>7. e \in EventLog
  BY <1>1 DEF EventLog
<1>8. ASSUME amount > 0, store' = Put(u, accountKey(id, c), acc), UNCHANGED <<faults, off>>,
             emit("Create", id, Nobody, c, amount)
      PROVE  StepOK
  <2>1. AccountSaved(u, store', id, c, acc)
    <3> HIDE DEF u, acc, c, info
    <3>1. StoreOK(u) /\ Has(u, tokenKey(id))
      BY <1>4 DEF TokenSaved
    <3> QED  BY <1>1, <1>3, <1>8, <3>1, PutAccount
  <2>2. ChannelOK' /\ (Len(eventCh) # EventCap =>
                         Len(eventCh') > Len(eventCh) /\ eventCh'[Len(eventCh')] = e)
    BY <1>7, <1>8, EmitTells DEF IInv
  <2> HIDE DEF u, acc, c, info
  <2>3. AccountIn(u, id, c).balance = 0 /\ NewAccount.balance = 0
    BY <1>1, <1>4, <1>5 DEF TokenSaved, NewAccount
  <2>4. IInv'
    <3>1. \A j \in TokenId : HoldingsIn(store', j) - SupplyIn(store', j) =
                              HoldingsIn(store, j) - SupplyIn(store, j)
      BY <1>1, <1>2, <1>3, <1>4, <1>5, <1>6, <2>1, <2>3 DEF AccountSaved, TokenSaved
    <3>2. StoreOK(store')
      BY <2>1 DEF AccountSaved
    <3> QED  BY <1>8, <2>2, <3>1, <3>2, BalancedStep
  <2>5. \A j \in TokenId, o \in Owner : AccountIn(store', j, o) =
          IF j = id /\ o = c THEN acc ELSE AccountIn(store, j, o)
    BY <1>4, <2>1 DEF AccountSaved, TokenSaved
  <2>6. EventsTell
    <3> SUFFICES ASSUME NEW j \in TokenId, NEW o \in Owner, Len(eventCh) # EventCap,
                        AccountIn(store', j, o).balance # AccountIn(store, j, o).balance
                 PROVE  LET g == eventCh'[Len(eventCh')] IN
                          /\ Len(eventCh') > Len(eventCh) /\ g.id = j
                          /\ g.from # g.to =>
                               AccountIn(store', j, o).balance - AccountIn(store, j, o).balance = Told(g, o)
      BY Zenon DEF EventsTell
    <3>1. j = id /\ o = c
      BY <2>5
    <3>2. Told(e, o) = amount
      BY <1>1, <3>1, TokenAssumption DEF Told
    <3> QED  BY <1>1, <1>3, <1>5, <2>2, <2>3, <2>5, <3>1, <3>2
  <2>7. Keeps
    <3>1. ASSUME NEW j \in TokenId, NEW o \in Owner, AccountIn(store, j, o).frozen
          PROVE  AccountIn(store', j, o) = AccountIn(store, j, o)
      BY <1>5, <2>5, <3>1 DEF NewAccount
    <3>2. \A j \in TokenId, o \in Owner : AccountIn(store, j, o).balance \in Nat
      BY AccountTypes DEF IInv, TokenAccount
    <3> QED  BY <3>1, <3>2 DEF Keeps
  <2> QED  BY <2>4, <2>6, <2>7 DEF StepOK
<1>9. ASSUME ~(amount > 0), store' = u, UNCHANGED <<faults, off>>,
             emit("Create", id, Nobody, c, amount)
      PROVE  StepOK
  <2>1. ChannelOK'
    BY <1>7, <1>9, EmitTells DEF IInv
  <2> HIDE DEF u, acc, c, info
  <2>2. IInv'
    <3>1. \A j \in TokenId : HoldingsIn(store', j) - SupplyIn(store', j) =
                              HoldingsIn(store, j) - SupplyIn(store, j)
      BY <1>1, <1>2, <1>4, <1>5, <1>6, <1>9 DEF TokenSaved
    <3>2. StoreOK(store')
      BY <1>4, <1>9 DEF TokenSaved
    <3> QED  BY <1>9, <2>1, <3>1, <3>2, BalancedStep
  <2>3. \A j \in TokenId, o \in Owner : AccountIn(store', j, o) = AccountIn(store, j, o)
    BY <1>4, <1>9 DEF TokenSaved
  <2>4. EventsTell
    BY <2>3 DEF EventsTell
  <2>5. Keeps
    <3>1. \A j \in TokenId, o \in Owner : AccountIn(store, j, o).balance \in Nat
      BY AccountTypes DEF IInv, TokenAccount
    <3> QED  BY <2>3, <3>1 DEF Keeps
  <2> QED  BY <2>2, <2>4, <2>5 DEF StepOK
<1>10. ASSUME SaveHalf(tokenKey(id), info, id, -amount) PROVE StepOK
  <2>1. store' = u
    BY <1>10 DEF SaveHalf
  <2> HIDE DEF u, acc, c
  <2>2. \A j \in TokenId : HoldingsIn(store', j) - SupplyIn(store', j) =
          HoldingsIn(store, j) - SupplyIn(store, j) + IF j = id THEN -amount ELSE 0
    BY <1>1, <1>2, <1>4, <1>5, <1>6, <2>1 DEF TokenSaved
  <2>3. StoreOK(store') /\ -amount \in Int
    BY <1>1, <1>4, <2>1 DEF TokenSaved
  <2> HIDE DEF info
  <2> QED  BY <1>10, <2>2, <2>3, HalfStep
<1> QED  BY <1>8, <1>9, <1>10 DEF CreateToken, SaveBoth, PutBoth

\* The new record of the token, and the one account that is overwritten with it, part
\* balances and supply by what the old ones held.
LEMMA CreateAgainStep ==
  ASSUME IInv, NEW id \in TokenId, NEW amount \in Amounts, NEW m \in Authorities,
         NEW f \in FreezeAuths, CreateTokenAgain(id, amount, m, f)
  PROVE  StepOK
<1> DEFINE info == [supply |-> amount, mintAuthority |-> m, freezeAuth |-> f]
           acc == [NewAccount EXCEPT !.balance = amount]
           c == Creator[id]
           u == Put(store, tokenKey(id), info)
           old == AccountIn(store, id, c)
           e == [event |-> "Create", id |-> id, from |-> Nobody, to |-> c, amount |-> amount]
<1>1. amount \in Nat /\ c \in Owner /\ HasToken(id)
  BY TokenAssumption DEF CreateTokenAgain
<1>2. info \in TokenInfo /\ info.supply = amount
  BY <1>1 DEF TokenInfo
<1>3. acc \in TokenAccount /\ acc.balance = amount
  BY <1>1, FirstAccount
<1>4. TokenSaved(store, u, id, info)
  BY <1>2, PutToken DEF IInv
<1>5. Supply(id) = SupplyIn(store, id) /\ Balance(id, c) = old.balance
  BY <1>1, Reads DEF Supply, SupplyIn, HasToken, Info, Balance
<1>6. \A j \in TokenId : HoldingsIn(store, j) \in Int /\ SupplyIn(store, j) \in Int
  BY HoldingsTypes, SupplyTypes DEF IInv
<1>7. old \in TokenAccount /\ old.balance \in Nat
  <2>1. old \in TokenAccount
    BY <1>1, AccountTypes DEF IInv
  <2> QED  BY <2>1 DEF TokenAccount
<1>8. ChannelOK'
  <2>1. e \in EventLog
    BY <1>1 DEF EventLog
  <2>2. emit("Create", id, Nobody, c, amount)
    BY DEF CreateTokenAgain
  <2> QED  BY <2>1, <2>2, EmitTells DEF IInv
<1>9. \/ store' = Put(u, accountKey(id, c), acc) /\ Fault(id, Supply(id) - Balance(id, c))
      \/ amount = 0 /\ store' = u /\ Fault(id, Supply(id))
  BY DEF CreateTokenAgain, PutBoth
<1> HIDE DEF u, acc, c, info, old
<1>10. ASSUME store' = Put(u, accountKey(id, c), acc), Fault(id, Supply(id) - Balance(id, c))
       PROVE  StepOK
  <2> DEFINE delta == SupplyIn(store, id) - old.balance
  <2>1. AccountSaved(u, store', id, c, acc)
    <3>1. StoreOK(u) /\ Has(u, tokenKey(id))
      BY <1>4 DEF TokenSaved
    <3> QED  BY <1>1, <1>3, <1>10, <3>1, PutAccount
  <2>2. delta \in Int /\ Fault(id, delta)
    BY <1>5, <1>6, <1>7, <1>10
  <2>3. AccountIn(u, id, c) = old
    BY <1>1, <1>4 DEF TokenSaved, old
  <2>4. ASSUME NEW j \in TokenId
        PROVE  HoldingsIn(store', j) - SupplyIn(store', j) =
                 HoldingsIn(store, j) - SupplyIn(store, j) + IF j = id THEN delta ELSE 0
    <3>1. HoldingsIn(store', j) =
            HoldingsIn(store, j) + IF j = id THEN acc.balance - old.balance ELSE 0
      BY <1>4, <2>1, <2>3 DEF AccountSaved, TokenSaved
    <3>2. SupplyIn(store', j) = IF j = id THEN info.supply ELSE SupplyIn(store, j)
      BY <1>4, <2>1 DEF AccountSaved, TokenSaved
    <3> QED  BY <1>1, <1>2, <1>3, <1>6, <1>7, <3>1, <3>2
  <2>5. StoreOK(store')
    BY <2>1 DEF AccountSaved
  <2> HIDE DEF delta
  <2> QED  BY <1>8, <2>2, <2>4, <2>5, FaultStep
<1>11. ASSUME amount = 0, store' = u, Fault(id, Supply(id)) PROVE StepOK
  <2> DEFINE delta == SupplyIn(store, id)
  <2>1. delta \in Int /\ Fault(id, delta)
    BY <1>5, <1>6, <1>11
  <2>2. \A j \in TokenId : HoldingsIn(store', j) - SupplyIn(store', j) =
          HoldingsIn(store, j) - SupplyIn(store, j) + IF j = id THEN delta ELSE 0
    BY <1>2, <1>4, <1>6, <1>11 DEF TokenSaved
  <2>3. StoreOK(store')
    BY <1>4, <1>11 DEF TokenSaved
  <2> HIDE DEF delta
  <2> QED  BY <1>8, <2>1, <2>2, <2>3, FaultStep
<1> QED  BY <1>9, <1>10, <1>11

\* The end of Transfer and TransferFrom, for a debit that leaves a proper record and
\* that a frozen account can only suffer from its delegate.
LEMMA MoveStep ==
  ASSUME IInv, NEW id \in TokenId, NEW from \in Owner, NEW to \in Owner, NEW amount \in Nat,
         amount > 0, NEW event \in {"Transfer", "TransferFrom"}, NEW debited \in TokenAccount,
         HasAccount(id, from),
         debited.balance = Account(id, from).balance - amount,
         Account(id, from).frozen => debited.allowance = Account(id, from).allowance - amount,
         Move(event, id, from, to, amount, debited)
  PROVE  StepOK
<1> DEFINE old == AccountIn(store, id, from)
           credited == [AccountIn(store, id, to) EXCEPT !.balance = @ + amount]
           u == Put(store, accountKey(id, from), debited)
           e == [event |-> event, id |-> id, from |-> from, to |-> to, amount |-> amount]
<1>1. old = Account(id, from) /\ Has(store, tokenKey(id))
  BY Reads DEF IInv, StoreOK, HasAccount
<1>2. AccountSaved(store, u, id, from, debited)
  BY <1>1, PutAccount DEF IInv
<1>3. \A j \in TokenId, o \in Owner : AccountIn(store, j, o) \in TokenAccount
  BY AccountTypes DEF IInv
<1>4. credited \in TokenAccount /\ credited.balance = AccountIn(store, id, to).balance + amount
  BY <1>3 DEF TokenAccount
<1>5. \A j \in TokenId : HoldingsIn(store, j) \in Int /\ SupplyIn(store, j) \in Int
  BY HoldingsTypes, SupplyTypes DEF IInv
<1>6. debited.balance = old.balance - amount /\ old.balance \in Nat /\ debited.balance \in Nat
  BY <1>1, <1>3 DEF TokenAccount
<1>7. e \in EventLog
  BY DEF EventLog
<1>8. getOrCreateAccount(id, to) = AccountIn(store, id, to)
  BY Reads
<1>9. ASSUME store' = Put(u, accountKey(id, to), credited), UNCHANGED faults,
             off' = [off EXCEPT ![id] = @ + IF from = to THEN amount ELSE 0],
             emit(event, id, from, to, amount)
      PROVE  StepOK
  <2>1. AccountSaved(u, store', id, to, credited)
    <3> HIDE DEF u, credited
    <3>1. StoreOK(u) /\ Has(u, tokenKey(id))
      BY <1>1, <1>2 DEF AccountSaved, Grows
    <3> QED  BY <1>4, <1>9, <3>1, PutAccount
  <2>2. ChannelOK' /\ (Len(eventCh) # EventCap =>
                         Len(eventCh') > Len(eventCh) /\ eventCh'[Len(eventCh')] = e)
    BY <1>7, <1>9, EmitTells DEF IInv
  <2> HIDE DEF u, credited, old
  <2>3. AccountIn(u, id, to).balance =
          IF from = to THEN debited.balance ELSE AccountIn(store, id, to).balance
    BY <1>2 DEF AccountSaved
  <2>4. \A j \in TokenId, o \in Owner : AccountIn(store, j, o).balance \in Nat
    BY <1>3 DEF TokenAccount
  <2>5. IInv'
    <3> DEFINE delta == IF from = to THEN amount ELSE 0
    <3>1. HoldingsIn(store', id) = HoldingsIn(store, id) + delta
      <4>1. HoldingsIn(u, id) = HoldingsIn(store, id) + (debited.balance - old.balance)
        BY <1>2 DEF AccountSaved, old
      <4>2. HoldingsIn(store', id) =
              HoldingsIn(u, id) + (credited.balance - AccountIn(u, id, to).balance)
        BY <2>1 DEF AccountSaved
      <4>3. CASE from = to
        <5>1. AccountIn(store, id, to).balance = old.balance
          BY <4>3 DEF old
        <5> QED  BY <1>4, <1>5, <1>6, <2>3, <4>1, <4>2, <4>3, <5>1
      <4>4. CASE from # to
        BY <1>4, <1>5, <1>6, <2>3, <2>4, <4>1, <4>2, <4>4
      <4> QED  BY <4>3, <4>4
    <3>2. \A j \in TokenId : j # id => HoldingsIn(store', j) = HoldingsIn(store, j)
      BY <1>2, <1>5, <2>1 DEF AccountSaved
    <3>3. \A j \in TokenId : SupplyIn(store', j) = SupplyIn(store, j)
      BY <1>2, <2>1 DEF AccountSaved
    <3>4. \A j \in TokenId : HoldingsIn(store', j) - SupplyIn(store', j) =
            HoldingsIn(store, j) - SupplyIn(store, j) + IF j = id THEN delta ELSE 0
      BY <1>5, <3>1, <3>2, <3>3
    <3>5. StoreOK(store')
      BY <2>1 DEF AccountSaved
    <3>6. delta \in Int /\ off' = [off EXCEPT ![id] = @ + delta]
      BY <1>9
    <3> HIDE DEF delta
    <3> QED  BY <1>9, <2>2, <3>4, <3>5, <3>6, WholeStep
  <2>6. \A j \in TokenId, o \in Owner : AccountIn(store', j, o) =
          IF j = id /\ o = to THEN credited
          ELSE IF j = id /\ o = from THEN debited ELSE AccountIn(store, j, o)
    BY <1>2, <2>1 DEF AccountSaved
  <2>7. EventsTell
    <3> SUFFICES ASSUME NEW j \in TokenId, NEW o \in Owner, Len(eventCh) # EventCap,
                        AccountIn(store', j, o).balance # AccountIn(store, j, o).balance
                 PROVE  LET g == eventCh'[Len(eventCh')] IN
                          /\ Len(eventCh') > Len(eventCh) /\ g.id = j
                          /\ g.from # g.to =>
                               AccountIn(store', j, o).balance - AccountIn(store, j, o).balance = Told(g, o)
      BY Zenon DEF EventsTell
    <3>1. j = id /\ (o = from \/ o = to)
      BY <2>6
    <3>2. CASE from = to
      BY <2>2, <3>1, <3>2
    <3>3. CASE from # to /\ o = to
      <4>1. Told(e, o) = amount
        BY <3>3 DEF Told
      <4>2. AccountIn(store', j, o).balance - AccountIn(store, j, o).balance = amount
        BY <1>4, <2>4, <2>6, <3>1, <3>3
      <4> QED  BY <2>2, <3>1, <4>1, <4>2
    <3>4. CASE from # to /\ o = from
      <4>1. Told(e, o) = -amount
        BY <3>4 DEF Told
      <4>2. AccountIn(store', j, o).balance - AccountIn(store, j, o).balance = -amount
        BY <1>6, <2>6, <3>1, <3>4 DEF old
      <4> QED  BY <2>2, <3>1, <4>1, <4>2
    <3> QED  BY <3>1, <3>2, <3>3, <3>4
  <2>8. Keeps
    <3> SUFFICES ASSUME NEW j \in TokenId, NEW o \in Owner, AccountIn(store, j, o).frozen,
                        AccountIn(store', j, o).balance < AccountIn(store, j, o).balance
                 PROVE  AccountIn(store, j, o).allowance - AccountIn(store', j, o).allowance =
                          AccountIn(store, j, o).balance - AccountIn(store', j, o).balance
      BY DEF Keeps
    <3>1. j = id /\ o = from /\ o # to
      BY <1>4, <2>4, <2>6
    <3>2. AccountIn(store', j, o) = debited /\ AccountIn(store, j, o) = old
      BY <2>6, <3>1 DEF old
    <3>3. old.allowance \in Int
      BY <1>3 DEF TokenAccount, old
    <3> QED  BY <1>1, <1>6, <3>2, <3>3
  <2> QED  BY <2>5, <2>7, <2>8 DEF StepOK
<1>10. ASSUME SaveHalf(accountKey(id, from), debited, id, -amount) PROVE StepOK
  <2>1. store' = u
    BY <1>10 DEF SaveHalf
  <2> HIDE DEF u
  <2>2. \A j \in TokenId : HoldingsIn(store', j) - SupplyIn(store', j) =
          HoldingsIn(store, j) - SupplyIn(store, j) + IF j = id THEN -amount ELSE 0
    BY <1>2, <1>5, <1>6, <2>1 DEF AccountSaved
  <2>3. StoreOK(store') /\ -amount \in Int
    BY <1>2, <2>1 DEF AccountSaved
  <2> QED  BY <1>10, <2>2, <2>3, HalfStep
<1> QED  BY <1>8, <1>9, <1>10 DEF Move, SaveBoth, PutBoth

LEMMA TransferStep ==
  ASSUME IInv, NEW id \in TokenId, NEW from \in Owner, NEW to \in Owner, NEW amount \in Amounts,
         Transfer(id, from, to, amount)
  PROVE  StepOK
<1> DEFINE debited == [Account(id, from) EXCEPT !.balance = @ - amount]
<1>1. Account(id, from) \in TokenAccount /\ amount \in Nat /\ HasAccount(id, from) /\ amount > 0
      /\ Account(id, from).balance >= amount /\ ~Account(id, from).frozen
      /\ Move("Transfer", id, from, to, amount, debited)
  BY TokenAssumption DEF Transfer, IInv, StoreOK, HasAccount, Account
<1>2. debited \in TokenAccount /\ debited.balance = Account(id, from).balance - amount
  BY <1>1 DEF TokenAccount
<1> HIDE DEF debited
<1> QED  BY <1>1, <1>2, MoveStep

LEMMA TransferFromStep ==
  ASSUME IInv, NEW id \in TokenId, NEW d \in Owner, NEW from \in Owner, NEW to \in Owner,
         NEW amount \in Amounts, TransferFrom(id, d, from, to, amount)
  PROVE  StepOK
<1> DEFINE debited == [Account(id, from) EXCEPT !.balance = @ - amount, !.allowance = @ - amount]
<1>1. Account(id, from) \in TokenAccount /\ amount \in Nat /\ HasAccount(id, from) /\ amount > 0
      /\ Account(id, from).balance >= amount /\ Account(id, from).allowance >= amount
      /\ Move("TransferFrom", id, from, to, amount, debited)
  BY TokenAssumption DEF TransferFrom, IInv, StoreOK, HasAccount, Account
<1>2. debited \in TokenAccount /\ debited.balance = Account(id, from).balance - amount
      /\ debited.allowance = Account(id, from).allowance - amount
  <2> DEFINE r == [Account(id, from) EXCEPT !.balance = @ - amount]
             n == Account(id, from).allowance - amount
  <2>1. r \in TokenAccount /\ r.balance = Account(id, from).balance - amount /\ n \in Int
    BY <1>1 DEF TokenAccount
  <2>2. debited = [r EXCEPT !.allowance = n]
    OBVIOUS
  <2> HIDE DEF r, n
  <2>3. [r EXCEPT !.allowance = n] \in TokenAccount /\ [r EXCEPT !.allowance = n].balance = r.balance
        /\ [r EXCEPT !.allowance = n].allowance = n
    BY <2>1 DEF TokenAccount
  <2> QED  BY <2>1, <2>2, <2>3 DEF n
<1> HIDE DEF debited
<1> QED  BY <1>1, <1>2, MoveStep

\* Mint and Burn: one account and then the token move by delta, and an event names
\* the account.
LEMMA SupplyStep ==
  ASSUME IInv, NEW id \in TokenId, NEW o \in Owner, NEW amount \in Nat, amount > 0, HasToken(id),
         NEW delta \in {amount, -amount}, AccountIn(store, id, o).balance + delta >= 0,
         NEW acc, acc = [AccountIn(store, id, o) EXCEPT !.balance = @ + delta],
         NEW info, info = [Info(id) EXCEPT !.supply = @ + delta],
         NEW name \in {"Mint", "Burn"},
         NEW from, NEW to,
         IF delta = amount THEN from = Nobody /\ to = o ELSE from = o /\ to = Nobody,
         \/ /\ SaveBoth(accountKey(id, o), acc, tokenKey(id), info)
            /\ emit(name, id, from, to, amount)
            /\ UNCHANGED off
         \/ SaveHalf(accountKey(id, o), acc, id, delta)
  PROVE  StepOK
<1> DEFINE old == AccountIn(store, id, o)
           u == Put(store, accountKey(id, o), acc)
           e == [event |-> name, id |-> id, from |-> from, to |-> to, amount |-> amount]
<1>1. Has(store, tokenKey(id)) /\ Info(id) \in TokenInfo /\ Info(id).supply = SupplyIn(store, id)
  BY ReadsToken
<1>2. \A j \in TokenId, q \in Owner : AccountIn(store, j, q) \in TokenAccount
  BY AccountTypes DEF IInv
<1>3. acc \in TokenAccount /\ acc.balance = old.balance + delta /\ acc.allowance = old.allowance
      /\ old.balance \in Nat /\ delta \in Int
  BY <1>2 DEF TokenAccount
<1>4. info \in TokenInfo /\ info.supply = SupplyIn(store, id) + delta
  BY <1>1, <1>3 DEF TokenInfo
<1>5. AccountSaved(store, u, id, o, acc)
  BY <1>1, <1>3, PutAccount DEF IInv
<1>6. \A j \in TokenId : HoldingsIn(store, j) \in Int /\ SupplyIn(store, j) \in Int
  BY HoldingsTypes, SupplyTypes DEF IInv
<1>7. e \in EventLog
  BY DEF EventLog
<1> HIDE DEF u, e
<1>8. ASSUME store' = Put(u, tokenKey(id), info), UNCHANGED <<faults, off>>,
             emit(name, id, from, to, amount)
      PROVE  StepOK
  <2>1. TokenSaved(u, store', id, info)
    <3>1. StoreOK(u)
      BY <1>5 DEF AccountSaved
    <3> QED  BY <1>4, <1>8, <3>1, PutToken
  <2>2. ChannelOK' /\ (Len(eventCh) # EventCap =>
                         Len(eventCh') > Len(eventCh) /\ eventCh'[Len(eventCh')] = e)
    BY <1>7, <1>8, EmitTells DEF IInv, e
  <2>3. IInv'
    <3>1. \A j \in TokenId : HoldingsIn(store', j) =
                              HoldingsIn(store, j) + IF j = id THEN delta ELSE 0
      BY <1>3, <1>5, <1>6, <2>1 DEF AccountSaved, TokenSaved
    <3>2. \A j \in TokenId : SupplyIn(store', j) =
                              SupplyIn(store, j) + IF j = id THEN delta ELSE 0
      BY <1>3, <1>4, <1>5, <1>6, <2>1 DEF AccountSaved, TokenSaved
    <3>3. \A j \in TokenId : HoldingsIn(store', j) - SupplyIn(store', j) =
                              HoldingsIn(store, j) - SupplyIn(store, j)
      BY <1>3, <1>6, <3>1, <3>2
    <3>4. StoreOK(store')
      BY <2>1 DEF TokenSaved
    <3> QED  BY <1>8, <2>2, <3>3, <3>4, BalancedStep
  <2>4. \A j \in TokenId, q \in Owner : AccountIn(store', j, q) =
          IF j = id /\ q = o THEN acc ELSE AccountIn(store, j, q)
    BY <1>5, <2>1 DEF AccountSaved, TokenSaved
  <2>5. EventsTell
    <3> SUFFICES ASSUME NEW j \in TokenId, NEW q \in Owner, Len(eventCh) # EventCap,
                        AccountIn(store', j, q).balance # AccountIn(store, j, q).balance
                 PROVE  LET g == eventCh'[Len(eventCh')] IN
                          /\ Len(eventCh') > Len(eventCh) /\ g.id = j
                          /\ g.from # g.to =>
                               AccountIn(store', j, q).balance - AccountIn(store, j, q).balance = Told(g, q)
      BY Zenon DEF EventsTell
    <3>1. j = id /\ q = o
      BY <2>4
    <3>2. Told(e, o) = delta
      BY TokenAssumption DEF Told, e
    <3>3. AccountIn(store', j, q).balance - AccountIn(store, j, q).balance = delta
      <4>1. AccountIn(store', j, q) = acc /\ AccountIn(store, j, q) = old
        BY <2>4, <3>1
      <4> HIDE DEF old
      <4> QED  BY <1>3, <4>1
    <3> QED  BY <2>2, <3>1, <3>2, <3>3 DEF e
  <2>6. Keeps
    <3> SUFFICES ASSUME NEW j \in TokenId, NEW q \in Owner,
                        AccountIn(store', j, q).balance < AccountIn(store, j, q).balance
                 PROVE  SupplyIn(store, j) - SupplyIn(store', j) =
                          AccountIn(store, j, q).balance - AccountIn(store', j, q).balance
      BY DEF Keeps
    <3>1. j = id /\ q = o
      BY <1>2, <2>4 DEF TokenAccount
    <3>2. SupplyIn(store', id) = SupplyIn(store, id) + delta /\ SupplyIn(store, id) \in Int
      BY <1>4, <1>6, <2>1 DEF TokenSaved
    <3>3. AccountIn(store', j, q) = acc /\ AccountIn(store, j, q) = old
      BY <2>4, <3>1
    <3> HIDE DEF old
    <3> QED  BY <1>3, <3>1, <3>2, <3>3
  <2> QED  BY <2>3, <2>5, <2>6 DEF StepOK
<1>9. ASSUME SaveHalf(accountKey(id, o), acc, id, delta) PROVE StepOK
  <2>1. store' = u
    BY <1>9 DEF SaveHalf, u
  <2>2. \A j \in TokenId : HoldingsIn(store', j) - SupplyIn(store', j) =
          HoldingsIn(store, j) - SupplyIn(store, j) + IF j = id THEN delta ELSE 0
    BY <1>3, <1>5, <1>6, <2>1 DEF AccountSaved
  <2>3. StoreOK(store')
    BY <1>5, <2>1 DEF AccountSaved
  <2> QED  BY <1>3, <1>9, <2>2, <2>3, HalfStep
<1> QED  BY <1>8, <1>9 DEF SaveBoth, PutBoth, u

LEMMA MintStep ==
  ASSUME IInv, NEW id \in TokenId, NEW a \in Owner, NEW to \in Owner, NEW amount \in Amounts,
         Mint(id, a, to, amount)
  PROVE  StepOK
<1> DEFINE acc == [AccountIn(store, id, to) EXCEPT !.balance = @ + amount]
           info == [Info(id) EXCEPT !.supply = @ + amount]
<1>1. amount \in Nat /\ amount > 0 /\ HasToken(id)
  BY TokenAssumption DEF Mint
<1>2. \/ /\ SaveBoth(accountKey(id, to), acc, tokenKey(id), info)
         /\ emit("Mint", id, Nobody, to, amount)
         /\ UNCHANGED off
      \/ SaveHalf(accountKey(id, to), acc, id, amount)
  BY Reads DEF Mint
<1>3. AccountIn(store, id, to).balance + amount >= 0
  BY <1>1, AccountTypes DEF IInv, TokenAccount
<1> HIDE DEF acc, info
<1>4. acc = [AccountIn(store, id, to) EXCEPT !.balance = @ + amount]
      /\ info = [Info(id) EXCEPT !.supply = @ + amount]
  BY DEF acc, info
<1> QED  BY <1>1, <1>2, <1>3, <1>4, SupplyStep

LEMMA BurnStep ==
  ASSUME IInv, NEW id \in TokenId, NEW a \in Owner, NEW from \in Owner, NEW amount \in Amounts,
         Burn(id, a, from, amount)
  PROVE  StepOK
<1> DEFINE acc == [AccountIn(store, id, from) EXCEPT !.balance = @ + (-amount)]
           info == [Info(id) EXCEPT !.supply = @ + (-amount)]
<1>1. amount \in Nat /\ amount > 0 /\ HasToken(id) /\ HasAccount(id, from)
      /\ Account(id, from).balance >= amount
  BY TokenAssumption DEF Burn
<1>2. Account(id, from) = AccountIn(store, id, from) /\ Info(id) \in TokenInfo
      /\ AccountIn(store, id, from) \in TokenAccount
  BY <1>1, Reads, ReadsToken, AccountTypes DEF IInv
<1>3. /\ [Account(id, from) EXCEPT !.balance = @ - amount] = acc
      /\ [Info(id) EXCEPT !.supply = @ - amount] = info
  <2>1. AccountIn(store, id, from).balance - amount = AccountIn(store, id, from).balance + (-amount)
        /\ Info(id).supply - amount = Info(id).supply + (-amount)
    BY <1>1, <1>2 DEF TokenAccount, TokenInfo
  <2> QED  BY <1>2, <2>1
<1>4. \/ /\ SaveBoth(accountKey(id, from), acc, tokenKey(id), info)
         /\ emit("Burn", id, from, Nobody, amount)
         /\ UNCHANGED off
      \/ SaveHalf(accountKey(id, from), acc, id, -amount)
  BY <1>3 DEF Burn
<1>5. AccountIn(store, id, from).balance + (-amount) >= 0 /\ -amount # amount
  BY <1>1, <1>2 DEF TokenAccount
<1> HIDE DEF acc, info
<1>6. acc = [AccountIn(store, id, from) EXCEPT !.balance = @ + (-amount)]
      /\ info = [Info(id) EXCEPT !.supply = @ + (-amount)]
  BY DEF acc, info
<1> QED  BY <1>1, <1>4, <1>5, <1>6, SupplyStep

\* Approve and FreezeAccount: an account is replaced by one of the same balance.
LEMMA SameBalanceStep ==
  ASSUME IInv, NEW id \in TokenId, NEW o \in Owner, NEW acc \in TokenAccount,
         Has(store, tokenKey(id)), acc.balance = AccountIn(store, id, o).balance,
         store' = Put(store, accountKey(id, o), acc), ChannelOK', UNCHANGED <<faults, off>>
  PROVE  StepOK
<1>1. AccountSaved(store, store', id, o, acc)
  BY PutAccount DEF IInv
<1>2. \A j \in TokenId, q \in Owner : AccountIn(store, j, q).balance \in Nat
  BY AccountTypes DEF IInv, TokenAccount
<1>3. \A j \in TokenId, q \in Owner : AccountIn(store', j, q).balance = AccountIn(store, j, q).balance
  BY <1>1 DEF AccountSaved
<1>4. IInv'
  <2>1. \A j \in TokenId : HoldingsIn(store, j) \in Int /\ SupplyIn(store, j) \in Int
    BY HoldingsTypes, SupplyTypes DEF IInv
  <2>2. \A j \in TokenId : HoldingsIn(store', j) - SupplyIn(store', j) =
                            HoldingsIn(store, j) - SupplyIn(store, j)
    BY <1>1, <1>2, <2>1 DEF AccountSaved
  <2>3. StoreOK(store')
    BY <1>1 DEF AccountSaved
  <2> QED  BY <2>2, <2>3, BalancedStep
<1>5. EventsTell
  BY <1>3 DEF EventsTell
<1>6. Keeps
  BY <1>2, <1>3 DEF Keeps
<1> QED  BY <1>4, <1>5, <1>6 DEF StepOK

LEMMA ApproveStep ==
  ASSUME IInv, NEW id \in TokenId, NEW o \in Owner, NEW d \in Delegates, NEW amount \in Amounts,
         Approve(id, o, d, amount)
  PROVE  StepOK
<1> DEFINE acc == [Account(id, o) EXCEPT !.delegate = d, !.allowance = amount]
           r == [Account(id, o) EXCEPT !.delegate = d]
<1>1. amount \in Int /\ d \in Owner \cup {Nobody}
      /\ HasAccount(id, o) /\ store' = Put(store, accountKey(id, o), acc)
      /\ UNCHANGED <<faults, off>> /\ emit("Approve", id, o, d, amount)
  BY TokenAssumption DEF Approve
<1>2. Account(id, o) = AccountIn(store, id, o) /\ Account(id, o) \in TokenAccount
      /\ Has(store, tokenKey(id))
  BY <1>1, Reads, AccountTypes DEF IInv, StoreOK, HasAccount
<1>3. r \in TokenAccount /\ r.balance = Account(id, o).balance
  BY <1>1, <1>2 DEF TokenAccount
<1>4. acc = [r EXCEPT !.allowance = amount]
  OBVIOUS
<1>5. acc \in TokenAccount /\ acc.balance = Account(id, o).balance
  <2> HIDE DEF acc, r
  <2> QED  BY <1>1, <1>3, <1>4 DEF TokenAccount
<1>6. [event |-> "Approve", id |-> id, from |-> o, to |-> d, amount |-> amount] \in EventLog
  BY <1>1 DEF EventLog
<1>7. ChannelOK'
  BY <1>1, <1>6, EmitTells DEF IInv
<1> HIDE DEF acc
<1> QED  BY <1>1, <1>2, <1>5, <1>7, SameBalanceStep

LEMMA FreezeStep ==
  ASSUME IInv, NEW id \in TokenId, NEW a \in Owner, NEW o \in Owner, NEW freeze \in BOOLEAN,
         FreezeAccount(id, a, o, freeze)
  PROVE  StepOK
<1> DEFINE acc == [AccountIn(store, id, o) EXCEPT !.frozen = freeze]
<1>1. Has(store, tokenKey(id)) /\ store' = Put(store, accountKey(id, o), acc)
      /\ UNCHANGED <<eventCh, faults, off>>
  BY Reads, ReadsToken DEF FreezeAccount
<1>2. acc \in TokenAccount /\ acc.balance = AccountIn(store, id, o).balance
  BY AccountTypes DEF IInv, TokenAccount
<1>3. ChannelOK'
  BY <1>1 DEF IInv, ChannelOK
<1> HIDE DEF acc
<1> QED  BY <1>1, <1>2, <1>3, SameBalanceStep

LEMMA SetMintAuthorityStep ==
  ASSUME IInv, NEW id \in TokenId, NEW m \in Authorities, NEW n \in Authorities,
         SetMintAuthority(id, m, n)
  PROVE  StepOK
<1> DEFINE info == [Info(id) EXCEPT !.mintAuthority = n]
<1>1. HasToken(id) /\ store' = Put(store, tokenKey(id), info) /\ UNCHANGED <<eventCh, faults, off>>
  BY DEF SetMintAuthority
<1>2. Info(id) \in TokenInfo /\ Info(id).supply = SupplyIn(store, id)
  BY <1>1, ReadsToken
<1>3. info \in TokenInfo /\ info.supply = SupplyIn(store, id)
  BY <1>2 DEF TokenInfo
<1> HIDE DEF info
<1>4. TokenSaved(store, store', id, info)
  BY <1>1, <1>3, PutToken DEF IInv
<1>5. ChannelOK'
  BY <1>1 DEF IInv, ChannelOK
<1>6. IInv'
  <2>1. \A j \in TokenId : HoldingsIn(store, j) \in Int /\ SupplyIn(store, j) \in Int
    BY HoldingsTypes, SupplyTypes DEF IInv
  <2>2. \A j \in TokenId : HoldingsIn(store', j) - SupplyIn(store', j) =
                            HoldingsIn(store, j) - SupplyIn(store, j)
    BY <1>3, <1>4, <2>1 DEF TokenSaved
  <2>3. StoreOK(store')
    BY <1>4 DEF TokenSaved
  <2> QED  BY <1>1, <1>5, <2>2, <2>3, BalancedStep
<1>7. \A j \in TokenId, q \in Owner : AccountIn(store', j, q) = AccountIn(store, j, q)
  BY <1>4 DEF TokenSaved
<1>8. EventsTell
  BY <1>7 DEF EventsTell
<1>9. Keeps
  <2>1. \A j \in TokenId, q \in Owner : AccountIn(store, j, q).balance \in Nat
    BY AccountTypes DEF IInv, TokenAccount
  <2> QED  BY <1>7, <2>1 DEF Keeps
<1> QED  BY <1>6, <1>8, <1>9 DEF StepOK

\* Taking an event, and no step at all, leave the store.
LEMMA StoreKeptStep ==
  ASSUME IInv, UNCHANGED <<store, faults, off>>, ChannelOK'
  PROVE  StepOK
<1>1. IInv'
  BY DEF IInv
<1>2. \A j \in TokenId, q \in Owner : AccountIn(store, j, q).balance \in Nat
  BY AccountTypes DEF IInv, TokenAccount
<1>3. EventsTell
  BY DEF EventsTell
<1>4. Keeps
  BY <1>2 DEF Keeps
<1> QED  BY <1>1, <1>3, <1>4 DEF StepOK

LEMMA EveryStep == IInv /\ [Next]_vars => StepOK
<1> SUFFICES ASSUME IInv, [Next]_vars PROVE StepOK
  OBVIOUS
<1>1. ASSUME NEW id \in TokenId, Call(id) PROVE StepOK
  BY <1>1, CreateStep, CreateAgainStep, TransferStep, TransferFromStep, MintStep, BurnStep, ApproveStep,
     FreezeStep, SetMintAuthorityStep DEF Call
<1>2. CASE Receive
  <2>1. ChannelOK'
    BY <1>2, TokenAssumption DEF Receive, IInv, ChannelOK
  <2> QED  BY <1>2, <2>1, StoreKeptStep DEF Receive
<1>3. CASE UNCHANGED vars
  <2>1. ChannelOK'
    BY <1>3 DEF vars, IInv, ChannelOK
  <2> QED  BY <1>3, <2>1, StoreKeptStep DEF vars
<1> QED  BY <1>1, <1>2, <1>3 DEF Next

----------------------------------------------------------------------------
(***************************************************************************)
(* The theorems                                                            *)
(***************************************************************************)

LEMMA Invariance == Spec => []IInv
<1>1. IInv /\ [Next]_vars => IInv'
  BY EveryStep DEF StepOK
<1> QED  BY <1>1, IInvInit, PTL DEF Spec

\* No sequence of calls, whole or cut short by a failure and for amounts of any sign,
\* makes a balance negative (token.go checks signs and balances before it debits), and
\* the channel keeps its capacity.  An allowance and a supply are integers of any sign.
THEOREM TypeCorrect == Spec => []TypeOK
BY Invariance, IInvImplies, PTL

\* The balances of every token add up to its supply, but for the transfers to oneself
\* and the failures of the storage that token.go's calls meet, by exactly what each
\* parts them.
THEOREM SupplyAccountedCorrect == Spec => []SupplyAccounted
BY Invariance, IInvImplies, PTL

\* While the channel of events has room, every change of a balance is told by an event.
THEOREM EventsTellBalancesCorrect == Spec => EventsTellBalances
<1>1. IInv /\ [Next]_vars =>
        [\A id \in TokenId, o \in Owner :
           Balance(id, o)' # Balance(id, o) =>
             \/ faults' # faults
             \/ Len(eventCh) = EventCap
             \/ LET e == eventCh'[Len(eventCh')] IN
                  /\ Len(eventCh') > Len(eventCh) /\ e.id = id
                  /\ e.from # e.to => Balance(id, o)' - Balance(id, o) = Told(e, o)]_vars
  BY EveryStep DEF StepOK, EventsTell, Balance, getOrCreateAccount, AccountIn
<1> QED  BY <1>1, Invariance, PTL DEF Spec, EventsTellBalances

\* Nothing is ever deleted.
LEMMA AccountsStay ==
  ASSUME [Next]_vars
  PROVE  DOMAIN store \subseteq DOMAIN store'
<1>1. \A s, k, v : DOMAIN s \subseteq DOMAIN Put(s, k, v)
  BY DEF Put
<1>2. \A s, k, v, l, w : DOMAIN s \subseteq DOMAIN PutBoth(s, k, v, l, w)
  BY DEF PutBoth, Put
<1>3. ASSUME NEW id \in TokenId, Call(id) PROVE DOMAIN store \subseteq DOMAIN store'
  <2> USE <1>1, <1>2 DEF SaveBoth, SaveHalf
  <2>6. ASSUME NEW amount, NEW m, NEW f, CreateTokenAgain(id, amount, m, f)
        PROVE  DOMAIN store \subseteq DOMAIN store'
    BY <2>6 DEF CreateTokenAgain
  <2>1. ASSUME NEW amount, NEW m, NEW f, CreateToken(id, amount, m, f)
        PROVE  DOMAIN store \subseteq DOMAIN store'
    BY <2>1 DEF CreateToken
  <2>2. ASSUME NEW event, NEW a, NEW b, NEW amount, NEW debited, Move(event, id, a, b, amount, debited)
        PROVE  DOMAIN store \subseteq DOMAIN store'
    BY <2>2 DEF Move
  <2>3. ASSUME NEW a, NEW b, NEW amount, NEW d, Transfer(id, a, b, amount) \/ TransferFrom(id, d, a, b, amount)
        PROVE  DOMAIN store \subseteq DOMAIN store'
    BY <2>2, <2>3 DEF Transfer, TransferFrom
  <2>4. ASSUME NEW a, NEW b, NEW amount, Mint(id, a, b, amount) \/ Burn(id, a, b, amount)
        PROVE  DOMAIN store \subseteq DOMAIN store'
    BY <2>4 DEF Mint, Burn
  <2>5. ASSUME NEW a, NEW b, NEW x,
               Approve(id, a, b, x) \/ FreezeAccount(id, a, b, x) \/ SetMintAuthority(id, a, b)
        PROVE  DOMAIN store \subseteq DOMAIN store'
    BY <2>5 DEF Approve, FreezeAccount, SetMintAuthority
  <2> QED  BY <1>3, <2>1, <2>3, <2>4, <2>5, <2>6 DEF Call
<1> QED  BY <1>3 DEF Next, Receive, vars

\* A frozen account loses only what its allowance loses with it, what is burnt, or what
\* a call that met a failure took.
THEOREM FrozenKeepsCorrect == Spec => FrozenKeeps
<1>1. ASSUME IInv, [Next]_vars, NEW id \in TokenId, NEW o \in Owner, HasAccount(id, o),
             Account(id, o).frozen, Balance(id, o)' < Balance(id, o)
      PROVE  LET lost == Balance(id, o) - Balance(id, o)' IN
               \/ Account(id, o).allowance - Account(id, o)'.allowance = lost
               \/ Supply(id) - Supply(id)' = lost
               \/ faults' # faults
  <2>1. Keeps /\ IInv'
    BY <1>1, EveryStep DEF StepOK
  <2>2. /\ Balance(id, o) = AccountIn(store, id, o).balance
        /\ Balance(id, o)' = AccountIn(store', id, o).balance
        /\ Account(id, o) = AccountIn(store, id, o)
        /\ Supply(id) = SupplyIn(store, id) /\ Supply(id)' = SupplyIn(store', id)
    BY <1>1 DEF Balance, getOrCreateAccount, AccountIn, Account, HasAccount, GetOr, Supply,
                SupplyIn, HasToken, Info
  <2>3. Account(id, o)' = AccountIn(store', id, o)
    BY <1>1, AccountsStay DEF Account, HasAccount, Has, AccountIn, GetOr
  <2> QED  BY <1>1, <2>1, <2>2, <2>3 DEF Keeps
<1>2. IInv /\ [Next]_vars =>
        [\A id \in TokenId, o \in Owner :
           HasAccount(id, o) /\ Account(id, o).frozen /\ Balance(id, o)' < Balance(id, o) =>
             LET lost == Balance(id, o) - Balance(id, o)' IN
               \/ Account(id, o).allowance - Account(id, o)'.allowance = lost
               \/ Supply(id) - Supply(id)' = lost
               \/ faults' # faults]_vars
  BY <1>1
<1> QED  BY <1>2, Invariance, PTL DEF Spec, FrozenKeeps
=============================================================================
