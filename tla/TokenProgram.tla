---------------------------- MODULE TokenProgram ----------------------------
(***************************************************************************)
(* token.Program (gpl/token/token.go), the GYDS-20 token engine.           *)
(*                                                                         *)
(* Every operation holds p.mu from its first read to its return, so a call *)
(* is one step.  A call reads its records, checks them, and then saves one *)
(* or two records with separate Puts; when the second Put fails, or the    *)
(* process stops between the two, the first one stays.  A call that is     *)
(* refused, or whose first Put or whose Get fails, changes nothing and is  *)
(* not a step; a failing Has is taken for a token that is not there.  One  *)
(* call meets one failure at most.                                         *)
(* A saved call puts an event into eventCh unless the channel is full.     *)
(***************************************************************************)
EXTENDS Integers, Sequences, FiniteSets, Functions, Store

CONSTANTS TokenId,      \* identifiers of deriveTokenID
          Creator,      \* the creator that each identifier is derived from
          Owner,        \* addresses
          Nobody,       \* the empty address: no authority, no delegate
          Authorities,  \* the mint authorities that callers name
          FreezeAuths,  \* the freeze authorities that they name
          Delegates,    \* the delegates that they approve
          Amounts,      \* the amounts of calls, negative ones included
          EventCap,     \* capacity of eventCh
          MaxFaults,    \* bound on the calls that meet a failure of the storage
          MaxTokens     \* bound on balances, supplies and what parts them

\* Owner is finite: finitely many addresses ever appear in calls.
ASSUME TokenAssumption ==
  /\ IsFiniteSet(Owner)
  /\ Creator \in [TokenId -> Owner]
  /\ Nobody \notin Owner /\ Authorities \cup FreezeAuths \cup Delegates \subseteq Owner \cup {Nobody}
  /\ Amounts \subseteq Int
  /\ EventCap \in Nat \ {0} /\ MaxFaults \in Nat /\ MaxTokens \in Nat

VARIABLES
  store,    \* p.store: TokenInfo and TokenAccount records under their keys
  eventCh,  \* p.eventCh
  faults,   \* how many calls met a failure of the storage and changed records
  off       \* history: how far each token's balances were driven from its supply
            \* by transfers to the sender itself and by failures

vars == <<store, eventCh, faults, off>>

tokenKey(id) == <<"info", id>>
accountKey(id, o) == <<"acc", id, o>>

TokenInfo == [supply: Int, mintAuthority: Authorities, freezeAuth: FreezeAuths]

\* Nothing keeps an allowance from being negative: Approve stores any amount.
TokenAccount == [balance: Nat, frozen: BOOLEAN, delegate: Owner \cup {Nobody}, allowance: Int]

EventLog == [event: {"Create", "Transfer", "Mint", "Burn", "Approve", "TransferFrom"},
             id: TokenId, from: Owner \cup {Nobody}, to: Owner \cup {Nobody}, amount: Int]

NewAccount == [balance |-> 0, frozen |-> FALSE, delegate |-> Nobody, allowance |-> 0]

Init ==
  /\ store = <<>>
  /\ eventCh = <<>>
  /\ faults = 0
  /\ off = [id \in TokenId |-> 0]

----------------------------------------------------------------------------

HasToken(id) == Has(store, tokenKey(id))
HasAccount(id, o) == Has(store, accountKey(id, o))

Info(id) == store[tokenKey(id)]
Account(id, o) == store[accountKey(id, o)]

getOrCreateAccount(id, o) == GetOr(store, accountKey(id, o), NewAccount)

Balance(id, o) == getOrCreateAccount(id, o).balance

Supply(id) == IF HasToken(id) THEN Info(id).supply ELSE 0

\* emit: a full channel loses the event.
emit(name, id, from, to, amount) ==
  eventCh' =
    IF Len(eventCh) < EventCap
    THEN Append(eventCh, [event |-> name, id |-> id, from |-> from, to |-> to, amount |-> amount])
    ELSE eventCh

\* Both records of a call are saved.
SaveBoth(key1, value1, key2, value2) ==
  /\ store' = PutBoth(store, key1, value1, key2, value2)
  /\ UNCHANGED faults

\* A failure of the storage.  The token's balances gain delta on its supply.
Fault(id, delta) ==
  /\ faults < MaxFaults
  /\ faults' = faults + 1
  /\ off' = [off EXCEPT ![id] = @ + delta]

\* Only the first is: the caller gets the storage's error, or the process is
\* gone, and no event is sent.
SaveHalf(key, value, id, delta) ==
  /\ Fault(id, delta)
  /\ store' = Put(store, key, value)
  /\ UNCHANGED eventCh

----------------------------------------------------------------------------

\* CreateToken: the token, and the creator's account unless the supply is zero.
CreateToken(id, supply, mintAuth, freezeAuth) ==
  LET info == [supply |-> supply, mintAuthority |-> mintAuth, freezeAuth |-> freezeAuth]
      acc == [NewAccount EXCEPT !.balance = supply]
      key == accountKey(id, Creator[id])
  IN /\ supply >= 0
     /\ ~HasToken(id)
     /\ \/ /\ IF supply > 0 THEN SaveBoth(tokenKey(id), info, key, acc)
                            ELSE store' = Put(store, tokenKey(id), info) /\ UNCHANGED faults
           /\ emit("Create", id, Nobody, Creator[id], supply)
           /\ UNCHANGED off
        \/ supply > 0 /\ SaveHalf(tokenKey(id), info, id, -supply)

\* CreateToken drops the error of Has: when that fails, a token that is there is
\* created once more, over its record and over its creator's account.
CreateTokenAgain(id, supply, mintAuth, freezeAuth) ==
  LET info == [supply |-> supply, mintAuthority |-> mintAuth, freezeAuth |-> freezeAuth]
      acc == [NewAccount EXCEPT !.balance = supply]
  IN /\ supply >= 0
     /\ HasToken(id)
     /\ \/ /\ supply > 0
           /\ store' = PutBoth(store, tokenKey(id), info, accountKey(id, Creator[id]), acc)
           /\ Fault(id, Supply(id) - Balance(id, Creator[id]))
        \/ /\ supply = 0
           /\ store' = Put(store, tokenKey(id), info)
           /\ Fault(id, Supply(id))
     /\ emit("Create", id, Nobody, Creator[id], supply)

\* Mutant of Move: the event names the two accounts the wrong way round.
MoveReportsSwapped(event, id, from, to, amount, debited) ==
  LET credited == [getOrCreateAccount(id, to) EXCEPT !.balance = @ + amount]
  IN \/ /\ SaveBoth(accountKey(id, from), debited, accountKey(id, to), credited)
        /\ off' = [off EXCEPT ![id] = @ + IF from = to THEN amount ELSE 0]
        /\ emit(event, id, to, from, amount)
     \/ SaveHalf(accountKey(id, from), debited, id, -amount)

\* The end of Transfer and TransferFrom.  The recipient's account was read before
\* the sender's is saved: on a transfer to the sender itself it is the old one.
Move(event, id, from, to, amount, debited) ==
  LET credited == [getOrCreateAccount(id, to) EXCEPT !.balance = @ + amount]
  IN \/ /\ SaveBoth(accountKey(id, from), debited, accountKey(id, to), credited)
        /\ off' = [off EXCEPT ![id] = @ + IF from = to THEN amount ELSE 0]
        /\ emit(event, id, from, to, amount)
     \/ SaveHalf(accountKey(id, from), debited, id, -amount)

\* Mutant of Transfer: only the recipient is asked for.
TransferFromFrozen(id, from, to, amount) ==
  /\ amount > 0
  /\ HasAccount(id, from)
  /\ Account(id, from).balance >= amount
  /\ ~getOrCreateAccount(id, to).frozen
  /\ Move("Transfer", id, from, to, amount, [Account(id, from) EXCEPT !.balance = @ - amount])

Transfer(id, from, to, amount) ==
  /\ amount > 0
  /\ HasAccount(id, from)
  /\ ~Account(id, from).frozen
  /\ Account(id, from).balance >= amount
  /\ ~getOrCreateAccount(id, to).frozen
  /\ Move("Transfer", id, from, to, amount, [Account(id, from) EXCEPT !.balance = @ - amount])

\* Neither account may be frozen for a Transfer; TransferFrom does not ask.
TransferFrom(id, delegate, from, to, amount) ==
  /\ amount > 0
  /\ HasAccount(id, from)
  /\ Account(id, from).delegate = delegate
  /\ Account(id, from).allowance >= amount
  /\ Account(id, from).balance >= amount
  /\ Move("TransferFrom", id, from, to, amount,
          [Account(id, from) EXCEPT !.balance = @ - amount, !.allowance = @ - amount])

\* Mutant of Mint: the token's record is not saved.
MintAccountOnly(id, authority, to, amount) ==
  /\ amount > 0
  /\ HasToken(id)
  /\ Info(id).mintAuthority # Nobody /\ Info(id).mintAuthority = authority
  /\ store' = Put(store, accountKey(id, to), [getOrCreateAccount(id, to) EXCEPT !.balance = @ + amount])
  /\ emit("Mint", id, Nobody, to, amount)
  /\ UNCHANGED <<faults, off>>

Mint(id, authority, to, amount) ==
  LET credited == [getOrCreateAccount(id, to) EXCEPT !.balance = @ + amount]
      info == [Info(id) EXCEPT !.supply = @ + amount]
  IN /\ amount > 0
     /\ HasToken(id)
     /\ Info(id).mintAuthority # Nobody /\ Info(id).mintAuthority = authority
     /\ \/ /\ SaveBoth(accountKey(id, to), credited, tokenKey(id), info)
           /\ emit("Mint", id, Nobody, to, amount)
           /\ UNCHANGED off
        \/ SaveHalf(accountKey(id, to), credited, id, amount)

\* Mutant of Burn: the balance is not compared with the amount.
BurnUnchecked(id, authority, from, amount) ==
  LET debited == [Account(id, from) EXCEPT !.balance = @ - amount]
      info == [Info(id) EXCEPT !.supply = @ - amount]
  IN /\ amount > 0
     /\ HasToken(id)
     /\ authority = from \/ authority = Info(id).mintAuthority
     /\ HasAccount(id, from)
     /\ SaveBoth(accountKey(id, from), debited, tokenKey(id), info)
     /\ emit("Burn", id, from, Nobody, amount)
     /\ UNCHANGED off

Burn(id, authority, from, amount) ==
  LET debited == [Account(id, from) EXCEPT !.balance = @ - amount]
      info == [Info(id) EXCEPT !.supply = @ - amount]
  IN /\ amount > 0
     /\ HasToken(id)
     /\ authority = from \/ authority = Info(id).mintAuthority
     /\ HasAccount(id, from)
     /\ Account(id, from).balance >= amount
     /\ \/ /\ SaveBoth(accountKey(id, from), debited, tokenKey(id), info)
           /\ emit("Burn", id, from, Nobody, amount)
           /\ UNCHANGED off
        \/ SaveHalf(accountKey(id, from), debited, id, -amount)

\* Approve replaces what was approved before, by whatever amount it is given: no
\* amount at all counts as zero, and a negative one is stored.
Approve(id, owner, delegate, amount) ==
  /\ HasAccount(id, owner)
  /\ store' = Put(store, accountKey(id, owner),
                  [Account(id, owner) EXCEPT !.delegate = delegate, !.allowance = amount])
  /\ emit("Approve", id, owner, delegate, amount)
  /\ UNCHANGED <<faults, off>>

\* FreezeAccount creates the account when there is none; it sends no event.
FreezeAccount(id, freezeAuth, target, freeze) ==
  /\ HasToken(id)
  /\ Info(id).freezeAuth # Nobody /\ Info(id).freezeAuth = freezeAuth
  /\ store' = Put(store, accountKey(id, target),
                  [getOrCreateAccount(id, target) EXCEPT !.frozen = freeze])
  /\ UNCHANGED <<eventCh, faults, off>>

\* SetMintAuthority compares and replaces, the empty authority included; it sends
\* no event.
SetMintAuthority(id, currentAuth, newAuth) ==
  /\ HasToken(id)
  /\ Info(id).mintAuthority = currentAuth
  /\ store' = Put(store, tokenKey(id), [Info(id) EXCEPT !.mintAuthority = newAuth])
  /\ UNCHANGED <<eventCh, faults, off>>

\* Whoever holds Events() takes an event.
Receive ==
  /\ eventCh # <<>>
  /\ eventCh' = Tail(eventCh)
  /\ UNCHANGED <<store, faults, off>>

----------------------------------------------------------------------------

\* The bound MaxTokens: calls that would take a number beyond it are not made.
WithinBounds ==
  \A id \in TokenId :
    /\ Supply(id) \in -MaxTokens .. MaxTokens /\ off[id] \in -MaxTokens .. MaxTokens
    /\ \A o \in Owner : HasAccount(id, o) => Account(id, o).balance <= MaxTokens

Call(id) ==
  \/ \E amount \in Amounts, m \in Authorities, f \in FreezeAuths :
       CreateToken(id, amount, m, f) \/ CreateTokenAgain(id, amount, m, f)
  \/ \E a, b \in Owner, amount \in Amounts :
       \/ Transfer(id, a, b, amount)
       \/ \E d \in Owner : TransferFrom(id, d, a, b, amount)
       \/ Mint(id, a, b, amount)
       \/ Burn(id, a, b, amount)
  \/ \E a \in Owner, d \in Delegates, amount \in Amounts : Approve(id, a, d, amount)
  \/ \E a, b \in Owner, freeze \in BOOLEAN : FreezeAccount(id, a, b, freeze)
  \/ \E m, n \in Authorities : SetMintAuthority(id, m, n)

Next ==
  /\ (\E id \in TokenId : Call(id)) \/ Receive
  /\ WithinBounds'

Spec == Init /\ [][Next]_vars

----------------------------------------------------------------------------
(***************************************************************************)
(* Properties                                                              *)
(***************************************************************************)

\* Records have the types of TokenInfo and TokenAccount, so whatever amounts the
\* callers name, no balance is ever negative (an allowance may be, and so may a
\* supply: see TransferMoves); and the channel respects its capacity.
TypeOK ==
  /\ DOMAIN store \subseteq {tokenKey(id) : id \in TokenId}
                            \cup {accountKey(id, o) : id \in TokenId, o \in Owner}
  /\ \A id \in TokenId :
       /\ HasToken(id) => Info(id) \in TokenInfo
       /\ \A o \in Owner : HasAccount(id, o) => Account(id, o) \in TokenAccount
  /\ eventCh \in Seq(EventLog) /\ Len(eventCh) <= EventCap
  /\ faults \in 0 .. MaxFaults
  /\ off \in [TokenId -> Int]

Holdings(id) == SumFunction([o \in Owner |-> Balance(id, o)])

\* After any sequence of calls the balances of a token add up to its total supply,
\* but for transfers from an account to itself and calls that saved one record of
\* two, each of which is off by exactly its amount, and for a token created over
\* itself, which is off by the old supply less the balance it overwrote.
SupplyAccounted == \A id \in TokenId : Holdings(id) = Supply(id) + off[id]

\* What an event says happened to the balance of o.
Told(e, o) ==
  IF e.event = "Approve" THEN 0
  ELSE (IF e.to = o THEN e.amount ELSE 0) - (IF e.from = o THEN e.amount ELSE 0)

\* A reader of the events who saw them all knows every balance: an event tells the
\* change of every balance of its token, and no balance changes without one while
\* the channel has room, but for a transfer to oneself (the event tells of no
\* change, the balance grows) and a call that met a failure.
EventsTellBalances ==
  [][\A id \in TokenId, o \in Owner :
       Balance(id, o)' # Balance(id, o) =>
         \/ faults' # faults
         \/ Len(eventCh) = EventCap
         \/ LET e == eventCh'[Len(eventCh')] IN
              /\ Len(eventCh') > Len(eventCh) /\ e.id = id
              /\ e.from # e.to => Balance(id, o)' - Balance(id, o) = Told(e, o)]_vars

\* Freezing holds tokens but for two ways out: a frozen account loses only what its
\* allowance loses with it (its delegate, whom Approve may name even now, took it),
\* what is burnt, or what a call that met a failure took.
FrozenKeeps ==
  [][\A id \in TokenId, o \in Owner :
       HasAccount(id, o) /\ Account(id, o).frozen /\ Balance(id, o)' < Balance(id, o) =>
         LET lost == Balance(id, o) - Balance(id, o)' IN
           \/ Account(id, o).allowance - Account(id, o)'.allowance = lost
           \/ Supply(id) - Supply(id)' = lost
           \/ faults' # faults]_vars

\* "Transfer moves amount of tokenId from -> to": a call of Transfer that saved
\* both its records leaves what all the owners hold together as it was.
TransferMoves ==
  [][\A id \in TokenId, a, b \in Owner, amount \in Amounts :
       Transfer(id, a, b, amount) /\ faults' = faults => Holdings(id)' = Holdings(id)]_vars
=============================================================================
