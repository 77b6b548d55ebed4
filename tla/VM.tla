--------------------------------- MODULE VM ---------------------------------
(***************************************************************************)
(* The contract virtual machine of gpl/vm: Execute, the interpreter's loop *)
(* (machine.run) and the storage of a contract that outlives its calls.    *)
(*                                                                         *)
(* Words on the stack are big.Ints: integers of any size and sign.  They   *)
(* are cut to WordLen bytes only on their way into storage or memory.  The *)
(* sizes of the machine (WordLen = 32, MaxMemory, the 64 bits of an int)   *)
(* are constants; opcodes and gas costs are those of the code.             *)
(*                                                                         *)
(* Return data and the contents of logs are left out: nothing reads them   *)
(* back.  A panic of the Go runtime is an outcome of a call.               *)
(***************************************************************************)
EXTENDS Integers, Sequences

CONSTANTS Program,     \* the codes a contract may have, as sequences of bytes
          GasLimit,    \* gas limits of calls
          MaxGas, MaxCodeSize, MaxMemory,
          MemCap,      \* the capacity append gave to a memory of MaxMemory bytes
          WordLen,     \* bytes of a word
          IntSize,     \* number of values of a uint64
          MaxShift,    \* the longest left shift that fits into the host's memory
          Env(_),      \* host: what ORIGIN, CALLER, TIMESTAMP ... push
          Balance(_),  \* host: the balance of an address
          Digest,      \* the integers that SHA3 may push
          MaxCalls     \* bound on the calls of a contract

ASSUME VMAssumption ==
  /\ {MaxGas, MaxCodeSize, MaxMemory, MemCap, MaxShift, MaxCalls} \subseteq Nat
  /\ {WordLen, IntSize} \subseteq Nat \ {0}
  /\ MaxMemory <= MemCap
  /\ GasLimit \subseteq Nat /\ Digest \subseteq Int
  /\ Program \subseteq Seq(0 .. 255)

VARIABLES
  code,      \* ContractAccount.Code
  storage,   \* ContractAccount.Storage: words by word
  calls,     \* number of calls so far
  status,    \* none, run, or how the last call ended: ok, failed, panic
  limit,     \* gasLimit of the call, after Execute has capped it
  gasLeft, pc, stack, memory, logs,  \* machine; memory up to its capacity, logs counted
  exact,     \* history: the value stored last under each key, as integers
  tame       \* history: all keys and values stored were words

vars == <<code, storage, calls, status, limit, gasLeft, pc, stack, memory, logs, exact, tame>>

----------------------------------------------------------------------------
(***************************************************************************)
(* Opcodes                                                                 *)
(***************************************************************************)

OpCode ==
  [STOP |-> 0, ADD |-> 1, SUB |-> 2, MUL |-> 3, DIV |-> 4, MOD |-> 5, LT |-> 6, GT |-> 7,
   EQ |-> 8, AND |-> 9, OR |-> 10, NOT |-> 11, XOR |-> 12, SHL |-> 13, SHR |-> 14,
   PUSH1 |-> 16, PUSH32 |-> 17, POP |-> 18, DUP |-> 19, SWAP |-> 20,
   MLOAD |-> 32, MSTORE |-> 33, SLOAD |-> 48, SSTORE |-> 49,
   JUMP |-> 64, JUMPI |-> 65, JUMPDEST |-> 66, PC |-> 67, GAS |-> 68,
   CALL |-> 80, RETURN |-> 81, REVERT |-> 82, LOG0 |-> 96, LOG1 |-> 97,
   ORIGIN |-> 112, CALLER |-> 113, CALLVALUE |-> 114, ADDRESS |-> 115, BALANCE |-> 116,
   BLOCKNUMBER |-> 117, TIMESTAMP |-> 118, SHA3 |-> 128]

\* The name of each byte's instruction.
Name ==
  [b \in 0 .. 255 |-> IF \E op \in DOMAIN OpCode : OpCode[op] = b
                      THEN CHOOSE op \in DOMAIN OpCode : OpCode[op] = b
                      ELSE "INVALID"]

Binary == {"ADD", "SUB", "MUL", "DIV", "MOD", "LT", "GT", "EQ", "AND", "OR", "XOR", "SHR"}
Host == {"ORIGIN", "CALLER", "CALLVALUE", "ADDRESS", "BLOCKNUMBER", "TIMESTAMP"}

\* Mutant of gasCost: pushing what the machine knows is free.
gasCostFreePush(op) ==
  CASE op \in {"STOP", "RETURN", "REVERT"} -> 0
    [] op = "SLOAD" -> 200
    [] op = "SSTORE" -> 5000
    [] op \in {"JUMP", "JUMPI", "JUMPDEST"} -> 8
    [] op \in {"PC", "GAS"} -> 0
    [] OTHER -> 3

\* Mutant of gasCost: what only moves the machine about is free.
gasCostFreeMoves(op) ==
  CASE op \in {"STOP", "RETURN", "REVERT", "PUSH1", "JUMP", "JUMPI", "JUMPDEST"} -> 0
    [] op = "SLOAD" -> 200
    [] op = "SSTORE" -> 5000
    [] OTHER -> 3

gasCost(op) ==
  CASE op \in {"STOP", "RETURN", "REVERT"} -> 0
    [] op \in (Binary \ {"MUL", "DIV", "MOD"}) \cup {"NOT", "SHL", "PUSH1", "PUSH32", "POP",
                                                     "DUP", "SWAP", "MLOAD", "MSTORE"} -> 3
    [] op \in {"MUL", "DIV", "MOD"} -> 5
    [] op = "SLOAD" -> 200
    [] op = "SSTORE" -> 5000
    [] op \in {"JUMP", "JUMPI", "JUMPDEST"} -> 8
    [] op = "LOG0" -> 375
    [] op = "LOG1" -> 750
    [] op = "SHA3" -> 30
    [] op = "CALL" -> 700
    [] OTHER -> 1

\* How many words the instruction pops (or looks at).
Arity(op) ==
  CASE op \in Binary \cup {"SHL", "SWAP", "MSTORE", "SSTORE", "JUMPI",
                           "RETURN", "REVERT", "LOG0", "SHA3"} -> 2
    [] op \in {"NOT", "POP", "DUP", "MLOAD", "SLOAD", "JUMP", "BALANCE"} -> 1
    [] op = "LOG1" -> 3
    [] op = "CALL" -> 7
    [] OTHER -> 0

\* Bytes of the instruction after its opcode.
Immediate(op) == CASE op = "PUSH1" -> 1 [] op = "PUSH32" -> WordLen [] OTHER -> 0

----------------------------------------------------------------------------
(***************************************************************************)
(* Words                                                                   *)
(***************************************************************************)

\* b to the power of n.
Power(b, n) ==
  LET p[k \in 0 .. n] == IF k = 0 THEN 1 ELSE b * p[k - 1]
  IN p[n]

Word == 0 .. Power(256, WordLen) - 1

ASSUME HostAssumption ==
  /\ \A op \in Host : Env(op) \in Int
  /\ \A w \in Word : Balance(w) \in Int

Magnitude(x) == IF x < 0 THEN -x ELSE x

\* Mutants of padTo32: the bytes go to the wrong end; long values are not cut.
padTo32Left(x) ==
  LET left[n \in Nat] == IF n = 0 \/ 256 * n \notin Word THEN n ELSE 256 * n
  IN left[Magnitude(x)]

padTo32Uncut(x) == Magnitude(x)

\* The bytes of an integer have no sign, and of too many the first are kept.
padTo32(x) ==
  LET cut[n \in Nat] == IF n \in Word THEN n ELSE cut[n \div 256]
  IN cut[Magnitude(x)]

\* int(x.Uint64()): the low bits of the magnitude, as a signed integer.
ToInt(x) ==
  LET u == Magnitude(x) % IntSize
  IN IF 2 * u < IntSize THEN u ELSE u - IntSize

\* big.Int.Rsh: a shift of as many places as the magnitude of n has in its low bits.
ShiftRight(x, n) ==
  LET places == Magnitude(n) % IntSize
      r[k \in 0 .. places] == IF k = 0 THEN x ELSE r[k - 1] \div 2
  IN r[places]

\* big.Int's And, Or and Xor: two's complement with as many bits as it takes.
Bitwise(op, a, b) ==
  LET Combined(n) == CASE op = "AND" -> n \div 2 [] op = "OR" -> (n + 1) \div 2 [] OTHER -> (n % 2)
      r[w \in Int \X Int] ==
        IF w \in {0, -1} \X {0, -1} THEN -Combined((w[1] % 2) + (w[2] % 2))
        ELSE 2 * r[<<w[1] \div 2, w[2] \div 2>>] + Combined((w[1] % 2) + (w[2] % 2))
  IN r[<<a, b>>]

Truth(p) == IF p THEN 1 ELSE 0

\* The word a binary instruction pushes; Div and Mod are Euclidean, and 0 for b = 0.
Result(op, a, b) ==
  CASE op = "ADD" -> a + b
    [] op = "SUB" -> a - b
    [] op = "MUL" -> a * b
    [] op = "DIV" -> IF b = 0 THEN 0 ELSE IF b > 0 THEN a \div b ELSE -(a \div (-b))
    [] op = "MOD" -> IF b = 0 THEN 0 ELSE a % Magnitude(b)
    [] op = "LT" -> Truth(a < b)
    [] op = "GT" -> Truth(a > b)
    [] op = "EQ" -> Truth(a = b)
    [] op \in {"AND", "OR", "XOR"} -> Bitwise(op, a, b)
    [] op = "SHR" -> ShiftRight(b, a)

\* A slice of size bytes at off: growMemory stops at MaxMemory, and Go slices up to
\* the capacity.
InMemory(off, size) == off >= 0 /\ size >= 0 /\ off + size <= MemCap

\* The number that a sequence of bytes spells.
SetBytes(s) ==
  LET n[i \in 0 .. Len(s)] == IF i = 0 THEN 0 ELSE (256 * n[i - 1]) + s[i]
  IN n[Len(s)]

Bytes(off, size) == [i \in 1 .. size |-> memory[off + i - 1]]

\* The map f with v under the key k.
Put(f, k, v) == [x \in DOMAIN f \cup {k} |-> IF x = k THEN v ELSE f[x]]

StorageGet(key) == IF key \in DOMAIN storage THEN storage[key] ELSE 0

----------------------------------------------------------------------------
(***************************************************************************)
(* Execute                                                                 *)
(***************************************************************************)

EmptyMemory == [i \in 0 .. MemCap - 1 |-> 0]

Init ==
  /\ code \in Program
  /\ storage = << >> /\ exact = << >> /\ tame = TRUE
  /\ calls = 0 /\ status = "none"
  /\ limit = 0 /\ gasLeft = 0
  /\ pc = 0 /\ stack = << >> /\ memory = EmptyMemory /\ logs = 0

\* The host may recover from a panic and call again.
CanCall == status # "run" /\ calls < MaxCalls

\* A new machine for the call.
Execute(gas) ==
  /\ CanCall /\ Len(code) <= MaxCodeSize
  /\ calls' = calls + 1
  /\ status' = "run"
  /\ limit' = IF gas > MaxGas THEN MaxGas ELSE gas
  /\ gasLeft' = limit'
  /\ pc' = 0 /\ stack' = << >> /\ memory' = EmptyMemory /\ logs' = 0
  /\ UNCHANGED <<code, storage, exact, tame>>

ExecuteTooLarge ==
  /\ CanCall /\ Len(code) > MaxCodeSize
  /\ calls' = calls + 1
  /\ status' = "failed"
  /\ UNCHANGED <<code, storage, limit, gasLeft, pc, stack, memory, logs, exact, tame>>

----------------------------------------------------------------------------
(***************************************************************************)
(* machine.run                                                             *)
(***************************************************************************)

Running == status = "run"

\* The instruction at pc; past the last byte there is none.
Op == IF pc < Len(code) THEN Name[code[pc + 1]] ELSE "END"

Top(n) == stack[Len(stack) - n]          \* the n-th word below the top
Popped(n) == SubSeq(stack, 1, Len(stack) - n)

\* The gas of the instruction is there and is taken.
Charge ==
  /\ gasLeft >= gasCost(Op)
  /\ gasLeft' = gasLeft - gasCost(Op)

\* An instruction with its gas, its operands and its immediate bytes; past the
\* last byte is no instruction.
Runs(ops) ==
  /\ Running /\ Op \in ops
  /\ Charge
  /\ Len(stack) >= Arity(Op)
  /\ pc + Immediate(Op) < Len(code)
  /\ UNCHANGED <<code, calls, limit>>

\* The instruction leaves s on the stack, and the next one follows.
Continue(s) ==
  /\ stack' = s
  /\ pc' = pc + 1 + Immediate(Op)
  /\ UNCHANGED status

End(result) == status' = result /\ UNCHANGED <<pc, stack>>

storageVars == <<storage, exact, tame>>

RunOff ==
  /\ Running /\ Op = "END"
  /\ End("ok")
  /\ UNCHANGED <<code, calls, limit, gasLeft, memory, logs, storageVars>>

OutOfGas ==
  /\ Running /\ Op # "END" /\ gasLeft < gasCost(Op)
  /\ End("failed")
  /\ UNCHANGED <<code, calls, limit, gasLeft, memory, logs, storageVars>>

\* An unknown opcode, too few operands, or an immediate that the code ends in.  What
\* was popped before is of no account.
BadInstruction ==
  /\ Running /\ Op # "END"
  /\ Charge
  /\ \/ Op = "INVALID"
     \/ Len(stack) < Arity(Op)
     \/ pc + Immediate(Op) >= Len(code)
  /\ End("failed")
  /\ UNCHANGED <<code, calls, limit, memory, logs, storageVars>>

Stop == Runs({"STOP"}) /\ End("ok") /\ UNCHANGED <<memory, logs, storageVars>>

Calculate ==
  /\ Runs(Binary)
  /\ Continue(Append(Popped(2), Result(Op, Top(1), Top(0))))
  /\ UNCHANGED <<memory, logs, storageVars>>

Not ==
  /\ Runs({"NOT"})
  /\ Continue(Append(Popped(1), -Top(0) - 1))
  /\ UNCHANGED <<memory, logs, storageVars>>

\* The word grows by as many bits as the magnitude of the other one says.
ShiftLeft ==
  LET n == Magnitude(Top(1)) % IntSize
  IN /\ Runs({"SHL"})
     /\ IF Top(0) = 0 \/ n <= MaxShift
        THEN Continue(Append(Popped(2), IF Top(0) = 0 THEN 0 ELSE Top(0) * Power(2, n)))
        ELSE End("panic")
     /\ UNCHANGED <<memory, logs, storageVars>>

Push ==
  /\ Runs({"PUSH1", "PUSH32"})
  /\ Continue(Append(stack, SetBytes(SubSeq(code, pc + 2, pc + 1 + Immediate(Op)))))
  /\ UNCHANGED <<memory, logs, storageVars>>

Shuffle ==
  /\ Runs({"POP", "DUP", "SWAP", "JUMPDEST"})
  /\ Continue(CASE Op = "POP" -> Popped(1)
                [] Op = "DUP" -> Append(stack, Top(0))
                [] Op = "SWAP" -> Popped(2) \o <<Top(0), Top(1)>>
                [] Op = "JUMPDEST" -> stack)
  /\ UNCHANGED <<memory, logs, storageVars>>

\* What the machine and its host know.
Tell ==
  /\ Runs({"PC", "GAS"} \cup Host)
  /\ Continue(Append(stack, CASE Op = "PC" -> pc [] Op = "GAS" -> gasLeft' [] OTHER -> Env(Op)))
  /\ UNCHANGED <<memory, logs, storageVars>>

\* The address is the end of the word.
TellBalance ==
  /\ Runs({"BALANCE"})
  /\ Continue(Append(Popped(1), Balance(padTo32(Top(0)))))
  /\ UNCHANGED <<memory, logs, storageVars>>

MLoad ==
  LET off == ToInt(Top(0))
  IN /\ Runs({"MLOAD"})
     /\ IF InMemory(off, WordLen)
        THEN Continue(Append(Popped(1), SetBytes(Bytes(off, WordLen))))
        ELSE End("panic")
     /\ UNCHANGED <<memory, logs, storageVars>>

\* The copy of a value that is longer than a word starts below the slice.
MStore ==
  LET off == ToInt(Top(1))
      val == Magnitude(Top(0))
  IN /\ Runs({"MSTORE"})
     /\ IF InMemory(off, WordLen) /\ val \in Word
        THEN /\ memory' = [i \in DOMAIN memory |->
                             IF i \in off .. off + WordLen - 1
                             THEN (val \div Power(256, off + WordLen - 1 - i)) % 256
                             ELSE memory[i]]
             /\ Continue(Popped(2))
        ELSE End("panic") /\ UNCHANGED memory
     /\ UNCHANGED <<logs, storageVars>>

SLoad ==
  /\ Runs({"SLOAD"})
  /\ Continue(Append(Popped(1), StorageGet(padTo32(Top(0)))))
  /\ UNCHANGED <<memory, logs, storageVars>>

\* The storage is the contract's own map: what follows in the call does not undo it.
SStore ==
  LET key == Top(1)
      val == Top(0)
  IN /\ Runs({"SSTORE"})
     /\ storage' = Put(storage, padTo32(key), padTo32(val))
     /\ exact' = Put(exact, key, val)
     /\ tame' = (tame /\ {key, val} \subseteq Word)
     /\ Continue(Popped(2))
     /\ UNCHANGED <<memory, logs>>

\* Mutant of JumpDest: any byte of the code will do.
JumpDestAny(x) == ToInt(x) \in 0 .. Len(code) - 1

JumpDest(x) == ToInt(x) \in 0 .. Len(code) - 1 /\ Name[code[ToInt(x) + 1]] = "JUMPDEST"

JumpTo(x, s) ==
  IF JumpDest(x) THEN pc' = ToInt(x) /\ stack' = s /\ UNCHANGED status ELSE End("failed")

Jump ==
  /\ Runs({"JUMP"})
  /\ JumpTo(Top(0), Popped(1))
  /\ UNCHANGED <<memory, logs, storageVars>>

JumpIf ==
  /\ Runs({"JUMPI"})
  /\ IF Top(0) # 0 THEN JumpTo(Top(1), Popped(2)) ELSE Continue(Popped(2))
  /\ UNCHANGED <<memory, logs, storageVars>>

\* RETURN, REVERT, LOG and SHA3 slice the memory.
HasSlice == InMemory(ToInt(Top(1)), ToInt(Top(0)))

\* REVERT ends the call with an error, and undoes nothing.
Return ==
  /\ Runs({"RETURN", "REVERT"})
  /\ End(IF ~HasSlice THEN "panic" ELSE IF Op = "RETURN" THEN "ok" ELSE "failed")
  /\ UNCHANGED <<memory, logs, storageVars>>

Log ==
  /\ Runs({"LOG0", "LOG1"})
  /\ IF HasSlice THEN Continue(Popped(Arity(Op))) /\ logs' = logs + 1
                 ELSE End("panic") /\ UNCHANGED logs
  /\ UNCHANGED <<memory, storageVars>>

\* The hash of the slice: which digest follows from which bytes is of no account.
Sha3 ==
  /\ Runs({"SHA3"})
  /\ IF HasSlice THEN \E w \in Digest : Continue(Append(Popped(2), w))
                 ELSE End("panic")
  /\ UNCHANGED <<memory, logs, storageVars>>

\* A stub: seven operands for a zero.
Call ==
  /\ Runs({"CALL"})
  /\ Continue(Append(Popped(7), 0))
  /\ UNCHANGED <<memory, logs, storageVars>>

Instruction ==
  \/ RunOff \/ OutOfGas \/ BadInstruction \/ Stop
  \/ Calculate \/ Not \/ ShiftLeft \/ Push \/ Shuffle \/ Tell \/ TellBalance
  \/ MLoad \/ MStore \/ SLoad \/ SStore
  \/ Jump \/ JumpIf \/ Return \/ Log \/ Sha3 \/ Call

Next ==
  \/ \E gas \in GasLimit : Execute(gas)
  \/ ExecuteTooLarge
  \/ Instruction

\* Execute is a function call: it runs on.  Nobody has to call.
Spec == Init /\ [][Next]_vars /\ WF_vars(Instruction)

----------------------------------------------------------------------------
(***************************************************************************)
(* Properties                                                              *)
(***************************************************************************)

\* Types: storage holds words whatever the integers on the stack are, and gas is
\* never overdrawn.
TypeOK ==
  /\ code \in Seq(0 .. 255)
  /\ calls \in 0 .. MaxCalls
  /\ status \in {"none", "run", "ok", "failed", "panic"}
  /\ limit \in 0 .. MaxGas /\ gasLeft \in 0 .. limit
  /\ pc \in 0 .. Len(code)
  /\ stack \in Seq(Int)
  /\ memory \in [0 .. MemCap - 1 -> 0 .. 255]
  /\ logs \in Nat
  /\ DOMAIN storage \subseteq Word /\ \A k \in DOMAIN storage : storage[k] \in Word

\* "Gas-metered": the gas a call has used pays for what it has taken from the host:
\* each word on the stack (ErrStackOverflow is never returned: gas is the only
\* bound), and each log.
GasMeters == Len(stack) + 375 * logs <= limit - gasLeft

\* "Gas-metered" too: no code runs for ever, its jumps included.
Halts == Running ~> ~Running

\* The bytes of c where instructions start, reading it from its first byte on.
Boundary(c) ==
  LET from[i \in Nat] ==
        {i} \cup IF i < Len(c) THEN from[i + 1 + Immediate(Name[c[i + 1]])] ELSE {}
  IN from[0]

\* Jumps and immediates keep the machine aligned: if no byte that looks like a
\* JUMPDEST is an immediate, then what runs is an instruction of the code, read from
\* its first byte on, and never data.
Aligned ==
  (\A i \in 0 .. Len(code) - 1 : Name[code[i + 1]] = "JUMPDEST" => i \in Boundary(code))
    => pc \in Boundary(code)

\* A contract reads what it stored last, in this call or an earlier one, also one
\* that failed or panicked, and 0 where it stored nothing: as long as keys and values are words.
StoreExact ==
  tame => \A k \in DOMAIN exact \cup DOMAIN storage :
            StorageGet(padTo32(k)) = IF k \in DOMAIN exact THEN exact[k] ELSE 0
=============================================================================
