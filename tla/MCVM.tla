-------------------------------- MODULE MCVM --------------------------------
(***************************************************************************)
(* VM on small machines: words of two bytes, a memory of two words, and    *)
(* codes of every instruction in every small situation, with the loops,    *)
(* jumps and stores that take more.                                        *)
(***************************************************************************)
EXTENDS VM

Code(ops) == [i \in DOMAIN ops |-> IF ops[i] \in DOMAIN OpCode THEN OpCode[ops[i]] ELSE 255]

Opcodes == DOMAIN OpCode \cup {"?"}

Byte(n) == <<OpCode["PUSH1"], n>>
Long(m, n) == <<OpCode["PUSH32"], m, n>>

\* Any instruction, and any two, on an empty stack.
Bare == {Code(<<x, y>>) : x, y \in Opcodes}

\* Any instruction on two small words or a JUMPDEST among the data, and what comes next.
OnTwo ==
  {Byte(a) \o Byte(b) \o Code(<<x, y>>) :
     a \in {0, 3, 66}, b \in {0, 1, 5}, x \in Opcodes, y \in {"JUMPDEST", "SLOAD", "SSTORE", "PUSH32"}}

\* Stores and loads with keys and values inside and outside of the words.
Minus == Byte(0) \o Byte(1) \o Code(<<"SUB">>)
Large == Long(1, 0) \o Code(<<"DUP", "MUL">>)

Stores ==
  {k \o v \o Code(<<"SSTORE">>) \o l \o Code(<<x>>) :
     k, v, l \in {Byte(1), Long(1, 2), Minus, Large}, x \in {"SLOAD", "REVERT"}}

Memories ==
  {Byte(a) \o v \o Code(<<"MSTORE">>) \o Byte(b) \o x :
     a, b \in 0 .. 4, v \in {Long(1, 2), Large}, x \in {Code(<<"MLOAD">>), Byte(1) \o Code(<<"LOG0">>)}}

\* Loops that jump back, with what they leave on the stack each time.
Loops ==
  {Code(<<"JUMPDEST">>) \o Code(x) \o Byte(0) \o Code(<<"JUMP">>) :
     x \in {<< >>, <<"PC">>, <<"PC", "PC", "SSTORE">>}}
  \cup {Code(<<"JUMPDEST">>) \o Byte(0) \o Code(<<"GAS", "JUMPI">>),
        Byte(0) \o Byte(0) \o Byte(0) \o Code(<<"LOG1", "PC">>),
        Code(<<"PC", "PC", "PC", "PC", "PC", "PC", "PC", "CALL", "PC">>)}

MCProgram == Bare \cup OnTwo \cup Stores \cup Memories \cup Loops
             \cup {[i \in 1 .. 17 |-> OpCode["PC"]]}

MCEnv(op) == 7
MCBalance(word) == word % 2
=============================================================================
