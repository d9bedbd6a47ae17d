----------------------------- MODULE ZKContract -----------------------------
(***************************************************************************)
(* A ZK contract at work (src/lib.rs, src/vm.rs, bin/zkvm.rs): parameters  *)
(* are set, the machine runs the operations over a field of P elements, a  *)
(* Groth16 proof is made from the values it leaves, and the contract       *)
(* verifies it against named public values.  The trusted setup has been    *)
(* done and is loaded, as bin/zkvm.rs does before either: a contract whose *)
(* setup fails (vm.rs:285) goes no further.                                *)
(*   Groth16 itself is external: a proof verifies for the public inputs it *)
(* was made with, in their order, if every constraint was satisfied.       *)
(***************************************************************************)
EXTENDS ContractCompiler

CONSTANTS
  Sources,       \* source texts
  P,             \* the order of the field, a prime
  Bits,          \* of a scalar: 256 in the code
  MaxAttempts    \* bound on calls of prove()

ASSUME FieldAssumption ==
  /\ P \in Nat \ {0, 1} /\ \A x \in 1 .. P - 1 : \E y \in 1 .. P - 1 : (x * y) % P = 1
  /\ Bits \in Nat /\ 2 ^ Bits >= P
ASSUME ConstantsAssumption ==
  IsList(Constants) /\ \A i \in DOMAIN Constants : Constants[i].value \in 0 .. P - 1
ASSUME SourcesAssumption == \A s \in Sources : IsSource(s)
ASSUME AttemptAssumption == MaxAttempts \in Nat

VARIABLES
  source, contract,   \* the source, and the contract that was loaded
  params,             \* ZKContract.params: from indices to scalars
  status,             \* "idle", "running", an error, "panic", "proved", "verified", "rejected"
  pc, aux, local,     \* the operation that is next, the aux values, the local stack
  proof,              \* the last ZKProof: public values by name, and the Groth16 proof
  attempts,           \* calls of prove() that took the parameters
  input, latest       \* history: the parameters taken, and those set since

machine == <<pc, aux, local>>
vars == <<source, contract, params, status, machine, proof, attempts, input, latest>>

None == "none"

Scalars == 0 .. P - 1
InverseOf(x) == CHOOSE y \in Scalars : (x * y) % P = 1
Without(f) == [x \in {} |-> f]
Empty == Without(0)

----------------------------------------------------------------------------
(* The circuit, and what the setup needs of it.                            *)

\* A linear combination: the coefficients of the variables, 0 standing for one.
Zero == [v \in 0 .. Len(contract.alloc) |-> 0]
Fresh == [coeff |-> 1, lc |-> [n \in 0 .. 2 |-> Zero]]

Plus(state, n, v, c) == [state EXCEPT !.lc[n][v] = (@ + c) % P]

Instruct(state, c) ==
  CASE c.op = "Add"  -> Plus(state, c.lc, c.args[1], state.coeff)
    [] c.op = "Sub"  -> Plus(state, c.lc, c.args[1], -state.coeff)
    [] c.op = "AddOne" -> Plus(state, c.lc, 0, 1)
    [] c.op = "SubOne" -> Plus(state, c.lc, 0, -1)
    [] c.op = "AddCoeff" -> Plus(state, c.lc, c.args[2], contract.constants[c.args[1]])
    [] c.op = "AddConstant" -> Plus(state, c.lc, 0, contract.constants[c.args[1]])
    [] c.op = "Enforce" -> Fresh
    [] c.op = "LcCoeffReset" -> [state EXCEPT !.coeff = 1]
    [] c.op = "LcCoeffDouble" -> [state EXCEPT !.coeff = (2 * @) % P]

\* The constraint system: what lc0, lc1, lc2 are at each enforce.
Synthesize ==
  {FoldLeft(Instruct, Fresh, SubSeq(contract.constraints, 1, i - 1)).lc :
     i \in {j \in DOMAIN contract.constraints : contract.constraints[j].op = "Enforce"}}

\* Groth16 makes no parameters for a circuit with a private variable that has
\* no weight in any constraint; a constant that is not there ends the program.
SetUp ==
  /\ \A i \in DOMAIN contract.constraints :
       contract.constraints[i].op \in {"AddCoeff", "AddConstant"} =>
         contract.constraints[i].args[1] \in DOMAIN contract.constants
  /\ \A v \in DOMAIN contract.alloc :
       contract.alloc[v].public \/ \E e \in Synthesize, n \in 0 .. 2 : e[n][v] # 0

Init ==
  /\ \E s \in Sources : Compiles(s) /\ source = s /\ contract = Decode(Export(Compile(s)))
  /\ SetUp
  /\ params = Empty /\ latest = Empty /\ input = Empty
  /\ status = "idle" /\ pc = 1 /\ aux = <<>> /\ local = <<>>
  /\ proof = None /\ attempts = 0

Calling == status # "running" /\ status # "panic"

----------------------------------------------------------------------------
(* ZKContract                                                              *)

SetParam ==
  /\ Calling /\ attempts < MaxAttempts
  /\ \E name \in DOMAIN contract.params_map, value \in Scalars :
       /\ params' = [i \in DOMAIN params \cup {contract.params_map[name]} |->
                       IF i = contract.params_map[name] THEN value ELSE params[i]]
       /\ latest' = [s \in DOMAIN latest \cup {name} |-> IF s = name THEN value ELSE latest[s]]
  /\ UNCHANGED <<source, contract, status, machine, proof, attempts, input>>

\* prove() takes the parameters out of the contract.
TakeParams == Empty

MissingParams ==
  /\ Calling /\ status # "MissingParams" /\ attempts < MaxAttempts
  /\ DOMAIN params # {contract.params_map[s] : s \in DOMAIN contract.params_map}
  /\ status' = "MissingParams"
  /\ UNCHANGED <<source, contract, params, machine, proof, attempts, input, latest>>

Prove ==
  /\ Calling /\ attempts < MaxAttempts
  /\ DOMAIN params = {contract.params_map[s] : s \in DOMAIN contract.params_map}
  /\ params' = TakeParams
  /\ status' = "running" /\ pc' = 1 /\ attempts' = attempts + 1
  /\ aux' = [i \in DOMAIN contract.alloc |-> IF i \in DOMAIN params THEN params[i] ELSE 0]
  /\ local' = <<>>
  /\ input' = latest /\ latest' = Empty
  /\ UNCHANGED <<source, contract, proof>>

----------------------------------------------------------------------------
(* ZKVirtualMachine::initialize                                            *)

Memory(ref) == IF ref.mem = "aux" THEN aux ELSE local
Get(ref) == Memory(ref)[ref.index]
Put(ref, value) ==
  IF ref.mem = "aux" THEN aux' = [aux EXCEPT ![ref.index] = value] /\ UNCHANGED local
                     ELSE local' = [local EXCEPT ![ref.index] = value] /\ UNCHANGED aux

\* The references an operation follows without looking at their range.
Followed(op) ==
  CASE op.op \in {"Local", "DumpAlloc", "DumpLocal"} -> {}
    [] op.op \in {"UnpackBits", "Load"} -> {op.args[1]}
    [] OTHER -> {op.args[i] : i \in DOMAIN op.args}
OutOfRange(op) ==
  \/ \E ref \in Followed(op) : ref.index \notin DOMAIN Memory(ref)
  \/ op.op = "Load" /\ op.args[2].index \notin DOMAIN contract.constants

Assigning == {"Set", "Mul", "Add", "Sub", "Divide", "Double", "Square", "Invert", "Load"}
DividesByZero(op) ==
  \/ op.op = "Divide" /\ Get(op.args[2]) = 0
  \/ op.op = "Invert" /\ Get(op.args[1]) = 0
Result(op) ==
  LET x == Get(op.args[1])
      y == Get(op.args[2])
  IN  CASE op.op = "Set"    -> y
        [] op.op = "Mul"    -> (x * y) % P
        [] op.op = "Add"    -> (x + y) % P
        [] op.op = "Sub"    -> (x - y) % P
        [] op.op = "Divide" -> (x * InverseOf(y)) % P
        [] op.op = "Double" -> (2 * x) % P
        [] op.op = "Square" -> (x * x) % P
        [] op.op = "Invert" -> InverseOf(x)
        [] op.op = "Load"   -> contract.constants[op.args[2].index]

Malformed(op) ==
  LET start == op.args[2]
      end == op.args[3]
  IN  \/ start.mem # end.mem
      \/ start.index > end.index
      \/ end.index + 1 - start.index # Bits
      \/ end.index > Len(Memory(end))
Bit(value, i) == (value \div 2 ^ i) % 2
\* Little-endian, into the range.
Unpacked(memory, start, value) ==
  [i \in DOMAIN memory |->
     IF i \in start .. start + Bits - 1 THEN Bit(value, i - start) ELSE memory[i]]

Current == contract.ops[pc]
Running == status = "running" /\ pc <= Len(contract.ops)
Advance ==
  /\ pc' = pc + 1
  /\ UNCHANGED <<source, contract, params, status, proof, attempts, input, latest>>
\* `?` leaves the contract as the operations so far have made it.
Abort(error) ==
  /\ status' = error
  /\ UNCHANGED <<source, contract, params, machine, proof, attempts, input, latest>>

Assign ==
  /\ Running /\ Current.op \in Assigning
  /\ IF OutOfRange(Current) THEN Abort("panic")
     ELSE IF DividesByZero(Current) THEN Abort("DivisionByZero")
     ELSE Put(Current.args[1], Result(Current)) /\ Advance

UnpackBits ==
  /\ Running /\ Current.op = "UnpackBits"
  /\ IF OutOfRange(Current) THEN Abort("panic")
     ELSE IF Malformed(Current) THEN Abort("MalformedRange")
     ELSE LET start == Current.args[2]
              bits == Unpacked(Memory(start), start.index, Get(Current.args[1]))
          IN  /\ IF start.mem = "aux" THEN aux' = bits /\ UNCHANGED local
                                      ELSE local' = bits /\ UNCHANGED aux
              /\ Advance

PushLocal ==
  /\ Running /\ Current.op = "Local"
  /\ local' = Append(local, 0) /\ UNCHANGED aux
  /\ Advance

Display ==
  /\ Running /\ Current.op \in {"Debug", "DumpAlloc", "DumpLocal"}
  /\ IF OutOfRange(Current) THEN Abort("panic") ELSE UNCHANGED <<aux, local>> /\ Advance

----------------------------------------------------------------------------
(* Proofs and verification.                                                *)

Total(s) == FoldLeft(LAMBDA a, b : a + b, 0, s)

\* The variables are allocated in the order of alloc, with their aux values.
Witness(v) == aux[contract.alloc[v].index]
Eval(lc) == (lc[0] + Total([v \in DOMAIN contract.alloc |-> lc[v] * Witness(v)])) % P
Satisfied == \A e \in Synthesize : (Eval(e[0]) * Eval(e[1])) % P = Eval(e[2])

Publics == Selected(contract.alloc, {i \in DOMAIN contract.alloc : contract.alloc[i].public})
CreateProof == [inputs |-> [i \in DOMAIN Publics |-> aux[Publics[i].index]], satisfied |-> Satisfied]
VerifyProof(groth, inputs) == groth.satisfied /\ groth.inputs = inputs

NameOf(index) == CHOOSE s \in DOMAIN contract.public_map : contract.public_map[s] = index
FinishProof ==
  /\ status = "running" /\ pc > Len(contract.ops)
  /\ IF \A i \in DOMAIN Publics : \E s \in DOMAIN contract.public_map : contract.public_map[s] = Publics[i].index
       THEN /\ status' = "proved"
            /\ proof' = [public |-> [s \in {NameOf(Publics[i].index) : i \in DOMAIN Publics} |->
                                       aux[contract.public_map[s]]],
                         groth |-> CreateProof]
       ELSE status' = "BadContract" /\ UNCHANGED proof
  /\ UNCHANGED <<source, contract, params, machine, attempts, input, latest>>

\* The public values in the order of the prover, and as the table gives them.
AsTheyCome(pairs) == pairs
InOrder(pairs) ==
  CHOOSE s \in SetToSeqs(Range(pairs)) : \A i, j \in DOMAIN s : i < j => s[i].index < s[j].index

\* The names come out of a hash table in any order.
Verify ==
  /\ status = "proved"
  /\ \E names \in SetToSeqs(DOMAIN proof.public) :
       LET known == \A i \in DOMAIN names : names[i] \in DOMAIN contract.public_map
              pairs == [i \in DOMAIN names |-> [index |-> contract.public_map[names[i]],
                                                value |-> proof.public[names[i]]]]
              sorted == InOrder(pairs)
          IN  status' = IF known /\ VerifyProof(proof.groth, [i \in DOMAIN sorted |-> sorted[i].value])
                        THEN "verified" ELSE "rejected"
  /\ UNCHANGED <<source, contract, params, machine, proof, attempts, input, latest>>

Next ==
  \/ SetParam \/ MissingParams \/ Prove
  \/ Assign \/ UnpackBits \/ PushLocal \/ Display
  \/ FinishProof \/ Verify

Spec == Init /\ [][Next]_vars

----------------------------------------------------------------------------
(* What the source means: operations on names, equations between sums.     *)

NamesOf(lines) == [i \in DOMAIN lines |-> lines[i].args[1]]
AllocNames == NamesOf(AllocLines(source))
LocalNames(lines) == NamesOf(Relevant(lines, {"local"}))
Names == Range(AllocNames) \cup Range(LocalNames(OpLines(source)))

Position(names, name) == SelectInSeq(names, LAMBDA n : n = name)

\* The names from first to last in the order they were introduced.
NameRange(names, first, last) ==
  IF {first, last} \subseteq Range(names)
  THEN SubSeq(names, Position(names, first), Position(names, last))
  ELSE <<>>

Meaning(state, line) ==
  LET x == line.args[1]
      y == line.args[2]
      v == state.env
      Bind(value) == [state EXCEPT !.env[x] = value]
      Stop(error) == [state EXCEPT !.error = error]
      range == LET a == NameRange(AllocNames, y, line.args[3])
                   b == NameRange(LocalNames(state.done), y, line.args[3])
               IN  IF Len(a) = Bits THEN a ELSE b
  IN  CASE line.cmd = "local"  -> Bind(0)
        [] line.cmd = "load"   -> Bind(ValueOf(y))
        [] line.cmd = "set"    -> Bind(v[y])
        [] line.cmd = "add"    -> Bind((v[x] + v[y]) % P)
        [] line.cmd = "sub"    -> Bind((v[x] - v[y]) % P)
        [] line.cmd = "mul"    -> Bind((v[x] * v[y]) % P)
        [] line.cmd = "double" -> Bind((v[x] + v[x]) % P)
        [] line.cmd = "square" -> Bind((v[x] * v[x]) % P)
        [] line.cmd = "invert" -> IF v[x] = 0 THEN Stop("DivisionByZero") ELSE Bind(InverseOf(v[x]))
        [] line.cmd = "divide" -> IF v[y] = 0 THEN Stop("DivisionByZero") ELSE Bind((v[x] * InverseOf(v[y])) % P)
        [] line.cmd = "unpack_bits" ->
             IF Len(range) # Bits THEN Stop("MalformedRange")
             ELSE [state EXCEPT !.env = [n \in DOMAIN v |->
                     IF n \in Range(range) THEN Bit(v[x], Position(range, n) - 1) ELSE v[n]]]
        [] OTHER -> state

MeaningStep(state, line) ==
  IF state.error # None THEN state
  ELSE [Meaning(state, line) EXCEPT !.done = Append(@, line)]

\* What the operations make of the parameters.
Outcome ==
  FoldLeft(MeaningStep,
           [env |-> [n \in Names |-> IF n \in DOMAIN input THEN input[n] ELSE 0],
            error |-> None, done |-> <<>>],
           OpLines(source))

\* A line's share of a sum; doublings since the last reset count.
Coefficient(lines, i) ==
  LET since == CHOOSE r \in 0 .. i - 1 :
                 /\ r = 0 \/ lines[r].cmd = "lc_coeff_reset"
                 /\ \A k \in r + 1 .. i - 1 : lines[k].cmd # "lc_coeff_reset"
  IN  2 ^ Cardinality({k \in since + 1 .. i - 1 : lines[k].cmd = "lc_coeff_double"})
Share(lines, i, v) ==
  LET l == lines[i] IN
  CASE l.cmd = "lc_add" -> Coefficient(lines, i) * v[l.args[1]]
    [] l.cmd = "lc_sub" -> -Coefficient(lines, i) * v[l.args[1]]
    [] l.cmd = "lc_add_one" -> 1
    [] l.cmd = "lc_sub_one" -> -1
    [] l.cmd = "lc_add_coeff" -> ValueOf(l.args[1]) * v[l.args[2]]
    [] l.cmd = "lc_add_constant" -> ValueOf(l.args[1])
    [] OTHER -> 0
SumOf(lines, lc, v) ==
  Total([i \in DOMAIN lines |-> IF lines[i].lc = lc THEN Share(lines, i, v) ELSE 0])

\* lc0 * lc1 = lc2 between any two enforces.
EquationsHold(v) ==
  LET all == ConstraintLines(source)
      ends == {i \in DOMAIN all : all[i].cmd = "enforce"}
      Block(e) == SubSeq(all, 1 + CHOOSE b \in {0} \cup ends :
                                  b < e /\ \A d \in ends : d < e => d <= b, e - 1)
  IN  \A e \in ends : (SumOf(Block(e), 0, v) * SumOf(Block(e), 1, v) - SumOf(Block(e), 2, v)) % P = 0

----------------------------------------------------------------------------
(* What holds.                                                             *)

\* What the machine has left in the variables.
Values == LET names == AllocNames IN [s \in Range(names) |-> aux[Position(names, s)]]

Finished == status \in {"proved", "verified", "rejected"}
DistinctConstants == \A i, j \in DOMAIN Constants : Constants[i].symbol = Constants[j].symbol => i = j
DistinctNames == IsInjective(AllocNames \o LocalNames(OpLines(source)))
LoadsVariables ==
  LET lines == OpLines(source) IN
  \A i \in DOMAIN lines :
    lines[i].cmd = "load" =>
      lines[i].args[1] \in Range(AllocNames) \cup Range(LocalNames(SubSeq(lines, 1, i - 1)))

Agrees ==
  /\ status # "panic"
  /\ status \in {"DivisionByZero", "MalformedRange"} => Outcome.error = status
  /\ Finished =>
       LET end == Outcome
           alloc == AllocLines(source)
       IN  /\ end.error = None
           /\ \A i \in DOMAIN aux : aux[i] = end.env[alloc[i].args[1]]
           /\ \A i \in DOMAIN alloc :
                alloc[i].cmd = "public" => proof.public[alloc[i].args[1]] = end.env[alloc[i].args[1]]

(* The compiled, exported and loaded operations leave in every variable    *)
(* what the source says, or stop at the operation that cannot be done, and *)
(* the proof names the public values: at the first attempt and after       *)
(* others that failed or succeeded, of whose parameters nothing is left.   *)
(* No reference leads out of the machine's memories.                       *)
RunsAsWritten == DistinctConstants /\ DistinctNames /\ LoadsVariables => Agrees

(* A proof verifies exactly if every equation of the source holds for the  *)
(* values it was made from, whatever order the public values come in.      *)
VerifiesIffEquationsHold ==
  DistinctConstants /\ status \in {"verified", "rejected"} =>
    (status = "verified" <=> EquationsHold(Values))

----------------------------------------------------------------------------
(* What the docs say and the code does not do.                             *)

(* compile.py:255 says of `local` "This is a special case which creates a  *)
(* new local stack value".                                                 *)
LocalIsNew == Agrees
=============================================================================
