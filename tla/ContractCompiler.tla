-------------------------- MODULE ContractCompiler --------------------------
(***************************************************************************)
(* From the source of a ZK contract to what the virtual machine runs:      *)
(* scripts/compile.py, the file that compile_export_supervisor.py writes   *)
(* and the one that src/vm_serial.rs reads.  A source is a sequence of     *)
(* lines [cmd, args], and [cmd, lc, args] for the lines that build the     *)
(* three linear combinations; a file is made of numbers.  Indices count    *)
(* from 1 here and from 0 in the code.                                     *)
(***************************************************************************)
EXTENDS Integers, Sequences, SequencesExt

CONSTANT Constants   \* the constants of the source: a sequence of [symbol, value]

alloc_commands == {"param", "private", "public"}
op_commands ==
  [set |-> 2, mul |-> 2, add |-> 2, sub |-> 2, divide |-> 2, double |-> 1, square |-> 1,
   invert |-> 1, unpack_bits |-> 3, load |-> 2, local |-> 1, debug |-> 1,
   dump_alloc |-> 0, dump_local |-> 0]
constraint_commands ==
  [lc_add |-> 1, lc_sub |-> 1, lc_add_one |-> 0, lc_sub_one |-> 0, lc_add_coeff |-> 2,
   lc_add_constant |-> 1, enforce |-> 0, lc_coeff_reset |-> 0, lc_coeff_double |-> 0]

\* What extract_relevant_lines can have read: the number of the linear
\* combination is part of some commands.
IsList(s) == s \in Seq(Range(s))
IsLine(line) ==
  /\ line.cmd \in alloc_commands \cup DOMAIN op_commands \cup DOMAIN constraint_commands
  /\ IsList(line.args)
  /\ line.cmd \in DOMAIN constraint_commands =>
       line.lc \in IF line.cmd \in {"enforce", "lc_coeff_reset", "lc_coeff_double"} THEN {0} ELSE 0 .. 2
IsSource(source) == IsList(source) /\ \A i \in DOMAIN source : IsLine(source[i])

\* The elements of a sequence at some places, in their order.
Selected(s, places) ==
  LET first[i \in 0 .. Len(s)] ==
        IF i = 0 THEN <<>>
        ELSE IF i \in places THEN Append(first[i - 1], s[i]) ELSE first[i - 1]
  IN  first[Len(s)]

Relevant(source, commands) == Selected(source, {i \in DOMAIN source : source[i].cmd \in commands})
AllocLines(source) == Relevant(source, alloc_commands)
OpLines(source) == Relevant(source, DOMAIN op_commands)
ConstraintLines(source) == Relevant(source, DOMAIN constraint_commands)

----------------------------------------------------------------------------
(* compile.py                                                              *)

\* The symbol on line i of the alloc table has index i.
Allocated(alloc) == {alloc[i].args[1] : i \in DOMAIN alloc}
Index(alloc, symbol) == CHOOSE i \in DOMAIN alloc : alloc[i].args[1] = symbol

\* A local gets the number of names so far: the next place on the machine's
\* stack as long as no name is declared twice.
Declare(local_vars, symbol) ==
  LET new == Cardinality(DOMAIN local_vars) + 1 IN
  [s \in DOMAIN local_vars \cup {symbol} |-> IF s = symbol THEN new ELSE local_vars[s]]
LocalVars(lines) ==
  FoldLeft(LAMBDA vars, line : IF line.cmd = "local" THEN Declare(vars, line.args[1]) ELSE vars,
           <<>>, lines)

ConstantSymbols == {Constants[i].symbol : i \in DOMAIN Constants}
DeclaredAt(symbol) == {i \in DOMAIN Constants : Constants[i].symbol = symbol}
\* The last declaration counts, and the number of symbols that were known before it.
ConstantIndex(symbol) ==
  Cardinality({Constants[i].symbol : i \in 1 .. Max(DeclaredAt(symbol)) - 1}) + 1
ValueOf(symbol) == Constants[Max(DeclaredAt(symbol))].value

VariableRef(symbol, alloc, local_vars) ==
  IF symbol \in Allocated(alloc) THEN [mem |-> "aux", index |-> Index(alloc, symbol)]
  ELSE IF symbol \in DOMAIN local_vars THEN [mem |-> "local", index |-> local_vars[symbol]]
  ELSE IF symbol \in ConstantSymbols THEN [mem |-> "const", index |-> ConstantIndex(symbol)]
  ELSE [mem |-> "missing", index |-> 0]

Refs(line, alloc, local_vars) ==
  [i \in DOMAIN line.args |-> VariableRef(line.args[i], alloc, local_vars)]

CompileOp(lines, i, alloc) ==
  [cmd |-> lines[i].cmd,
   args |-> IF lines[i].cmd = "local" THEN <<>>
            ELSE Refs(lines[i], alloc, LocalVars(SubSeq(lines, 1, i - 1)))]

Mems(args) == {args[i].mem : i \in DOMAIN args}
\* Only load takes a constant; its second argument has to be one.
OpCompiles(op) ==
  /\ "missing" \notin Mems(op.args)
  /\ IF op.cmd = "load" THEN op.args[2].mem = "const" ELSE "const" \notin Mems(op.args)

CompileConstraint(line, alloc) ==
  [cmd |-> line.cmd, lc |-> line.lc, args |-> Refs(line, alloc, <<>>)]
\* A symbol is known, and the exporter can write it where it stands.
ConstraintCompiles(c) ==
  \A i \in DOMAIN c.args :
    c.args[i].mem = IF i = 1 /\ c.cmd \in {"lc_add_coeff", "lc_add_constant"} THEN "const" ELSE "aux"

Arity(line) ==
  IF line.cmd \in alloc_commands THEN 1
  ELSE IF line.cmd \in DOMAIN op_commands THEN op_commands[line.cmd]
  ELSE constraint_commands[line.cmd]

Compile(source) ==
  LET alloc == AllocLines(source)
      ops == OpLines(source)
      constraints == ConstraintLines(source)
  IN  [alloc |-> alloc,
       ops |-> [i \in DOMAIN ops |-> CompileOp(ops, i, alloc)],
       constraints |-> [i \in DOMAIN constraints |-> CompileConstraint(constraints[i], alloc)]]

\* Nothing stops the exporter from loading into a constant: it then writes the
\* memory of the last argument before that had one, if any.
LoadsConstant(op) == op.cmd = "load" /\ op.args[1].mem = "const"
Typed(ops, i) == {j \in 1 .. i - 1 : Mems(ops[j].args) \ {"const"} # {}}
ArgMem(ops, i, k) ==
  LET args == ops[Max(Typed(ops, i))].args IN
  IF k = 1 /\ LoadsConstant(ops[i]) THEN args[Max({n \in DOMAIN args : args[n].mem # "const"})].mem
  ELSE ops[i].args[k].mem

\* No error is reported.
Compiles(source) ==
  LET c == Compile(source) IN
  /\ \A i \in DOMAIN source : Len(source[i].args) = Arity(source[i])
  /\ \A i, j \in DOMAIN c.alloc : c.alloc[i].args = c.alloc[j].args => i = j
  /\ \A i \in DOMAIN c.ops : OpCompiles(c.ops[i]) /\ (LoadsConstant(c.ops[i]) => Typed(c.ops, i) # {})
  /\ \A i \in DOMAIN c.constraints : ConstraintCompiles(c.constraints[i])

----------------------------------------------------------------------------
(* The contract file.                                                      *)

ops_table ==
  [set |-> 0, mul |-> 1, add |-> 2, sub |-> 3, divide |-> 4, double |-> 5, square |-> 6,
   invert |-> 7, unpack_bits |-> 8, local |-> 9, load |-> 10, debug |-> 11,
   dump_alloc |-> 12, dump_local |-> 13]
\* The three variants of a command have consecutive numbers.
constraint_ident_map ==
  [lc_add |-> 0, lc_sub |-> 3, lc_add_one |-> 6, lc_sub_one |-> 9, lc_add_coeff |-> 12,
   lc_add_constant |-> 15, enforce |-> 18, lc_coeff_reset |-> 19, lc_coeff_double |-> 20]

Named(alloc, commands) ==
  {[symbol |-> alloc[i].args[1], index |-> i] : i \in {j \in DOMAIN alloc : alloc[j].cmd \in commands}}

\* The constants by index; those with the same index as they were first declared.
WrittenBefore(a, b) ==
  \/ ConstantIndex(a) < ConstantIndex(b)
  \/ ConstantIndex(a) = ConstantIndex(b) /\ Min(DeclaredAt(a)) < Min(DeclaredAt(b))
ConstantList ==
  CHOOSE s \in SetToSeqs(ConstantSymbols) : \A i, j \in DOMAIN s : i < j => WrittenBefore(s[i], s[j])

Export(c) ==
  [constants |-> [i \in DOMAIN ConstantList |-> ValueOf(ConstantList[i])],
   alloc |-> [i \in DOMAIN c.alloc |-> [type |-> IF c.alloc[i].cmd = "public" THEN 1 ELSE 0, index |-> i]],
   ops |-> [i \in DOMAIN c.ops |->
     [ident |-> ops_table[c.ops[i].cmd],
      args |-> [k \in DOMAIN c.ops[i].args |->
                  [type |-> IF ArgMem(c.ops, i, k) = "local" THEN 1 ELSE 0,
                   index |-> c.ops[i].args[k].index]]]],
   constraints |-> [i \in DOMAIN c.constraints |->
     [ident |-> constraint_ident_map[c.constraints[i].cmd] + c.constraints[i].lc,
      args |-> [k \in DOMAIN c.constraints[i].args |-> c.constraints[i].args[k].index]]],
   params |-> Named(c.alloc, {"param"}),
   publics |-> Named(c.alloc, {"public"})]

\* Two numbers the other way round.
SwappedOperations ==
  <<"Set", "Mul", "Add", "Divide", "Sub", "Double", "Square", "Invert", "UnpackBits", "Local",
    "Load", "Debug", "DumpAlloc", "DumpLocal">>
CryptoOperations ==
  <<"Set", "Mul", "Add", "Sub", "Divide", "Double", "Square", "Invert", "UnpackBits", "Local",
    "Load", "Debug", "DumpAlloc", "DumpLocal">>
ConstraintInstructions == <<"Add", "Sub", "AddOne", "SubOne", "AddCoeff", "AddConstant">>
DecodeRef(arg) == [mem |-> IF arg.type = 0 THEN "aux" ELSE "local", index |-> arg.index]
DecodeConstraint(c) ==
  IF c.ident < 18
  THEN [op |-> ConstraintInstructions[c.ident \div 3 + 1], lc |-> c.ident % 3, args |-> c.args]
  ELSE [op |-> <<"Enforce", "LcCoeffReset", "LcCoeffDouble">>[c.ident - 17], lc |-> 0, args |-> <<>>]

Map(pairs) == [s \in {p.symbol : p \in pairs} |-> (CHOOSE p \in pairs : p.symbol = s).index]

Decode(file) ==
  [constants |-> file.constants,
   alloc |-> [i \in DOMAIN file.alloc |->
                [public |-> file.alloc[i].type = 1, index |-> file.alloc[i].index]],
   ops |-> [i \in DOMAIN file.ops |->
              [op |-> CryptoOperations[file.ops[i].ident + 1],
               args |-> [k \in DOMAIN file.ops[i].args |-> DecodeRef(file.ops[i].args[k])]]],
   constraints |-> [i \in DOMAIN file.constraints |-> DecodeConstraint(file.constraints[i])],
   params_map |-> Map(file.params),
   public_map |-> Map(file.publics)]
=============================================================================
