-------------------------------- MODULE Lisp --------------------------------
(* The zklisp interpreter: environments, the evaluator with its macros and *)
(* special forms, the core functions, the tables in which alloc and        *)
(* enforce collect a circuit and the proof that prove makes from them.     *)
(*                                                                         *)
(* A value is a tuple of its kind and its content.  A string that spells a *)
(* scalar is <<"hex", k>>: what `-`, `*` and `/` return for strings and    *)
(* from_string reads back; every other string is <<"str", s>>.  The field  *)
(* has P elements.  Environments and atoms are shared by reference: they   *)
(* live in a heap that evaluation threads through, and closures hold the   *)
(* number of their environment.  The environment numbered 1 is the root.   *)
(*                                                                         *)
(* repl_load loads one file, a sequence of forms; Prelude is what has been *)
(* loaded before, in the same way.  Forms are well formed: a special form  *)
(* has its operands.  The order in which a hash map is iterated is some    *)
(* fixed order of its keys, the same for a map and its clone.              *)
EXTENDS Integers, SequencesExt

CONSTANTS P,        \* the order of the scalar field
          Bits,     \* the bits of a scalar, 256 in the code
          Prelude,  \* the forms loaded before the program
          Files     \* the files: sequences of forms, by name

ASSUME FieldAssumption == P \in Nat \ {0, 1} /\ Bits \in Nat

VARIABLES file,     \* the name of the file that is loaded
          pc,       \* the next form of it
          heap,     \* environments, atoms, what ran and what prove printed
          result,   \* the value of the last form
          status    \* running, done, error or panic

vars == <<file, pc, heap, result, status>>

-----------------------------------------------------------------------------
(* Values.                                                                 *)

Nil       == <<"nil">>
Bool(b)   == <<"bool", b>>
Num(n)    == <<"int", n>>
Str(s)    == <<"str", s>>
Hex(k)    == <<"hex", k>>
ZK(k)     == <<"zk", k>>
Sym(s)    == <<"sym", s>>
List(s)   == <<"list", s>>
Vector(s) == <<"vec", s>>
Hash(m)   == <<"hash", m>>
Func(f)   == <<"func", f>>
Error     == <<"error">>   \* a core function returns Err
Panic     == <<"panic">>   \* a core function panics

Kind(v)    == v[1]
Content(v) == v[2]
IsSeq(v)   == Kind(v) \in {"list", "vec"}
Truthy(v)  == v # Nil /\ v # Bool(FALSE)
NoKeys     == [k \in {} |-> Nil]
Keys(m)    == FoldSet(LAMBDA k, s : Append(s, k), <<>>, DOMAIN m)

(* What pr_str prints, as far as names of symbols and variables go.        *)
PrStr(v) == CASE Kind(v) \in {"str", "sym"} -> Content(v)
              [] Kind(v) = "int"            -> ToString(Content(v))
              [] OTHER                      -> "#"

RECURSIVE Equal(_, _)
Equal(a, b) ==
  CASE IsSeq(a) /\ IsSeq(b) ->
         /\ Len(Content(a)) = Len(Content(b))
         /\ \A i \in DOMAIN Content(a) : Equal(Content(a)[i], Content(b)[i])
    [] Kind(a) = "hash" /\ Kind(b) = "hash" ->
         /\ DOMAIN Content(a) = DOMAIN Content(b)
         /\ \A k \in DOMAIN Content(a) : Equal(Content(a)[k], Content(b)[k])
    [] OTHER -> Kind(a) \in {"nil", "bool", "int", "str", "hex", "sym"} /\ a = b

(* _assoc: the pairs of kvs added to hm.                                   *)
Assoc(hm, kvs) ==
  IF Len(kvs) % 2 # 0 \/ \E i \in DOMAIN kvs : i % 2 = 1 /\ Kind(kvs[i]) # "str"
  THEN Error
  ELSE Hash(FoldLeft(LAMBDA m, i : (Content(kvs[2*i - 1]) :> kvs[2*i]) @@ m, hm,
                     [i \in 1..Len(kvs) \div 2 |-> i]))

-----------------------------------------------------------------------------
(* Scalar functions of the core.                                           *)

Inv(k) == CHOOSE j \in 1..P - 1 : (j * k) % P = 1
Neg(k) == (P - k) % P
Word64 == LET w == 65536 % P IN (((w * w) % P) * ((w * w) % P)) % P

(* scalar_zero, scalar_one, scalar_one_neg and cs_one.                     *)
Constant(f, a) ==
  CASE f = "scalar::zero"     -> Vector(<<ZK(0)>> \o a)
    [] f = "scalar::one"      -> Vector(<<ZK(1)>> \o a)
    [] f = "scalar::one::neg" -> Vector(<<ZK(P - 1)>> \o a)
    [] f = "cs::one"          -> Vector(<<Sym("cs::one")>>)

Constants == {"scalar::zero", "scalar::one", "scalar::one::neg", "cs::one"}

(* The scalar a function stands for when it is an operand: it is applied   *)
(* to nothing and the vector it returns holds the scalar.                  *)
FuncScalar(v) ==
  IF Content(v) \in {"list", "hash-map", "str", "concat"} THEN Error
  ELSE IF Content(v) \notin Constants THEN Panic
  ELSE LET x == Content(Constant(Content(v), <<>>))[1]
       IN  IF Kind(x) = "zk" THEN x ELSE Error

Operand(v) == CASE Kind(v) = "func" -> FuncScalar(v)
                [] Kind(v) = "str"  -> Panic
                [] OTHER            -> v

Texts   == {"hex", "str"}
Scalars == {"zk"} \cup Texts

(* The operands of a function of two scalars, or the one error that ends   *)
(* it; the kinds it takes differ from function to function.                *)
Operands(a, kinds) ==
  LET both == <<Operand(a[1]), Operand(a[2])>>
  IN CASE <<Kind(a[1]), Kind(a[2])>> \notin kinds -> <<Error>>
       [] \E i \in {1, 2} : both[i] = Panic -> <<Panic>>
       [] \E i \in {1, 2} : both[i] = Error -> <<Error>>
       [] OTHER -> <<Content(both[1]), Content(both[2])>>

Failed(o) == Len(o) = 1

(* Of a string and a scalar `-` and `*` make a string, `+` a scalar.       *)
Scalar(a, k) == IF {Kind(a[1]), Kind(a[2])} \subseteq Scalars /\ "hex" \in {Kind(a[1]), Kind(a[2])}
                THEN Hex(k % P) ELSE ZK(k % P)

AddScalar(a) ==
  LET o == Operands(a, (Scalars \cup {"func"}) \X Scalars)
  IN  IF Failed(o) THEN o[1] ELSE ZK((o[1] + o[2]) % P)

SubScalar(a) ==
  LET o == Operands(a, (Scalars \cup {"func"}) \X Scalars)
  IN  IF Failed(o) THEN o[1] ELSE Scalar(a, o[1] + Neg(o[2]))

MulScalar(a) ==
  LET o == Operands(a, (Scalars \X Scalars) \cup {<<"func", "zk">>, <<"zk", "func">>})
  IN  IF Failed(o) THEN o[1] ELSE Scalar(a, o[1] * o[2])

DivScalar(a) ==
  LET o == Operands(a, (Scalars \X Scalars) \ ({"zk"} \X Texts))
  IN CASE Failed(o) -> o[1]
       [] ~Failed(o) /\ o[2] = 0 -> Error
       [] OTHER -> Hex((o[1] * Inv(o[2])) % P)

Square(v) ==
  CASE Kind(v) \notin Scalars -> Error
    [] Kind(v) = "str" -> Panic
    [] OTHER -> ZK((Content(v) * Content(v)) % P)

Unary(v) == IF Kind(v) \in Scalars \cup {"func"} THEN Operand(v) ELSE Error

(* The scalar of a function is returned as it is: the result of            *)
(* a0.double() is dropped.                                                 *)
\* Mutant: it is dropped for every operand.
DoubleDropped(v) == IF Unary(v) \in {Error, Panic} THEN Unary(v) ELSE ZK(Content(Unary(v)))
Double(v) ==
  CASE Unary(v) \in {Error, Panic} -> Unary(v)
    [] Kind(v) = "func" -> Unary(v)
    [] OTHER -> ZK((2 * Content(v)) % P)

Invert(v) ==
  CASE Unary(v) \in {Error, Panic} -> Unary(v)
    [] Content(Unary(v)) # 0 -> ZK(Inv(Content(Unary(v))))
    [] Kind(v) = "func" -> Error
    [] OTHER -> Panic

IsZero(v) == IF Unary(v) \in {Error, Panic} THEN Unary(v) ELSE Bool(Content(Unary(v)) = 0)

ScalarFrom(v) == CASE Kind(v) = "int" ->
                        ZK(IF Content(v) < 0 THEN (Word64 + Content(v)) % P
                                             ELSE Content(v) % P)
                   [] Kind(v) \in {"zk", "hex"} -> ZK(Content(v))
                   [] Kind(v) = "str" -> Panic
                   [] OTHER -> Error

UnpackBits(v) ==
  CASE Kind(v) \in {"zk", "hex"} ->
         List([i \in 1..Bits |-> Hex((Content(v) \div 2^(i - 1)) % 2)])
    [] Kind(v) = "str" -> Panic
    [] OTHER -> Error

-----------------------------------------------------------------------------
(* Functions of the core on sequences, maps and integers.                  *)

Element(a) == LET i == Content(a[2]) IN
  IF ~IsSeq(a[1]) \/ Kind(a[2]) # "int" THEN Error
  ELSE IF i < 0 \/ i >= Len(Content(a[1])) THEN Error ELSE Content(a[1])[i + 1]

(* first, second and last: nil if there is none.                           *)
Pick(f, v) ==
  LET s == Content(v)
      i == CASE f = "first" -> 1 [] f = "second" -> 2 [] f = "last" -> Len(s)
  IN CASE IsSeq(v) -> IF i \in DOMAIN s THEN s[i] ELSE Nil
       [] v = Nil  -> Nil
       [] OTHER    -> Error

Rest(v) == CASE IsSeq(v) -> List(IF Content(v) = <<>> THEN <<>> ELSE Tail(Content(v)))
             [] v = Nil  -> List(<<>>)
             [] OTHER    -> Error

Conj(a) == CASE Kind(a[1]) = "list" -> List(Reverse(Tail(a)) \o Content(a[1]))
             [] Kind(a[1]) = "vec"  -> Vector(Content(a[1]) \o Tail(a))
             [] OTHER               -> Error

Concat(a) == IF \A i \in DOMAIN a : IsSeq(a[i])
             THEN List(FlattenSeq([i \in DOMAIN a |-> Content(a[i])])) ELSE Error

Count(f, v) == CASE IsSeq(v) -> IF f = "count" THEN Num(Len(Content(v)))
                                               ELSE Bool(Content(v) = <<>>)
                 [] v = Nil  -> IF f = "count" THEN Num(0) ELSE Bool(TRUE)
                 [] OTHER    -> Error

Get(a) == CASE a[1] = Nil -> Nil
            [] Kind(a[1]) = "hash" /\ Kind(a[2]) = "str" ->
                 IF Content(a[2]) \in DOMAIN Content(a[1])
                 THEN Content(a[1])[Content(a[2])] ELSE Nil
            [] OTHER -> Error

ContainsQ(a) == IF Kind(a[1]) = "hash" /\ Kind(a[2]) = "str"
               THEN Bool(Content(a[2]) \in DOMAIN Content(a[1])) ELSE Error

Dissoc(a) ==
  CASE Kind(a[1]) # "hash" -> Error
    [] \E i \in 2..Len(a) : Kind(a[i]) # "str" -> Error
    [] OTHER -> LET gone == {Content(a[i]) : i \in 2..Len(a)}
                IN  Hash([k \in DOMAIN Content(a[1]) \ gone |-> Content(a[1])[k]])

KeysQ(v) == IF Kind(v) = "hash"
            THEN List([i \in DOMAIN Keys(Content(v)) |-> Str(Keys(Content(v))[i])]) ELSE Error
Vals(v)  == IF Kind(v) = "hash"
            THEN List([i \in DOMAIN Keys(Content(v)) |-> Content(v)[Keys(Content(v))[i]]])
            ELSE Error

IsType(f, v) ==
  CASE f = "nil?"    -> v = Nil
    [] f = "true?"   -> v = Bool(TRUE)
    [] f = "false?"  -> v = Bool(FALSE)
    [] f = "symbol?" -> Kind(v) = "sym"
    [] f = "string?" -> Kind(v) \in Texts
    [] f = "number?" -> Kind(v) = "int"
    [] f = "fn?"     -> Kind(v) = "func" \/ (Kind(v) = "fn" /\ ~Content(v).macro)
    [] f = "macro?"  -> Kind(v) = "fn" /\ Content(v).macro
    [] f = "list?"   -> Kind(v) = "list"
    [] f = "vector?" -> Kind(v) = "vec"
    [] f = "map?"    -> Kind(v) = "hash"
    [] f = "atom?"   -> Kind(v) = "atom"
    [] f = "sequential?" -> IsSeq(v)

Types == {"nil?", "true?", "false?", "symbol?", "string?", "number?", "fn?", "macro?",
          "list?", "vector?", "map?", "atom?", "sequential?"}

Integer(f, i, j) ==
  CASE f = "i+" -> Num(i + j)
    [] f = "i-" -> Num(i - j)
    [] f = "i*" -> Num(i * j)
    [] f \in {"<", "i<"}   -> Bool(i < j)
    [] f \in {"<=", "i<="} -> Bool(i <= j)
    [] f \in {">", "i>"}   -> Bool(i > j)
    [] f \in {">=", "i>="} -> Bool(i >= j)

Compare == {"<", "<=", ">", ">=", "i<", "i<=", "i>", "i>="}

(* How many arguments a function reads by index: with fewer it panics.     *)
AtLeast == [n \in {0, 1, 2} |->
  CASE n = 0 -> {"list", "vector", "hash-map", "str", "concat"} \cup Constants
    [] n = 1 -> {"throw", "symbol", "vec", "first", "second", "last", "rest", "count",
                 "empty?", "conj", "assoc", "dissoc", "keys", "vals", "apply", "swap!",
                 "atom", "deref", "neg", "scalar", "square", "double", "invert",
                 "zero?", "unpack-bits"} \cup Types
    [] n = 2 -> {"=", "cons", "nth", "get", "contains?", "map", "reset!", "range",
                 "+", "-", "*", "/", "i+", "i-", "i*"} \cup Compare]

(* The functions that need neither the heap nor the evaluator.             *)
Pure(f, a) ==
  CASE f = "="        -> Bool(Equal(a[1], a[2]))
    [] f \in Types   -> Bool(IsType(f, a[1]))
    [] f = "symbol"   -> IF Kind(a[1]) \in Texts THEN Sym(PrStr(a[1])) ELSE Error
    [] f = "str"      -> Str(FoldLeft(LAMBDA s, v : s \o PrStr(v), "", a))
    [] f = "list"     -> List(a)
    [] f = "vector"   -> Vector(a)
    [] f = "vec"      -> IF IsSeq(a[1]) THEN Vector(Content(a[1])) ELSE Error
    [] f = "cons"     -> IF IsSeq(a[2]) THEN List(<<a[1]>> \o Content(a[2])) ELSE Error
    [] f = "concat"   -> Concat(a)
    [] f = "nth"      -> Element(a)
    [] f \in {"first", "second", "last"} -> Pick(f, a[1])
    [] f = "rest"     -> Rest(a[1])
    [] f = "conj"     -> Conj(a)
    [] f \in {"count", "empty?"} -> Count(f, a[1])
    [] f = "hash-map" -> Assoc(NoKeys, a)
    [] f = "assoc"    -> IF Kind(a[1]) = "hash" THEN Assoc(Content(a[1]), Tail(a)) ELSE Error
    [] f = "dissoc"   -> Dissoc(a)
    [] f = "keys"     -> KeysQ(a[1])
    [] f = "vals"     -> Vals(a[1])
    [] f = "get"      -> Get(a)
    [] f = "contains?" -> ContainsQ(a)
    [] f = "range"    -> IF Kind(a[1]) = "int" /\ Kind(a[2]) = "int"
                         THEN List([i \in 1..Content(a[2]) - Content(a[1]) |-> Nil]) ELSE Error
    [] f \in {"i+", "i-", "i*"} \cup Compare ->
         IF Kind(a[1]) = "int" /\ Kind(a[2]) = "int"
         THEN Integer(f, Content(a[1]), Content(a[2])) ELSE Error
    [] f = "+" -> AddScalar(a)
    [] f = "-" -> SubScalar(a)
    [] f = "*" -> MulScalar(a)
    [] f = "/" -> DivScalar(a)
    [] f = "square" -> Square(a[1])
    [] f = "double" -> Double(a[1])
    [] f = "invert" -> Invert(a[1])
    [] f = "zero?"  -> IsZero(a[1])
    [] f = "scalar"   -> ScalarFrom(a[1])
    [] f = "unpack-bits" -> UnpackBits(a[1])
    [] f \in Constants -> Constant(f, IF a = <<>> THEN a ELSE <<a[1]>>)

-----------------------------------------------------------------------------
(* Environments.  The heap also keeps what the properties speak of: ran,   *)
(* the entries that were made for a circuit, in order, and printed, the    *)
(* outcome of every proof.                                                 *)

Root == 1

Ok(v, h)  == [st |-> "ok", v |-> v, h |-> h]
Err(v, h) == [st |-> "error", v |-> v, h |-> h]
Crash(h)  == [st |-> "panic", v |-> Nil, h |-> h]

EnvNew(outer, h) == [h EXCEPT !.env = Append(@, [data |-> NoKeys, outer |-> outer])]

RECURSIVE EnvFind(_, _, _)
EnvFind(e, s, h) == IF e = 0 \/ s \in DOMAIN h.env[e].data THEN e
                    ELSE EnvFind(h.env[e].outer, s, h)

EnvGet(e, s, h) == LET f == EnvFind(e, s, h) IN
  IF f = 0 THEN Err(Str("not found"), h) ELSE Ok(h.env[f].data[s], h)

EnvSet(e, key, v, h) ==
  IF Kind(key) # "sym" THEN Err(Str("Env.set called with non-Str"), h)
  ELSE Ok(v, [h EXCEPT !.env[e].data = (Content(key) :> v) @@ @])

(* A new environment in which the parameters are bound to the arguments,   *)
(* the last of them, after &, to the list of those that are left.  The     *)
(* arguments are read by index: too few panic, too many are ignored.       *)
EnvBind(outer, params, args, h) ==
  LET names == Content(params)
      rest  == {i \in DOMAIN names : names[i] = Sym("&")}
      fixed == IF rest = {} THEN Len(names) ELSE Min(rest) - 1
      bound == [i \in 1..fixed |-> names[i]] \o
               IF rest = {} THEN <<>> ELSE <<names[fixed + 2]>>
      value(i) == IF i > fixed THEN List(SubSeq(args, i, Len(args))) ELSE args[i]
      data == FoldLeft(LAMBDA m, i : (Content(bound[i]) :> value(i)) @@ m,
                       NoKeys, [i \in DOMAIN bound |-> i])
  IN CASE ~IsSeq(params) -> Err(Str("env_bind binds not List/Vector"), h)
       [] Len(args) < fixed -> Crash(h)
       [] \E i \in DOMAIN bound : Kind(bound[i]) # "sym" ->
            Err(Str("Env.set called with non-Str"), h)
       [] OTHER -> Ok(Nil, [h EXCEPT !.env =
                              Append(@, [data |-> data, outer |-> outer])])

-----------------------------------------------------------------------------
(* Application.                                                            *)

RECURSIVE Eval(_, _, _), EvalAll(_, _, _), Core(_, _, _), MapAll(_, _, _)

Run(r, K(_, _)) == IF r.st = "ok" THEN K(r.v, r.h) ELSE r

Apply(f, args, h) ==
  CASE Kind(f) = "func" -> Core(Content(f), args, h)
    [] Kind(f) = "fn" ->
         Run(EnvBind(Content(f).env, Content(f).params, args, h),
             LAMBDA v, g : Eval(Content(f).ast, Len(g.env), g))
    [] OTHER -> Err(Str("attempt to call non-function"), h)

MapAll(f, s, h) ==
  IF s = <<>> THEN Ok(<<>>, h)
  ELSE Run(Apply(f, <<Head(s)>>, h), LAMBDA v, g :
         Run(MapAll(f, Tail(s), g), LAMBDA w, k : Ok(<<v>> \o w, k)))

Swap(a, h) ==
  IF Kind(a[1]) # "atom" THEN Err(Str("attempt to swap! a non-Atom"), h)
  ELSE IF Len(a) < 2 THEN Crash(h)
  ELSE LET i == Content(a[1])
       IN Run(Apply(a[2], <<h.atom[i]>> \o SubSeq(a, 3, Len(a)), h),
              LAMBDA v, g : Ok(v, [g EXCEPT !.atom[i] = v]))

Negate(v, h) ==
  IF Kind(v) = "zk" THEN Ok(ZK(Neg(Content(v))), h)
  ELSE Run(Apply(v, <<>>, h), LAMBDA r, g :
         CASE IsSeq(r) /\ Content(r) = <<>> -> Crash(g)
           [] IsSeq(r) /\ Kind(Content(r)[1]) = "zk" ->
                Ok(Vector(<<ZK(Neg(Content(Content(r)[1])))>>), g)
           [] OTHER -> Err(Str("not scalar"), g))

ApplyLast(a, h) == LET args == Content(Last(a)) IN
  CASE ~IsSeq(Last(a)) -> Err(Str("apply called with non-seq"), h)
    [] Len(a) < 2 -> Crash(h)
    [] OTHER -> Apply(a[1], SubSeq(a, 2, Len(a) - 1) \o args, h)

(* The functions of ns.                                                    *)
Core(f, a, h) ==
  CASE \E n \in 1..2 : f \in AtLeast[n] /\ Len(a) < n -> Crash(h)
    [] f = "throw"  -> Err(a[1], h)
    [] f = "apply"  -> ApplyLast(a, h)
    [] f = "map"    -> IF ~IsSeq(a[2]) THEN Err(Str("map called with non-seq"), h)
                       ELSE Run(MapAll(a[1], Content(a[2]), h), LAMBDA v, g : Ok(List(v), g))
    [] f = "atom"   -> Ok(<<"atom", Len(h.atom) + 1>>, [h EXCEPT !.atom = Append(@, a[1])])
    [] f = "deref"  -> IF Kind(a[1]) = "atom" THEN Ok(h.atom[Content(a[1])], h)
                       ELSE Err(Str("attempt to deref a non-Atom"), h)
    [] f = "reset!" -> IF Kind(a[1]) = "atom"
                       THEN Ok(a[2], [h EXCEPT !.atom[Content(a[1])] = a[2]])
                       ELSE Err(Str("attempt to reset! a non-Atom"), h)
    [] f = "swap!"  -> Swap(a, h)
    [] f = "neg"    -> Negate(a[1], h)
    [] OTHER -> LET v == Pure(f, a) IN
         CASE v = Error -> Err(Str("invalid args"), h)
           [] v = Panic -> Crash(h)
           [] OTHER -> Ok(v, h)

-----------------------------------------------------------------------------
(* Macros.                                                                 *)

RECURSIVE Quasiquote(_)

Marked(v, s) == /\ Kind(v) = "list" /\ Len(Content(v)) = 2
                /\ Content(v)[1] = Sym(s)

(* qq_iter: the list is built from its end, each element by cons, or by    *)
(* concat if it is to be spliced.                                          *)
Splice(elts) ==
  FoldRight(LAMBDA v, acc :
              IF Marked(v, "splice-unquote")
              THEN List(<<Sym("concat"), Content(v)[2], acc>>)
              ELSE List(<<Sym("cons"), Quasiquote(v), acc>>),
            elts, List(<<>>))

Quasiquote(v) ==
  CASE Marked(v, "unquote") -> Content(v)[2]
    [] Kind(v) = "list"     -> Splice(Content(v))
    [] Kind(v) = "vec"      -> List(<<Sym("vec"), Splice(Content(v))>>)
    [] Kind(v) \in {"hash", "sym"} -> List(<<Sym("quote"), v>>)
    [] OTHER -> v

IsMacroCall(ast, e, h) ==
  /\ Kind(ast) = "list" /\ Kind(Content(ast)[1]) = "sym"
  /\ LET f == EnvGet(e, Content(Content(ast)[1]), h)
     IN  f.st = "ok" /\ Kind(f.v) = "fn" /\ Content(f.v).macro

RECURSIVE MacroExpand(_, _, _)
MacroExpand(ast, e, h) ==
  CASE ast = List(<<>>) -> Crash(h)
    [] ast # List(<<>>) /\ IsMacroCall(ast, e, h) ->
         Run(Apply(EnvGet(e, Content(Content(ast)[1]), h).v, Tail(Content(ast)), h),
             LAMBDA v, g : MacroExpand(v, e, g))
    [] OTHER -> Ok(ast, h)

-----------------------------------------------------------------------------
(* The tables of a circuit.  They are kept under names of their own one    *)
(* environment further out, or in the root.  A table is copied when it is  *)
(* read: an entry is made by reading it, adding the entry and storing the  *)
(* copy, which hides the table it was copied from if that one is still     *)
(* further out.                                                            *)

Holder(e, h) == IF h.env[e].outer = 0 THEN e ELSE h.env[e].outer

(* get_allocations: an empty table if there is none.                       *)
GetAllocations(e, key, h) ==
  LET r == EnvGet(Holder(e, h), key, h)
  IN  IF r.st = "ok" /\ Kind(r.v) = "alloc" THEN Content(r.v) ELSE NoKeys

(* get_enforce_allocs.                                                     *)
GetEnforceAllocs(e, h) ==
  LET r == EnvGet(Holder(e, h), "AllocationsEnforce", h)
  IN  IF r.st = "ok" /\ Kind(r.v) = "vec" THEN Content(Content(r.v)[1]) ELSE <<>>

Ran(kind, name, v, e, h) ==
  [h EXCEPT !.ran = Append(@, [kind |-> kind, name |-> name, v |-> v,
                               near |-> Holder(e, h) = Root])]

(* alloc, alloc-input and alloc-const: the value is evaluated, a function  *)
(* applied to nothing, and what comes of it evaluated once more, before    *)
(* the table is read.                                                      *)
Entry(key, name, e, v, h) ==
  LET table == (name :> v) @@ GetAllocations(e, key, h)
  IN  EnvSet(Holder(e, h), Sym(key), <<"alloc", table>>, h)

Table == [op \in {"alloc", "alloc-input", "alloc-const"} |->
            CASE op = "alloc"       -> "Allocations"
              [] op = "alloc-input" -> "AllocationsInput"
              [] op = "alloc-const" -> "AllocationsConst"]

\* Mutant: the table is read before the value is evaluated.
AllocEager(l, e, h) ==
  LET key == Table[Content(l[1])]
      table == GetAllocations(e, key, h)
      name == PrStr(l[2])
  IN Run(Eval(l[3], e, h), LAMBDA v, g : Run(Eval(v, e, g), LAMBDA x, m :
       Run(EnvSet(Holder(e, m), Sym(key), <<"alloc", (name :> x) @@ table>>, m),
           LAMBDA y, n : Ok(x, Ran(key, name, x, e, n)))))

Alloc(l, e, h) ==
  LET key == Table[Content(l[1])]
      name == PrStr(l[2])
  IN Run(Eval(l[3], e, h), LAMBDA v, g :
       LET r == IF Kind(v) = "func" THEN Apply(v, <<>>, g) ELSE Ok(v, g)
       IN IF r.st = "error" THEN Crash(r.h)
          ELSE Run(r, LAMBDA w, k :
                 Run(Eval(w, e, k), LAMBDA x, m :
                   Run(Entry(key, name, e, x, m), LAMBDA y, n :
                         Ok(x, Ran(key, name, x, e, n))))))

(* One of the three operands of enforce: pairs of a coefficient and a      *)
(* variable.  They are written as a list of lists, or as one pair, or      *)
(* computed by the only element of the operand.                            *)
Pair(v) == <<PrStr(Content(v)[1]), PrStr(Content(v)[2])>>
PairsOf(s, kind) == LET them == SelectSeq(s, LAMBDA v : Kind(v) = kind)
                    IN  [i \in DOMAIN them |-> Pair(them[i])]

Terms(v, e, h) ==
  CASE ~IsSeq(v) \/ Content(v) = <<>> -> Ok(<<>>, h)
    [] Kind(Content(v)[1]) = "list" -> Ok(PairsOf(Content(v), "list"), h)
    [] Len(Content(v)) = 1 ->
         Run(Eval(Content(v)[1], e, h), LAMBDA r, g :
               Ok(IF Kind(r) = "list" THEN PairsOf(Content(r), "vec") ELSE <<>>, g))
    [] OTHER -> Ok(<<Pair(v)>>, h)

Append1(e, c, h) ==
  EnvSet(Holder(e, h), Sym("AllocationsEnforce"),
         Vector(<<<<"enforce", Append(GetEnforceAllocs(e, h), c)>>>>), h)

Enforce(l, e, h) ==
  Run(Terms(l[2], e, h), LAMBDA x, g : Run(Terms(l[3], e, g), LAMBDA y, k :
    Run(Terms(l[4], e, k), LAMBDA z, m :
      LET c == [left |-> x, right |-> y, output |-> z]
      IN  Run(Append1(e, c, m), LAMBDA v, n :
                Ok(Str("enforce-eof"), Ran("AllocationsEnforce", "", c, e, n))))))

-----------------------------------------------------------------------------
(* prove: parameters, a proof and its verification for the circuit that    *)
(* the tables hold.                                                        *)

(* The scalar a table's entry gives a variable or a coefficient; -1 if it  *)
(* gives none, -2 if making it panics.                                     *)
AuxValue(v) == CASE Kind(v) \in {"zk", "hex"} -> Content(v)
                 [] Kind(v) = "str" -> -2
                 [] Kind(v) = "vec" -> IF Content(v) = <<>> THEN -2
                                       ELSE IF Kind(Content(v)[1]) = "zk"
                                            THEN Content(Content(v)[1]) ELSE -1
                 [] OTHER -> -1

InputValue(v) == CASE Kind(v) \in {"zk", "hex"} -> Content(v)
                   [] Kind(v) = "str" -> -2
                   [] OTHER -> -1

ParamValue(v) == CASE Kind(v) = "func" -> LET x == FuncScalar(v) IN
                        IF x = Panic THEN -2 ELSE IF x = Error THEN -1 ELSE Content(x)
                   [] Kind(v) = "str" -> -2
                   [] OTHER -> InputValue(v)

ValuesIn(s) == [i \in DOMAIN s |-> s[i][2]]

(* The variables of a table in the order of its iteration, with the values *)
(* they get; entries that give none are left out.                          *)
Variables(table, V(_)) ==
  SelectSeq(LET keys == Keys(table)
            IN  [i \in DOMAIN keys |-> <<keys[i], V(table[keys[i]])>>],
            LAMBDA x : x[2] # -1)

CircuitAux(allocs)    == Variables(allocs, AuxValue)
CircuitInputs(inputs) == Variables(inputs, InputValue)

(* The public inputs that prove hands to the verifier: it walks the table  *)
(* itself, with a rule of its own for what an input is.                    *)
PublicInputs(table) ==
  LET vals == [i \in DOMAIN Keys(table) |-> table[Keys(table)[i]]]
      kept == SelectSeq(vals, LAMBDA v : Kind(v) \in {"zk", "hex"})
  IN  [i \in DOMAIN kept |-> Content(kept[i])]

(* A coefficient is one, its negation, or an entry of the constants; a     *)
(* pair with another coefficient is left out of the sum.                   *)
\* Mutant: the negation of one is taken for one.
Unsigned(a, params) ==
  CASE a \in {"scalar::one", "scalar::one::neg"} -> 1
    [] a \in DOMAIN params -> ParamValue(params[a])
    [] OTHER -> -1

Coefficient(a, params) ==
  CASE a = "scalar::one"      -> 1
    [] a = "scalar::one::neg" -> P - 1
    [] a \in DOMAIN params    -> ParamValue(params[a])
    [] OTHER                  -> -1

Side(c, op, params) == SelectSeq([i \in DOMAIN c[op] |->
                                    <<Coefficient(c[op][i][1], params), c[op][i][2]>>],
                                 LAMBDA x : x[1] # -1)

Sides == {"left", "right", "output"}

Weight(side, x) == FoldLeft(LAMBDA s, t : IF t[2] = x THEN (s + t[1]) % P ELSE s, 0, side)

Total(side, val) == FoldLeft(LAMBDA s, t : (s + t[1] * val[t[2]]) % P, 0, side)

(* Synthesis panics when a constraint names a variable that has no value.  *)
Synthesizes(aux, inputs, cs, params) ==
  LET known == {aux[i][1] : i \in DOMAIN aux} \cup {inputs[i][1] : i \in DOMAIN inputs}
  IN  /\ \A s \in {aux, inputs} : \A i \in DOMAIN s : s[i][2] # -2
      /\ \A i \in DOMAIN cs : \A op \in Sides :
           /\ \A j \in DOMAIN cs[i][op] : cs[i][op][j][2] \in known \cup {"cs::one"}
           /\ \A j \in DOMAIN cs[i][op] : Coefficient(cs[i][op][j][1], params) # -2

(* The generator of parameters refuses a circuit in which a variable that  *)
(* is no input has no weight in any constraint; a variable whose name is   *)
(* also that of an input is never used.                                    *)
Constrained(aux, inputs, cs, params) ==
  \A i \in DOMAIN aux :
    /\ \A j \in DOMAIN inputs : inputs[j][1] # aux[i][1]
    /\ \E j \in DOMAIN cs, op \in Sides : Weight(Side(cs[j], op, params), aux[i][1]) # 0

Satisfied(aux, inputs, cs, params) ==
  LET val == FoldLeft(LAMBDA m, x : (x[1] :> x[2]) @@ m, "cs::one" :> 1, aux \o inputs)
  IN  \A i \in DOMAIN cs :
        (Total(Side(cs[i], "left", params), val) * Total(Side(cs[i], "right", params), val)) % P
          = Total(Side(cs[i], "output", params), val)

Prove(e, h) ==
  LET table  == GetAllocations(e, "AllocationsInput", h)
      inputs == CircuitInputs(table)
      aux    == CircuitAux(GetAllocations(e, "Allocations", h))
      params == GetAllocations(e, "AllocationsConst", h)
      cs     == GetEnforceAllocs(e, h)
  IN CASE ~Synthesizes(aux, inputs, cs, params) -> Crash(h)
       [] Synthesizes(aux, inputs, cs, params) /\ ~Constrained(aux, inputs, cs, params) ->
            Err(Str("unconstrained variable"), h)
       [] OTHER -> Ok(Nil, [h EXCEPT !.printed = Append(@,
            /\ PublicInputs(table) = ValuesIn(inputs)
            /\ Satisfied(aux, inputs, cs, params))])

-----------------------------------------------------------------------------
(* The evaluator.                                                          *)

EvalAll(s, e, h) ==
  IF s = <<>> THEN Ok(<<>>, h)
  ELSE Run(Eval(Head(s), e, h), LAMBDA v, g :
         Run(EvalAll(Tail(s), e, g), LAMBDA w, k : Ok(<<v>> \o w, k)))

EvalAst(ast, e, h) ==
  CASE Kind(ast) = "sym" -> EnvGet(e, Content(ast), h)
    [] IsSeq(ast) -> Run(EvalAll(Content(ast), e, h),
                         LAMBDA s, g : Ok(<<Kind(ast), s>>, g))
    [] Kind(ast) = "hash" ->
         LET keys == Keys(Content(ast))
         IN  Run(EvalAll([i \in DOMAIN keys |-> Content(ast)[keys[i]]], e, h),
                 LAMBDA s, g : Ok(Hash([k \in DOMAIN Content(ast) |->
                                   s[CHOOSE i \in DOMAIN keys : keys[i] = k]]), g))
    [] OTHER -> Ok(ast, h)

(* The bindings of let* and zk*, one after the other; an odd one is left.  *)
RECURSIVE Bind(_, _, _)
Bind(binds, e, h) ==
  IF Len(binds) < 2 THEN Ok(Nil, h)
  ELSE IF Kind(binds[1]) # "sym" THEN Err(Str("let* with non-Sym binding"), h)
  ELSE Run(Eval(binds[2], e, h), LAMBDA v, g :
         Run(EnvSet(e, binds[1], v, g), LAMBDA w, k :
           Bind(SubSeq(binds, 3, Len(binds)), e, k)))

BindThen(l, e, h) ==
  IF ~IsSeq(l[2]) THEN Err(Str("let* with non-List bindings"), h)
  ELSE Run(Bind(Content(l[2]), e, h), LAMBDA v, g : Eval(l[3], e, g))

Def(l, e, h) == Run(Eval(l[3], e, h), LAMBDA v, g : EnvSet(e, l[2], v, g))

Zk(l, e, h)  == BindThen(l, e, h)

\* Mutant: no environment of its own.
LetShared(l, e, h) == BindThen(l, e, h)

Let(l, e, h) == BindThen(l, Len(h.env) + 1, EnvNew(e, h))

Fn(l, e, h)  == Ok(<<"fn", [ast |-> l[3], env |-> e, params |-> l[2], macro |-> FALSE]>>, h)

(* The macro is defined in the environment of its closure, which shadows   *)
(* the one it is evaluated in.                                             *)
DefMacro(l, e, h) ==
  Run(Eval(l[3], e, h), LAMBDA v, g :
    IF Kind(v) # "fn" THEN Err(Str("set_macro on non-function"), g)
    ELSE EnvSet(Content(v).env, l[2], <<"fn", [Content(v) EXCEPT !.macro = TRUE]>>, g))

(* What was done before the error stays done.                              *)
Try(l, e, h) ==
  LET r == Eval(l[2], e, h)
  IN CASE r.st # "error" \/ Len(l) < 3 -> r
       [] r.st = "error" /\ Len(l) >= 3 /\ Kind(l[3]) # "list" ->
            Err(Str("invalid catch block"), r.h)
       [] OTHER -> Run(EnvBind(e, List(<<Content(l[3])[2]>>), <<r.v>>, r.h),
                       LAMBDA v, g : Eval(Content(l[3])[3], Len(g.env), g))

Do(l, e, h) == Run(EvalAll(SubSeq(l, 2, Len(l) - 1), e, h),
                   LAMBDA s, g : Eval(Last(l), e, g))

(* eval_ast, not eval: of a list the elements are evaluated, and it is not *)
(* applied.                                                                *)
RECURSIVE Repeat(_, _, _, _)
Repeat(n, ast, e, h) ==
  IF n <= 0 THEN Ok(Nil, h)
  ELSE Run(EvalAst(ast, e, h), LAMBDA v, g : Repeat(n - 1, ast, e, g))

DoTimes(l, e, h) ==
  Run(Eval(l[2], e, h), LAMBDA n, g :
    IF Kind(n) = "int" THEN Repeat(Content(n), l[3], e, g)
    ELSE Err(Str("invalid args for dotimes"), g))

If(l, e, h) ==
  Run(Eval(l[2], e, h), LAMBDA v, g :
    CASE Truthy(v) /\ Len(l) >= 3  -> Eval(l[3], e, g)
      [] ~Truthy(v) /\ Len(l) >= 4 -> Eval(l[4], e, g)
      [] OTHER -> Ok(Nil, g))

(* The value of the form is evaluated again, in the root.                  *)
EvalForm(l, e, h) == Run(Eval(l[2], e, h), LAMBDA v, g : Eval(v, Root, g))

(* A head that is no function is no error: the elements are the value.     *)
Application(l, e, h) ==
  Run(EvalAll(l, e, h), LAMBDA s, g :
    IF Kind(s[1]) \in {"func", "fn"} THEN Apply(s[1], Tail(s), g) ELSE Ok(Vector(s), g))

Special(op, l, e, h) ==
  CASE op = "def!"  -> Def(l, e, h)
    [] op = "zk*"   -> Zk(l, e, h)
    [] op = "let*"  -> Let(l, e, h)
    [] op = "quote" -> Ok(l[2], h)
    [] op = "quasiquoteexpand" -> Ok(Quasiquote(l[2]), h)
    [] op = "quasiquote"  -> Eval(Quasiquote(l[2]), e, h)
    [] op = "defmacro!"   -> DefMacro(l, e, h)
    [] op = "macroexpand" -> MacroExpand(l[2], e, h)
    [] op = "try*"  -> Try(l, e, h)
    [] op = "do"    -> Do(l, e, h)
    [] op = "dotimes" -> DoTimes(l, e, h)
    [] op = "if"    -> If(l, e, h)
    [] op = "fn*"   -> Fn(l, e, h)
    [] op = "eval"  -> EvalForm(l, e, h)
    [] op = "setup" -> Run(Eval(l[2], e, h), LAMBDA v, g : Eval(v, e, g))
    [] op = "prove" -> Run(Eval(l[2], e, h), LAMBDA v, g : Prove(e, g))
    [] op = "kill"  -> Err(Str("KILL"), h)
    [] op \in DOMAIN Table -> Alloc(l, e, h)
    [] op = "enforce" -> Enforce(l, e, h)
    [] OTHER -> Application(l, e, h)

Eval(ast, e, h) ==
  CASE Kind(ast) # "list" -> EvalAst(ast, e, h)
    [] ast = List(<<>>) -> Ok(ast, h)
    [] Kind(ast) = "list" /\ ast # List(<<>>) ->
         IF IsMacroCall(ast, e, h)
         THEN Run(MacroExpand(ast, e, h), LAMBDA v, g : Eval(v, e, g))
         ELSE LET l == Content(ast)
              IN  Special(IF Kind(l[1]) = "sym" THEN Content(l[1]) ELSE "", l, e, h)

-----------------------------------------------------------------------------
(* Loading a file: its forms are evaluated in the root, one after the      *)
(* other; the first error ends the load and the process.                   *)

Fresh == [env     |-> <<[data  |-> [f \in UNION {AtLeast[n] : n \in 0..2} |-> Func(f)],
                         outer |-> 0]>>,
          atom    |-> <<>>,
          ran     |-> <<>>,
          printed |-> <<>>]

Loaded == FoldLeft(LAMBDA h, form : Eval(form, Root, h).h, Fresh, Prelude)

Init ==
  /\ file \in DOMAIN Files
  /\ pc = 1
  /\ heap = Loaded
  /\ result = Nil
  /\ status = "running"

Form ==
  /\ status = "running"
  /\ pc <= Len(Files[file])
  /\ \E r \in {Eval(Files[file][pc], Root, heap)} :
       /\ heap' = r.h
       /\ result' = r.v
       /\ status' = IF r.st = "ok" THEN "running" ELSE r.st
  /\ pc' = pc + 1
  /\ UNCHANGED file

End ==
  /\ status = "running"
  /\ pc > Len(Files[file])
  /\ status' = "done"
  /\ UNCHANGED <<file, pc, heap, result>>

Next == Form \/ End

Spec == Init /\ [][Next]_vars

-----------------------------------------------------------------------------
(* What prove reads at the root is what ran: every variable, constant and  *)
(* constraint that a form made in the root or one environment below it, in *)
(* whatever function, macro or operand it was evaluated, each name with    *)
(* the value it got last, the constraints in the order they were made.     *)
(* An entry made while the value of another is evaluated is not lost, nor  *)
(* one made before an error that is caught.                                *)
Kept ==
  LET near(kind) == SelectSeq(heap.ran, LAMBDA x : x.kind = kind /\ x.near)
  IN  /\ \A op \in DOMAIN Table :
           GetAllocations(Root, Table[op], heap)
             = FoldLeft(LAMBDA m, x : (x.name :> x.v) @@ m, NoKeys, near(Table[op]))
      /\ GetEnforceAllocs(Root, heap)
           = [i \in DOMAIN near("AllocationsEnforce") |-> near("AllocationsEnforce")[i].v]
=============================================================================
