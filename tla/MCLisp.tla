------------------------------- MODULE MCLisp -------------------------------
(* Files in the notation of the interpreter's syntax trees: the helpers of *)
(* util.lisp and gadgets of macro-test.lisp, and files that call them over *)
(* a field of 13 elements and the curve -u^2 + v^2 = 1 + D u^2 v^2.        *)
EXTENDS Lisp

L(s) == List(s)
V(s) == Vector(s)
Call(f, args) == L(<<Sym(f)>> \o args)
Q(v) == Call("quasiquote", <<v>>)
U(s) == Call("unquote", <<Sym(s)>>)
DefForm(s, v) == Call("def!", <<Sym(s), v>>)
FnForm(params, body) ==
  Call("fn*", <<V([i \in DOMAIN params |-> Sym(params[i])]), body>>)
LetForm(s, v, body) == Call("let*", <<V(<<Sym(s), v>>), body>>)

(* util.lisp.                                                              *)
Util == <<
  DefForm("inc", FnForm(<<"a">>, Call("i+", <<Sym("a"), Num(1)>>))),
  DefForm("gensym", LetForm("counter", Call("atom", <<Num(0)>>),
    FnForm(<<>>, Call("symbol", <<Call("str", <<Str("G__"),
      Call("swap!", <<Sym("counter"), Sym("inc")>>)>>)>>)))) >>

(* A gadget is a macro whose body is `( (let* [wire (gensym) ...] (...)) )`. *)
Gadget(name, params, wires, body) ==
  Call("defmacro!", <<Sym(name), FnForm(params, L(<<Call("let*", <<
    V(FlattenSeq([i \in DOMAIN wires |-> <<Sym(wires[i]), Call("gensym", <<>>)>>])),
    L(body)>>)>>))>>)

Put(op, wire, v) == Q(Call(op, <<U(wire), v>>))
DefPut(op, wire, v) == Q(Call("def!", <<U(wire), Call(op, <<U(wire), v>>)>>))
Claim(left, right, output) == Q(Call("enforce", <<left, right, output>>))
Plus(s)  == L(<<Sym("scalar::one"), IF s = "cs::one" THEN Sym(s) ELSE U(s)>>)
Minus(s) == L(<<Sym("scalar::one::neg"), U(s)>>)

D == 6

ZkSquare == Gadget("zk-square", <<"var">>, <<"v1", "v2">>, <<
  Put("alloc", "v1", U("var")),
  Q(DefForm("output", Call("alloc-input", <<U("v2"), Call("square", <<U("var")>>)>>))),
  Claim(Plus("v1"), Plus("v1"), Plus("v2")),
  Q(Hash("v2" :> Sym("output")))>>)

ZkMul == Gadget("zk-mul", <<"val1", "val2">>, <<"v1", "v2", "var">>, <<
  Put("alloc", "v1", U("val1")),
  Put("alloc", "v2", U("val2")),
  Q(DefForm("result", Call("alloc-input", <<U("var"), Call("*", <<U("val1"), U("val2")>>)>>))),
  Claim(Plus("v1"), Plus("v2"), Plus("var")),
  Q(Hash("result" :> Sym("result")))>>)

ZkNonzero == Gadget("zk-nonzero?", <<"var">>, <<"inv", "v1">>, <<
  Put("alloc", "inv", Call("invert", <<U("var")>>)),
  Put("alloc", "v1", U("var")),
  Claim(Plus("v1"), Plus("inv"), Plus("cs::one"))>>)

LastLast(v) == Call("last", <<Call("last", <<v>>)>>)

SquareOf(val) == Call("get", <<Call("nth", <<Call("nth",
                   <<Call("zk-square", <<U(val)>>), Num(0)>>), Num(3)>>), Str("v2")>>)

ZkWitness == Gadget("zk-witness", <<"val1", "val2">>, <<"u2", "v2", "u2v2", "EDWARDS_D">>, <<
  DefPut("alloc-const", "EDWARDS_D", Call("scalar", <<Hex(D)>>)),
  DefPut("alloc", "u2", SquareOf("val1")),
  DefPut("alloc", "v2", SquareOf("val2")),
  Q(DefForm("result", Call("alloc-input", <<U("u2v2"), Call("get",
    <<LastLast(Call("zk-mul", <<U("u2"), U("v2")>>)), Str("result")>>)>>))),
  Claim(L(<<Minus("u2"), Plus("v2")>>), Plus("cs::one"),
        L(<<Plus("cs::one"), L(<<U("EDWARDS_D"), U("u2v2")>>)>>)),
  Q(Hash("result" :> Sym("result")))>>)

ZkBoolean == Gadget("zk-boolean", <<"val">>, <<"var">>, <<
  Put("alloc", "var", U("val")),
  Q(Call("enforce", <<Plus("cs::one"), Plus("var"), Plus("var"), L(<<>>)>>))>>)

ZkDouble == Gadget("zk-double", <<"val1", "val2">>,
                   <<"u", "v", "u3", "v3", "T", "A", "C", "EDWARDS_D">>, <<
  DefPut("alloc-const", "EDWARDS_D", Call("scalar", <<Hex(D)>>)),
  DefPut("alloc", "u", U("val1")),
  DefPut("alloc", "v", U("val2")),
  DefPut("alloc", "T", Call("*", <<Call("+", <<U("val1"), U("val2")>>),
                                   Call("+", <<U("val1"), U("val2")>>)>>)),
  DefPut("alloc", "A", Call("*", <<U("u"), U("v")>>)),
  DefPut("alloc", "C", Call("*", <<Call("square", <<U("A")>>), U("EDWARDS_D")>>)),
  DefPut("alloc-input", "u3", Call("/", <<Call("double", <<U("A")>>),
                                          Call("+", <<Sym("scalar::one"), U("C")>>)>>)),
  DefPut("alloc-input", "v3", Call("/", <<Call("-", <<U("T"), Call("double", <<U("A")>>)>>),
                                          Call("-", <<Sym("scalar::one"), U("C")>>)>>)),
  Claim(L(<<Plus("u"), Plus("v")>>), L(<<Plus("u"), Plus("v")>>), Plus("T")),
  Claim(L(<<U("EDWARDS_D"), U("A")>>), Plus("A"), Plus("C")),
  Claim(L(<<Plus("cs::one"), Plus("C")>>), Plus("u3"), L(<<Plus("A"), Plus("A")>>)),
  Claim(L(<<Plus("cs::one"), Minus("C")>>), Plus("v3"),
        L(<<Plus("T"), Minus("A"), Minus("A")>>)),
  Hash("u3" :> Sym("u3") @@ "v3" :> Sym("v3"))>>)

Coord(s, c) == Call("get", <<Sym(s), Str(c)>>)

NotSmallOrder == DefForm("zk-not-small-order?", FnForm(<<"u", "v">>, L(<<
  DefForm("first-doubling", LastLast(Call("zk-double", <<Sym("u"), Sym("v")>>))),
  DefForm("second-doubling", LastLast(Call("zk-double",
    <<Coord("first-doubling", "u3"), Coord("first-doubling", "v3")>>))),
  DefForm("third-doubling", LastLast(Call("zk-double",
    <<Coord("second-doubling", "u3"), Coord("second-doubling", "v3")>>))),
  Call("zk-nonzero?", <<Coord("third-doubling", "u3")>>)>>)))

Library == Util \o <<NotSmallOrder, ZkNonzero, ZkSquare, ZkMul, ZkWitness, ZkDouble, ZkBoolean>>

-----------------------------------------------------------------------------
(* Files that call the gadgets for the points of the curve, given as       *)
(* scalars or as strings, and for pairs of scalars.                        *)

Field  == 0..P - 1
Points == {p \in Field \X Field :
             (p[2]*p[2] + (P - 1)*p[1]*p[1]) % P = (1 + D * ((p[1]*p[1]*p[2]*p[2]) % P)) % P}
Twice(p) == LET c == (D * ((p[1]*p[1]*p[2]*p[2]) % P)) % P
            IN <<(2 * p[1] * p[2] * Inv((1 + c) % P)) % P,
                 (((p[1]*p[1] + p[2]*p[2]) % P) * Inv((1 + P - c) % P)) % P>>

Given(kind, k) == IF kind = "zk" THEN Call("scalar", <<Hex(k)>>) ELSE Hex(k)

DoubleFile(p, kind) == <<
  DefForm("r", LastLast(Call("zk-double", <<Given(kind, p[1]), Given(kind, p[2])>>))),
  Call("prove", <<Nil>>),
  L(<<Sym("list"), Coord("r", "u3"), Coord("r", "v3")>>)>>

OrderFile(p) == <<
  Call("zk-not-small-order?", <<Given("hex", p[1]), Given("zk", p[2])>>),
  Call("prove", <<Nil>>)>>

WitnessFile(p) == <<
  Call("zk-witness", <<Given("zk", p[1]), Given("hex", p[2])>>),
  Call("prove", <<Nil>>)>>

(* A wire for every bit of k, and a count of the bits (in jj-mul).         *)
BitsFile(k) == <<
  DefForm("bits", Call("unpack-bits", <<Given("zk", k)>>)),
  Call("eval", <<Call("map", <<Sym("zk-boolean"), Sym("bits")>>)>>),
  DefForm("acc", Num(0)),
  Call("dotimes", <<Call("count", <<Sym("bits")>>),
                    L(<<DefForm("acc", Call("inc", <<Sym("acc")>>))>>)>>),
  Call("prove", <<Nil>>),
  Sym("acc")>>

(* Two products, one of them made in a function, and the claim that a and  *)
(* b are the same.                                                         *)
ClaimFile(a, b) == <<
  DefForm("twice", FnForm(<<"x">>, Call("zk-mul", <<Sym("x"), Sym("x")>>))),
  Call("prove", <<Call("do", <<
    Call("twice", <<Given("zk", a)>>),
    Call("zk-mul", <<Given("hex", a), Given("zk", b)>>),
    Call("alloc", <<Sym("a"), Given("zk", a)>>),
    LetForm("k", Call("list", <<Given("hex", b)>>),
      Call("alloc-input", <<Sym("b"), Call("first", <<Sym("k")>>)>>)),
    Call("enforce", <<L(<<Sym("scalar::one"), Sym("a")>>),
                      L(<<Sym("scalar::one"), Sym("cs::one")>>),
                      L(<<Sym("scalar::one"), Sym("b")>>)>>),
    Call("alloc-input", <<Sym("unused"), Call("vector", <<Given("zk", a)>>)>>)>>)>>)>>

(* Entries made within each other: each name of a path wraps the form made *)
(* of the rest of it.                                                      *)
Wrap(c, f) ==
  CASE c = "x"   -> Call("alloc", <<Sym("x"), f>>)
    [] c = "y"   -> Call("alloc", <<Sym("y"), f>>)
    [] c = "let" -> LetForm("k", f, Call("alloc", <<Sym("x"), Sym("k")>>))
    [] c = "fn"  -> L(<<FnForm(<<"k">>, Call("alloc", <<Sym("y"), Sym("k")>>)), f>>)
    [] c = "try" -> Call("try*", <<Call("do", <<f, Call("throw", <<Num(2)>>)>>),
                      Call("catch*", <<Sym("e"), Call("alloc", <<Sym("x"), Sym("e")>>)>>)>>)
    [] c = "enforce" -> Call("enforce", <<L(<<V(<<f>>)>>), L(<<>>), L(<<>>)>>)

Wraps == {"x", "y", "let", "fn", "try", "enforce"}
EntryFile(path) == <<FoldRight(Wrap, path, Call("alloc", <<Sym("z"), Num(1)>>))>>

(* A closure that is called where one of its variables has another value,  *)
(* and what it returns called once more.                                   *)
Bodies == {Sym(s) : s \in {"x", "y"}} \cup
          {FnForm(<<q>>, Sym(s)) : q \in {"x", "y"}, s \in {"x", "y"}}
ScopeForm(p, body, q, times) ==
  Call("let*", <<V(<<Sym("x"), Num(1), Sym("y"), Num(2)>>),
    LetForm("f", FnForm(<<p>>, body), LetForm(q, Num(3),
      IF times = 1 THEN Call("f", <<Num(4)>>)
                   ELSE L(<<Call("f", <<Num(4)>>), Num(5)>>)))>>)

Names == [
  double : Points \X {"zk", "hex"}] \cup [order : Points] \cup [claim : Field \X Field]
    \cup [witness : Field \X Field] \cup [bits : Field]
    \cup [entry : UNION {[1..n -> Wraps] : n \in 1..4}]
    \cup [scope : {"x", "y"} \X Bodies \X {"x", "y"} \X {1, 2}]

FileOf(n) ==
  CASE "double" \in DOMAIN n -> DoubleFile(n.double[1], n.double[2])
    [] "order" \in DOMAIN n  -> OrderFile(n.order)
    [] "witness" \in DOMAIN n -> WitnessFile(n.witness)
    [] "bits" \in DOMAIN n   -> BitsFile(n.bits)
    [] "claim" \in DOMAIN n  -> ClaimFile(n.claim[1], n.claim[2])
    [] "entry" \in DOMAIN n  -> EntryFile(n.entry)
    [] "scope" \in DOMAIN n  -> <<ScopeForm(n.scope[1], n.scope[2], n.scope[3], n.scope[4])>>

Shelf == [n \in Names |-> FileOf(n)]

-----------------------------------------------------------------------------
(* A reference for scoping: environments are values, copied into closures. *)

RECURSIVE Meaning(_, _)
Meaning(t, env) ==
  LET c == Content(t) IN
  CASE Kind(t) = "int" -> t
    [] Kind(t) = "sym" -> env[c]
    [] Kind(t) = "list" /\ c[1] = Sym("fn*") ->
         <<"closure", Content(Content(c[2])[1]), c[3], env>>
    [] Kind(t) = "list" /\ c[1] = Sym("let*") ->
         Meaning(c[3], FoldLeft(
           LAMBDA m, i : (Content(Content(c[2])[2*i - 1]) :> Meaning(Content(c[2])[2*i], m)) @@ m,
           env, [i \in 1..Len(Content(c[2])) \div 2 |-> i]))
    [] OTHER ->
         LET f == Meaning(c[1], env)
             a == Meaning(c[2], env)
         IN  IF Kind(f) = "closure" THEN Meaning(f[3], (f[2] :> a) @@ f[4]) ELSE Vector(<<f, a>>)

-----------------------------------------------------------------------------
Ended(kind) == status # "running" /\ kind \in DOMAIN file

(* A closure sees the variables of the place where it was made, with the   *)
(* values they have there, wherever it is called (env_bind in the closure's *)
(* environment, let* in a new one).                                        *)
Lexical ==
  Ended("scope") =>
    LET want == Meaning(Files[file][1], NoKeys)
    IN  IF Kind(want) = "closure" THEN Kind(result) = "fn" ELSE result = want

(* zk-double returns the double of the point, whether scalars or strings   *)
(* carry it, and zk-not-small-order? ends in a panic exactly for points of *)
(* which eight times is the point with u = 0.                              *)
CurveGadgets ==
  /\ Ended("double") =>
       /\ status = "done"
       /\ \A i \in {1, 2} : Content(Content(result)[i]) = Twice(file.double[1])[i]
  /\ Ended("order") =>
       (status = "done" <=> Twice(Twice(Twice(file.order)))[1] # 0)

(* A proof verifies exactly when the claims its form enforces are true: the *)
(* variables, the coefficients, the constants and the public inputs of the *)
(* circuit are those that the file allocated.                              *)
ProofsDecide ==
  /\ Ended("double") => heap.printed = <<TRUE>>
  /\ Ended("order") /\ status = "done" => heap.printed = <<TRUE>>
  /\ Ended("witness") => heap.printed = <<file.witness \in Points>>
  /\ Ended("bits") => heap.printed = <<TRUE>> /\ result = Num(Bits)
  /\ Ended("claim") => heap.printed = <<file.claim[1] = file.claim[2]>>
=============================================================================
