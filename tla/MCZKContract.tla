---------------------------- MODULE MCZKContract ----------------------------
(* Sources over the field of three elements: a parameter, two bits of it,  *)
(* a local, and public values around them.                                 *)
EXTENDS ZKContract

MCConstants == <<[symbol |-> "one", value |-> 1], [symbol |-> "two", value |-> 2]>>

Line(cmd, args) == [cmd |-> cmd, args |-> args]
Lc(cmd, lc, args) == [cmd |-> cmd, lc |-> lc, args |-> args]
enforce == Lc("enforce", 0, <<>>)

Alloc == <<Line("public", <<"s">>), Line("param", <<"x">>), Line("private", <<"b0">>),
           Line("private", <<"b1">>), Line("public", <<"r">>)>>

\* Any two operations between declaring and publishing.
Pairs == {<<"x", "t">>, <<"t", "x">>, <<"t", "t">>, <<"t", "b0">>}
Operations ==
  {Line(cmd, args) : cmd \in {"set", "mul", "add", "sub", "divide"}, args \in Pairs}
    \cup {Line(cmd, <<a>>) : cmd \in {"double", "square", "invert"}, a \in {"x", "t"}}
    \cup {Line("load", <<a, c>>) : a \in {"b0", "t"}, c \in {"one", "two"}}
    \cup {Line("unpack_bits", <<"x", a, b>>) : a \in {"b0", "t"}, b \in {"b1", "r", "t"}}
    \cup {Line("load", <<"two", "one">>), Line("dump_local", <<>>), Line("debug", <<"t">>)}
Publish == <<Line("set", <<"r", "t">>), Line("add", <<"r", "x">>), Line("set", <<"s", "b0">>)>>

\* s and r are what they were set to.
Copies == <<Lc("lc_add", 0, <<"s">>), Lc("lc_add_one", 1, <<>>), Lc("lc_add", 2, <<"b0">>), enforce>>
\* x = b0 + 2 b1, and b0 * (1 - b0) = 0
Decomposition ==
  <<Lc("lc_add", 0, <<"b0">>), Lc("lc_coeff_double", 0, <<>>), Lc("lc_add", 0, <<"b1">>),
    Lc("lc_coeff_reset", 0, <<>>), Lc("lc_sub", 0, <<"x">>), Lc("lc_add_one", 1, <<>>), enforce,
    Lc("lc_add_one", 0, <<>>), Lc("lc_sub", 0, <<"b0">>), Lc("lc_add", 1, <<"b0">>), enforce>>
\* (2 x - 1) * r = 2 r + 1, doubled over an enforce
Others ==
  <<Lc("lc_coeff_double", 0, <<>>), enforce,
    Lc("lc_add_coeff", 0, <<"two", "x">>), Lc("lc_sub_one", 0, <<>>), Lc("lc_add", 1, <<"r">>),
    Lc("lc_coeff_double", 0, <<>>), Lc("lc_add", 2, <<"r">>), Lc("lc_add_constant", 2, <<"one">>),
    enforce>>
\* x + b0 + b1 is itself: nothing is asked of the private variables.
Mentioned ==
  <<Lc("lc_add", 0, <<"x">>), Lc("lc_add", 0, <<"b0">>), Lc("lc_add", 0, <<"b1">>), Lc("lc_add_one", 1, <<>>),
    Lc("lc_add", 2, <<"x">>), Lc("lc_add", 2, <<"b0">>), Lc("lc_add", 2, <<"b1">>), enforce>>

MCSources ==
  {Alloc \o <<Line("local", <<"t">>), o1, o2>> \o Publish \o Copies \o Decomposition :
     o1 \in Operations, o2 \in Operations}
    \cup {Alloc \o <<Line("local", <<"t">>), o>> \o Publish \o Others \o Mentioned : o \in Operations}
    \cup {Alloc \o <<Line("local", <<"t">>), Line("local", <<"u">>), o, Line("set", <<"u", "x">>),
                      Line("unpack_bits", <<"x", "t", "u">>)>> \o Publish \o Copies \o Mentioned : o \in Operations}

\* A local declared again, as mimc.psm does in a loop, and then another.
RedeclaredSources ==
  {Alloc \o <<Line("local", <<"t">>), Line("local", <<"t">>), Line("local", <<"u">>),
              Line("load", <<"u", "one">>), o>> \o Publish \o Copies \o Mentioned : o \in Operations}

\* A constant declared again after another one.
RedeclaredConstants == MCConstants \o <<[symbol |-> "one", value |-> 1]>>
=============================================================================
