---- MODULE MC_parser ----
EXTENDS ParserUnroll
MCWidth == [a |-> 1, b |-> 2, c |-> 4]
\* Acyclic: a state names only states behind it.
MCAcyclic == [start |-> SUBSET {"a", "b", "c", "accept"} \ {{}},
              a |-> SUBSET {"b", "c", "accept"} \ {{}},
              b |-> {{"c"}, {"reject"}, {"c", "accept"}},
              c |-> {{"accept"}}]
\* A state extracts a header of its own, or that of another state, or two.
MCAny == [start |-> {<<>>}, a |-> {<<>>, <<"a">>}, b |-> {<<"b">>, <<"a">>},
          c |-> {<<>>, <<"c">>, <<"a", "b">>}]
====
