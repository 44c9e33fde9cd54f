---- MODULE MC_tables ----
EXTENDS ParserConverter
MCWidth == [e |-> 1, a |-> 2, b |-> 1, c |-> 1]

St(stmts, select, cases) == [stmts |-> stmts, select |-> select, cases |-> cases]
To(k, s) == [key |-> k, next |-> s]
Accepts(stmts) == St(stmts, Direct, <<To(Default, "accept")>>)

MCStarts ==
  LET sel == {<<To(0, "a"), To(1, "b")>>, <<To(1, "b"), To(Default, "a")>>,
              <<To(0, "a"), To(1, "reject"), To(Default, "b")>>, <<To(0, "a"), To(Default, "accept")>>}
  IN {St(<<>>, "ioa", cs) : cs \in sel} \cup {St(<<"e">>, "e", cs) : cs \in sel}
       \cup {Accepts(<<"e">>), St(<<"e", "meta">>, "e", <<To(0, "a"), To(1, "b")>>)}
MCAs == {Accepts(<<"a">>), Accepts(<<"a", "meta">>), St(<<"a">>, "a", <<To(0, "c"), To(1, "b")>>),
         St(<<>>, "e", <<To(0, "c"), To(1, "accept")>>), St(<<"a">>, Direct, <<To(Default, "c")>>)}
MCBs == {Accepts(<<"b">>), St(<<"b">>, "b", <<To(1, "c")>>),
         St(<<"b">>, "b", <<To(1, "c"), To(Default, "reject")>>)}

MCParsers == {[sorted |-> <<"start", "a", "b", "c">>,
               at |-> [start |-> s, a |-> x, b |-> y, c |-> Accepts(<<"c">>)]] :
                s \in MCStarts, x \in MCAs, y \in MCBs}
MCOffsets == {<<0>>, <<1>>, <<0, 2>>, <<1, 0, 2>>}

\* The parser of mpls-lsr.up4, called by a package that has parsed a header: the bottom of
\* the label stack accepts.
MCMpls == {[sorted |-> <<"start", "a">>,
            at |-> [start |-> St(<<"e">>, "e", <<To(0, "a"), To(1, "accept")>>),
                    a |-> Accepts(<<"a">>)]]}
MCOne == {<<1>>}
====
