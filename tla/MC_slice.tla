---- MODULE MC_slice ----
EXTENDS SlicePipeControl
\* Statements of package p.
Use(p) == Stmt(<<"use", p>>, "")
Read(p) == Stmt(<<"read", p>>, "im")
Out(p) == Stmt(<<"out", p>>, "out")
VOp(p) == Stmt(<<"vop", p>>, "vop")
C(n) == Cond("c", n)
Q(n) == Cond("q", n)

\* Controls and packages the main control calls.
MCCalled ==
  {Call(<<"f">>, NoPkg, Block(<<Use("m"), Read("m"), Use("m")>>)),
   Call(<<"g">>, NoPkg, Block(<<Out("m"), Block(<<Use("m"), Read("m")>>), VOp("m")>>)),
   Package("n", Block(<<Use("n"), Read("n"), Use("n")>>)),
   Package("n", Block(<<VOp("n"), If(C("im"), Block(<<Use("n")>>), Block(<<VOp("n")>>))>>))}
MCIfs ==
  {If(C(""), Block(<<Use("m")>>), None),
   If(C("im"), Block(<<Use("m")>>), Block(<<Out("m")>>)),
   If(C(""), Block(<<Use("m")>>), Block(<<Out("m"), Read("m"), Use("m")>>)),
   If(C(""), Block(<<Use("m"), Read("m")>>), Block(<<Use("m")>>)),
   If(C(""), Read("m"), Read("m")),
   If(C(""), Call(<<"f">>, NoPkg, Block(<<Use("m"), Read("m"), Use("m")>>)), None)}
MCNested ==
  {Block(<<Use("m"), If(Q("im"), Use("m"), Out("m"))>>),
   If(Q(""), Block(<<Use("m")>>), Block(<<Use("m"), If(C("im"), Use("m"), None)>>))}
MCStmts ==
  {Use("m"), Read("m"), Out("m"), VOp("m"), Table(<<"table", "m">>, "out")}
    \cup MCCalled \cup MCIfs \cup MCNested
MCControls == {Package("m", Block(ss)) : ss \in [1 .. 2 -> MCStmts]}
  \cup {Package("m", Block(<<s, Use("m"), t, u>>)) :
          s \in {Use("m"), Read("m")}, t \in MCCalled, u \in {Read("m"), Out("m")}}
====
