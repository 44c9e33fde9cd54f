---- MODULE SlicePipeControl ----
(***************************************************************************)
(* CSA::SlicePipeControl, PartitionP4Control and CreateAllPartitions: the  *)
(* main control is cut where a statement is not allowed in the pipeline    *)
(* (ingress or egress) reached so far, part 2 is cut again with the other  *)
(* pipeline's rules, and so on.  getControls of the backends deals the     *)
(* parts out to the two pipelines, which the module then executes.         *)
(***************************************************************************)
EXTENDS Naturals, Sequences, SequencesExt

CONSTANTS
  Controls,        \* main controls
  Conds,           \* names of the conditions in them
  MaxPartitions    \* bound: the loop over the parts may run this often

----------------------------------------------------------------------------
(* Statements.  id: what it is and of which package.  needs: "im" for        *)
(* im_t.get_value and multicast_engine.apply, "out" for set_out_port, "vop"  *)
(* for setValid and setInvalid, or "".                                       *)

None == [kind |-> "none"]
Stmt(i, n) == [kind |-> "stmt", id |-> i, needs |-> n]
\* A table, with what its actions need; or the call of an action, which visits the action
\* in the same way.  Actions are locals of the control.
Table(i, n) == [kind |-> "table", id |-> i, needs |-> n]
Block(ss) == [kind |-> "block", stmts |-> ss]
If(c, t, e) == [kind |-> "if", cond |-> c, then |-> t, else |-> e]
Cond(i, n) == [id |-> i, needs |-> n, flag |-> 0]
FlagIs(f, k) == [id |-> f, needs |-> "", flag |-> k]        \* if_N == k
SetFlag(f, k) == [kind |-> "set", flag |-> f, val |-> k]
\* A call of control n; pkg names the package the control was converted from, if any.
Call(n, p, b) == [kind |-> "call", name |-> n, pkg |-> p, body |-> b]

NoPkg == ""

\* What Converter makes of a package.
Package(p, b) ==
  Call(<<p>>, p, Block(<< Stmt(<<"parse", p>>, ""),
                          Call(<<p, "control">>, NoPkg, b),
                          Stmt(<<"deparse", p>>, "") >>))

RECURSIVE SubStmts(_, _)
\* s and the statements in it, those of the controls it calls too if deep.
SubStmts(s, deep) ==
  {s} \cup CASE s.kind = "block" -> UNION {SubStmts(s.stmts[i], deep) : i \in DOMAIN s.stmts}
             [] s.kind = "if" -> SubStmts(s.then, deep) \cup SubStmts(s.else, deep)
             [] s.kind = "call" /\ deep -> SubStmts(s.body, deep)
             [] OTHER -> {}

----------------------------------------------------------------------------
(* SlicePipeControl.  Visiting a statement gives                             *)
(*   slice   whether it has to be cut                                        *)
(*   node    what the visitor puts in its place                              *)
(*   half    slicedHalf, its part in the upper partition, or None            *)
(*   vec     what it adds to newStmtVec, for the lower partition             *)
(*   bug     whether the compiler aborts                                     *)
(*   erased  the controls that give way to two parts                         *)

Uncut(s) == [slice |-> FALSE, node |-> s, half |-> None, vec |-> <<>>,
             bug |-> FALSE, erased |-> {}]

\* Mutant: set_out_port is allowed everywhere.
SlicesAtReads(state, needs) == state = "ES_RW_IM_R" /\ needs = "im"

\* processExternMethodCall.
Slices(state, needs) ==
  \/ state = "ES_RW_IM_R" /\ needs = "im"
  \/ state = "ES_R_EM_R" /\ needs = "out"

\* ScanForHdrVOps, over one half: called controls and actions are not scanned.
HasVOps(ss) == \E s \in SubStmts(Block(ss), FALSE) : s.kind = "stmt" /\ s.needs = "vop"

\* The actions are visited as declarations first, before the body in which a table or a
\* statement calls them; one that slices becomes null.
NullAction(state, b) == \E s \in SubStmts(b, FALSE) : s.kind = "table" /\ Slices(state, s.needs)

\* bs is redeclared in the inner block: a statement that is none is dropped.
AppendStatement(curr, in) ==
  IF in = None THEN curr
  ELSE Block(IF curr.kind = "block" THEN Append(curr.stmts, in) ELSE <<>>)

\* Mutant: always behind the statement that slices.
RestBehind(ss, i, v) == SubSeq(ss, i + 1, Len(ss))

\* What part 2 of a block gets of it as it is: also statement i, if it has no upper half.
Rest(ss, i, v) == SubSeq(ss, IF v.half = None THEN i ELSE i + 1, Len(ss))

\* preorder(BlockStatement): r are the visits of its statements, up to the first that slices.
CutBlock(s, r) ==
  LET i == Len(r)
      v == r[i]
      bug == \E j \in DOMAIN r : r[j].bug
  IN IF i = 0 \/ ~v.slice THEN [Uncut(s) EXCEPT !.bug = bug]
     ELSE [slice |-> TRUE, node |-> None,
           half |-> Block(SubSeq(s.stmts, 1, i - 1) \o (IF v.half = None THEN <<>> ELSE <<v.half>>)),
           vec |-> <<Block(Reverse(v.vec) \o Rest(s.stmts, i, v))>>,
           bug |-> bug, erased |-> v.erased]

\* preorder(IfStatement): t and e are the visits of the branches.  A condition that slices
\* takes the whole statement along.  A branch that does is guarded by a flag in the lower
\* partition; if it is a block it is null by then, so that a then-branch aborts the compiler
\* and an else-branch is gone from the upper one.
CutIf(state, s, t, e) ==
  LET f == s.cond.id
      Assign(r, k) == IF r.slice THEN SetFlag(f, k) ELSE None
      Branch(r, k) == IF r.node = None THEN None ELSE AppendStatement(r.node, Assign(r, k))
      Lower(r, k) == IF r.slice THEN <<If(FlagIs(f, k), Block(Reverse(r.vec)), None)>> ELSE <<>>
  IN IF Slices(state, s.cond.needs) THEN [Uncut(s) EXCEPT !.slice = TRUE]
     ELSE IF ~(t.slice \/ e.slice) THEN [Uncut(s) EXCEPT !.bug = t.bug \/ e.bug]
     ELSE [slice |-> TRUE, node |-> None,
           half |-> If(s.cond, Branch(t, 1), Branch(e, 2)),
           vec |-> Lower(t, 1) \o Lower(e, 2),
           bug |-> t.bug \/ e.bug \/ t.node = None,
           erased |-> t.erased \cup e.erased]

\* Mutant: the lower part of a package is not given its headers.
NoEgressParser(p) == <<>>

\* ControlStateReconInfo: the calls that hand a package's headers to the other part.
IngressDeparser(p) == IF p = NoPkg THEN <<>> ELSE <<Stmt(<<"ingress_deparser", p>>, "")>>
EgressParser(p) == IF p = NoPkg THEN <<>> ELSE <<Stmt(<<"egress_parser", p>>, "")>>

\* preorder(P4Control): r is the visit of its body.  Neither part is found in
\* controlToReconInfoMap again.
CutControl(state, c, r) ==
  LET part1 == r.half.stmts \o IngressDeparser(c.pkg)
      part2 == EgressParser(c.pkg) \o r.vec
  IN [slice |-> r.slice,
      parts |-> IF r.slice THEN << Call(Append(c.name, "0"), NoPkg, Block(part1)),
                                   Call(Append(c.name, "1"), NoPkg, Block(part2)) >> ELSE <<c>>,
      bug |-> \/ r.bug \/ NullAction(state, c.body)
              \/ r.slice /\ HasVOps(part1) /\ HasVOps(part2),
      erased |-> IF r.slice THEN r.erased \cup {c.name} ELSE {}]

\* preorder(MethodCallExpression) for a control, cut by a SlicePipeControl of its own.
CutCall(s, c) ==
  IF ~c.slice THEN [Uncut(s) EXCEPT !.bug = c.bug]
  ELSE [slice |-> TRUE, node |-> c.parts[1], half |-> c.parts[1], vec |-> <<c.parts[2]>>,
        bug |-> c.bug, erased |-> c.erased]

RECURSIVE Visit(_, _), Visits(_, _)
Visits(state, ss) ==
  IF ss = <<>> THEN <<>>
  ELSE LET UpTo(v) == <<v>> \o (IF v.slice THEN <<>> ELSE Visits(state, Tail(ss)))
       IN UpTo(Visit(state, Head(ss)))
Visit(state, s) ==
  CASE s.kind = "block" -> CutBlock(s, Visits(state, s.stmts))
    [] s.kind = "if" -> CutIf(state, s, Visit(state, s.then), Visit(state, s.else))
    [] s.kind = "call" -> CutCall(s, CutControl(state, s, Visit(state, s.body)))
    [] s.kind = "stmt" -> [Uncut(s) EXCEPT !.slice = Slices(state, s.needs)]
    [] OTHER -> Uncut(s)

----------------------------------------------------------------------------
VARIABLES
  stage,            \* "slice", "ingress", "egress", "done", or "bug": aborted
  main,             \* the control as it was
  control,          \* the one called *controlTypeName
  constraintState,
  partitions,
  cond,             \* the values of the conditions for this packet
  flag,             \* the fields if_N of the shared structs (0: neither 1 nor 2)
  todo,             \* the rest of the pipeline's statements
  trace             \* what each pipeline has executed

inputs == <<main, cond, flag>>
sliceVars == <<control, constraintState, partitions>>
vars == <<stage, inputs, sliceVars, todo, trace>>

\* Mutant: every part is cut by the rules of the ingress.
KeepState(state) == state

NextState(state) == IF state = "ES_RW_IM_R" THEN "ES_R_EM_R" ELSE "ES_RW_IM_R"

\* A control that was cut is replaced by its parts in the program: another call of it
\* no longer resolves.
Dangling(c) ==
  \E p \in ToSet(c.parts) : \E s \in SubStmts(p.body, TRUE) :
    s.kind = "call" /\ s.name \in c.erased

\* PartitionP4Control on a control that SlicePipeControl has cut.
Partition(c) ==
  /\ c.slice /\ Len(partitions) < MaxPartitions
  /\ stage' = IF c.bug \/ Dangling(c) THEN "bug" ELSE "slice"
  /\ partitions' = Append(partitions, c.parts[1])
  /\ control' = c.parts[2]
  /\ constraintState' = NextState(constraintState)
  /\ UNCHANGED <<inputs, todo, trace>>

\* getControls: 0, 2, ... go to the ingress, 1, 3, ... to the egress.
GetControls(ps, first) ==
  [i \in 1 .. (Len(ps) + 1 - first) \div 2 |-> ps[2 * i - 1 + first]]

\* PartitionP4Control on one it has left alone.
EndPartition(c) ==
  /\ ~c.slice
  /\ stage' = IF c.bug THEN "bug" ELSE "ingress"
  /\ partitions' = Append(partitions, control)
  /\ todo' = GetControls(partitions', 0)
  /\ UNCHANGED <<inputs, control, constraintState, trace>>

\* One round of CreateAllPartitions.
Round ==
  /\ stage = "slice"
  /\ \E c \in {CutControl(constraintState, control, Visit(constraintState, control.body))} :
       Partition(c) \/ EndPartition(c)

Holds(c) == IF c.flag = 0 THEN cond[c.id] ELSE flag[c.id] = c.flag

\* One statement of the pipeline's controls.  AppendStatement leaves no SetFlag in them.
Execute ==
  LET s == Head(todo)
      Continue(ss) == todo' = ss \o Tail(todo)
      Log(id, needs) == trace' = [trace EXCEPT ![stage] = Append(@, [id |-> id, needs |-> needs])]
  IN /\ stage \in {"ingress", "egress"} /\ todo # <<>>
     /\ \/ s.kind \in {"stmt", "table"} /\ Log(s.id, s.needs) /\ Continue(<<>>)
        \/ s.kind = "none" /\ Continue(<<>>) /\ UNCHANGED trace
        \/ s.kind = "block" /\ Continue(s.stmts) /\ UNCHANGED trace
        \/ s.kind = "call" /\ Continue(s.body.stmts) /\ UNCHANGED trace
        \/ /\ s.kind = "if" /\ Log(<<"cond", s.cond.id>>, s.cond.needs)
           /\ Continue(<<IF Holds(s.cond) THEN s.then ELSE s.else>>)
     /\ UNCHANGED <<stage, inputs, sliceVars>>

EndPipeline ==
  /\ stage \in {"ingress", "egress"} /\ todo = <<>>
  /\ stage' = IF stage = "ingress" THEN "egress" ELSE "done"
  /\ todo' = IF stage = "ingress" THEN GetControls(partitions, 1) ELSE <<>>
  /\ UNCHANGED <<inputs, sliceVars, trace>>

\* The fields if_N are not initialized.
Init ==
  /\ stage = "slice" /\ main \in Controls /\ control = main
  /\ constraintState = "ES_RW_IM_R" /\ partitions = <<>>
  /\ cond \in [Conds -> BOOLEAN] /\ flag \in [Conds -> 0 .. 2]
  /\ todo = <<>> /\ trace = [p \in {"ingress", "egress"} |-> <<>>]

Finished == stage \in {"done", "bug"} /\ UNCHANGED vars

Next == Round \/ Execute \/ EndPipeline \/ Finished

Spec == Init /\ [][Next]_vars

----------------------------------------------------------------------------
RECURSIVE Meaning(_)
\* The statements an execution of s performs for these conditions, in order.
Meaning(s) ==
  CASE s.kind \in {"stmt", "table"} -> <<s.id>>
    [] s.kind = "block" -> FlattenSeq([i \in DOMAIN s.stmts |-> Meaning(s.stmts[i])])
    [] s.kind = "if" -> << <<"cond", s.cond.id>> >> \o Meaning(IF Holds(s.cond) THEN s.then ELSE s.else)
    [] s.kind = "call" -> Meaning(s.body)
    [] OTHER -> <<>>

Ids(t) == [i \in DOMAIN t |-> t[i].id]
IsHandover(id) == id[1] \in {"ingress_deparser", "egress_parser"}

BranchSliced == \E p \in ToSet(partitions) : \E s \in SubStmts(p, TRUE) :
                  s.kind = "if" /\ s.cond.flag # 0

\* Cut at a statement, at a condition or in a called control, however deep, in two parts
\* the control still executes what it did, in the same order: nothing is lost, doubled or
\* overtaken, and only the handing over of headers is added.
OrderKept ==
  stage = "done" /\ Len(partitions) <= 2 /\ ~BranchSliced =>
    SelectSeq(Ids(trace["ingress"] \o trace["egress"]), LAMBDA id : ~IsHandover(id)) = Meaning(main)

\* processExternMethodCall's two rules hold of what the pipelines execute, for any number of
\* parts and any place of the cuts: no get_value in the ingress, no set_out_port in the egress.
ConstraintsMet ==
  /\ \A i \in DOMAIN trace["ingress"] : trace["ingress"][i].needs # "im"
  /\ \A i \in DOMAIN trace["egress"] : trace["egress"][i].needs # "out"

\* A pipeline executes a package's statements between a parser and a deparser of the package,
\* so that header fields survive the change of pipeline, for packages in packages too.
HeadersCarried ==
  stage = "done" /\ Len(partitions) <= 2 =>
    \A p \in DOMAIN trace : LET t == Ids(trace[p]) IN
      \A i \in DOMAIN t :
        t[i][1] = "use" =>
          /\ \E j \in 1 .. i - 1 : t[j] \in {<<"parse", t[i][2]>>, <<"egress_parser", t[i][2]>>}
          /\ \E j \in i + 1 .. Len(t) :
               t[j] \in {<<"deparse", t[i][2]>>, <<"ingress_deparser", t[i][2]>>}

RECURSIVE Barriers(_)
\* How many statements and conditions of s are not allowed everywhere.
Barriers(s) ==
  LET Own(n) == IF n \in {"im", "out"} THEN 1 ELSE 0
  IN CASE s.kind = "stmt" -> Own(s.needs)
       [] s.kind = "block" -> FoldLeft(LAMBDA n, t : n + Barriers(t), 0, s.stmts)
       [] s.kind = "if" -> Own(s.cond.needs) + Barriers(s.then) + Barriers(s.else)
       [] s.kind = "call" -> Barriers(s.body)
       [] OTHER -> 0

\* The comment on CreateAllPartitions in msaV1ModelBackend.cpp: "It will terminate when
\* p4program does not change".  It does: what stops one pipeline is allowed in the other, so
\* that every part but the first has a statement that stopped the one before.
PartitionsBounded == Len(partitions) <= 1 + Barriers(main)

====
