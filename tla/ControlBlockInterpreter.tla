---- MODULE ControlBlockInterpreter ----
(***************************************************************************)
(* P4::ControlBlockInterpreter (midend/controlBlockInterpreter.{h,cpp}):   *)
(* the Inspector that walks the body of a micro_control and bounds, over   *)
(* all its paths, by how many bits the packet may grow and shrink, how     *)
(* deep into the packet the packages it applies may read, and which        *)
(* headers are set valid and set invalid.                                  *)
(*                                                                         *)
(* The body is not a constant: every action below is one visit of the      *)
(* walk, and the order in which the actions happen is the program.  Next   *)
(* to the walk runs one execution of that program, `path': at each         *)
(* branching statement it commits to one alternative, and while the walk   *)
(* is inside that alternative it performs what the visited statement does  *)
(* at run time.  The properties compare the two.                           *)
(***************************************************************************)
EXTENDS Integers, Sequences, FiniteSets

CONSTANTS
  Headers,      \* header instances of the package's header struct
  Width,        \* their widths, in units of packet length
  Packages,     \* packages the control may apply
  PkgExt,       \* what ComposablePackageInterpreter returns for each of them:
  PkgIncr,      \*   getMaxExtLen, getMaxIncrPktLen and getMaxDecrPktLen
  PkgDecr,
  Shapes,       \* shapes the program may have, a subset of AllShapes
  MaxAlts,      \* bound: cases of a switch, actions of a table
  MaxDepth,     \* bound: nesting of branching statements
  MaxNodes      \* bound: statements of the body

(***************************************************************************)
(* "nested"    a branching statement inside another one                    *)
(* "trailing"  header operations after the last branching statement        *)
(* "opposite"  setValid and setInvalid of one header on one path           *)
(* "noMatch"   a switch none of whose cases matches                        *)
(* "reapply"   a package applied a second time                             *)
(* "onApply"   actions of the table a switch applies use header operations  *)
(***************************************************************************)
AllShapes == {"nested", "trailing", "opposite", "noMatch", "reapply", "onApply"}

ASSUME ConstantsAssumption ==
  /\ Width \in [Headers -> Nat \ {0}]
  /\ PkgExt \in [Packages -> Nat]
  /\ PkgIncr \in [Packages -> Nat]
  /\ PkgDecr \in [Packages -> Nat]
  /\ Shapes \subseteq AllShapes
  /\ MaxAlts \in Nat /\ MaxDepth \in Nat /\ MaxNodes \in Nat

VARIABLES
  maxIncr,              \* maximum increase in packet size
  maxDecr,              \* maximum decrease in packet size
  maxExtLen,            \* maximum extract length of the callees
  accumDecrPktLen,      \* accumulated decrease in packet size by callees
  currOpsRec,           \* operations since the last branching statement
  xoredHdrValidityOps,  \* the vector of operation records, during the walk
  hdrValidityOps,       \* and the records in it when the walk returns
  visited,              \* packages the Inspector has already visited
  frames,               \* the locals of the preorder calls under way
  path,                 \* one execution of the same body
  nodes,                \* statements visited so far
  ended                 \* preorder(P4Control) has returned

analysis == <<maxIncr, maxDecr, maxExtLen, accumDecrPktLen>>
cbiVars == <<maxIncr, maxDecr, maxExtLen, accumDecrPktLen, currOpsRec,
             xoredHdrValidityOps, hdrValidityOps, visited, frames, path, nodes, ended>>

Max2(a, b) == IF a > b THEN a ELSE b

----------------------------------------------------------------------------
(* The operation records.                                                  *)

OpsRec == [first : SUBSET Headers, second : SUBSET Headers]

EmptyRec == [first |-> {}, second |-> {}]

\* insertCurrOpsRecToVecEles(begin, end), for the positions begin+1 .. end
InsertCurrOpsRec(vec, begin, end) ==
  [i \in DOMAIN vec |->
     IF begin < i /\ i <= end
     THEN [first |-> vec[i].first \cup currOpsRec.first,
           second |-> vec[i].second \cup currOpsRec.second]
     ELSE vec[i]]

\* Mutant: each record is copied next to itself.
ReplicateEach(vec, nfold) ==
  [i \in 1 .. nfold * Len(vec) |-> vec[((i - 1) \div nfold) + 1]]

\* replicateHdrValidityOpsVec(nfold)
Replicate(vec, nfold) ==
  [i \in 1 .. nfold * Len(vec) |-> vec[((i - 1) % Len(vec)) + 1]]

\* The loop at the end of preorder(P4Control).  Its first round only sets dup;
\* every later round erases one more empty record, until there is none.  What
\* is left is used as a set: the deparser table has an entry per record.
EraseEmpty(vec) == {vec[i] : i \in DOMAIN vec} \ {EmptyRec}

----------------------------------------------------------------------------
(* One execution of the body.                                              *)

\* The innermost alternative the walk is in is the one the execution takes.
OnPath ==
  frames # <<>> => LET f == frames[Len(frames)] IN f.on /\ f.alt = f.take

Path == [valid : SUBSET Headers, vop : [Headers -> {"none", "sv", "siv"}],
         incr : Nat, decr : Nat, callIncr : Nat, callDecr : Nat,
         need : Nat, high : Nat]

\* CPackageToControl clears every flag of hdr_vop before the control runs.
StartPath(parsed) ==
  [valid |-> parsed, vop |-> [h \in Headers |-> "none"],
   incr |-> 0, decr |-> 0, callIncr |-> 0, callDecr |-> 0, need |-> 0, high |-> 0]

\* h.setValid() at run time: sv := true, siv := false; the packet grows when
\* the header was not there.
RunSetValid(p, h) ==
  [p EXCEPT !.incr = @ + (IF h \in p.valid THEN 0 ELSE Width[h]),
            !.valid = @ \cup {h},
            !.vop = [@ EXCEPT ![h] = "sv"]]

RunSetInvalid(p, h) ==
  [p EXCEPT !.decr = @ + (IF h \in p.valid THEN Width[h] ELSE 0),
            !.valid = @ \ {h},
            !.vop = [@ EXCEPT ![h] = "siv"]]

\* A callee that reads ext, grows the packet by incr and shrinks it by decr.
\* What it reads at depth ext of the current packet was, before the callees
\* so far, at depth ext + callDecr - callIncr.
RunPackage(p, ext, incr, decr) ==
  [p EXCEPT !.incr = @ + incr,
            !.decr = @ + decr,
            !.callIncr = @ + incr,
            !.callDecr = @ + decr,
            !.need = Max2(@, ext + p.callDecr - p.callIncr),
            !.high = Max2(@, p.callIncr - p.callDecr + incr)]

\* A callee keeps to the bounds computed for it, by the same analysis.
PackageRuns(pkg) == {0, PkgExt[pkg]} \X {0, PkgIncr[pkg]} \X {0, PkgDecr[pkg]}

\* Unless the shape "opposite" is in, no path uses both operations on a header.
Allowed(h, op) == OnPath => "opposite" \in Shapes \/ path.vop[h] \in {"none", op}

----------------------------------------------------------------------------
(* preorder(MethodCallExpression)                                          *)

Visiting == ~ended /\ nodes < MaxNodes /\ nodes' = nodes + 1

SetValid(h) ==
  /\ Visiting
  /\ Allowed(h, "sv")
  /\ currOpsRec' = [currOpsRec EXCEPT !.first = @ \cup {h}]
  /\ maxIncr' = maxIncr + Width[h]
  /\ path' = IF OnPath THEN RunSetValid(path, h) ELSE path
  /\ UNCHANGED <<maxDecr, maxExtLen, accumDecrPktLen, xoredHdrValidityOps,
                 hdrValidityOps, visited, frames, ended>>

\* Mutant: a removed header is taken off the growth.
SetInvalidNet(h) ==
  /\ Visiting
  /\ Allowed(h, "siv")
  /\ maxIncr' = maxIncr - Width[h]
  /\ currOpsRec' = [currOpsRec EXCEPT !.second = @ \cup {h}]
  /\ path' = IF OnPath THEN RunSetInvalid(path, h) ELSE path
  /\ UNCHANGED <<maxDecr, maxExtLen, accumDecrPktLen, xoredHdrValidityOps,
                 hdrValidityOps, visited, frames, ended>>

SetInvalid(h) ==
  /\ Visiting
  /\ Allowed(h, "siv")
  /\ maxDecr' = maxDecr + Width[h]
  /\ currOpsRec' = [currOpsRec EXCEPT !.second = @ \cup {h}]
  /\ path' = IF OnPath THEN RunSetInvalid(path, h) ELSE path
  /\ UNCHANGED <<maxIncr, maxExtLen, accumDecrPktLen, xoredHdrValidityOps,
                 hdrValidityOps, visited, frames, ended>>

\* pkg.apply(...): the Inspector visits a node once, so a second application
\* of the package is skipped.  Actions apply no packages.
ApplyPackage(pkg) ==
  /\ Visiting
  /\ \A i \in DOMAIN frames : frames[i].kind # "table"
  /\ "reapply" \in Shapes \/ pkg \notin visited
  /\ visited' = visited \cup {pkg}
  /\ IF pkg \in visited
     THEN UNCHANGED analysis
     ELSE /\ maxIncr' = maxIncr + PkgIncr[pkg]
          /\ maxDecr' = maxDecr + PkgDecr[pkg]
          /\ maxExtLen' = Max2(maxExtLen, accumDecrPktLen + PkgExt[pkg])
          /\ accumDecrPktLen' = accumDecrPktLen + PkgDecr[pkg]
  /\ IF OnPath
     THEN \E r \in PackageRuns(pkg) : path' = RunPackage(path, r[1], r[2], r[3])
     ELSE path' = path
  /\ UNCHANGED <<currOpsRec, xoredHdrValidityOps, hdrValidityOps, frames, ended>>

----------------------------------------------------------------------------
(* preorder(IfStatement), preorder(SwitchStatement), preorder(ActionList)  *)

\* Entering a statement of n alternatives, of which the execution takes one
\* (0: none of them).  The frame holds curr..., and the maxima so far.
Enter(kind, n, take) ==
  /\ "nested" \in Shapes \/ frames = <<>>
  /\ Len(frames) < MaxDepth
  /\ xoredHdrValidityOps' =
       Replicate(InsertCurrOpsRec(xoredHdrValidityOps, 0, Len(xoredHdrValidityOps)), n)
  /\ currOpsRec' = EmptyRec
  /\ frames' = Append(frames,
       [kind |-> kind, n |-> n, alt |-> 1, take |-> take, on |-> OnPath,
        currSize |-> Len(xoredHdrValidityOps),
        currIncr |-> maxIncr, currDecr |-> maxDecr, currAccum |-> accumDecrPktLen,
        bestIncr |-> maxIncr, bestDecr |-> maxDecr, bestAccum |-> accumDecrPktLen])
  /\ UNCHANGED <<analysis, hdrValidityOps, visited, ended>>

IfStatement ==
  /\ Visiting
  /\ \E take \in 1 .. 2 : Enter("if", 2, take)
  /\ UNCHANGED path

\* t.apply().action_run, on which a switch branches, runs an action of t first.
\* visit(swStmt->expression) is not called: the action is not part of the walk.
RunSwitchTable ==
  {path} \cup IF "onApply" \in Shapes /\ OnPath
              THEN {RunSetValid(path, h) : h \in Headers}
                     \cup {RunSetInvalid(path, h) : h \in Headers}
              ELSE {}

SwitchStatement ==
  /\ Visiting
  /\ \E n \in 1 .. MaxAlts :
       \E take \in (IF "noMatch" \in Shapes THEN 0 ELSE 1) .. n :
         Enter("switch", n, take)
  /\ path' \in RunSwitchTable

ActionList ==
  /\ Visiting
  /\ \A i \in DOMAIN frames : frames[i].kind # "table"
  /\ \E n \in 1 .. MaxAlts : \E take \in 1 .. n : Enter("table", n, take)
  /\ UNCHANGED path

\* Mutant: the index is advanced before the insertion.
InsertNextAlternative(f) ==
  InsertCurrOpsRec(xoredHdrValidityOps, f.alt * f.currSize, (f.alt + 1) * f.currSize)

\* The records of the alternative just visited take the operations of it.
InsertAlternative(f) ==
  InsertCurrOpsRec(xoredHdrValidityOps, (f.alt - 1) * f.currSize, f.alt * f.currSize)

\* Mutants: the first branch of an if, resp. the cases of a switch, not saved.
BestOfCases(f, best, current) == IF f.kind = "if" THEN best ELSE Max2(best, current)
BestOfBranches(f, best, current) == IF f.kind = "if" THEN current ELSE best

\* trueIncrPktSize and its like hold the first branch of an if; localMaxIncr
\* and its like the maximum over the cases, resp. actions, so far.
Best(f, best, current) == IF f.kind = "if" THEN current ELSE Max2(best, current)

\* From one alternative to the next: back to the counters at entry, except
\* that preorder(ActionList) leaves accumDecrPktLen alone.
NextAlternative ==
  /\ ~ended /\ frames # <<>>
  /\ LET k == Len(frames)
         f == frames[k]
     IN /\ f.alt < f.n
        /\ frames' = [frames EXCEPT ![k] =
             [f EXCEPT !.alt = f.alt + 1,
                       !.bestIncr = Best(f, f.bestIncr, maxIncr),
                       !.bestDecr = Best(f, f.bestDecr, maxDecr),
                       !.bestAccum = Best(f, f.bestAccum, accumDecrPktLen)]]
        /\ maxIncr' = f.currIncr
        /\ maxDecr' = f.currDecr
        /\ accumDecrPktLen' = IF f.kind = "table" THEN accumDecrPktLen ELSE f.currAccum
        /\ xoredHdrValidityOps' = InsertAlternative(f)
  /\ currOpsRec' = EmptyRec
  /\ UNCHANGED <<maxExtLen, hdrValidityOps, visited, path, nodes, ended>>

\* After the last alternative the counters are the maxima over all of them.
EndStatement ==
  /\ ~ended /\ frames # <<>>
  /\ LET k == Len(frames)
         f == frames[k]
     IN /\ f.alt = f.n
        /\ frames' = SubSeq(frames, 1, k - 1)
        /\ maxIncr' = Max2(f.bestIncr, maxIncr)
        /\ maxDecr' = Max2(f.bestDecr, maxDecr)
        /\ accumDecrPktLen' = IF f.kind = "table" THEN accumDecrPktLen
                              ELSE Max2(f.bestAccum, accumDecrPktLen)
        /\ xoredHdrValidityOps' = InsertAlternative(f)
  /\ currOpsRec' = EmptyRec
  /\ UNCHANGED <<maxExtLen, hdrValidityOps, visited, path, nodes, ended>>

\* preorder(P4Control) after visit(body).  What currOpsRec still holds is in
\* no record.
EndControl ==
  /\ ~ended /\ frames = <<>>
  /\ "trailing" \in Shapes \/ currOpsRec = EmptyRec
  /\ ended' = TRUE
  /\ hdrValidityOps' = EraseEmpty(xoredHdrValidityOps)
  /\ path' = [path EXCEPT !.high = Max2(@, path.incr - path.decr)]
  /\ UNCHANGED <<analysis, currOpsRec, xoredHdrValidityOps, visited, frames, nodes>>

----------------------------------------------------------------------------
CBIInit ==
  /\ maxIncr = 0 /\ maxDecr = 0 /\ maxExtLen = 0 /\ accumDecrPktLen = 0
  /\ currOpsRec = EmptyRec
  /\ xoredHdrValidityOps = <<EmptyRec>>
  /\ hdrValidityOps = {}
  /\ visited = {}
  /\ frames = <<>>
  /\ path \in {StartPath(parsed) : parsed \in SUBSET Headers}
  /\ nodes = 0
  /\ ended = FALSE

CBINext ==
  \/ \E h \in Headers : SetValid(h) \/ SetInvalid(h)
  \/ \E pkg \in Packages : ApplyPackage(pkg)
  \/ IfStatement
  \/ SwitchStatement
  \/ ActionList
  \/ NextAlternative
  \/ EndStatement
  \/ EndControl

====
