---- MODULE StaticAnalyzer ----
(***************************************************************************)
(* P4::ComposablePackageInterpreter (midend/composablePackageInterpreter)  *)
(* and CSA::StaticAnalyzer (extensions/csa/midend/staticAnalyzer): the     *)
(* bounds of a package from those of its parser and its control, and from  *)
(* the bounds of the main package the size of the byte stack the compiled  *)
(* program works on.                                                       *)
(***************************************************************************)
EXTENDS ControlBlockInterpreter

CONSTANT ParserMaxOffset  \* parserStructure->result->getPktMaxOffset()

ASSUME ParserAssumption == ParserMaxOffset \in Nat

VARIABLES
  phase,          \* "parser", "control", "package" (bounds known) or "sized"
  pkgMaxExtLen,   \* ComposablePackageInterpreter::maxExtLen
  byteStackSize,  \* *byteStackSize
  base            \* offset at which the execution's parser accepted

packageVars == <<phase, pkgMaxExtLen, byteStackSize, base>>
vars == <<cbiVars, packageVars>>

Init ==
  /\ CBIInit
  /\ phase = "parser" /\ pkgMaxExtLen = 0 /\ byteStackSize = 0 /\ base = 0

\* preorder(P4Parser); a package may have no micro_parser.
VisitParser ==
  /\ phase = "parser"
  /\ phase' = "control"
  /\ \/ /\ pkgMaxExtLen' = ParserMaxOffset
        /\ base' \in 0 .. ParserMaxOffset
     \/ UNCHANGED <<pkgMaxExtLen, base>>
  /\ UNCHANGED <<cbiVars, byteStackSize>>

\* preorder(P4Control): p4Control->apply(cbi) ...
VisitControl ==
  /\ phase = "control"
  /\ CBINext
  /\ UNCHANGED packageVars

\* ... and, once it has returned, the bounds of the package.
EndPackage ==
  /\ phase = "control" /\ ended
  /\ phase' = "package"
  /\ pkgMaxExtLen' = pkgMaxExtLen + maxExtLen
  /\ UNCHANGED <<cbiVars, byteStackSize, base>>

\* Mutant: no room for the headers that are added.
SizeForExtracts ==
  /\ phase = "package"
  /\ phase' = "sized"
  /\ byteStackSize' = pkgMaxExtLen
  /\ UNCHANGED <<cbiVars, pkgMaxExtLen, base>>

\* StaticAnalyzer::preorder(P4ComposablePackage), for the main package.
SizeByteStack ==
  /\ phase = "package"
  /\ phase' = "sized"
  /\ byteStackSize' = pkgMaxExtLen + maxIncr
  /\ UNCHANGED <<cbiVars, pkgMaxExtLen, base>>

Next == VisitParser \/ VisitControl \/ EndPackage \/ SizeByteStack

Spec == Init /\ [][Next]_vars

----------------------------------------------------------------------------
Frame == [kind : {"if", "switch", "table"}, n : Nat, alt : Nat, take : Nat,
          on : BOOLEAN, currSize : Nat,
          currIncr : Nat, currDecr : Nat, currAccum : Nat,
          bestIncr : Nat, bestDecr : Nat, bestAccum : Nat]

\* The counters are naturals (they are unsigned in the code), the records are
\* over the header instances, the stacks hold frames.
TypeOK ==
  /\ maxIncr \in Nat /\ maxDecr \in Nat /\ maxExtLen \in Nat /\ accumDecrPktLen \in Nat
  /\ currOpsRec \in OpsRec
  /\ xoredHdrValidityOps \in Seq(OpsRec)
  /\ hdrValidityOps \subseteq OpsRec
  /\ visited \subseteq Packages
  /\ frames \in Seq(Frame)
  /\ path \in Path
  /\ nodes \in Nat
  /\ ended \in BOOLEAN
  /\ phase \in {"parser", "control", "package", "sized"}
  /\ pkgMaxExtLen \in Nat /\ byteStackSize \in Nat /\ base \in Nat

\* The bounds computed for a package hold of every execution of it: what its
\* parser and its callees read, by how much the packet grows and shrinks.  It
\* is what the analysis of a caller takes for granted of its callees.
BoundsSound ==
  phase \in {"package", "sized"} =>
    /\ base + path.need <= pkgMaxExtLen
    /\ path.incr <= maxIncr
    /\ path.decr <= maxDecr

\* The byte stack is large enough: the bytes extracted from the packet, moved
\* by the callees and by the package's own deparser, never leave the stack.
StackSuffices ==
  phase = "sized" => pkgMaxExtLen + path.high <= byteStackSize

\* The flags of hdr_vop when the deparser of the package runs.
Flags == [first |-> {h \in Headers : path.vop[h] = "sv"},
          second |-> {h \in Headers : path.vop[h] = "siv"}]

\* The deparser table has an entry for the header operations of every execution
\* that performs some: its keys are compared with the flags of hdr_vop.
OperationsRecorded ==
  ended /\ Flags # EmptyRec => Flags \in hdrValidityOps

\* The deparser table also has an entry for the executions that change no
\* header's validity; without one the fields they assigned are not written back.
NoOperationRecorded ==
  ended /\ Flags = EmptyRec /\ hdrValidityOps # {} => EmptyRec \in hdrValidityOps

----------------------------------------------------------------------------
(* The inductive invariant behind BoundsSound and StackSuffices.           *)

\* Three bounds hold of the execution so far.
Within(incr, decr, accum) ==
  path.incr <= incr /\ path.decr <= decr /\ path.callDecr <= accum

Matched(f) == f.on /\ f.alt = f.take

FrameShape(f) ==
  /\ 1 <= f.alt /\ f.alt <= f.n /\ f.take <= f.n
  /\ f.kind = "if" => f.n = 2
  /\ f.kind # "switch" => f.take >= 1
  /\ f.kind # "if" => f.currIncr <= f.bestIncr /\ f.currDecr <= f.bestDecr
                        /\ f.currAccum <= f.bestAccum

\* A statement the execution is in: before the alternative it takes the counters
\* saved at entry bound it, after that alternative the maxima do.
FrameSound(f) ==
  f.on =>
    /\ f.take = 0 \/ f.take > f.alt => Within(f.currIncr, f.currDecr, f.currAccum)
    /\ f.take # 0 /\ f.take < f.alt => Within(f.bestIncr, f.bestDecr, f.bestAccum)
    /\ f.kind = "table" => path.callDecr <= f.currAccum

\* The execution is in an inner statement iff it is in the alternative around it.
Nesting ==
  /\ \A j \in 1 .. Len(frames) : \A i \in 1 .. j - 1 :
       /\ frames[j].on => Matched(frames[i])
       /\ frames[i].currAccum <= frames[j].currAccum
  /\ \A j \in 2 .. Len(frames) : Matched(frames[j - 1]) => frames[j].on
  /\ frames # <<>> => frames[1].on
  /\ \A j \in 1 .. Len(frames) : frames[j].currAccum <= accumDecrPktLen

\* The walk and the execution agree at every point of the walk.
WalkSound ==
  /\ \A j \in 1 .. Len(frames) : FrameShape(frames[j]) /\ FrameSound(frames[j])
  /\ Nesting
  /\ OnPath => Within(maxIncr, maxDecr, accumDecrPktLen)
  /\ path.need <= maxExtLen
  /\ path.high <= path.incr /\ path.callIncr <= path.incr

PhaseSound ==
  /\ ended => frames = <<>>
  /\ phase \in {"package", "sized"} => ended
  /\ IF phase \in {"package", "sized"}
     THEN base + path.need <= pkgMaxExtLen
     ELSE base <= pkgMaxExtLen
  /\ phase = "sized" => byteStackSize = pkgMaxExtLen + maxIncr

IInv == TypeOK /\ WalkSound /\ PhaseSound

----------------------------------------------------------------------------
(* The inductive invariant behind OperationsRecorded.                      *)

\* With the operations ops, one of the records b + 1 .. e is that of the execution so far.
Recorded(b, e, ops) ==
  \E i \in b + 1 .. e :
    /\ xoredHdrValidityOps[i].first \cup ops.first = Flags.first
    /\ xoredHdrValidityOps[i].second \cup ops.second = Flags.second

\* Inside a branching statement the vector has a block of records per alternative.  The
\* execution has its record in the block of the alternative it takes, except for the
\* operations since the walk entered that alternative.
RecordsInv ==
  /\ Len(xoredHdrValidityOps) > 0
  /\ ~ended /\ frames = <<>> => Recorded(0, Len(xoredHdrValidityOps), currOpsRec)
  /\ frames # <<>> =>
       LET f == frames[1]
       IN /\ ~ended /\ Len(frames) = 1 /\ f.on
          /\ f.take \in 1 .. f.n /\ f.alt \in 1 .. f.n
          /\ f.currSize > 0 /\ Len(xoredHdrValidityOps) = f.n * f.currSize
          /\ Recorded((f.take - 1) * f.currSize, f.take * f.currSize,
                      IF f.alt = f.take THEN currOpsRec ELSE EmptyRec)
  /\ OperationsRecorded

====
