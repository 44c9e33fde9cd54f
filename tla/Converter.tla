---- MODULE Converter ----
(***************************************************************************)
(* CSA::Converter (extensions/csa/midend/toControl): visits the packages   *)
(* in the order in which they are called and gives each parser and each    *)
(* deparser the offsets at which the package may start, as the top of      *)
(* offsetsStack.  The tables made for them are keyed by the offset, so a   *)
(* package that is reached at another offset does nothing.                 *)
(*                                                                         *)
(* As in ControlBlockInterpreter the program is not a constant: the calls  *)
(* the walk meets are the program, and one execution of it runs along.     *)
(* Every package has a micro_parser and a micro_deparser, as the           *)
(* interfaces Unicast and Multicast have.  The vectors on offsetsStack are *)
(* sets here: their order, and an offset that occurs twice, only repeat    *)
(* table entries, and 0 occurs at most once.                               *)
(***************************************************************************)
EXTENDS Integers, Sequences

CONSTANTS
  Packages, Main,
  AcceptChoices,  \* sets of offsets a parser may accept at, relative to its start
  Restoring,      \* packages whose deparser sets curr_offset back
  MaxCalls        \* bound: applications of packages

ASSUME ConverterAssumption ==
  /\ Main \in Packages
  /\ AcceptChoices \subseteq SUBSET Nat
  /\ Restoring \subseteq Packages
  /\ MaxCalls \in Nat

VARIABLES
  accepts,          \* getAcceptedPktOffsets() of each package's parser
  offsetsStack,
  parserOffsets,    \* initialOffsets each parser was converted with
  deparserOffsets,  \* and each deparser
  visited,          \* packages the Transform has visited
  frames,           \* preorder(P4ComposablePackage) calls under way; in each the
                    \* execution, if it is there (on): its parser's start offset,
                    \* and curr_offset once the parser is done
  currOffset,       \* p.indices.curr_offset in the execution
  unforeseen,       \* one of its parsers rejected, or a deparser left
                    \* curr_offset behind its headers
  missed,           \* a lookup of an offset found no entry
  calls

converted == <<parserOffsets, deparserOffsets>>
vars == <<accepts, offsetsStack, converted, visited, frames, currOffset, unforeseen,
          missed, calls>>

top == frames[Len(frames)]
back == offsetsStack[Len(offsetsStack)]

WithTop(f) == [frames EXCEPT ![Len(frames)] = f]

\* The tables have no offset key when the package can only start at 0.
HasOffsetKey(starts) == starts # {0}

\* Mutant: the offsets of this parser alone.
RelativeOffsets(starts, pkg) == accepts[pkg]

\* acceptedPktOffset: the offsets from which the callees start
AcceptedPktOffsets(starts, pkg) ==
  {s + o : s \in starts, o \in accepts[pkg]}

\* The parser's init action takes curr_offset to 0 when there is no key, and saves it.
ParserStart(starts) == IF HasOffsetKey(starts) THEN currOffset ELSE 0

\* preorder(P4Parser).  At run time the parser's table finds an entry; the action
\* for accept sets curr_offset, the one for reject leaves it.  packet_reject is not read:
\* the control runs in either case.
VisitParser ==
  /\ frames # <<>> /\ top.stage = "parser"
  /\ offsetsStack' = Append(offsetsStack, AcceptedPktOffsets(back, top.pkg))
  /\ parserOffsets' = [parserOffsets EXCEPT ![top.pkg] = back]
  /\ LET start == ParserStart(back)
         hit == start \in back
     IN IF ~top.on
        THEN /\ frames' = WithTop([top EXCEPT !.stage = "control"])
             /\ UNCHANGED <<currOffset, unforeseen, missed>>
        ELSE /\ missed' = (missed \/ ~hit)
             /\ \/ /\ hit
                   /\ \E o \in accepts[top.pkg] : currOffset' = start + o
                   /\ UNCHANGED unforeseen
                \/ /\ currOffset' = start
                   /\ unforeseen' = (unforeseen \/ hit)
             /\ frames' = WithTop([top EXCEPT !.stage = "control", !.start = start,
                                              !.acc = currOffset'])
  /\ UNCHANGED <<accepts, deparserOffsets, visited, calls>>

\* preorder(MethodCallStatement).  A Transform visits a node once: a further
\* application of a package changes nothing here, and the execution makes none.
\* The execution gets to this one or not.
ApplyPackage(pkg) ==
  /\ frames # <<>> /\ top.stage = "control" /\ calls < MaxCalls
  /\ pkg \notin visited
  /\ visited' = visited \cup {pkg}
  /\ \E on \in {FALSE, top.on} :
       frames' = Append(frames, [pkg |-> pkg, stage |-> "parser", on |-> on,
                                 start |-> 0, acc |-> 0])
  /\ calls' = calls + 1
  /\ UNCHANGED <<accepts, offsetsStack, converted, currOffset, unforeseen, missed>>

\* Mutant: back() is read before pop_back().
TopOffsets == back

\* offsetsStack.pop_back(); initialOffsets = *(offsetsStack.back())
InitialOffsets == offsetsStack[Len(offsetsStack) - 1]

\* Mutant: no pop_back.
KeptOffsets == offsetsStack

PoppedOffsets == SubSeq(offsetsStack, 1, Len(offsetsStack) - 1)

\* preorder(P4Control) of the deparser, the last visit of the package.  Its table
\* is looked up with the offset the parser saved in the parser metadata.
VisitDeparser ==
  /\ frames # <<>> /\ top.stage = "control"
  /\ offsetsStack' = PoppedOffsets
  /\ deparserOffsets' = [deparserOffsets EXCEPT ![top.pkg] = InitialOffsets]
  /\ missed' = (missed \/ (/\ top.on /\ HasOffsetKey(InitialOffsets)
                           /\ top.start \notin InitialOffsets))
  /\ currOffset' = IF top.on /\ top.pkg \in Restoring /\ HasOffsetKey(InitialOffsets)
                   THEN top.start ELSE currOffset
  /\ frames' = SubSeq(frames, 1, Len(frames) - 1)
  /\ unforeseen' = (unforeseen \/ (/\ top.on /\ HasOffsetKey(InitialOffsets)
                                   /\ top.pkg \notin Restoring))
  /\ UNCHANGED <<accepts, parserOffsets, visited, calls>>

\* preorder(P4Program): offsetsStack holds {0}, and the main package is visited.
Init ==
  /\ accepts \in [Packages -> AcceptChoices]
  /\ offsetsStack = <<{0}>>
  /\ parserOffsets = [p \in Packages |-> {}] /\ deparserOffsets = [p \in Packages |-> {}]
  /\ visited = {Main}
  /\ frames = <<[pkg |-> Main, stage |-> "parser", on |-> TRUE, start |-> 0, acc |-> 0]>>
  /\ currOffset = 0
  /\ unforeseen = FALSE /\ missed = FALSE /\ calls = 0

Next ==
  \/ VisitParser
  \/ \E pkg \in Packages : ApplyPackage(pkg)
  \/ VisitDeparser

Spec == Init /\ [][Next]_vars

----------------------------------------------------------------------------
\* In an execution in which every parser accepts and every deparser sets the offset
\* back, a package is only reached at offsets for which Converter made its parser
\* and its deparser table entries.
EntriesCover == missed => unforeseen

\* The parser and the deparser of a package are made for the same offsets, though
\* the packages it applies are converted in between, and when all is done the
\* stack is as it was.
OffsetsAgree ==
  /\ frames # <<>> /\ top.stage = "control" => InitialOffsets = parserOffsets[top.pkg]
  /\ \A p \in visited :
       (\A i \in 1 .. Len(frames) : frames[i].pkg # p) => deparserOffsets[p] = parserOffsets[p]
  /\ frames = <<>> => offsetsStack = <<{0}>>

----------------------------------------------------------------------------
(* The inductive invariant behind both.                                    *)

Frame == [pkg : Packages, stage : {"parser", "control"}, on : BOOLEAN,
          start : Nat, acc : Nat]

TypeOK ==
  /\ accepts \in [Packages -> SUBSET Nat]
  /\ offsetsStack \in Seq(SUBSET Nat)
  /\ parserOffsets \in [Packages -> SUBSET Nat]
  /\ deparserOffsets \in [Packages -> SUBSET Nat]
  /\ visited \subseteq Packages
  /\ frames \in Seq(Frame)
  /\ currOffset \in Nat
  /\ unforeseen \in BOOLEAN /\ missed \in BOOLEAN /\ calls \in Nat

\* One vector per package whose parser is done, above {0}.  A package's own
\* start offsets are below the ones it computed for its callees.
StackInv ==
  /\ offsetsStack # <<>> /\ offsetsStack[1] = {0}
  /\ frames = <<>> => Len(offsetsStack) = 1
  /\ frames # <<>> =>
       Len(offsetsStack) = Len(frames) + (IF top.stage = "control" THEN 1 ELSE 0)
  /\ \A i \in 1 .. Len(frames) :
       /\ i < Len(frames) => frames[i].stage = "control"
       /\ frames[i].pkg \in visited
       /\ frames[i].stage = "control" => parserOffsets[frames[i].pkg] = offsetsStack[i]
       /\ \A j \in 1 .. Len(frames) : frames[i].pkg = frames[j].pkg => i = j
  /\ \A p \in visited :
       (\A i \in 1 .. Len(frames) : frames[i].pkg # p) => deparserOffsets[p] = parserOffsets[p]

\* The frames the execution is in are a prefix.  It entered each at the offset its
\* caller had accepted at, and is now at the offset the last one left: or else the
\* next parser sets the offset to 0.
OffsetInv ==
  ~unforeseen =>
    /\ ~missed
    /\ \A i \in 1 .. Len(frames) : frames[i].on =>
         /\ \A j \in 1 .. i : frames[j].on
         /\ frames[i].stage = "control" =>
              /\ frames[i].start \in offsetsStack[i]
              /\ frames[i].acc \in offsetsStack[i + 1]
              /\ i > 1 => \/ frames[i].start = frames[i - 1].acc
                          \/ offsetsStack[i] = {0}
         /\ i = Len(frames) \/ ~frames[i + 1].on =>
              IF frames[i].stage = "control"
              THEN currOffset = frames[i].acc \/ offsetsStack[i + 1] = {0}
              ELSE i > 1 => currOffset = frames[i - 1].acc \/ offsetsStack[i] = {0}

ConvInv == TypeOK /\ StackInv /\ OffsetInv

====
