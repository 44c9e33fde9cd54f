# Specifications of the MicroP4 midend

MicroP4 compiles a program made of *composable packages* (a `micro_parser`, a
`micro_control` and a `micro_deparser` each) to one P4 program for a target. The
compiler is p4c plus the passes under `extensions/csa`. The interesting part is
the midend: the parsers and deparsers of all packages become match-action tables
that work on one *byte stack*, a header stack of bytes that is filled from the
packet once, at the start, and written out once, at the end. Whether the compiled
program is right depends on static bounds (how long must the stack be, at which
offsets can a package start), on tables whose entries are enumerated at compile
time, and on actions that shift bytes up and down the stack. These modules model
those computations and, next to them, the executions they have to be right about.

## 1. Inventory

The compiler is sequential: no threads, no messages, nothing is persisted, a
failure is a compile error. What is hard to get right in it is

* **over-approximation**: a pass folds over all paths of a program and its result
  must hold of each single path (counters that are saved, reset and maximised);
* **agreement**: two passes, or two vectors of one pass, must agree on an
  enumeration (which entries exist, at which index, under which name);
* **order**: the generated actions move overlapping blocks of bytes;
* **termination** of graph loops and of symbolic unrolling;
* **boundaries**: offset 0, the end of the byte stack, unsigned subtraction.

| component | state it keeps | operations | interacts with | what makes it correct |
|---|---|---|---|---|
| `P4::ControlBlockInterpreter` (midend) | `maxIncr`, `maxDecr`, `maxExtLen`, `accumDecrPktLen`, the vector of header-operation records | one `preorder` per statement kind | visits callees through `ComposablePackageInterpreter`; its records go to `DeparserConverter` through `hdrValidityOpsPkgMap` | the bounds and the records hold of every path |
| `P4::ComposablePackageInterpreter`, `CSA::StaticAnalyzer` | `maxExtLen`, `byteStackSize` | parser, control, package | uses `ParsersUnroll`'s maximal offset | the stack is long enough for every execution |
| `P4::ParsersUnroll` (`AnalyzeParser`, `CreateXoredHeaderSets`, `ParserSymbolicInterpreter`) | call graph, level sets, worklist, value maps | peel a level, evaluate a state | level sets and parsed headers go to `DeparserConverter`, offsets to `Converter` and `StaticAnalyzer` | levels exclude one another's headers, offsets are complete, both loops end |
| `CSA::ParserConverter` | `keyElementList`, `entryListPerOffset`, `actionDecls`, `toAppendStats` of one parser | one evaluated instance of a state at a time; one field at a time | walks the instances `ParsersUnroll` made, for the offsets `Converter` passes | the table does what the parser does and copies the right bits from the stack to the fields |
| `CSA::DeparserConverter` | `keyValueEmitOffsets`, `headerKeyValues`, action declarations | one `emit` at a time, then the multiplication with the operation records | reads the two passes above; its tables run after the control | the stack holds the packet the emit statements describe |
| byte moves (`createByteMoveP4Action`) | none | one assignment per byte | the actions of `DeparserConverter` | a move is a copy, overlap or not |
| `CSA::HdrToStructs` | none | rewrites `setValid`, `setInvalid`, `isValid` to flags | the flags are keys of the deparser table | flags say what header validity says |
| `CSA::Converter`, `CPackageToControl` (`toControl`) | `offsetsStack` | push and pop around packages | gives parsers and deparsers their start offsets | a package's tables have an entry for every offset it is applied at |
| `SlicePipeControl`, `PartitionP4Control`, `CreateAllPartitions`, with `ScanForHdrVOps` and `ControlStateReconInfo` | `slice`, `slicedHalf`, `newStmtVec`, `constraintState`, the partitions | cut a control where a statement is not allowed in the pipeline, until no part has to be cut | in the backends, after `toControl`; `getControls` deals the parts out | the loop ends, each part is allowed where it runs, and the parts do what the control did |
| `ReplaceByteHdrStack`, `FoldLExpSlicesInAsStmts` (Tofino backend) | the slices folded so far | bytes become slices of two-byte elements, neighbouring slices one assignment | rewrites the actions of the passes above | a folded action does what it did |
| `MSAPacketSubstituter`, `csaExternSubstituter` | none | rename externs | after `toControl` | - |
| parser/deparser motion and merging (`deParMotion`, `*DeParMerge`, `headerMerge`, `deparserInverter`, ...) | graphs, header merges | optimisations behind options | before `toControl` | the merged parser accepts the same packets |
| `DeadFieldElimination`, `RmUnusedApplyParams` | sets of used fields | removal | last | removed fields are dead |
| syntactic passes, driver, csa backends | - | - | - | - |

The hazards, each at its line, are in `PROJECT.json`. Some of them the code meets: their
failing inputs are the ones listed under "Known limits of the code" below, which the
properties leave out by a named condition. Such a hazard lists no property, but says in
its note which condition leaves it out.

## 2. Modules

| module | models | role |
|---|---|---|
| `ControlBlockInterpreter` | `midend/controlBlockInterpreter.{h,cpp}` | the walk over a control body, and one execution of that body |
| `StaticAnalyzer` | `midend/composablePackageInterpreter.*`, `extensions/csa/midend/staticAnalyzer.*` | extends the walk to a package and the size of the byte stack; properties |
| `StaticAnalyzer_proof` | | proofs about it |
| `ByteStack` | `createByteMoveP4Action`, the assignments of an action | operators and the machine that executes them |
| `ByteMove`, `ByteMove_proof` | the same | one move against a simultaneous copy, and the proof |
| `DeparserConverter`, `DeparserConverter_proof` | `extensions/csa/midend/deparserConverter.*` | the pass, then the generated table on a packet |
| `ParserUnroll`, `ParserUnroll_proof` | `midend/parserUnroll.*`, `frontends/p4/callGraph.h`, `extract` in `midend/interpreter.cpp` | the two loops, then an execution of the parser |
| `FieldSlices`, `FieldSlices_proof` | `ExtractSubstitutor` of `extensions/csa/midend/parserConverter.cpp`, `createP4Action` of `deparserConverter.cpp` | fields that are not whole bytes, read from and written to the stack |
| `Converter`, `Converter_proof` | `Converter` of `extensions/csa/midend/toControl.cpp`, with `createInitdAction` of `parserConverter.cpp` | the walk over the packages with `offsetsStack`, and one execution of them |
| `HeaderValidity` | the validity of headers as P4 defines it | abstract specification |
| `HdrToStructs`, `HdrToStructs_proof` | `extensions/csa/midend/hdrToStructs.*`, with the statements of `toControl`, `parserConverter` and `deparserConverter` that clear, set and read the flags | the three flags of a header; refines `HeaderValidity` |
| `SlicePipeControl` | `extensions/csa/midend/slicePipeControl.*`, `scanForHdrVOps.cpp`, `controlStateReconInfo.cpp`, `getControls` | the cut of the main control, then the two pipelines on a packet |
| `ReplaceByteHdrStack` | `backend/tofino/replaceByteHdrStack.cpp` | extends `ByteMove`: the same move, translated and folded; proofs in `ByteMove_proof` |
| `ParserConverter` | `extensions/csa/midend/parserConverter.*` | the table of a parser, then the table on a packet |
| `SequenceLemmas` | | facts about natural numbers and sequences that the proofs share |
| `MC_bounds`, `MC_deparser`, `MC_parser`, `MC_fields`, `MC_converter`, `MC_slice`, `MC_tables`, `MC_validity` | | constants for TLC |

### How code and model correspond

**ControlBlockInterpreter.** The control body is not a constant: every action of
the module is one visit, `Visiting` counts statements, and the sequence of actions
taken is the program. TLC thus enumerates all bodies of up to `MaxNodes`
statements, `MaxDepth` levels of nesting and `MaxAlts` cases or actions. The locals
of the recursive `preorder` calls are the records on `frames`. The variable `path`
is one execution of the same body: at each branching statement it commits to an
alternative (`take`), and while the walk is in that alternative (`OnPath`) it
performs what the statement does at run time. Comparing the two compares the
analysis with any one path, that is, with all of them. A package that is applied
is summarised by three numbers, and its execution is any within them, which is
what the property says of the package being analysed: the argument over the
acyclic call graph of packages is by that induction.

`Shapes` says which program shapes occur. Four of them only make the input richer.
Two, `reapply` (a package applied twice: an `Inspector` visits a node once) and
`onApply` (the actions of the table a `switch` applies: the expression of the
statement is not visited) make the bounds unsound; the theorems assume them away
(`Plain`). Adding one of them to `Shapes` in `MC_bounds.cfg` makes TLC report a
body whose bounds are too small.

**DeparserConverter.** `EmitStatement` is one `preorder(MethodCallStatement)`,
`FinishTable` is `postorder(BlockStatement)`. `keyValueEmitOffsets` holds, per
entry, the values of the validity keys, the current and the initial offset and the
action made so far. Afterwards `Arrive` picks a packet (a start offset, a set of
parsed headers the parser accepts, the operations the control performed), looks up
the entry, and `RunAction` executes its assignments one at a time. A byte of the
stack is the model value it came from (`PktByte(j)`, `HdrByte(h, s)`), so that a
misplaced byte is seen. Fields are whole bytes, and the deparser is a sequence of
emit statements. `Dropped`, `Without` and `With` are the body of the loop of
`extendEmitTable`: the entries `continue` skips, and the two ways the others go on.
`VisitKey` is one round of the loop over the keys in `multiplyHdrValidityOpsTable`, which
finds out what of a packet moves where; `EmitOrder` and `Emit` are the two loops of
`extendEntry`, which order and make the assignments.
That the headers the parser accepts with exclude each other in every set of
`XoredHeaderSets`, and are in `ParsedHeaders`, is assumed of the constants: these are
`ExclusiveLevels` and `ParsedHeadersComplete` of `ParserUnroll`.

**ParserUnroll.** `next` and `extracts` are the parser. `StartLevel`, `VisitNode`
and `EndLevel` are the loop of `CreateXoredHeaderSets` (the order of the nodes in a
level is free: the code iterates over a pointer-ordered set), `EvaluateState` one
round of `ParserSymbolicInterpreter::run`. `unrolled` are the infos made so far,
`level` and `round` are history. Every state has a transition, which the frontend sees
to; one without would never be in the graph. Then
`exec` runs the parser on some packet: a select may take any of its cases, or none.
Header stacks, varbit headers and metadata assignments are left out.

**FieldSlices.** A bit of the stack is the model value it came from. `ExtractField`
is one round of the loop over the fields in `createPerFieldAssignmentStmts`,
`EmitField` one round of the loop in `createP4Action`; `Control` in between assigns
any of the fields. The header ends inside the stack, which is what the static analysis
sizes it for. `DeparserConverter` works with whole bytes and relies on this
module for the rest.

**Converter.** `VisitParser`, `ApplyPackage` and `VisitDeparser` are the `preorder`
methods; `Next` and `stage` are their order, which `preorder(P4ComposablePackage)`
fixes: parser, controls with the packages they apply, deparser. As above, the calls
met are the program, and one execution runs along: a frame it is in is `on`, and
there it looks up the tables the pass makes. `accepts` is what
`getAcceptedPktOffsets` returns for a parser (the business of `ParserUnroll`), and
`Restoring` are the packages whose deparser sets `curr_offset` back (the business of
`DeparserConverter`: those without header operations). The variable `unforeseen`
becomes true when a parser rejects, after which the control still runs with the
offset at which the parser started, since nothing reads `packet_reject`; and when a
deparser does not set the offset back. In both cases the packages applied later may
miss their entries. A package is applied once: the pass visits it once, and a second
application would run the tables of the first.

**HdrToStructs.** The module runs the generated package on packet after packet.
Which flag is written where is spread over four passes: `ClearHdrVop`
(`CPackageToControl`), `InitParser` and `Extract` (`ParserConverter`), `SetValid`,
`SetInvalid` and `IsValid` (`HdrToStructs`), `Deparse` (`DeparserConverter`). The
flags start with any values, as uninitialized locals do, and keep what the packet
before left. `Records` are the operation records of `ControlBlockInterpreter`: they decide
which flags are keys of the table (`OpKeys`) and which entries it has (`TableRecords`). A
packet whose operations have no record, such as one without any (the empty record is
erased), runs `NoAction` and nothing is emitted; or it hits the entries of another record,
if the flag that differs is no key. That every set of parsed headers has entries is the
business of `DeparserConverter` (`PacketsHit`). `HeaderValidity` has the set `valid`, the
last operation on each header and what a P4 program sees of them. It binds `isValid()` on
every packet, and the deparser on packets whose operations are `Recorded`; for the others
it leaves open what is emitted, since there the code emits the wrong headers. The
refinement mapping is `Validity`, the union of two flags without the third once the parser
runs, and `LastOp`. `ReadInvalidated` says whether a program may ask `isValid()` of
a parsed header after `setInvalid()`. With TRUE, TLC reports the violation: the code
reads two flags of three.

**SlicePipeControl.** A statement is a record; what it is not allowed in (`needs`) is
the only thing the pass asks of it. `Visit` is the visitor: its result holds the
members the visitor sets (`slice`, `slicedHalf`, `newStmtVec`) and `Cut*` are the
`preorder` methods. `Partition` and `EndPartition` are the two ways through
`PartitionP4Control::preorder(P4Control)`, `Round` one round of `CreateAllPartitions`.
Then the parts run in the two pipelines; `flag` starts with any value, because the
fields `if_N` of the shared structs are not initialized. The stage `"bug"` is a
compiler that aborts, or makes a program with a call that does not resolve. The call of an
action stands in the model as a `Table`: both visit the action, a local of the control that
was visited before. The shared
structs and parameters which carry local variables over are left out.

**ReplaceByteHdrStack.** `Fold` is the visit of one action: pending slices are kept
until one does not fit. `mem` are the elements, and the two machines run the same move
one after the other.

**ParserConverter.** An instance of a state is named by the cases that lead to it,
which is how `ParserSymbolicInterpreter` makes instances. `StateIterator` is the loop
body of `stateIterator` for one instance, in any order of the instances of a state.
A select looks at one byte of a header, or at an argument of the parser. `Apply` picks
a start offset, a packet and what the arguments hold, and looks up the first entry that
matches; `Parse` is what the parser does. `Translatable` says for which parsers the two
should agree; see the limits below.

## 3. Runs

| run | shows |
|---|---|
| `bounds` | `BoundsSound`, `StackSuffices` and their inductive invariant `IInv` on all bodies of four statements, one header, two packages, two alternatives, depth two. Four statements are the fewest with a nested branch, an operation in it and a callee behind it. |
| `records` | `OperationsRecorded` and its inductive invariant `RecordsInv`: each combination of operations that a path performs has a record. Two headers, so that a record may be attributed to the wrong alternative; no nesting, no operation after the last branch and no header set both ways on one path, for which the records are not complete. |
| `byte_move` | a move against a simultaneous copy, on a stack of six bytes: every overlap in both directions; and `FoldedMoveAgrees`, the same move on two-byte elements in stacks of two, so that it crosses elements and stacks. |
| `validity` | `ImplementsHeaderValidity`, a refinement, and `FlagInv`, on three headers of which two have operations, with records of a push, a pop and a replacement, from all 128 values of the flags, for any number of packets, with and without a record of their operations. |
| `slice` | `OrderKept`, `ConstraintsMet`, `HeadersCarried` and `PartitionsBounded` on 305 controls: pairs of 17 statements (plain, barriers of both kinds, a table, calls of controls and packages with a barrier at the start, in the middle, in an inner block, conditionals with a barrier in the condition or in a branch) and longer ones with three cuts. All values of conditions and of uninitialized flags. |
| `tables` | `TableParses` and `EntriesAligned` on 150 parsers of up to four states, start offsets 0, 1, {0, 2} and {1, 0, 2}, all packets of six bytes. |
| `deparse` | `Deparsed` for four headers of widths 1, 2, 1, 2, all pairs of accepted headers and operation records at start offset 2, and several sets of start offsets without operations; `Aligned`; `PacketsHit`: each of these packets has an entry; `OffsetRestoredWithoutOps`. The stack has 12 bytes: all headers, and a rest that is cut when it moves up. |
| `parser` | all acyclic parsers over four states; `ExclusiveLevels` and `OffsetsSound` with the inductive invariants `PeelInv` and `OffsetsInv` behind them, `ParsedHeadersComplete`, and `Terminates` under fairness. |
| `fields` | `FieldsExtracted` and `HeaderEmitted` on every layout of a header of up to three bytes and three fields, or of two bytes and four: fields that start, end, span and lie inside a byte, alone and next to each other. `TypeOK`: no slice is read or written behind the stack of four bytes, which the largest header at the second start offset fills to the end. |
| `converter` | `EntriesCover` and `OffsetsAgree`, with the inductive invariant `ConvInv` behind them, on all trees of four packages (a chain of four, siblings, siblings below siblings), one of which does not restore the offset, and parsers that accept at 0, at 1, or at 0 and 2: with and without an offset key, with one and with several offsets, and with sums that coincide. |

Two runs show disagreements between the code and the programs it is meant for; each is
described under `findings` in `PROJECT.json`:

| run | what the code does |
|---|---|
| `no_op_record` | the empty operation record is erased, so a path without operations has no deparser entry in a package that has operations on other paths |
| `accept_case` | a select case that accepts gets no entry, and the entry of its state is gone: the headers extracted so far are lost |

### Known limits of the code

The passing runs and the theorems leave these cases out, each by a named condition or by
the inputs chosen. All of them can be reproduced by removing that condition.

* `DeparserConverter`, `Arguments` in the run and `WithinLimits` in the theorem. At start
  offset 0 with operations,
  `createP4Action(mcs, offset)` advances its reference parameter `offset`
  (`deparserConverter.cpp:489`), so the entry for the first header valid records an
  initial offset behind that header, from which the moves start (`<<0>>` with the record
  `[first |-> {}, second |-> {"x"}]` shows it). With several start offsets and operations,
  entries of different start offsets can share an action name, which is made of the header
  offsets and the total move, and one runs the other's moves (`<<1, 2>>` with the same
  record). And when two entries reach an emit statement with the same offset,
  `createP4Action` returns the action of the first without advancing the second, whose next
  header is then written over this one (`<<1, 2>>` without operations).
* `OffsetRestored` does not hold after header operations: the actions of the multiplied
  table do not contain `set_offset_`, so `curr_offset` stays behind the package's headers
  (`deparserConverter.cpp:1214`). `Restoring` in `Converter` takes this into account.
* `ParserUnroll`: with a cycle in `NextChoices` the loop of `CreateXoredHeaderSets`
  (`parserUnroll.cpp:30`) does not end, so `checkLoops`, which comes later, is not reached;
  `Terminates` is violated. With two headers in one state, as in `srv6-simple.up4:106`,
  `XoredSetsSound` is violated: both are in the same set of mutually exclusive headers.
* `FieldSlices`, `InsideByte`: a field strictly inside a byte is read one bit too high
  (`parserConverter.cpp:716`), for instance `exp` in the layout `<<20, 3, 1, 8>>` of MPLS.
* `StaticAnalyzer`, `Shapes`: `reapply` and `onApply`, above.
* `HdrToStructs`, `ReadInvalidated`: `isValid()` after `setInvalid()`, above. What the
  deparser emits of a packet whose operations have no record, above (`Recorded` in
  `HeaderValidity`; run `no_op_record` for the most common case). And `hdr_vop`
  has no fields for headers without operations, so `isValid()` of them does not type-check.
* `SlicePipeControl`, `BranchSliced`: a conditional with a barrier in a branch. If the
  branch is a block it is null when `appendStatement` is called: a then-branch aborts the
  compiler, the upper half of an else-branch is lost. If it is a single statement,
  `bs` is redeclared in the inner block (line 765) and the statement is dropped. With three
  parts, the first and the third run in the ingress before the second runs in the egress,
  and part 2 of a package is not found in `controlToReconInfoMap` when it is cut again.
  A control that is called twice and cut is erased under the second call.
* `ReplaceByteHdrStack`, `StartsAnElement`: a move that begins with the second byte of an
  element. `preorder(ArrayIndex)` compares the element with itself (line 340), the second
  byte of one element and the first of the next are folded into one, and one of them is
  written to the wrong element. An odd number of bytes aborts the compiler (line 155).
* `ParserConverter`, `Translatable`: a case that accepts (run `accept_case`); a state that
  hands over more than one header, or a chain of three states with headers, because the
  next states get the state's own statements without the last; an inner select that matches
  nothing behind a default case of an outer one; a direct transition to a state that is
  not final, which binds no entry; a select on a field of an earlier state, which is a key
  read before any action has written it (`srv6-simple.up4:85`).

**Fairness.** `FairSpec` has weak fairness of `Pass`, the disjunction of the steps
of the compiler: it is a sequential program that runs until it returns. The
execution of the parser has no fairness, and `Terminates` does not need any. The
remaining specifications have none.

**Deadlock** is checked in `validity`, where packets keep coming, and in `slice` and
`tables`, where the end of a run is an explicit step: a statement that no rule executes, or
an instance of a state that is never visited, would be one. In the other runs a pass and
an execution just end, and it is not checked.

**Bounds.** `MaxNodes`, `MaxDepth`, `MaxAlts` bound the bodies of `ControlBlockInterpreter`;
`StackSize` and `stackSize` the byte stack and its elements (`ResiBlockSize` subtracts
integers where the code subtracts unsigned values, which is the same while the parsed
headers end on the stack); `MaxPartitions` the parts of a
control, above what any control of the run reaches (`PartitionsBounded` allows fewer);
`PacketLength` covers the largest start offset and all headers of any parser of the run.

## 4. Theorems

All constants are arbitrary, within the `ASSUME`s of the modules (widths positive,
bounds natural numbers).

* `StaticAnalyzer_proof`: `TypeCorrect`, `BoundsAreSound`, `ByteStackSuffices`,
  `RecordsFollowExecution`, `EveryOperationRecorded`. The
  invariant is `IInv` (`WalkFollowsExecution`). `BoundsSound` speaks of the end of the walk only; in its
  middle the counters bound the execution only while the walk is in the alternative
  the execution takes. `FrameSound` says what bounds it otherwise: before that
  alternative, the counters saved at entry; after it, the maxima so far. `Nesting`
  says that the execution is in an inner statement exactly when it is in the
  alternative around it, which carries the bounds outwards when a statement ends.
  Two conditions are assumed (`Plain`): no `reapply`, no `onApply`.
  `EveryOperationRecorded` assumes what the run `records` does (`Recordable`): no nesting,
  no operation behind the last branch, no header set both ways, no switch without a match
  or on a table with operations. `RecordsInv` says where in the vector the execution's
  record is: in the block of the alternative it takes, complete but for `currOpsRec` while
  the walk is in that alternative. The blocks of two alternatives share no index, so the
  operations of the others do not reach it.
* `ByteMove_proof`: `ByteMoveIsCopy`, for every stack, position, distance and length
  that fits. The invariant `MoveInv` (`ByteMoveKeepsRest`) says which bytes are final and that a byte not
  yet copied is still what it was. `FoldedMoveIsMove` is the same for the move in the Tofino
  program: `FoldOfMove` says, by induction over pairs of assignments, that the folding makes
  one assignment per element, the last perhaps of one half, and `FoldInv` that after q of
  them the elements hold what the bytes hold after as many pairs, where the two bytes of an
  element may be read together because neither is written before (`TakenMore`). It is for
  moves that begin with an element (`StartsAnElement`); see the limits for the others.
* `ParserUnroll_proof`: `LevelsAreExclusive`. `PeelInv` (`PeelingFollowsPaths`) has two
  parts. `PathInv` holds of every parser: an edge goes from a lower to a higher level (as
  far as they are peeled), each set consists of headers that states of one level extract,
  and an execution has its headers from states of lower levels than the one it is in.
  `XInv` holds of those with `OneHeaderPerState`: the headers of a set are extracted in no
  other level, and an execution has at most one header of each. `ExclusiveLevels` follows
  from `XInv` and has the same hypothesis, which is needed: `srv6-simple.up4` extracts two
  headers in a state. `ParsedHeadersAreComplete` rests on a second invariant,
  `CompleteInv`: a state that has left the graph has left its headers in
  `parsedHeaders`.
  `OffsetsAreSound` rests on `OffsetsInv` (`UnrollingFollowsPaths`), for every parser that
  gets through the peeling. `ChainInv`: no info in the worklist has a state twice on its
  path, because levels increase along it, so the loop check never fires. `UnrollInv`: every
  info made is still in the worklist or has left its offset in the results and its
  successors in `unrolled`. `FollowInv`: an execution stands at some extract of an
  evaluated info, with that info's offset and valid headers; the offsets it can accept at
  are then among those collected. An error abandons successors, and the property says
  nothing then: the compiler stops.
* `FieldSlices_proof`: `SlicesTypeCorrect`, `FieldsAreExtracted`, `HeaderIsEmitted`, for
  every layout, start bit and stack. The parts of a field (the rest of its first byte, whole
  bytes, the high bits of the last) are shown to tile it, once for reading and once for
  writing: every bit of the field lies in one slice, at the position the header type gives
  it. `Write` extends the stack where an assignment is outside of it, so that `TypeOK` says
  of writes, too, that there is none (`AllInside`); that needs the header to end on the stack
  (`FieldSlicesAssumption`). The invariant `SlicesInv` adds to the properties that the stack is the packet's until
  the first field is emitted. `InsideByte` is in `FieldsExtracted` because the code reads
  these fields wrongly; writing needs no such exception.
* `DeparserConverter_proof`: `VectorsAligned`, `EveryPacketHits`, `OffsetIsRestored`,
  `PacketDeparsed` and `AssignmentsOnStack`, for any deparser, start offsets, accepted sets
  and operation records. `PassInv` says that
  the vectors are aligned and that each start offset and each set of accepted headers has an entry,
  as far as the emit statements are visited (`Covered`). The entry for `h` present is kept
  because accepted headers exclude each other in the xored sets (`AcceptedKept`). The table
  then has an entry per packet whichever of the two ways it is made: without operations an
  entry left out has no header to emit, and with them entry `k` and record `m` meet at index
  `(m - 1) n + k`, which is where alignment is used. `OffsetIsRestored` needs the
  second theorem: a packet that missed would not run the assignment to `curr_offset`.
  `PacketDeparsed` is about the bytes: `Deparsed` holds of every packet `WithinLimits`.
  Without operations that is `OffsetsApart`: no two combinations of a start offset and
  headers end at the same byte before the last emit statement, so that no two entries share
  an action they should not share. With operations it is `OneOffset` (one start offset, not
  0, and no record that validates and invalidates the same header) and `Fits`: the packet's
  headers end on the stack before the operations and after them. Outside of these the code
  is wrong, see the limits above; inside, nothing is assumed of widths, the number of
  headers, which are accepted, or the stack. The proof has three parts. What assignments do
  to a stack: `Ran` is a sequence of them, `MoveRun` says that a move is a copy whichever
  way it overlaps, `WriteHeaderRun` that a header is written, `ConfinedRun` what they leave
  alone. What an action of the multiplied table does: `EmitDataInv` says, key by key, that
  the old and the new place of a header are the widths of the parsed and of the valid headers
  in front of it. `EmitOrder` only has to keep every element (`Reorders`): all bytes of a
  header are written from its struct after it has moved, and the places do not overlap, so
  the headers are right in any order (`HeadersWritten`). What does depend on the order is the
  rest of the packet, which must move before the headers when it moves up and after them
  when it moves down (`EntryActionRun`): otherwise headers are written over bytes that have
  not moved yet. What is in the table: `EntryRight` and `TableRight`
  say that an entry's action does this for the packets with its key, where an action that is
  shared under one name is shown to be the same (`SameName`), and `RunInv` carries it
  through the execution. The run `deparse` checks `Deparsed` on small instances.
  `AssignmentsOnStack` is `TypeOK` for every packet with `PacketFits`: within the limits and
  with its parsed and its valid headers on the stack, without operations too. That is the
  size `StaticAnalyzer` computes (`ByteStackSuffices`), and needed: the pass cuts the moves
  at the end of the stack, but `createP4Action` writes all bytes of a header, so a smaller
  stack is overrun (the run has one that suffices). `Contained` says of an
  assignment that it writes a byte of the stack and reads one of it or of a header;
  `EntryActionContained` derives it for the multiplied table from `EmitDataInv` and from
  `SourcesBefore` (the old place of a header that moves ends before the rest of the packet), `Fills` for the
  table without operations, `RunInv` for the action that is running, and `MachineInv` adds
  that the bytes stay bytes. `DeparserAssumption` makes `ByteValue` hold the packet's and the
  headers' bytes.
* `HdrToStructs_proof`: `FlagsNeverContradict`, and `FlagsImplementValidity`, the
  refinement of `HeaderValidity`, for `ReadInvalidated = FALSE`, any headers and any
  records. `FlagInv` is what makes the mapping work: `(v \cup sv) \ siv` and the condition
  `EmitData` computes agree only if no header is in both `sv` and `siv`. That a recorded
  combination is looked up by all of its flags, and not only by those that are keys, is
  `RecordedIsKey`.

* `Converter_proof`: `EntriesCoverExecutions`, `ParserAndDeparserAgree`, and
  `ConverterInvariant` under both, for any packages, nesting and accepted offsets.
  `StackInv` says that below the package at depth i lies the vector its parser was
  converted with, at index i, and above it the one for its callees. That alone gives
  the agreement. For the entries, `OffsetInv` says that the execution is in a prefix of
  the frames, that it entered each at the offset its caller accepted at, and that it is
  now at the offset the last parser accepted at: which has to survive the return from
  a callee, hence the part about the saved start offset. The alternative in each line,
  that the vector is `{0}`, is the case without a key, where the offset may be
  anything because the next parser sets it to 0.

* `SequenceLemmas`: what the others need of `SetToSeq`, `Min`, `\o` and `Append`, and
  `NatSetInduction`. The library's induction theorems take a predicate, which the provers
  cannot instantiate; here a set takes its place, and the theorem follows from the least
  number outside of it. Recursive functions (`StartsOf`, `Concat`, `Written`, `Extracts`,
  `Selections`) are reasoned about with it: a function with the recursive equation exists,
  so the one `CHOOSE` picks has it.

Model-checked only: `Terminates`, which is liveness; `TableParses` and `EntriesAligned`, whose module has `RECURSIVE` operators over the instances of a parser;
and the properties of `SlicePipeControl`, which is recursive over statements.

## 5. Plan

Done: the static analysis, byte moves, the deparser, the parser's unrolling, fields,
offsets, header validity with its refinement, the parser's table, the cut of controls and
the folding of byte moves. Left, in this order:

1. The composition of `Converter` with `ParserUnroll` (`accepts`) and with
   `DeparserConverter` (`Restoring`), and a second application of a package.
2. Header stacks in `ParserUnroll`; `if` and `switch` in `DeparserConverter`.
3. The shared structs of `SlicePipeControl`, and `DeparserInverter`, which swaps the
   sides of a deparser's assignments without reversing their order.
4. The merge passes, `DeadFieldElimination`.
5. Theorems: `EntriesAligned`.

## 6. Not modelled

Of the ninety thousand lines of C++ in the repository nearly all are upstream p4c: the
frontends, the IR, the type checker, the P4-14 converter, the control-plane serializer and
the other backends. They are third-party, not part of the composition logic, and mostly
translations of one tree into another without state of their own; only the pieces that the
csa passes rest on are modelled (`CallGraph`, `extract` in the symbolic interpreter,
`PassRepeated`). Of the csa extension itself, the purely syntactic passes, the printing of
target programs, and file and option handling are left out; what else is missing is in the
plan. See `components` in `PROJECT.json` for each.
