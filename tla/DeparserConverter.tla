---- MODULE DeparserConverter ----
(***************************************************************************)
(* CSA::DeparserConverter (extensions/csa/midend/deparserConverter): turns *)
(* the emit statements of a micro_deparser into one match-action table.    *)
(* The table is keyed by the offset at which the package's parser started, *)
(* by which of the emitted headers were parsed, and by the header validity *)
(* operations the control performed (hdr_vop); its actions write the       *)
(* emitted headers back to the byte stack and shift the rest of the packet *)
(* when headers were added or removed.                                     *)
(*                                                                         *)
(* The first half of the behaviour is the pass, one action per visited     *)
(* emit statement; the second half runs the generated table on one packet, *)
(* one assignment a step.  Offsets and widths are in bytes.                *)
(***************************************************************************)
EXTENDS ByteStack, SequencesExt

CONSTANTS
  Headers,        \* header instances
  Width,          \* their widths
  Emits,          \* the emit statements of the deparser, in order
  XoredHeaderSets,\* header sets of which at most one header is parsed
  ParsedHeaders,  \* headers some parser state extracts
  Accepts,        \* the sets of headers the parser may accept with
  Arguments       \* candidate values of <<initialOffsets, *xoredValidityOps>>

OffsetKey == "o"

PktByte(j) == <<"pkt", j>>

\* ParserUnroll shows of the sets it hands over that the accepted headers exclude each
\* other in them.
ASSUME DeparserAssumption ==
  /\ Width \in [Headers -> Nat \ {0}]
  /\ Emits \in Seq(Headers) /\ Emits # <<>>
  /\ \A i, j \in DOMAIN Emits : Emits[i] = Emits[j] => i = j
  /\ OffsetKey \notin Headers /\ "stack" \notin Headers
  /\ \A j \in 0 .. StackSize - 1 : PktByte(j) \in ByteValue
  /\ \A h \in Headers : \A s \in 0 .. Width[h] - 1 : HdrByte(h, s) \in ByteValue
  /\ \A S \in Accepts : S \subseteq ParsedHeaders
  /\ \A S \in Accepts, X \in XoredHeaderSets : \A g, h \in S \cap X : g = h
  /\ \A a \in Arguments :
       a \in Seq(Nat) \X Seq([first : SUBSET Headers, second : SUBSET Headers])

VARIABLES
  initialOffsets,       \* offsets at which the package may start
  xoredValidityOps,     \* the operation records of its control
  stage,                \* "emits", "table", "run", "done"
  emitted,              \* emit statements visited
  headerKeyValues,      \* key values of the entries, for the multiplication
  keyValueEmitOffsets,  \* the entries: key, current and initial offset, action
  table,                \* the generated table
  currOffset,           \* p.indices.curr_offset
  pkt                   \* the packet: where its package started, what was
                        \* parsed, the flags of hdr_vop, and whether the
                        \* action it hits ends by resetting curr_offset

passVars == <<initialOffsets, xoredValidityOps, emitted, headerKeyValues,
              keyValueEmitOffsets, table>>
runVars == <<stack, code, pc, currOffset, pkt>>
vars == <<passVars, runVars, stage>>

\* createP4Action(hdrInstName, offset): every byte of the header, from the struct.
WriteHeader(h, offset) == [s \in 1 .. Width[h] |-> WriteByte(offset + s - 1, h, s - 1)]

\* The total width of those of the first n emitted headers that are in S, for every n.
WidthUpTo(S) ==
  LET width[n \in 0 .. Len(Emits)] ==
        IF n = 0 THEN 0
        ELSE width[n - 1] + (IF Emits[n] \in S THEN Width[Emits[n]] ELSE 0)
  IN width

\* addDummyInit: the offset is a key unless the package can only start at 0.
HasOffsetKey == initialOffsets # <<0>>

----------------------------------------------------------------------------
(* The pass, up to the multiplication with the validity operations.        *)

\* initTableWithOffsetEntries
OffsetEntries ==
  [i \in DOMAIN initialOffsets |->
     [vals |-> <<>>, curr |-> initialOffsets[i], init |-> initialOffsets[i], act |-> <<>>]]

\* createEmitTable, for the first emit statement when there is no offset key.
\* createP4Action advances `offset', so the second entry starts behind the header.
CreateEmitTable(h) ==
  /\ keyValueEmitOffsets' =
       <<[vals |-> <<FALSE>>, curr |-> 0, init |-> 0, act |-> <<>>],
         [vals |-> <<TRUE>>, curr |-> Width[h], init |-> Width[h],
          act |-> WriteHeader(h, 0)]>>
  /\ headerKeyValues' = << <<"f">>, <<"t">> >>

\* The elements of s at the indices in I, of the first n ones, for every n.
Selections(s, I) ==
  LET sel[n \in 0 .. Len(s)] ==
        IF n = 0 THEN <<>> ELSE IF n \in I THEN Append(sel[n - 1], s[n]) ELSE sel[n - 1]
  IN sel

Selected(s, I) == Selections(s, I)[Len(s)]

\* Mutant: one header of a set is one too many (numValidHdr > 0).
EmitsXORedHdr(vals) ==
  \E S \in XoredHeaderSets : \E i \in DOMAIN vals : vals[i] /\ Emits[i] \in S

\* emitsXORedHdrs: two of the headers valid in the key exclude each other.
EmitsXORedHdrs(vals) ==
  \E S \in XoredHeaderSets : \E i, j \in DOMAIN vals :
    i # j /\ vals[i] /\ vals[j] /\ Emits[i] \in S /\ Emits[j] \in S

\* Mutant: the cleared elements stay.
KeepEmptyElements(values) == values

RemoveEmptyElements(values) == Selected(values, {i \in DOMAIN values : values[i] # <<>>})

\* The entries to which h is not added: it would come with a header that excludes it, or
\* no parser state extracts it.
Dropped(h) ==
  {i \in DOMAIN keyValueEmitOffsets :
     EmitsXORedHdrs(Append(keyValueEmitOffsets[i].vals, TRUE)) \/ h \notin ParsedHeaders}

Without(i) == [keyValueEmitOffsets[i] EXCEPT !.vals = Append(@, FALSE)]

\* createP4Action returns the action that an earlier entry declared for h at the
\* same offset, and then does not advance currentEmitOffset.
With(h, i) ==
  LET declared == \E k \in (1 .. i - 1) \ Dropped(h) :
                    keyValueEmitOffsets[k].curr = keyValueEmitOffsets[i].curr
  IN [keyValueEmitOffsets[i] EXCEPT
        !.vals = Append(@, TRUE),
        !.curr = IF declared THEN @ ELSE @ + Width[h],
        !.act = WriteHeader(h, keyValueEmitOffsets[i].curr) \o @]

\* extendEmitTable: every entry once without h and once with it.  Entries that
\* cannot occur are not made, and their key values cleared and then removed.
ExtendEmitTable(h) ==
  LET n == Len(keyValueEmitOffsets)
      kept == Selected([i \in 1 .. n |-> i], (1 .. n) \ Dropped(h))
      doubled == headerKeyValues \o headerKeyValues
      valued == [i \in 1 .. 2 * n |->
                   IF i <= n THEN Append(doubled[i], "f")
                   ELSE IF i - n \in Dropped(h) THEN <<>>
                   ELSE Append(doubled[i], "t")]
  IN /\ keyValueEmitOffsets' =
          [i \in 1 .. n |-> Without(i)] \o [m \in DOMAIN kept |-> With(h, kept[m])]
     /\ headerKeyValues' = RemoveEmptyElements(valued)

\* preorder(MethodCallStatement), on the next em.emit(p, hdr.h)
EmitStatement ==
  /\ stage = "emits" /\ emitted < Len(Emits)
  /\ LET h == Emits[emitted + 1]
     IN IF emitted = 0 /\ ~HasOffsetKey THEN CreateEmitTable(h) ELSE ExtendEmitTable(h)
  /\ emitted' = emitted + 1
  /\ UNCHANGED <<initialOffsets, xoredValidityOps, table, runVars, stage>>

----------------------------------------------------------------------------
(* multiplyHdrValidityOpsTable and extendEntry.                            *)

KeyNames == (IF HasOffsetKey THEN <<OffsetKey>> ELSE <<>>) \o Emits
WidthOf(name) == IF name = OffsetKey THEN 0 ELSE Width[name]

\* One key: emitData grows, and with it where the rest of the packet is (curr)
\* and by how much it has to move (mo).
VisitKey(d, h, value, ops) ==
  LET w == WidthOf(h)
      setValid == h \in ops.first /\ value = "f"
      setInvalid == h \in ops.second /\ value = "t"
  IN IF setValid
     THEN [d EXCEPT !.data = Append(@, [os |-> d.curr + d.mo, mo |-> 0, h |-> h]),
                    !.mo = @ + w]
     ELSE IF value # "t" THEN d
     ELSE [d EXCEPT !.data = IF setInvalid THEN @
                             ELSE Append(@, [os |-> d.curr, mo |-> d.mo, h |-> h]),
                    !.mo = IF setInvalid THEN @ - w ELSE @,
                    !.curr = @ + w]

\* The loop over keyNamesWidths.
EmitData(entry, values, ops) ==
  LET visited[j \in 0 .. Len(KeyNames)] ==
        IF j = 0 THEN [data |-> <<>>, mo |-> 0, curr |-> entry.init]
        ELSE VisitKey(visited[j - 1], KeyNames[j], values[j], ops)
  IN visited[Len(KeyNames)]

\* Where the run that ends at s starts.
RunStart(data, s) ==
  IF data[s].mo >= 0 THEN s
  ELSE IF \A t \in 1 .. s : data[t].mo < 0 THEN 1
  ELSE CHOOSE t \in 1 .. s : data[t].mo >= 0 /\ \A u \in t + 1 .. s : data[u].mo < 0

\* emitOrder: from the last header to the first, except that a run of headers
\* that move down, with the header before the run, keeps its order.
EmitOrder(data) ==
  LET order[s \in 0 .. Len(data)] ==
        IF s = 0 THEN <<>>
        ELSE SubSeq(data, RunStart(data, s), s) \o order[RunStart(data, s) - 1]
  IN order[Len(data)]

\* Mutant: the rest of the packet up to the end of the stack, wherever it goes.
UncutResiBlockSize(lhsMin, curr) == StackSize - curr

\* resiBlockSize: what of the packet behind curr still fits when moved to lhsMin.  The
\* code subtracts unsigned values: the same as long as curr and lhsMin are on the stack or
\* at its end, as in the run and, by Fits, in the theorems.
ResiBlockSize(lhsMin, curr) ==
  IF lhsMin > StackSize THEN 0
  ELSE IF lhsMin + (StackSize - curr) > StackSize THEN StackSize - lhsMin
  ELSE StackSize - curr

\* Mutant: the wrong way round.
ResidualLast(mo, resMove, emits) == IF mo < 0 THEN resMove \o emits ELSE emits \o resMove

\* The rest of the packet moves first when it moves up, last when it moves down.
WithResidual(mo, resMove, emits) == IF mo > 0 THEN resMove \o emits ELSE emits \o resMove

\* One header moves to its new place, cut at the end of the stack, and is written there.
Emit(x) ==
  LET to == x.os + x.mo
      block == IF to <= StackSize /\ to + Width[x.h] > StackSize
               THEN StackSize - to ELSE Width[x.h]
  IN (IF x.mo # 0 THEN CreateByteMove(x.os, x.mo, block) ELSE <<>>) \o WriteHeader(x.h, to)

\* The headers of `order', one after the other, up to every one of them.
EmitsInOrder(order) ==
  LET emits[i \in 0 .. Len(order)] ==
        IF i = 0 THEN <<>> ELSE emits[i - 1] \o Emit(order[i])
  IN emits

\* extendEntry: the action of an entry.
EntryAction(d) ==
  LET order == EmitOrder(d.data)
      resMove == IF d.mo # 0
                 THEN CreateByteMove(d.curr, d.mo, ResiBlockSize(d.curr + d.mo, d.curr))
                 ELSE <<>>
  IN WithResidual(d.mo, resMove, EmitsInOrder(order)[Len(order)])

\* actName: the emitted headers with the offset of each, and the total move.
ActName(d) == <<[i \in DOMAIN d.data |-> <<d.data[i].h, d.data[i].os>>], d.mo>>

\* An entry per record and key.  actionDecls keeps the first action of a name,
\* and an entry refers to its action by name.
MultiplyHdrValidityOpsTable ==
  LET n == Len(headerKeyValues)
      rec(i) == xoredValidityOps[((i - 1) \div n) + 1]
      row(i) == ((i - 1) % n) + 1
      total == n * Len(xoredValidityOps)
      data == [i \in 1 .. total |->
                 EmitData(keyValueEmitOffsets[row(i)], headerKeyValues[row(i)], rec(i))]
      declared(i) == Min({k \in 1 .. i : ActName(data[k]) = ActName(data[i])})
  IN [i \in 1 .. total |->
        LET e == keyValueEmitOffsets[row(i)]
        IN [off |-> IF HasOffsetKey THEN e.init ELSE 0, vals |-> e.vals, ops |-> rec(i),
            act |-> EntryAction(data[declared(i)]), resets |-> FALSE]]

\* Entries without an action are not made.
MadeEntries ==
  Selected(keyValueEmitOffsets,
           {i \in DOMAIN keyValueEmitOffsets : HasOffsetKey \/ keyValueEmitOffsets[i].act # <<>>})

\* Mutant: the actions do not set curr_offset.
EmitTableNoReset ==
  LET made == MadeEntries
  IN [i \in DOMAIN made |->
        [off |-> IF HasOffsetKey THEN made[i].init ELSE 0, vals |-> made[i].vals,
         ops |-> [first |-> {}, second |-> {}],
         act |-> made[i].act, resets |-> FALSE]]

\* The table of the last emit statement: its actions end by setting curr_offset
\* back to where the package started.
EmitTable ==
  LET made == MadeEntries
  IN [i \in DOMAIN made |->
        [off |-> IF HasOffsetKey THEN made[i].init ELSE 0, vals |-> made[i].vals,
         ops |-> [first |-> {}, second |-> {}],
         act |-> made[i].act, resets |-> HasOffsetKey]]

\* hdrOpKeyNames: the headers whose sv, resp. siv, flag is a key
OpKeys(part) == UNION {xoredValidityOps[i][part] : i \in DOMAIN xoredValidityOps}

\* postorder(BlockStatement)
FinishTable ==
  /\ stage = "emits" /\ emitted = Len(Emits)
  /\ table' = IF OpKeys("first") \cup OpKeys("second") # {}
              THEN MultiplyHdrValidityOpsTable ELSE EmitTable
  /\ stage' = "table"
  /\ UNCHANGED <<initialOffsets, xoredValidityOps, emitted, headerKeyValues,
                 keyValueEmitOffsets, runVars>>

----------------------------------------------------------------------------
(* The generated program on one packet.                                    *)

\* The entries that match.
Hits(off, parsed, flags) ==
  {k \in DOMAIN table :
     /\ table[k].off = off
     /\ \A i \in DOMAIN Emits : table[k].vals[i] <=> Emits[i] \in parsed
     /\ \A part \in {"first", "second"} : flags[part] \cap OpKeys(part) = table[k].ops[part]}

\* The parser started at off, extracted the headers of `parsed' one after the
\* other and left curr_offset behind them; the control set the flags of hdr_vop.
Arrive(off, parsed, flags) ==
  /\ stage = "table"
  /\ currOffset' = off + WidthUpTo(parsed)[Len(Emits)]
  /\ LET hit == Hits(off, parsed, flags)
     IN /\ code' = IF hit = {} THEN <<>> ELSE table[Min(hit)].act
        /\ pkt' = [off |-> off, parsed |-> parsed, ops |-> flags,
                   resets |-> hit # {} /\ table[Min(hit)].resets]
  /\ pc' = 1
  /\ stage' = "run"
  /\ UNCHANGED <<passVars, stack>>

RunAction == stage = "run" /\ Execute /\ UNCHANGED <<passVars, currOffset, pkt, stage>>

EndAction ==
  /\ stage = "run" /\ pc > Len(code)
  /\ stage' = "done"
  /\ currOffset' = IF pkt.resets THEN pkt.off ELSE currOffset
  /\ UNCHANGED <<passVars, stack, code, pc, pkt>>

NoOps == [first |-> {}, second |-> {}]

\* What the flags of hdr_vop may be.
Flags == IF xoredValidityOps = <<>> THEN {NoOps}
         ELSE {xoredValidityOps[m] : m \in DOMAIN xoredValidityOps}

Init ==
  /\ \E a \in Arguments : initialOffsets = a[1] /\ xoredValidityOps = a[2]
  /\ stage = "emits" /\ emitted = 0
  /\ keyValueEmitOffsets = IF HasOffsetKey THEN OffsetEntries ELSE <<>>
  /\ headerKeyValues = IF HasOffsetKey THEN [i \in DOMAIN initialOffsets |-> <<OffsetKey>>]
                                       ELSE <<>>
  /\ table = <<>>
  /\ stack = [j \in 0 .. StackSize - 1 |-> PktByte(j)]
  /\ code = <<>> /\ pc = 1
  /\ currOffset = 0
  /\ pkt = [off |-> 0, parsed |-> {}, ops |-> NoOps, resets |-> FALSE]

Next ==
  \/ EmitStatement
  \/ FinishTable
  \/ \E i \in DOMAIN initialOffsets : \E parsed \in Accepts :
       \E flags \in Flags : Arrive(initialOffsets[i], parsed, flags)
  \/ RunAction
  \/ EndAction

Spec == Init /\ [][Next]_vars

----------------------------------------------------------------------------
\* The pass keeps its vectors, the machine its registers, in their types; every
\* assignment of the action being executed stays on the stack.
TypeOK ==
  /\ <<initialOffsets, xoredValidityOps>> \in Arguments
  /\ stage \in {"emits", "table", "run", "done"}
  /\ emitted \in 0 .. Len(Emits)
  /\ \A i \in DOMAIN headerKeyValues : headerKeyValues[i] \in Seq({OffsetKey, "t", "f"})
  /\ \A j \in 0 .. StackSize - 1 : stack[j] \in ByteValue
  /\ DOMAIN stack = 0 .. StackSize - 1
  /\ \A i \in DOMAIN code : code[i].dst \in DOMAIN stack
  /\ pc \in 1 .. Len(code) + 1
  /\ currOffset \in Nat

\* headerKeyValues and keyValueEmitOffsets are grown side by side, one by copying
\* and erasing, the other by appending; the multiplication reads them at the same
\* index.  Entry i of the one has the key of entry i of the other.
Aligned ==
  /\ Len(headerKeyValues) = Len(keyValueEmitOffsets)
  /\ \A i \in DOMAIN keyValueEmitOffsets :
       headerKeyValues[i] = (IF HasOffsetKey THEN <<OffsetKey>> ELSE <<>>)
         \o [k \in DOMAIN keyValueEmitOffsets[i].vals |->
               IF keyValueEmitOffsets[i].vals[k] THEN "t" ELSE "f"]

\* The headers that are valid after the control.
ValidHeaders == (pkt.parsed \cup pkt.ops.first) \ pkt.ops.second

\* The deparser leaves the packet as its emit statements say: up to the offset at
\* which the package started nothing changes, then come the valid headers, in emit order,
\* with the values the control gave them, then the rest of the packet, as far as the stack
\* reaches.  It takes the offsets, the order and the direction of all moves and
\* the choice of the table entry to be right.
Deparsed ==
  stage = "done" =>
    LET width == WidthUpTo(ValidHeaders)
        end == pkt.off + width[Len(Emits)]
        rest == pkt.off + WidthUpTo(pkt.parsed)[Len(Emits)]
    IN /\ \A j \in 0 .. StackSize - 1 :
            /\ j < pkt.off => stack[j] = PktByte(j)
            /\ end <= j /\ j - end + rest < StackSize => stack[j] = PktByte(j - end + rest)
       /\ \A n \in DOMAIN Emits :
            Emits[n] \in ValidHeaders =>
              \A s \in 0 .. Width[Emits[n]] - 1 :
                pkt.off + width[n - 1] + s < StackSize =>
                  stack[pkt.off + width[n - 1] + s] = HdrByte(Emits[n], s)

\* Every packet has its entry: the table loses no combination of start offset, accepted
\* headers and operations when entries that cannot occur are left out, one vector is
\* shortened after the other, and entries and records are multiplied.  (Without an offset
\* key and without operations, a packet with no header to emit needs none.)
PacketsHit ==
  stage # "emits" =>
    \A i \in DOMAIN initialOffsets, parsed \in Accepts, flags \in Flags :
      \/ Hits(initialOffsets[i], parsed, flags) # {}
      \/ /\ ~HasOffsetKey /\ OpKeys("first") \cup OpKeys("second") = {}
         /\ \A k \in DOMAIN Emits : Emits[k] \notin parsed

\* A package leaves curr_offset as it found it: it is the key with which the
\* parser of the next package its caller applies finds its entry.
OffsetRestored == stage = "done" /\ HasOffsetKey => currOffset = pkt.off

\* It does so when its control changes no header's validity.
OffsetRestoredWithoutOps == xoredValidityOps = <<>> => OffsetRestored

====
