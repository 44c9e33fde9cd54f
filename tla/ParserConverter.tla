---- MODULE ParserConverter ----
(***************************************************************************)
(* CSA::ParserConverter: a parser becomes one table.  State by state, and  *)
(* for every instance that ParsersUnroll made of a state, the entries      *)
(* whose action is the instance's are replaced by one for each select case *)
(* and given key columns, one for each offset the package may start at.    *)
(* The module then applies the table to a packet.                          *)
(***************************************************************************)
EXTENDS Integers, SequencesExt

CONSTANTS
  Headers, Width,     \* header instances and their widths in bytes
  Parsers,            \* parsers, as SimplifyParsers leaves them
  OffsetChoices,      \* values of initialOffsets: vectors of different offsets
  PacketLength,       \* bound: bytes of a packet
  Values              \* of a byte that a select looks at

(* A parser: its states in topological order (sorted), start first, and for each the     *)
(* statements (a header: its extract call; anything else: an assignment), what it         *)
(* selects on (a header's first byte, an argument of the parser, or Direct) and the cases. *)

Direct == "transition"
Default == -1
Finals == {"accept", "reject"}
RejectAction == <<"reject">>

ASSUME ConverterAssumption ==
  /\ Width \in [Headers -> Nat \ {0}]
  /\ Values \subseteq Nat
  /\ \A offsets \in OffsetChoices : IsInjective(offsets)

VARIABLES
  parser, initialOffsets,
  phase,            \* "states", "apply", "done"
  sorted,           \* the states still to be visited
  evaluated,        \* instances of the first of them that have been
  keyElementList, entryListPerOffset, actionDecls, toAppendStats,
  run               \* the table applied to a packet: what it was given and what it did

generated == <<keyElementList, entryListPerOffset, actionDecls, toAppendStats>>
vars == <<parser, initialOffsets, phase, sorted, evaluated, generated, run>>

OnlyZero == initialOffsets = <<0>>

----------------------------------------------------------------------------
(* State instances.  One is named by the cases that lead to it from start.   *)

Case(s, c) == parser.at[s].cases[c]

\* The state an instance is of.
StateOf(path) ==
  FoldLeft(LAMBDA s, c : IF s \notin Finals /\ c \in DOMAIN parser.at[s].cases
                         THEN Case(s, c).next ELSE "reject", "start", path)

Instances(s) ==
  LET Cases == 1 .. Max({Len(parser.at[t].cases) : t \in DOMAIN parser.at})
  IN {path \in SeqOf(Cases, Len(parser.sorted) - 1) : StateOf(path) = s}

HeaderBytes(stmts) ==
  FoldLeft(LAMBDA n, x : n + (IF x \in Headers THEN Width[x] ELSE 0), 0, stmts)

\* Where the symbolic packet is when the instance is entered.
PacketOffset(path) ==
  FoldLeft(LAMBDA n, m : n + HeaderBytes(parser.at[StateOf(SubSeq(path, 1, m))].stmts),
           0, [i \in DOMAIN path |-> i - 1])

\* getActionName
ActionName(path, offset) ==
  IF StateOf(path) = "reject" THEN RejectAction ELSE <<"i", offset>> \o path

----------------------------------------------------------------------------
(* The statements of an action.                                              *)

Copy(h, n) == [op |-> "copy", of |-> h, val |-> n]      \* h_v = true and its fields
SetOffset(n) == [op |-> "offset", of |-> "", val |-> n]
Assign(x) == [op |-> "assign", of |-> x, val |-> 0]

\* ExtractSubstitutor on the statements of an instance.
Components(path, offset) ==
  LET stmts == parser.at[StateOf(path)].stmts
      At(i) == offset + PacketOffset(path) + HeaderBytes(SubSeq(stmts, 1, i - 1))
  IN FlattenSeq([i \in DOMAIN stmts |->
       IF stmts[i] \in Headers
       THEN <<Copy(stmts[i], At(i)), SetOffset(At(i) + Width[stmts[i]])>>
       ELSE <<Assign(stmts[i])>>])

\* What the next states get of them: all but the last, the offset if it is an extract.
ButLast(stmts) == IF Len(stmts) > 1 THEN Front(stmts) ELSE stmts

Appended(path, offset) ==
  LET name == ActionName(path, offset)
  IN IF name \in DOMAIN toAppendStats THEN toAppendStats[name] ELSE <<>>

NewActions(path) ==
  [i \in DOMAIN initialOffsets |->
     [name |-> ActionName(path, initialOffsets[i]),
      stmts |-> Components(path, initialOffsets[i]) \o Appended(path, initialOffsets[i])]]

Successors(path) == {Append(path, c) : c \in DOMAIN parser.at[StateOf(path)].cases}

\* emplace keeps an element that is there, that of an earlier state that rejects.
NewAppendStats(path) ==
  LET Name(o) == {ActionName(q, o) : q \in Successors(path)}
      new == UNION {Name(o) : o \in ToSet(initialOffsets)}
      Of(n) == CHOOSE o \in ToSet(initialOffsets) : n \in Name(o)
  IN [n \in new \cup DOMAIN toAppendStats |->
        IF n \in DOMAIN toAppendStats THEN toAppendStats[n] ELSE ButLast(Components(path, Of(n)))]

----------------------------------------------------------------------------
(* Keys and entries.                                                         *)

OffsetKey == [kind |-> "offset", at |-> 0, of |-> ""]
ByteKey(n) == [kind |-> "byte", at |-> n, of |-> ""]
FieldKey(x) == [kind |-> "field", at |-> 0, of |-> x]

\* Is the select's expression the left side of an assignment of the state?
Substituted(path) ==
  LET st == parser.at[StateOf(path)] IN st.select \in ToSet(st.stmts)

\* The columns: the bytes that are assigned to it, which differ from offset to offset, or
\* one, the expression as it stands.
NewKeyEles(path) ==
  LET x == parser.at[StateOf(path)].select
      Copies(o) == SelectSeq(Components(path, o), LAMBDA c : c.op = "copy" /\ c.of = x)
  IN IF x = Direct THEN <<>>
     ELSE IF Substituted(path)
     THEN [i \in DOMAIN initialOffsets |-> ByteKey(Head(Copies(initialOffsets[i])).val)]
     ELSE <<FieldKey(x)>>

Defaults(n) == [i \in 1 .. n |-> Default]

\* Mutant: the case is compared in the first column.
FirstColumn(path, in, key) == <<key>> \o Defaults(Len(NewKeyEles(path)) - 1)

\* prefExprList, the case and suffExprList: it is compared in the offset's column.
Columns(path, in, key) ==
  IF Substituted(path) THEN Defaults(in - 1) \o <<key>> \o Defaults(Len(initialOffsets) - in)
  ELSE <<key>>

\* One entry for each case that does not accept; keys are the entries' keys, by case.
CaseEntries(path, offset, keys) ==
  LET left == SelectSeq([c \in DOMAIN keys |-> c],
                        LAMBDA c : Case(StateOf(path), c).next # "accept")
  IN [i \in DOMAIN left |-> [keys |-> keys[left[i]],
                             action |-> ActionName(Append(path, left[i]), offset)]]

\* Mutant: one more column, however many there are.
OneDefault(path, e) == << [e EXCEPT !.keys = Append(@, Default)] >>

\* An entry with another action matches whatever is in the new columns.
OtherEntry(path, e) == << [e EXCEPT !.keys = @ \o Defaults(Len(NewKeyEles(path)))] >>

\* The entries of the in-th offset after the instance.
NewEntries(path, in) ==
  LET offset == initialOffsets[in]
      old == entryListPerOffset[offset]
      cases == parser.at[StateOf(path)].cases
      Extended(e) == [c \in DOMAIN cases |-> e.keys \o Columns(path, in, cases[c].key)]
      Replacement(e) == IF e.action = ActionName(path, offset)
                        THEN CaseEntries(path, offset, Extended(e)) ELSE OtherEntry(path, e)
  IN IF NewKeyEles(path) = <<>> THEN old
     ELSE IF old = <<>> THEN CaseEntries(path, offset, [c \in DOMAIN cases |-> <<cases[c].key>>])
     ELSE FlattenSeq([i \in DOMAIN old |-> Replacement(old[i])])

\* stateIterator's loop, for one instance.
StateIterator ==
  /\ phase = "states" /\ sorted # <<>>
  /\ \E path \in Instances(Head(sorted)) \ evaluated :
       /\ evaluated' = evaluated \cup {path}
       /\ keyElementList' = keyElementList \o NewKeyEles(path)
       /\ entryListPerOffset' =
            [o \in ToSet(initialOffsets) |->
               NewEntries(path, CHOOSE in \in DOMAIN initialOffsets : initialOffsets[in] = o)]
       /\ actionDecls' = actionDecls \o NewActions(path)
       /\ toAppendStats' = NewAppendStats(path)
  /\ UNCHANGED <<parser, initialOffsets, phase, sorted, run>>

\* preorder(P4Parser): on to the next state, and createP4Table after the last.
NextState ==
  /\ phase = "states" /\ sorted # <<>> /\ Instances(Head(sorted)) \subseteq evaluated
  /\ sorted' = Tail(sorted) /\ evaluated' = {}
  /\ phase' = IF Tail(sorted) = <<>> THEN "apply" ELSE "states"
  /\ UNCHANGED <<parser, initialOffsets, generated, run>>

----------------------------------------------------------------------------
(* The generated control.                                                    *)

Nowhere == -1

\* curr_offset when the init action is through.
Started(offset) ==
  [at |-> [h \in Headers |-> Nowhere], assigned |-> {}, currOffset |-> offset, rejected |-> FALSE]

Exec(r, stmt) ==
  CASE stmt.op = "copy" -> [r EXCEPT !.at[stmt.of] = stmt.val]
    [] stmt.op = "offset" -> [r EXCEPT !.currOffset = stmt.val]
    [] stmt.op = "assign" -> [r EXCEPT !.assigned = @ \cup {stmt.of}]

ActionStmts(name) == (CHOOSE i \in ToSet(actionDecls) : i.name = name).stmts

\* before: what the fields and arguments are before the parser.
KeyValue(k, offset, packet, before) ==
  CASE k.kind = "offset" -> offset
    [] k.kind = "byte" -> packet[k.at]
    [] k.kind = "field" -> before[k.of]

Matches(e, offset, packet, before) ==
  \A i \in DOMAIN e.keys :
    e.keys[i] \in {Default, KeyValue(keyElementList[i], offset, packet, before)}

\* createP4Table: the entries in the order of the offsets.
Entries == FlattenSeq([i \in DOMAIN initialOffsets |->
             entryListPerOffset[SetToSortSeq(ToSet(initialOffsets), LAMBDA a, b : a < b)[i]]])

\* Without keys there is no table, and the control calls all actions.  No entry: NoAction.
Result(offset, packet, before) ==
  LET hits == SelectSeq(Entries, LAMBDA e : Matches(e, offset, packet, before))
      All == FlattenSeq([i \in DOMAIN actionDecls |-> actionDecls[i].stmts])
      Run(stmts) == FoldLeft(Exec, Started(offset), stmts)
  IN IF keyElementList = <<>> THEN Run(All)
     ELSE IF hits = <<>> THEN Started(offset)
     ELSE IF Head(hits).action = RejectAction THEN [Started(offset) EXCEPT !.rejected = TRUE]
     ELSE Run(ActionStmts(Head(hits).action))

Inputs == [offset : ToSet(initialOffsets), packet : [0 .. PacketLength - 1 -> Values],
           before : [{k.of : k \in ToSet(keyElementList)} -> Values]]

Apply ==
  /\ phase = "apply" /\ phase' = "done"
  /\ \E in \in Inputs :
       run' = <<in, Result(in.offset, in.packet, in.before)>>
  /\ UNCHANGED <<parser, initialOffsets, sorted, evaluated, generated>>

\* initTableWithOffsetEntries.
Init ==
  /\ parser \in Parsers /\ initialOffsets \in OffsetChoices
  /\ phase = "states" /\ sorted = parser.sorted /\ evaluated = {}
  /\ keyElementList = IF OnlyZero THEN <<>> ELSE <<OffsetKey>>
  /\ entryListPerOffset =
       [o \in ToSet(initialOffsets) |->
          IF OnlyZero THEN <<>> ELSE <<[keys |-> <<o>>, action |-> ActionName(<<>>, o)]>>]
  /\ actionDecls = <<>> /\ toAppendStats = <<>> /\ run = <<>>

Done == phase = "done" /\ UNCHANGED vars

Next == StateIterator \/ NextState \/ Apply \/ Done

Spec == Init /\ [][Next]_vars

----------------------------------------------------------------------------
(* What the parser does.                                                     *)

RECURSIVE Parse(_, _, _)
\* From state s, having done r.
Parse(in, s, r) ==
  LET st == parser.at[s]
      Do(q, x) == IF x \in Headers
                  THEN [q EXCEPT !.at[x] = q.currOffset, !.currOffset = @ + Width[x]]
                  ELSE [q EXCEPT !.assigned = @ \cup {x}]
      q == FoldLeft(Do, r, st.stmts)
      value == IF st.select \in Headers THEN in.packet[q.at[st.select]] ELSE in.before[st.select]
      taken == IF st.select = Direct THEN st.cases
               ELSE SelectSeq(st.cases, LAMBDA c : c.key \in {Default, value})
      target == IF taken = <<>> THEN "reject" ELSE Head(taken).next
  IN CASE target = "accept" -> [verdict |-> "accept", result |-> q]
       [] target = "reject" -> [verdict |-> "reject", result |-> q]
       [] OTHER -> Parse(in, target, q)

Parsed == Parse(run[1], "start", Started(run[1].offset))

Nexts(s) == {c.next : c \in ToSet(parser.at[s].cases)}
Inner == {s \in ToSet(parser.sorted) : Nexts(s) \ Finals # {}}
HasDefault(s) == \E c \in ToSet(parser.at[s].cases) : c.key = Default

\* The parsers the table is made for: a state either accepts or selects among others, on
\* an argument or on a header it extracts; a state with successors extracts one header at
\* most; and no two states before the last of a path have statements.  Behind a default
\* case every select has one: a packet that no case of an inner select matches would
\* otherwise match the entries of the outer select's default case.
Translatable ==
  \A s \in ToSet(parser.sorted) : LET st == parser.at[s] IN
    /\ s \in Inner /\ HasDefault(s) => \A t \in Inner : HasDefault(t)
    /\ IF st.select = Direct THEN Nexts(s) = {"accept"} ELSE "accept" \notin Nexts(s)
    /\ st.select \in Headers => st.select \in ToSet(st.stmts)
    /\ s \in Inner => Len(st.stmts) <= 1 /\ ToSet(st.stmts) \subseteq Headers
    /\ \A t \in Nexts(s) \cap Inner : st.stmts = <<>>

\* Applied to any packet at any of the offsets, the table does what the parser does: the same
\* headers from the same bytes and the same offset if it accepts, and nothing if it rejects.
TableParses ==
  phase = "done" /\ Translatable =>
    IF Parsed.verdict = "accept" THEN run[2] = Parsed.result
    ELSE run[2] \in {Started(run[1].offset), [Started(run[1].offset) EXCEPT !.rejected = TRUE]}

\* Every entry has a value for every key, whatever the order in which instances of states
\* added columns and entries; without it the generated program does not type-check.
EntriesAligned ==
  \A o \in ToSet(initialOffsets) : \A e \in ToSet(entryListPerOffset[o]) :
    Len(e.keys) = Len(keyElementList)

\* A parser that accepts a packet has its headers extracted, also where the case of a select
\* accepts.
AcceptedHeadersExtracted ==
  phase = "done" /\ Parsed.verdict = "accept" => run[2].at = Parsed.result.at

====
