---- MODULE FieldSlices ----
(***************************************************************************)
(* How a header's fields are copied from the byte stack and back when they *)
(* are not whole bytes.  ExtractSubstitutor::createPerFieldAssignmentStmts *)
(* (extensions/csa/midend/parserConverter) makes a field the concatenation *)
(* of slices of consecutive bytes; DeparserConverter::createP4Action       *)
(* assigns slices of the field to slices of bytes.  Both compute bit       *)
(* indices by hand.  The behaviour extracts the fields one by one, lets    *)
(* the control assign some of them, and emits them one by one.             *)
(***************************************************************************)
EXTENDS Integers, Sequences

CONSTANTS
  Bytes,      \* bytes of the stack
  Starts,     \* bit offsets at which the header may start
  Layouts     \* sequences of field widths the header may have

\* The bits at which the fields of a header at bit f start, and the one behind the
\* last of them: what start counts through in the loops over th->fields.
StartsOf(f, widths) ==
  LET start[k \in 1 .. Len(widths) + 1] ==
        IF k = 1 THEN f ELSE start[k - 1] + widths[k - 1]
  IN start

\* The stack is as large as the static analysis made it: the header ends inside it.
ASSUME FieldSlicesAssumption ==
  /\ Bytes \in Nat /\ Starts \subseteq Nat
  /\ \A l \in Layouts : l \in Seq(Nat \ {0})
  /\ \A l \in Layouts, f \in Starts : StartsOf(f, l)[Len(l) + 1] <= 8 * Bytes

VARIABLES
  layout, first,  \* the widths of the fields; the bit at which the first one starts
  stack,          \* the bits, from the most significant of byte 0
  fields,         \* values of the fields extracted so far: their bits
  currOffset,     \* p.indices.curr_offset
  assigned,       \* the fields the control assigned
  emitted,        \* fields emitted
  phase           \* "extract", "emit"

vars == <<layout, first, stack, fields, currOffset, assigned, emitted, phase>>

Positions == 0 .. 8 * Bytes - 1
PktBit(n) == <<"pkt", n>>
NewBit(k, i) == <<"new", k, i>>

StartOf(k) == StartsOf(first, layout)[k]

\* The position of bit i of byte b; bit 7 is the most significant.
Position(b, i) == 8 * b + 7 - i

\* IR::Slice::make(data of byte b, lo, hi)
ByteSlice(b, lo, hi) == [i \in 1 .. hi - lo + 1 |-> stack[Position(b, hi - i + 1)]]

\* What of a field of width w lies in its first byte, if that is shared with the
\* field before: the byte, as far as it is left (bit), or the whole field.
HeadWidth(bit, w) == IF bit = 8 THEN 0 ELSE IF w >= bit THEN bit ELSE w

\* Mutant: the slice of a field that ends in its first byte is a bit too long.
HeadSliceLong(b, bit, w) ==
  IF bit = 8 THEN <<>>
  ELSE IF w >= bit THEN ByteSlice(b, 0, bit - 1)
  ELSE ByteSlice(b, bit - w, bit)

\* initSlice
HeadSlice(b, bit, w) ==
  IF bit = 8 THEN <<>>
  ELSE IF w >= bit THEN ByteSlice(b, 0, bit - 1)
  ELSE ByteSlice(b, bit - w + 1, bit)

\* Mutant: the low bits of the last byte.
TailSliceLow(b, rest) == IF rest = 0 THEN <<>> ELSE ByteSlice(b, 0, rest - 1)

\* endSlice
TailSlice(b, rest) == IF rest = 0 THEN <<>> ELSE ByteSlice(b, 8 - rest, 7)

\* The concatenation of a slice, head, and k whole bytes from byte b on, for k up to n.
Concat(head, b, n) ==
  LET concat[k \in 0 .. n] ==
        IF k = 0 THEN head ELSE concat[k - 1] \o ByteSlice(b + k - 1, 0, 7)
  IN concat

\* The right-hand side of the assignment to a field.
ExtractedField(start, w) ==
  LET bit == 8 - (start % 8)
      fwCounter == HeadWidth(bit, w)
      b == (start \div 8) + (IF bit = 8 THEN 0 ELSE 1)
      whole == (w - fwCounter) \div 8
  IN Concat(HeadSlice(start \div 8, bit, w), b, whole)[whole]
       \o TailSlice(b + whole, (w - fwCounter) % 8)

\* Mutant: the slices of the field are taken from its low end.
WholeByteWriteLow(b, k, w) == [byte |-> b, lo |-> 0, hi |-> 7, from |-> 8 * (k - 1)]

\* Mutant: the index of the byte is counted up before the assignment.
WholeByteWriteNext(b, k, w) == [byte |-> b + 1, lo |-> 0, hi |-> 7, from |-> w - 8 * k]

\* The k-th assignment of a whole byte, of a field of which w bits are left.
WholeByteWrite(b, k, w) == [byte |-> b, lo |-> 0, hi |-> 7, from |-> w - 8 * k]

\* The assignments that emit a field: bits lo .. hi of a byte, and the bit of the
\* field that goes to lo.
EmitWrites(start, w) ==
  LET bit == 8 - (start % 8)
      head == HeadWidth(bit, w)
      b == (start \div 8) + (IF bit = 8 THEN 0 ELSE 1)
      left == w - head
      whole == left \div 8
      rest == left % 8
  IN (IF head = 0 THEN <<>>
      ELSE <<[byte |-> start \div 8, lo |-> bit - head, hi |-> bit - 1, from |-> left]>>)
       \o [k \in 1 .. whole |-> WholeByteWrite(b + k - 1, k, left)]
       \o (IF rest = 0 THEN <<>>
           ELSE <<[byte |-> b + whole, lo |-> 8 - rest, hi |-> 7, from |-> 0]>>)

\* The positions an assignment writes.
Targets(wr) == {Position(wr.byte, i) : i \in wr.lo .. wr.hi}

\* One assignment, of the bits of a field whose most significant bit is value[1].  A
\* byte behind the last one is an index out of range in the generated program; here it
\* adds positions to the stack that it must not have.
Write(s, wr, value) ==
  [p \in DOMAIN s \cup Targets(wr) |->
     LET i == 8 * wr.byte + 7 - p
     IN IF i \in wr.lo .. wr.hi THEN value[Len(value) - (wr.from + i - wr.lo)] ELSE s[p]]

\* The stack s after each of the assignments of an action, in their order.
Written(s, writes, value) ==
  LET done[i \in 0 .. Len(writes)] ==
        IF i = 0 THEN s ELSE Write(done[i - 1], writes[i], value)
  IN done

----------------------------------------------------------------------------
\* The next field; behind the last one, curr_offset is set to where it ends.
ExtractField ==
  /\ phase = "extract" /\ Len(fields) < Len(layout)
  /\ LET k == Len(fields) + 1
     IN /\ fields' = Append(fields, ExtractedField(StartOf(k), layout[k]))
        /\ currOffset' = IF k = Len(layout) THEN StartOf(k) + layout[k] ELSE currOffset
  /\ UNCHANGED <<layout, first, stack, assigned, emitted, phase>>

\* The control assigns some of the fields.
Control ==
  /\ phase = "extract" /\ Len(fields) = Len(layout)
  /\ assigned' \in SUBSET DOMAIN layout
  /\ fields' = [k \in DOMAIN layout |->
                  IF k \in assigned' THEN [i \in 1 .. layout[k] |-> NewBit(k, i)] ELSE fields[k]]
  /\ phase' = "emit"
  /\ UNCHANGED <<layout, first, stack, currOffset, emitted>>

EmitField ==
  /\ phase = "emit" /\ emitted < Len(layout)
  /\ LET k == emitted + 1
         writes == EmitWrites(StartOf(k), layout[k])
     IN stack' = Written(stack, writes, fields[k])[Len(writes)]
  /\ emitted' = emitted + 1
  /\ UNCHANGED <<layout, first, fields, currOffset, assigned, phase>>

Init ==
  /\ layout \in Layouts /\ first \in Starts
  /\ stack = [n \in Positions |-> PktBit(n)]
  /\ currOffset = first
  /\ fields = <<>> /\ assigned = {} /\ emitted = 0 /\ phase = "extract"

Next == ExtractField \/ Control \/ EmitField

Spec == Init /\ [][Next]_vars

----------------------------------------------------------------------------
\* The bits of the packet, and the ones the control may put into the fields.
Bits == ({"pkt"} \X Positions) \cup ({"new"} \X Nat \X Nat)

\* A field has as many bits as its type says (the widths of the slices add up), and no
\* slice reads or writes behind the end of the stack: a write there would make the stack
\* longer than Positions, a read there has no bit to give.
TypeOK ==
  /\ layout \in Seq(Nat \ {0}) /\ first \in Starts
  /\ stack \in [Positions -> Bits]
  /\ fields \in Seq(Seq(Bits)) /\ Len(fields) <= Len(layout)
  /\ \A k \in DOMAIN fields : Len(fields[k]) = layout[k]
  /\ currOffset \in Nat
  /\ assigned \subseteq DOMAIN layout
  /\ emitted \in 0 .. Len(layout)
  /\ phase \in {"extract", "emit"}

\* The bits of the packet where field k is.
FieldBits(k) == [i \in 1 .. layout[k] |-> PktBit(StartOf(k) + i - 1)]

\* Field k lies strictly inside a byte: it neither starts nor ends it.
InsideByte(k) == StartOf(k) % 8 # 0 /\ layout[k] < 8 - (StartOf(k) % 8)

\* An extracted field has the bits of the packet that the header type puts there, however
\* many bytes it spans and wherever the fields before it end, unless it lies strictly
\* inside a byte.
FieldsExtracted ==
  \A k \in DOMAIN fields : k \notin assigned /\ ~InsideByte(k) => fields[k] = FieldBits(k)

\* Emitting puts the values of the fields emitted so far where the header type
\* puts them, and disturbs neither the later fields, which may share a byte with
\* them, nor the packet around the header.
HeaderEmitted ==
  \A n \in Positions :
    IF n \in first .. StartOf(emitted + 1) - 1
    THEN \E k \in 1 .. emitted : \E i \in 1 .. layout[k] :
           n = StartOf(k) + i - 1 /\ stack[n] = fields[k][i]
    ELSE stack[n] = PktBit(n)

====
