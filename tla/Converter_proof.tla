---- MODULE Converter_proof ----
(***************************************************************************)
(* Converter's table entries cover the offsets of every execution, for any *)
(* number of packages, any nesting of their calls and any accept offsets.  *)
(***************************************************************************)
EXTENDS Converter, SequenceTheorems, TLAPS

LEMMA InitConv == Init => ConvInv
<1> SUFFICES ASSUME Init PROVE ConvInv
    OBVIOUS
<1> USE ConverterAssumption
<1> DEFINE f == [pkg |-> Main, stage |-> "parser", on |-> TRUE, start |-> 0, acc |-> 0]
<1>0. frames = <<f>> /\ Len(frames) = 1 /\ frames[1] = f /\ f \in Frame
      BY DEF Init, Frame
<1>1. TypeOK
  <2>1. frames \in Seq(Frame)
        BY <1>0
  <2>2. offsetsStack \in Seq(SUBSET Nat)
        BY DEF Init
  <2> QED BY <2>1, <2>2 DEF Init, TypeOK
<1>2. StackInv
      BY <1>0 DEF Init, StackInv, top
<1>3. OffsetInv
      BY <1>0 DEF Init, OffsetInv
<1> QED BY <1>1, <1>2, <1>3 DEF ConvInv

LEMMA ParserConv == ConvInv /\ VisitParser => ConvInv'
<1> SUFFICES ASSUME ConvInv, VisitParser PROVE ConvInv'
    OBVIOUS
<1> DEFINE n == Len(frames)
           start == ParserStart(back)
           hit == start \in back
<1>0. /\ n \in Nat /\ n >= 1 /\ Len(offsetsStack) = n /\ top = frames[n]
      /\ back = offsetsStack[n] /\ back \in SUBSET Nat /\ top \in Frame
      /\ top.stage = "parser" /\ start \in Nat
      BY DEF ConvInv, TypeOK, StackInv, VisitParser, top, back, ParserStart
<1>1. PICK g \in Frame :
        /\ frames' = [frames EXCEPT ![n] = g]
        /\ g.pkg = top.pkg /\ g.stage = "control" /\ g.on = top.on
        /\ top.on => g.start = start /\ g.acc = currOffset'
  <2>1. CASE ~top.on
    <3> DEFINE w == [top EXCEPT !.stage = "control"]
    <3>1. frames' = [frames EXCEPT ![n] = w]
          BY <2>1 DEF VisitParser, WithTop
    <3>2. w \in Frame /\ w.pkg = top.pkg /\ w.stage = "control" /\ w.on = top.on
          BY <1>0 DEF Frame
    <3> HIDE DEF w
    <3> QED BY <2>1, <3>1, <3>2
  <2>2. CASE top.on
    <3> DEFINE w == [top EXCEPT !.stage = "control", !.start = start, !.acc = currOffset']
    <3>1. currOffset' \in Nat
          BY <1>0, <2>2 DEF VisitParser, ConvInv, TypeOK, Frame
    <3>2. frames' = [frames EXCEPT ![n] = w]
          BY <2>2 DEF VisitParser, WithTop
    <3> HIDE DEF start
    <3>3. /\ w \in Frame /\ w.pkg = top.pkg /\ w.stage = "control" /\ w.on = top.on
          /\ w.start = start /\ w.acc = currOffset'
          BY <1>0, <3>1 DEF Frame
    <3> HIDE DEF w
    <3> QED BY <2>2, <3>2, <3>3
  <2> QED BY <2>1, <2>2
<1>2. /\ Len(frames') = n /\ frames'[n] = g
      /\ \A i \in 1 .. n : i < n => frames'[i] = frames[i]
      /\ \A i \in 1 .. n : frames'[i].pkg = frames[i].pkg /\ frames'[i].on = frames[i].on
      BY <1>0, <1>1 DEF ConvInv, TypeOK
<1> DEFINE A == AcceptedPktOffsets(back, top.pkg)
<1>3. /\ offsetsStack' = Append(offsetsStack, A) /\ A \in SUBSET Nat
      /\ Len(offsetsStack') = n + 1 /\ offsetsStack'[n + 1] = A
      /\ \A i \in 1 .. n : offsetsStack'[i] = offsetsStack[i]
  <2>1. A \in SUBSET Nat
        BY <1>0 DEF AcceptedPktOffsets, ConvInv, TypeOK, Frame
  <2>2. offsetsStack' = Append(offsetsStack, A)
        BY DEF VisitParser
  <2> QED BY <1>0, <2>1, <2>2 DEF ConvInv, TypeOK
<1>4. TypeOK'
  <2>1. frames' \in Seq(Frame)
        BY <1>0, <1>1 DEF ConvInv, TypeOK
  <2>2. offsetsStack' \in Seq(SUBSET Nat)
        BY <1>3 DEF ConvInv, TypeOK
  <2>3. currOffset' \in Nat /\ unforeseen' \in BOOLEAN /\ missed' \in BOOLEAN
        BY <1>0 DEF ConvInv, TypeOK, VisitParser, Frame
  <2>4. parserOffsets' \in [Packages -> SUBSET Nat]
        BY <1>0 DEF ConvInv, TypeOK, VisitParser
  <2> QED BY <2>1, <2>2, <2>3, <2>4 DEF ConvInv, TypeOK, VisitParser
<1>5. StackInv'
  <2>1. /\ parserOffsets'[top.pkg] = back
        /\ \A p \in Packages : p # top.pkg => parserOffsets'[p] = parserOffsets[p]
        BY <1>0 DEF ConvInv, TypeOK, VisitParser, Frame
  <2>2. visited' = visited /\ deparserOffsets' = deparserOffsets
        BY DEF VisitParser
  <2>3. \A i \in 1 .. n : frames[i].pkg \in Packages
        BY <1>0 DEF ConvInv, TypeOK, StackInv
  <2>4. offsetsStack' # <<>> /\ offsetsStack'[1] = {0}
        BY <1>0, <1>3 DEF ConvInv, StackInv
  <2>5. frames' # <<>> /\ top' = g /\ Len(offsetsStack') = Len(frames') + 1
        BY <1>0, <1>2, <1>3 DEF top
  <2>6. ASSUME NEW i \in 1 .. n
        PROVE /\ i < n => frames'[i].stage = "control"
              /\ frames'[i].pkg \in visited
              /\ parserOffsets'[frames'[i].pkg] = offsetsStack'[i]
              /\ \A j \in 1 .. n : frames'[i].pkg = frames'[j].pkg => i = j
    <3>1. CASE i = n
          BY <1>0, <1>1, <1>2, <1>3, <2>1, <3>1 DEF ConvInv, StackInv
    <3>2. CASE i < n
      <4>1. frames[i].pkg # top.pkg
            BY <1>0, <3>2 DEF ConvInv, StackInv
      <4> QED BY <1>0, <1>2, <1>3, <2>1, <2>3, <3>2, <4>1 DEF ConvInv, StackInv
    <3> QED BY <1>0, <3>1, <3>2
  <2>7. ASSUME NEW p \in visited, \A i \in 1 .. n : frames'[i].pkg # p
        PROVE deparserOffsets[p] = parserOffsets'[p]
    <3>1. p \in Packages /\ p # top.pkg
          BY <1>0, <1>2, <2>7 DEF ConvInv, TypeOK
    <3> QED BY <1>2, <2>1, <2>7, <3>1 DEF ConvInv, StackInv
  <2>8. Len(frames') = n /\ top'.stage = "control"
        BY <1>1, <1>2, <2>5
  <2> QED BY <2>2, <2>4, <2>5, <2>6, <2>7, <2>8 DEF StackInv
<1>6. OffsetInv'
  <2> SUFFICES ASSUME ~unforeseen'
               PROVE /\ ~missed'
                     /\ \A i \in 1 .. n : frames'[i].on =>
                          /\ \A j \in 1 .. i : frames'[j].on
                          /\ frames'[i].stage = "control" =>
                               /\ frames'[i].start \in offsetsStack'[i]
                               /\ frames'[i].acc \in offsetsStack'[i + 1]
                               /\ i > 1 => \/ frames'[i].start = frames'[i - 1].acc
                                           \/ offsetsStack'[i] = {0}
                          /\ i = n \/ ~frames'[i + 1].on =>
                               IF frames'[i].stage = "control"
                               THEN currOffset' = frames'[i].acc \/ offsetsStack'[i + 1] = {0}
                               ELSE i > 1 => \/ currOffset' = frames'[i - 1].acc
                                             \/ offsetsStack'[i] = {0}
      BY <1>2 DEF OffsetInv
  <2>1. ~unforeseen
        BY DEF VisitParser
  <2>2. top.on => hit
    <3> SUFFICES ASSUME top.on PROVE hit
        OBVIOUS
    <3>1. n > 1 => \/ currOffset = frames[n - 1].acc
                   \/ offsetsStack[n] = {0}
          BY <1>0, <2>1 DEF ConvInv, OffsetInv
    <3>2. n > 1 => frames[n - 1].on /\ frames[n - 1].stage = "control"
          BY <1>0, <2>1 DEF ConvInv, OffsetInv, StackInv
    <3>3. n > 1 => frames[n - 1].acc \in offsetsStack[n]
          BY <1>0, <2>1, <3>2 DEF ConvInv, OffsetInv
    <3>4. n = 1 => offsetsStack[n] = {0}
          BY DEF ConvInv, StackInv
    <3> QED BY <1>0, <3>1, <3>3, <3>4 DEF ParserStart, HasOffsetKey
  <2>3. ~missed'
    <3>1. ~missed
          BY <2>1 DEF ConvInv, OffsetInv
    <3> QED BY <2>2, <3>1 DEF VisitParser
  <2>4. top.on => \E o \in accepts[top.pkg] : currOffset' = start + o
        BY <2>2 DEF VisitParser
  <2>5. ~top.on => currOffset' = currOffset
        BY DEF VisitParser
  <2>6. top.on => currOffset' \in A
        BY <2>2, <2>4 DEF AcceptedPktOffsets
  <2>7. top.on /\ n > 1 => start = frames[n - 1].acc \/ back = {0}
        BY <1>0, <2>1 DEF ConvInv, OffsetInv, ParserStart, HasOffsetKey
  <2>8. ASSUME NEW i \in 1 .. n, frames'[i].on
        PROVE /\ \A j \in 1 .. i : frames'[j].on
              /\ frames'[i].stage = "control" =>
                   /\ frames'[i].start \in offsetsStack'[i]
                   /\ frames'[i].acc \in offsetsStack'[i + 1]
                   /\ i > 1 => \/ frames'[i].start = frames'[i - 1].acc
                               \/ offsetsStack'[i] = {0}
              /\ i = n \/ ~frames'[i + 1].on =>
                   IF frames'[i].stage = "control"
                   THEN currOffset' = frames'[i].acc \/ offsetsStack'[i + 1] = {0}
                   ELSE i > 1 => \/ currOffset' = frames'[i - 1].acc
                                 \/ offsetsStack'[i] = {0}
    <3>1. frames[i].on
          BY <1>2, <2>8
    <3>2. \A j \in 1 .. i : frames[j].on
          BY <2>1, <3>1 DEF ConvInv, OffsetInv
    <3>3. i > 1 => i - 1 \in 1 .. n /\ i - 1 < n
          BY <1>0
    <3>4. \A j \in 1 .. i : frames'[j].on
          BY <1>0, <1>2, <3>2
    <3>5. CASE i = n
          BY <1>0, <1>1, <1>2, <1>3, <2>2, <2>6, <2>7, <3>1, <3>3, <3>4, <3>5
    <3>6. CASE i < n
      <4>1. /\ i + 1 \in 1 .. n /\ frames'[i] = frames[i]
            /\ offsetsStack'[i] = offsetsStack[i]
            /\ offsetsStack'[i + 1] = offsetsStack[i + 1]
            /\ frames[i].stage = "control" /\ frames'[i + 1].on = frames[i + 1].on
            BY <1>0, <1>2, <1>3, <3>6 DEF ConvInv, StackInv
      <4>2. i > 1 => frames'[i - 1] = frames[i - 1]
            BY <1>2, <3>3
      <4>3. ~frames[i + 1].on => ~top.on
            BY <1>0, <2>1, <3>6 DEF ConvInv, OffsetInv
      <4>4. /\ frames[i].start \in offsetsStack[i]
            /\ frames[i].acc \in offsetsStack[i + 1]
            /\ i > 1 => frames[i].start = frames[i - 1].acc \/ offsetsStack[i] = {0}
            BY <2>1, <3>1, <4>1 DEF ConvInv, OffsetInv
      <4>5. ~frames[i + 1].on => currOffset = frames[i].acc \/ offsetsStack[i + 1] = {0}
            BY <2>1, <3>1, <4>1 DEF ConvInv, OffsetInv
      <4>6. i # n
            BY <1>0, <3>6
      <4> QED BY <2>5, <3>4, <4>1, <4>2, <4>3, <4>4, <4>5, <4>6
    <3> QED BY <1>0, <3>5, <3>6
  <2> QED BY <2>3, <2>8
<1> QED BY <1>4, <1>5, <1>6 DEF ConvInv

LEMMA ApplyConv == ASSUME NEW pkg \in Packages, ConvInv, ApplyPackage(pkg)
                   PROVE ConvInv'
<1> DEFINE n == Len(frames)
<1>0. /\ n \in Nat /\ n >= 1 /\ Len(offsetsStack) = n + 1 /\ top = frames[n]
      /\ top \in Frame /\ top.stage = "control"
      BY DEF ConvInv, TypeOK, StackInv, ApplyPackage, top
<1>1. PICK on \in {FALSE, top.on} :
        frames' = Append(frames, [pkg |-> pkg, stage |-> "parser", on |-> on,
                                  start |-> 0, acc |-> 0])
      BY DEF ApplyPackage
<1> DEFINE g == [pkg |-> pkg, stage |-> "parser", on |-> on, start |-> 0, acc |-> 0]
<1>2. g \in Frame /\ g.pkg = pkg /\ g.stage = "parser" /\ g.on = on
      BY <1>0 DEF Frame
<1>3. frames' = Append(frames, g)
      BY <1>1
<1> HIDE DEF g
<1>4. /\ Len(frames') = n + 1 /\ frames'[n + 1] = g /\ frames' \in Seq(Frame)
      /\ \A i \in 1 .. n : frames'[i] = frames[i]
      BY <1>2, <1>3 DEF ConvInv, TypeOK
<1>5. /\ pkg \notin visited /\ visited' = visited \cup {pkg}
      /\ calls' = calls + 1
      /\ UNCHANGED <<accepts, offsetsStack, parserOffsets, deparserOffsets,
                     currOffset, unforeseen, missed>>
      BY DEF ApplyPackage, converted
<1>6. TypeOK'
      BY <1>4, <1>5 DEF ConvInv, TypeOK
<1>7. StackInv'
  <2>1. /\ offsetsStack' # <<>> /\ offsetsStack'[1] = {0}
        /\ frames' # <<>> /\ top' = g /\ Len(offsetsStack') = Len(frames')
        BY <1>0, <1>4, <1>5 DEF ConvInv, StackInv, top
  <2>2. ASSUME NEW i \in 1 .. n + 1
        PROVE /\ i < n + 1 => frames'[i].stage = "control"
              /\ frames'[i].pkg \in visited'
              /\ frames'[i].stage = "control" => parserOffsets[frames'[i].pkg] = offsetsStack[i]
              /\ \A j \in 1 .. n + 1 : frames'[i].pkg = frames'[j].pkg => i = j
    <3>1. \A j \in 1 .. n : frames[j].pkg \in visited /\ frames[j].stage = "control"
      <4>1. \A j \in 1 .. n : j < n => frames[j].stage = "control"
            BY DEF ConvInv, StackInv
      <4> QED BY <1>0, <4>1 DEF ConvInv, StackInv
    <3>2. CASE i = n + 1
          BY <1>0, <1>2, <1>4, <1>5, <3>1, <3>2
    <3>3. CASE i < n + 1
      <4>1. i \in 1 .. n
            BY <1>0, <3>3
      <4>2. \A j \in 1 .. n : frames[i].pkg = frames[j].pkg => i = j
            BY <4>1 DEF ConvInv, StackInv
      <4>3. parserOffsets[frames[i].pkg] = offsetsStack[i]
            BY <3>1, <4>1 DEF ConvInv, StackInv
      <4>4. frames[i].pkg # pkg
            BY <1>5, <3>1, <4>1
      <4> QED BY <1>0, <1>2, <1>4, <1>5, <3>1, <4>1, <4>2, <4>3, <4>4
    <3> QED BY <1>0, <3>2, <3>3
  <2>3. ASSUME NEW p \in visited', \A i \in 1 .. n + 1 : frames'[i].pkg # p
        PROVE deparserOffsets[p] = parserOffsets[p]
    <3>1. p \in visited
          BY <1>0, <1>2, <1>4, <1>5, <2>3
    <3>2. \A i \in 1 .. n : frames[i].pkg # p
          BY <1>0, <1>4, <2>3
    <3> QED BY <3>1, <3>2 DEF ConvInv, StackInv
  <2> QED BY <1>2, <1>4, <1>5, <2>1, <2>2, <2>3 DEF StackInv
<1>8. OffsetInv'
  <2> SUFFICES ASSUME ~unforeseen,
                      NEW i \in 1 .. n + 1, frames'[i].on
               PROVE /\ ~missed
                     /\ \A j \in 1 .. i : frames'[j].on
                     /\ frames'[i].stage = "control" =>
                          /\ frames'[i].start \in offsetsStack[i]
                          /\ frames'[i].acc \in offsetsStack[i + 1]
                          /\ i > 1 => \/ frames'[i].start = frames'[i - 1].acc
                                      \/ offsetsStack[i] = {0}
                     /\ i = n + 1 \/ ~frames'[i + 1].on =>
                          IF frames'[i].stage = "control"
                          THEN currOffset = frames'[i].acc \/ offsetsStack[i + 1] = {0}
                          ELSE i > 1 => \/ currOffset = frames'[i - 1].acc
                                        \/ offsetsStack[i] = {0}
      BY <1>4, <1>5 DEF ConvInv, OffsetInv
  <2>1. ~missed
        BY DEF ConvInv, OffsetInv
  <2>2. CASE i = n + 1
    <3>1. top.on
          BY <1>2, <1>4, <2>2
    <3>2. \A j \in 1 .. n : frames[j].on
          BY <1>0, <3>1 DEF ConvInv, OffsetInv
    <3>3. currOffset = frames[n].acc \/ offsetsStack[n + 1] = {0}
          BY <1>0, <3>1 DEF ConvInv, OffsetInv
    <3>4. frames'[n] = frames[n]
          BY <1>0, <1>4
    <3>5. \A j \in 1 .. i : frames'[j].on
      <4> SUFFICES ASSUME NEW j \in 1 .. i PROVE frames'[j].on
          OBVIOUS
      <4>1. CASE j = i
            BY <4>1
      <4>2. CASE j # i
            BY <1>0, <1>4, <2>2, <3>2, <4>2
      <4> QED BY <4>1, <4>2
    <3> QED BY <1>0, <1>2, <1>4, <2>1, <2>2, <3>3, <3>4, <3>5
  <2>3. CASE i < n + 1
    <3>1. i \in 1 .. n /\ frames'[i] = frames[i] /\ frames[i].on
          BY <1>0, <1>4, <2>3
    <3>2. \A j \in 1 .. i : frames[j].on
          BY <3>1 DEF ConvInv, OffsetInv
    <3>3. \A j \in 1 .. i : frames'[j].on
          BY <1>0, <1>4, <3>1, <3>2
    <3>4. i > 1 => frames'[i - 1] = frames[i - 1]
          BY <1>0, <1>4, <3>1
    <3>5. i < n => frames'[i + 1] = frames[i + 1]
          BY <1>0, <1>4, <3>1
    <3>6. i = n \/ i < n
          BY <1>0, <3>1
    <3> QED BY <2>1, <2>3, <3>1, <3>3, <3>4, <3>5, <3>6 DEF ConvInv, OffsetInv
  <2> QED BY <1>0, <2>2, <2>3
<1> QED BY <1>6, <1>7, <1>8 DEF ConvInv

LEMMA DeparserConv == ConvInv /\ VisitDeparser => ConvInv'
<1> SUFFICES ASSUME ConvInv, VisitDeparser PROVE ConvInv'
    OBVIOUS
<1> DEFINE n == Len(frames)
<1>0. /\ n \in Nat /\ n >= 1 /\ Len(offsetsStack) = n + 1 /\ top = frames[n]
      /\ top \in Frame /\ top.stage = "control"
      BY DEF ConvInv, TypeOK, StackInv, VisitDeparser, top
<1>1. /\ Len(frames') = n - 1 /\ frames' \in Seq(Frame)
      /\ \A i \in 1 .. n - 1 : frames'[i] = frames[i]
  <2>1. frames \in Seq(Frame) /\ frames' = SubSeq(frames, 1, n - 1)
        BY DEF VisitDeparser, ConvInv, TypeOK
  <2>2. n - 1 \in Int /\ n - 1 >= 0 /\ \A i \in 1 .. n - 1 : frames[i] \in Frame
        BY <1>0, <2>1
  <2> HIDE DEF n
  <2>3. /\ SubSeq(frames, 1, n - 1) \in Seq(Frame)
        /\ Len(SubSeq(frames, 1, n - 1)) = IF 1 <= n - 1 THEN (n - 1) - 1 + 1 ELSE 0
        /\ \A i \in 1 .. (n - 1) - 1 + 1 : SubSeq(frames, 1, n - 1)[i] = frames[1 + i - 1]
        BY <2>2, SubSeqProperties
  <2>4. Len(frames') = n - 1 /\ frames' \in Seq(Frame)
        BY <1>0, <2>1, <2>3
  <2>5. ASSUME NEW i \in 1 .. n - 1 PROVE frames'[i] = frames[i]
    <3>1. i \in 1 .. (n - 1) - 1 + 1 /\ 1 + i - 1 = i
          BY <1>0
    <3> QED BY <2>1, <2>3, <3>1
  <2> QED BY <2>4, <2>5
<1>2. /\ Len(offsetsStack') = n /\ offsetsStack' \in Seq(SUBSET Nat)
      /\ \A i \in 1 .. n : offsetsStack'[i] = offsetsStack[i]
      BY <1>0 DEF VisitDeparser, PoppedOffsets, ConvInv, TypeOK
<1>3. InitialOffsets = offsetsStack[n] /\ InitialOffsets \in SUBSET Nat
      BY <1>0 DEF InitialOffsets, ConvInv, TypeOK
<1>4. InitialOffsets = parserOffsets[top.pkg]
      BY <1>0, <1>3 DEF ConvInv, StackInv
<1>5. /\ top.pkg \in Packages /\ top.start \in Nat
      BY <1>0 DEF Frame
<1>6. /\ deparserOffsets'[top.pkg] = InitialOffsets
      /\ \A p \in Packages : p # top.pkg => deparserOffsets'[p] = deparserOffsets[p]
      /\ deparserOffsets' \in [Packages -> SUBSET Nat]
      BY <1>3, <1>5 DEF VisitDeparser, ConvInv, TypeOK
<1>7. TypeOK'
  <2>1. currOffset' \in Nat /\ unforeseen' \in BOOLEAN /\ missed' \in BOOLEAN
        BY <1>5 DEF VisitDeparser, ConvInv, TypeOK
  <2> QED BY <1>1, <1>2, <1>6, <2>1 DEF VisitDeparser, ConvInv, TypeOK
<1>8. StackInv'
  <2>0. visited' = visited /\ parserOffsets' = parserOffsets /\ visited \subseteq Packages
        BY DEF VisitDeparser, ConvInv, TypeOK
  <2>1. \A i \in 1 .. n - 1 : frames'[i].stage = "control"
        BY <1>0, <1>1 DEF ConvInv, StackInv
  <2>2. offsetsStack' # <<>> /\ offsetsStack'[1] = {0}
        BY <1>0, <1>2 DEF ConvInv, StackInv
  <2>3. frames' = <<>> => Len(offsetsStack') = 1
        BY <1>0, <1>1, <1>2
  <2>4. frames' # <<>> => top'.stage = "control" /\ Len(offsetsStack') = Len(frames') + 1
        BY <1>0, <1>1, <1>2, <2>1 DEF top
  <2>5. ASSUME NEW i \in 1 .. n - 1
        PROVE /\ frames'[i].pkg \in visited
              /\ parserOffsets[frames'[i].pkg] = offsetsStack'[i]
              /\ \A j \in 1 .. n - 1 : frames'[i].pkg = frames'[j].pkg => i = j
    <3>1. i \in 1 .. n /\ frames'[i] = frames[i] /\ offsetsStack'[i] = offsetsStack[i]
          BY <1>0, <1>1, <1>2
    <3>2. frames[i].stage = "control"
          BY <2>1, <3>1
    <3>3. frames[i].pkg \in visited /\ parserOffsets[frames[i].pkg] = offsetsStack[i]
          BY <3>1, <3>2 DEF ConvInv, StackInv
    <3>4. ASSUME NEW j \in 1 .. n - 1, frames'[i].pkg = frames'[j].pkg
          PROVE i = j
      <4>1. j \in 1 .. n /\ frames'[j] = frames[j]
            BY <1>0, <1>1
      <4> QED BY <3>1, <3>4, <4>1 DEF ConvInv, StackInv
    <3> QED BY <3>1, <3>3, <3>4
  <2>6. ASSUME NEW p \in visited, \A i \in 1 .. n - 1 : frames'[i].pkg # p
        PROVE deparserOffsets'[p] = parserOffsets[p]
    <3>1. CASE p = top.pkg
          BY <1>4, <1>6, <3>1
    <3>2. CASE p # top.pkg
      <4>1. \A i \in 1 .. n : frames[i].pkg # p
            BY <1>0, <1>1, <2>6, <3>2
      <4> QED BY <1>6, <2>0, <3>2, <4>1 DEF ConvInv, StackInv
    <3> QED BY <3>1, <3>2
  <2> QED BY <1>1, <2>0, <2>1, <2>2, <2>3, <2>4, <2>5, <2>6 DEF StackInv
<1>9. OffsetInv'
  <2> SUFFICES ASSUME ~unforeseen'
               PROVE /\ ~missed'
                     /\ \A i \in 1 .. n - 1 : frames'[i].on =>
                          /\ \A j \in 1 .. i : frames'[j].on
                          /\ /\ frames'[i].start \in offsetsStack'[i]
                             /\ frames'[i].acc \in offsetsStack'[i + 1]
                             /\ i > 1 => \/ frames'[i].start = frames'[i - 1].acc
                                         \/ offsetsStack'[i] = {0}
                          /\ i = n - 1 \/ ~frames'[i + 1].on =>
                               currOffset' = frames'[i].acc \/ offsetsStack'[i + 1] = {0}
    <3>1. \A i \in 1 .. n - 1 : frames'[i].stage = "control"
          BY <1>0, <1>1 DEF ConvInv, StackInv
    <3> QED BY <1>1, <3>1 DEF OffsetInv
  <2>1. ~unforeseen /\ ~missed
        BY DEF VisitDeparser, ConvInv, OffsetInv
  <2>2. top.on => top.start \in InitialOffsets
        BY <1>0, <1>3, <2>1 DEF ConvInv, OffsetInv
  <2>3. ~missed'
        BY <2>1, <2>2 DEF VisitDeparser
  <2>4. top.on /\ HasOffsetKey(InitialOffsets) => currOffset' = top.start
        BY DEF VisitDeparser
  <2>5. ~top.on => currOffset' = currOffset
        BY DEF VisitDeparser
  <2>6. ASSUME NEW i \in 1 .. n - 1, frames'[i].on
        PROVE /\ \A j \in 1 .. i : frames'[j].on
              /\ frames'[i].start \in offsetsStack'[i]
              /\ frames'[i].acc \in offsetsStack'[i + 1]
              /\ i > 1 => \/ frames'[i].start = frames'[i - 1].acc
                          \/ offsetsStack'[i] = {0}
              /\ i = n - 1 \/ ~frames'[i + 1].on =>
                   currOffset' = frames'[i].acc \/ offsetsStack'[i + 1] = {0}
    <3>1. /\ i \in 1 .. n /\ i + 1 \in 1 .. n /\ frames'[i] = frames[i] /\ frames[i].on
          /\ offsetsStack'[i] = offsetsStack[i] /\ offsetsStack'[i + 1] = offsetsStack[i + 1]
          /\ frames[i].stage = "control"
          BY <1>0, <1>1, <1>2, <2>6 DEF ConvInv, StackInv
    <3>2. \A j \in 1 .. i : frames[j].on
          BY <2>1, <3>1 DEF ConvInv, OffsetInv
    <3>3. \A j \in 1 .. i : frames'[j].on
          BY <1>0, <1>1, <3>2
    <3>4. i > 1 => frames'[i - 1] = frames[i - 1]
          BY <1>0, <1>1
    <3>5. /\ frames'[i].start \in offsetsStack'[i]
          /\ frames'[i].acc \in offsetsStack'[i + 1]
          /\ i > 1 => frames'[i].start = frames'[i - 1].acc \/ offsetsStack'[i] = {0}
          BY <2>1, <3>1, <3>4 DEF ConvInv, OffsetInv
    <3>6. ASSUME ~top.on, ~frames[i + 1].on
          PROVE currOffset' = frames[i].acc \/ offsetsStack[i + 1] = {0}
          BY <2>1, <2>5, <3>1, <3>6 DEF ConvInv, OffsetInv
    <3>7. ASSUME i = n - 1, top.on
          PROVE currOffset' = frames[i].acc \/ offsetsStack[i + 1] = {0}
      <4>1. top.start = frames[n - 1].acc \/ offsetsStack[n] = {0}
            BY <1>0, <2>1, <3>7 DEF ConvInv, OffsetInv
      <4> QED BY <1>0, <1>3, <2>4, <3>7, <4>1 DEF HasOffsetKey
    <3>8. ~frames[i + 1].on => ~top.on
          BY <1>0, <2>1, <3>1 DEF ConvInv, OffsetInv
    <3>9. i # n - 1 => frames'[i + 1] = frames[i + 1]
          BY <1>0, <1>1
    <3> QED BY <1>0, <3>1, <3>3, <3>5, <3>6, <3>7, <3>8, <3>9
  <2> QED BY <2>3, <2>6
<1> QED BY <1>7, <1>8, <1>9 DEF ConvInv

\* The inductive invariant of the walk: what is on offsetsStack, and where the
\* execution is relative to it.
THEOREM ConverterInvariant == Spec => []ConvInv
<1>1. Init => ConvInv
      BY InitConv
<1>2. ConvInv /\ [Next]_vars => ConvInv'
  <2> SUFFICES ASSUME ConvInv, [Next]_vars PROVE ConvInv'
      OBVIOUS
  <2>1. CASE VisitParser
        BY <2>1, ParserConv
  <2>2. ASSUME NEW pkg \in Packages, ApplyPackage(pkg) PROVE ConvInv'
        BY <2>2, ApplyConv
  <2>3. CASE VisitDeparser
        BY <2>3, DeparserConv
  <2>4. CASE UNCHANGED vars
    <3>1. /\ UNCHANGED <<accepts, offsetsStack, parserOffsets, deparserOffsets>>
          /\ UNCHANGED <<visited, frames, currOffset, unforeseen, missed, calls>>
          BY <2>4 DEF vars, converted
    <3>2. TypeOK'
          BY <3>1 DEF ConvInv, TypeOK
    <3>3. StackInv'
          BY <3>1 DEF ConvInv, StackInv, top
    <3>4. OffsetInv'
          BY <3>1 DEF ConvInv, OffsetInv
    <3> QED BY <3>2, <3>3, <3>4 DEF ConvInv
  <2> QED BY <2>1, <2>2, <2>3, <2>4 DEF Next
<1> QED BY <1>1, <1>2, PTL DEF Spec

\* Whatever the packages and the offsets their parsers accept at, the entries
\* Converter asks ParserConverter and DeparserConverter for cover every offset at
\* which an execution that is not unforeseen reaches a package.
THEOREM EntriesCoverExecutions == Spec => []EntriesCover
<1>1. ConvInv => EntriesCover
      BY DEF ConvInv, OffsetInv, EntriesCover
<1> QED BY <1>1, ConverterInvariant, PTL

\* The push in preorder(P4Parser) and the pop in preorder(P4Control) pair up,
\* however the applications of packages nest.
THEOREM ParserAndDeparserAgree == Spec => []OffsetsAgree
<1>1. ConvInv => OffsetsAgree
  <2> SUFFICES ASSUME ConvInv PROVE OffsetsAgree
      OBVIOUS
  <2>1. ASSUME frames # <<>>, top.stage = "control"
        PROVE InitialOffsets = parserOffsets[top.pkg]
        BY <2>1 DEF ConvInv, TypeOK, StackInv, InitialOffsets, top
  <2>2. ASSUME frames = <<>> PROVE offsetsStack = <<{0}>>
        BY <2>2 DEF ConvInv, TypeOK, StackInv
  <2> QED BY <2>1, <2>2 DEF ConvInv, StackInv, OffsetsAgree
<1> QED BY <1>1, ConverterInvariant, PTL

====
