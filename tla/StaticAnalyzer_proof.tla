---- MODULE StaticAnalyzer_proof ----
(***************************************************************************)
(* Proofs about StaticAnalyzer: for every package, whatever its headers,   *)
(* the packages it applies and the shape of its control, the bounds the    *)
(* analysis computes hold of every execution, provided that no package is  *)
(* applied twice in a control and no switch is on the result of a table;   *)
(* and, of the programs of Recordable, that the operations of every        *)
(* execution have their record.                                            *)
(***************************************************************************)
EXTENDS StaticAnalyzer, TLAPS

LEMMA Max2Facts ==
  ASSUME NEW a \in Int, NEW b \in Int
  PROVE  /\ Max2(a, b) \in {a, b}
         /\ Max2(a, b) >= a /\ Max2(a, b) >= b
BY DEF Max2

LEMMA InsertType ==
  ASSUME NEW vec \in Seq(OpsRec), NEW b, NEW e,
         currOpsRec \in OpsRec
  PROVE  InsertCurrOpsRec(vec, b, e) \in Seq(OpsRec)
<1>1. DOMAIN vec = 1 .. Len(vec) /\ Len(vec) \in Nat
  OBVIOUS
<1>2. ASSUME NEW i \in DOMAIN vec
      PROVE  InsertCurrOpsRec(vec, b, e)[i] \in OpsRec
  <2> DEFINE r == [first |-> vec[i].first \cup currOpsRec.first,
                   second |-> vec[i].second \cup currOpsRec.second]
  <2>1. vec[i] \in OpsRec
    BY <1>1
  <2>2. r \in OpsRec
    BY <2>1 DEF OpsRec
  <2>3. InsertCurrOpsRec(vec, b, e)[i] \in {r, vec[i]}
    BY DEF InsertCurrOpsRec
  <2> QED BY <2>1, <2>2, <2>3
<1>3. InsertCurrOpsRec(vec, b, e) = [i \in 1 .. Len(vec) |-> InsertCurrOpsRec(vec, b, e)[i]]
  BY <1>1 DEF InsertCurrOpsRec
<1> QED BY <1>1, <1>2, <1>3

LEMMA ReplicateType ==
  ASSUME NEW vec \in Seq(OpsRec), NEW n \in Nat
  PROVE  Replicate(vec, n) \in Seq(OpsRec)
<1> DEFINE L == Len(vec)
<1>1. L \in Nat /\ n * L \in Nat
  OBVIOUS
<1>2. ASSUME NEW i \in 1 .. n * L
      PROVE  vec[((i - 1) % L) + 1] \in OpsRec
  <2>1. L # 0
    BY <1>1
  <2>2. (i - 1) % L \in 0 .. L - 1
    BY <1>1, <2>1
  <2> QED BY <1>1, <2>2
<1> QED BY <1>1, <1>2 DEF Replicate

----------------------------------------------------------------------------
(* What one statement does to the execution.                               *)

LEMMA RunSetValidFacts ==
  ASSUME NEW p \in Path, NEW h \in Headers
  PROVE  LET q == RunSetValid(p, h)
         IN /\ q \in Path
            /\ p.incr <= q.incr /\ q.incr <= p.incr + Width[h] /\ q.decr = p.decr
            /\ q.callIncr = p.callIncr /\ q.callDecr = p.callDecr
            /\ q.need = p.need /\ q.high = p.high
<1> DEFINE i == p.incr + (IF h \in p.valid THEN 0 ELSE Width[h])
           v == p.valid \cup {h}
           o == [p.vop EXCEPT ![h] = "sv"]
<1>1. i \in Nat /\ p.incr <= i /\ i <= p.incr + Width[h]
  BY ConstantsAssumption DEF Path
<1>2. v \in SUBSET Headers /\ o \in [Headers -> {"none", "sv", "siv"}]
  BY DEF Path
<1>3. RunSetValid(p, h) = [p EXCEPT !.incr = i, !.valid = v, !.vop = o]
  BY DEF RunSetValid, Path
<1> HIDE DEF i, v, o
<1> QED BY <1>1, <1>2, <1>3 DEF Path

LEMMA RunSetInvalidFacts ==
  ASSUME NEW p \in Path, NEW h \in Headers
  PROVE  LET q == RunSetInvalid(p, h)
         IN /\ q \in Path
            /\ q.incr = p.incr /\ q.decr <= p.decr + Width[h]
            /\ q.callIncr = p.callIncr /\ q.callDecr = p.callDecr
            /\ q.need = p.need /\ q.high = p.high
<1> DEFINE d == p.decr + (IF h \in p.valid THEN Width[h] ELSE 0)
           v == p.valid \ {h}
           o == [p.vop EXCEPT ![h] = "siv"]
<1>1. d \in Nat /\ d <= p.decr + Width[h]
  BY ConstantsAssumption DEF Path
<1>2. v \in SUBSET Headers /\ o \in [Headers -> {"none", "sv", "siv"}]
  BY DEF Path
<1>3. RunSetInvalid(p, h) = [p EXCEPT !.decr = d, !.valid = v, !.vop = o]
  BY DEF RunSetInvalid, Path
<1> HIDE DEF d, v, o
<1> QED BY <1>1, <1>2, <1>3 DEF Path

LEMMA RunPackageFacts ==
  ASSUME NEW p \in Path, NEW e \in Nat, NEW i \in Nat, NEW d \in Nat,
         NEW q, q = RunPackage(p, e, i, d)
  PROVE  /\ q \in Path
         /\ q.incr <= p.incr + i /\ q.incr >= p.incr + i /\ q.decr <= p.decr + d
         /\ q.callIncr <= p.callIncr + i /\ q.callDecr <= p.callDecr + d
         /\ q.need <= p.need \/ q.need <= e + p.callDecr
         /\ q.high <= p.high \/ q.high <= p.callIncr + i
<1> DEFINE n == Max2(p.need, e + p.callDecr - p.callIncr)
           m == Max2(p.high, p.callIncr - p.callDecr + i)
<1>1. /\ n \in Nat /\ (n <= p.need \/ n <= e + p.callDecr)
      /\ m \in Nat /\ (m <= p.high \/ m <= p.callIncr + i)
  BY DEF Path, Max2
<1>2. /\ p.incr + i \in Nat /\ p.decr + d \in Nat
      /\ p.callIncr + i \in Nat /\ p.callDecr + d \in Nat
  BY DEF Path
<1>3. RunPackage(p, e, i, d) =
        [p EXCEPT !.incr = p.incr + i, !.decr = p.decr + d,
                  !.callIncr = p.callIncr + i, !.callDecr = p.callDecr + d,
                  !.need = n, !.high = m]
  BY DEF RunPackage, Path
<1> HIDE DEF n, m
<1>4. /\ q \in Path
      /\ q.incr = p.incr + i /\ q.decr = p.decr + d
      /\ q.callIncr = p.callIncr + i /\ q.callDecr = p.callDecr + d
      /\ q.need = n /\ q.high = m
  BY <1>1, <1>2, <1>3 DEF Path
<1> QED BY <1>1, <1>2, <1>4

LEMMA PackageRunsType ==
  ASSUME NEW pkg \in Packages, NEW r \in PackageRuns(pkg)
  PROVE  /\ r[1] \in Nat /\ r[1] <= PkgExt[pkg] /\ PkgExt[pkg] \in Nat
         /\ r[2] \in Nat /\ r[2] <= PkgIncr[pkg] /\ PkgIncr[pkg] \in Nat
         /\ r[3] \in Nat /\ r[3] <= PkgDecr[pkg] /\ PkgDecr[pkg] \in Nat
<1>1. PkgExt[pkg] \in Nat /\ PkgIncr[pkg] \in Nat /\ PkgDecr[pkg] \in Nat
  BY ConstantsAssumption
<1> QED BY <1>1 DEF PackageRuns

----------------------------------------------------------------------------
(* Type correctness.                                                       *)

LEMMA TypeInit == Init => TypeOK
<1> SUFFICES ASSUME Init PROVE TypeOK
  OBVIOUS
<1>1. PICK parsed \in SUBSET Headers : path = StartPath(parsed)
  BY DEF Init, CBIInit
<1>2. path \in Path
  BY <1>1 DEF StartPath, Path
<1>3. EmptyRec \in OpsRec /\ <<EmptyRec>> \in Seq(OpsRec)
  BY DEF EmptyRec, OpsRec
<1>4. <<>> \in Seq(Frame)
  OBVIOUS
<1> QED BY <1>2, <1>3, <1>4 DEF Init, CBIInit, TypeOK

\* The part of TypeOK that the visits of statements can disturb.
LEMMA TypeVisit ==
  ASSUME TypeOK, CBINext, UNCHANGED packageVars
  PROVE  TypeOK'
<1> USE DEF packageVars
<1>1. ASSUME NEW h \in Headers, SetValid(h)
      PROVE  TypeOK'
  <2>1. path' \in Path
    BY <1>1, RunSetValidFacts DEF SetValid, TypeOK
  <2>2. currOpsRec' \in OpsRec
    BY <1>1 DEF SetValid, TypeOK, OpsRec
  <2>3. maxIncr' \in Nat
    BY <1>1, ConstantsAssumption DEF SetValid, TypeOK
  <2> QED BY <1>1, <2>1, <2>2, <2>3 DEF SetValid, Visiting, TypeOK
<1>2. ASSUME NEW h \in Headers, SetInvalid(h)
      PROVE  TypeOK'
  <2>1. path' \in Path
    BY <1>2, RunSetInvalidFacts DEF SetInvalid, TypeOK
  <2>2. currOpsRec' \in OpsRec
    BY <1>2 DEF SetInvalid, TypeOK, OpsRec
  <2>3. maxDecr' \in Nat
    BY <1>2, ConstantsAssumption DEF SetInvalid, TypeOK
  <2> QED BY <1>2, <2>1, <2>2, <2>3 DEF SetInvalid, Visiting, TypeOK
<1>3. ASSUME NEW pkg \in Packages, ApplyPackage(pkg)
      PROVE  TypeOK'
  <2>1. path' \in Path
    <3>1. CASE OnPath
      <4>1. PICK r \in PackageRuns(pkg) : path' = RunPackage(path, r[1], r[2], r[3])
        BY <1>3, <3>1 DEF ApplyPackage
      <4>2. r[1] \in Nat /\ r[2] \in Nat /\ r[3] \in Nat
        BY PackageRunsType
      <4> QED BY <4>1, <4>2, RunPackageFacts DEF TypeOK
    <3>2. CASE ~OnPath
      BY <1>3, <3>2 DEF ApplyPackage, TypeOK
    <3> QED BY <3>1, <3>2
  <2>2. /\ maxIncr' \in Nat /\ maxDecr' \in Nat
        /\ maxExtLen' \in Nat /\ accumDecrPktLen' \in Nat
    <3>1. CASE pkg \in visited
      BY <1>3, <3>1 DEF ApplyPackage, TypeOK, analysis
    <3>2. CASE pkg \notin visited
      <4>1. PkgExt[pkg] \in Nat /\ PkgIncr[pkg] \in Nat /\ PkgDecr[pkg] \in Nat
        BY ConstantsAssumption
      <4>2. /\ maxIncr' = maxIncr + PkgIncr[pkg]
            /\ maxDecr' = maxDecr + PkgDecr[pkg]
            /\ maxExtLen' = Max2(maxExtLen, accumDecrPktLen + PkgExt[pkg])
            /\ accumDecrPktLen' = accumDecrPktLen + PkgDecr[pkg]
        BY <1>3, <3>2 DEF ApplyPackage
      <4>3. maxIncr \in Nat /\ maxDecr \in Nat /\ maxExtLen \in Nat /\ accumDecrPktLen \in Nat
        BY DEF TypeOK
      <4> QED BY <4>1, <4>2, <4>3 DEF Max2
    <3> QED BY <3>1, <3>2
  <2> QED BY <1>3, <2>1, <2>2 DEF ApplyPackage, Visiting, TypeOK
<1>4. ASSUME NEW kind \in {"if", "switch", "table"}, NEW n \in Nat, NEW take \in Nat,
             Enter(kind, n, take), path' \in Path, nodes' \in Nat
      PROVE  TypeOK'
  <2>1. xoredHdrValidityOps' \in Seq(OpsRec)
    BY <1>4, InsertType, ReplicateType DEF Enter, TypeOK
  <2>2. currOpsRec' \in OpsRec
    BY <1>4 DEF Enter, EmptyRec, OpsRec
  <2>3. Len(xoredHdrValidityOps) \in Nat /\ OnPath \in BOOLEAN
    BY DEF TypeOK, OnPath
  <2>4. frames' \in Seq(Frame)
    BY <1>4, <2>3 DEF Enter, TypeOK, Frame
  <2> QED BY <1>4, <2>1, <2>2, <2>4 DEF Enter, TypeOK, analysis
<1>5. CASE IfStatement
  BY <1>4, <1>5 DEF IfStatement, Visiting, TypeOK
<1>6. CASE SwitchStatement
  <2>1. path' \in Path
    BY <1>6, RunSetValidFacts, RunSetInvalidFacts DEF SwitchStatement, RunSwitchTable, TypeOK
  <2>2. nodes' \in Nat
    BY <1>6 DEF SwitchStatement, Visiting, TypeOK
  <2>3. PICK n \in Nat, take \in Nat : Enter("switch", n, take)
    BY <1>6, ConstantsAssumption DEF SwitchStatement
  <2> QED BY <1>4, <2>1, <2>2, <2>3
<1>7. CASE ActionList
  <2>1. PICK n \in Nat, take \in Nat : Enter("table", n, take)
    BY <1>7, ConstantsAssumption DEF ActionList
  <2>2. nodes' \in Nat /\ path' \in Path
    BY <1>7 DEF ActionList, Visiting, TypeOK
  <2> QED BY <1>4, <2>1, <2>2
<1>8. CASE NextAlternative
  <2> DEFINE k == Len(frames)
             f == frames[k]
  <2>1. k \in Nat /\ k # 0 /\ f \in Frame
    BY <1>8 DEF NextAlternative, TypeOK
  <2>2. xoredHdrValidityOps' \in Seq(OpsRec) /\ currOpsRec' \in OpsRec
    BY <1>8, InsertType DEF NextAlternative, InsertAlternative, TypeOK, EmptyRec, OpsRec
  <2>3. /\ maxIncr' \in Nat /\ maxDecr' \in Nat /\ accumDecrPktLen' \in Nat
    BY <1>8, <2>1 DEF NextAlternative, TypeOK, Frame
  <2>4. frames' \in Seq(Frame)
    <3> DEFINE g == [f EXCEPT !.alt = f.alt + 1,
                              !.bestIncr = Best(f, f.bestIncr, maxIncr),
                              !.bestDecr = Best(f, f.bestDecr, maxDecr),
                              !.bestAccum = Best(f, f.bestAccum, accumDecrPktLen)]
    <3>1. /\ Best(f, f.bestIncr, maxIncr) \in Nat
          /\ Best(f, f.bestDecr, maxDecr) \in Nat
          /\ Best(f, f.bestAccum, accumDecrPktLen) \in Nat
          /\ f.alt + 1 \in Nat
      <4>1. /\ f.bestIncr \in Nat /\ f.bestDecr \in Nat /\ f.bestAccum \in Nat
            /\ f.alt \in Nat
        BY <2>1 DEF Frame
      <4> QED BY <4>1 DEF Best, Max2, TypeOK
    <3>2. g \in Frame
      BY <2>1, <3>1 DEF Frame
    <3>3. frames' = [frames EXCEPT ![k] = g]
      BY <1>8 DEF NextAlternative
    <3> HIDE DEF g
    <3> QED BY <2>1, <3>2, <3>3 DEF TypeOK
  <2> QED BY <1>8, <2>2, <2>3, <2>4 DEF NextAlternative, TypeOK
<1>9. CASE EndStatement
  <2> DEFINE k == Len(frames)
             f == frames[k]
  <2>1. k \in Nat /\ k # 0 /\ f \in Frame
    BY <1>9 DEF EndStatement, TypeOK
  <2>2. xoredHdrValidityOps' \in Seq(OpsRec) /\ currOpsRec' \in OpsRec
    BY <1>9, InsertType DEF EndStatement, InsertAlternative, TypeOK, EmptyRec, OpsRec
  <2>3. /\ maxIncr' \in Nat /\ maxDecr' \in Nat /\ accumDecrPktLen' \in Nat
    BY <1>9, <2>1 DEF EndStatement, TypeOK, Frame, Max2
  <2>4. frames' \in Seq(Frame)
    BY <1>9, <2>1 DEF EndStatement, TypeOK
  <2> QED BY <1>9, <2>2, <2>3, <2>4 DEF EndStatement, TypeOK
<1>10. CASE EndControl
  <2>1. path' \in Path
    <3>1. Max2(path.high, path.incr - path.decr) \in Nat
      BY DEF TypeOK, Path, Max2
    <3> QED BY <1>10, <3>1 DEF EndControl, TypeOK, Path
  <2>2. hdrValidityOps' \subseteq OpsRec
    BY <1>10 DEF EndControl, EraseEmpty, TypeOK
  <2> QED BY <1>10, <2>1, <2>2 DEF EndControl, TypeOK, analysis
<1> QED BY <1>1, <1>2, <1>3, <1>5, <1>6, <1>7, <1>8, <1>9, <1>10 DEF CBINext

LEMMA TypeStep == TypeOK /\ [Next]_vars => TypeOK'
<1> SUFFICES ASSUME TypeOK, [Next]_vars PROVE TypeOK'
  OBVIOUS
<1>1. CASE VisitParser
  BY <1>1, ParserAssumption DEF VisitParser, cbiVars, TypeOK
<1>2. CASE VisitControl
  BY <1>2, TypeVisit DEF VisitControl
<1>3. CASE EndPackage
  BY <1>3 DEF EndPackage, cbiVars, TypeOK
<1>4. CASE SizeByteStack
  BY <1>4 DEF SizeByteStack, cbiVars, TypeOK
<1>5. CASE UNCHANGED vars
  BY <1>5 DEF vars, cbiVars, packageVars, TypeOK
<1> QED BY <1>1, <1>2, <1>3, <1>4, <1>5 DEF Next

\* Every reachable state is well typed: the counters, unsigned in the code, are
\* naturals, and the walk's stack, records and execution keep their types.
THEOREM TypeCorrect == Spec => []TypeOK
BY TypeInit, TypeStep, PTL DEF Spec

----------------------------------------------------------------------------
(* The walk and the execution agree.                                       *)

LEMMA OnPathMatchesAll ==
  ASSUME TypeOK, Nesting, OnPath
  PROVE  \A i \in 1 .. Len(frames) : Matched(frames[i])
<1>1. CASE frames = <<>>
  BY <1>1
<1>2. CASE frames # <<>>
  <2> DEFINE k == Len(frames)
  <2>1. k \in Nat /\ k # 0
    BY <1>2 DEF TypeOK
  <2>2. Matched(frames[k])
    BY <1>2 DEF OnPath, Matched
  <2>3. \A i \in 1 .. k - 1 : Matched(frames[i])
    BY <2>1, <2>2 DEF Nesting, Matched
  <2> QED BY <2>1, <2>2, <2>3
<1> QED BY <1>1, <1>2

\* A statement without alternatives keeps the agreement when it keeps the
\* counters above the execution, and stays out of the execution's way when the
\* execution is elsewhere.
LEMMA StraightLine ==
  ASSUME TypeOK, TypeOK', WalkSound, UNCHANGED frames,
         accumDecrPktLen' >= accumDecrPktLen,
         ~OnPath => path' = path,
         OnPath => /\ path'.incr <= maxIncr' /\ path'.decr <= maxDecr'
                   /\ path'.callDecr <= accumDecrPktLen',
         \A i \in 1 .. Len(frames) :
           frames[i].kind = "table" => path'.callDecr = path.callDecr,
         path'.need <= maxExtLen',
         path'.high <= path'.incr /\ path'.callIncr <= path'.incr
  PROVE  WalkSound'
<1>1. OnPath' = OnPath
  BY DEF OnPath
<1>2. ASSUME NEW j \in 1 .. Len(frames)
      PROVE  FrameShape(frames[j])' /\ FrameSound(frames[j])'
  <2>1. FrameShape(frames[j]) /\ FrameSound(frames[j])
    BY DEF WalkSound
  <2>2. CASE OnPath
    <3>1. Matched(frames[j])
      BY <2>2, OnPathMatchesAll DEF WalkSound
    <3>2. frames[j] \in Frame
      BY DEF TypeOK
    <3> QED BY <2>1, <3>1, <3>2 DEF FrameShape, FrameSound, Matched, Frame
  <2>3. CASE ~OnPath
    BY <2>1, <2>3 DEF FrameShape, FrameSound, Within
  <2> QED BY <2>2, <2>3
<1>3. Nesting'
  <2>1. \A j \in 1 .. Len(frames) : frames[j] \in Frame
    BY DEF TypeOK
  <2>2. \A j \in 1 .. Len(frames) : frames[j].currAccum \in Nat
    BY <2>1 DEF Frame
  <2>3. accumDecrPktLen \in Nat /\ accumDecrPktLen' \in Nat
    BY DEF TypeOK
  <2> QED BY <2>2, <2>3 DEF WalkSound, Nesting, Matched
<1>4. OnPath' => Within(maxIncr, maxDecr, accumDecrPktLen)'
  BY <1>1 DEF Within
<1> QED BY <1>2, <1>3, <1>4 DEF WalkSound

\* Entering a branching statement.
LEMMA EnterSound ==
  ASSUME TypeOK, TypeOK', WalkSound, UNCHANGED path,
         NEW kind \in {"if", "switch", "table"}, NEW n \in Nat, NEW take \in Nat,
         1 <= n, take <= n, kind = "if" => n = 2, kind # "switch" => take >= 1,
         Enter(kind, n, take)
  PROVE  WalkSound'
<1> DEFINE k == Len(frames)
           f == [kind |-> kind, n |-> n, alt |-> 1, take |-> take, on |-> OnPath,
                 currSize |-> Len(xoredHdrValidityOps),
                 currIncr |-> maxIncr, currDecr |-> maxDecr, currAccum |-> accumDecrPktLen,
                 bestIncr |-> maxIncr, bestDecr |-> maxDecr, bestAccum |-> accumDecrPktLen]
<1>1. /\ frames' = Append(frames, f)
      /\ maxIncr' = maxIncr /\ maxDecr' = maxDecr
      /\ maxExtLen' = maxExtLen /\ accumDecrPktLen' = accumDecrPktLen
  BY DEF Enter, analysis
<1>2. k \in Nat /\ Len(frames') = k + 1 /\ frames'[k + 1] = f
      /\ \A j \in 1 .. k : frames'[j] = frames[j]
  BY <1>1 DEF TypeOK
<1>3. maxIncr \in Nat /\ maxDecr \in Nat /\ accumDecrPktLen \in Nat
  BY DEF TypeOK
<1>4. OnPath => Within(maxIncr, maxDecr, accumDecrPktLen)
  BY DEF WalkSound
<1>5. FrameShape(f)
  BY <1>3 DEF FrameShape
<1>6. FrameSound(f)
  BY <1>4 DEF FrameSound, Within
<1>7. /\ f.on = OnPath /\ f.alt = 1 /\ f.take = take
      /\ f.currAccum = accumDecrPktLen
  OBVIOUS
<1> HIDE DEF f
<1>8. ASSUME NEW j \in 1 .. Len(frames')
      PROVE  FrameShape(frames[j])' /\ FrameSound(frames[j])'
  <2>1. CASE j = k + 1
    BY <1>2, <1>5, <1>6, <2>1 DEF FrameShape, FrameSound, Within
  <2>2. CASE j \in 1 .. k
    BY <1>2, <2>2 DEF WalkSound, FrameShape, FrameSound, Within
  <2> QED BY <1>2, <2>1, <2>2
<1>9. Nesting'
  <2>1. ASSUME NEW j \in 1 .. Len(frames'), NEW i \in 1 .. j - 1
        PROVE  /\ frames'[j].on => Matched(frames'[i])
               /\ frames'[i].currAccum <= frames'[j].currAccum
    <3>1. CASE j = k + 1
      BY <1>2, <1>7, <3>1, OnPathMatchesAll DEF WalkSound, Nesting
    <3>2. CASE j \in 1 .. k
      BY <1>2, <3>2 DEF WalkSound, Nesting
    <3> QED BY <1>2, <3>1, <3>2
  <2>2. ASSUME NEW j \in 2 .. Len(frames'), Matched(frames'[j - 1])
        PROVE  frames'[j].on
    <3>1. CASE j = k + 1
      <4>1. frames # <<>> /\ frames'[j - 1] = frames[k]
        BY <1>2, <3>1
      <4> QED BY <1>2, <1>7, <2>2, <3>1, <4>1 DEF OnPath, Matched
    <3>2. CASE j \in 2 .. k
      BY <1>2, <2>2, <3>2 DEF WalkSound, Nesting
    <3> QED BY <1>2, <3>1, <3>2
  <2>3. frames'[1].on
    <3>1. CASE k = 0
      <4>1. frames = <<>>
        BY <3>1 DEF TypeOK
      <4>2. f.on
        BY <1>7, <4>1 DEF OnPath
      <4> QED BY <1>2, <3>1, <4>2
    <3>2. CASE k # 0
      <4>1. frames # <<>>
        BY <3>2
      <4> QED BY <1>2, <3>2, <4>1 DEF WalkSound, Nesting
    <3> QED BY <3>1, <3>2
  <2>4. \A j \in 1 .. Len(frames') : frames'[j].currAccum <= accumDecrPktLen'
    BY <1>1, <1>2, <1>3, <1>7 DEF WalkSound, Nesting
  <2> QED BY <2>1, <2>2, <2>3, <2>4 DEF Nesting, Matched
<1>10. OnPath' => OnPath
  <2>1. frames' # <<>>
    BY <1>2
  <2> QED BY <1>2, <1>7, <2>1 DEF OnPath
<1>11. OnPath' => Within(maxIncr, maxDecr, accumDecrPktLen)'
  BY <1>1, <1>4, <1>10 DEF Within
<1>12. path' = path /\ path.need <= maxExtLen' /\ path.high <= path.incr
       /\ path.callIncr <= path.incr
  BY <1>1 DEF WalkSound
<1> QED BY <1>8, <1>9, <1>11, <1>12 DEF WalkSound

\* The facts about the innermost frame that leaving an alternative needs.
LEMMA TopFrame ==
  ASSUME TypeOK, WalkSound, frames # <<>>
  PROVE  LET k == Len(frames)
             f == frames[k]
         IN /\ k \in Nat /\ k # 0 /\ f \in Frame
            /\ FrameShape(f) /\ FrameSound(f)
            /\ OnPath <=> Matched(f)
            /\ f.currAccum <= accumDecrPktLen
<1>1. Len(frames) \in Nat /\ Len(frames) # 0
  BY DEF TypeOK
<1>2. frames[Len(frames)] \in Frame
  BY <1>1 DEF TypeOK
<1> QED BY <1>1, <1>2 DEF WalkSound, Nesting, OnPath, Matched

LEMMA FrameUpdate ==
  ASSUME NEW f \in Frame, NEW a, NEW i, NEW d, NEW c
  PROVE  LET g == [f EXCEPT !.alt = a, !.bestIncr = i, !.bestDecr = d, !.bestAccum = c]
         IN /\ g.on = f.on /\ g.alt = a /\ g.take = f.take /\ g.n = f.n
            /\ g.kind = f.kind
            /\ g.currIncr = f.currIncr /\ g.currDecr = f.currDecr
            /\ g.currAccum = f.currAccum
            /\ g.bestIncr = i /\ g.bestDecr = d /\ g.bestAccum = c
BY DEF Frame

LEMMA NextAlternativeSound ==
  ASSUME TypeOK, TypeOK', WalkSound, NextAlternative
  PROVE  WalkSound'
<1>1. PICK k, f : k = Len(frames) /\ f = frames[k]
  OBVIOUS
<1>2. PICK bi, bd, ba : /\ bi = Best(f, f.bestIncr, maxIncr)
                        /\ bd = Best(f, f.bestDecr, maxDecr)
                        /\ ba = Best(f, f.bestAccum, accumDecrPktLen)
  OBVIOUS
<1>3. PICK g : g = [f EXCEPT !.alt = f.alt + 1, !.bestIncr = bi, !.bestDecr = bd,
                             !.bestAccum = ba]
  OBVIOUS
<1>4. frames # <<>> /\ f.alt < f.n
  BY <1>1 DEF NextAlternative
<1>5. /\ k \in Nat /\ k # 0 /\ f \in Frame
      /\ FrameShape(f) /\ FrameSound(f)
      /\ OnPath <=> Matched(f)
      /\ f.currAccum <= accumDecrPktLen
  BY <1>1, <1>4, TopFrame
<1>6. /\ frames' = [frames EXCEPT ![k] = g]
      /\ maxIncr' = f.currIncr /\ maxDecr' = f.currDecr
      /\ accumDecrPktLen' = IF f.kind = "table" THEN accumDecrPktLen ELSE f.currAccum
      /\ maxExtLen' = maxExtLen /\ path' = path
  BY <1>1, <1>2, <1>3 DEF NextAlternative
<1>7. /\ Len(frames') = k /\ frames' # <<>> /\ frames'[k] = g
      /\ \A j \in 1 .. k - 1 : frames'[j] = frames[j]
  BY <1>1, <1>5, <1>6 DEF TypeOK
<1>8. /\ g.on = f.on /\ g.alt = f.alt + 1 /\ g.take = f.take /\ g.n = f.n
      /\ g.kind = f.kind
      /\ g.currIncr = f.currIncr /\ g.currDecr = f.currDecr /\ g.currAccum = f.currAccum
      /\ g.bestIncr = bi /\ g.bestDecr = bd /\ g.bestAccum = ba
  BY <1>3, <1>5, FrameUpdate
<1>9. /\ f.on \in BOOLEAN /\ f.alt \in Nat /\ f.take \in Nat /\ f.n \in Nat
      /\ f.currIncr \in Nat /\ f.currDecr \in Nat /\ f.currAccum \in Nat
      /\ f.bestIncr \in Nat /\ f.bestDecr \in Nat /\ f.bestAccum \in Nat
  BY <1>5 DEF Frame
<1>10. /\ maxIncr \in Nat /\ maxDecr \in Nat /\ accumDecrPktLen \in Nat
       /\ path.incr \in Nat /\ path.decr \in Nat /\ path.callDecr \in Nat
  BY DEF TypeOK, Path
<1>11. /\ maxIncr <= bi /\ maxDecr <= bd /\ accumDecrPktLen <= ba
       /\ bi \in Nat /\ bd \in Nat /\ ba \in Nat
       /\ f.kind # "if" => f.bestIncr <= bi /\ f.bestDecr <= bd /\ f.bestAccum <= ba
  <2>1. bi \in Nat /\ maxIncr <= bi /\ (f.kind # "if" => f.bestIncr <= bi)
    BY <1>2, <1>9, <1>10 DEF Best, Max2
  <2>2. bd \in Nat /\ maxDecr <= bd /\ (f.kind # "if" => f.bestDecr <= bd)
    BY <1>2, <1>9, <1>10 DEF Best, Max2
  <2>3. ba \in Nat /\ accumDecrPktLen <= ba /\ (f.kind # "if" => f.bestAccum <= ba)
    BY <1>2, <1>9, <1>10 DEF Best, Max2
  <2> QED BY <2>1, <2>2, <2>3
<1>12. FrameShape(g)
  <2>1. 1 <= g.alt /\ g.alt <= g.n /\ g.take <= g.n
    BY <1>4, <1>5, <1>8, <1>9 DEF FrameShape
  <2>2. (g.kind = "if" => g.n = 2) /\ (g.kind # "switch" => g.take >= 1)
    BY <1>5, <1>8 DEF FrameShape
  <2>3. ASSUME g.kind # "if"
        PROVE  g.currIncr <= g.bestIncr /\ g.currDecr <= g.bestDecr
               /\ g.currAccum <= g.bestAccum
    <3>1. f.currIncr <= f.bestIncr /\ f.currDecr <= f.bestDecr /\ f.currAccum <= f.bestAccum
      BY <1>5, <1>8, <2>3 DEF FrameShape
    <3> QED BY <1>8, <1>9, <1>11, <2>3, <3>1
  <2> QED BY <2>1, <2>2, <2>3 DEF FrameShape
<1>13. OnPath => Within(maxIncr, maxDecr, accumDecrPktLen)
  BY DEF WalkSound
<1>14. FrameSound(g)
  <2> SUFFICES ASSUME f.on PROVE FrameSound(g)
    BY <1>8 DEF FrameSound
  <2>1. CASE f.take = 0 \/ f.take > f.alt
    BY <1>5, <1>8, <1>9, <2>1 DEF FrameSound, Within
  <2>2. CASE f.take = f.alt
    BY <1>5, <1>8, <1>9, <1>10, <1>11, <1>13, <2>2 DEF FrameSound, FrameShape, Within, Matched
  <2>3. CASE f.take # 0 /\ f.take < f.alt
    <3>1. f.kind # "if"
      BY <1>4, <1>5, <1>9, <2>3 DEF FrameShape
    <3> QED BY <1>5, <1>8, <1>9, <1>10, <1>11, <2>3, <3>1 DEF FrameSound, Within
  <2> QED BY <1>9, <2>1, <2>2, <2>3
<1>15. ASSUME NEW j \in 1 .. Len(frames')
       PROVE  FrameShape(frames[j])' /\ FrameSound(frames[j])'
  <2>1. CASE j = k
    BY <1>6, <1>7, <1>12, <1>14, <2>1 DEF FrameShape, FrameSound, Within
  <2>2. CASE j \in 1 .. k - 1
    BY <1>1, <1>5, <1>6, <1>7, <2>2 DEF WalkSound, FrameShape, FrameSound, Within
  <2> QED BY <1>5, <1>7, <2>1, <2>2
<1>16. \A j \in 1 .. k : /\ frames'[j].on = frames[j].on
                          /\ frames'[j].currAccum = frames[j].currAccum
  BY <1>1, <1>5, <1>7, <1>8
<1>17. Nesting'
  <2>1. ASSUME NEW j \in 1 .. Len(frames'), NEW i \in 1 .. j - 1
        PROVE  /\ frames'[j].on => Matched(frames'[i])
               /\ frames'[i].currAccum <= frames'[j].currAccum
    <3>1. i \in 1 .. k - 1 /\ j \in 1 .. k /\ frames'[i] = frames[i]
      BY <1>5, <1>7
    <3> QED BY <1>1, <1>16, <3>1 DEF WalkSound, Nesting
  <2>2. ASSUME NEW j \in 2 .. Len(frames'), Matched(frames'[j - 1])
        PROVE  frames'[j].on
    <3>1. j - 1 \in 1 .. k - 1 /\ j \in 1 .. k /\ frames'[j - 1] = frames[j - 1]
      BY <1>5, <1>7
    <3> QED BY <1>1, <1>7, <1>16, <2>2, <3>1 DEF WalkSound, Nesting
  <2>3. frames'[1].on
    BY <1>4, <1>5, <1>16 DEF WalkSound, Nesting
  <2>4. ASSUME NEW j \in 1 .. Len(frames')
        PROVE  frames'[j].currAccum <= accumDecrPktLen'
    <3>1. frames[j].currAccum <= accumDecrPktLen
      BY <1>1, <1>7 DEF WalkSound, Nesting
    <3>2. frames[j].currAccum <= f.currAccum
      <4>1. CASE j = k
        BY <1>1, <1>9, <4>1
      <4>2. CASE j # k
        <5>1. j \in 1 .. k - 1 /\ k \in 1 .. Len(frames)
          BY <1>1, <1>5, <1>7, <4>2
        <5> QED BY <1>1, <5>1 DEF WalkSound, Nesting
      <4> QED BY <4>1, <4>2
    <3> QED BY <1>6, <1>7, <1>16, <3>1, <3>2
  <2> QED BY <2>1, <2>2, <2>3, <2>4 DEF Nesting, Matched
<1>18. OnPath' => Within(maxIncr, maxDecr, accumDecrPktLen)'
  <2> SUFFICES ASSUME OnPath' PROVE Within(maxIncr, maxDecr, accumDecrPktLen)'
    OBVIOUS
  <2>1. f.on /\ f.take = f.alt + 1
    BY <1>7, <1>8 DEF OnPath
  <2>2. Within(f.currIncr, f.currDecr, f.currAccum)
    BY <1>5, <1>9, <2>1 DEF FrameSound
  <2> QED BY <1>5, <1>6, <1>9, <1>10, <2>2 DEF Within
<1>19. path.need <= maxExtLen' /\ path.high <= path.incr /\ path.callIncr <= path.incr
  BY <1>6 DEF WalkSound
<1> QED BY <1>6, <1>15, <1>17, <1>18, <1>19 DEF WalkSound

LEMMA EndStatementSound ==
  ASSUME TypeOK, TypeOK', WalkSound, EndStatement
  PROVE  WalkSound'
<1>1. PICK k, f : k = Len(frames) /\ f = frames[k]
  OBVIOUS
<1>2. frames # <<>> /\ f.alt = f.n
  BY <1>1 DEF EndStatement
<1>3. /\ k \in Nat /\ k # 0 /\ f \in Frame
      /\ FrameShape(f) /\ FrameSound(f)
      /\ OnPath <=> Matched(f)
      /\ f.currAccum <= accumDecrPktLen
  BY <1>1, <1>2, TopFrame
<1>4. /\ frames' = SubSeq(frames, 1, k - 1)
      /\ maxIncr' = Max2(f.bestIncr, maxIncr) /\ maxDecr' = Max2(f.bestDecr, maxDecr)
      /\ accumDecrPktLen' = IF f.kind = "table" THEN accumDecrPktLen
                            ELSE Max2(f.bestAccum, accumDecrPktLen)
      /\ maxExtLen' = maxExtLen /\ path' = path
  BY <1>1 DEF EndStatement
<1>5. /\ Len(frames') = k - 1
      /\ \A j \in 1 .. k - 1 : frames'[j] = frames[j]
  BY <1>1, <1>3, <1>4 DEF TypeOK
<1>6. /\ f.on \in BOOLEAN /\ f.alt \in Nat /\ f.take \in Nat /\ f.n \in Nat
      /\ f.currIncr \in Nat /\ f.currDecr \in Nat /\ f.currAccum \in Nat
      /\ f.bestIncr \in Nat /\ f.bestDecr \in Nat /\ f.bestAccum \in Nat
  BY <1>3 DEF Frame
<1>7. /\ maxIncr \in Nat /\ maxDecr \in Nat /\ accumDecrPktLen \in Nat
      /\ path.incr \in Nat /\ path.decr \in Nat /\ path.callDecr \in Nat
  BY DEF TypeOK, Path
<1>8. /\ maxIncr' \in Nat /\ maxIncr <= maxIncr' /\ f.bestIncr <= maxIncr'
      /\ maxDecr' \in Nat /\ maxDecr <= maxDecr' /\ f.bestDecr <= maxDecr'
      /\ accumDecrPktLen' \in Nat /\ accumDecrPktLen <= accumDecrPktLen'
      /\ f.kind # "table" => f.bestAccum <= accumDecrPktLen'
  BY <1>4, <1>6, <1>7 DEF Max2
\* The execution that reached the statement is within the maxima after it.
<1>9. f.on => Within(maxIncr, maxDecr, accumDecrPktLen)'
  <2> SUFFICES ASSUME f.on PROVE Within(maxIncr, maxDecr, accumDecrPktLen)'
    OBVIOUS
  <2>1. CASE f.take = 0
    <3>1. f.kind = "switch"
      BY <1>3, <2>1 DEF FrameShape
    <3>2. Within(f.currIncr, f.currDecr, f.currAccum)
      BY <1>3, <2>1 DEF FrameSound
    <3>3. f.currIncr <= f.bestIncr /\ f.currDecr <= f.bestDecr /\ f.currAccum <= f.bestAccum
      BY <1>3, <3>1 DEF FrameShape
    <3>4. path.incr <= maxIncr' /\ path.decr <= maxDecr' /\ path.callDecr <= accumDecrPktLen'
      BY <1>6, <1>7, <1>8, <3>1, <3>2, <3>3 DEF Within
    <3> QED BY <1>4, <3>4 DEF Within
  <2>2. CASE f.take = f.alt
    <3>1. Within(maxIncr, maxDecr, accumDecrPktLen)
      BY <1>3, <2>2 DEF WalkSound, Matched
    <3> QED BY <1>4, <1>7, <1>8, <3>1 DEF Within
  <2>3. CASE f.take # 0 /\ f.take < f.alt
    <3>1. Within(f.bestIncr, f.bestDecr, f.bestAccum)
      BY <1>3, <2>3 DEF FrameSound
    <3>2. f.kind = "table" => path.callDecr <= accumDecrPktLen
      BY <1>3, <1>6, <1>7 DEF FrameSound
    <3>3. path.incr <= maxIncr' /\ path.decr <= maxDecr'
      BY <1>6, <1>7, <1>8, <3>1 DEF Within
    <3>4. path.callDecr <= accumDecrPktLen'
      BY <1>6, <1>7, <1>8, <3>1, <3>2 DEF Within
    <3> QED BY <1>4, <3>3, <3>4 DEF Within
  <2> QED BY <1>2, <1>3, <1>6, <2>1, <2>2, <2>3 DEF FrameShape
<1>10. OnPath' => f.on
  <2> SUFFICES ASSUME OnPath' PROVE f.on
    OBVIOUS
  <2>1. CASE k = 1
    BY <1>1, <1>2, <2>1 DEF WalkSound, Nesting
  <2>2. CASE k # 1
    <3>1. frames' # <<>> /\ frames'[k - 1] = frames[k - 1] /\ k \in 2 .. Len(frames)
      BY <1>1, <1>3, <1>5, <2>2
    <3>2. Matched(frames[k - 1])
      BY <1>5, <3>1 DEF OnPath, Matched
    <3> QED BY <1>1, <3>1, <3>2 DEF WalkSound, Nesting
  <2> QED BY <2>1, <2>2
<1>11. ASSUME NEW j \in 1 .. Len(frames')
       PROVE  FrameShape(frames[j])' /\ FrameSound(frames[j])'
  <2>1. j \in 1 .. Len(frames) /\ frames'[j] = frames[j]
    BY <1>1, <1>3, <1>5
  <2> QED BY <1>4, <2>1 DEF WalkSound, FrameShape, FrameSound, Within
<1>12. Nesting'
  <2>1. ASSUME NEW j \in 1 .. Len(frames'), NEW i \in 1 .. j - 1
        PROVE  /\ frames'[j].on => Matched(frames'[i])
               /\ frames'[i].currAccum <= frames'[j].currAccum
    <3>1. /\ i \in 1 .. k - 1 /\ j \in 1 .. k - 1 /\ j \in 1 .. Len(frames)
          /\ frames'[i] = frames[i] /\ frames'[j] = frames[j]
      BY <1>1, <1>3, <1>5
    <3> QED BY <3>1 DEF WalkSound, Nesting
  <2>2. ASSUME NEW j \in 2 .. Len(frames'), Matched(frames'[j - 1])
        PROVE  frames'[j].on
    <3>1. /\ j - 1 \in 1 .. k - 1 /\ j \in 2 .. Len(frames)
          /\ frames'[j - 1] = frames[j - 1] /\ frames'[j] = frames[j]
      BY <1>1, <1>3, <1>5
    <3> QED BY <2>2, <3>1 DEF WalkSound, Nesting
  <2>3. frames' # <<>> => frames'[1].on
    <3> SUFFICES ASSUME frames' # <<>> PROVE frames'[1].on
      OBVIOUS
    <3>1. Len(frames') # 0
      BY DEF TypeOK
    <3>2. frames'[1] = frames[1]
      BY <1>3, <1>5, <3>1
    <3> QED BY <1>2, <3>2 DEF WalkSound, Nesting
  <2>4. ASSUME NEW j \in 1 .. Len(frames')
        PROVE  frames'[j].currAccum <= accumDecrPktLen'
    <3>1. j \in 1 .. Len(frames) /\ frames'[j] = frames[j]
      BY <1>1, <1>3, <1>5
    <3>f. frames \in Seq(Frame)
      BY DEF TypeOK
    <3>g. frames[j] \in Frame
      BY <3>1, <3>f
    <3>2. frames[j].currAccum \in Nat /\ frames[j].currAccum <= accumDecrPktLen
      BY <3>1, <3>g DEF WalkSound, Nesting, Frame
    <3> QED BY <1>7, <1>8, <3>1, <3>2
  <2> QED BY <2>1, <2>2, <2>3, <2>4 DEF Nesting, Matched
<1>13. path.need <= maxExtLen' /\ path.high <= path.incr /\ path.callIncr <= path.incr
  BY <1>4 DEF WalkSound
<1> QED BY <1>4, <1>9, <1>10, <1>11, <1>12, <1>13 DEF WalkSound

\* The programs the bounds are right for.
Plain == "reapply" \notin Shapes /\ "onApply" \notin Shapes

LEMMA SetValidSound ==
  ASSUME TypeOK, TypeOK', WalkSound, NEW h \in Headers, SetValid(h)
  PROVE  WalkSound'
<1>1. /\ maxIncr' = maxIncr + Width[h] /\ maxDecr' = maxDecr /\ maxExtLen' = maxExtLen
      /\ accumDecrPktLen' = accumDecrPktLen /\ frames' = frames
      /\ path' = IF OnPath THEN RunSetValid(path, h) ELSE path
  BY DEF SetValid
<1>2. Width[h] \in Nat
  BY ConstantsAssumption
<1>3. /\ maxIncr \in Nat /\ maxDecr \in Nat /\ maxExtLen \in Nat
      /\ accumDecrPktLen \in Nat /\ path \in Path /\ path' \in Path
  BY DEF TypeOK
<1>4. /\ path.incr <= path'.incr /\ path'.incr <= path.incr + Width[h]
      /\ path'.decr = path.decr /\ path'.callIncr = path.callIncr
      /\ path'.callDecr = path.callDecr /\ path'.need = path.need /\ path'.high = path.high
  <2>1. CASE OnPath
    BY <1>1, <1>3, <2>1, RunSetValidFacts
  <2>2. CASE ~OnPath
    BY <1>1, <1>2, <1>3, <2>2 DEF Path
  <2> QED BY <2>1, <2>2
<1>5. /\ path.incr \in Nat /\ path.decr \in Nat /\ path.callDecr \in Nat
      /\ path.callIncr \in Nat /\ path.need \in Nat /\ path.high \in Nat
      /\ path'.incr \in Nat
  BY <1>3 DEF Path
<1>6. /\ OnPath => Within(maxIncr, maxDecr, accumDecrPktLen)
      /\ path.need <= maxExtLen /\ path.high <= path.incr /\ path.callIncr <= path.incr
  BY DEF WalkSound
<1>7. OnPath => /\ path'.incr <= maxIncr' /\ path'.decr <= maxDecr'
                /\ path'.callDecr <= accumDecrPktLen'
  BY <1>1, <1>2, <1>3, <1>4, <1>5, <1>6 DEF Within
<1>8. path'.need <= maxExtLen' /\ path'.high <= path'.incr /\ path'.callIncr <= path'.incr
  BY <1>1, <1>4, <1>5, <1>6
<1>9. accumDecrPktLen' >= accumDecrPktLen
  BY <1>1, <1>3
<1> QED BY <1>1, <1>4, <1>7, <1>8, <1>9, StraightLine

LEMMA SetInvalidSound ==
  ASSUME TypeOK, TypeOK', WalkSound, NEW h \in Headers, SetInvalid(h)
  PROVE  WalkSound'
<1>1. /\ maxIncr' = maxIncr /\ maxDecr' = maxDecr + Width[h] /\ maxExtLen' = maxExtLen
      /\ accumDecrPktLen' = accumDecrPktLen /\ frames' = frames
      /\ path' = IF OnPath THEN RunSetInvalid(path, h) ELSE path
  BY DEF SetInvalid
<1>2. Width[h] \in Nat
  BY ConstantsAssumption
<1>3. /\ maxIncr \in Nat /\ maxDecr \in Nat /\ maxExtLen \in Nat
      /\ accumDecrPktLen \in Nat /\ path \in Path /\ path' \in Path
  BY DEF TypeOK
<1>4. /\ path'.incr = path.incr /\ path'.decr <= path.decr + Width[h]
      /\ path'.callIncr = path.callIncr
      /\ path'.callDecr = path.callDecr /\ path'.need = path.need /\ path'.high = path.high
  <2>1. CASE OnPath
    BY <1>1, <1>3, <2>1, RunSetInvalidFacts
  <2>2. CASE ~OnPath
    BY <1>1, <1>2, <1>3, <2>2 DEF Path
  <2> QED BY <2>1, <2>2
<1>5. path.incr \in Nat /\ path.decr \in Nat /\ path.callDecr \in Nat /\ path'.decr \in Nat
  BY <1>3 DEF Path
<1>6. /\ OnPath => Within(maxIncr, maxDecr, accumDecrPktLen)
      /\ path.need <= maxExtLen /\ path.high <= path.incr /\ path.callIncr <= path.incr
  BY DEF WalkSound
<1>7. OnPath => /\ path'.incr <= maxIncr' /\ path'.decr <= maxDecr'
                /\ path'.callDecr <= accumDecrPktLen'
  BY <1>1, <1>2, <1>3, <1>4, <1>5, <1>6 DEF Within
<1>8. path'.need <= maxExtLen' /\ path'.high <= path'.incr /\ path'.callIncr <= path'.incr
  BY <1>1, <1>4, <1>6
<1>9. accumDecrPktLen' >= accumDecrPktLen
  BY <1>1, <1>3
<1> QED BY <1>1, <1>4, <1>7, <1>8, <1>9, StraightLine

LEMMA ApplyPackageSound ==
  ASSUME TypeOK, TypeOK', WalkSound, Plain, NEW pkg \in Packages, ApplyPackage(pkg)
  PROVE  WalkSound'
<1>1. /\ maxIncr' = maxIncr + PkgIncr[pkg] /\ maxDecr' = maxDecr + PkgDecr[pkg]
      /\ maxExtLen' = Max2(maxExtLen, accumDecrPktLen + PkgExt[pkg])
      /\ accumDecrPktLen' = accumDecrPktLen + PkgDecr[pkg]
      /\ frames' = frames
      /\ ~OnPath => path' = path
      /\ \A i \in DOMAIN frames : frames[i].kind # "table"
  BY DEF ApplyPackage, Plain
<1>2. PkgExt[pkg] \in Nat /\ PkgIncr[pkg] \in Nat /\ PkgDecr[pkg] \in Nat
  BY ConstantsAssumption
<1>3. /\ maxIncr \in Nat /\ maxDecr \in Nat /\ maxExtLen \in Nat
      /\ accumDecrPktLen \in Nat /\ path \in Path /\ path' \in Path
  BY DEF TypeOK
<1>4. /\ path.incr \in Nat /\ path.decr \in Nat /\ path.callDecr \in Nat
      /\ path.callIncr \in Nat /\ path.need \in Nat /\ path.high \in Nat
      /\ path'.incr \in Nat /\ path'.need \in Nat /\ path'.high \in Nat
      /\ path'.decr \in Nat /\ path'.callDecr \in Nat /\ path'.callIncr \in Nat
  BY <1>3 DEF Path
<1>5. /\ OnPath => Within(maxIncr, maxDecr, accumDecrPktLen)
      /\ path.need <= maxExtLen /\ path.high <= path.incr /\ path.callIncr <= path.incr
  BY DEF WalkSound
<1>6. maxExtLen' \in Nat /\ maxExtLen' >= maxExtLen
      /\ maxExtLen' >= accumDecrPktLen + PkgExt[pkg]
  BY <1>1, <1>2, <1>3 DEF Max2
<1>7. ASSUME OnPath
      PROVE  /\ path'.incr <= maxIncr' /\ path'.decr <= maxDecr'
             /\ path'.callDecr <= accumDecrPktLen' /\ path'.need <= maxExtLen'
             /\ path'.high <= path'.incr /\ path'.callIncr <= path'.incr
  <2>1. PICK r \in PackageRuns(pkg) : path' = RunPackage(path, r[1], r[2], r[3])
    BY <1>7 DEF ApplyPackage
  <2>2. PICK e \in Nat, i \in Nat, d \in Nat :
          /\ path' = RunPackage(path, e, i, d)
          /\ e <= PkgExt[pkg] /\ i <= PkgIncr[pkg] /\ d <= PkgDecr[pkg]
    BY <2>1, PackageRunsType
  <2>3. /\ path'.incr <= path.incr + i /\ path'.incr >= path.incr + i
        /\ path'.decr <= path.decr + d
        /\ path'.callIncr <= path.callIncr + i /\ path'.callDecr <= path.callDecr + d
        /\ path'.need <= path.need \/ path'.need <= e + path.callDecr
        /\ path'.high <= path.high \/ path'.high <= path.callIncr + i
    BY <1>3, <2>2, RunPackageFacts
  <2>4. path'.incr <= maxIncr' /\ path'.decr <= maxDecr' /\ path'.callDecr <= accumDecrPktLen'
    <3>1. /\ path.incr <= maxIncr /\ path.decr <= maxDecr
          /\ path.callDecr <= accumDecrPktLen
      BY <1>5, <1>7 DEF Within
    <3> QED BY <1>1, <1>2, <1>3, <1>4, <2>2, <2>3, <3>1
  <2>5. path'.need <= maxExtLen'
    <3>1. path.callDecr <= accumDecrPktLen
      BY <1>5, <1>7 DEF Within
    <3> QED BY <1>2, <1>3, <1>4, <1>5, <1>6, <2>2, <2>3, <3>1
  <2>6. path'.high <= path'.incr /\ path'.callIncr <= path'.incr
    BY <1>4, <1>5, <2>2, <2>3
  <2> QED BY <2>4, <2>5, <2>6
<1>8. path'.need <= maxExtLen' /\ path'.high <= path'.incr /\ path'.callIncr <= path'.incr
  <2>1. CASE OnPath
    BY <1>7, <2>1
  <2>2. CASE ~OnPath
    BY <1>1, <1>3, <1>4, <1>5, <1>6, <2>2
  <2> QED BY <2>1, <2>2
<1>9. accumDecrPktLen' >= accumDecrPktLen
  BY <1>1, <1>2, <1>3
<1>10. \A i \in 1 .. Len(frames) : frames[i].kind # "table"
  BY <1>1 DEF TypeOK
<1> QED BY <1>1, <1>7, <1>8, <1>9, <1>10, StraightLine

LEMMA VisitSound ==
  ASSUME TypeOK, TypeOK', WalkSound, Plain, CBINext
  PROVE  WalkSound'
<1>1. ASSUME NEW h \in Headers, SetValid(h) \/ SetInvalid(h)
      PROVE  WalkSound'
  BY <1>1, SetValidSound, SetInvalidSound
<1>2. ASSUME NEW pkg \in Packages, ApplyPackage(pkg)
      PROVE  WalkSound'
  BY <1>2, ApplyPackageSound
<1>3. CASE IfStatement
  <2>1. PICK take \in 1 .. 2 : Enter("if", 2, take)
    BY <1>3 DEF IfStatement
  <2>2. path' = path
    BY <1>3 DEF IfStatement
  <2> QED BY <2>1, <2>2, EnterSound
<1>4. CASE SwitchStatement
  <2>1. PICK n \in 1 .. MaxAlts :
          \E take \in (IF "noMatch" \in Shapes THEN 0 ELSE 1) .. n : Enter("switch", n, take)
    BY <1>4 DEF SwitchStatement
  <2>2. PICK take \in 0 .. n : Enter("switch", n, take)
    BY <2>1, ConstantsAssumption
  <2>3. path' = path
    BY <1>4 DEF SwitchStatement, RunSwitchTable, Plain
  <2>4. n \in Nat /\ take \in Nat /\ 1 <= n /\ take <= n
    BY ConstantsAssumption
  <2> QED BY <2>2, <2>3, <2>4, EnterSound
<1>5. CASE ActionList
  <2>1. PICK n \in 1 .. MaxAlts : \E take \in 1 .. n : Enter("table", n, take)
    BY <1>5 DEF ActionList
  <2>2. PICK take \in 1 .. n : Enter("table", n, take)
    BY <2>1
  <2>3. path' = path
    BY <1>5 DEF ActionList
  <2>4. n \in Nat /\ take \in Nat /\ 1 <= n /\ 1 <= take /\ take <= n
    BY ConstantsAssumption
  <2> QED BY <2>2, <2>3, <2>4, EnterSound
<1>6. CASE NextAlternative
  BY <1>6, NextAlternativeSound
<1>7. CASE EndStatement
  BY <1>7, EndStatementSound
<1>8. CASE EndControl
  <2>1. /\ maxIncr' = maxIncr /\ maxDecr' = maxDecr /\ maxExtLen' = maxExtLen
        /\ accumDecrPktLen' = accumDecrPktLen /\ frames' = frames /\ frames = <<>>
        /\ path' = [path EXCEPT !.high = Max2(@, path.incr - path.decr)]
    BY <1>8 DEF EndControl, analysis
  <2>2. path \in Path /\ accumDecrPktLen \in Nat
    BY DEF TypeOK
  <2>3. /\ path'.incr = path.incr /\ path'.decr = path.decr /\ path'.need = path.need
        /\ path'.callIncr = path.callIncr /\ path'.callDecr = path.callDecr
        /\ path'.high = Max2(path.high, path.incr - path.decr)
    BY <2>1, <2>2 DEF Path
  <2>4. OnPath /\ path.high <= path.incr
    BY <2>1 DEF OnPath, WalkSound
  <2>5. path.incr \in Nat /\ path.decr \in Nat /\ path.high \in Nat
    BY <2>2 DEF Path
  <2>6. path'.high <= path'.incr
    BY <2>3, <2>4, <2>5 DEF Max2
  <2>7. Len(frames) = 0
    BY <2>1
  <2>8. accumDecrPktLen' >= accumDecrPktLen
    BY <2>1, <2>2
  <2>9. OnPath => Within(maxIncr, maxDecr, accumDecrPktLen)
    BY DEF WalkSound
  <2>10. /\ path'.incr <= maxIncr' /\ path'.decr <= maxDecr'
         /\ path'.callDecr <= accumDecrPktLen' /\ path'.need <= maxExtLen'
         /\ path'.callIncr <= path'.incr
    BY <2>1, <2>3, <2>4, <2>9 DEF Within, WalkSound
  <2> QED BY <2>1, <2>3, <2>4, <2>6, <2>7, <2>8, <2>10, StraightLine
<1> QED BY <1>1, <1>2, <1>3, <1>4, <1>5, <1>6, <1>7, <1>8 DEF CBINext

----------------------------------------------------------------------------
(* The inductive invariant and what follows from it.                       *)

LEMMA IInvInit == Init => IInv
<1> SUFFICES ASSUME Init PROVE IInv
  OBVIOUS
<1>1. TypeOK
  BY TypeInit
<1>2. /\ frames = <<>> /\ path.incr = 0 /\ path.decr = 0 /\ path.callDecr = 0
      /\ path.callIncr = 0 /\ path.need = 0 /\ path.high = 0
  BY DEF Init, CBIInit, StartPath
<1>3. WalkSound
  BY <1>2 DEF Init, CBIInit, WalkSound, Nesting, Within
<1>4. PhaseSound
  BY <1>2 DEF Init, CBIInit, PhaseSound
<1> QED BY <1>1, <1>3, <1>4 DEF IInv

LEMMA IInvStep ==
  ASSUME Plain, IInv, [Next]_vars
  PROVE  IInv'
<1>1. TypeOK /\ TypeOK' /\ WalkSound /\ PhaseSound
  BY TypeStep DEF IInv
<1>2. path \in Path /\ path.need \in Nat /\ base \in Nat /\ pkgMaxExtLen \in Nat
      /\ maxExtLen \in Nat /\ path.need <= maxExtLen
  BY <1>1 DEF TypeOK, Path, WalkSound
<1>3. ASSUME UNCHANGED cbiVars
      PROVE  WalkSound'
  BY <1>1, <1>3 DEF cbiVars, WalkSound, Nesting, Matched, OnPath, Within, FrameShape, FrameSound
<1>4. CASE VisitParser
  <2>1. PhaseSound'
    BY <1>1, <1>2, <1>4, ParserAssumption DEF VisitParser, cbiVars, PhaseSound
  <2> QED BY <1>1, <1>3, <1>4, <2>1 DEF IInv, VisitParser
<1>5. CASE VisitControl
  <2>1. CBINext /\ UNCHANGED packageVars /\ phase = "control"
    BY <1>5 DEF VisitControl
  <2>2. WalkSound'
    BY <1>1, <2>1, VisitSound
  <2>3. ended' => frames' = <<>>
    BY <1>1, <2>1 DEF PhaseSound, CBINext, SetValid, SetInvalid, ApplyPackage, IfStatement,
       SwitchStatement, ActionList, NextAlternative, EndStatement, EndControl, Visiting, Enter
  <2>4. PhaseSound'
    BY <1>1, <2>1, <2>3 DEF PhaseSound, packageVars
  <2> QED BY <1>1, <2>2, <2>4 DEF IInv
<1>6. CASE EndPackage
  <2>1. PhaseSound'
    BY <1>1, <1>2, <1>6 DEF EndPackage, cbiVars, PhaseSound
  <2> QED BY <1>1, <1>3, <1>6, <2>1 DEF IInv, EndPackage
<1>7. CASE SizeByteStack
  <2>1. PhaseSound'
    BY <1>1, <1>2, <1>7 DEF SizeByteStack, cbiVars, PhaseSound
  <2> QED BY <1>1, <1>3, <1>7, <2>1 DEF IInv, SizeByteStack
<1>8. CASE UNCHANGED vars
  <2>1. PhaseSound'
    BY <1>1, <1>8 DEF vars, cbiVars, packageVars, PhaseSound
  <2> QED BY <1>1, <1>3, <1>8, <2>1 DEF IInv, vars
<1> QED BY <1>4, <1>5, <1>6, <1>7, <1>8 DEF Next

LEMMA IInvImplies == IInv => BoundsSound /\ StackSuffices
<1> SUFFICES ASSUME IInv PROVE BoundsSound /\ StackSuffices
  OBVIOUS
<1>1. TypeOK /\ WalkSound /\ PhaseSound
  BY DEF IInv
<1>2. path.incr \in Nat /\ path.high \in Nat /\ maxIncr \in Nat /\ pkgMaxExtLen \in Nat
  BY <1>1 DEF TypeOK, Path
<1>3. ASSUME phase \in {"package", "sized"}
      PROVE  path.incr <= maxIncr /\ path.decr <= maxDecr
  <2>1. frames = <<>>
    BY <1>1, <1>3 DEF PhaseSound
  <2>2. OnPath
    BY <2>1 DEF OnPath
  <2> QED BY <1>1, <2>2 DEF WalkSound, Within
<1>4. BoundsSound
  BY <1>1, <1>3 DEF BoundsSound, PhaseSound
<1>5. path.high <= path.incr
  BY <1>1 DEF WalkSound
<1>6. StackSuffices
  BY <1>1, <1>2, <1>3, <1>5 DEF StackSuffices, PhaseSound
<1> QED BY <1>4, <1>6

\* The bounds computed for a package hold of every execution of it, for any
\* headers, any callees and any body that applies no package twice and has no
\* switch on the result of a table.
THEOREM BoundsAreSound ==
  ASSUME Plain
  PROVE  Spec => []BoundsSound
<1>1. IInv /\ [Next]_vars => IInv'
  BY IInvStep
<1>2. IInv => BoundsSound
  BY IInvImplies
<1> QED BY <1>1, <1>2, IInvInit, PTL DEF Spec

\* Under the same condition the byte stack is large enough for whatever the
\* callees and the package's deparser do to the bytes extracted from a packet.
THEOREM ByteStackSuffices ==
  ASSUME Plain
  PROVE  Spec => []StackSuffices
<1>1. IInv /\ [Next]_vars => IInv'
  BY IInvStep
<1>2. IInv => StackSuffices
  BY IInvImplies
<1> QED BY <1>1, <1>2, IInvInit, PTL DEF Spec

\* The invariant behind both, which ties the counters and the saved frames of the walk to
\* the execution at every point of the walk.
THEOREM WalkFollowsExecution ==
  ASSUME Plain
  PROVE  Spec => []IInv
<1>1. IInv /\ [Next]_vars => IInv'
  BY IInvStep
<1> QED BY <1>1, IInvInit, PTL DEF Spec

----------------------------------------------------------------------------
(* The records of the operations.                                          *)

\* The programs whose executions all have their record: no branching statement inside
\* another one, no operation behind the last one, no header set both ways, and every
\* switch has a case that matches and is on no table with operations.
Recordable == Shapes \cap {"nested", "trailing", "opposite", "noMatch", "onApply"} = {}

LEMMA InsertAt ==
  ASSUME NEW vec \in Seq(OpsRec), NEW b \in Nat, NEW e \in Nat, currOpsRec \in OpsRec,
         NEW v, v = InsertCurrOpsRec(vec, b, e)
  PROVE  /\ v \in Seq(OpsRec) /\ Len(v) = Len(vec)
         /\ \A i \in b + 1 .. e : i \in 1 .. Len(vec) =>
              /\ v[i].first = vec[i].first \cup currOpsRec.first
              /\ v[i].second = vec[i].second \cup currOpsRec.second
         /\ \A i \in 1 .. Len(vec) : i \notin b + 1 .. e => v[i] = vec[i]
<1>1. DOMAIN vec = 1 .. Len(vec) /\ Len(vec) \in Nat
  OBVIOUS
<1>2. v \in Seq(OpsRec)
  BY InsertType
<1>3. DOMAIN v = 1 .. Len(vec)
  BY <1>1 DEF InsertCurrOpsRec
<1>4. Len(v) = Len(vec)
  BY <1>1, <1>2, <1>3
<1>5. ASSUME NEW i \in 1 .. Len(vec), i \in b + 1 .. e
      PROVE  /\ v[i].first = vec[i].first \cup currOpsRec.first
             /\ v[i].second = vec[i].second \cup currOpsRec.second
  <2>1. b < i /\ i <= e
    BY <1>5
  <2>2. v[i] = [first |-> vec[i].first \cup currOpsRec.first,
                second |-> vec[i].second \cup currOpsRec.second]
    BY <1>1, <2>1 DEF InsertCurrOpsRec
  <2> QED BY <2>2
<1>6. ASSUME NEW i \in 1 .. Len(vec), i \notin b + 1 .. e PROVE v[i] = vec[i]
  <2>1. ~ (b < i /\ i <= e)
    BY <1>1, <1>6
  <2> QED BY <1>1, <2>1 DEF InsertCurrOpsRec
<1> QED BY <1>2, <1>4, <1>5, <1>6

LEMMA RemainderOfIndex ==
  ASSUME NEW L \in Nat \ {0}, NEW a \in Nat, NEW r \in 0 .. L - 1
  PROVE  (a * L + r) % L = r
  OBVIOUS

LEMMA IndexInCopy ==
  ASSUME NEW L \in Nat \ {0}, NEW n \in Nat, NEW a \in 0 .. n - 1, NEW r \in 0 .. L - 1
  PROVE  a * L + r \in 0 .. n * L - 1
<1>1. a \in Nat /\ n - 1 - a \in Nat
  OBVIOUS
<1>2. a * L \in Nat /\ (n - 1 - a) * L \in Nat /\ n * L \in Nat
  BY <1>1
<1>3. (n - 1 - a) * L = n * L - L - a * L
  BY <1>1
<1> QED BY <1>2, <1>3

\* The record i of the copy a of a vector is at j.
InCopy(vec, a, i, j) == j = a * Len(vec) + i

LEMMA ReplicateAt ==
  ASSUME NEW vec \in Seq(OpsRec), NEW n \in Nat, NEW a \in 0 .. n - 1,
         NEW i \in 1 .. Len(vec), NEW j, InCopy(vec, a, i, j)
  PROVE  Replicate(vec, n)[j] = vec[i]
<1>1. PICK L, v : L = Len(vec) /\ v = Replicate(vec, n)
  OBVIOUS
<1>2. /\ L \in Nat \ {0} /\ a \in Nat /\ i \in 1 .. L /\ i - 1 \in 0 .. L - 1
      /\ j = a * L + i
  BY <1>1 DEF InCopy
<1>3. v = [k \in 1 .. n * L |-> vec[((k - 1) % L) + 1]]
  BY <1>1 DEF Replicate
<1>4. PICK r : r = i - 1
  OBVIOUS
<1>5. a * L + r \in 0 .. n * L - 1 /\ (a * L + r) % L = r
  BY <1>2, <1>4, IndexInCopy, RemainderOfIndex
<1>6. j \in 1 .. n * L /\ j - 1 = a * L + r /\ r + 1 = i
  <2>1. a * L \in Nat /\ n * L \in Nat
    BY <1>2
  <2> QED BY <1>2, <1>4, <1>5, <2>1
<1>7. v[j] = vec[((j - 1) % L) + 1]
  BY <1>3, <1>6
<1> QED BY <1>1, <1>5, <1>6, <1>7

LEMMA ReplicateLen ==
  ASSUME NEW vec \in Seq(OpsRec), NEW n \in Nat, NEW v, v = Replicate(vec, n)
  PROVE  Len(v) = n * Len(vec)
<1>1. Len(vec) \in Nat
  OBVIOUS
<1>2. n * Len(vec) \in Nat
  BY <1>1
<1>3. v \in Seq(OpsRec) /\ DOMAIN v = 1 .. n * Len(vec)
  BY ReplicateType DEF Replicate
<1> QED BY <1>2, <1>3

\* The blocks of two alternatives have no index in common.
LEMMA BlocksApart ==
  ASSUME NEW L \in Nat, NEW a \in Nat, NEW b \in Nat, a # b, NEW i,
         i \in (a - 1) * L + 1 .. a * L
  PROVE  i \notin (b - 1) * L + 1 .. b * L
<1>1. a * L \in Int /\ b * L \in Int /\ (a - 1) * L = a * L - L /\ (b - 1) * L = b * L - L
  OBVIOUS
<1>2. CASE a < b
  <2>1. a * L <= (b - 1) * L
    <3>1. b - 1 - a \in Nat
      BY <1>2
    <3>2. (b - 1 - a) * L >= 0 /\ (b - 1 - a) * L = (b - 1) * L - a * L
      BY <3>1
    <3> QED BY <1>1, <3>2
  <2> QED BY <1>1, <2>1
<1>3. CASE b < a
  <2>1. b * L <= (a - 1) * L
    <3>1. a - 1 - b \in Nat
      BY <1>3
    <3>2. (a - 1 - b) * L >= 0 /\ (a - 1 - b) * L = (a - 1) * L - b * L
      BY <3>1
    <3> QED BY <1>1, <3>2
  <2> QED BY <1>1, <2>1
<1> QED BY <1>2, <1>3

\* The block of an alternative lies in the vector.
LEMMA BlockInVector ==
  ASSUME NEW L \in Nat, NEW n \in Nat, NEW a \in 1 .. n, NEW i \in (a - 1) * L + 1 .. a * L
  PROVE  /\ i \in 1 .. n * L /\ (a - 1) * L \in Nat /\ a * L \in Nat
<1>1. a - 1 \in Nat /\ n - a \in Nat
  OBVIOUS
<1>2. (a - 1) * L \in Nat /\ (n - a) * L \in Nat /\ a * L \in Nat /\ n * L \in Nat
  BY <1>1
<1>3. (n - a) * L = n * L - a * L
  BY <1>1
<1> QED BY <1>2, <1>3

LEMMA RecordsInit == Init => RecordsInv
<1> SUFFICES ASSUME Init PROVE RecordsInv
  OBVIOUS
<1>1. PICK parsed \in SUBSET Headers : path = StartPath(parsed)
  BY DEF Init, CBIInit
<1>2. /\ xoredHdrValidityOps = <<EmptyRec>> /\ frames = <<>> /\ ended = FALSE
      /\ currOpsRec = EmptyRec
  BY DEF Init, CBIInit
<1>3. Flags.first = {} /\ Flags.second = {}
  BY <1>1 DEF Flags, StartPath
<1>4. /\ Len(xoredHdrValidityOps) = 1 /\ 1 \in 0 + 1 .. 1
      /\ xoredHdrValidityOps[1] = EmptyRec
  BY <1>2
<1>5. Recorded(0, Len(xoredHdrValidityOps), currOpsRec)
  BY <1>2, <1>3, <1>4 DEF Recorded, EmptyRec
<1> QED BY <1>2, <1>4, <1>5 DEF RecordsInv, OperationsRecorded

\* A statement that is no branch: on the execution's path its operations go to the record
\* of the execution and to currOpsRec, off the path to currOpsRec only.
LEMMA StatementRecorded ==
  ASSUME TypeOK, RecordsInv, ~ended, ~ended', NEW F, NEW G,
         xoredHdrValidityOps' = xoredHdrValidityOps, frames' = frames,
         OnPath => /\ currOpsRec'.first = currOpsRec.first \cup F
                   /\ currOpsRec'.second = currOpsRec.second \cup G
                   /\ Flags'.first = Flags.first \cup F /\ Flags'.second = Flags.second \cup G
         ,
         ~OnPath => Flags' = Flags
  PROVE  RecordsInv'
<1>1. CASE frames = <<>>
  <2>1. OnPath
    BY <1>1 DEF OnPath
  <2>2. PICK i \in 0 + 1 .. Len(xoredHdrValidityOps) :
          /\ xoredHdrValidityOps[i].first \cup currOpsRec.first = Flags.first
          /\ xoredHdrValidityOps[i].second \cup currOpsRec.second = Flags.second
    BY <1>1 DEF RecordsInv, Recorded
  <2>3. /\ xoredHdrValidityOps'[i].first \cup currOpsRec'.first = Flags'.first
        /\ xoredHdrValidityOps'[i].second \cup currOpsRec'.second = Flags'.second
    BY <2>1, <2>2
  <2>4. Recorded(0, Len(xoredHdrValidityOps), currOpsRec)'
    BY <2>3 DEF Recorded
  <2> QED BY <1>1, <2>4 DEF RecordsInv, OperationsRecorded
<1>2. CASE frames # <<>>
  <2>0. PICK f : f = frames[1]
    OBVIOUS
  <2>1. /\ Len(frames) = 1 /\ f.on
        /\ f.take \in 1 .. f.n /\ f.alt \in 1 .. f.n
        /\ f.currSize > 0 /\ Len(xoredHdrValidityOps) = f.n * f.currSize
        /\ Recorded((f.take - 1) * f.currSize, f.take * f.currSize,
                    IF f.alt = f.take THEN currOpsRec ELSE EmptyRec)
    BY <1>2, <2>0 DEF RecordsInv
  <2>2. OnPath <=> f.alt = f.take
    BY <1>2, <2>0, <2>1 DEF OnPath
  <2>3. PICK i \in (f.take - 1) * f.currSize + 1 .. f.take * f.currSize :
          LET ops == IF f.alt = f.take THEN currOpsRec ELSE EmptyRec
          IN /\ xoredHdrValidityOps[i].first \cup ops.first = Flags.first
             /\ xoredHdrValidityOps[i].second \cup ops.second = Flags.second
    BY <2>1 DEF Recorded
  <2>4. LET o == IF f.alt = f.take THEN currOpsRec' ELSE EmptyRec
        IN /\ xoredHdrValidityOps'[i].first \cup o.first = Flags'.first
           /\ xoredHdrValidityOps'[i].second \cup o.second = Flags'.second
    <3>1. CASE f.alt = f.take
      BY <2>2, <2>3, <3>1
    <3>2. CASE f.alt # f.take
      BY <2>2, <2>3, <3>2
    <3> QED BY <3>1, <3>2
  <2>5. Recorded((f.take - 1) * f.currSize, f.take * f.currSize,
                 IF f.alt = f.take THEN currOpsRec ELSE EmptyRec)'
    BY <2>4 DEF Recorded
  <2>6. frames' # <<>> /\ frames'[1] = f /\ Len(frames') = 1
    BY <1>2, <2>0, <2>1
  <2>7. Len(xoredHdrValidityOps) > 0 /\ OperationsRecorded'
    BY DEF RecordsInv, OperationsRecorded
  <2> QED BY <2>1, <2>5, <2>6, <2>7 DEF RecordsInv
<1> QED BY <1>1, <1>2

LEMMA SetValidRecorded ==
  ASSUME Recordable, TypeOK, RecordsInv, NEW h \in Headers, SetValid(h)
  PROVE  RecordsInv'
<1>1. /\ ~ended /\ ended' = ended /\ frames' = frames
      /\ xoredHdrValidityOps' = xoredHdrValidityOps
      /\ currOpsRec' = [currOpsRec EXCEPT !.first = @ \cup {h}]
      /\ path' = IF OnPath THEN RunSetValid(path, h) ELSE path
  BY DEF SetValid, Visiting
<1>2. OnPath => path.vop[h] \in {"none", "sv"}
  BY DEF SetValid, Allowed, Recordable
<1>3. currOpsRec \in OpsRec /\ path \in Path
  BY DEF TypeOK
<1>4. /\ currOpsRec'.first = currOpsRec.first \cup {h}
      /\ currOpsRec'.second = currOpsRec.second \cup {}
  BY <1>1, <1>3 DEF OpsRec
<1>5. OnPath => Flags'.first = Flags.first \cup {h} /\ Flags'.second = Flags.second \cup {}
  <2> SUFFICES ASSUME OnPath
               PROVE  Flags'.first = Flags.first \cup {h} /\ Flags'.second = Flags.second
    OBVIOUS
  <2>1. path'.vop = [path.vop EXCEPT ![h] = "sv"] /\ path.vop \in [Headers -> {"none", "sv", "siv"}]
    BY <1>1, <1>3 DEF RunSetValid, Path
  <2>2. \A g \in Headers : path'.vop[g] = IF g = h THEN "sv" ELSE path.vop[g]
    BY <2>1
  <2> QED BY <1>2, <2>2 DEF Flags
<1>6. ~OnPath => Flags' = Flags
  BY <1>1 DEF Flags
<1> QED BY <1>1, <1>4, <1>5, <1>6, StatementRecorded

LEMMA SetInvalidRecorded ==
  ASSUME Recordable, TypeOK, RecordsInv, NEW h \in Headers, SetInvalid(h)
  PROVE  RecordsInv'
<1>1. /\ ~ended /\ ended' = ended /\ frames' = frames
      /\ xoredHdrValidityOps' = xoredHdrValidityOps
      /\ currOpsRec' = [currOpsRec EXCEPT !.second = @ \cup {h}]
      /\ path' = IF OnPath THEN RunSetInvalid(path, h) ELSE path
  BY DEF SetInvalid, Visiting
<1>2. OnPath => path.vop[h] \in {"none", "siv"}
  BY DEF SetInvalid, Allowed, Recordable
<1>3. currOpsRec \in OpsRec /\ path \in Path
  BY DEF TypeOK
<1>4. /\ currOpsRec'.first = currOpsRec.first \cup {}
      /\ currOpsRec'.second = currOpsRec.second \cup {h}
  BY <1>1, <1>3 DEF OpsRec
<1>5. OnPath => Flags'.first = Flags.first \cup {} /\ Flags'.second = Flags.second \cup {h}
  <2> SUFFICES ASSUME OnPath
               PROVE  Flags'.first = Flags.first /\ Flags'.second = Flags.second \cup {h}
    OBVIOUS
  <2>1. path'.vop = [path.vop EXCEPT ![h] = "siv"] /\ path.vop \in [Headers -> {"none", "sv", "siv"}]
    BY <1>1, <1>3 DEF RunSetInvalid, Path
  <2>2. \A g \in Headers : path'.vop[g] = IF g = h THEN "siv" ELSE path.vop[g]
    BY <2>1
  <2> QED BY <1>2, <2>2 DEF Flags
<1>6. ~OnPath => Flags' = Flags
  BY <1>1 DEF Flags
<1> QED BY <1>1, <1>4, <1>5, <1>6, StatementRecorded

LEMMA ApplyPackageRecorded ==
  ASSUME TypeOK, RecordsInv, NEW pkg \in Packages, ApplyPackage(pkg)
  PROVE  RecordsInv'
<1>1. /\ ~ended /\ ended' = ended /\ frames' = frames
      /\ xoredHdrValidityOps' = xoredHdrValidityOps /\ currOpsRec' = currOpsRec
  BY DEF ApplyPackage, Visiting
<1>2. path'.vop = path.vop
  <2>1. CASE OnPath
    <3>1. PICK r \in PackageRuns(pkg) : path' = RunPackage(path, r[1], r[2], r[3])
      BY <2>1 DEF ApplyPackage
    <3> QED BY <3>1 DEF RunPackage, TypeOK, Path
  <2>2. CASE ~OnPath
    BY <2>2 DEF ApplyPackage
  <2> QED BY <2>1, <2>2
<1>3. Flags' = Flags
  BY <1>2 DEF Flags
<1>4. /\ currOpsRec'.first = currOpsRec.first \cup {} /\ currOpsRec'.second = currOpsRec.second \cup {}
      /\ Flags'.first = Flags.first \cup {} /\ Flags'.second = Flags.second \cup {}
  BY <1>1, <1>3
<1> QED BY <1>1, <1>3, <1>4, StatementRecorded

LEMMA EnterRecorded ==
  ASSUME Recordable, TypeOK, RecordsInv, ~ended, NEW kind, NEW n \in Nat, NEW take \in 1 .. n,
         Enter(kind, n, take), path'.vop = path.vop
  PROVE  RecordsInv'
<1> DEFINE L == Len(xoredHdrValidityOps)
           w == InsertCurrOpsRec(xoredHdrValidityOps, 0, L)
<1>1. frames = <<>> /\ ended' = ended /\ currOpsRec' = EmptyRec
  BY DEF Enter, Recordable
<1>2. OnPath
  BY <1>1 DEF OnPath
<1>3. Flags' = Flags
  BY DEF Flags
<1>4. /\ xoredHdrValidityOps \in Seq(OpsRec) /\ currOpsRec \in OpsRec
      /\ L \in Nat /\ L > 0
  BY DEF TypeOK, RecordsInv
<1>5. PICK i \in 0 + 1 .. L :
        /\ xoredHdrValidityOps[i].first \cup currOpsRec.first = Flags.first
        /\ xoredHdrValidityOps[i].second \cup currOpsRec.second = Flags.second
  BY <1>1 DEF RecordsInv, Recorded
<1>6. xoredHdrValidityOps' = Replicate(w, n)
  BY DEF Enter
<1>7. i \in 1 .. L /\ take - 1 \in 0 .. n - 1
  BY <1>4, <1>5
<1>8. w \in Seq(OpsRec) /\ Len(w) = L /\ w[i].first = Flags.first /\ w[i].second = Flags.second
  <2>1. /\ w \in Seq(OpsRec) /\ Len(w) = Len(xoredHdrValidityOps)
        /\ \A j \in 0 + 1 .. L : j \in 1 .. Len(xoredHdrValidityOps) =>
             /\ w[j].first = xoredHdrValidityOps[j].first \cup currOpsRec.first
             /\ w[j].second = xoredHdrValidityOps[j].second \cup currOpsRec.second
    <3> HIDE DEF w
    <3>1. w = InsertCurrOpsRec(xoredHdrValidityOps, 0, L) /\ 0 \in Nat
      BY DEF w
    <3> HIDE DEF L
    <3> QED BY ONLY <1>4, <3>1, InsertAt
  <2> QED BY <1>5, <1>7, <2>1
<1> HIDE DEF L, w
<1>9. PICK a \in 0 .. n - 1 : a = take - 1
  BY <1>7
<1>10. /\ Len(xoredHdrValidityOps') = n * L
       /\ xoredHdrValidityOps'[a * L + i] = w[i]
  <2>1. PICK j, v : j = a * L + i /\ v = xoredHdrValidityOps'
    OBVIOUS
  <2>2. w \in Seq(OpsRec) /\ n \in Nat /\ a \in 0 .. n - 1 /\ i \in 1 .. Len(w) /\ InCopy(w, a, i, j)
    BY <1>7, <1>8, <2>1 DEF InCopy
  <2>3. Replicate(w, n)[j] = w[i]
    BY ONLY <2>2, ReplicateAt
  <2>4. Len(xoredHdrValidityOps') = n * L
    BY <1>6, <1>8, <2>1, ReplicateLen
  <2> QED BY <1>6, <2>1, <2>3, <2>4
<1>11. a * L + i \in a * L + 1 .. take * L
  <2>1. a \in Nat /\ take = a + 1 /\ a * L \in Nat
    BY <1>4, <1>9
  <2>2. (a + 1) * L = a * L + L
    BY <1>4, <2>1
  <2> QED BY <1>7, <1>4, <2>1, <2>2
<1>12. /\ xoredHdrValidityOps'[a * L + i].first \cup EmptyRec.first = Flags'.first
       /\ xoredHdrValidityOps'[a * L + i].second \cup EmptyRec.second = Flags'.second
  BY <1>3, <1>8, <1>10 DEF EmptyRec
<1>13. PICK f : frames' = <<f>> /\ f.n = n /\ f.alt = 1 /\ f.take = take /\ f.on = OnPath
                /\ f.currSize = L
  <2>1. frames' = Append(frames,
       [kind |-> kind, n |-> n, alt |-> 1, take |-> take, on |-> OnPath,
        currSize |-> Len(xoredHdrValidityOps),
        currIncr |-> maxIncr, currDecr |-> maxDecr, currAccum |-> accumDecrPktLen,
        bestIncr |-> maxIncr, bestDecr |-> maxDecr, bestAccum |-> accumDecrPktLen])
    BY DEF Enter
  <2> QED BY <1>1, <2>1 DEF L
<1>14. frames' # <<>> /\ frames'[1] = f /\ Len(frames') = 1
  BY <1>13
<1>15. (IF f.alt = f.take THEN currOpsRec' ELSE EmptyRec) = EmptyRec
  BY <1>1
<1>16. Recorded((f.take - 1) * f.currSize, f.take * f.currSize,
                IF f.alt = f.take THEN currOpsRec ELSE EmptyRec)'
  BY <1>9, <1>11, <1>12, <1>13, <1>15 DEF Recorded
<1>17. n * L > 0
  <2>1. n \in Nat \ {0} /\ L \in Nat \ {0}
    BY <1>4
  <2> QED BY <2>1
<1>18. OperationsRecorded'
  BY <1>1 DEF OperationsRecorded
<1>19. f.alt \in 1 .. f.n /\ f.take \in 1 .. f.n /\ f.currSize > 0 /\ f.on
  BY <1>2, <1>4, <1>13
<1> QED BY <1>1, <1>10, <1>13, <1>14, <1>16, <1>17, <1>18, <1>19 DEF RecordsInv

\* When the walk leaves an alternative its operations go to the block of it: the record
\* of the execution is complete in the block of the alternative the execution takes.
LEMMA AlternativeRecorded ==
  ASSUME TypeOK, RecordsInv, frames # <<>>, NEW f, f = frames[1],
         NEW v, v = InsertAlternative(f)
  PROVE  /\ v \in Seq(OpsRec) /\ Len(v) = Len(xoredHdrValidityOps)
         /\ \E i \in (f.take - 1) * f.currSize + 1 .. f.take * f.currSize :
              /\ i \in 1 .. Len(v)
              /\ v[i].first = Flags.first /\ v[i].second = Flags.second
<1> DEFINE L == f.currSize
<1>1. /\ f.take \in 1 .. f.n /\ f.alt \in 1 .. f.n
      /\ L > 0 /\ Len(xoredHdrValidityOps) = f.n * L
      /\ Recorded((f.take - 1) * L, f.take * L, IF f.alt = f.take THEN currOpsRec ELSE EmptyRec)
  BY DEF RecordsInv
<1>2. xoredHdrValidityOps \in Seq(OpsRec) /\ currOpsRec \in OpsRec
  BY DEF TypeOK
<1>3. f.n \in Nat /\ L \in Nat
  <2>1. 1 \in DOMAIN frames /\ frames \in Seq(Frame)
    BY DEF TypeOK
  <2>2. f \in Frame
    BY <2>1
  <2> QED BY <2>2 DEF Frame
<1>4. PICK i \in (f.take - 1) * L + 1 .. f.take * L :
        LET ops == IF f.alt = f.take THEN currOpsRec ELSE EmptyRec
        IN /\ xoredHdrValidityOps[i].first \cup ops.first = Flags.first
           /\ xoredHdrValidityOps[i].second \cup ops.second = Flags.second
  BY <1>1 DEF Recorded
<1>5. v = InsertCurrOpsRec(xoredHdrValidityOps, (f.alt - 1) * L, f.alt * L)
  BY DEF InsertAlternative
<1> HIDE DEF L
<1>6. i \in 1 .. f.n * L
  BY <1>1, <1>3, BlockInVector
<1>7. (f.alt - 1) * L \in Nat /\ f.alt * L \in Nat
  <2>1. f.alt \in Nat /\ f.alt - 1 \in Nat
    BY <1>1, <1>3
  <2> QED BY <1>3, <2>1
<1>8. PICK b \in Nat, e \in Nat : b = (f.alt - 1) * L /\ e = f.alt * L
  BY <1>7
<1>9. /\ v \in Seq(OpsRec) /\ Len(v) = Len(xoredHdrValidityOps)
      /\ i \in b + 1 .. e =>
           /\ v[i].first = xoredHdrValidityOps[i].first \cup currOpsRec.first
           /\ v[i].second = xoredHdrValidityOps[i].second \cup currOpsRec.second
      /\ i \notin b + 1 .. e => v[i] = xoredHdrValidityOps[i]
  <2>1. v = InsertCurrOpsRec(xoredHdrValidityOps, b, e)
    BY <1>5, <1>8
  <2>2. i \in 1 .. Len(xoredHdrValidityOps)
    BY <1>1, <1>6
  <2>3. /\ v \in Seq(OpsRec) /\ Len(v) = Len(xoredHdrValidityOps)
        /\ \A j \in b + 1 .. e : j \in 1 .. Len(xoredHdrValidityOps) =>
             /\ v[j].first = xoredHdrValidityOps[j].first \cup currOpsRec.first
             /\ v[j].second = xoredHdrValidityOps[j].second \cup currOpsRec.second
        /\ \A j \in 1 .. Len(xoredHdrValidityOps) : j \notin b + 1 .. e =>
             v[j] = xoredHdrValidityOps[j]
    BY ONLY <1>2, <2>1, InsertAt
  <2> QED BY <2>2, <2>3
<1>10. v[i].first = Flags.first /\ v[i].second = Flags.second
  <2>1. CASE f.alt = f.take
    <3>1. i \in b + 1 .. e
      BY <1>8, <2>1
    <3> QED BY <1>4, <1>9, <2>1, <3>1
  <2>2. CASE f.alt # f.take
    <3>1. f.alt \in Nat /\ f.take \in Nat
      BY <1>1, <1>3
    <3>2. i \notin b + 1 .. e
      BY <1>3, <1>4, <1>8, <2>2, <3>1, BlocksApart
    <3>3. /\ xoredHdrValidityOps[i].first \cup {} = Flags.first
          /\ xoredHdrValidityOps[i].second \cup {} = Flags.second
      BY <1>4, <2>2 DEF EmptyRec
    <3> QED BY <1>9, <3>2, <3>3
  <2> QED BY <2>1, <2>2
<1> QED BY <1>1, <1>4, <1>6, <1>9, <1>10 DEF L

LEMMA NextAlternativeRecorded ==
  ASSUME TypeOK, RecordsInv, NextAlternative
  PROVE  RecordsInv'
<1>1. /\ ~ended /\ ended' = ended /\ frames # <<>> /\ path' = path /\ currOpsRec' = EmptyRec
  BY DEF NextAlternative
<1>2. PICK f : f = frames[1]
  OBVIOUS
<1>3. /\ Len(frames) = 1 /\ f.on /\ f.take \in 1 .. f.n /\ f.alt \in 1 .. f.n
      /\ f.currSize > 0 /\ Len(xoredHdrValidityOps) = f.n * f.currSize
  BY <1>1, <1>2 DEF RecordsInv
<1>4. frames \in Seq(Frame) /\ f \in Frame
  <2>1. frames \in Seq(Frame) /\ 1 \in DOMAIN frames
    BY <1>1 DEF TypeOK
  <2> QED BY <1>2, <2>1
<1>5. PICK g : /\ frames' = [frames EXCEPT ![1] = g]
               /\ g = [f EXCEPT !.alt = f.alt + 1,
                                !.bestIncr = Best(f, f.bestIncr, maxIncr),
                                !.bestDecr = Best(f, f.bestDecr, maxDecr),
                                !.bestAccum = Best(f, f.bestAccum, accumDecrPktLen)]
  BY <1>2, <1>3 DEF NextAlternative
<1>6. f.alt < f.n /\ xoredHdrValidityOps' = InsertAlternative(f)
  BY <1>2, <1>3 DEF NextAlternative
<1>7. /\ g.take = f.take /\ g.n = f.n /\ g.on = f.on /\ g.currSize = f.currSize
      /\ g.alt = f.alt + 1
  BY <1>4, <1>5 DEF Frame
<1>8. frames' # <<>> /\ frames'[1] = g /\ Len(frames') = 1
  BY <1>1, <1>3, <1>4, <1>5
<1>9. PICK i \in (f.take - 1) * f.currSize + 1 .. f.take * f.currSize :
        /\ xoredHdrValidityOps'[i].first = Flags.first
        /\ xoredHdrValidityOps'[i].second = Flags.second
  BY <1>1, <1>2, <1>6, AlternativeRecorded
<1>10. Len(xoredHdrValidityOps') = Len(xoredHdrValidityOps)
  BY <1>1, <1>2, <1>6, AlternativeRecorded
<1>11. Flags' = Flags
  BY <1>1 DEF Flags
<1>12. /\ xoredHdrValidityOps'[i].first \cup EmptyRec.first = Flags'.first
       /\ xoredHdrValidityOps'[i].second \cup EmptyRec.second = Flags'.second
  BY <1>9, <1>11 DEF EmptyRec
<1>13. (IF g.alt = g.take THEN currOpsRec' ELSE EmptyRec) = EmptyRec
  BY <1>1
<1>14. Recorded((g.take - 1) * g.currSize, g.take * g.currSize,
                IF g.alt = g.take THEN currOpsRec ELSE EmptyRec)'
  BY <1>7, <1>9, <1>12, <1>13 DEF Recorded
<1>15. g.take \in 1 .. g.n /\ g.alt \in 1 .. g.n
  <2>1. f.alt \in Nat /\ f.n \in Nat
    BY <1>4 DEF Frame
  <2> QED BY <1>3, <1>6, <1>7, <2>1
<1>16. OperationsRecorded'
  BY <1>1 DEF OperationsRecorded
<1>17. Len(xoredHdrValidityOps) > 0
  BY DEF RecordsInv
<1> HIDE DEF RecordsInv
<1>18. /\ ~ended' /\ Len(xoredHdrValidityOps') > 0 /\ g.on /\ g.currSize > 0
       /\ Len(xoredHdrValidityOps') = g.n * g.currSize
  BY <1>1, <1>3, <1>7, <1>10, <1>17
<1> QED BY <1>8, <1>14, <1>15, <1>16, <1>18 DEF RecordsInv

LEMMA EndStatementRecorded ==
  ASSUME TypeOK, RecordsInv, EndStatement
  PROVE  RecordsInv'
<1>1. /\ ~ended /\ ended' = ended /\ frames # <<>> /\ path' = path /\ currOpsRec' = EmptyRec
  BY DEF EndStatement
<1>2. PICK f : f = frames[1]
  OBVIOUS
<1>3. /\ Len(frames) = 1 /\ Len(xoredHdrValidityOps) > 0
  BY <1>1, <1>2 DEF RecordsInv
<1>4. frames' = <<>> /\ xoredHdrValidityOps' = InsertAlternative(f)
  BY <1>2, <1>3 DEF EndStatement
<1>5. PICK i \in 1 .. Len(xoredHdrValidityOps') :
        /\ xoredHdrValidityOps'[i].first = Flags.first
        /\ xoredHdrValidityOps'[i].second = Flags.second
  BY <1>1, <1>2, <1>4, AlternativeRecorded
<1>6. Len(xoredHdrValidityOps') = Len(xoredHdrValidityOps)
  BY <1>1, <1>2, <1>4, AlternativeRecorded
<1>7. Flags' = Flags
  BY <1>1 DEF Flags
<1>8. /\ xoredHdrValidityOps'[i].first \cup currOpsRec'.first = Flags'.first
      /\ xoredHdrValidityOps'[i].second \cup currOpsRec'.second = Flags'.second
  BY <1>1, <1>5, <1>7 DEF EmptyRec
<1>9. Recorded(0, Len(xoredHdrValidityOps), currOpsRec)'
  BY <1>8 DEF Recorded
<1>10. OperationsRecorded'
  BY <1>1 DEF OperationsRecorded
<1> QED BY <1>1, <1>3, <1>4, <1>6, <1>9, <1>10 DEF RecordsInv

LEMMA EndControlRecorded ==
  ASSUME Recordable, TypeOK, RecordsInv, EndControl
  PROVE  RecordsInv'
<1>1. /\ ~ended /\ ended' = TRUE /\ frames = <<>> /\ frames' = <<>>
      /\ xoredHdrValidityOps' = xoredHdrValidityOps /\ currOpsRec = EmptyRec
      /\ hdrValidityOps' = EraseEmpty(xoredHdrValidityOps)
      /\ path' = [path EXCEPT !.high = Max2(@, path.incr - path.decr)]
  BY DEF EndControl, Recordable
<1>2. Flags' = Flags
  <2>1. path'.vop = path.vop
    BY <1>1 DEF TypeOK, Path
  <2> QED BY <2>1 DEF Flags
<1>3. PICK i \in 0 + 1 .. Len(xoredHdrValidityOps) :
        /\ xoredHdrValidityOps[i].first \cup currOpsRec.first = Flags.first
        /\ xoredHdrValidityOps[i].second \cup currOpsRec.second = Flags.second
  BY <1>1 DEF RecordsInv, Recorded
<1>4. xoredHdrValidityOps[i] = Flags
  <2>1. i \in DOMAIN xoredHdrValidityOps /\ xoredHdrValidityOps[i] \in OpsRec
    BY DEF TypeOK
  <2>2. xoredHdrValidityOps[i].first = Flags.first /\ xoredHdrValidityOps[i].second = Flags.second
    BY <1>1, <1>3 DEF EmptyRec
  <2>3. Flags \in OpsRec
    BY DEF Flags, OpsRec
  <2> QED BY <2>1, <2>2, <2>3 DEF OpsRec
<1>5. OperationsRecorded'
  <2>1. i \in DOMAIN xoredHdrValidityOps
    BY DEF TypeOK
  <2>2. Flags # EmptyRec => Flags \in EraseEmpty(xoredHdrValidityOps)
    BY <1>4, <2>1 DEF EraseEmpty
  <2> QED BY <1>1, <1>2, <2>2 DEF OperationsRecorded
<1>6. Len(xoredHdrValidityOps) > 0
  BY DEF RecordsInv
<1> QED BY <1>1, <1>5, <1>6 DEF RecordsInv

LEMMA RecordsStep ==
  ASSUME Recordable, TypeOK, RecordsInv, [Next]_vars
  PROVE  RecordsInv'
<1>1. ASSUME UNCHANGED cbiVars PROVE RecordsInv'
  <2>1. Flags' = Flags
    BY <1>1 DEF cbiVars, Flags
  <2> QED BY <1>1, <2>1 DEF RecordsInv, Recorded, OperationsRecorded, cbiVars
<1>2. CASE VisitControl
  <2>1. ASSUME NEW h \in Headers, SetValid(h) PROVE RecordsInv'
    BY <2>1, SetValidRecorded
  <2>2. ASSUME NEW h \in Headers, SetInvalid(h) PROVE RecordsInv'
    BY <2>2, SetInvalidRecorded
  <2>3. ASSUME NEW pkg \in Packages, ApplyPackage(pkg) PROVE RecordsInv'
    BY <2>3, ApplyPackageRecorded
  <2>4. CASE IfStatement
    <3>1. PICK take \in 1 .. 2 : Enter("if", 2, take)
      BY <2>4 DEF IfStatement
    <3>2. ~ended /\ path'.vop = path.vop /\ 2 \in Nat
      BY <2>4 DEF IfStatement, Visiting
    <3> QED BY <3>1, <3>2, EnterRecorded
  <2>5. CASE SwitchStatement
    <3>1. PICK n \in 1 .. MaxAlts : \E take \in 1 .. n : Enter("switch", n, take)
      BY <2>5 DEF SwitchStatement, Recordable
    <3>3. PICK take \in 1 .. n : Enter("switch", n, take)
      BY <3>1
    <3>4. n \in Nat
      BY ConstantsAssumption
    <3>2. ~ended /\ path'.vop = path.vop
      BY <2>5 DEF SwitchStatement, Visiting, RunSwitchTable, Recordable
    <3> QED BY <3>2, <3>3, <3>4, EnterRecorded
  <2>6. CASE ActionList
    <3>1. PICK n \in 1 .. MaxAlts : \E take \in 1 .. n : Enter("table", n, take)
      BY <2>6 DEF ActionList
    <3>3. PICK take \in 1 .. n : Enter("table", n, take)
      BY <3>1
    <3>4. n \in Nat
      BY ConstantsAssumption
    <3>2. ~ended /\ path'.vop = path.vop
      BY <2>6 DEF ActionList, Visiting
    <3> QED BY <3>2, <3>3, <3>4, EnterRecorded
  <2>7. CASE NextAlternative
    BY <2>7, NextAlternativeRecorded
  <2>8. CASE EndStatement
    BY <2>8, EndStatementRecorded
  <2>9. CASE EndControl
    BY <2>9, EndControlRecorded
  <2> QED BY <1>2, <2>1, <2>2, <2>3, <2>4, <2>5, <2>6, <2>7, <2>8, <2>9 DEF VisitControl, CBINext
<1>3. CASE VisitParser \/ EndPackage \/ SizeByteStack \/ UNCHANGED vars
  BY <1>1, <1>3 DEF VisitParser, EndPackage, SizeByteStack, vars
<1> QED BY <1>2, <1>3 DEF Next

\* For the programs of Recordable, whatever the headers, the packages and the lengths of
\* the body and of its statements, the vector that preorder(P4Control) leaves has a
\* record with the operations of every execution that performs some.
THEOREM EveryOperationRecorded ==
  ASSUME Recordable
  PROVE  Spec => []OperationsRecorded
<1>1. Init => TypeOK /\ RecordsInv
  BY TypeInit, RecordsInit
<1>2. TypeOK /\ RecordsInv /\ [Next]_vars => (TypeOK /\ RecordsInv)'
  BY TypeStep, RecordsStep
<1>3. RecordsInv => OperationsRecorded
  BY DEF RecordsInv
<1> QED BY <1>1, <1>2, <1>3, PTL DEF Spec

\* It has it all along: inside a branching statement the vector has a block of records for
\* each alternative, and the execution finds its record in the block of the one it takes.
THEOREM RecordsFollowExecution ==
  ASSUME Recordable
  PROVE  Spec => []RecordsInv
<1>1. Init => TypeOK /\ RecordsInv
  BY TypeInit, RecordsInit
<1>2. TypeOK /\ RecordsInv /\ [Next]_vars => (TypeOK /\ RecordsInv)'
  BY TypeStep, RecordsStep
<1> QED BY <1>1, <1>2, PTL DEF Spec

====
