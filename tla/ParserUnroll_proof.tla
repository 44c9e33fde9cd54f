---- MODULE ParserUnroll_proof ----
(***************************************************************************)
(* What holds of the unrolling of every micro_parser: the levels that      *)
(* CreateXoredHeaderSets peels off exclude one another's headers,          *)
(* parsedHeaders misses none, and the offsets the symbolic interpreter     *)
(* finds are those of the executions.                                      *)
(***************************************************************************)
EXTENDS ParserUnroll, SequenceLemmas

----------------------------------------------------------------------------
(* The extracts of a state, one after the other.                            *)

Values == [offset : Nat, valid : SUBSET Headers, overwritten : BOOLEAN]

LEMMA ExtractType ==
  ASSUME NEW v \in Values, NEW h \in Headers
  PROVE  /\ Extract(v, h) \in Values
         /\ v.offset <= Extract(v, h).offset
         /\ v.overwritten => Extract(v, h).overwritten
<1>1. Width[h] \in Nat
  BY ParserUnrollAssumption
<1>2. CASE v.overwritten
  BY <1>2 DEF Extract, Values
<1>4. CASE ~v.overwritten /\ h \in v.valid
  <2>1. Extract(v, h) = [v EXCEPT !.overwritten = TRUE]
    BY <1>4 DEF Extract
  <2>2. Extract(v, h) = [offset |-> v.offset, valid |-> v.valid, overwritten |-> TRUE]
    BY <2>1 DEF Values
  <2>3. v.offset \in Nat /\ v.valid \in SUBSET Headers
    BY DEF Values
  <2> QED BY <1>4, <2>2, <2>3 DEF Values
<1>3. CASE ~(v.overwritten \/ h \in v.valid)
  <2>1. Extract(v, h) = [v EXCEPT !.offset = @ + Width[h], !.valid = @ \cup {h}]
    BY <1>3 DEF Extract
  <2>2. v.offset + Width[h] \in Nat /\ v.valid \cup {h} \in SUBSET Headers
    BY <1>1 DEF Values
  <2>3. Extract(v, h) = [offset |-> v.offset + Width[h], valid |-> v.valid \cup {h},
                         overwritten |-> v.overwritten]
    BY <2>1 DEF Values
  <2>4. v.offset \in Nat /\ v.overwritten \in BOOLEAN
    BY DEF Values
  <2> QED BY <1>1, <1>3, <2>2, <2>3, <2>4 DEF Values
<1> QED BY <1>2, <1>3, <1>4

\* The recursive function that Extracts defines, for the first n statements.
IsExtracts(info, n, v) ==
  v = [i \in 0 .. n |->
         IF i = 0 THEN [offset |-> info.offset, valid |-> info.valid, overwritten |-> FALSE]
         ELSE Extract(v[i - 1], extracts[info.state][i])]

LEMMA ExtractsExist == ASSUME NEW info, NEW N \in Nat PROVE \E v : IsExtracts(info, N, v)
<1> DEFINE base == [offset |-> info.offset, valid |-> info.valid, overwritten |-> FALSE]
           T == {n \in Nat : \E v : IsExtracts(info, n, v)}
<1>1. 0 \in T
  <2> DEFINE v == [i \in 0 .. 0 |-> base]
  <2>1. IsExtracts(info, 0, v)
    BY DEF IsExtracts
  <2> QED BY <2>1
<1>2. ASSUME NEW n \in Nat, n \in T PROVE n + 1 \in T
  <2>1. PICK v : IsExtracts(info, n, v)
    BY <1>2
  <2> DEFINE Rest(w, i) == Extract(w[i - 1], extracts[info.state][i])
             w == [i \in 0 .. n + 1 |-> IF i = n + 1 THEN Rest(v, n + 1) ELSE v[i]]
  <2>2. ASSUME NEW i \in 0 .. n + 1
        PROVE  w[i] = IF i = 0 THEN base ELSE Rest(w, i)
    <3> HIDE DEF base
    <3>1. CASE i = n + 1
      <4>1. w[i] = Rest(v, n + 1) /\ i # 0 /\ w[i - 1] = v[n]
        BY <3>1
      <4>2. Rest(v, n + 1) = Extract(v[n], extracts[info.state][n + 1])
        OBVIOUS
      <4> QED BY <3>1, <4>1, <4>2
    <3>2. CASE i # n + 1
      <4>1. i \in 0 .. n /\ (i # 0 => i - 1 \in 0 .. n)
        BY <3>2
      <4>2. v[i] = IF i = 0 THEN base ELSE Rest(v, i)
        BY <2>1, <4>1 DEF IsExtracts, base
      <4>3. w[i] = v[i] /\ (i # 0 => w[i - 1] = v[i - 1])
        BY <4>1
      <4> QED BY <4>2, <4>3
    <3> QED BY <3>1, <3>2
  <2>3. IsExtracts(info, n + 1, w)
    <3>1. w = [i \in 0 .. n + 1 |-> w[i]]
      OBVIOUS
    <3> HIDE DEF w
    <3> QED BY <2>2, <3>1 DEF IsExtracts
  <2> QED BY <2>3
<1> HIDE DEF T
<1>3. N \in T
  BY <1>1, <1>2, NatSetInduction
<1> QED BY <1>3 DEF T

\* Extracts is what its definition says.
LEMMA ExtractsDef ==
  ASSUME NEW info, extracts[info.state] \in Seq(Headers)
  PROVE  /\ Extracts(info)[0] = [offset |-> info.offset, valid |-> info.valid,
                                 overwritten |-> FALSE]
         /\ \A i \in DOMAIN extracts[info.state] :
              Extracts(info)[i] = Extract(Extracts(info)[i - 1], extracts[info.state][i])
<1> DEFINE n == Len(extracts[info.state])
           v == Extracts(info)
<1>1. n \in Nat /\ DOMAIN extracts[info.state] = 1 .. n
  OBVIOUS
<1>2. \E g : IsExtracts(info, n, g)
  BY <1>1, ExtractsExist
<1>3. IsExtracts(info, n, v)
  BY <1>2 DEF IsExtracts, Extracts
<1> HIDE DEF n, v
<1>4. v[0] = [offset |-> info.offset, valid |-> info.valid, overwritten |-> FALSE]
  BY <1>1, <1>3 DEF IsExtracts
<1>5. ASSUME NEW i \in 1 .. n PROVE v[i] = Extract(v[i - 1], extracts[info.state][i])
  <2>1. i \in 0 .. n /\ i # 0
    BY <1>1
  <2> QED BY <1>3, <2>1 DEF IsExtracts
<1> QED BY <1>1, <1>4, <1>5 DEF v

LEMMA ExtractsType ==
  ASSUME NEW info, extracts[info.state] \in Seq(Headers), info.offset \in Nat,
         info.valid \in SUBSET Headers, NEW k \in 0 .. Len(extracts[info.state])
  PROVE  Extracts(info)[k] \in Values
<1> DEFINE n == Len(extracts[info.state])
           v == Extracts(info)
           T == {i \in Nat : i <= n => v[i] \in Values}
<1>1. n \in Nat /\ DOMAIN extracts[info.state] = 1 .. n
  OBVIOUS
<1>2. 0 \in T
  <2>1. v[0] = [offset |-> info.offset, valid |-> info.valid, overwritten |-> FALSE]
    BY ExtractsDef
  <2>2. v[0] \in Values
    BY <2>1 DEF Values
  <2> QED BY <2>2
<1>3. ASSUME NEW i \in Nat, i \in T PROVE i + 1 \in T
  <2> SUFFICES ASSUME i + 1 <= n PROVE v[i + 1] \in Values
    OBVIOUS
  <2>1. i + 1 \in 1 .. n /\ i <= n /\ (i + 1) - 1 = i
    BY <1>1
  <2>2. v[i + 1] = Extract(v[(i + 1) - 1], extracts[info.state][i + 1])
    BY <1>1, <2>1, ExtractsDef
  <2>3. extracts[info.state][i + 1] \in Headers
    BY <1>1, <2>1
  <2>4. v[i] \in Values
    BY <1>3, <2>1
  <2> HIDE DEF v
  <2> QED BY <2>1, <2>2, <2>3, <2>4, ExtractType
<1> HIDE DEF T
<1>4. \A i \in Nat : i \in T
  BY <1>2, <1>3, NatSetInduction
<1>5. k \in Nat /\ k <= n
  BY <1>1
<1> QED BY <1>4, <1>5 DEF T

\* No statement moves the offset back, and an overwritten header stays so.
LEMMA ExtractsGrow ==
  ASSUME NEW info, extracts[info.state] \in Seq(Headers), info.offset \in Nat,
         info.valid \in SUBSET Headers, NEW k \in 0 .. Len(extracts[info.state])
  PROVE  /\ After(info) \in Values
         /\ Extracts(info)[k].offset <= After(info).offset
         /\ Extracts(info)[k].overwritten => After(info).overwritten
<1> DEFINE n == Len(extracts[info.state])
           v == Extracts(info)
           T == {i \in Nat : k + i <= n => /\ v[k].offset <= v[k + i].offset
                                           /\ v[k].overwritten => v[k + i].overwritten}
<1>1. n \in Nat /\ DOMAIN extracts[info.state] = 1 .. n /\ k \in Nat /\ k <= n /\ n - k \in Nat
  OBVIOUS
<1>2. \A i \in 0 .. n : v[i] \in Values
  BY ExtractsType
<1>3. \A i \in 1 .. n : v[i] = Extract(v[i - 1], extracts[info.state][i])
  BY <1>1, ExtractsDef
<1>4. extracts[info.state] \in Seq(Headers) /\ v[n] = After(info)
  BY DEF After
<1> HIDE DEF v, n
<1>5. 0 \in T
  BY <1>1, <1>2 DEF Values
<1>6. ASSUME NEW i \in Nat, i \in T PROVE i + 1 \in T
  <2> SUFFICES ASSUME k + (i + 1) <= n
               PROVE  /\ v[k].offset <= v[k + (i + 1)].offset
                      /\ v[k].overwritten => v[k + (i + 1)].overwritten
    OBVIOUS
  <2>1. /\ k + i \in 0 .. n /\ k + (i + 1) \in 1 .. n /\ (k + (i + 1)) - 1 = k + i
        /\ k \in 0 .. n /\ k + i <= n
    BY <1>1
  <2>2. v[k + (i + 1)] = Extract(v[k + i], extracts[info.state][k + (i + 1)])
    BY <1>3, <2>1
  <2>3. extracts[info.state][k + (i + 1)] \in Headers
    BY <1>1, <1>4, <2>1
  <2>4. /\ v[k + i].offset <= v[k + (i + 1)].offset
        /\ v[k + i].overwritten => v[k + (i + 1)].overwritten
    BY <1>2, <2>1, <2>2, <2>3, ExtractType
  <2>5. /\ v[k].offset <= v[k + i].offset
        /\ v[k].overwritten => v[k + i].overwritten
    BY <1>6, <2>1
  <2>6. v[k].offset \in Nat /\ v[k + i].offset \in Nat /\ v[k + (i + 1)].offset \in Nat
    <3>1. v[k] \in Values /\ v[k + i] \in Values /\ v[k + (i + 1)] \in Values
      BY <1>1, <1>2, <2>1
    <3> QED BY <3>1 DEF Values
  <2> QED BY <2>4, <2>5, <2>6
<1> HIDE DEF T
<1>7. \A i \in Nat : i \in T
  BY <1>5, <1>6, NatSetInduction
<1>8. k + (n - k) = n
  BY <1>1
<1>9. v[k].offset <= v[n].offset /\ (v[k].overwritten => v[n].overwritten)
  <2>1. n - k \in T
    BY <1>1, <1>7
  <2>2. k + (n - k) <= n => /\ v[k].offset <= v[k + (n - k)].offset
                            /\ v[k].overwritten => v[k + (n - k)].overwritten
    BY <2>1 DEF T
  <2>3. k + (n - k) <= n
    BY <1>1, <1>8
  <2> QED BY <1>8, <2>2, <2>3
<1>10. v[n] \in Values
  BY <1>1, <1>2
<1> QED BY <1>4, <1>9, <1>10 DEF v

----------------------------------------------------------------------------
(* TypeOK.                                                                  *)

LEMMA InitTypeOK == Init => TypeOK
<1> SUFFICES ASSUME Init PROVE TypeOK
  OBVIOUS
<1>1. next \in [States -> (SUBSET (States \cup Finals)) \ {{}}]
  BY ParserUnrollAssumption DEF Init
<1>2. extracts \in [States -> Seq(Headers)]
  BY ParserUnrollAssumption DEF Init
<1>3. edges \subseteq States \X (States \cup Finals)
  BY <1>1 DEF Init, CallGraph
<1>4. nodes \subseteq States \cup Finals
  BY <1>3 DEF Init, NodesOf
<1>5. exec \in [state : States \cup Finals, pos : Nat \ {0}, offset : Nat,
                valid : SUBSET Headers, overwritten : BOOLEAN]
  BY ParserUnrollAssumption DEF Init
<1>6. toRun \in Seq(StateInfo)
  BY DEF Init
<1> QED BY <1>1, <1>2, <1>3, <1>4, <1>5, <1>6 DEF Init, TypeOK

LEMMA CallGraphType ==
  ASSUME TypeOK
  PROVE  /\ CallGraph \subseteq States \X (States \cup Finals)
         /\ NodesOf(CallGraph) \subseteq States \cup Finals
<1>1. CallGraph \subseteq States \X (States \cup Finals)
  BY DEF TypeOK, CallGraph
<1> QED BY <1>1 DEF NodesOf

LEMMA VisitNodeTypeOK == ASSUME TypeOK, NEW n \in States \cup Finals, VisitNode(n) PROVE TypeOK'
<1>1. HeadersOf(n) \subseteq Headers
  <2>1. CASE n \in States
    <3>1. extracts[n] \in Seq(Headers)
      BY <2>1 DEF TypeOK
    <3> QED BY <2>1, <3>1 DEF HeadersOf, ToSet
  <2> QED BY <2>1 DEF HeadersOf
<1>2. nodes' \subseteq States \cup Finals /\ edges' \subseteq States \X (States \cup Finals)
  BY DEF TypeOK, VisitNode, RemoveEdges
<1>3. zeroDegNodes' \subseteq IF phase' = "visit" THEN nodes' ELSE {}
  BY DEF TypeOK, VisitNode
<1>4. xoredHeaderSet' \subseteq parsedHeaders' /\ xoredHeaderSets' \subseteq SUBSET parsedHeaders'
  BY DEF TypeOK, VisitNode
<1>5. parsedHeaders' \subseteq Headers
  BY <1>1 DEF TypeOK, VisitNode
<1>6. level' \in [States \cup Finals -> Nat]
  BY DEF TypeOK, VisitNode
<1> QED BY <1>2, <1>3, <1>4, <1>5, <1>6 DEF TypeOK, VisitNode, program, unrollVars

\* What evaluateState makes of an info.
LEMMA SuccessorsType ==
  ASSUME TypeOK, NEW info \in StateInfo, info.state \in States
  PROVE  /\ extracts[info.state] \in Seq(Headers)
         /\ After(info) \in Values
         /\ Successors(info, After(info)) \in Seq(StateInfo)
         /\ \A i \in DOMAIN Successors(info, After(info)) :
              \E t \in next[info.state] :
                Successors(info, After(info))[i] =
                  [state |-> t, offset |-> After(info).offset, valid |-> After(info).valid,
                   chain |-> Append(info.chain, Entry(info))]
         /\ \A t \in next[info.state] : \E i \in DOMAIN Successors(info, After(info)) :
              Successors(info, After(info))[i] =
                [state |-> t, offset |-> After(info).offset, valid |-> After(info).valid,
                 chain |-> Append(info.chain, Entry(info))]
<1> DEFINE v == After(info)
           cases == SetToSeq(next[info.state])
           Info(t) == [state |-> t, offset |-> v.offset, valid |-> v.valid,
                       chain |-> Append(info.chain, Entry(info))]
           new == Successors(info, v)
<1>1. extracts[info.state] \in Seq(Headers) /\ info.offset \in Nat /\ info.valid \in SUBSET Headers
  BY DEF TypeOK, StateInfo
<1>2. v \in Values
  <2>1. 0 \in 0 .. Len(extracts[info.state])
    BY <1>1
  <2> QED BY <1>1, <2>1, ExtractsGrow
<1>3. next[info.state] \in SUBSET (States \cup Finals) /\ IsFiniteSet(next[info.state])
  <2>1. IsFiniteSet(States) /\ IsFiniteSet(Finals)
    <3>1. IsFiniteSet({"accept"}) /\ Finals = {"accept"} \cup {"reject"}
      BY FS_Singleton DEF Finals
    <3>2. IsFiniteSet({"accept"} \cup {"reject"})
      BY <3>1, FS_AddElement
    <3> QED BY <3>1, <3>2, ParserUnrollAssumption
  <2>2. IsFiniteSet(States \cup Finals)
    BY <2>1, FS_Union
  <2>3. next[info.state] \in SUBSET (States \cup Finals)
    BY DEF TypeOK
  <2> QED BY <2>2, <2>3, FS_Subset
<1>4. /\ cases \in Seq(next[info.state])
      /\ \A t \in next[info.state] : \E i \in DOMAIN cases : cases[i] = t
  BY <1>3, SetToSeqLists
<1>5. new = [i \in DOMAIN cases |-> Info(cases[i])]
  BY DEF Successors
<1> HIDE DEF v, cases, new
<1>6. ASSUME NEW t \in next[info.state] PROVE Info(t) \in StateInfo
  <2>1. v.offset \in Nat /\ v.valid \in SUBSET Headers
    BY <1>2 DEF Values
  <2>2. Entry(info) \in StateEntry /\ info.chain \in Seq(StateEntry)
    BY DEF Entry, StateEntry, StateInfo
  <2>3. Append(info.chain, Entry(info)) \in Seq(StateEntry)
    BY <2>2
  <2> QED BY <1>3, <2>1, <2>3 DEF StateInfo
<1>7. \A i \in DOMAIN cases : cases[i] \in next[info.state]
  BY <1>4
<1>8. DOMAIN new = DOMAIN cases /\ DOMAIN cases = 1 .. Len(cases) /\ Len(cases) \in Nat
  BY <1>4, <1>5
<1>9. new \in Seq(StateInfo)
  <2>1. new \in [1 .. Len(cases) -> StateInfo]
    BY <1>5, <1>6, <1>7, <1>8
  <2> QED BY <1>8, <2>1
<1>10. \A i \in DOMAIN new : \E t \in next[info.state] : new[i] = Info(t)
  BY <1>5, <1>7, <1>8
<1>11. \A t \in next[info.state] : \E i \in DOMAIN new : new[i] = Info(t)
  BY <1>4, <1>5, <1>8
<1> QED BY <1>1, <1>2, <1>9, <1>10, <1>11 DEF v, new

\* The last info of the worklist, and the others.
LEMMA LastOfWorklist ==
  ASSUME TypeOK, toRun # <<>>
  PROVE  /\ Last(toRun) \in StateInfo /\ Front(toRun) \in Seq(StateInfo)
         /\ Len(toRun) \in DOMAIN toRun /\ Last(toRun) = toRun[Len(toRun)]
         /\ \A i \in DOMAIN toRun : i # Len(toRun) =>
              i \in DOMAIN Front(toRun) /\ Front(toRun)[i] = toRun[i]
         /\ \A i \in DOMAIN Front(toRun) : i \in DOMAIN toRun /\ Front(toRun)[i] = toRun[i]
<1>1. toRun \in Seq(StateInfo) /\ Len(toRun) \in Nat /\ Len(toRun) > 0
  BY DEF TypeOK
<1>2. /\ Front(toRun) \in Seq(StateInfo) /\ DOMAIN Front(toRun) = 1 .. Len(toRun) - 1
      /\ \A i \in 1 .. Len(toRun) - 1 : Front(toRun)[i] = toRun[i]
  BY <1>1 DEF Front
<1> QED BY <1>1, <1>2 DEF Last

LEMMA EvaluateStateTypeOK == ASSUME TypeOK, EvaluateState PROVE TypeOK'
<1> DEFINE info == Last(toRun)
           rest == Front(toRun)
           v == After(info)
           new == IF v.overwritten THEN <<>> ELSE Successors(info, v)
<1>1. info \in StateInfo /\ rest \in Seq(StateInfo)
  BY LastOfWorklist DEF EvaluateState
<1>2. /\ toRun' \in Seq(StateInfo) /\ unrolled' \subseteq StateEntry
      /\ finalOffsets' \subseteq Nat /\ acceptOffsets' \subseteq finalOffsets'
      /\ error' \in BOOLEAN
  <2>1. CASE CheckLoops(info)
    BY <1>1, <2>1 DEF EvaluateState, TypeOK
  <2>2. CASE ~CheckLoops(info) /\ info.state \in Finals
    <3>1. info.offset \in Nat
      BY <1>1 DEF StateInfo
    <3>2. /\ toRun' = rest /\ finalOffsets' = finalOffsets \cup {info.offset}
          /\ acceptOffsets' = IF info.state = "accept"
                              THEN acceptOffsets \cup {info.offset} ELSE acceptOffsets
          /\ UNCHANGED <<unrolled, error>>
      BY <2>2 DEF EvaluateState
    <3> QED BY <1>1, <3>1, <3>2 DEF TypeOK
  <2>3. CASE ~CheckLoops(info) /\ info.state \notin Finals
    <3>1. info.state \in States
      BY <1>1, <2>3 DEF StateInfo
    <3>2. /\ toRun' = rest \o new
          /\ unrolled' = unrolled \cup {Entry(new[i]) : i \in DOMAIN new}
          /\ \E c \in BOOLEAN : error' = (error \/ (v.overwritten /\ ~c))
          /\ UNCHANGED <<finalOffsets, acceptOffsets>>
      BY <2>3 DEF EvaluateState
    <3>3. new \in Seq(StateInfo)
      BY <1>1, <3>1, SuccessorsType
    <3>4. v.overwritten \in BOOLEAN
      BY <1>1, <3>1, SuccessorsType DEF Values
    <3> HIDE DEF new, v
    <3>5. \A i \in DOMAIN new : Entry(new[i]) \in StateEntry
      <4>1. \A i \in DOMAIN new : new[i] \in StateInfo
        BY <3>3
      <4> QED BY <4>1 DEF Entry, StateEntry, StateInfo
    <3>6. rest \o new \in Seq(StateInfo)
      BY <1>1, <3>3
    <3>7. error' \in BOOLEAN
      BY <3>2, <3>4 DEF TypeOK
    <3> QED BY <3>2, <3>5, <3>6, <3>7 DEF TypeOK
  <2> QED BY <2>1, <2>2, <2>3
<1>3. UNCHANGED <<program, phase, xoredVars, exec>>
  BY DEF EvaluateState
<1> QED BY <1>2, <1>3 DEF TypeOK, program, xoredVars

LEMMA ExecType ==
  ASSUME TypeOK, ExecExtract \/ ExecSelect
  PROVE  exec' \in [state : States \cup Finals, pos : Nat \ {0}, offset : Nat,
                    valid : SUBSET Headers, overwritten : BOOLEAN]
<1>1. exec \in [state : States \cup Finals, pos : Nat \ {0}, offset : Nat,
                valid : SUBSET Headers, overwritten : BOOLEAN]
  BY DEF TypeOK
<1>2. CASE ExecExtract
  <2> DEFINE h == extracts[exec.state][exec.pos]
  <2>1. exec.state \in States /\ extracts[exec.state] \in Seq(Headers)
    BY <1>2 DEF ExecExtract, TypeOK
  <2>2. exec.pos \in DOMAIN extracts[exec.state]
    BY <1>1, <1>2, <2>1 DEF ExecExtract
  <2>3. h \in Headers /\ Width[h] \in Nat
    BY <2>1, <2>2, ParserUnrollAssumption
  <2>4. /\ exec.pos + 1 \in Nat \ {0} /\ exec.offset + Width[h] \in Nat
        /\ exec.valid \cup {h} \in SUBSET Headers
    BY <1>1, <2>3
  <2>5. CASE h \in exec.valid
    <3>1. exec' = [exec EXCEPT !.state = "reject", !.overwritten = TRUE]
      BY <1>2, <2>5 DEF ExecExtract
    <3> QED BY <1>1, <3>1 DEF Finals
  <2>6. CASE h \notin exec.valid
    <3>1. exec' = [exec EXCEPT !.pos = @ + 1, !.offset = @ + Width[h], !.valid = @ \cup {h}]
      BY <1>2, <2>6 DEF ExecExtract
    <3> HIDE DEF h
    <3> QED BY <1>1, <2>4, <3>1
  <2> QED BY <2>5, <2>6
<1>3. CASE ExecSelect
  <2>1. PICK t \in next[exec.state] \cup {"reject"} : exec' = [exec EXCEPT !.state = t, !.pos = 1]
    BY <1>3 DEF ExecSelect
  <2>2. t \in States \cup Finals /\ 1 \in Nat \ {0}
    <3>1. next[exec.state] \subseteq States \cup Finals
      BY <1>3 DEF ExecSelect, TypeOK
    <3> QED BY <2>1, <3>1 DEF Finals
  <2> QED BY <1>1, <2>1, <2>2
<1> QED BY <1>2, <1>3

LEMMA NextTypeOK == ASSUME TypeOK, [Next]_vars PROVE TypeOK'
<1>1. CASE StartLevel
  <2>1. zeroDegNodes' \subseteq nodes /\ round' \in Nat
    BY <1>1 DEF StartLevel, NodesWithoutIncomingEdge, TypeOK
  <2> QED BY <1>1, <2>1 DEF StartLevel, TypeOK, program, unrollVars
<1>2. ASSUME NEW n \in States \cup Finals, VisitNode(n) PROVE TypeOK'
  BY <1>2, VisitNodeTypeOK
<1>3. CASE EndLevel
  <2>1. xoredHeaderSets' \subseteq SUBSET parsedHeaders /\ zeroDegNodes' = {}
    BY <1>3 DEF EndLevel, TypeOK
  <2> QED BY <1>3, <2>1 DEF EndLevel, TypeOK, program, unrollVars
<1>4. CASE EndXoredHeaderSets
  <2>1. StartInfo \in StateInfo /\ Entry(StartInfo) \in StateEntry
    BY ParserUnrollAssumption DEF StartInfo, StateInfo, Entry, StateEntry
  <2>2. toRun' \in Seq(StateInfo) /\ unrolled' \subseteq StateEntry
    BY <1>4, <2>1 DEF EndXoredHeaderSets
  <2>3. zeroDegNodes' = {}
    BY <1>4 DEF EndXoredHeaderSets, TypeOK
  <2> QED BY <1>4, <2>2, <2>3, CallGraphType DEF EndXoredHeaderSets, TypeOK, program
<1>5. CASE EvaluateState
  BY <1>5, EvaluateStateTypeOK
<1>6. CASE EndUnroll
  BY <1>6 DEF EndUnroll, TypeOK, program, xoredVars, unrollVars
<1>7. CASE ExecExtract \/ ExecSelect
  <2>1. UNCHANGED <<program, phase, xoredVars, unrollVars>>
    BY <1>7 DEF ExecExtract, ExecSelect
  <2> QED BY <1>7, <2>1, ExecType DEF TypeOK, program, xoredVars, unrollVars
<1>8. CASE UNCHANGED vars
  BY <1>8 DEF vars, TypeOK, program, xoredVars, unrollVars
<1> QED BY <1>1, <1>2, <1>3, <1>4, <1>5, <1>6, <1>7, <1>8 DEF Next, Pass

\* Whatever the parser, the graph, the worklist and the execution stay well formed: the
\* states evaluated are those of the parser, at offsets that are natural numbers.
THEOREM UnrollTypeCorrect == Spec => []TypeOK
<1>1. Init => TypeOK
  BY InitTypeOK
<1>2. TypeOK /\ [Next]_vars => TypeOK'
  BY NextTypeOK
<1> QED BY <1>1, <1>2, PTL DEF Spec

----------------------------------------------------------------------------
(* LevelInv: a state leaves the graph after the states that lead to it.      *)

LEMMA InitLevelInv == Init => LevelInv
<1> SUFFICES ASSUME Init PROVE LevelInv
  OBVIOUS
<1>1. \A s \in States : \A t \in next[s] : <<s, t>> \in edges
  BY DEF Init, CallGraph
<1>2. ASSUME NEW s \in States, NEW t \in next[s] PROVE t \in nodes
  <2>1. <<s, t>> \in edges /\ <<s, t>>[2] = t
    BY <1>1
  <2>2. nodes = {e[1] : e \in edges} \cup {e[2] : e \in edges}
    BY DEF Init, NodesOf
  <2> QED BY <2>1, <2>2
<1> QED BY <1>1, <1>2 DEF Init, LevelInv, Unpeeled

\* Steps that leave the program, the levels and what is unpeeled alone.
LEMMA OtherLevelInv ==
  ASSUME LevelInv, UNCHANGED <<program, zeroDegNodes, round, level>>,
         \/ phase' = phase /\ nodes' = nodes /\ edges' = edges
         \/ phase = "visit" /\ phase' = "while" /\ nodes' = nodes /\ edges' = edges
         \/ phase = "while" /\ nodes = {} /\ phase' = "unroll"
         \/ phase = "unroll" /\ phase' = "exec" /\ nodes' = nodes
  PROVE  LevelInv' /\ Unpeeled' = Unpeeled
<1>1. /\ next' = next /\ zeroDegNodes' = zeroDegNodes /\ round' = round /\ level' = level
      /\ Unpeeled' = Unpeeled
      /\ phase' = "visit" => phase = "visit"
      /\ edges' = edges \/ Unpeeled = {}
  BY DEF program, Unpeeled
<1> QED BY <1>1 DEF LevelInv

LEMMA StartLevelPeels == ASSUME TypeOK, LevelInv, StartLevel PROVE LevelInv'
<1> USE DEF Unpeeled
<1>1. ASSUME NEW n \in zeroDegNodes', NEW s \in States, n \in next[s]
      PROVE  s \notin nodes /\ level[s] < round'
  <2>1. n \in nodes /\ \A e \in edges : e[2] # n
    BY DEF StartLevel, NodesWithoutIncomingEdge
  <2>2. <<s, n>> \notin edges
    BY <2>1
  <2>3. s \notin nodes
    BY <1>1, <2>1, <2>2 DEF LevelInv, StartLevel
  <2>4. round' = round + 1
    BY DEF StartLevel
  <2>5. level[s] \in Nat /\ level[s] <= round /\ round \in Nat
    BY DEF LevelInv, TypeOK
  <2> QED BY <2>3, <2>4, <2>5
<1>2. \A n \in States \cup Finals : level'[n] <= round'
  <2>1. /\ level' = level /\ round' \in {round, round + 1} /\ round \in Nat
        /\ level \in [States \cup Finals -> Nat]
    BY DEF StartLevel, TypeOK
  <2> QED BY <2>1 DEF LevelInv
<1>3. zeroDegNodes' \subseteq nodes'
  BY DEF StartLevel, NodesWithoutIncomingEdge
<1> QED BY <1>1, <1>2, <1>3 DEF LevelInv, StartLevel, program

LEMMA VisitNodePeels ==
  ASSUME TypeOK, LevelInv, NEW n \in States \cup Finals, VisitNode(n)
  PROVE  LevelInv'
<1> USE DEF Unpeeled
<1>1. /\ n \in zeroDegNodes /\ n \in nodes /\ phase = "visit" /\ phase' = "visit"
      /\ nodes' = nodes \ {n} /\ round' = round /\ next' = next
      /\ zeroDegNodes' = zeroDegNodes \ {n}
  BY DEF VisitNode, LevelInv, program
<1>2. level'[n] = round /\ \A s \in States \cup Finals : s # n => level'[s] = level[s]
  BY DEF VisitNode, TypeOK
<1>3. ASSUME NEW s \in States \cup Finals PROVE level'[s] <= round'
  <2>1. round \in Nat /\ level[s] <= round
    BY DEF LevelInv, TypeOK
  <2> QED BY <1>1, <1>2, <2>1
<1>4. ASSUME NEW s \in States, NEW t \in next[s]
      PROVE  /\ s \in nodes' /\ t \in nodes' => <<s, t>> \in edges'
             /\ t \notin nodes' => s \notin nodes' /\ level'[s] < level'[t]
  <2>1. t \in States \cup Finals
    BY DEF TypeOK
  <2>2. s \in nodes' /\ t \in nodes' => <<s, t>> \in edges'
    BY <1>1 DEF VisitNode, RemoveEdges, LevelInv
  <2>3. CASE t = n
    <3>1. s \notin nodes /\ level[s] < round
      BY <1>1, <2>3 DEF LevelInv
    <3> QED BY <1>1, <1>2, <2>2, <2>3, <3>1
  <2>4. CASE t # n
    <3>1. t \notin nodes => s \notin nodes /\ level[s] < level[t]
      BY <1>1 DEF LevelInv
    <3> QED BY <1>1, <1>2, <2>1, <2>2, <2>4, <3>1
  <2> QED BY <2>3, <2>4
<1>5. ASSUME NEW m \in zeroDegNodes', NEW s \in States, m \in next[s]
      PROVE  s \notin nodes' /\ level'[s] < round'
  <2>1. s \notin nodes /\ level[s] < round
    BY <1>1, <1>5 DEF LevelInv
  <2> QED BY <1>1, <1>2, <2>1
<1>6. zeroDegNodes' \subseteq nodes'
  BY <1>1 DEF LevelInv
<1> QED BY <1>1, <1>3, <1>4, <1>5, <1>6 DEF LevelInv

LEMMA NextLevelInv == ASSUME TypeOK, LevelInv, [Next]_vars PROVE LevelInv'
<1>1. CASE StartLevel
  BY <1>1, StartLevelPeels
<1>2. ASSUME NEW n \in States \cup Finals, VisitNode(n) PROVE LevelInv'
  BY <1>2, VisitNodePeels
<1>3. CASE EndLevel
  BY <1>3, OtherLevelInv DEF EndLevel
<1>4. CASE EndXoredHeaderSets
  BY <1>4, OtherLevelInv DEF EndXoredHeaderSets
<1>5. CASE EvaluateState
  BY <1>5, OtherLevelInv DEF EvaluateState, xoredVars
<1>6. CASE EndUnroll
  BY <1>6, OtherLevelInv DEF EndUnroll, xoredVars
<1>7. CASE ExecExtract \/ ExecSelect
  BY <1>7, OtherLevelInv DEF ExecExtract, ExecSelect, xoredVars
<1>8. CASE UNCHANGED vars
  BY <1>8, OtherLevelInv DEF vars, xoredVars
<1> QED BY <1>1, <1>2, <1>3, <1>4, <1>5, <1>6, <1>7, <1>8 DEF Next, Pass

----------------------------------------------------------------------------
(* PathInv, in any parser.                                                   *)

\* A state that has left the graph stays away, in its level.
LEMMA PeeledStays ==
  ASSUME TypeOK, LevelInv, [Next]_vars, NEW h, NEW l, PeeledAt(h, l)
  PROVE  PeeledAt(h, l)'
<1>1. PICK s \in States : s \notin Unpeeled /\ h \in HeadersOf(s) /\ level[s] = l
  BY DEF PeeledAt
<1>2. extracts' = extracts
  BY DEF Next, Pass, StartLevel, VisitNode, EndLevel, EndXoredHeaderSets, EvaluateState,
         EndUnroll, ExecExtract, ExecSelect, program, vars
<1>3. h \in HeadersOf(s)'
  BY <1>1, <1>2 DEF HeadersOf
<1>4. ASSUME NEW n \in States \cup Finals, VisitNode(n)
      PROVE  s \notin Unpeeled' /\ level'[s] = level[s]
  <2>1. s # n /\ phase' = "visit" /\ nodes' = nodes \ {n} /\ s \notin nodes
    BY <1>1, <1>4 DEF VisitNode, LevelInv, Unpeeled
  <2>2. level' = [level EXCEPT ![n] = round]
    BY <1>4 DEF VisitNode
  <2> QED BY <1>1, <2>1, <2>2 DEF TypeOK, Unpeeled
<1>5. ASSUME ~\E n \in States \cup Finals : VisitNode(n)
      PROVE  s \notin Unpeeled' /\ level'[s] = level[s]
  <2>1. level' = level
    BY <1>5 DEF Next, Pass, StartLevel, EndLevel, EndXoredHeaderSets, EvaluateState,
                EndUnroll, ExecExtract, ExecSelect, xoredVars, vars
  <2>2. s \notin Unpeeled'
    BY <1>1, <1>5 DEF Next, Pass, StartLevel, EndLevel, EndXoredHeaderSets, EvaluateState,
                      EndUnroll, ExecExtract, ExecSelect, xoredVars, vars, Unpeeled
  <2> QED BY <2>1, <2>2
<1>6. s \notin Unpeeled' /\ level'[s] = l
  BY <1>1, <1>4, <1>5
<1> QED BY <1>3, <1>6 DEF PeeledAt

\* The set of a level is made of the headers of its states.
LEMMA SetsOfLevels ==
  ASSUME TypeOK, PathInv, [Next]_vars
  PROVE  /\ phase' = "visit" => \A h \in xoredHeaderSet' : PeeledAt(h, round)'
         /\ \A S \in xoredHeaderSets' : \E l \in 0 .. round' : \A h \in S : PeeledAt(h, l)'
<1>1. \A h, l : PeeledAt(h, l) => PeeledAt(h, l)'
  BY PeeledStays DEF PathInv
<1>2. /\ phase = "visit" => \A h \in xoredHeaderSet : PeeledAt(h, round)
      /\ \A S \in xoredHeaderSets : \E l \in 0 .. round : \A h \in S : PeeledAt(h, l)
      /\ round \in Nat
  BY DEF PathInv, TypeOK
<1>3. round' \in Nat /\ round <= round'
  <2>1. CASE StartLevel
    BY <1>2, <2>1 DEF StartLevel
  <2>2. CASE ~StartLevel
    <3>1. round' = round
      BY <2>2 DEF Next, Pass, VisitNode, EndLevel, EndXoredHeaderSets, EvaluateState,
                  EndUnroll, ExecExtract, ExecSelect, xoredVars, vars
    <3> QED BY <1>2, <3>1
  <2> QED BY <2>1, <2>2
<1>4. ASSUME phase' = "visit", NEW h \in xoredHeaderSet' PROVE PeeledAt(h, round)'
  <2>1. CASE StartLevel
    BY <1>4, <2>1 DEF StartLevel
  <2>2. ASSUME NEW n \in States \cup Finals, VisitNode(n) PROVE PeeledAt(h, round)'
    <3>1. /\ phase = "visit" /\ round' = round /\ nodes' = nodes \ {n}
          /\ extracts' = extracts /\ xoredHeaderSet' = xoredHeaderSet \cup HeadersOf(n)
          /\ level' = [level EXCEPT ![n] = round]
      BY <2>2 DEF VisitNode, program
    <3>2. CASE h \in xoredHeaderSet
      <4>1. PeeledAt(h, round)
        BY <1>2, <3>1, <3>2
      <4>2. ASSUME NEW l, l = round, PeeledAt(h, l)' PROVE PeeledAt(h, round)'
        BY <3>1, <4>2 DEF PeeledAt
      <4> QED BY <1>1, <4>1, <4>2
    <3>3. CASE h \in HeadersOf(n)
      <4>1. n \in States
        BY <3>3 DEF HeadersOf
      <4>2. n \notin Unpeeled' /\ level'[n] = round' /\ h \in HeadersOf(n)'
        BY <1>4, <3>1, <3>3 DEF Unpeeled, TypeOK, HeadersOf
      <4> QED BY <4>1, <4>2 DEF PeeledAt
    <3> QED BY <1>4, <3>1, <3>2, <3>3
  <2>3. CASE ~(StartLevel \/ \E n \in States \cup Finals : VisitNode(n))
    <3>1. phase = "visit" /\ round' = round /\ xoredHeaderSet' = xoredHeaderSet
      BY <1>4, <2>3 DEF Next, Pass, EndLevel, EndXoredHeaderSets, EvaluateState, EndUnroll,
                        ExecExtract, ExecSelect, xoredVars, vars
    <3>2. PeeledAt(h, round)
      BY <1>2, <1>4, <3>1
    <3>3. ASSUME NEW l, l = round, PeeledAt(h, l)' PROVE PeeledAt(h, round)'
      BY <3>1, <3>3 DEF PeeledAt
    <3> QED BY <1>1, <3>2, <3>3
  <2> QED BY <2>1, <2>2, <2>3
<1>5. ASSUME NEW S \in xoredHeaderSets'
      PROVE  \E l \in 0 .. round' : \A h \in S : PeeledAt(h, l)'
  <2>1. CASE S \in xoredHeaderSets
    <3>1. PICK l \in 0 .. round : \A h \in S : PeeledAt(h, l)
      BY <1>2, <2>1
    <3>2. l \in 0 .. round'
      BY <1>2, <1>3
    <3> QED BY <1>1, <3>1, <3>2
  <2>2. CASE S \notin xoredHeaderSets
    <3>1. EndLevel
      BY <1>5, <2>2 DEF Next, Pass, StartLevel, VisitNode, EndXoredHeaderSets, EvaluateState,
                        EndUnroll, ExecExtract, ExecSelect, xoredVars, vars
    <3>2. phase = "visit" /\ S = xoredHeaderSet
      BY <1>5, <2>2, <3>1 DEF EndLevel
    <3>3. \A h \in S : PeeledAt(h, round)
      BY <1>2, <3>2
    <3>4. round \in 0 .. round'
      BY <1>2, <1>3
    <3> QED BY <1>1, <3>3, <3>4
  <2> QED BY <2>1, <2>2
<1> QED BY <1>4, <1>5

\* An execution carries the headers of the states it has come through.
LEMMA ExecFollowsLevels ==
  ASSUME TypeOK, PathInv, ExecExtract \/ ExecSelect, exec'.state \in States,
         NEW h \in exec'.valid
  PROVE  \E s \in States :
           h \in HeadersOf(s) /\ (level[s] < level[exec'.state] \/ s = exec'.state)
<1> DEFINE cur == exec.state
<1>1. /\ phase = "exec" /\ cur \in States /\ exec.pos \in Nat \ {0}
      /\ extracts[cur] \in Seq(Headers)
  BY DEF ExecExtract, ExecSelect, TypeOK
<1>2. \A g \in exec.valid : \E s \in States :
        g \in HeadersOf(s) /\ (level[s] < level[cur] \/ s = cur)
  BY <1>1 DEF PathInv
<1>3. CASE ExecExtract
  <2> DEFINE new == extracts[cur][exec.pos]
  <2>1. new \in HeadersOf(cur)
    BY <1>1, <1>3 DEF ExecExtract, HeadersOf, ToSet
  <2>2. "reject" \notin States
    BY ParserUnrollAssumption DEF Finals
  <2>3. new \notin exec.valid
    BY <1>3, <2>2 DEF ExecExtract, TypeOK
  <2>4. exec' = [exec EXCEPT !.pos = @ + 1, !.offset = @ + Width[new], !.valid = @ \cup {new}]
    BY <1>3, <2>3 DEF ExecExtract
  <2>5. exec'.valid = exec.valid \cup {new} /\ exec'.state = cur
    BY <2>4 DEF TypeOK
  <2> QED BY <1>1, <1>2, <2>1, <2>5
<1>4. CASE ExecSelect
  <2>1. PICK t \in next[cur] \cup {"reject"} : exec' = [exec EXCEPT !.state = t, !.pos = 1]
    BY <1>4 DEF ExecSelect
  <2>2. exec'.valid = exec.valid /\ exec'.state = t
    BY <2>1 DEF TypeOK
  <2>3. t \in States /\ t \in next[cur]
    BY <2>1, <2>2, ParserUnrollAssumption DEF Finals
  <2>4. level[cur] < level[t]
    BY <1>1, <2>3 DEF PathInv, LevelInv, Unpeeled
  <2>5. PICK s \in States : h \in HeadersOf(s) /\ (level[s] < level[cur] \/ s = cur)
    BY <1>2, <2>2
  <2>6. level[s] \in Nat /\ level[t] \in Nat /\ level[cur] \in Nat
    BY <1>1, <2>3 DEF TypeOK
  <2>7. level[s] < level[t]
    BY <2>4, <2>5, <2>6
  <2> QED BY <2>2, <2>5, <2>7
<1> QED BY <1>3, <1>4

LEMMA NextPathInv == ASSUME TypeOK, PathInv, [Next]_vars PROVE PathInv'
<1>1. LevelInv'
  BY NextLevelInv DEF PathInv
<1>2. /\ phase' = "visit" => \A h \in xoredHeaderSet' : PeeledAt(h, round)'
      /\ \A S \in xoredHeaderSets' : \E l \in 0 .. round' : \A h \in S : PeeledAt(h, l)'
  BY SetsOfLevels
<1>3. CASE ExecExtract \/ ExecSelect
  <2>1. /\ phase = "exec" /\ phase' = "exec" /\ level' = level
        /\ \A s : HeadersOf(s)' = HeadersOf(s)
    BY <1>3 DEF ExecExtract, ExecSelect, xoredVars, program, HeadersOf
  <2>2. ASSUME exec'.state \in States, NEW h \in exec'.valid
        PROVE  \E s \in States : h \in HeadersOf(s)'
                                  /\ (level'[s] < level'[exec'.state] \/ s = exec'.state)
    <3>1. \E s \in States :
            h \in HeadersOf(s) /\ (level[s] < level[exec'.state] \/ s = exec'.state)
      BY <1>3, <2>2, ExecFollowsLevels
    <3> QED BY <2>1, <3>1
  <2> QED BY <1>1, <1>2, <2>1, <2>2 DEF PathInv
<1>4. CASE ~(ExecExtract \/ ExecSelect)
  <2>1. /\ exec' = exec
        /\ phase' # "exec" => phase # "exec"
        /\ \A s : HeadersOf(s)' = HeadersOf(s)
    BY <1>4 DEF Next, Pass, StartLevel, VisitNode, EndLevel, EndXoredHeaderSets,
                EvaluateState, EndUnroll, xoredVars, vars, program, HeadersOf
  <2>2. phase = "exec" => level' = level
    BY <1>4 DEF Next, Pass, StartLevel, VisitNode, EndLevel, EndXoredHeaderSets,
                EvaluateState, EndUnroll, xoredVars, vars
  <2>3. phase # "exec" => exec.valid = {}
    BY DEF PathInv
  <2>4. exec.state \in States =>
          \A h \in exec.valid : \E s \in States :
            h \in HeadersOf(s) /\ (level[s] < level[exec.state] \/ s = exec.state)
    BY DEF PathInv
  <2>5. exec'.state \in States =>
          \A h \in exec'.valid : \E s \in States :
            h \in HeadersOf(s)' /\ (level'[s] < level'[exec'.state] \/ s = exec'.state)
    BY <2>1, <2>2, <2>3, <2>4
  <2>6. phase' # "exec" => exec'.valid = {}
    BY <2>1, <2>3
  <2> QED BY <1>1, <1>2, <2>5, <2>6 DEF PathInv
<1> QED BY <1>3, <1>4

----------------------------------------------------------------------------
(* ExclusiveLevels, in a parser in which a state extracts at most one header *)
(* and a header is extracted in one state.                                   *)

\* The headers of two states differ, and a state has at most one of them.
LEMMA OneHeader ==
  ASSUME OneHeaderPerState, TypeOK, NEW s \in States, NEW t \in States,
         NEW h \in HeadersOf(s)
  PROVE  /\ h \in Headers
         /\ h \in HeadersOf(t) => s = t
         /\ \A g \in HeadersOf(s) : g = h
<1>1. extracts[s] \in Seq(Headers) /\ extracts[t] \in Seq(Headers)
  BY DEF TypeOK
<1>2. PICK i \in DOMAIN extracts[s] : h = extracts[s][i]
  BY DEF HeadersOf, ToSet
<1>3. /\ Len(extracts[s]) <= 1
      /\ \A a \in DOMAIN extracts[s], b \in DOMAIN extracts[t] :
           extracts[s][a] = extracts[t][b] => s = t
  BY DEF OneHeaderPerState
<1>4. h \in Headers
  BY <1>1, <1>2
<1>5. h \in HeadersOf(t) => s = t
  BY <1>2, <1>3 DEF HeadersOf, ToSet
<1>6. ASSUME NEW g \in HeadersOf(s) PROVE g = h
  <2>1. PICK j \in DOMAIN extracts[s] : g = extracts[s][j]
    BY DEF HeadersOf, ToSet
  <2>2. i = 1 /\ j = 1
    BY <1>1, <1>2, <1>3, <2>1
  <2> QED BY <1>2, <2>1, <2>2
<1> QED BY <1>4, <1>5, <1>6

\* Steps that leave the program, the levels, the sets and the execution alone.
LEMMA OtherXInv ==
  ASSUME XInv, UNCHANGED <<program, xoredHeaderSet, xoredHeaderSets, round, level, exec>>,
         Unpeeled' = Unpeeled, LevelInv',
         phase' = "visit" => phase = "visit", phase' # "exec" => phase # "exec"
  PROVE  XInv'
<1>1. /\ next' = next /\ extracts' = extracts /\ xoredHeaderSet' = xoredHeaderSet
      /\ xoredHeaderSets' = xoredHeaderSets /\ round' = round /\ level' = level
      /\ exec' = exec
  BY DEF program
<1>2. SetsInv'
  BY <1>1 DEF XInv, SetsInv, HeadersOf
<1>3. ExecInv'
  BY <1>1 DEF XInv, ExecInv, HeadersOf
<1> QED BY <1>2, <1>3 DEF XInv

LEMMA StartLevelXInv == ASSUME XInv, StartLevel PROVE SetsInv' /\ ExecInv'
<1> USE DEF XInv, Unpeeled
<1>1. SetsInv'
  BY DEF SetsInv, StartLevel, HeadersOf, program
<1>2. ExecInv'
  BY DEF ExecInv, StartLevel, HeadersOf, program
<1> QED BY <1>1, <1>2

LEMMA VisitNodeXInv ==
  ASSUME TypeOK, XInv, OneHeaderPerState, NEW n \in States \cup Finals, VisitNode(n)
  PROVE  SetsInv' /\ ExecInv'
<1> USE DEF XInv, Unpeeled
<1>1. /\ n \in zeroDegNodes /\ n \in nodes /\ phase = "visit" /\ phase' = "visit"
      /\ nodes' = nodes \ {n} /\ round' = round /\ next' = next /\ extracts' = extracts
  BY DEF VisitNode, LevelInv, program
<1>2. level'[n] = round /\ \A s \in States \cup Finals : s # n => level'[s] = level[s]
  BY DEF VisitNode, TypeOK
<1>3. \A s : HeadersOf(s)' = HeadersOf(s)
  BY <1>1 DEF HeadersOf
<1>4. ASSUME NEW s \in States, NEW h \in HeadersOf(s), h \in xoredHeaderSet'
      PROVE  s \notin nodes' /\ level'[s] = round'
  <2>1. CASE h \in xoredHeaderSet
    <3>1. s \notin nodes /\ level[s] = round
      BY <1>1, <2>1 DEF SetsInv
    <3> QED BY <1>1, <1>2, <3>1
  <2>2. CASE h \in HeadersOf(n)
    <3>1. n \in States
      BY <2>2 DEF HeadersOf
    <3>2. n = s
      BY <2>2, <3>1, OneHeader
    <3> QED BY <1>1, <1>2, <3>2
  <2> QED BY <1>4, <2>1, <2>2 DEF VisitNode
<1>5. ASSUME NEW S \in xoredHeaderSets', NEW s \in States, NEW t \in States,
             NEW g \in S \cap HeadersOf(s), NEW h \in S \cap HeadersOf(t)
      PROVE  s \notin nodes' /\ t \notin nodes' /\ level'[s] = level'[t]
  <2>1. s \notin nodes /\ t \notin nodes /\ level[s] = level[t]
    BY <1>1 DEF SetsInv, VisitNode
  <2> QED BY <1>1, <1>2, <2>1
<1>6. SetsInv'
  BY <1>1, <1>3, <1>4, <1>5 DEF SetsInv
<1>7. ExecInv'
  BY <1>1 DEF ExecInv, VisitNode, HeadersOf
<1> QED BY <1>6, <1>7

LEMMA EndLevelXInv == ASSUME XInv, EndLevel PROVE SetsInv' /\ ExecInv'
<1> USE DEF XInv, Unpeeled
<1>1. /\ phase = "visit" /\ phase' = "while"
      /\ UNCHANGED <<next, extracts, nodes, edges, round, level, exec>>
      /\ xoredHeaderSets' = xoredHeaderSets \cup {xoredHeaderSet}
  BY DEF EndLevel, program
<1>2. \A s : HeadersOf(s)' = HeadersOf(s)
  BY <1>1 DEF HeadersOf
<1>3. ASSUME NEW S \in xoredHeaderSets', NEW s \in States, NEW t \in States,
             NEW g \in S \cap HeadersOf(s), NEW h \in S \cap HeadersOf(t)
      PROVE  s \notin nodes /\ t \notin nodes /\ level[s] = level[t]
  <2>1. CASE S \in xoredHeaderSets
    BY <1>1, <2>1 DEF SetsInv
  <2>2. CASE S = xoredHeaderSet
    <3>1. s \notin nodes /\ level[s] = round
      BY <1>1, <2>2 DEF SetsInv
    <3>2. t \notin nodes /\ level[t] = round
      BY <1>1, <2>2 DEF SetsInv
    <3> QED BY <3>1, <3>2
  <2> QED BY <1>1, <2>1, <2>2
<1>4. SetsInv'
  BY <1>1, <1>2, <1>3 DEF SetsInv
<1>5. ExecInv'
  BY <1>1 DEF ExecInv, HeadersOf
<1> QED BY <1>4, <1>5

LEMMA ExecExtractXInv == ASSUME TypeOK, XInv, OneHeaderPerState, ExecExtract PROVE ExecInv'
<1> USE DEF XInv, Unpeeled
<1>1. /\ phase = "exec" /\ exec.state \in States /\ exec.pos \in Nat \ {0}
      /\ UNCHANGED <<next, extracts, phase, nodes, level>>
  BY DEF ExecExtract, program, xoredVars, TypeOK
<1> DEFINE cur == exec.state
           new == extracts[cur][exec.pos]
<1>2. \A s : HeadersOf(s)' = HeadersOf(s)
  BY <1>1 DEF HeadersOf
<1>3. CASE new \in exec.valid
  <2>1. exec' = [exec EXCEPT !.state = "reject", !.overwritten = TRUE]
    BY <1>3 DEF ExecExtract
  <2>2. exec'.valid = exec.valid /\ exec'.state = "reject" /\ "reject" \notin States
    BY <2>1, ParserUnrollAssumption DEF TypeOK, Finals
  <2> QED BY <1>1, <1>2, <2>2 DEF ExecInv
<1>4. CASE new \notin exec.valid
  <2>1. exec' = [exec EXCEPT !.pos = @ + 1, !.offset = @ + Width[new],
                             !.valid = @ \cup {new}]
    BY <1>4 DEF ExecExtract
  <2>2. new \in HeadersOf(cur)
    <3>1. extracts[cur] \in Seq(Headers) /\ 1 <= exec.pos /\ exec.pos <= Len(extracts[cur])
      BY <1>1 DEF ExecExtract, TypeOK
    <3> QED BY <1>1, <3>1 DEF HeadersOf, ToSet
  <2>3. exec'.valid = exec.valid \cup {new} /\ exec'.state = cur
    BY <2>1 DEF TypeOK
  <2>4. \A s \in States : new \in HeadersOf(s) => s = cur
    BY <1>1, <2>2, OneHeader
  <2>5. ASSUME NEW s \in States, NEW h \in exec'.valid \cap HeadersOf(s)
        PROVE  level[s] < level[cur] \/ s = cur
    <3>1. CASE h \in exec.valid
      BY <1>1, <3>1 DEF ExecInv
    <3>2. CASE h = new
      BY <2>4, <3>2
    <3> QED BY <2>3, <3>1, <3>2
  <2>6. ASSUME NEW s \in States, NEW t \in States,
               NEW g \in exec'.valid \cap HeadersOf(s), NEW h \in exec'.valid \cap HeadersOf(t),
               level[s] = level[t]
        PROVE  s = t
    <3>1. CASE g \in exec.valid /\ h \in exec.valid
      BY <2>6, <3>1 DEF ExecInv
    <3>2. level[s] \in Nat /\ level[t] \in Nat /\ level[cur] \in Nat
      BY <1>1 DEF TypeOK
    <3>3. CASE g = new
      <4>1. s = cur
        BY <2>4, <3>3
      <4> QED BY <2>5, <2>6, <3>2, <4>1
    <3>4. CASE h = new
      <4>1. t = cur
        BY <2>4, <3>4
      <4> QED BY <2>5, <2>6, <3>2, <4>1
    <3> QED BY <2>3, <3>1, <3>3, <3>4
  <2>7. \A h \in exec'.valid : \E s \in States : h \in HeadersOf(s)
    BY <1>1, <2>2, <2>3 DEF ExecInv
  <2> QED BY <1>1, <1>2, <2>3, <2>5, <2>6, <2>7 DEF ExecInv
<1> QED BY <1>3, <1>4

LEMMA ExecSelectXInv == ASSUME TypeOK, XInv, ExecSelect PROVE ExecInv'
<1> USE DEF XInv, Unpeeled
<1>1. /\ phase = "exec" /\ exec.state \in States
      /\ UNCHANGED <<next, extracts, phase, nodes, level>>
  BY DEF ExecSelect, program, xoredVars
<1>2. PICK t \in next[exec.state] \cup {"reject"} : exec' = [exec EXCEPT !.state = t, !.pos = 1]
  BY DEF ExecSelect
<1>3. \A s : HeadersOf(s)' = HeadersOf(s)
  BY <1>1 DEF HeadersOf
<1>4. exec'.valid = exec.valid /\ exec'.state = t
  BY <1>2 DEF TypeOK
<1>5. ASSUME t \in States, NEW s \in States, NEW h \in exec.valid \cap HeadersOf(s)
      PROVE  level[s] < level[t]
  <2>1. t \in next[exec.state]
    BY <1>5, <1>2, ParserUnrollAssumption DEF Finals
  <2>2. level[exec.state] < level[t]
    BY <1>1, <2>1 DEF LevelInv, ExecInv
  <2>3. level[s] < level[exec.state] \/ s = exec.state
    BY <1>1 DEF ExecInv
  <2>4. level[s] \in Nat /\ level[t] \in Nat /\ level[exec.state] \in Nat
    BY <1>1, <1>5 DEF TypeOK
  <2> QED BY <2>2, <2>3, <2>4
<1> QED BY <1>1, <1>3, <1>4, <1>5 DEF ExecInv

LEMMA NextXInv == ASSUME OneHeaderPerState, TypeOK, XInv, [Next]_vars PROVE XInv'
<1>1. LevelInv'
  BY NextLevelInv DEF XInv
<1>2. CASE StartLevel
  BY <1>1, <1>2, StartLevelXInv DEF XInv
<1>3. ASSUME NEW n \in States \cup Finals, VisitNode(n) PROVE XInv'
  BY <1>1, <1>3, VisitNodeXInv DEF XInv
<1>4. CASE EndLevel
  BY <1>1, <1>4, EndLevelXInv DEF XInv
<1>5. CASE EndXoredHeaderSets
  BY <1>1, <1>5, OtherXInv DEF EndXoredHeaderSets, Unpeeled
<1>6. CASE EvaluateState \/ EndUnroll
  BY <1>1, <1>6, OtherXInv DEF EvaluateState, EndUnroll, xoredVars, Unpeeled
<1>7. CASE ExecExtract \/ ExecSelect
  <2>1. UNCHANGED <<extracts, phase, nodes, xoredHeaderSet, xoredHeaderSets, round, level>>
    BY <1>7 DEF ExecExtract, ExecSelect, xoredVars, program
  <2>2. SetsInv'
    BY <2>1 DEF XInv, SetsInv, HeadersOf, Unpeeled
  <2> QED BY <1>1, <1>7, <2>2, ExecExtractXInv, ExecSelectXInv DEF XInv
<1>8. CASE UNCHANGED vars
  BY <1>1, <1>8, OtherXInv DEF vars, xoredVars, Unpeeled
<1> QED BY <1>2, <1>3, <1>4, <1>5, <1>6, <1>7, <1>8 DEF Next, Pass

LEMMA XInvSound == ASSUME OneHeaderPerState, TypeOK, XInv PROVE XoredSetsSound
<1> SUFFICES ASSUME NEW S \in xoredHeaderSets, NEW g \in S \cap exec.valid,
                    NEW h \in S \cap exec.valid
             PROVE  g = h
  BY DEF XoredSetsSound
<1>1. PICK s \in States : g \in HeadersOf(s)
  BY DEF XInv, ExecInv
<1>2. PICK t \in States : h \in HeadersOf(t)
  BY DEF XInv, ExecInv
<1>3. level[s] = level[t]
  BY <1>1, <1>2 DEF XInv, SetsInv
<1>4. s = t
  BY <1>1, <1>2, <1>3 DEF XInv, ExecInv
<1> QED BY <1>1, <1>2, <1>4, OneHeader

LEMMA InitPeelInv == Init => PeelInv
<1>1. Init => PathInv
  BY InitLevelInv DEF Init, PathInv
<1>2. Init => XInv
  BY InitLevelInv DEF XInv, Init, SetsInv, ExecInv
<1> QED BY <1>1, <1>2 DEF PeelInv

LEMMA NextPeelInv == ASSUME TypeOK, PeelInv, [Next]_vars PROVE PeelInv'
<1>1. extracts' = extracts
  BY DEF Next, Pass, StartLevel, VisitNode, EndLevel, EndXoredHeaderSets, EvaluateState,
         EndUnroll, ExecExtract, ExecSelect, program, vars
<1>2. OneHeaderPerState' => OneHeaderPerState
  BY <1>1 DEF OneHeaderPerState
<1>3. PathInv'
  BY NextPathInv DEF PeelInv
<1>4. OneHeaderPerState' => XInv'
  BY <1>2, NextXInv DEF PeelInv
<1> QED BY <1>3, <1>4 DEF PeelInv

\* In every parser, those with several headers in a state or a header in several states
\* among them, a state leaves the graph in a later level than the states that lead to it,
\* each of the sets that CreateXoredHeaderSets makes holds headers of one level's states,
\* and an execution has its headers from states of lower levels.  In parsers whose states
\* extract at most one header each, and every header in one state, the headers of a set
\* come from no other level, and an execution extracts at most one header in a level.
THEOREM PeelingFollowsPaths == Spec => []PeelInv
<1>1. Init => PeelInv
  BY InitPeelInv
<1>2. TypeOK /\ PeelInv /\ [Next]_vars => PeelInv'
  BY NextPeelInv
<1> QED BY <1>1, <1>2, UnrollTypeCorrect, PTL DEF Spec

\* In such a parser no execution extracts two headers that CreateXoredHeaderSets put in
\* one set: the table entries emitsXORedHdrs makes DeparserConverter drop are never
\* looked up.  It holds of cyclic parsers too, for which the sets are never ready.
THEOREM LevelsAreExclusive == Spec => []ExclusiveLevels
<1>1. TypeOK /\ PeelInv => ExclusiveLevels
  BY XInvSound DEF PeelInv, ExclusiveLevels
<1> QED BY <1>1, UnrollTypeCorrect, PeelingFollowsPaths, PTL

----------------------------------------------------------------------------
(* ParsedHeadersComplete: a state that has left the graph has left its headers  *)
(* in parsedHeaders.                                                            *)

CompleteInv ==
  /\ \A s \in States : s \notin Unpeeled => HeadersOf(s) \subseteq parsedHeaders
  /\ phase # "exec" => exec.valid = {}
  /\ exec.valid \subseteq parsedHeaders

LEMMA InitCompleteInv == ASSUME Init PROVE CompleteInv
<1>1. ASSUME NEW s \in States PROVE s \in nodes
  <2>1. PICK t \in next[s] : TRUE
    BY ParserUnrollAssumption DEF Init
  <2>2. <<s, t>> \in edges /\ <<s, t>>[1] = s
    BY <2>1 DEF Init, CallGraph
  <2>3. nodes = {e[1] : e \in edges} \cup {e[2] : e \in edges}
    BY DEF Init, NodesOf
  <2> QED BY <2>2, <2>3
<1>2. phase = "while" /\ exec.valid = {}
  BY DEF Init
<1> QED BY <1>1, <1>2 DEF CompleteInv, Unpeeled

\* The steps of the two analyses other than the removal of a state.
LEMMA AnalysisComplete ==
  ASSUME CompleteInv, UNCHANGED <<program, exec, parsedHeaders>>, Unpeeled' = Unpeeled,
         phase' # "exec" => phase # "exec"
  PROVE  CompleteInv'
BY DEF CompleteInv, HeadersOf, program

LEMMA VisitNodeComplete ==
  ASSUME CompleteInv, NEW n \in States \cup Finals, VisitNode(n) PROVE CompleteInv'
<1>1. /\ next' = next /\ extracts' = extracts /\ exec' = exec /\ phase' = phase
      /\ parsedHeaders' = parsedHeaders \cup HeadersOf(n)
      /\ Unpeeled' = Unpeeled \ {n}
  BY DEF VisitNode, program, Unpeeled
<1>2. \A s \in States : HeadersOf(s)' = HeadersOf(s)
  BY <1>1 DEF HeadersOf
<1> QED BY <1>1, <1>2 DEF CompleteInv

LEMMA ExecComplete ==
  ASSUME TypeOK, CompleteInv, ExecExtract \/ ExecSelect PROVE CompleteInv'
<1>1. /\ next' = next /\ extracts' = extracts /\ phase = "exec" /\ phase' = phase
      /\ parsedHeaders' = parsedHeaders /\ Unpeeled' = {} /\ Unpeeled = {}
  BY DEF ExecExtract, ExecSelect, program, xoredVars, Unpeeled
<1>2. \A s \in States : HeadersOf(s)' = HeadersOf(s) /\ HeadersOf(s) \subseteq parsedHeaders
  BY <1>1 DEF HeadersOf, CompleteInv
<1>3. CASE ExecExtract
  <2> DEFINE h == extracts[exec.state][exec.pos]
  <2>1. exec.state \in States /\ extracts[exec.state] \in Seq(Headers)
    BY <1>3 DEF ExecExtract, TypeOK
  <2>2. exec.pos \in DOMAIN extracts[exec.state]
    BY <1>3, <2>1 DEF ExecExtract, TypeOK
  <2>3. h \in parsedHeaders
    BY <1>2, <2>1, <2>2 DEF HeadersOf, ToSet
  <2>4. exec'.valid \in {exec.valid, exec.valid \cup {h}}
    BY <1>3 DEF ExecExtract, TypeOK
  <2> QED BY <1>1, <1>2, <2>3, <2>4 DEF CompleteInv
<1>4. CASE ExecSelect
  <2>1. exec'.valid = exec.valid
    BY <1>4 DEF ExecSelect, TypeOK
  <2> QED BY <1>1, <1>2, <2>1 DEF CompleteInv
<1> QED BY <1>3, <1>4

LEMMA NextComplete == ASSUME TypeOK, CompleteInv, [Next]_vars PROVE CompleteInv'
<1>1. CASE StartLevel \/ EndLevel
  BY <1>1, AnalysisComplete DEF StartLevel, EndLevel, program, Unpeeled
<1>2. ASSUME NEW n \in States \cup Finals, VisitNode(n) PROVE CompleteInv'
  BY <1>2, VisitNodeComplete
<1>3. CASE EndXoredHeaderSets
  BY <1>3, AnalysisComplete DEF EndXoredHeaderSets, Unpeeled
<1>4. CASE EvaluateState \/ EndUnroll
  BY <1>4, AnalysisComplete DEF EvaluateState, EndUnroll, xoredVars, Unpeeled
<1>5. CASE ExecExtract \/ ExecSelect
  BY <1>5, ExecComplete
<1>6. CASE UNCHANGED vars
  BY <1>6, AnalysisComplete DEF vars, xoredVars, Unpeeled
<1> QED BY <1>1, <1>2, <1>3, <1>4, <1>5, <1>6 DEF Next, Pass

\* Whatever its states extract, and however they are connected, no execution of a parser
\* extracts a header that is missing from parsedHeaders: the deparser table has the entries
\* with the header valid.
THEOREM ParsedHeadersAreComplete == Spec => []ParsedHeadersComplete
<1>1. Init => CompleteInv
  BY InitCompleteInv
<1>2. TypeOK /\ CompleteInv /\ [Next]_vars => CompleteInv'
  BY NextComplete
<1>3. CompleteInv => ParsedHeadersComplete
  BY DEF CompleteInv, ParsedHeadersComplete
<1> QED BY <1>1, <1>2, <1>3, UnrollTypeCorrect, PTL DEF Spec

----------------------------------------------------------------------------
(* OffsetsSound: the worklist follows every path of the parser.              *)

\* Two infos that differ in their predecessors are evaluated alike.
LEMMA EntryExtracts ==
  ASSUME NEW info \in StateInfo
  PROVE  /\ Entry(info).state = info.state /\ Entry(info).offset = info.offset
         /\ Entry(info).valid = info.valid /\ Entry(info) \in StateEntry
         /\ Extracts(Entry(info)) = Extracts(info) /\ After(Entry(info)) = After(info)
<1>1. /\ Entry(info).state = info.state /\ Entry(info).offset = info.offset
      /\ Entry(info).valid = info.valid
  BY DEF Entry
<1>2. Entry(info) \in StateEntry
  BY DEF Entry, StateEntry, StateInfo
<1>3. Extracts(Entry(info)) = Extracts(info)
  BY <1>1 DEF Extracts
<1> QED BY <1>1, <1>2, <1>3 DEF After

LEMMA ExtractsUnchanged ==
  ASSUME extracts' = extracts PROVE \A e : Extracts(e)' = Extracts(e) /\ After(e)' = After(e)
<1>1. \A e : Extracts(e)' = Extracts(e)
  BY DEF Extracts, Extract
<1> QED BY <1>1 DEF After

LEMMA ExtractValue ==
  ASSUME NEW v \in Values, NEW h \in Headers, v.overwritten = FALSE
  PROVE  Extract(v, h) =
           IF h \in v.valid
           THEN [offset |-> v.offset, valid |-> v.valid, overwritten |-> TRUE]
           ELSE [offset |-> v.offset + Width[h], valid |-> v.valid \cup {h},
                 overwritten |-> FALSE]
<1>1. CASE h \in v.valid
  <2>1. Extract(v, h) = [v EXCEPT !.overwritten = TRUE]
    BY <1>1 DEF Extract
  <2> QED BY <1>1, <2>1 DEF Values
<1>2. CASE h \notin v.valid
  <2>1. Extract(v, h) = [v EXCEPT !.offset = @ + Width[h], !.valid = @ \cup {h}]
    BY <1>2 DEF Extract
  <2>2. Extract(v, h) = [offset |-> v.offset + Width[h], valid |-> v.valid \cup {h},
                         overwritten |-> v.overwritten]
    BY <2>1 DEF Values
  <2> QED BY <1>2, <2>2
<1> QED BY <1>1, <1>2

\* A graph that has been peeled has no cycle: checkLoops finds none, and an info is never
\* a clone of a predecessor.
LEMMA NoLoops ==
  ASSUME TypeOK, ChainInv, toRun # <<>>
  PROVE  /\ ~CheckLoops(Last(toRun))
         /\ ~ \E i \in DOMAIN Last(toRun).chain : Last(toRun).chain[i].state = Last(toRun).state
<1> DEFINE info == Last(toRun)
<1>1. info \in StateInfo /\ Len(toRun) \in DOMAIN toRun /\ info = toRun[Len(toRun)]
  BY LastOfWorklist
<1>2. level[info.state] \in Nat
  BY <1>1 DEF StateInfo, TypeOK
<1>3. \A j \in DOMAIN info.chain : level[info.chain[j].state] < level[info.state]
  BY <1>1 DEF ChainInv
<1>4. \A j \in DOMAIN info.chain : info.chain[j].state # info.state
  BY <1>2, <1>3
<1> QED BY <1>4 DEF CheckLoops

LEMMA EvaluateStateChainInv ==
  ASSUME TypeOK, LevelInv, ChainInv, EvaluateState PROVE ChainInv'
<1> DEFINE info == Last(toRun)
           rest == Front(toRun)
           v == After(info)
           new == IF v.overwritten THEN <<>> ELSE Successors(info, v)
<1>1. /\ info \in StateInfo /\ rest \in Seq(StateInfo) /\ info = toRun[Len(toRun)]
      /\ Len(toRun) \in DOMAIN toRun
      /\ \A i \in DOMAIN rest : i \in DOMAIN toRun /\ rest[i] = toRun[i]
  BY LastOfWorklist DEF EvaluateState
<1>2. ~CheckLoops(info) /\ phase = "unroll" /\ level' = level
  BY NoLoops DEF EvaluateState, xoredVars
<1>3. CASE info.state \in Finals
  <2>1. toRun' = rest
    BY <1>2, <1>3 DEF EvaluateState
  <2> QED BY <1>1, <1>2, <2>1 DEF ChainInv
<1>4. CASE info.state \notin Finals
  <2>1. info.state \in States /\ toRun' = rest \o new
    BY <1>1, <1>2, <1>4 DEF EvaluateState, StateInfo
  <2>2. /\ new \in Seq(StateInfo)
        /\ \A i \in DOMAIN new : \E t \in next[info.state] :
             new[i] = [state |-> t, offset |-> v.offset, valid |-> v.valid,
                       chain |-> Append(info.chain, Entry(info))]
    <3>1. CASE v.overwritten
      <4>1. new = <<>>
        BY <3>1
      <4>2. <<>> \in Seq(StateInfo) /\ DOMAIN <<>> = {}
        OBVIOUS
      <4> HIDE DEF new, v
      <4> QED BY <4>1, <4>2
    <3>2. CASE ~v.overwritten
      <4>1. new = Successors(info, v)
        BY <3>2
      <4> HIDE DEF new
      <4> QED BY <1>1, <2>1, <4>1, SuccessorsType
    <3> QED BY <3>1, <3>2
  <2>3. info.chain \in Seq(StateEntry) /\ Entry(info).state = info.state
    BY <1>1 DEF StateInfo, Entry
  <2>4. \A t \in next[info.state] : level[info.state] < level[t] /\ level[t] \in Nat
    BY <1>2, <2>1 DEF LevelInv, Unpeeled, TypeOK
  <2>5. \A j \in DOMAIN info.chain :
          info.chain[j].state \in States /\ level[info.chain[j].state] < level[info.state]
    BY <1>1 DEF ChainInv
  <2>6. ASSUME NEW i \in DOMAIN new, NEW j \in DOMAIN new[i].chain
        PROVE  new[i].chain[j].state \in States /\ level[new[i].chain[j].state] < level[new[i].state]
    <3>1. PICK t \in next[info.state] :
            new[i] = [state |-> t, offset |-> v.offset, valid |-> v.valid,
                      chain |-> Append(info.chain, Entry(info))]
      BY <2>2
    <3> HIDE DEF new, info, v
    <3>2. new[i].state = t /\ new[i].chain = Append(info.chain, Entry(info))
      BY <3>1
    <3>3. CASE j = Len(info.chain) + 1
      <4>1. new[i].chain[j] = Entry(info)
        BY <2>3, <3>2, <3>3
      <4> QED BY <2>1, <2>3, <2>4, <3>2, <4>1
    <3>4. CASE j # Len(info.chain) + 1
      <4>1. j \in DOMAIN info.chain /\ new[i].chain[j] = info.chain[j]
        BY <2>3, <3>2, <3>4
      <4>2. info.chain[j].state \in States /\ level[info.chain[j].state] < level[info.state]
        BY <2>5, <4>1
      <4>3. level[info.state] < level[t]
        BY <2>4
      <4>4. level[info.chain[j].state] \in Nat /\ level[info.state] \in Nat /\ level[t] \in Nat
        BY <2>1, <2>4, <4>2 DEF TypeOK
      <4> QED BY <3>2, <4>1, <4>2, <4>3, <4>4
    <3> QED BY <3>3, <3>4
  <2>7. ASSUME NEW i \in DOMAIN toRun'
        PROVE  \/ i \in DOMAIN rest /\ toRun'[i] = rest[i]
               \/ \E k \in DOMAIN new : toRun'[i] = new[k]
    <3> HIDE DEF new, rest
    <3>1. CASE i <= Len(rest)
      BY <1>1, <2>1, <2>2, <3>1
    <3>2. CASE i > Len(rest)
      <4>1. i - Len(rest) \in DOMAIN new /\ toRun'[i] = new[i - Len(rest)]
        BY <1>1, <2>1, <2>2, <3>2
      <4> QED BY <4>1
    <3> QED BY <1>1, <2>1, <2>2, <3>1, <3>2
  <2> HIDE DEF new, rest
  <2> QED BY <1>1, <1>2, <2>6, <2>7 DEF ChainInv
<1> QED BY <1>3, <1>4

LEMMA EvaluateStateUnrollInv ==
  ASSUME TypeOK, ChainInv, UnrollInv, MaxInv, EvaluateState PROVE UnrollInv' /\ MaxInv'
<1> DEFINE info == Last(toRun)
           rest == Front(toRun)
           v == After(info)
<1>1. /\ info \in StateInfo /\ rest \in Seq(StateInfo) /\ info = toRun[Len(toRun)]
      /\ Len(toRun) \in DOMAIN toRun
      /\ \A i \in DOMAIN toRun : i # Len(toRun) => i \in DOMAIN rest /\ rest[i] = toRun[i]
  BY LastOfWorklist DEF EvaluateState
<1>2. /\ ~CheckLoops(info) /\ phase = "unroll" /\ UNCHANGED <<phase, next, extracts>>
      /\ ~ \E i \in DOMAIN info.chain : info.chain[i].state = info.state
  BY NoLoops DEF EvaluateState, program
<1>3. /\ Entry(info).state = info.state /\ Entry(info).offset = info.offset
      /\ After(Entry(info)) = v /\ info.offset \in Nat
  BY <1>1, EntryExtracts DEF StateInfo
<1>4. \A e : After(e)' = After(e)
  BY <1>2, ExtractsUnchanged
<1>5. \A p \in Pending : p = Entry(info) \/ \E i \in DOMAIN rest : p = Entry(rest[i])
  BY <1>1 DEF Pending
<1>6. CASE info.state \in Finals
  <2>1. /\ toRun' = rest /\ finalOffsets' = finalOffsets \cup {info.offset}
        /\ acceptOffsets' = IF info.state = "accept"
                            THEN acceptOffsets \cup {info.offset} ELSE acceptOffsets
        /\ UNCHANGED <<unrolled, error>>
    BY <1>2, <1>6 DEF EvaluateState
  <2>2. Pending' = {Entry(rest[i]) : i \in DOMAIN rest}
    BY <2>1 DEF Pending, Entry
  <2>3. MaxInv'
    <3>1. CASE finalOffsets = {}
      BY <1>3, <2>1, <3>1 DEF MaxInv
    <3>2. CASE finalOffsets # {}
      <4>1. PICK o \in finalOffsets : \A p \in finalOffsets : p <= o
        BY <3>2 DEF MaxInv
      <4>2. finalOffsets \subseteq Nat
        BY DEF TypeOK
      <4>3. CASE info.offset <= o
        BY <2>1, <4>1, <4>3 DEF MaxInv
      <4>4. CASE ~(info.offset <= o)
        <5>1. \A p \in finalOffsets' : p <= info.offset
          BY <1>3, <2>1, <4>1, <4>2, <4>4
        <5> QED BY <2>1, <5>1 DEF MaxInv
      <4> QED BY <4>3, <4>4
    <3> QED BY <3>1, <3>2
  <2>4. ASSUME ~error', NEW e \in unrolled
        PROVE  /\ e \in Pending' \/ Evaluated(e)'
               /\ \E o \in finalOffsets' \cup {p.offset : p \in Pending'} : e.offset <= o
    <3>1. /\ e \in Pending \/ Evaluated(e)
          /\ \E o \in finalOffsets \cup {p.offset : p \in Pending} : e.offset <= o
      BY <1>2, <2>1, <2>4 DEF UnrollInv
    <3>2. e \in Pending' \/ Evaluated(e)'
      <4>1. CASE Evaluated(e)
        BY <1>2, <1>4, <2>1, <4>1 DEF Evaluated
      <4>2. CASE e = Entry(info)
        BY <1>3, <1>6, <2>1, <4>2 DEF Evaluated
      <4> QED BY <1>5, <2>2, <3>1, <4>1, <4>2
    <3>3. \A o \in finalOffsets \cup {p.offset : p \in Pending} :
            o \in finalOffsets' \cup {p.offset : p \in Pending'}
      <4>1. ASSUME NEW p \in Pending
            PROVE  p.offset \in finalOffsets' \cup {q.offset : q \in Pending'}
        BY <1>3, <1>5, <2>1, <2>2
      <4> QED BY <2>1, <4>1
    <3> QED BY <3>1, <3>2, <3>3
  <2>5. UnrollInv'
    BY <1>2, <2>1, <2>4 DEF UnrollInv, StartInfo, Entry
  <2> QED BY <2>3, <2>5
<1>7. CASE info.state \notin Finals
  <2> DEFINE clone == \E i \in DOMAIN info.chain : info.chain[i].state = info.state
             new == IF v.overwritten THEN <<>> ELSE Successors(info, v)
  <2>1. /\ toRun' = rest \o new
        /\ unrolled' = unrolled \cup {Entry(new[i]) : i \in DOMAIN new}
        /\ error' = (error \/ (v.overwritten /\ ~clone))
        /\ UNCHANGED <<finalOffsets, acceptOffsets>>
    BY <1>2, <1>7 DEF EvaluateState
  <2>2. MaxInv'
    BY <2>1 DEF MaxInv
  <2>3. info.state \in States
    BY <1>1, <1>7 DEF StateInfo
  <2>4. ASSUME ~error' PROVE ~error /\ ~v.overwritten /\ new = Successors(info, v)
    BY <1>2, <2>1, <2>4
  <2>5. /\ extracts[info.state] \in Seq(Headers) /\ v \in Values
        /\ Successors(info, v) \in Seq(StateInfo)
        /\ \A t \in next[info.state] : \E i \in DOMAIN Successors(info, v) :
             Successors(info, v)[i] =
               [state |-> t, offset |-> v.offset, valid |-> v.valid,
                chain |-> Append(info.chain, Entry(info))]
    BY <1>1, <2>3, SuccessorsType
  <2>6. info.offset <= v.offset
    <3>1. 0 \in 0 .. Len(extracts[info.state]) /\ info.valid \in SUBSET Headers
      BY <1>1, <2>5 DEF StateInfo
    <3>2. Extracts(info)[0].offset <= v.offset
      BY <1>3, <2>5, <3>1, ExtractsGrow
    <3>3. Extracts(info)[0] = [offset |-> info.offset, valid |-> info.valid,
                               overwritten |-> FALSE]
      BY <2>5, ExtractsDef
    <3> QED BY <3>2, <3>3
  <2>7. PICK t0 \in next[info.state] : TRUE
    BY <2>3 DEF TypeOK
  <2> HIDE DEF new, v, rest, info, clone
  <2>8. ASSUME ~error', NEW e \in unrolled'
        PROVE  /\ e \in Pending' \/ Evaluated(e)'
               /\ \E o \in finalOffsets' \cup {p.offset : p \in Pending'} : e.offset <= o
    <3>1. new \in Seq(StateInfo)
      BY <2>4, <2>5, <2>8
    <3>2. \A i \in DOMAIN rest : i \in DOMAIN toRun' /\ toRun'[i] = rest[i]
      BY <1>1, <2>1, <3>1
    <3>3. ASSUME NEW i \in DOMAIN new PROVE Entry(new[i]) \in Pending'
      <4>1. Len(rest) + i \in DOMAIN toRun' /\ toRun'[Len(rest) + i] = new[i]
        BY <1>1, <2>1, <3>1
      <4> QED BY <4>1 DEF Pending, Entry
    <3>4. \A i \in DOMAIN rest : Entry(rest[i]) \in Pending'
      BY <3>2 DEF Pending, Entry
    <3>5. \A t \in next[info.state] :
            [state |-> t, offset |-> v.offset, valid |-> v.valid] \in unrolled' \cap Pending'
      <4> TAKE t \in next[info.state]
      <4>1. PICK i \in DOMAIN new :
              new[i] = [state |-> t, offset |-> v.offset, valid |-> v.valid,
                        chain |-> Append(info.chain, Entry(info))]
        BY <2>4, <2>5, <2>8
      <4>2. Entry(new[i]) = [state |-> t, offset |-> v.offset, valid |-> v.valid]
        BY <4>1 DEF Entry
      <4> QED BY <2>1, <3>3, <4>2
    <3>6. CASE e \in unrolled
      <4>1. /\ e \in Pending \/ Evaluated(e)
            /\ \E o \in finalOffsets \cup {p.offset : p \in Pending} : e.offset <= o
        BY <1>2, <2>4, <2>8, <3>6 DEF UnrollInv
      <4>2. e \in Pending' \/ Evaluated(e)'
        <5>1. CASE Evaluated(e)
          BY <1>2, <1>4, <2>1, <5>1 DEF Evaluated
        <5>2. CASE e = Entry(info)
          <6>1. e.state \notin Finals /\ After(e)' = v /\ e.state = info.state
            BY <1>3, <1>4, <1>7, <5>2
          <6> QED BY <1>2, <2>4, <2>8, <3>5, <6>1 DEF Evaluated
        <5> QED BY <1>5, <3>4, <4>1, <5>1, <5>2
      <4>3. PICK o \in finalOffsets \cup {p.offset : p \in Pending} : e.offset <= o
        BY <4>1
      <4>4. CASE o \in finalOffsets'
        BY <4>2, <4>3, <4>4
      <4>5. ASSUME NEW p \in Pending, o = p.offset
            PROVE  \E q \in finalOffsets' \cup {r.offset : r \in Pending'} : e.offset <= q
        <5>1. CASE p = Entry(info)
          <6>1. [state |-> t0, offset |-> v.offset, valid |-> v.valid] \in Pending'
            BY <2>7, <3>5
          <6>2. v.offset \in {r.offset : r \in Pending'}
            BY <6>1
          <6>3. e.offset \in Nat /\ v.offset \in Nat /\ info.offset \in Nat
            BY <1>3, <2>5, <3>6 DEF TypeOK, StateEntry, Values
          <6>4. e.offset <= v.offset
            BY <1>3, <2>6, <4>3, <4>5, <5>1, <6>3
          <6> QED BY <6>2, <6>4
        <5>2. CASE p # Entry(info)
          <6>1. p \in Pending'
            BY <1>5, <3>4, <4>5, <5>2
          <6> QED BY <4>3, <4>5, <6>1
        <5> QED BY <5>1, <5>2
      <4> QED BY <2>1, <4>2, <4>3, <4>4, <4>5
    <3>7. CASE e \notin unrolled
      <4>1. PICK i \in DOMAIN new : e = Entry(new[i])
        BY <2>1, <2>8, <3>7
      <4>2. e \in Pending'
        BY <3>3, <4>1
      <4>3. e.offset <= e.offset
        <5>1. new[i] \in StateInfo
          BY <3>1
        <5> QED BY <4>1, <5>1 DEF Entry, StateInfo
      <4> QED BY <4>2, <4>3
    <3> QED BY <3>6, <3>7
  <2>9. UnrollInv'
    <3> SUFFICES ASSUME ~error' PROVE Entry(StartInfo) \in unrolled'
      BY <2>8 DEF UnrollInv, StartInfo, Entry
    <3>1. Entry(StartInfo) \in unrolled
      BY <1>2, <2>4 DEF UnrollInv
    <3> QED BY <2>1, <3>1
  <2> QED BY <2>2, <2>9
<1> QED BY <1>6, <1>7

LEMMA InitOffsetsInv == Init => OffsetsInv
<1> SUFFICES ASSUME Init PROVE OffsetsInv
  OBVIOUS
<1>1. phase = "while" /\ toRun = <<>> /\ finalOffsets = {}
  BY DEF Init
<1>2. ChainInv /\ UnrollInv /\ MaxInv
  BY <1>1 DEF ChainInv, UnrollInv, MaxInv
<1>3. FollowInv
  BY <1>1 DEF FollowInv, Init
<1> QED BY <1>2, <1>3, InitLevelInv DEF OffsetsInv

\* Steps that leave the program, the results of the unrolling and the execution alone.
LEMMA PeelingOffsetsInv ==
  ASSUME OffsetsInv, LevelInv', UNCHANGED <<program, unrollVars, exec>>,
         phase \in {"while", "visit"}, phase' \in {"while", "visit"}
  PROVE  OffsetsInv'
<1>1. toRun' = <<>> /\ DOMAIN toRun' = {} /\ finalOffsets' = finalOffsets /\ exec' = exec
  BY DEF OffsetsInv, FollowInv, unrollVars
<1>2. ChainInv' /\ UnrollInv' /\ MaxInv' /\ FollowInv'
  BY <1>1 DEF OffsetsInv, ChainInv, UnrollInv, MaxInv, FollowInv
<1> QED BY <1>2 DEF OffsetsInv

LEMMA EndXoredOffsetsInv ==
  ASSUME OffsetsInv, LevelInv', EndXoredHeaderSets PROVE OffsetsInv'
<1>1. /\ toRun' = <<StartInfo>> /\ unrolled' = {Entry(StartInfo)} /\ phase' = "unroll"
      /\ UNCHANGED <<finalOffsets, exec>> /\ phase = "while"
  BY DEF EndXoredHeaderSets
<1>2. DOMAIN toRun' = {1} /\ toRun'[1] = StartInfo /\ StartInfo.chain = <<>> /\ DOMAIN <<>> = {}
  BY <1>1 DEF StartInfo
<1>3. ChainInv'
  BY <1>2 DEF ChainInv
<1>4. Pending' = {Entry(StartInfo)} /\ Entry(StartInfo).offset = 0
  BY <1>2 DEF Pending, Entry, StartInfo
<1>5. UnrollInv'
  <2>1. Entry(StartInfo)' = Entry(StartInfo)
    BY DEF Entry, StartInfo
  <2>2. \E o \in finalOffsets' \cup {p.offset : p \in Pending'} : Entry(StartInfo).offset <= o
    BY <1>4
  <2> QED BY <1>1, <1>4, <2>1, <2>2 DEF UnrollInv
<1>6. MaxInv' /\ FollowInv'
  BY <1>1 DEF OffsetsInv, MaxInv, FollowInv
<1> QED BY <1>3, <1>5, <1>6 DEF OffsetsInv

LEMMA EndUnrollOffsetsInv ==
  ASSUME TypeOK, OffsetsInv, LevelInv', EndUnroll PROVE OffsetsInv'
<1>1. /\ phase = "unroll" /\ toRun = <<>> /\ phase' = "exec"
      /\ UNCHANGED <<next, extracts, level, toRun, unrolled, finalOffsets, acceptOffsets,
                     error, exec>>
  BY DEF EndUnroll, program, xoredVars, unrollVars
<1>2. ChainInv' /\ MaxInv' /\ Pending' = Pending
  BY <1>1 DEF OffsetsInv, ChainInv, MaxInv, Pending, Entry
<1>3. \A e : Extracts(e)' = Extracts(e) /\ After(e)' = After(e) /\ Evaluated(e)' = Evaluated(e)
  <2>1. \A e : Extracts(e)' = Extracts(e) /\ After(e)' = After(e)
    BY <1>1, ExtractsUnchanged
  <2>2. \A e : Evaluated(e)' = Evaluated(e)
    BY <1>1, <2>1 DEF Evaluated
  <2> QED BY <2>1, <2>2
<1>4. UnrollInv'
  BY <1>1, <1>2, <1>3 DEF OffsetsInv, UnrollInv, Entry, StartInfo
<1>5. FollowInv'
  <2>1. exec = [state |-> Start, pos |-> 1, offset |-> 0, valid |-> {}, overwritten |-> FALSE]
    BY <1>1 DEF OffsetsInv, FollowInv
  <2>2. Start \in States /\ extracts[Start] \in Seq(Headers) /\ Len(extracts[Start]) \in Nat
    BY ParserUnrollAssumption DEF TypeOK
  <2>3. /\ Entry(StartInfo).state = Start /\ Entry(StartInfo).offset = 0
        /\ Entry(StartInfo).valid = {} /\ extracts[Entry(StartInfo).state] \in Seq(Headers)
    BY <2>2 DEF Entry, StartInfo
  <2>4. Extracts(Entry(StartInfo))[0] = [offset |-> 0, valid |-> {}, overwritten |-> FALSE]
    BY <2>2, <2>3, ExtractsDef
  <2>5. ASSUME ~error PROVE Entry(StartInfo) \in unrolled
    BY <1>1, <2>5 DEF OffsetsInv, UnrollInv
  <2>6. exec.state = Start /\ exec.pos = 1 /\ exec.offset = 0 /\ exec.valid = {} /\ ~exec.overwritten
    BY <2>1
  <2>7. 1 <= Len(extracts[Start]) + 1 /\ 1 - 1 = 0
    BY <2>2
  <2>8. Extracts(Entry(StartInfo))[exec.pos - 1] =
          [offset |-> exec.offset, valid |-> exec.valid, overwritten |-> FALSE]
    BY <2>4, <2>6, <2>7
  <2>9. Entry(StartInfo).state = exec.state /\ exec.pos <= Len(extracts[Entry(StartInfo).state]) + 1
    BY <2>3, <2>6, <2>7
  <2> HIDE DEF Entry
  <2> QED BY <1>1, <1>3, <2>2, <2>5, <2>6, <2>8, <2>9 DEF FollowInv
<1> QED BY <1>2, <1>4, <1>5 DEF OffsetsInv

LEMMA ExecExtractFollows ==
  ASSUME TypeOK, OffsetsInv, ExecExtract PROVE FollowInv'
<1>1. /\ phase = "exec" /\ exec.state \in States /\ exec.pos \in Nat \ {0}
      /\ exec.pos <= Len(extracts[exec.state])
      /\ UNCHANGED <<next, extracts, phase, toRun, unrolled, error>>
  BY DEF ExecExtract, program, unrollVars, TypeOK
<1>2. toRun' = <<>>
  BY <1>1 DEF OffsetsInv, FollowInv
<1> SUFFICES ASSUME ~error
             PROVE  \E e \in unrolled :
                      /\ exec'.state \in States /\ e.state = exec'.state
                      /\ exec'.pos <= Len(extracts[e.state]) + 1
                      /\ Extracts(e)[exec'.pos - 1] =
                           [offset |-> exec'.offset, valid |-> exec'.valid, overwritten |-> FALSE]
                      /\ ~exec'.overwritten
  <2>1. \A e : Extracts(e)' = Extracts(e)
    BY <1>1, ExtractsUnchanged
  <2> QED BY <1>1, <1>2, <2>1 DEF FollowInv
<1> DEFINE pos == exec.pos
           h == extracts[exec.state][pos]
<1>3. PICK e \in unrolled :
        /\ e.state = exec.state /\ pos <= Len(extracts[e.state]) + 1
        /\ Extracts(e)[pos - 1] = [offset |-> exec.offset, valid |-> exec.valid,
                                   overwritten |-> FALSE]
        /\ ~exec.overwritten
  BY <1>1 DEF OffsetsInv, FollowInv
<1>4. /\ extracts[e.state] \in Seq(Headers) /\ e.offset \in Nat /\ e.valid \in SUBSET Headers
      /\ pos \in DOMAIN extracts[e.state] /\ pos \in 0 .. Len(extracts[e.state])
  BY <1>1, <1>3 DEF TypeOK, StateEntry
<1>5. Extracts(e)[pos] = Extract(Extracts(e)[pos - 1], h)
  BY <1>3, <1>4, ExtractsDef
<1>6. ~After(e).overwritten
  <2>1. Pending = {}
    BY <1>1 DEF OffsetsInv, FollowInv, Pending
  <2>2. Evaluated(e)
    BY <1>1, <2>1 DEF OffsetsInv, UnrollInv
  <2>3. e.state \notin Finals
    BY <1>1, <1>3, ParserUnrollAssumption
  <2> QED BY <2>2, <2>3 DEF Evaluated
<1>7. ~Extracts(e)[pos].overwritten
  BY <1>4, <1>6, ExtractsGrow
<1> DEFINE w == Extracts(e)[pos - 1]
<1>8. /\ w \in Values /\ h \in Headers
      /\ w.offset = exec.offset /\ w.valid = exec.valid /\ w.overwritten = FALSE
  <2>1. pos - 1 \in 0 .. Len(extracts[e.state])
    BY <1>1, <1>4
  <2>2. w \in Values
    BY <1>4, <2>1, ExtractsType
  <2>3. h \in Headers
    BY <1>3, <1>4
  <2>4. w.offset = exec.offset /\ w.valid = exec.valid /\ w.overwritten = FALSE
    BY <1>3
  <2> QED BY <2>2, <2>3, <2>4
<1> HIDE DEF w
<1>9. /\ h \notin exec.valid
      /\ Extracts(e)[pos] = [offset |-> exec.offset + Width[h], valid |-> exec.valid \cup {h},
                             overwritten |-> FALSE]
  <2>1. Extracts(e)[pos] = Extract(w, h)
    BY <1>5 DEF w
  <2>2. CASE h \in exec.valid
    <3>1. Extracts(e)[pos] = [offset |-> w.offset, valid |-> w.valid, overwritten |-> TRUE]
      BY <1>8, <2>1, <2>2, ExtractValue
    <3> QED BY <1>7, <3>1
  <2>3. CASE h \notin exec.valid
    BY <1>8, <2>1, <2>3, ExtractValue
  <2> QED BY <2>2, <2>3
<1>10. exec' = [exec EXCEPT !.pos = @ + 1, !.offset = @ + Width[h], !.valid = @ \cup {h}]
  BY <1>9 DEF ExecExtract
<1>11. /\ exec'.state = exec.state /\ exec'.pos = pos + 1 /\ exec'.offset = exec.offset + Width[h]
       /\ exec'.valid = exec.valid \cup {h} /\ exec'.overwritten = exec.overwritten
  BY <1>10 DEF TypeOK
<1>12. exec'.pos - 1 = pos /\ exec'.pos <= Len(extracts[e.state]) + 1
  BY <1>1, <1>3, <1>4, <1>11
<1> HIDE DEF h, pos
<1> QED BY <1>1, <1>3, <1>9, <1>11, <1>12

LEMMA ExecSelectFollows ==
  ASSUME TypeOK, OffsetsInv, ExecSelect PROVE FollowInv'
<1>1. /\ phase = "exec" /\ exec.state \in States /\ exec.pos \in Nat \ {0}
      /\ exec.pos > Len(extracts[exec.state])
      /\ UNCHANGED <<next, extracts, phase, toRun, unrolled, error>>
  BY DEF ExecSelect, program, unrollVars, TypeOK
<1>2. toRun' = <<>>
  BY <1>1 DEF OffsetsInv, FollowInv
<1>3. PICK t \in next[exec.state] \cup {"reject"} : exec' = [exec EXCEPT !.state = t, !.pos = 1]
  BY DEF ExecSelect
<1>4. /\ exec'.state = t /\ exec'.pos = 1 /\ exec'.offset = exec.offset
      /\ exec'.valid = exec.valid /\ exec'.overwritten = exec.overwritten
  BY <1>3 DEF TypeOK
<1> SUFFICES ASSUME ~error
             PROVE  \E e \in unrolled :
                      IF t \in States
                      THEN /\ e.state = t /\ 1 <= Len(extracts[e.state]) + 1
                           /\ Extracts(e)[0] = [offset |-> exec.offset, valid |-> exec.valid,
                                                overwritten |-> FALSE]
                           /\ ~exec.overwritten
                      ELSE /\ t = "accept" => e.state = "accept"
                           /\ e.offset = exec.offset /\ ~exec.overwritten
  <2>1. \A e : Extracts(e)' = Extracts(e)
    BY <1>1, ExtractsUnchanged
  <2>2. exec'.pos - 1 = 0
    BY <1>4
  <2> QED BY <1>1, <1>2, <1>4, <2>1, <2>2 DEF FollowInv
<1>5. PICK e \in unrolled :
        /\ e.state = exec.state /\ exec.pos <= Len(extracts[e.state]) + 1
        /\ Extracts(e)[exec.pos - 1] = [offset |-> exec.offset, valid |-> exec.valid,
                                        overwritten |-> FALSE]
        /\ ~exec.overwritten
  BY <1>1 DEF OffsetsInv, FollowInv
<1>6. exec.pos - 1 = Len(extracts[e.state])
  <2>1. extracts[e.state] \in Seq(Headers)
    BY <1>1, <1>5 DEF TypeOK
  <2> QED BY <1>1, <1>5, <2>1
<1>7. After(e).offset = exec.offset /\ After(e).valid = exec.valid
  BY <1>5, <1>6 DEF After
<1>8. \A u \in next[e.state] :
        [state |-> u, offset |-> exec.offset, valid |-> exec.valid] \in unrolled
  <2>1. Pending = {}
    BY <1>1 DEF OffsetsInv, FollowInv, Pending
  <2>2. Evaluated(e)
    BY <1>1, <2>1 DEF OffsetsInv, UnrollInv
  <2>3. e.state \notin Finals
    BY <1>1, <1>5, ParserUnrollAssumption
  <2> QED BY <1>7, <2>2, <2>3 DEF Evaluated
<1>9. PICK u \in next[e.state] : t \in States \/ t = "accept" => u = t
  <2>1. next[e.state] # {}
    BY <1>1, <1>5 DEF TypeOK
  <2>2. t \in States \/ t = "accept" => t \in next[e.state]
    BY <1>3, <1>5, ParserUnrollAssumption DEF Finals
  <2> QED BY <2>1, <2>2
<1> DEFINE f == [state |-> u, offset |-> exec.offset, valid |-> exec.valid]
<1>10. f \in unrolled /\ f.state = u /\ f.offset = exec.offset /\ f.valid = exec.valid
  BY <1>8, <1>9
<1> HIDE DEF f
<1>11. CASE t \in States
  <2>1. f.state = t /\ extracts[f.state] \in Seq(Headers)
    BY <1>9, <1>10, <1>11 DEF TypeOK
  <2>2. Extracts(f)[0] = [offset |-> exec.offset, valid |-> exec.valid, overwritten |-> FALSE]
    BY <1>10, <2>1, ExtractsDef
  <2>3. 1 <= Len(extracts[f.state]) + 1
    BY <2>1
  <2> QED BY <1>5, <1>10, <1>11, <2>1, <2>2, <2>3
<1>12. CASE t \notin States
  BY <1>5, <1>9, <1>10, <1>12
<1> QED BY <1>11, <1>12

LEMMA ExecOffsetsInv ==
  ASSUME TypeOK, OffsetsInv, LevelInv', ExecExtract \/ ExecSelect PROVE OffsetsInv'
<1>1. UNCHANGED <<next, extracts, phase, level, toRun, unrolled, finalOffsets, acceptOffsets,
                  error>>
  BY DEF ExecExtract, ExecSelect, program, xoredVars, unrollVars
<1>2. ChainInv' /\ MaxInv' /\ Pending' = Pending
  BY <1>1 DEF OffsetsInv, ChainInv, MaxInv, Pending, Entry
<1>3. \A e : Evaluated(e)' = Evaluated(e)
  <2>1. \A e : After(e)' = After(e)
    BY <1>1, ExtractsUnchanged
  <2> QED BY <1>1, <2>1 DEF Evaluated
<1>4. UnrollInv'
  BY <1>1, <1>2, <1>3 DEF OffsetsInv, UnrollInv, Entry, StartInfo
<1> QED BY <1>2, <1>4, ExecExtractFollows, ExecSelectFollows DEF OffsetsInv

LEMMA NextOffsetsInv == ASSUME TypeOK, OffsetsInv, [Next]_vars PROVE OffsetsInv'
<1>1. LevelInv'
  BY NextLevelInv DEF OffsetsInv
<1>2. CASE StartLevel
  BY <1>1, <1>2, PeelingOffsetsInv DEF StartLevel
<1>3. ASSUME NEW n \in States \cup Finals, VisitNode(n) PROVE OffsetsInv'
  BY <1>1, <1>3, PeelingOffsetsInv DEF VisitNode
<1>4. CASE EndLevel
  BY <1>1, <1>4, PeelingOffsetsInv DEF EndLevel
<1>5. CASE EndXoredHeaderSets
  BY <1>1, <1>5, EndXoredOffsetsInv
<1>6. CASE EvaluateState
  <2>1. phase = "unroll" /\ phase' = "unroll" /\ exec' = exec
    BY <1>6 DEF EvaluateState
  <2>2. FollowInv'
    BY <2>1 DEF OffsetsInv, FollowInv
  <2> QED BY <1>1, <1>6, <2>2, EvaluateStateChainInv, EvaluateStateUnrollInv DEF OffsetsInv
<1>7. CASE EndUnroll
  BY <1>1, <1>7, EndUnrollOffsetsInv
<1>8. CASE ExecExtract \/ ExecSelect
  BY <1>1, <1>8, ExecOffsetsInv
<1>9. CASE UNCHANGED vars
  <2>1. /\ UNCHANGED <<next, extracts, phase, level, toRun, unrolled, finalOffsets,
                        acceptOffsets, error, exec>>
    BY <1>9 DEF vars, program, xoredVars, unrollVars
  <2>2. ChainInv' /\ MaxInv' /\ Pending' = Pending
    BY <2>1 DEF OffsetsInv, ChainInv, MaxInv, Pending, Entry
  <2>3. \A e : Extracts(e)' = Extracts(e) /\ After(e)' = After(e)
    BY <2>1, ExtractsUnchanged
  <2>4. \A e : Evaluated(e)' = Evaluated(e)
    BY <2>1, <2>3 DEF Evaluated
  <2>5. UnrollInv'
    BY <2>1, <2>2, <2>4 DEF OffsetsInv, UnrollInv, Entry, StartInfo
  <2>6. FollowInv'
    BY <2>1, <2>3 DEF OffsetsInv, FollowInv
  <2> QED BY <1>1, <2>2, <2>5, <2>6 DEF OffsetsInv
<1> QED BY <1>2, <1>3, <1>4, <1>5, <1>6, <1>7, <1>8, <1>9 DEF Next, Pass

LEMMA OffsetsInvSound == ASSUME TypeOK, OffsetsInv PROVE OffsetsSound
<1> SUFFICES ASSUME phase = "exec", ~error
             PROVE  /\ exec.offset <= PktMaxOffset
                    /\ exec.state = "accept" => exec.offset \in acceptOffsets
                    /\ ~exec.overwritten
  BY DEF OffsetsSound
<1>1. PICK e \in unrolled :
        IF exec.state \in States
        THEN /\ e.state = exec.state /\ exec.pos <= Len(extracts[e.state]) + 1
             /\ Extracts(e)[exec.pos - 1] = [offset |-> exec.offset, valid |-> exec.valid,
                                             overwritten |-> FALSE]
             /\ ~exec.overwritten
        ELSE /\ exec.state = "accept" => e.state = "accept"
             /\ e.offset = exec.offset /\ ~exec.overwritten
  BY DEF OffsetsInv, FollowInv
<1>2. Pending = {}
  BY DEF OffsetsInv, FollowInv, Pending
<1>3. \A f \in unrolled : Evaluated(f) /\ \E o \in finalOffsets : f.offset <= o
  BY <1>2 DEF OffsetsInv, UnrollInv
<1>4. exec \in [state : States \cup Finals, pos : Nat \ {0}, offset : Nat,
                valid : SUBSET Headers, overwritten : BOOLEAN]
  BY DEF TypeOK
<1>5. \E o \in finalOffsets : exec.offset <= o
  <2>1. CASE exec.state \notin States
    BY <1>1, <1>3, <2>1
  <2>2. CASE exec.state \in States
    <3>1. /\ extracts[e.state] \in Seq(Headers) /\ e.offset \in Nat /\ e.valid \in SUBSET Headers
          /\ e.state \in States
      BY <1>1, <2>2 DEF TypeOK, StateEntry
    <3>2. exec.pos - 1 \in 0 .. Len(extracts[e.state])
      BY <1>1, <1>4, <2>2, <3>1
    <3>3. Extracts(e)[exec.pos - 1].offset = exec.offset
      BY <1>1, <2>2
    <3>4. exec.offset <= After(e).offset /\ After(e) \in Values
      BY <3>1, <3>2, <3>3, ExtractsGrow
    <3>5. PICK t \in next[e.state] : TRUE
      BY <3>1 DEF TypeOK
    <3>6. [state |-> t, offset |-> After(e).offset, valid |-> After(e).valid] \in unrolled
      <4>1. e.state \notin Finals
        BY <3>1, ParserUnrollAssumption
      <4> QED BY <1>3, <3>5, <4>1 DEF Evaluated
    <3>7. PICK o \in finalOffsets : After(e).offset <= o
      BY <1>3, <3>6
    <3>8. After(e).offset \in Nat /\ o \in Nat /\ exec.offset \in Nat
      BY <1>4, <3>4 DEF Values, TypeOK
    <3> QED BY <3>4, <3>7, <3>8
  <2> QED BY <2>1, <2>2
<1>6. exec.offset <= PktMaxOffset
  <2>1. PICK o \in finalOffsets : exec.offset <= o
    BY <1>5
  <2>2. \E m \in finalOffsets : \A p \in finalOffsets : p <= m
    BY <2>1 DEF OffsetsInv, MaxInv
  <2>3. PktMaxOffset \in finalOffsets /\ \A p \in finalOffsets : p <= PktMaxOffset
    BY <2>1, <2>2 DEF PktMaxOffset
  <2>4. o <= PktMaxOffset /\ o \in Nat /\ PktMaxOffset \in Nat /\ exec.offset \in Nat
    BY <1>4, <2>3 DEF TypeOK
  <2> QED BY <2>1, <2>4
<1>7. ASSUME exec.state = "accept" PROVE exec.offset \in acceptOffsets
  <2>1. "accept" \in Finals /\ "accept" \notin States
    BY ParserUnrollAssumption DEF Finals
  <2>2. e.state = "accept" /\ e.offset = exec.offset
    BY <1>1, <1>7, <2>1
  <2> QED BY <1>3, <2>1, <2>2 DEF Evaluated
<1> QED BY <1>1, <1>6, <1>7

\* The symbolic interpreter evaluates every path of the parser: the worklist and the
\* infos evaluated always cover the successors of what was evaluated, no offset is lost,
\* and an execution is at some extract of an info evaluated.
THEOREM UnrollingFollowsPaths == Spec => []OffsetsInv
<1>1. Init => OffsetsInv
  BY InitOffsetsInv
<1>2. TypeOK /\ OffsetsInv /\ [Next]_vars => OffsetsInv'
  BY NextOffsetsInv
<1> QED BY <1>1, <1>2, UnrollTypeCorrect, PTL DEF Spec

\* For every parser that ParsersUnroll accepts, no execution reads beyond getPktMaxOffset,
\* from which the byte stack is sized, none accepts at an offset outside of
\* getAcceptedPktOffsets, from which the tables of the packages applied next are made,
\* and none overwrites a header.
THEOREM OffsetsAreSound == Spec => []OffsetsSound
<1>1. TypeOK /\ OffsetsInv => OffsetsSound
  BY OffsetsInvSound
<1> QED BY <1>1, UnrollTypeCorrect, UnrollingFollowsPaths, PTL

====
