---- MODULE ParserUnroll ----
(***************************************************************************)
(* What ParsersUnroll computes of a micro_parser (midend/parserUnroll):    *)
(* CreateXoredHeaderSets peels the graph of the parser states level by     *)
(* level and collects, per level, the headers extracted there (the         *)
(* deparser table takes two headers of one level never to be parsed        *)
(* together), and ParserSymbolicInterpreter unrolls the states to find the *)
(* offsets at which the parser may stop.  Afterwards one execution of the  *)
(* parser runs, `exec', against which the results are checked.             *)
(***************************************************************************)
EXTENDS Integers, SequencesExt

CONSTANTS
  States,         \* parser states other than accept and reject
  Headers,        \* header instances
  Width,          \* their widths
  NextChoices,    \* for each state, the sets of states its select may name
  ExtractChoices  \* for each state, the sequences of headers it may extract

Start == "start"
Finals == {"accept", "reject"}

\* Every state has a transition: p4c adds `transition reject' where there is none.
ASSUME ParserUnrollAssumption ==
  /\ Start \in States /\ States \cap Finals = {} /\ IsFiniteSet(States)
  /\ Width \in [Headers -> Nat \ {0}]
  /\ \A s \in States : /\ NextChoices[s] \subseteq (SUBSET (States \cup Finals)) \ {{}}
                       /\ ExtractChoices[s] \subseteq Seq(Headers)

VARIABLES
  next, extracts,     \* the parser: select targets and extracts of each state
  phase,              \* "while", "visit" (CreateXoredHeaderSets), "unroll", "exec"
  nodes, edges,       \* callGraph
  zeroDegNodes,       \* nodes of the level being peeled, not yet removed
  xoredHeaderSet,     \* headers found in it so far
  xoredHeaderSets,    \* the levels' header sets (a vector, used as a set)
  parsedHeaders,
  round, level,       \* history: levels so far, the level each state was in
  toRun,              \* worklist of the symbolic interpreter
  unrolled,           \* ParserInfo::states: the infos made so far
  finalOffsets,       \* packet offsets of allPossileFinalValueMaps
  acceptOffsets,      \* and of acceptStateFinalValueMaps
  error,              \* ::error has been called
  exec                \* one execution of the parser

program == <<next, extracts>>
xoredVars == <<nodes, edges, zeroDegNodes, xoredHeaderSet, xoredHeaderSets,
               parsedHeaders, round, level>>
unrollVars == <<toRun, unrolled, finalOffsets, acceptOffsets, error>>
vars == <<program, phase, xoredVars, unrollVars, exec>>

----------------------------------------------------------------------------
(* CreateXoredHeaderSets::preorder(P4Parser)                               *)

\* AnalyzeParser: an edge per name of a state in a select; a state that neither
\* names one nor is named is not in the graph.
CallGraph == UNION {{s} \X next[s] : s \in States}
NodesOf(graph) == {e[1] : e \in graph} \cup {e[2] : e \in graph}

\* Mutant: nodes with one incoming edge too.
NodesWithFewIncomingEdges == {n \in nodes : Cardinality({e \in edges : e[2] = n}) <= 1}

NodesWithoutIncomingEdge == {n \in nodes : \A e \in edges : e[2] # n}

\* Mutant: only the edges into n.
RemoveIncoming(n) == {e \in edges : e[2] # n}

\* callGraph->remove(n): its edges
RemoveEdges(n) == {e \in edges : e[1] # n /\ e[2] # n}

\* Mutant: the set of the level before is not cleared.
StartLevelUncleared ==
  /\ phase = "while" /\ nodes # {}
  /\ zeroDegNodes' = NodesWithoutIncomingEdge
  /\ round' = IF zeroDegNodes' = {} THEN round ELSE round + 1
  /\ phase' = "visit"
  /\ UNCHANGED <<program, nodes, edges, xoredHeaderSet, xoredHeaderSets, parsedHeaders,
                 level, unrollVars, exec>>

\* One more round of the while loop.
StartLevel ==
  /\ phase = "while" /\ nodes # {}
  /\ zeroDegNodes' = NodesWithoutIncomingEdge
  /\ xoredHeaderSet' = {}
  /\ round' = IF zeroDegNodes' = {} THEN round ELSE round + 1
  /\ phase' = "visit"
  /\ UNCHANGED <<program, nodes, edges, xoredHeaderSets, parsedHeaders, level,
                 unrollVars, exec>>

\* Mutant: a state's first extract only.
FirstHeaderOf(s) == IF s \in States /\ extracts[s] # <<>> THEN {Head(extracts[s])} ELSE {}

HeadersOf(s) == IF s \in States THEN ToSet(extracts[s]) ELSE {}

\* Mutant: the headers are not added to parsedHeaders.
VisitNodeForgets(n) ==
  /\ phase = "visit" /\ n \in zeroDegNodes
  /\ zeroDegNodes' = zeroDegNodes \ {n}
  /\ xoredHeaderSet' = xoredHeaderSet \cup HeadersOf(n)
  /\ nodes' = nodes \ {n}
  /\ edges' = RemoveEdges(n)
  /\ level' = [level EXCEPT ![n] = round]
  /\ UNCHANGED <<program, phase, xoredHeaderSets, parsedHeaders, round, unrollVars, exec>>

\* visit(n) collects the headers of its extract calls; callGraph->remove(n)
VisitNode(n) ==
  /\ phase = "visit" /\ n \in zeroDegNodes
  /\ zeroDegNodes' = zeroDegNodes \ {n}
  /\ xoredHeaderSet' = xoredHeaderSet \cup HeadersOf(n)
  /\ parsedHeaders' = parsedHeaders \cup HeadersOf(n)
  /\ nodes' = nodes \ {n}
  /\ edges' = RemoveEdges(n)
  /\ level' = [level EXCEPT ![n] = round]
  /\ UNCHANGED <<program, phase, xoredHeaderSets, round, unrollVars, exec>>

EndLevel ==
  /\ phase = "visit" /\ zeroDegNodes = {}
  /\ xoredHeaderSets' = xoredHeaderSets \cup {xoredHeaderSet}
  /\ phase' = "while"
  /\ UNCHANGED <<program, nodes, edges, zeroDegNodes, xoredHeaderSet, parsedHeaders,
                 round, level, unrollVars, exec>>

\* A ParserStateInfo: state, packet offset and valid headers before it, and those of
\* its predecessors.
StartInfo == [state |-> Start, offset |-> 0, valid |-> {}, chain |-> <<>>]
Entry(info) == [state |-> info.state, offset |-> info.offset, valid |-> info.valid]

\* The while loop ends with the graph empty, and AnalyzeParser builds it again for
\* ParserConverter; ParserStructure::analyze follows, with the start state on the
\* worklist.
EndXoredHeaderSets ==
  /\ phase = "while" /\ nodes = {}
  /\ phase' = "unroll"
  /\ edges' = CallGraph /\ nodes' = NodesOf(CallGraph)
  /\ toRun' = <<StartInfo>> /\ unrolled' = {Entry(StartInfo)}
  /\ UNCHANGED <<program, zeroDegNodes, xoredHeaderSet, xoredHeaderSets, parsedHeaders,
                 round, level, finalOffsets, acceptOffsets, error, exec>>

----------------------------------------------------------------------------
(* ParserSymbolicInterpreter::run                                          *)

\* checkLoops: the nearest predecessor with the same state has the same packet
\* offset, or the same valid headers.
CheckLoops(info) ==
  LET same == {i \in DOMAIN info.chain : info.chain[i].state = info.state}
      near == CHOOSE i \in same : \A j \in same : j <= i
  IN same # {} /\ (info.chain[near].offset = info.offset
                     \/ info.chain[near].valid = info.valid)

\* Mutant: extracting into a valid header goes unnoticed.
ExtractUnchecked(v, h) == [v EXCEPT !.offset = @ + Width[h], !.valid = @ \cup {h}]

\* The statements of a state, up to the first extract into a valid header.
Extract(v, h) ==
  IF v.overwritten THEN v
  ELSE IF h \in v.valid THEN [v EXCEPT !.overwritten = TRUE]
  ELSE [v EXCEPT !.offset = @ + Width[h], !.valid = @ \cup {h}]

\* What they have done to the info's offset and headers after i of them.
Extracts(info) ==
  LET v[i \in 0 .. Len(extracts[info.state])] ==
        IF i = 0 THEN [offset |-> info.offset, valid |-> info.valid, overwritten |-> FALSE]
        ELSE Extract(v[i - 1], extracts[info.state][i])
  IN v

After(info) == Extracts(info)[Len(extracts[info.state])]

\* Mutant: the default case, the last of them, is missed.
SuccessorsButLast(info, v) ==
  LET cases == SetToSeq(next[info.state])
  IN [i \in 1 .. Len(cases) - 1 |->
        [state |-> cases[i], offset |-> v.offset, valid |-> v.valid,
         chain |-> Append(info.chain, Entry(info))]]

\* evaluateSelect: an info for every case, whatever the selected value.
Successors(info, v) ==
  LET cases == SetToSeq(next[info.state])
  IN [i \in DOMAIN cases |-> [state |-> cases[i], offset |-> v.offset, valid |-> v.valid,
                              chain |-> Append(info.chain, Entry(info))]]

\* One round of the while loop: the last info of the worklist.
EvaluateState ==
  /\ phase = "unroll" /\ toRun # <<>>
  /\ LET info == Last(toRun)
         rest == Front(toRun)
     IN IF CheckLoops(info)
        THEN /\ toRun' = rest /\ error' = TRUE
             /\ UNCHANGED <<unrolled, finalOffsets, acceptOffsets>>
        ELSE IF info.state \in Finals
        THEN /\ toRun' = rest
             /\ finalOffsets' = finalOffsets \cup {info.offset}
             /\ acceptOffsets' = IF info.state = "accept"
                                 THEN acceptOffsets \cup {info.offset} ELSE acceptOffsets
             /\ UNCHANGED <<unrolled, error>>
        ELSE LET v == After(info)
                 new == IF v.overwritten THEN <<>> ELSE Successors(info, v)
                 clone == \E i \in DOMAIN info.chain : info.chain[i].state = info.state
             IN /\ toRun' = rest \o new
                /\ unrolled' = unrolled \cup {Entry(new[i]) : i \in DOMAIN new}
                /\ error' = (error \/ (v.overwritten /\ ~clone))
                /\ UNCHANGED <<finalOffsets, acceptOffsets>>
  /\ UNCHANGED <<program, phase, xoredVars, exec>>

EndUnroll ==
  /\ phase = "unroll" /\ toRun = <<>>
  /\ phase' = "exec"
  /\ UNCHANGED <<program, xoredVars, unrollVars, exec>>

\* getPktMaxOffset
PktMaxOffset == IF finalOffsets = {} THEN 0
                ELSE CHOOSE o \in finalOffsets : \A p \in finalOffsets : p <= o

----------------------------------------------------------------------------
(* One execution of the parser, on some packet.                            *)

\* The next extract of the state; extracting into a valid header is an error,
\* on which the parser rejects.
ExecExtract ==
  /\ phase = "exec" /\ exec.state \in States
  /\ exec.pos <= Len(extracts[exec.state])
  /\ LET h == extracts[exec.state][exec.pos]
     IN exec' = IF h \in exec.valid
                THEN [exec EXCEPT !.state = "reject", !.overwritten = TRUE]
                ELSE [exec EXCEPT !.pos = @ + 1, !.offset = @ + Width[h],
                                  !.valid = @ \cup {h}]
  /\ UNCHANGED <<program, phase, xoredVars, unrollVars>>

\* A case of its select; when none matches the parser rejects.
ExecSelect ==
  /\ phase = "exec" /\ exec.state \in States
  /\ exec.pos > Len(extracts[exec.state])
  /\ \E t \in next[exec.state] \cup {"reject"} :
       exec' = [exec EXCEPT !.state = t, !.pos = 1]
  /\ UNCHANGED <<program, phase, xoredVars, unrollVars>>

Init ==
  /\ next \in [States -> UNION {NextChoices[s] : s \in States}]
  /\ \A s \in States : next[s] \in NextChoices[s]
  /\ extracts \in [States -> UNION {ExtractChoices[s] : s \in States}]
  /\ \A s \in States : extracts[s] \in ExtractChoices[s]
  /\ phase = "while"
  /\ edges = CallGraph /\ nodes = NodesOf(CallGraph)
  /\ zeroDegNodes = {} /\ xoredHeaderSet = {} /\ xoredHeaderSets = {} /\ parsedHeaders = {}
  /\ round = 0 /\ level = [s \in States \cup Finals |-> 0]
  /\ toRun = <<>> /\ unrolled = {} /\ finalOffsets = {} /\ acceptOffsets = {} /\ error = FALSE
  /\ exec = [state |-> Start, pos |-> 1, offset |-> 0, valid |-> {}, overwritten |-> FALSE]

Pass ==
  \/ StartLevel
  \/ \E n \in States \cup Finals : VisitNode(n)
  \/ EndLevel
  \/ EndXoredHeaderSets
  \/ EvaluateState
  \/ EndUnroll

Next == Pass \/ ExecExtract \/ ExecSelect

Spec == Init /\ [][Next]_vars

\* The compiler keeps running.
FairSpec == Spec /\ WF_vars(Pass)

----------------------------------------------------------------------------
StateEntry == [state : States \cup Finals, offset : Nat, valid : SUBSET Headers]
StateInfo == [state : States \cup Finals, offset : Nat, valid : SUBSET Headers,
              chain : Seq(StateEntry)]

\* The graph is one of parser states, the levels hold headers, the offsets are
\* naturals, and nothing is left to remove once a level is done.
TypeOK ==
  /\ next \in [States -> (SUBSET (States \cup Finals)) \ {{}}]
  /\ extracts \in [States -> Seq(Headers)]
  /\ phase \in {"while", "visit", "unroll", "exec"}
  /\ nodes \subseteq States \cup Finals
  /\ edges \subseteq States \X (States \cup Finals)
  /\ zeroDegNodes \subseteq IF phase = "visit" THEN nodes ELSE {}
  /\ xoredHeaderSet \subseteq parsedHeaders
  /\ xoredHeaderSets \subseteq SUBSET parsedHeaders
  /\ parsedHeaders \subseteq Headers
  /\ round \in Nat /\ level \in [States \cup Finals -> Nat]
  /\ toRun \in Seq(StateInfo) /\ unrolled \subseteq StateEntry
  /\ finalOffsets \subseteq Nat /\ acceptOffsets \subseteq finalOffsets
  /\ error \in BOOLEAN
  /\ exec \in [state : States \cup Finals, pos : Nat \ {0}, offset : Nat,
               valid : SUBSET Headers, overwritten : BOOLEAN]

\* DeparserConverter drops the table entries in which two headers of one set are
\* valid: no execution of the parser may extract two of them.
XoredSetsSound ==
  \A S \in xoredHeaderSets : \A g, h \in S \cap exec.valid : g = h

\* A state extracts at most one header, and a header is extracted in one state.
OneHeaderPerState ==
  \A s, t \in States :
    /\ Len(extracts[s]) <= 1
    /\ \A i \in DOMAIN extracts[s], j \in DOMAIN extracts[t] :
         extracts[s][i] = extracts[t][j] => s = t

\* For such parsers the levels of the graph exclude one another's headers.
ExclusiveLevels == OneHeaderPerState => XoredSetsSound

\* Once the pass has ended without an error, no execution reads further than
\* getPktMaxOffset, from which the size of the byte stack is computed; it accepts
\* at one of getAcceptedPktOffsets, for which the packages applied next have their
\* table entries; and no extract overwrites a header.
OffsetsSound ==
  phase = "exec" /\ ~error =>
    /\ exec.offset <= PktMaxOffset
    /\ exec.state = "accept" => exec.offset \in acceptOffsets
    /\ ~exec.overwritten

\* Every header an execution extracts is in parsedHeaders, outside of which the
\* deparser table has no entry with the header valid.
ParsedHeadersComplete == phase = "exec" => exec.valid \subseteq parsedHeaders

\* The pass ends on every parser.
Terminates == <>(phase = "exec")

----------------------------------------------------------------------------
(* The inductive invariant behind ExclusiveLevels.                          *)

\* The nodes that CreateXoredHeaderSets has not removed yet.
Unpeeled == IF phase \in {"unroll", "exec"} THEN {} ELSE nodes

\* A state leaves the graph in a later level than the states that lead to it.
LevelInv ==
  /\ \A n \in States \cup Finals : level[n] <= round
  /\ \A s \in States : \A t \in next[s] :
       /\ s \in Unpeeled /\ t \in Unpeeled => <<s, t>> \in edges
       /\ t \notin Unpeeled => s \notin Unpeeled /\ level[s] < level[t]
  /\ phase = "visit" =>
       /\ zeroDegNodes \subseteq Unpeeled
       /\ \A n \in zeroDegNodes : \A s \in States :
            n \in next[s] => s \notin Unpeeled /\ level[s] < round

\* A state of level l that has left the graph extracts h.
PeeledAt(h, l) == \E s \in States \ Unpeeled : h \in HeadersOf(s) /\ level[s] = l

\* In any parser: each set holds headers of one level's states, though others may extract
\* them too, and what an execution has extracted lies on a path to where it is.
PathInv ==
  /\ LevelInv
  /\ phase = "visit" => \A h \in xoredHeaderSet : PeeledAt(h, round)
  /\ \A S \in xoredHeaderSets : \E l \in 0 .. round : \A h \in S : PeeledAt(h, l)
  /\ phase # "exec" => exec.valid = {}
  /\ exec.state \in States =>
       \A h \in exec.valid : \E s \in States :
         h \in HeadersOf(s) /\ (level[s] < level[exec.state] \/ s = exec.state)

\* With one header per state: the headers of one set come from states of one level only.
SetsInv ==
  /\ phase = "visit" =>
       \A s \in States : \A h \in HeadersOf(s) \cap xoredHeaderSet :
         s \notin Unpeeled /\ level[s] = round
  /\ \A S \in xoredHeaderSets : \A s, t \in States :
       \A g \in S \cap HeadersOf(s), h \in S \cap HeadersOf(t) :
         s \notin Unpeeled /\ t \notin Unpeeled /\ level[s] = level[t]

\* With one header per state: an execution extracts at most one header in each level.
ExecInv ==
  /\ phase # "exec" => exec.valid = {}
  /\ \A h \in exec.valid : \E s \in States : h \in HeadersOf(s)
  /\ \A s, t \in States :
       \A g \in exec.valid \cap HeadersOf(s), h \in exec.valid \cap HeadersOf(t) :
         level[s] = level[t] => s = t
  /\ exec.state \in States =>
       \A s \in States : \A h \in exec.valid \cap HeadersOf(s) :
         level[s] < level[exec.state] \/ s = exec.state

XInv == LevelInv /\ SetsInv /\ ExecInv

\* The graph is peeled in the order of its paths, level by level, and an execution
\* follows it; where states extract one header each, it does so header by header.
PeelInv == PathInv /\ (OneHeaderPerState => XInv)

----------------------------------------------------------------------------
(* The inductive invariant behind OffsetsSound.                             *)

\* No info in the worklist repeats a state of its predecessors: a graph that was peeled
\* has no cycle.
ChainInv ==
  \A i \in DOMAIN toRun : \A j \in DOMAIN toRun[i].chain :
    toRun[i].chain[j].state \in States /\ level[toRun[i].chain[j].state] < level[toRun[i].state]

Pending == {Entry(toRun[i]) : i \in DOMAIN toRun}

\* What evaluateState leaves of an info.
Evaluated(e) ==
  IF e.state \in Finals
  THEN /\ e.offset \in finalOffsets
       /\ e.state = "accept" => e.offset \in acceptOffsets
  ELSE /\ ~After(e).overwritten
       /\ \A t \in next[e.state] :
            [state |-> t, offset |-> After(e).offset, valid |-> After(e).valid] \in unrolled

\* Every info is in the worklist or evaluated, and no offset is lost: a final offset, or
\* that of an info in the worklist, is as large.
UnrollInv ==
  phase \in {"unroll", "exec"} /\ ~error =>
    /\ Entry(StartInfo) \in unrolled
    /\ \A e \in unrolled :
         /\ e \in Pending \/ Evaluated(e)
         /\ \E o \in finalOffsets \cup {p.offset : p \in Pending} : e.offset <= o

MaxInv == finalOffsets = {} \/ \E o \in finalOffsets : \A p \in finalOffsets : p <= o

\* An execution is at some extract of an info that was evaluated.
FollowInv ==
  /\ phase # "unroll" => toRun = <<>>
  /\ phase # "exec" =>
       exec = [state |-> Start, pos |-> 1, offset |-> 0, valid |-> {}, overwritten |-> FALSE]
  /\ phase = "exec" /\ ~error =>
       \E e \in unrolled :
         IF exec.state \in States
         THEN /\ e.state = exec.state /\ exec.pos <= Len(extracts[e.state]) + 1
              /\ Extracts(e)[exec.pos - 1] = [offset |-> exec.offset, valid |-> exec.valid,
                                              overwritten |-> FALSE]
              /\ ~exec.overwritten
         ELSE /\ exec.state = "accept" => e.state = "accept"
              /\ e.offset = exec.offset /\ ~exec.overwritten

\* The worklist loses no path of the parser.
OffsetsInv == LevelInv /\ ChainInv /\ UnrollInv /\ MaxInv /\ FollowInv

====
