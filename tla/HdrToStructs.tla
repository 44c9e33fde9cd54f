---- MODULE HdrToStructs ----
(***************************************************************************)
(* CSA::HdrToStructs (extensions/csa/midend/hdrToStructs): headers become  *)
(* structs, which have no validity.  Their validity is kept in three flags *)
(* that three passes maintain.  ParserConverter clears h_v and sets it     *)
(* where the parser extracts h, CPackageToControl clears h_sv and h_siv,   *)
(* HdrToStructs makes setValid() and setInvalid() assignments to these two *)
(* and isValid() an expression over the flags, and DeparserConverter keys  *)
(* its table by all three, with entries for the records of operations that *)
(* ControlBlockInterpreter found in the control.  The module runs the      *)
(* generated package on packet after packet.                               *)
(***************************************************************************)
CONSTANTS
  Headers,          \* header instances of the package
  Records,          \* records of ControlBlockInterpreter: headers last set valid, invalid
  ReadInvalidated   \* may isValid() follow setInvalid() of a parsed header?

ASSUME FlagAssumption ==
  /\ Records \subseteq [first : SUBSET Headers, second : SUBSET Headers]
  /\ ReadInvalidated \in BOOLEAN

VARIABLES
  stage,      \* "start", "init", "parser", "control"
  v,          \* headers whose h_v, a field of the parser metadata, is true
  sv, siv,    \* the same for h_sv and h_siv, fields of hdr_vop
  answer,     \* the last isValid() and its value
  emitted     \* headers the action that the deparser table chose writes

\* hdrOpKeyNames: a flag is a key where a record has its operation.
OpKeys(part) == UNION {ops[part] : ops \in Records}

\* hdr_vop has both flags of these headers and of no other: a package that sets or
\* reads the flags of another header does not type-check.
OpHeaders == OpKeys("first") \cup OpKeys("second")

\* hdrValidityOpKeyValues; without a key the table keys by h_v only.
NoOps == [first |-> {}, second |-> {}]
TableRecords == IF OpHeaders = {} THEN {NoOps} ELSE Records

flags == <<v, sv, siv>>
vars == <<stage, flags, answer, emitted>>

\* Mutant: only one of the two flags.
ClearsOne ==
  /\ stage = "start" /\ stage' = "init"
  /\ sv' = {}
  /\ UNCHANGED <<v, siv, answer, emitted>>

\* CPackageToControl: the package's first statements set all fields of hdr_vop.
ClearHdrVop ==
  /\ stage = "start" /\ stage' = "init"
  /\ sv' = {} /\ siv' = {}
  /\ UNCHANGED <<v, answer, emitted>>

\* The parser's init action.
InitParser ==
  /\ stage = "init" /\ stage' = "parser"
  /\ v' = {}
  /\ UNCHANGED <<sv, siv, answer, emitted>>

\* ExtractSubstitutor, on extract(p, h).
Extract(h) ==
  /\ stage = "parser" /\ h \notin v
  /\ v' = v \cup {h}
  /\ UNCHANGED <<stage, sv, siv, answer, emitted>>

EndParser == stage = "parser" /\ stage' = "control" /\ UNCHANGED <<flags, answer, emitted>>

SetValid(h) ==
  /\ stage = "control" /\ h \in OpHeaders
  /\ sv' = sv \cup {h} /\ siv' = siv \ {h}
  /\ UNCHANGED <<stage, v, answer, emitted>>

\* Mutant: the set-valid flag stays.
SetInvalidOnly(h) ==
  /\ stage = "control" /\ h \in OpHeaders
  /\ siv' = siv \cup {h}
  /\ UNCHANGED <<stage, v, sv, answer, emitted>>

SetInvalid(h) ==
  /\ stage = "control" /\ h \in OpHeaders
  /\ sv' = sv \ {h} /\ siv' = siv \cup {h}
  /\ UNCHANGED <<stage, v, answer, emitted>>

\* h_v || h_sv; h_siv is not read.
IsValid(h) ==
  /\ stage = "control" /\ h \in OpHeaders
  /\ ReadInvalidated \/ h \notin v \cap siv
  /\ answer' = <<h, h \in v \/ h \in sv>>
  /\ UNCHANGED <<stage, flags, emitted>>

\* multiplyHdrValidityOpsTable: the headers in emitData of a record's entries.
EmitData(ops) == {h \in Headers : IF h \in v THEN h \notin ops.second ELSE h \in ops.first}

\* A combination of operations without a record matches no entry, or, as a flag is
\* a key in its recorded polarity only, the entries of another record.  A miss runs
\* NoAction.  Every v has entries here: DeparserConverter has those that lack one.
Deparse ==
  /\ stage = "control" /\ stage' = "start"
  /\ LET ops == [first |-> sv \cap OpKeys("first"), second |-> siv \cap OpKeys("second")]
     IN  emitted' = IF ops \in TableRecords THEN EmitData(ops) ELSE {}
  /\ UNCHANGED <<flags, answer>>

\* Locals of the generated package: unset at first, left over afterwards.
Init ==
  /\ stage = "start"
  /\ v \in SUBSET Headers /\ sv \in SUBSET OpHeaders /\ siv \in SUBSET OpHeaders
  /\ answer = <<>> /\ emitted = {}

Next ==
  \/ ClearHdrVop
  \/ InitParser
  \/ EndParser
  \/ Deparse
  \/ \E h \in Headers : Extract(h) \/ SetValid(h) \/ SetInvalid(h) \/ IsValid(h)

Spec == Init /\ [][Next]_vars

----------------------------------------------------------------------------
\* The header validity the flags stand for: none before the parser starts, since
\* until then the flags hold what the packet before left in them.
Validity == IF stage \in {"start", "init"} THEN {} ELSE (v \cup sv) \ siv

\* The operation that was the last on a header: what hdr_vop is for.
OpOf(h) == IF h \in sv THEN "valid" ELSE IF h \in siv THEN "invalid" ELSE "none"
LastOp == [h \in Headers |-> IF stage = "start" THEN "none" ELSE OpOf(h)]

HV == INSTANCE HeaderValidity WITH
        Recorded <- TableRecords, valid <- Validity, lastOp <- LastOp

\* isValid() on every packet, and the deparser on every packet whose operations have
\* a record, see the validity that extract, setValid and setInvalid define, though no
\* pass keeps it: each flag is written by another one, and read together with what
\* the others left in theirs.  Nothing is promised of what the deparser emits for
\* other packets (controlBlockInterpreter.cpp:60 erases the record of those without
\* operations), except that the packet after them is not affected.
ImplementsHeaderValidity == HV!Spec

----------------------------------------------------------------------------
(* Why: once cleared, the two flags of a header are never both set.          *)

FlagInv ==
  /\ stage \in {"start", "init", "parser", "control"}
  /\ v \subseteq Headers /\ sv \subseteq OpHeaders /\ siv \subseteq OpHeaders
  /\ stage # "start" => sv \cap siv = {}
  /\ stage \in {"init", "parser"} => sv = {} /\ siv = {}

====
