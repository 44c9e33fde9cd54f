---- MODULE HdrToStructs_proof ----
(***************************************************************************)
(* The flags of HdrToStructs implement header validity, for any set of     *)
(* headers and records, as long as the control does not ask for the        *)
(* validity of a parsed header it has set invalid.  What the deparser      *)
(* emits is bound to the validity for packets whose operations have a      *)
(* record only: other packets miss the entries of the deparser's table.    *)
(***************************************************************************)
EXTENDS HdrToStructs, TLAPS

\* FlagInv is preserved by every step of the generated package.
LEMMA FlagStep == FlagInv /\ [Next]_vars => FlagInv'
<1> SUFFICES ASSUME FlagInv, [Next]_vars PROVE FlagInv'
  OBVIOUS
<1>1. CASE ClearHdrVop
  BY <1>1 DEF ClearHdrVop, FlagInv
<1>2. CASE InitParser
  BY <1>2 DEF InitParser, FlagInv
<1>3. CASE EndParser
  BY <1>3 DEF EndParser, FlagInv, flags
<1>4. CASE Deparse
  BY <1>4 DEF Deparse, FlagInv, flags
<1>5. ASSUME NEW h \in Headers, Extract(h) PROVE FlagInv'
  BY <1>5 DEF Extract, FlagInv
<1>6. ASSUME NEW h \in Headers, SetValid(h) PROVE FlagInv'
  BY <1>6 DEF SetValid, FlagInv
<1>7. ASSUME NEW h \in Headers, SetInvalid(h) PROVE FlagInv'
  BY <1>7 DEF SetInvalid, FlagInv
<1>8. ASSUME NEW h \in Headers, IsValid(h) PROVE FlagInv'
  BY <1>8 DEF IsValid, FlagInv, flags
<1>9. CASE UNCHANGED vars
  BY <1>9 DEF vars, flags, FlagInv
<1> QED
  BY <1>1, <1>2, <1>3, <1>4, <1>5, <1>6, <1>7, <1>8, <1>9 DEF Next

\* What two flags of a header say together never contradicts: once
\* CPackageToControl's assignments have run, h_sv and h_siv are not both set.
THEOREM FlagsNeverContradict == Spec => []FlagInv
<1>1. Init => FlagInv
  BY FlagAssumption DEF Init, FlagInv
<1> QED
  BY <1>1, FlagStep, PTL DEF Spec

\* The headers with operations are headers of the package.
LEMMA OpKeysType ==
  /\ OpKeys("first") \subseteq Headers /\ OpKeys("second") \subseteq Headers
  /\ OpHeaders \subseteq Headers
<1>1. \A ops \in Records : ops.first \subseteq Headers /\ ops.second \subseteq Headers
  BY FlagAssumption
<1>2. \A ops \in Records : ops["first"] \subseteq Headers /\ ops["second"] \subseteq Headers
  BY FlagAssumption
<1> QED
  BY <1>2 DEF OpKeys, OpHeaders

\* At the deparser the flags in hdr_vop are the last operation on each header.
LEMMA FlagsAreOps ==
  ASSUME FlagInv, stage = "control"
  PROVE  HV!With("valid") = sv /\ HV!With("invalid") = siv
<1>1. sv \subseteq Headers /\ siv \subseteq Headers /\ sv \cap siv = {}
  BY OpKeysType DEF FlagInv
<1>2. \A h \in Headers : LastOp[h] = OpOf(h)
  BY DEF LastOp
<1> QED
  BY <1>1, <1>2 DEF HV!With, OpOf

\* A combination of operations that has a record is looked up by all its flags.
LEMMA RecordedIsKey ==
  ASSUME FlagInv, [first |-> sv, second |-> siv] \in TableRecords
  PROVE  sv \cap OpKeys("first") = sv /\ siv \cap OpKeys("second") = siv
<1>1. CASE OpHeaders = {}
  BY <1>1 DEF FlagInv
<1>2. CASE OpHeaders # {}
  <2> DEFINE ops == [first |-> sv, second |-> siv]
  <2>1. ops \in Records /\ ops["first"] = sv /\ ops["second"] = siv
    BY <1>2 DEF TableRecords
  <2>2. sv \subseteq OpKeys("first")
    BY <2>1 DEF OpKeys
  <2>3. siv \subseteq OpKeys("second")
    BY <2>1 DEF OpKeys
  <2> QED
    BY <2>2, <2>3
<1> QED
  BY <1>1, <1>2

\* The deparser's table does what HeaderValidity promises of the deparser.
LEMMA DeparseStep ==
  ASSUME FlagInv, Deparse
  PROVE  HV!Emit
<1> DEFINE ops == [first |-> sv \cap OpKeys("first"), second |-> siv \cap OpKeys("second")]
           done == [first |-> sv, second |-> siv]
<1>1. /\ stage = "control" /\ stage' = "start" /\ UNCHANGED answer
      /\ emitted' = IF ops \in TableRecords THEN EmitData(ops) ELSE {}
  BY DEF Deparse
<1>2. Validity' = {}
  BY <1>1 DEF Validity
<1>3. LastOp' = HV!NoOp
  BY <1>1 DEF LastOp, HV!NoOp
<1>4. HV!With("valid") = sv /\ HV!With("invalid") = siv
  BY <1>1, FlagsAreOps
<1>5. CASE done \in TableRecords
  <2>1. ops = done
    BY <1>5, RecordedIsKey
  <2>2. ops.first = sv /\ ops.second = siv
    BY <2>1
  <2>3. emitted' = EmitData(ops)
    BY <1>1, <1>5, <2>1
  <2>4. EmitData(ops) = {h \in Headers : IF h \in v THEN h \notin siv ELSE h \in sv}
    BY <2>2 DEF EmitData
  <2>5. /\ sv \cap siv = {} /\ v \subseteq Headers /\ sv \subseteq Headers
        /\ Validity = (v \cup sv) \ siv
    BY <1>1, OpKeysType DEF FlagInv, Validity
  <2>6. emitted' = Validity
    BY <2>3, <2>4, <2>5
  <2> QED
    BY <1>1, <1>2, <1>3, <2>6 DEF HV!Emit
<1>6. CASE done \notin TableRecords
  <2>1. emitted' \in SUBSET Headers
    BY <1>1 DEF EmitData
  <2>2. [first |-> HV!With("valid"), second |-> HV!With("invalid")] \notin TableRecords
    BY <1>4, <1>6
  <2> QED
    BY <1>1, <1>2, <1>3, <2>1, <2>2 DEF HV!Emit
<1> QED
  BY <1>5, <1>6

\* A step of the generated package is a step of header validity, or none.
LEMMA ValidityStep ==
  ASSUME ReadInvalidated = FALSE, FlagInv, FlagInv', [Next]_vars
  PROVE  [HV!Next]_HV!vars
<1>1. CASE ClearHdrVop
  BY <1>1 DEF ClearHdrVop, HV!vars, Validity, LastOp, OpOf
<1>2. CASE InitParser
  BY <1>2 DEF InitParser, HV!vars, Validity, LastOp, OpOf, FlagInv
<1>3. CASE EndParser
  BY <1>3 DEF EndParser, HV!vars, Validity, LastOp, OpOf, flags
<1>4. CASE Deparse
  BY <1>4, DeparseStep DEF HV!Next
<1>5. ASSUME NEW h \in Headers, Extract(h) PROVE HV!Next
  <2>1. Validity' = Validity \cup {h}
    BY <1>5 DEF Extract, FlagInv, Validity
  <2>2. LastOp' = LastOp
    BY <1>5 DEF Extract, LastOp, OpOf
  <2> QED
    BY <1>5, <2>1, <2>2 DEF Extract, HV!Next, HV!Extract
<1>6. ASSUME NEW h \in Headers, SetValid(h) PROVE HV!Next
  <2>1. Validity' = Validity \cup {h}
    BY <1>6 DEF SetValid, Validity
  <2>2. LastOp' = [LastOp EXCEPT ![h] = "valid"]
    BY <1>6 DEF SetValid, LastOp, OpOf
  <2> QED
    BY <1>6, <2>1, <2>2 DEF SetValid, HV!Next, HV!SetValid
<1>7. ASSUME NEW h \in Headers, SetInvalid(h) PROVE HV!Next
  <2>1. Validity' = Validity \ {h}
    BY <1>7 DEF SetInvalid, Validity
  <2>2. LastOp' = [LastOp EXCEPT ![h] = "invalid"]
    BY <1>7 DEF SetInvalid, LastOp, OpOf
  <2> QED
    BY <1>7, <2>1, <2>2 DEF SetInvalid, HV!Next, HV!SetInvalid
<1>8. ASSUME NEW h \in Headers, IsValid(h) PROVE HV!Next
  <2>1. (h \in v \/ h \in sv) <=> h \in Validity
    BY <1>8 DEF IsValid, FlagInv, Validity
  <2>2. Validity' = Validity
    BY <1>8 DEF IsValid, flags, Validity
  <2>3. LastOp' = LastOp
    BY <1>8 DEF IsValid, flags, LastOp, OpOf
  <2>4. answer' = <<h, h \in Validity>>
    BY <1>8, <2>1 DEF IsValid
  <2> QED
    BY <1>8, <2>2, <2>3, <2>4 DEF IsValid, HV!Next, HV!Ask
<1>9. CASE UNCHANGED vars
  BY <1>9 DEF vars, flags, HV!vars, Validity, LastOp, OpOf
<1> QED
  BY <1>1, <1>2, <1>3, <1>4, <1>5, <1>6, <1>7, <1>8, <1>9 DEF Next

\* extract, setValid, setInvalid, isValid and the deparser, as ParserConverter,
\* HdrToStructs and DeparserConverter implement them with flags, behave as header
\* validity does, for any headers, any records and any number of packets, if isValid()
\* is not asked of a parsed header after setInvalid().  HeaderValidity binds the
\* deparser on packets whose operations have a record in xoredValidityOps.
THEOREM FlagsImplementValidity ==
  ReadInvalidated = FALSE => (Spec => ImplementsHeaderValidity)
<1> SUFFICES ASSUME ReadInvalidated = FALSE PROVE Spec => ImplementsHeaderValidity
  OBVIOUS
<1>1. Init => HV!Init
  BY DEF Init, HV!Init, Validity, LastOp, HV!NoOp, HV!Unasked
<1>2. FlagInv /\ FlagInv' /\ [Next]_vars => [HV!Next]_HV!vars
  BY ValidityStep
<1> QED
  BY <1>1, <1>2, FlagsNeverContradict, PTL DEF Spec, ImplementsHeaderValidity, HV!Spec
====
