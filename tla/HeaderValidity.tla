---- MODULE HeaderValidity ----
(***************************************************************************)
(* What the header validity operations of a micro_control promise: a       *)
(* header is valid from when it is extracted or set valid until it is set  *)
(* invalid, and isValid() says whether it is.  The deparser emits the      *)
(* valid headers of a packet if the operations that were last on each      *)
(* header are among the recorded ones; what it emits of other packets is   *)
(* left open.  HdrToStructs implements this with three flags a header.     *)
(***************************************************************************)
CONSTANTS
  Headers,
  Recorded   \* records [first |-> headers last set valid, second |-> set invalid]

VARIABLES
  valid,    \* the valid headers
  lastOp,   \* the last operation on each header: "none", "valid" or "invalid"
  answer,   \* header and result of the last isValid()
  emitted   \* what the deparser emitted last

vars == <<valid, lastOp, answer, emitted>>

Unasked == <<>>

NoOp == [h \in Headers |-> "none"]

With(op) == {h \in Headers : lastOp[h] = op}

Init == valid = {} /\ lastOp = NoOp /\ answer = Unasked /\ emitted = {}

Extract(h) == valid' = valid \cup {h} /\ UNCHANGED <<lastOp, answer, emitted>>

SetValid(h) ==
  /\ valid' = valid \cup {h}
  /\ lastOp' = [lastOp EXCEPT ![h] = "valid"]
  /\ UNCHANGED <<answer, emitted>>

SetInvalid(h) ==
  /\ valid' = valid \ {h}
  /\ lastOp' = [lastOp EXCEPT ![h] = "invalid"]
  /\ UNCHANGED <<answer, emitted>>

Ask(h) == answer' = <<h, h \in valid>> /\ UNCHANGED <<valid, lastOp, emitted>>

\* The next packet starts without valid headers and without operations.
Emit ==
  /\ \/ emitted' = valid
     \/ /\ [first |-> With("valid"), second |-> With("invalid")] \notin Recorded
        /\ emitted' \in SUBSET Headers
  /\ valid' = {} /\ lastOp' = NoOp
  /\ UNCHANGED answer

Next ==
  \/ \E h \in Headers : Extract(h) \/ SetValid(h) \/ SetInvalid(h) \/ Ask(h)
  \/ Emit

Spec == Init /\ [][Next]_vars

====
