---- MODULE MC_validity ----
(***************************************************************************)
(* A control that pushes one label, pops it again on a path, or replaces   *)
(* it by the other label.  Paths without operations have no record.        *)
(***************************************************************************)
EXTENDS HdrToStructs

MCRecords ==
  {[first |-> {"mpls0"}, second |-> {}],
   [first |-> {}, second |-> {"mpls0"}],
   [first |-> {"mpls1"}, second |-> {"mpls0"}]}

====
