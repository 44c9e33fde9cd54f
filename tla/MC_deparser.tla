---- MODULE MC_deparser ----
EXTENDS DeparserConverter
MCWidth == [x |-> 1, h |-> 2, y |-> 1, z |-> 2]
MCEmits == <<"x", "h", "y", "z">>
MCXored == {{"x"}, {"h"}, {"y", "z"}}
MCAccepts == {S \in SUBSET Headers : ~({"y", "z"} \subseteq S)}
MCBytes == {PktByte(j) : j \in 0 .. StackSize - 1}
             \cup UNION {{HdrByte(h, s) : s \in 0 .. Width[h] - 1} : h \in Headers}
Records == {r \in [first : SUBSET Headers, second : SUBSET Headers] :
              /\ r.first \cap r.second = {} /\ r.first \cup r.second # {}}
\* What ControlBlockInterpreter returns: no record, one, or two that differ.
MCOps == {<<r>> : r \in Records}
           \cup {<<r, [first |-> {"x"}, second |-> {"h"}]>> : r \in
                   {q \in Records : q.first = {} /\ "x" \in q.second}}
\* Several start offsets where the control performs no operations, one elsewhere.
MCArguments == ({<<2>>} \X MCOps) \cup ({<<0>>, <<2>>, <<1, 4>>, <<0, 3>>, <<0, 4>>} \X {<<>>})
====
