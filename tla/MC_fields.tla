---- MODULE MC_fields ----
EXTENDS FieldSlices
\* All layouts of a header of one, two or three bytes with up to three fields,
\* and of two bytes with four.
Sized(n, total) == {l \in [1 .. n -> 1 .. total] : StartsOf(0, l)[n + 1] = total}
MCLayouts == UNION {Sized(n, 8 * m) : n \in 1 .. 3, m \in 1 .. 3} \cup Sized(4, 16)
====
