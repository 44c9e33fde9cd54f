---- MODULE MC_bounds ----
EXTENDS StaticAnalyzer
MCWidth == [h \in Headers |-> 2]
MCPkgExt == [p \in Packages |-> 3]
MCPkgIncr == [p \in Packages |-> 1]
MCPkgDecr == [p \in Packages |-> 2]
====
