------------------------------ MODULE MC_GafqMeta ------------------------------
EXTENDS GafqMeta

\* Two tables: each may be the other's metatable, its own, or the __index
\* or __newindex of either, so chains, cycles and self-metatables occur.
MC_Tabs == {"t1", "t2"}
\* A chain through two tables and the number type ends within three
\* steps; a cycle reaches the cap.
MC_MAXTAGLOOP == 4
====
