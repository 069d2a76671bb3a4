----------------------------- MODULE MC_GafqTable -----------------------------
EXTENDS GafqTable

\* Two values give ties and both orders of every compared pair; five
\* elements make auxsort partition (more than three elements) and recurse
\* into a part of two, and leave room for holes and an insert past #t + 1.
MC_Values == {1, 2}
MC_N == 5
\* Every consistent comparator over the values.
MC_StrictWeakOrders == {r \in SUBSET (MC_Values \X MC_Values) : StrictWeak(r)}

\* Four elements, the fewest for which auxsort partitions, with every
\* comparator function: any relation over the values and nil.
MC_N_ANY == 4
MC_AnyRelation == SUBSET ((MC_Values \cup {Nil}) \X (MC_Values \cup {Nil}))
====
