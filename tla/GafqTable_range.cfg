\* Run "sort_leaves_range": an inconsistent comparator makes table.sort
\* write outside 1 .. #t.
CONSTANTS
  Values <- MC_Values
  N <- MC_N_ANY
  Cmps <- MC_AnyRelation
SPECIFICATION Spec
PROPERTY SortWithinLength
