\* Run "auxlib": gafqL_ref/gafqL_unref and the string buffer, interleaved.
CONSTANTS
  a = a
  b = b
SPECIFICATION Spec
INVARIANTS TypeOK RefsLive FreeListExact ContentsInOrder LevelsBounded
