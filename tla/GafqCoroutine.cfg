\* Run "coroutines": with Ctrl-C handled around one docall, the coroutine
\* library refines CoroutineStatus while no C-level or stack limit is reached.
CONSTANTS
  main = main
  c1 = c1
  c2 = c2
  c3 = c3
  Main <- main
  Coroutines <- MC_Coroutines3
  MAXCCALLS <- MC_MAXCCALLS_WIDE3
  MAXCSTACK <- MC_MAXCSTACK_WIDE
  MAXVALS <- MC_MAXVALS
  BOUNDARIES <- MC_BOUNDARIES
  NCHUNKS <- MC_NCHUNKS_WIDE
  NSIGS <- MC_NSIGS_WIDE
SPECIFICATION ISpec
INVARIANTS InterruptTypeOK
PROPERTY AbsSpec
SYMMETRY MC_Symmetry
