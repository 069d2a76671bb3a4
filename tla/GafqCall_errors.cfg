\* Run "errors": the program inside gafq_cpcall (calls, metamethods, errors
\* and error functions, overflows) followed by gafq_close and its finalizers.
SPECIFICATION Spec
CONSTANTS
  MAXCCALLS <- MC_MAXCCALLS_DEPTH
  MAXCALLS <- MC_MAXCALLS
  BASIC_CI_SIZE <- MC_BASIC_CI_SIZE
  MINSTACK <- MC_MINSTACK
  MAXSTACKSIZE <- MC_MAXSTACKSIZE_ERR
  NUMPARAMS <- MC_NUMPARAMS_ERR
  STACK_SLOTS <- MC_STACK_SLOTS_ERR
  NResults <- MC_NResults_ERR
  NUDATA <- MC_NUDATA
INVARIANTS
  TypeOK
  OpenUpvalListWhileRunning
  CStackAccounting
  RecursionBounded
  EveryFinalizerOnce
