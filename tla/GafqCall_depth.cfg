SPECIFICATION Spec
CONSTANTS
  MAXCCALLS <- MC_MAXCCALLS_DEPTH
  MAXCALLS <- MC_MAXCALLS
  BASIC_CI_SIZE <- MC_BASIC_CI_SIZE
  MINSTACK <- MC_MINSTACK
  MAXSTACKSIZE <- MC_MAXSTACKSIZE
  NUMPARAMS <- MC_NUMPARAMS
  STACK_SLOTS <- MC_STACK_SLOTS
  NUDATA <- MC_NUDATA
INVARIANTS
  DepthLimitOnlyWhileHandling
