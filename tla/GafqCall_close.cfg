\* Run "close_stale_upvalues": a __gc finalizer that fails during gafq_close
\* leaves its open upvalues linked in L->openupval above the reset stack.
SPECIFICATION Spec
CONSTANTS
  MAXCCALLS <- MC_MAXCCALLS_DEPTH
  MAXCALLS <- MC_MAXCALLS
  BASIC_CI_SIZE <- MC_BASIC_CI_SIZE
  MINSTACK <- MC_MINSTACK
  MAXSTACKSIZE <- MC_MAXSTACKSIZE_ERR
  NUMPARAMS <- MC_NUMPARAMS_ERR
  STACK_SLOTS <- MC_STACK_SLOTS_ERR
  NResults <- MC_NResults_ERR
  NUDATA <- MC_NUDATA
INVARIANTS
  OpenUpvalList


