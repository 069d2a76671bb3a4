\* Run "dead_coroutine_resumed" (violation): "too many results to resume"
\* leaves a finished coroutine resumable.
CONSTANTS
  main = main
  c1 = c1
  c2 = c2
  c3 = c3
  Main <- main
  Coroutines <- MC_Coroutines
  MAXCCALLS <- MC_MAXCCALLS_TIGHT
  MAXCSTACK <- MC_MAXCSTACK_TIGHT
  MAXVALS <- MC_MAXVALS
  BOUNDARIES <- MC_BOUNDARIES
SPECIFICATION Spec
PROPERTY DeadIsFinal
