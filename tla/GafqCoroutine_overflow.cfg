\* Run "resume_overflow_kills" (violation): a fresh coroutine resumed at the
\* C-level limit is reported dead without having run.
CONSTANTS
  main = main
  c1 = c1
  c2 = c2
  c3 = c3
  Main <- main
  Coroutines <- MC_Coroutines
  MAXCCALLS <- MC_MAXCCALLS_TIGHT
  MAXCSTACK <- MC_MAXCSTACK_TIGHT
  MAXVALS <- MC_MAXVALS
  BOUNDARIES <- MC_BOUNDARIES
SPECIFICATION Spec
PROPERTY OnlyRunningDies
