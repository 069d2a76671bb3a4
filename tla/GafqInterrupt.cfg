\* Run "interrupts": Ctrl-C (laction, lstop, docall) over the coroutine
\* library at its C-level and stack limits; the resume chain keeps its
\* accounting and costatus its "normal" threads, also when a Ctrl-C
\* hooks a coroutine that coroutine.create is making.
CONSTANTS
  main = main
  c1 = c1
  c2 = c2
  c3 = c3
  Main <- main
  Coroutines <- MC_Coroutines
  MAXCCALLS <- MC_MAXCCALLS_TIGHT
  MAXCSTACK <- MC_MAXCSTACK_TIGHT
  MAXVALS <- MC_MAXVALS_TIGHT
  BOUNDARIES <- MC_BOUNDARIES
  NCHUNKS <- MC_NCHUNKS
  NSIGS <- MC_NSIGS
SPECIFICATION ISpec
INVARIANTS ResumeChainStatus CCallsNest
