\* Run "libraries": table.insert, table.remove and table.sort against
\* sequence semantics; the io library's handles, closing and finalizers,
\* and file:read against what its formats mean; require and module with
\* every loader outcome; the value stack under the C API, calls and the
\* tag-method calls, with its reallocations.
CONSTANTS
  Values <- MC_Values
  N <- MC_N
  Cmps <- MC_StrictWeakOrders
  MAXH = 4
  BUFFERSIZE <- MC_BUFFERSIZE
  Mods = {A, B}
  NoMod = NoMod
  MAXREQ = 2
  MINSTACK = 2
  EXTRA = 5
  MAXCSTACK = 4
  MAXSTACKSIZE = 7
  NREGS = 2
  NUMPARAMS = 1
  NUPVALS = 1
  MAXCI = 3
  MAXN = 2
SPECIFICATION LibsSpec
INVARIANTS
  TypeOK IoTypeOK RqTypeOK StackTypeOK
  CloseMatchesOpen ReadAsDocumented
  NoReentrantLoad LoadedStable
  StackPointersValid WritesInBlock
PROPERTIES ListSemantics SortCorrect
