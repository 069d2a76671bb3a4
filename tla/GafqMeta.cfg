\* Run "metamethods": gettable, settable, rawset and setmetatable on two
\* tables, with gafqH_set clearing the flags of the table it writes.
CONSTANTS
  Tabs <- MC_Tabs
  MAXTAGLOOP <- MC_MAXTAGLOOP
SPECIFICATION Spec
VIEW tables
INVARIANT CacheSound
PROPERTY AccessAsSpecified
