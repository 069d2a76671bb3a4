------------------------------ MODULE GafqMeta ------------------------------
(***************************************************************************)
(* Table access through metamethods (gvm.c gafqV_gettable and              *)
(* gafqV_settable) and the cache of absent metamethods (ltm.c gafqT_gettm, *)
(* ltm.h fasttm): a metatable's flags hold one bit per event found absent, *)
(* so the next lookup skips the hash search.  Writes clear the flags of    *)
(* the table written.  Values are nil, the tables Tabs, a function F (a    *)
(* metamethod that is called) and a number V; the fields of a table are    *)
(* one ordinary key and the two event names.  gafqH_set is not in the      *)
(* repository; it is taken to clear the flags of the table it writes, as   *)
(* luaH_set of Lua 5.1 does (t->flags = 0).                                *)
(***************************************************************************)
EXTENDS Integers

CONSTANTS
  Tabs,            \* the tables
  MAXTAGLOOP       \* MAXTAGLOOP of gvm.c (100)

NIL == "nil"
F == "function"
V == "number"
KEY == "k"
INDEX == "__index"
NEWINDEX == "__newindex"
Events == {INDEX, NEWINDEX}
Fields == {KEY} \cup Events
\* What an ordinary key holds, and what an event field may hold.
KeyVals == {NIL, V}
TMVals == {NIL, F} \cup Tabs
Objects == {NIL, F, V} \cup Tabs
\* Outcomes of an access besides a value.
CALLED == "called"           \* the metamethod function was called
ERR_TYPE == "attempt to index"
ERR_LOOP == "loop in gettable"
ERR_SLOOP == "loop in settable"
DONE == "done"               \* settable stored the value

ASSUME MAXTAGLOOP \in Nat \ {0}

VARIABLES
  store,    \* store[h][f]: the raw contents of table h
  meta,     \* meta[h]: the metatable of h, or NIL
  typemt,   \* G(L)->mt of numbers, or NIL
  flags,    \* flags[h]: the events cached as absent in h (as a metatable)
  last      \* the last access: [op, obj, key, val, res]

vars == <<store, meta, typemt, flags, last>>

\* The state proper; last only records the call a step made.
tables == <<store, meta, typemt, flags>>

-----------------------------------------------------------------------------
\* Fault variant: gafqT_gettm sets the flag whether or not e is present.
FastTM_CacheAlways(fl, mt, e) ==
  IF mt = NIL \/ e \in fl[mt] THEN [tm |-> NIL, fl |-> fl]
  ELSE [tm |-> store[mt][e], fl |-> [fl EXCEPT ![mt] = @ \cup {e}]]

\* fasttm(L, mt, e): NIL without a metatable or with e cached absent;
\* otherwise gafqT_gettm looks e up and caches its absence.
FastTM(fl, mt, e) ==
  IF mt = NIL \/ e \in fl[mt] THEN [tm |-> NIL, fl |-> fl]
  ELSE IF store[mt][e] = NIL
       THEN [tm |-> NIL, fl |-> [fl EXCEPT ![mt] = @ \cup {e}]]
       ELSE [tm |-> store[mt][e], fl |-> fl]

\* gafqT_gettmbyobj for a value that is not a table: the metatable of its
\* type (only numbers are given one here), searched without the cache.
TMByObj(o, e) ==
  IF o = V /\ typemt # NIL THEN store[typemt][e] ELSE NIL

\* gafqV_gettable: the loop over t, then t = tm, at most MAXTAGLOOP times.
RECURSIVE GetTable(_, _, _, _)
GetTable(fl, t, key, loop) ==
  LET Follow(f, tm) ==
        IF tm = F THEN [res |-> CALLED, fl |-> f]
        ELSE GetTable(f, tm, key, loop + 1)
  IN
  IF loop >= MAXTAGLOOP THEN [res |-> ERR_LOOP, fl |-> fl]
  ELSE IF t \in Tabs
  THEN IF store[t][key] # NIL THEN [res |-> store[t][key], fl |-> fl]
       ELSE LET g == FastTM(fl, meta[t], INDEX) IN
            IF g.tm = NIL THEN [res |-> NIL, fl |-> g.fl]
            ELSE Follow(g.fl, g.tm)
  ELSE LET tm == TMByObj(t, INDEX) IN
       IF tm = NIL THEN [res |-> ERR_TYPE, fl |-> fl]
       ELSE Follow(fl, tm)

\* The flags after gafqH_set(L, h, key).
HSetFlags(fl, h) == [fl EXCEPT ![h] = {}]

\* Fault variant: gafqV_settable without h->flags = 0.
RECURSIVE SetTable_NoFlagReset(_, _, _, _)
SetTable_NoFlagReset(fl, t, key, loop) ==
  LET Follow(f, tm) ==
        IF tm = F THEN [res |-> CALLED, at |-> NIL, fl |-> f]
        ELSE SetTable_NoFlagReset(f, tm, key, loop + 1)
  IN
  IF loop >= MAXTAGLOOP THEN [res |-> ERR_SLOOP, at |-> NIL, fl |-> fl]
  ELSE IF t \in Tabs
  THEN LET fl1 == HSetFlags(fl, t)
           g == IF store[t][key] # NIL THEN [tm |-> NIL, fl |-> fl1]
                ELSE FastTM(fl1, meta[t], NEWINDEX)
       IN  IF g.tm = NIL THEN [res |-> DONE, at |-> t, fl |-> g.fl]
           ELSE Follow(g.fl, g.tm)
  ELSE LET tm == TMByObj(t, NEWINDEX) IN
       IF tm = NIL THEN [res |-> ERR_TYPE, at |-> NIL, fl |-> fl]
       ELSE Follow(fl, tm)

\* gafqV_settable: gafqH_set on a table; a raw store when the key was
\* present or there is no __newindex (then h->flags = 0), else call or
\* follow the metamethod.  The result names the table stored into (at).
RECURSIVE SetTable(_, _, _, _)
SetTable(fl, t, key, loop) ==
  LET Follow(f, tm) ==
        IF tm = F THEN [res |-> CALLED, at |-> NIL, fl |-> f]
        ELSE SetTable(f, tm, key, loop + 1)
  IN
  IF loop >= MAXTAGLOOP THEN [res |-> ERR_SLOOP, at |-> NIL, fl |-> fl]
  ELSE IF t \in Tabs
  THEN LET fl1 == HSetFlags(fl, t)
           g == IF store[t][key] # NIL THEN [tm |-> NIL, fl |-> fl1]
                ELSE FastTM(fl1, meta[t], NEWINDEX)
       IN  IF g.tm = NIL
           THEN [res |-> DONE, at |-> t, fl |-> [g.fl EXCEPT ![t] = {}]]
           ELSE Follow(g.fl, g.tm)
  ELSE LET tm == TMByObj(t, NEWINDEX) IN
       IF tm = NIL THEN [res |-> ERR_TYPE, at |-> NIL, fl |-> fl]
       ELSE Follow(fl, tm)

-----------------------------------------------------------------------------
(* The API calls.                                                           *)

ValsFor(key) == IF key = KEY THEN KeyVals ELSE TMVals

\* gafq_gettable / gafq_getfield (and OP_GETTABLE): gafqV_gettable.
Get ==
  \E o \in Objects, key \in Fields :
    LET r == GetTable(flags, o, key, 0) IN
    /\ flags' = r.fl
    /\ last' = [op |-> "get", obj |-> o, key |-> key, val |-> NIL, res |-> r.res]
    /\ UNCHANGED <<store, meta, typemt>>

\* gafq_settable / gafq_setfield (and OP_SETTABLE): gafqV_settable.
Set ==
  \E o \in Objects, key \in Fields :
    \E val \in ValsFor(key) :
      LET r == SetTable(flags, o, key, 0) IN
      /\ store' = IF r.at = NIL THEN store ELSE [store EXCEPT ![r.at][key] = val]
      /\ flags' = r.fl
      /\ last' = [op |-> "set", obj |-> o, key |-> key, val |-> val, res |-> r.res]
      /\ UNCHANGED <<meta, typemt>>

\* gafq_rawset: gafqH_set and the store, no metamethod.
RawSet ==
  \E h \in Tabs, key \in Fields :
    \E val \in ValsFor(key) :
      /\ store' = [store EXCEPT ![h][key] = val]
      /\ flags' = HSetFlags(flags, h)
      /\ last' = [op |-> "rawset", obj |-> h, key |-> key, val |-> val, res |-> DONE]
      /\ UNCHANGED <<meta, typemt>>

\* gafq_setmetatable: of a table, or of the type number (G(L)->mt).
SetMetatable ==
  \E o \in Tabs \cup {V}, mt \in Tabs \cup {NIL} :
    /\ IF o = V THEN typemt' = mt /\ UNCHANGED meta
                ELSE meta' = [meta EXCEPT ![o] = mt] /\ UNCHANGED typemt
    /\ last' = [op |-> "setmetatable", obj |-> o, key |-> NIL, val |-> mt, res |-> DONE]
    /\ UNCHANGED <<store, flags>>

\* New tables: empty, without metatable, no flags.
Init ==
  /\ store = [h \in Tabs |-> [f \in Fields |-> NIL]]
  /\ meta = [h \in Tabs |-> NIL]
  /\ typemt = NIL
  /\ flags = [h \in Tabs |-> {}]
  /\ last = [op |-> "none", obj |-> NIL, key |-> NIL, val |-> NIL, res |-> NIL]

Next == Get \/ Set \/ RawSet \/ SetMetatable

Spec == Init /\ [][Next]_vars

-----------------------------------------------------------------------------
\* The index and newindex events as spec.md (section 4.4) and the manual
\* define them, without any cache: the raw field if present, else the
\* handler in the metatable, a function being called and anything else
\* indexed in turn, at most MAXTAGLOOP times.
Handler(t, e) ==
  IF t \in Tabs THEN IF meta[t] = NIL THEN NIL ELSE store[meta[t]][e]
  ELSE TMByObj(t, e)

RECURSIVE RefGet(_, _, _)
RefGet(t, key, loop) ==
  IF loop >= MAXTAGLOOP THEN ERR_LOOP
  ELSE IF t \in Tabs /\ store[t][key] # NIL THEN store[t][key]
  ELSE IF Handler(t, INDEX) = NIL THEN IF t \in Tabs THEN NIL ELSE ERR_TYPE
  ELSE IF Handler(t, INDEX) = F THEN CALLED
  ELSE RefGet(Handler(t, INDEX), key, loop + 1)

RECURSIVE RefSet(_, _, _)
RefSet(t, key, loop) ==
  IF loop >= MAXTAGLOOP THEN [res |-> ERR_SLOOP, at |-> NIL]
  ELSE IF t \in Tabs /\ (store[t][key] # NIL \/ Handler(t, NEWINDEX) = NIL)
       THEN [res |-> DONE, at |-> t]
  ELSE IF Handler(t, NEWINDEX) = NIL THEN [res |-> ERR_TYPE, at |-> NIL]
  ELSE IF Handler(t, NEWINDEX) = F THEN [res |-> CALLED, at |-> NIL]
  ELSE RefSet(Handler(t, NEWINDEX), key, loop + 1)

\* A cached absence is true: every event whose bit is set in a table's
\* flags is absent from that table, whatever writes (settable, rawset,
\* a settable through the table's own __newindex lookup) happened since
\* gafqT_gettm set the bit.
CacheSound == \A h \in Tabs : \A e \in flags[h] : store[h][e] = NIL

\* Every gettable returns, and every settable stores, calls or raises, what
\* the uncached definition says in the state the call started from: the
\* absence cache is never observed.
AccessAsSpecified ==
  [][/\ last'.op = "get" => last'.res = RefGet(last'.obj, last'.key, 0)
     /\ last'.op = "set" =>
          LET r == RefSet(last'.obj, last'.key, 0) IN
          /\ last'.res = r.res
          /\ store' = IF r.at = NIL THEN store
                      ELSE [store EXCEPT ![r.at][last'.key] = last'.val]
  ]_vars
====
