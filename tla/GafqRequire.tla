------------------------------ MODULE GafqRequire ------------------------------
(***************************************************************************)
(* require and the package library (loadlib.c).  A script calls           *)
(* pcall(require, m) and package.loadlib; a module found by a loader runs *)
(* its body, which may call module(m), require another module (or         *)
(* itself), raise an error, and return nil, false or a value.  While a    *)
(* body runs _LOADED[m] holds the sentinel, so a require of m from inside *)
(* raises "loop or previous error loading module", and so does every      *)
(* later require of m once its body raised.  C modules come from one       *)
(* shared library P (a.so holding gafqopen_a and gafqopen_a_b);            *)
(* ll_register keeps its handle in the registry ("LOADLIB: P") and gctm    *)
(* unloads it when the state closes.                                       *)
(*                                                                         *)
(* A module's configuration (cfg[m]) says which loader finds it and what  *)
(* its body does, in this order: module(m), require(req), error, return.  *)
(* Values are abstract: "true", "false" and "value" (what a body          *)
(* returned), "modtbl" (the table module() made).                          *)
(***************************************************************************)
EXTENDS Naturals, Sequences, FiniteSetsExt

CONSTANTS
  Mods,     \* module names
  NoMod,    \* no module
  MAXREQ    \* calls the script makes (model bound)

ASSUME NoMod \notin Mods /\ MAXREQ \in Nat

\* Where the loaders find a module: "preload" (package.preload), "c"
\* (loader_C: P has gafqopen_m), or it is not found: "bad" (a Gafq file
\* with a syntax error, loaderror), "c_nosym" (loader_C: P lacks the
\* symbol), "croot_nosym" (loader_Croot: the root library lacks it),
\* "none" (no loader finds it).
Found == {"preload", "c"}
Configs ==
  [found : Found, mod : BOOLEAN, req : Mods \cup {NoMod}, fail : BOOLEAN,
   ret : {"nil", "false", "value"}]
  \cup
  [found : {"bad", "c_nosym", "croot_nosym", "none"}, mod : {FALSE},
   req : {NoMod}, fail : {FALSE}, ret : {"nil"}]

\* The steps of a body, in order.
Steps == <<"module", "require", "error", "return">>

VARIABLES
  cfg,       \* cfg[m]: the module's configuration (fixed)
  loaded,    \* _LOADED[m]: "absent", "sentinel", "true", "value", "modtbl"
  stk,       \* the bodies running, outermost first: [m, pc]
  lib,       \* registry entry for P: "none", "null" (NULL handle), "open"
  nreq,      \* calls the script made
  lastret,   \* the script's last require: [m, v], v a value or "error"
  finished,  \* finished[m]: _LOADED[m] when m's body returned, or "no"
  rqphase    \* "run", "closed" (gafq_close has run gctm)

rqvars == <<cfg, loaded, stk, lib, nreq, lastret, finished, rqphase>>

StepOn(m, i) ==
  CASE Steps[i] = "module" -> cfg[m].mod
    [] Steps[i] = "require" -> cfg[m].req # NoMod
    [] Steps[i] = "error" -> cfg[m].fail
    [] OTHER -> TRUE

\* The body's first step after step i.
NextStep(m, i) == Min({j \in i + 1..Len(Steps) : StepOn(m, j)})

Top == stk[Len(stk)]

-----------------------------------------------------------------------------
(* ll_loadfunc(L, P, sym): ll_register finds or creates the registry      *)
(* entry (NULL handle), ll_load (dlopen) runs if the handle is NULL; dl    *)
(* is whether dlopen succeeds.  Then ll_sym looks the symbol up.           *)

LoadFunc(dl) == lib' = IF lib = "open" \/ dl THEN "open" ELSE "null"

\* Its status: ERRLIB (library not loaded), ERRFUNC (no symbol) or 0.
LoadStat(dl, symok) ==
  IF lib' # "open" THEN "ERRLIB" ELSE IF symok THEN "OK" ELSE "ERRFUNC"

-----------------------------------------------------------------------------
(* Returning and raising.                                                  *)

\* require(m) returns v to its caller: the script, or the body waiting in
\* its "require" step, which goes on.
ReturnTo(m, v) ==
  IF stk = <<>>
  THEN /\ lastret' = [m |-> m, v |-> v] /\ UNCHANGED stk
  ELSE /\ stk' = [stk EXCEPT ![Len(stk)].pc = NextStep(Top.m, 2)]
       /\ UNCHANGED lastret

\* An error: no body catches it, it unwinds every body to the script's
\* pcall; _LOADED keeps what the bodies left (their sentinels included).
Raise(m) ==
  /\ lastret' = [m |-> IF stk = <<>> THEN m ELSE stk[1].m, v |-> "error"]
  /\ stk' = <<>>

-----------------------------------------------------------------------------
(* ll_require(m).                                                          *)

\* gafq_toboolean(_LOADED[m]): neither nil nor false.
IsTrue(v) == v \notin {"absent", "false"}

\* _LOADED[m] is true: the sentinel raises, a value is returned.
\* Fault variant: _LOADED[m] returned without the gafq_toboolean test.
RequireLoaded_NoToboolean(m) ==
  /\ IF loaded[m] = "sentinel" THEN Raise(m) ELSE ReturnTo(m, loaded[m])
  /\ UNCHANGED <<loaded, lib>>

RequireLoaded(m) ==
  /\ IsTrue(loaded[m])
  /\ IF loaded[m] = "sentinel" THEN Raise(m) ELSE ReturnTo(m, loaded[m])
  /\ UNCHANGED <<loaded, lib>>

\* Fault variant: the body runs with _LOADED[m] still empty.
Load_NoSentinel(m) ==
  /\ stk' = Append(stk, [m |-> m, pc |-> NextStep(m, 0)])
  /\ UNCHANGED <<loaded, lastret>>

\* The loaders in package.loaders order (preload, Gafq, C, Croot) found
\* the body: _LOADED[m] = sentinel, then gafq_call runs it.
Load(m) ==
  /\ loaded' = [loaded EXCEPT ![m] = "sentinel"]
  /\ stk' = Append(stk, [m |-> m, pc |-> NextStep(m, 0)])
  /\ UNCHANGED lastret

\* _LOADED[m] is nil or false: iterate over the loaders.  A loader that found a
\* file it cannot load raises (loaderror); loader_Croot's missing symbol
\* is a message, and with no loader left require raises "module not found".
RequireSearch(m) ==
  /\ ~IsTrue(loaded[m])
  /\ CASE cfg[m].found = "preload" ->
            Load(m) /\ UNCHANGED lib
       [] cfg[m].found = "c" ->
            \E dl \in BOOLEAN :
              /\ LoadFunc(dl)
              /\ IF LoadStat(dl, TRUE) = "OK" THEN Load(m)
                 ELSE Raise(m) /\ UNCHANGED loaded
       [] cfg[m].found \in {"c_nosym", "croot_nosym"} ->
            \E dl \in BOOLEAN :
              LoadFunc(dl) /\ Raise(m) /\ UNCHANGED loaded
       [] OTHER ->
            Raise(m) /\ UNCHANGED <<loaded, lib>>

\* The module required now: by the script (pcall(require, m)) when no body
\* runs, or by the innermost body in its "require" step.
Required(m) ==
  IF stk = <<>> THEN /\ rqphase = "run"
                     /\ nreq < MAXREQ
                     /\ nreq' = nreq + 1
                     /\ m \in Mods
                ELSE /\ Steps[Top.pc] = "require"
                     /\ m = cfg[Top.m].req
                     /\ UNCHANGED nreq

Require ==
  /\ \E m \in Mods :
       /\ Required(m)
       /\ RequireLoaded(m) \/ RequireSearch(m)
  /\ UNCHANGED <<cfg, finished, rqphase>>

-----------------------------------------------------------------------------
(* A body's steps.                                                         *)

\* ll_module(m): _LOADED[m] is the sentinel, not a table, so
\* gafqL_findtable makes the global table m, and _LOADED[m] = it; modinit
\* sets _M, _NAME, _PACKAGE; setfenv gives the body that environment.
ModuleCall ==
  /\ stk # <<>>
  /\ Steps[Top.pc] = "module"
  /\ loaded' = [loaded EXCEPT ![Top.m] = "modtbl"]
  /\ stk' = [stk EXCEPT ![Len(stk)].pc = NextStep(Top.m, 1)]
  /\ UNCHANGED <<cfg, lib, nreq, lastret, finished,
                 rqphase>>

\* The body raises an error.
BodyError ==
  /\ stk # <<>>
  /\ Steps[Top.pc] = "error"
  /\ Raise(Top.m)
  /\ UNCHANGED <<cfg, loaded, lib, nreq, finished,
                 rqphase>>

\* Fault variant: a body that returned nil leaves the sentinel.
BodyReturn_KeepSentinel ==
  /\ stk # <<>>
  /\ Steps[Top.pc] = "return"
  /\ LET m == Top.m
         set == IF cfg[m].ret # "nil" THEN cfg[m].ret ELSE loaded[m]
         v == set
     IN /\ loaded' = [loaded EXCEPT ![m] = v]
        /\ finished' = [finished EXCEPT ![m] = v]
        /\ IF Len(stk) = 1
           THEN lastret' = [m |-> m, v |-> v] /\ stk' = <<>>
           ELSE /\ stk' = [SubSeq(stk, 1, Len(stk) - 1) EXCEPT ![Len(stk) - 1].pc =
                            NextStep(stk[Len(stk) - 1].m, 2)]
                /\ UNCHANGED lastret
  /\ UNCHANGED <<cfg, lib, nreq, rqphase>>

\* The body returns: a non-nil result is stored in _LOADED[m]; if
\* _LOADED[m] is still the sentinel it becomes true; require returns it.
BodyReturn ==
  /\ stk # <<>>
  /\ Steps[Top.pc] = "return"
  /\ LET m == Top.m
         set == IF cfg[m].ret # "nil" THEN cfg[m].ret ELSE loaded[m]
         v == IF set = "sentinel" THEN "true" ELSE set
     IN /\ loaded' = [loaded EXCEPT ![m] = v]
        /\ finished' = [finished EXCEPT ![m] = v]
        /\ IF Len(stk) = 1
           THEN lastret' = [m |-> m, v |-> v] /\ stk' = <<>>
           ELSE /\ stk' = [SubSeq(stk, 1, Len(stk) - 1) EXCEPT ![Len(stk) - 1].pc =
                            NextStep(stk[Len(stk) - 1].m, 2)]
                /\ UNCHANGED lastret
  /\ UNCHANGED <<cfg, lib, nreq, rqphase>>

-----------------------------------------------------------------------------
(* package.loadlib and closing.                                            *)

\* package.loadlib(P, sym): ll_loadfunc; it returns the function, or nil,
\* the message and "open" or "init".
LoadLib ==
  /\ rqphase = "run"
  /\ stk = <<>>
  /\ nreq < MAXREQ
  /\ nreq' = nreq + 1
  /\ \E dl \in BOOLEAN : LoadFunc(dl)
  /\ UNCHANGED <<cfg, loaded, stk, lastret, finished, rqphase>>

\* gafq_close runs gctm on the registry's library handle: ll_unloadlib if
\* it is not NULL, then NULL.
RqCloseState ==
  /\ rqphase = "run"
  /\ stk = <<>>
  /\ rqphase' = "closed"
  /\ lib' = IF lib = "none" THEN "none" ELSE "null"
  /\ UNCHANGED <<cfg, loaded, stk, nreq, lastret, finished>>

RqClosed == rqphase = "closed" /\ UNCHANGED rqvars

\* gafqopen_package: package.loaded is _LOADED, with no entry for the
\* modules; no library is loaded.
RqInit ==
  /\ cfg \in [Mods -> Configs]
  /\ loaded = [m \in Mods |-> "absent"]
  /\ stk = <<>>
  /\ lib = "none"
  /\ nreq = 0
  /\ lastret = [m |-> NoMod, v |-> "none"]
  /\ finished = [m \in Mods |-> "no"]
  /\ rqphase = "run"

RqNext ==
  \/ Require \/ ModuleCall \/ BodyError \/ BodyReturn
  \/ LoadLib \/ RqCloseState \/ RqClosed

RqSpec == RqInit /\ [][RqNext]_rqvars

-----------------------------------------------------------------------------
(* Properties.                                                             *)

ModValues == {"true", "value", "modtbl"}
LoadedValues == ModValues \cup {"false"}

RqTypeOK ==
  /\ cfg \in [Mods -> Configs]
  /\ loaded \in [Mods -> {"absent", "sentinel"} \cup LoadedValues]
  /\ stk \in Seq([m : Mods, pc : 1..Len(Steps)])
  /\ lib \in {"none", "null", "open"}
  /\ nreq \in 0..MAXREQ
  /\ lastret \in [m : Mods \cup {NoMod},
                  v : {"sentinel", "none", "error"} \cup LoadedValues]
  /\ finished \in [Mods -> {"sentinel", "no"} \cup LoadedValues]
  /\ rqphase \in {"run", "closed"}

\* No module body is started while another run of it is active: the
\* sentinel turns every require of a module from inside its own load (a
\* cycle A -> B -> A included) into an error or, after module(m), into
\* the module's table, never into a second load.
NoReentrantLoad ==
  \A i, j \in DOMAIN stk : i # j => stk[i].m # stk[j].m

\* Once a body has returned a true value (a value it returned, the table
\* module() made, or true for nil), _LOADED[m] keeps it: later requires
\* return that module and never run the body again.  A body that returned
\* false leaves false, which gafq_toboolean reads as absent, so the next
\* require loads the module again.  The script's requires never return
\* the sentinel.
LoadedStable ==
  /\ \A m \in Mods : finished[m] \in ModValues => loaded[m] = finished[m]
  /\ lastret.v # "sentinel"

====
