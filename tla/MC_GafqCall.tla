---------------------------- MODULE MC_GafqCall ----------------------------
(* GafqCall with its limits scaled down: the CallInfo array starts with   *)
(* two entries and may hold three (so one growth step overflows and the   *)
(* overflow restore lands exactly on the limit), and gafqD_call nests at  *)
(* most four deep.                                                        *)
EXTENDS GafqCall

MC_MAXCCALLS_DEPTH == 4
MC_MAXCALLS == 3
MC_BASIC_CI_SIZE == 2
MC_MINSTACK == 1
MC_MAXSTACKSIZE == 2
MC_NUMPARAMS == 1
\* Callers of the error-handling run ask for one result or all of them.
MC_NResults_ERR == {MULTRET, 1}
MC_STACK_SLOTS == 8
MC_STACK_SLOTS_ERR == 7
MC_MAXSTACKSIZE_ERR == 1
MC_NUMPARAMS_ERR == 0
\* Two finalizers: the second must still run after the first fails.
MC_NUDATA == 2
=============================================================================
