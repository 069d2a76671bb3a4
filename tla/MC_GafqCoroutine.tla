--------------------------- MODULE MC_GafqCoroutine ---------------------------
EXTENDS GafqCoroutine

CONSTANTS main, c1, c2, c3

MC_Coroutines == {c1, c2}
MC_Coroutines3 == {c1, c2, c3}
\* Limits no resume chain of three coroutines can reach: each thread enters
\* at most one boundary, so nCcalls stays below 10 (main 2..3, then two more
\* per resumed coroutine), and at most 3 values meet a gafq_checkstack of 4.
MC_MAXCCALLS_WIDE3 == 10
MC_MAXCSTACK_WIDE == 4
\* Limits the chain reaches: main at 2 enters a boundary (3), resumes c1 (4),
\* which is then at GAFQI_MAXCCALLS; one result and the coroutine fill
\* a gafq_checkstack of 2.
MC_MAXCCALLS_TIGHT == 4
MC_MAXCSTACK_TIGHT == 2
MC_MAXVALS == 1
\* Two values overflow a gafq_checkstack of 2 on a fresh coroutine (1 + 2).
MC_MAXVALS_TIGHT == 2
MC_BOUNDARIES == 1
====
