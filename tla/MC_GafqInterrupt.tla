--------------------------- MODULE MC_GafqInterrupt ---------------------------
EXTENDS GafqInterrupt, MC_GafqCoroutine, TLC

\* Two docall calls: a Ctrl-C in the window after the first one's gafq_pcall
\* returned is still armed when the second starts.
MC_NCHUNKS == 2
\* Two Ctrl-Cs laction handles: one per docall, or both before one answer.
MC_NSIGS == 2
\* With three coroutines: one docall and one Ctrl-C.
MC_NCHUNKS_WIDE == 1
MC_NSIGS_WIDE == 1
\* The coroutines are interchangeable: coroutine.create picks any thread not
\* yet created, and no definition names one of them.
MC_Symmetry == Permutations(MC_Coroutines3)
====
