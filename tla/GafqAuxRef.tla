----------------------------- MODULE GafqAuxRef -----------------------------
(***************************************************************************)
(* References (gauxlib.c gafqL_ref / gafqL_unref): a table t hands out     *)
(* integer keys for values.  t[FREELIST_REF] (t[0]) heads a list of freed  *)
(* keys threaded through the freed slots themselves; with no freed key a   *)
(* new one is #t + 1.  The client holds the references it was given and    *)
(* releases only those.  A reference to nil (GAFQ_REFNIL) and gafqL_unref  *)
(* of a negative reference change nothing and are left out.                *)
(***************************************************************************)
EXTENDS Integers, Sequences, SequencesExt

CONSTANT NSLOTS   \* most keys handed out at once (model bound)

ASSUME NSLOTS \in Nat \ {0}

FREELIST_REF == 0
\* Entries are integers: a key (a free-list link) or one of two codes.
Nil == -1         \* an absent entry
Val == -2         \* the client's value stored under a live reference

VARIABLES
  t,        \* t[0 .. NSLOTS + 1]: Nil, Val or an integer (a free-list link)
  held,     \* held[r]: how many holders the client has given reference r
  issued    \* references handed out at least once (history)

vars == <<t, held, issued>>

Held == {r \in DOMAIN held : held[r] > 0}

\* gafq_tointeger: a number as itself, anything else as 0.
ToInteger(x) == IF x >= 0 THEN x ELSE 0

\* gafq_objlen on a table (gafqH_getn, not in the repository): the spec's
\* length operator, which may return any border of t.
Borders == {n \in 0..NSLOTS : (n = 0 \/ t[n] # Nil) /\ t[n + 1] = Nil}

\* Fault variant: a new key is #t, without the increment.
Ref_NoIncrement ==
  LET ref == ToInteger(t[FREELIST_REF]) IN
  /\ IF ref # 0
     THEN /\ t' = [t EXCEPT ![FREELIST_REF] = t[ref], ![ref] = Val]
          /\ held' = [held EXCEPT ![ref] = @ + 1]
          /\ issued' = issued \cup {ref}
     ELSE \E n \in Borders :
            /\ n < NSLOTS
            /\ t' = [t EXCEPT ![n] = Val]
            /\ held' = [held EXCEPT ![n] = @ + 1]
            /\ issued' = issued \cup {n}

\* Fault variant: the head of the free list is taken but t[0] is not advanced.
Ref_KeepHead ==
  LET ref == ToInteger(t[FREELIST_REF]) IN
  /\ IF ref # 0
     THEN /\ t' = [t EXCEPT ![ref] = Val]
          /\ held' = [held EXCEPT ![ref] = @ + 1]
          /\ issued' = issued \cup {ref}
     ELSE \E n \in Borders :
            /\ n < NSLOTS
            /\ t' = [t EXCEPT ![n + 1] = Val]
            /\ held' = [held EXCEPT ![n + 1] = @ + 1]
            /\ issued' = issued \cup {n + 1}

\* gafqL_ref: take the head of the free list (t[0] = t[ref]), or #t + 1, and
\* store the value there.
Ref ==
  LET ref == ToInteger(t[FREELIST_REF]) IN
  /\ IF ref # 0
     THEN /\ t' = [t EXCEPT ![FREELIST_REF] = t[ref], ![ref] = Val]
          /\ held' = [held EXCEPT ![ref] = @ + 1]
          /\ issued' = issued \cup {ref}
     ELSE \E n \in Borders :
            /\ n < NSLOTS
            /\ t' = [t EXCEPT ![n + 1] = Val]
            /\ held' = [held EXCEPT ![n + 1] = @ + 1]
            /\ issued' = issued \cup {n + 1}

\* Fault variant: the two stores of gafqL_unref in the opposite order.
Unref_Swapped ==
  \E ref \in Held :
    /\ t' = [t EXCEPT ![FREELIST_REF] = ref, ![ref] = ref]
    /\ held' = [held EXCEPT ![ref] = @ - 1]
    /\ UNCHANGED issued

\* gafqL_unref of a held reference: t[ref] = t[0], then t[0] = ref.
Unref ==
  \E ref \in Held :
    /\ t' = [t EXCEPT ![ref] = t[FREELIST_REF], ![FREELIST_REF] = ref]
    /\ held' = [held EXCEPT ![ref] = @ - 1]
    /\ UNCHANGED issued

Init ==
  /\ t = [i \in 0..NSLOTS + 1 |-> Nil]
  /\ held = [r \in 0..NSLOTS + 1 |-> 0]
  /\ issued = {}

Next == Ref \/ Unref

Spec == Init /\ [][Next]_vars

-----------------------------------------------------------------------------
TypeOK ==
  /\ t \in [0..NSLOTS + 1 -> {Nil, Val} \cup 0..NSLOTS]
  /\ held \in [0..NSLOTS + 1 -> Nat]
  /\ Held \subseteq 1..NSLOTS
  /\ issued \subseteq 1..NSLOTS

\* The keys met following the links from t[0], at most NSLOTS + 1 of them.
RECURSIVE Follow(_, _)
Follow(x, k) ==
  IF k = 0 \/ ToInteger(x) = 0 THEN <<>>
  ELSE <<ToInteger(x)>> \o Follow(t[ToInteger(x)], k - 1)

FreeList == Follow(t[FREELIST_REF], NSLOTS + 1)

\* Every reference the client holds was handed out once and still names its
\* value: no later gafqL_ref (taking a free key, or #t + 1) gave it out
\* again or overwrote it, and no gafqL_unref of another reference did.
RefsLive == \A ref \in Held : held[ref] = 1 /\ t[ref] = Val

\* The free list is a chain without repetition through exactly the keys
\* handed out and released since: no released key leaks and none is free
\* twice (which would hand it out to two holders).
FreeListExact ==
  /\ IsInjective(FreeList)
  /\ ToSet(FreeList) = issued \ Held
=============================================================================
