---------------------------- MODULE MC_GafqAuxLib ----------------------------
(***************************************************************************)
(* A C function of the auxiliary library that builds a string in a         *)
(* gafqL_Buffer while it takes and releases references with gafqL_ref and  *)
(* gafqL_unref: the two components share no state, so any interleaving of *)
(* their calls is a behaviour, and each keeps its own invariants.          *)
(***************************************************************************)
CONSTANTS a, b

VARIABLES
  t, held, issued,             \* GafqAuxRef
  buf, lvls, added, result     \* GafqAuxBuffer

\* Four keys: enough for a free list of three threaded in any order, and a
\* released key in the middle of #t.
MC_NSLOTS == 4

MC_Chars == {a, b}
\* A two-byte array fills after two characters; with LIMIT 3 a third level
\* forces a concatenation; seven characters make up to three levels of
\* equal or growing lengths.
MC_BUFFERSIZE == 2
MC_LIMIT == 3
MC_MAXLEN == 7

Refs == INSTANCE GafqAuxRef WITH NSLOTS <- MC_NSLOTS
Buffer == INSTANCE GafqAuxBuffer
       WITH Chars <- MC_Chars, BUFFERSIZE <- MC_BUFFERSIZE,
            LIMIT <- MC_LIMIT, MAXLEN <- MC_MAXLEN

refvars == <<t, held, issued>>
bufvars == <<buf, lvls, added, result>>
vars == <<refvars, bufvars>>

Init == Refs!Init /\ Buffer!Init

\* gafqL_ref and gafqL_unref, the buffer left as it is.
Ref == Refs!Ref /\ UNCHANGED bufvars
Unref == Refs!Unref /\ UNCHANGED bufvars

\* The buffer calls, the reference table left as it is.
AddChar == Buffer!AddChar /\ UNCHANGED refvars
AddGString == Buffer!AddGString /\ UNCHANGED refvars
AddValue == Buffer!AddValue /\ UNCHANGED refvars
PushResult == Buffer!PushResult /\ UNCHANGED refvars

Next == Ref \/ Unref \/ AddChar \/ AddGString \/ AddValue \/ PushResult

Spec == Init /\ [][Next]_vars

\* Both components keep their types.
TypeOK == Refs!TypeOK /\ Buffer!TypeOK

\* gafqL_ref never hands out a reference the client still holds.
RefsLive == Refs!RefsLive

\* The free list of t[0] holds exactly the released keys.
FreeListExact == Refs!FreeListExact

\* The buffer's levels and array hold what was added, in order.
ContentsInOrder == Buffer!ContentsInOrder

\* adjuststack keeps the buffer below LIMIT stack levels.
LevelsBounded == Buffer!LevelsBounded
====
