---------------------------- MODULE GafqAuxBuffer ----------------------------
(***************************************************************************)
(* The string buffer of the auxiliary library (gauxlib.c gafqL_Buffer):    *)
(* characters collect in a fixed array of BUFFERSIZE bytes; when it is     *)
(* full, or a long value is added, its contents are pushed on the Gafq     *)
(* stack as one more level, and adjuststack concatenates the top levels    *)
(* so that at most LIMIT of them occupy stack slots.  Strings are          *)
(* sequences over a small alphabet: their lengths steer adjuststack and    *)
(* their letters show the order of the pieces.                             *)
(***************************************************************************)
EXTENDS Integers, Sequences, SequencesExt

CONSTANTS
  Chars,        \* the alphabet of the strings added
  BUFFERSIZE,   \* GAFQL_BUFFERSIZE
  LIMIT,        \* LIMIT = GAFQ_MINSTACK / 2
  MAXLEN        \* most characters added to one buffer (model bound)

ASSUME BUFFERSIZE \in Nat \ {0} /\ LIMIT \in Nat /\ LIMIT >= 2 /\ MAXLEN \in Nat

VARIABLES
  buf,      \* B->buffer .. B->p
  lvls,     \* the B->lvl strings on the stack, lowest first
  added,    \* every character added so far, in order (history)
  result    \* the string gafqL_pushresult left, or <<>> before it

vars == <<buf, lvls, added, result>>

Strings(n) == UNION {[1..k -> Chars] : k \in 0..n}

\* emptybuffer: push a non-empty buffer as a new level and empty it.
EmptyBuffer(b) ==
  IF b.buf = <<>> THEN b ELSE [buf |-> <<>>, lvls |-> Append(b.lvls, b.buf)]

\* gafq_concat(L, k) of the top k levels (k >= 1).
ConcatTop(lv, k) ==
  SubSeq(lv, 1, Len(lv) - k) \o <<FlattenSeq(SubSeq(lv, Len(lv) - k + 1, Len(lv)))>>

\* Fault variant: the loop of adjuststack without the LIMIT test.
RECURSIVE ToGet_NoLimit(_, _, _)
ToGet_NoLimit(lv, toget, toplen) ==
  LET l == Len(lv[Len(lv) - toget]) IN
  IF toplen > l
  THEN IF toget + 1 < Len(lv) THEN ToGet_NoLimit(lv, toget + 1, toplen + l) ELSE toget + 1
  ELSE toget

\* The do-while loop of adjuststack: how many levels to concatenate.
RECURSIVE ToGet(_, _, _)
ToGet(lv, toget, toplen) ==
  LET l == Len(lv[Len(lv) - toget]) IN
  IF Len(lv) - toget + 1 >= LIMIT \/ toplen > l
  THEN IF toget + 1 < Len(lv) THEN ToGet(lv, toget + 1, toplen + l) ELSE toget + 1
  ELSE toget

\* adjuststack: concatenate while the levels would exceed LIMIT or the top
\* string is longer than the one below it.
AdjustStack(b) ==
  IF Len(b.lvls) > 1
  THEN [b EXCEPT !.lvls = ConcatTop(b.lvls, ToGet(b.lvls, 1, Len(Last(b.lvls))))]
  ELSE b

\* gafqL_prepbuffer
PrepBuffer(b) == IF b.buf = <<>> THEN b ELSE AdjustStack(EmptyBuffer(b))

\* Fault variant: the room test of gafqL_addchar off by one.
AddCharTo_OffByOne(b, c) ==
  LET r == IF Len(b.buf) <= BUFFERSIZE THEN b ELSE PrepBuffer(b)
  IN  [r EXCEPT !.buf = Append(@, c)]

\* gafqL_addchar (the macro in gauxlib.h): make room when the array is full.
AddCharTo(b, c) ==
  LET r == IF Len(b.buf) < BUFFERSIZE THEN b ELSE PrepBuffer(b)
  IN  [r EXCEPT !.buf = Append(@, c)]

B == [buf |-> buf, lvls |-> lvls]

\* gafqL_addchar
AddChar ==
  \E c \in Chars :
    /\ result = <<>>
    /\ Len(added) < MAXLEN
    /\ LET b == AddCharTo(B, c) IN buf' = b.buf /\ lvls' = b.lvls
    /\ added' = Append(added, c)
    /\ UNCHANGED result

\* gafqL_addgstring / gafqL_addstring: gafqL_addchar for each character.
AddGString ==
  \E s \in Strings(MAXLEN - Len(added)) :
    /\ result = <<>>
    /\ LET b == FoldLeft(AddCharTo, B, s) IN buf' = b.buf /\ lvls' = b.lvls
    /\ added' = added \o s
    /\ UNCHANGED result

\* Fault variant: gafqL_addvalue without gafq_insert, so the emptied buffer
\* lands above the value.
AddValue_NoInsert ==
  \E s \in Strings(MAXLEN - Len(added)) :
    /\ result = <<>>
    /\ IF Len(s) <= BUFFERSIZE - Len(buf)
       THEN buf' = buf \o s /\ UNCHANGED lvls
       ELSE LET e == EmptyBuffer([buf |-> buf, lvls |-> Append(lvls, s)])
                b == AdjustStack(e)
            IN  buf' = b.buf /\ lvls' = b.lvls
    /\ added' = added \o s
    /\ UNCHANGED result

\* gafqL_addvalue: the string on top of the stack goes into the array when it
\* fits; otherwise the buffer is emptied below it and it becomes a level.
AddValue ==
  \E s \in Strings(MAXLEN - Len(added)) :
    /\ result = <<>>
    /\ IF Len(s) <= BUFFERSIZE - Len(buf)
       THEN buf' = buf \o s /\ UNCHANGED lvls
       ELSE LET e == EmptyBuffer(B)
                b == AdjustStack([e EXCEPT !.lvls = Append(@, s)])
            IN  buf' = b.buf /\ lvls' = b.lvls
    /\ added' = added \o s
    /\ UNCHANGED result

\* gafqL_pushresult: empty the buffer and concatenate all levels
\* (gafq_concat of 0 levels pushes the empty string).
PushResult ==
  LET e == EmptyBuffer(B) IN
  /\ result = <<>>
  /\ result' = <<FlattenSeq(e.lvls)>>
  /\ buf' = <<>>
  /\ lvls' = <<FlattenSeq(e.lvls)>>
  /\ UNCHANGED added

\* gafqL_buffinit
Init ==
  /\ buf = <<>>
  /\ lvls = <<>>
  /\ added = <<>>
  /\ result = <<>>

\* The buffer is not used after gafqL_pushresult.
Done == result # <<>> /\ UNCHANGED vars

Next == AddChar \/ AddGString \/ AddValue \/ PushResult \/ Done

Spec == Init /\ [][Next]_vars

-----------------------------------------------------------------------------
TypeOK ==
  /\ buf \in Seq(Chars) /\ Len(buf) <= BUFFERSIZE
  /\ lvls \in Seq(Seq(Chars))
  /\ added \in Seq(Chars)
  /\ result \in Seq(Seq(Chars)) /\ Len(result) <= 1

\* The levels, lowest first, followed by the array hold exactly what was
\* added, in the order it was added; gafqL_pushresult returns all of it.
ContentsInOrder ==
  /\ FlattenSeq(lvls) \o buf = added
  /\ result # <<>> => result[1] = added

\* Between calls the buffer occupies fewer than LIMIT stack slots, the room
\* a C function may use without gafq_checkstack (GAFQ_MINSTACK / 2).
LevelsBounded == Len(lvls) < LIMIT
=============================================================================
