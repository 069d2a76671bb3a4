---------------------------- MODULE MC_GafqConcat ----------------------------
EXTENDS GafqConcat, GafqLex

\* One letter and two numbers (one and two digits): the order of the pieces
\* shows in the digits.  Strings of up to three characters under a size_t of
\* three bits (MAX_SIZET = 5): three operands reach the limit, and their
\* lengths can pass 2^3, where a sum computed without the test would wrap.
MC_Letters == {"a"}
MC_Nums == {7, 10}
MC_MAXSTR == 3
MC_WIDTH == 3
\* Four values: a run of three strings under a table, and OP_CONCAT with
\* A outside B..C.  Two calls: a concatenation of a previous result.
MC_MAXSTACK == 4
MC_MAXCALLS == 2

-----------------------------------------------------------------------------
(* The run also checks the string library's pattern matcher (GafqStrLib),  *)
(* which shares no state with the concatenation.  Its states are calls of  *)
(* string.find, string.match, string.gmatch and string.gsub on a subject   *)
(* and a pattern, held in strcall from separate initial states; from a     *)
(* concatenation state strcall holds no call.                              *)

VARIABLE strcall

\* Subjects: every string of at most three bytes over "a" and "b".
\* Patterns: up to two pattern tokens, each a class, a quantifier, a capture
\* bracket, a back-reference, an anchor, %f, %b, a malformed item, or a
\* short item with its quantifier or captures.
MC_Tokens == {<<97>>, <<98>>, <<46>>, <<37, 97>>, <<91, 97, 93>>,
              <<91, 94, 97, 93>>, <<42>>, <<43>>, <<45>>, <<63>>, <<40>>,
              <<41>>, <<37, 49>>, <<94>>, <<36>>, <<37, 102, 91, 98, 93>>,
              <<37, 98, 97, 98>>, <<37>>, <<91>>, <<40, 46, 41>>, <<97, 42>>,
              <<98, 45>>, <<91, 97, 98, 93, 43>>, <<40, 40, 41>>}
MC_Subjects == BoundedSeq({97, 98}, 3)
MC_Patterns == {<<>>} \cup MC_Tokens \cup {t \o u : t, u \in MC_Tokens}
\* init: from the start, from the last byte, and past the end.
MC_Inits == {1, -1, 5}
\* Two captures: "(()" followed by "(" opens a third, over the limit.
StrLib == INSTANCE GafqStrLib WITH MAXCAPTURES <- 2, Inits <- MC_Inits

-----------------------------------------------------------------------------
(* The run also checks the lexer (GafqLex), from initial states of its     *)
(* own (lexon): a chunk and the locale's decimal point, lexed as the       *)
(* parser asks.  The chunks are the empty one, each piece below, and each  *)
(* two pieces in a row: long brackets of level 0 and 1 with line breaks    *)
(* inside and at the start, a nested "[[" (an error under                  *)
(* GAFQ_COMPAT_LSTR 1), bad delimiters, long and short comments (one that  *)
(* starts like a long one, one unfinished), quoted strings with letter,    *)
(* line-break and decimal escapes (\256 too large, \1234 three digits and *)
(* a "4"), an unfinished string, numerals with ".", an exponent and its    *)
(* sign, hexadecimal, malformed ones ("1..", "3e"), a reserved word, the   *)
(* two-character operators and "...", and the line breaks "\n\r\n" and   *)
(* "\r".  Two pieces in a row make "\r" meet "\n" across a token, and a  *)
(* numeral follow one under a "," locale.                                  *)

VARIABLE lexon

MC_Pieces ==
  { <<91,91,10,97,13,10,93,93>>, <<91,61,91,93,93,93,61,93>>, <<91,91,91,91>>,
    <<91,61,97>>, <<91,97>>, <<45,45,91,91,13,93,93>>, <<45,45,91,61,97,10>>,
    <<45,45,91,91,97>>, <<45,97>>, <<34,92,110,92,10,97,34>>,
    <<34,92,50,53,54,34>>, <<34,92,49,50,51,52,34>>, <<34,97,10>>,
    <<49,46,53,32>>, <<46,53,101,43,49,32>>, <<48,120,49,102>>, <<49,46,46>>,
    <<51,101>>, <<100,111,32>>, <<61,61,126,61,46,46,46>>, <<10,13,10>>,
    <<13>> }
MC_Sources == {<<>>} \cup MC_Pieces \cup {p \o q : p, q \in MC_Pieces}
\* The "C" locale, and one whose decimal point is "," (os.setlocale).
MC_LocalePoints == {DOT, COMMA}

\* The lexer's state while the run checks something else.
LexIdle ==
  /\ lexon = FALSE
  /\ lsrc = <<>> /\ locpt = DOT /\ lx = LexStart
  /\ tk = NoTok /\ ahead = NoAhead /\ seen = <<>> /\ lexerr = NoErr

NoCall == [on |-> FALSE, S |-> <<>>, P |-> <<>>]
StrCalls == [on : {TRUE}, S : MC_Subjects, P : MC_Patterns]

\* No concatenation made.
ConcatIdle ==
  /\ stk = <<>> /\ err = NONE /\ calls = 0
  /\ last = [op |-> "none", n |-> 0, a |-> 0, b |-> 0, c |-> 0]

\* The concatenation's first state, a call of the string library, or a
\* chunk to lex.
MCInit ==
  \/ Init /\ strcall = NoCall /\ LexIdle
  \/ ConcatIdle /\ strcall \in StrCalls /\ LexIdle
  \/ ConcatIdle /\ strcall = NoCall /\ lexon = TRUE /\ LexInit

allvars == <<vars, strcall, lexon, lexvars>>

ConcatStep == strcall = NoCall /\ ~lexon /\ Next /\ UNCHANGED <<strcall, lexon, lexvars>>
\* The library function has returned; its result is what the state shows.
StrReturned == strcall # NoCall /\ UNCHANGED allvars
\* A step of the lexer.
InLex(A) == lexon /\ A /\ UNCHANGED <<vars, strcall, lexon>>

MCNext ==
  \/ ConcatStep \/ StrReturned
  \/ InLex(XNextAhead) \/ InLex(XNextLex) \/ InLex(XLookahead) \/ InLex(LexDone)

MCSpec == MCInit /\ [][MCNext]_allvars

\* The calls whose outcome breaks a promise, computed once (a constant).
FindFailures == {c \in StrCalls : ~StrLib!FindAsSpecifiedFor(c.S, c.P)}
GsubFailures == {c \in StrCalls : ~StrLib!GsubAgreesWithGmatchFor(c.S, c.P)}

\* string.find and string.match return what the pattern means (see
\* FindAsSpecifiedFor): str_find_aux, match and gmemfind, with
\* backtracking, capture undo and errors.
FindAsSpecified == strcall \notin FindFailures
\* str_gsub and gmatch_aux visit the same matches (see
\* GsubAgreesWithGmatchFor).
GsubAgreesWithGmatch == strcall \notin GsubFailures
====
