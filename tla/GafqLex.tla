------------------------------- MODULE GafqLex -------------------------------
(***************************************************************************)
(* The lexical analyzer (glex.c) as the parser drives it: gafqX_setinput,  *)
(* then gafqX_next and gafqX_lookahead, each of which runs glex on the     *)
(* LexState.  A character is its code (an int, EOZ = -1 at the end of the  *)
(* input) and the LexState a record [i, line, lastline, decpoint, buff]:   *)
(* i is the position of ls->current in the source, buff the token buffer   *)
(* (Mbuffer) as a sequence of codes.  Each loop of glex.c is a RECURSIVE   *)
(* operator that consumes at least one character per call.  A lexical     *)
(* error (gafqX_lexerror, which throws GAFQ_ERRSYNTAX) ends the result     *)
(* with err # "none"; its message is kept, its formatting is not.          *)
(***************************************************************************)
EXTENDS Integers, Sequences, SequencesExt, FiniteSets

CONSTANTS
  COMPAT_LSTR   \* GAFQ_COMPAT_LSTR of gafqconf.h: 0 (undefined), 1 or 2

ASSUME COMPAT_LSTR \in {0, 1, 2}

EOZ == -1
LF == 10
CR == 13
QUOTE == 34
APOS == 39
PLUS == 43
COMMA == 44
MINUS == 45
DOT == 46
EQ == 61
LT == 60
GT == 62
TILDE == 126
LBRACKET == 91
BACKSLASH == 92
RBRACKET == 93
UNDERSCORE == 95
UCHAR_MAX == 255

\* ctype.h in the "C" locale.
IsDigit(c) == c \in 48..57
IsAlpha(c) == c \in 65..90 \cup 97..122
IsAlnum(c) == IsDigit(c) \/ IsAlpha(c)
IsSpace(c) == c \in {32, 9, 10, 11, 12, 13}
IsHexDigit(c) == IsDigit(c) \/ c \in 65..70 \cup 97..102
IsNewline(c) == c \in {LF, CR}

\* glex.h: the token codes; single-character tokens are their own code.
FIRST_RESERVED == 257
\* gafqX_tokens, ORDER RESERVED: the reserved words, TK_AND first.
ReservedWords ==
  << <<97,110,100>>, <<98,114,101,97,107>>, <<100,111>>, <<101,108,115,101>>,
     <<101,108,115,101,105,102>>, <<101,110,100>>, <<102,97,108,115,101>>,
     <<102,111,114>>, <<102,117,110,99,116,105,111,110>>, <<105,102>>,
     <<105,110>>, <<108,111,99,97,108>>, <<110,105,108>>, <<110,111,116>>,
     <<111,114>>, <<114,101,112,101,97,116>>, <<114,101,116,117,114,110>>,
     <<116,104,101,110>>, <<116,114,117,101>>, <<117,110,116,105,108>>,
     <<119,104,105,108,101>> >>
NUM_RESERVED == Len(ReservedWords)
TK_CONCAT == FIRST_RESERVED + NUM_RESERVED
TK_DOTS == TK_CONCAT + 1
TK_EQ == TK_CONCAT + 2
TK_GE == TK_CONCAT + 3
TK_LE == TK_CONCAT + 4
TK_NE == TK_CONCAT + 5
TK_NUMBER == TK_CONCAT + 6
TK_NAME == TK_CONCAT + 7
TK_STRING == TK_CONCAT + 8
TK_EOS == TK_CONCAT + 9

NoErr == "none"

-----------------------------------------------------------------------------
(* The LexState and the primitive macros.  A result of the lexer is a      *)
(* record [ls, err, tok]; tok is [token, sem, from, to]: the token code,   *)
(* its SemInfo (the string or numeral, as codes) and its span.  A result   *)
(* computed on the way is handed to the next operator as a parameter.      *)

\* ls->current: zgetc has returned EOZ once the input is exhausted.
Cur(s, ls) == IF ls.i <= Len(s) THEN s[ls.i] ELSE EOZ
\* next(ls)
Adv(s, ls) == IF ls.i <= Len(s) THEN [ls EXCEPT !.i = @ + 1] ELSE ls
\* save(ls, c): the buffer grows by doubling, "lexical element too long"
\* only past MAX_SIZET / 2, which no source of the model reaches.
Save(ls, c) == [ls EXCEPT !.buff = Append(@, c)]
SaveAndNext(s, ls) == Adv(s, Save(ls, Cur(s, ls)))
ResetBuffer(ls) == [ls EXCEPT !.buff = <<>>]

NoTok == [token |-> 0, sem |-> <<>>, from |-> 0, to |-> 0]
Lexed(ls, token, sem, from) ==
  [ls |-> ls, err |-> NoErr, tok |-> [token |-> token, sem |-> sem,
                                      from |-> from, to |-> ls.i - 1]]
LexError(ls, msg) == [ls |-> ls, err |-> msg, tok |-> NoTok]

CountLine(ls) == [ls EXCEPT !.line = @ + 1]

\* Fault variant: any second line-break character is skipped with the
\* first, so "\n\n" counts as one line.
LineEnd_AnyPair(s, ls, l1) ==
  CountLine(IF IsNewline(Cur(s, l1)) THEN Adv(s, l1) ELSE l1)

\* The rest of inclinenumber once the first character (of ls) is skipped
\* (l1): skip a second, different one, and count the line.  The MAX_INT
\* test is not modelled (no source has 2^31 lines).
LineEnd(s, ls, l1) ==
  CountLine(IF IsNewline(Cur(s, l1)) /\ Cur(s, l1) # Cur(s, ls)
              THEN Adv(s, l1) ELSE l1)

\* inclinenumber: skip "\n", "\r", "\n\r" or "\r\n" and count a line.
IncLineNumber(s, ls) == LineEnd(s, ls, Adv(s, ls))

\* check_next: save and skip the current character if it is in set.
CheckNext(s, ls, set) ==
  IF Cur(s, ls) \in set THEN [ok |-> TRUE, ls |-> SaveAndNext(s, ls)]
                        ELSE [ok |-> FALSE, ls |-> ls]

\* skip_sep: at "[" or "]", save it and the "="s after it (r); the level if
\* the same bracket follows, else -(count) - 1.
RECURSIVE SepEquals(_, _, _)
SepEquals(s, ls, n) ==
  IF Cur(s, ls) = EQ THEN SepEquals(s, SaveAndNext(s, ls), n + 1)
                     ELSE [ls |-> ls, n |-> n]
SepOf(s, ls, r) ==
  [ls |-> r.ls, sep |-> IF Cur(s, r.ls) = Cur(s, ls) THEN r.n ELSE -r.n - 1]
SkipSep(s, ls) == SepOf(s, ls, SepEquals(s, SaveAndNext(s, ls), 0))

-----------------------------------------------------------------------------
(* read_long_string: str is FALSE for a long comment (seminfo NULL).       *)

RECURSIVE LongBody(_, _, _, _, _), LongOpen(_, _, _, _, _),
          LongClose(_, _, _, _, _)

\* The for(;;) of read_long_string after the opening bracket; cont counts
\* the nested openings GAFQ_COMPAT_LSTR lets through.
LongBody(s, ls, str, sep, cont) ==
  CASE Cur(s, ls) = EOZ ->
         LexError(ls, IF str THEN "unfinished long string"
                             ELSE "unfinished long comment")
    [] Cur(s, ls) = LBRACKET /\ COMPAT_LSTR # 0 ->
         LongOpen(s, SkipSep(s, ls), str, sep, cont)
    [] Cur(s, ls) = RBRACKET -> LongClose(s, SkipSep(s, ls), str, sep, cont)
    [] IsNewline(Cur(s, ls)) ->
         LongBody(s, IF str THEN IncLineNumber(s, Save(ls, LF))
                            ELSE ResetBuffer(IncLineNumber(s, Save(ls, LF))),
                  str, sep, cont)
    [] OTHER ->
         LongBody(s, IF str THEN SaveAndNext(s, ls) ELSE Adv(s, ls), str, sep, cont)

\* case '[' (GAFQ_COMPAT_LSTR): r is skip_sep's result.
LongOpen(s, r, str, sep, cont) ==
  CASE r.sep # sep -> LongBody(s, r.ls, str, sep, cont)
    [] COMPAT_LSTR = 1 /\ sep = 0 ->
         LexError(SaveAndNext(s, r.ls), "nesting of [[...]] is deprecated")
    [] OTHER -> LongBody(s, SaveAndNext(s, r.ls), str, sep, cont + 1)

\* case ']': the closing bracket ends the string (goto endloop), unless
\* GAFQ_COMPAT_LSTR 2 counts it against a nested opening.
LongClose(s, r, str, sep, cont) ==
  CASE r.sep # sep -> LongBody(s, r.ls, str, sep, cont)
    [] COMPAT_LSTR = 2 /\ sep = 0 /\ cont - 1 >= 0 ->
         LongBody(s, SaveAndNext(s, r.ls), str, sep, cont - 1)
    [] OTHER -> [ls |-> SaveAndNext(s, r.ls), err |-> NoErr]

\* Fault variant: the string starts one character early, on the last
\* character of the opening bracket.
LongResult_Offset(r, sep) ==
  [ls |-> r.ls, err |-> r.err,
   sem |-> IF r.err = NoErr
             THEN SubSeq(r.ls.buff, 2 + sep, Len(r.ls.buff) - (2 + sep))
             ELSE <<>>]

\* endloop: the string is the buffer without the 2 + sep characters of
\* each bracket.
LongResult(r, sep) ==
  [ls |-> r.ls, err |-> r.err,
   sem |-> IF r.err = NoErr
             THEN SubSeq(r.ls.buff, 3 + sep, Len(r.ls.buff) - (2 + sep))
             ELSE <<>>]

\* A line break right after the opening bracket is skipped.
LongStart(s, l1) == IF IsNewline(Cur(s, l1)) THEN IncLineNumber(s, l1) ELSE l1

ReadLongString(s, ls, str, sep) ==
  LongResult(LongBody(s, LongStart(s, SaveAndNext(s, ls)), str, sep, 0), sep)

-----------------------------------------------------------------------------
(* read_string.                                                            *)

\* The escapes \a \b \f \n \r \t \v and the characters they stand for.
EscapeOf == (97 :> 7) @@ (98 :> 8) @@ (102 :> 12) @@ (110 :> 10)
              @@ (114 :> 13) @@ (116 :> 9) @@ (118 :> 11)

\* \ddd: up to three decimal digits; l2 is past the i-th digit, c its value.
RECURSIVE DecEscape(_, _, _, _)
DecDigit(s, l2, c, i) ==
  IF i + 1 < 3 /\ IsDigit(Cur(s, l2)) THEN DecEscape(s, l2, c, i + 1)
                                      ELSE [ls |-> l2, c |-> c]
DecEscape(s, ls, c, i) == DecDigit(s, Adv(s, ls), 10 * c + (Cur(s, ls) - 48), i)

\* Fault variant: \ddd saved without the UCHAR_MAX test.
DecSaved_NoLimit(d) == [ls |-> Save(d.ls, d.c), err |-> NoErr]

\* "escape sequence too large", or the character saved.
DecSaved(d) ==
  IF d.c > UCHAR_MAX THEN [ls |-> d.ls, err |-> "escape sequence too large"]
                     ELSE [ls |-> Save(d.ls, d.c), err |-> NoErr]

\* The character after a backslash (the backslash itself is not saved).
Escape(s, ls) ==
  CASE Cur(s, ls) \in DOMAIN EscapeOf ->
         [ls |-> Adv(s, Save(ls, EscapeOf[Cur(s, ls)])), err |-> NoErr]
    [] IsNewline(Cur(s, ls)) -> [ls |-> IncLineNumber(s, Save(ls, LF)), err |-> NoErr]
    [] Cur(s, ls) = EOZ -> [ls |-> ls, err |-> NoErr]
    [] ~IsDigit(Cur(s, ls)) -> [ls |-> SaveAndNext(s, ls), err |-> NoErr]
    [] OTHER -> DecSaved(DecEscape(s, ls, 0, 0))

\* The closing delimiter saved (l2): the string is the buffer without the
\* two delimiters.
StringEnd(l2) == [ls |-> l2, err |-> NoErr, sem |-> SubSeq(l2.buff, 2, Len(l2.buff) - 1)]

RECURSIVE StringBody(_, _, _), StringEscaped(_, _, _)

\* The loop of read_string up to the closing delimiter del.
StringBody(s, ls, del) ==
  CASE Cur(s, ls) = del -> StringEnd(SaveAndNext(s, ls))
    [] Cur(s, ls) = EOZ \/ IsNewline(Cur(s, ls)) ->
         [ls |-> ls, err |-> "unfinished string", sem |-> <<>>]
    [] Cur(s, ls) = BACKSLASH -> StringEscaped(s, Escape(s, Adv(s, ls)), del)
    [] OTHER -> StringBody(s, SaveAndNext(s, ls), del)

\* After an escape (r): its error, or the loop goes on.
StringEscaped(s, r, del) ==
  IF r.err # NoErr THEN [ls |-> r.ls, err |-> r.err, sem |-> <<>>]
                   ELSE StringBody(s, r.ls, del)

ReadString(s, ls, del) == StringBody(s, SaveAndNext(s, ls), del)

-----------------------------------------------------------------------------
(* read_numeral.                                                           *)

\* gafqO_str2d (gobject.c): strtod in a locale whose decimal point is pt
\* must consume the whole text w, or strtod stops at an "x" and strtoul
\* (base 16) must.  m is the text before the first exponent mark (at k),
\* y the exponent's digits after its sign.
NumeralText(w, m, y, k, pt) ==
  \/ /\ \A j \in 1..Len(m) : IsDigit(m[j]) \/ m[j] = pt
     /\ Cardinality({j \in 1..Len(m) : m[j] = pt}) <= 1
     /\ \E j \in 1..Len(m) : IsDigit(m[j])
     /\ k > Len(w) \/ (y # <<>> /\ \A j \in 1..Len(y) : IsDigit(y[j]))
  \/ /\ Len(w) >= 3 /\ w[1] = 48 /\ w[2] \in {88, 120}
     /\ \A j \in 3..Len(w) : IsHexDigit(w[j])

ExponentDigits(x) == IF x # <<>> /\ x[1] \in {PLUS, MINUS} THEN Tail(x) ELSE x

NumeralAt(w, k, pt) ==
  NumeralText(w, SubSeq(w, 1, k - 1), ExponentDigits(SubSeq(w, k + 1, Len(w))), k, pt)

FirstExponentMark(w) ==
  IF \E j \in 1..Len(w) : w[j] \in {69, 101}
    THEN Min({j \in 1..Len(w) : w[j] \in {69, 101}}) ELSE Len(w) + 1

NumeralWord(w, pt) == NumeralAt(w, FirstExponentMark(w), pt)

\* The buffer b ends at its '\0'.  Trailing spaces never reach it from the
\* lexer.
Str2d(b, pt) == NumeralWord(SubSeq(b, 1, SelectInSeq(b, LAMBDA c : c = 0) - 1), pt)

\* buffreplace
BuffReplace(b, from, to) == [j \in DOMAIN b |-> IF b[j] = from THEN to ELSE b[j]]

RECURSIVE NumeralChars(_, _), NumeralMore(_, _), NameChars(_, _), NameMore(_, _)
\* do save_and_next while (isdigit(current) || current == '.')
NumeralChars(s, ls) == NumeralMore(s, SaveAndNext(s, ls))
NumeralMore(s, l2) ==
  IF IsDigit(Cur(s, l2)) \/ Cur(s, l2) = DOT THEN NumeralChars(s, l2) ELSE l2
\* do save_and_next while (isalnum(current) || current == '_')
NameChars(s, ls) == NameMore(s, SaveAndNext(s, ls))
NameMore(s, l2) ==
  IF IsAlnum(Cur(s, l2)) \/ Cur(s, l2) = UNDERSCORE THEN NameChars(s, l2) ELSE l2

\* The retry of trydecpoint (l1: decpoint updated, buffer replaced); if it
\* fails too, "." is put back for the message.
DecPointRetry(l1, locpt) ==
  IF Str2d(l1.buff, locpt) THEN [ls |-> l1, err |-> NoErr]
  ELSE [ls |-> [l1 EXCEPT !.buff = BuffReplace(@, locpt, DOT)],
        err |-> "malformed number"]

\* trydecpoint: take the locale's decimal point (localeconv) into
\* ls->decpoint and retry.
TryDecPoint(ls, locpt) ==
  DecPointRetry([ls EXCEPT !.decpoint = locpt,
                           !.buff = BuffReplace(@, ls.decpoint, locpt)], locpt)

\* The first conversion (l4 is the buffer after buffreplace).
NumeralConvert(l4, locpt) ==
  IF Str2d(l4.buff, locpt) THEN [ls |-> l4, err |-> NoErr] ELSE TryDecPoint(l4, locpt)

\* Fault variant: the '.'s are left as written; only trydecpoint adapts
\* the buffer to the locale.
NumeralEnd_NoReplace(l3, locpt) == NumeralConvert([l3 EXCEPT !.buff = Append(@, 0)], locpt)

\* save(ls, '\0'), then the '.'s become ls->decpoint.
NumeralEnd(l3, locpt) ==
  NumeralConvert([l3 EXCEPT !.buff = BuffReplace(Append(@, 0), DOT, l3.decpoint)], locpt)

\* The alphanumerics after the exponent (l2 is past it).
NumeralTail(s, l2, locpt) ==
  NumeralEnd(IF IsAlnum(Cur(s, l2)) \/ Cur(s, l2) = UNDERSCORE
               THEN NameChars(s, l2) ELSE l2, locpt)

\* check_next(ls, "Ee") has given e; then check_next(ls, "+-").
NumeralExponent(s, e, locpt) ==
  NumeralTail(s, IF e.ok THEN CheckNext(s, e.ls, {PLUS, MINUS}).ls ELSE e.ls, locpt)

\* read_numeral
ReadNumeral(s, ls, locpt) ==
  NumeralExponent(s, CheckNext(s, NumeralChars(s, ls), {69, 101}), locpt)

-----------------------------------------------------------------------------
(* glex.                                                                   *)

RECURSIVE ShortComment(_, _)
ShortComment(s, ls) ==
  IF ~IsNewline(Cur(s, ls)) /\ Cur(s, ls) # EOZ THEN ShortComment(s, Adv(s, ls))
                                                ELSE ls

\* The second character of "==", "<=", ">=" and "~=".
TwoCharToken == (EQ :> TK_EQ) @@ (LT :> TK_LE) @@ (GT :> TK_GE) @@ (TILDE :> TK_NE)

\* A number token from read_numeral's result r; the SemInfo is the text
\* converted, without its '\0'.
NumeralToken(r, from) ==
  IF r.err # NoErr THEN LexError(r.ls, r.err)
  ELSE Lexed(r.ls, TK_NUMBER, SubSeq(r.ls.buff, 1, Len(r.ls.buff) - 1), from)

\* A string token from read_string's or read_long_string's result r.
StringToken(r, from) ==
  IF r.err # NoErr THEN LexError(r.ls, r.err) ELSE Lexed(r.ls, TK_STRING, r.sem, from)

\* A name (l1: the name saved): a reserved word's token or TK_NAME.
NameToken(l1, from) ==
  IF l1.buff \in Range(ReservedWords)
    THEN Lexed(l1, CHOOSE t \in FIRST_RESERVED..TK_CONCAT - 1 :
                     ReservedWords[t - FIRST_RESERVED + 1] = l1.buff,
               <<>>, from)
    ELSE Lexed(l1, TK_NAME, l1.buff, from)

\* "=", "<", ">" or "~" (c), and l1 past it.
TwoCharOp(s, l1, c, from) ==
  IF Cur(s, l1) # EQ THEN Lexed(l1, c, <<>>, from)
                     ELSE Lexed(Adv(s, l1), TwoCharToken[c], <<>>, from)

\* "." (l1 past it and saved): "...", "..", "." or a numeral.
DotToken(s, l1, d1, locpt, from) ==
  CASE d1.ok -> LET d2 == CheckNext(s, d1.ls, {DOT}) IN
                Lexed(d2.ls, IF d2.ok THEN TK_DOTS ELSE TK_CONCAT, <<>>, from)
    [] ~IsDigit(Cur(s, l1)) -> Lexed(l1, DOT, <<>>, from)
    [] OTHER -> NumeralToken(ReadNumeral(s, l1, locpt), from)

\* "[" (r: skip_sep's result): a long string, the token "[", or an error.
BracketToken(s, r, from) ==
  CASE r.sep >= 0 -> StringToken(ReadLongString(s, r.ls, TRUE, r.sep), from)
    [] r.sep = -1 -> Lexed(r.ls, LBRACKET, <<>>, from)
    [] OTHER -> LexError(r.ls, "invalid long string delimiter")

RECURSIVE GlexLoop(_, _, _), Dash(_, _, _, _), DashDash(_, _, _),
          CommentBracket(_, _, _), LongCommentEnd(_, _, _)

\* The for(;;) of glex: newlines, spaces and comments loop, everything else
\* returns a token or raises an error.
GlexLoop(s, ls, locpt) ==
  CASE IsNewline(Cur(s, ls)) -> GlexLoop(s, IncLineNumber(s, ls), locpt)
    [] Cur(s, ls) = MINUS -> Dash(s, Adv(s, ls), locpt, ls.i)
    [] Cur(s, ls) = LBRACKET -> BracketToken(s, SkipSep(s, ls), ls.i)
    [] Cur(s, ls) \in DOMAIN TwoCharToken -> TwoCharOp(s, Adv(s, ls), Cur(s, ls), ls.i)
    [] Cur(s, ls) \in {QUOTE, APOS} -> StringToken(ReadString(s, ls, Cur(s, ls)), ls.i)
    [] Cur(s, ls) = DOT ->
         DotToken(s, SaveAndNext(s, ls), CheckNext(s, SaveAndNext(s, ls), {DOT}), locpt, ls.i)
    [] Cur(s, ls) = EOZ -> Lexed(ls, TK_EOS, <<>>, ls.i)
    [] IsSpace(Cur(s, ls)) -> GlexLoop(s, Adv(s, ls), locpt)
    [] IsDigit(Cur(s, ls)) -> NumeralToken(ReadNumeral(s, ls, locpt), ls.i)
    [] IsAlpha(Cur(s, ls)) \/ Cur(s, ls) = UNDERSCORE -> NameToken(NameChars(s, ls), ls.i)
    [] OTHER -> Lexed(Adv(s, ls), Cur(s, ls), <<>>, ls.i)

\* case '-' (l1 past it): the token "-", or a comment.
Dash(s, l1, locpt, from) ==
  IF Cur(s, l1) # MINUS THEN Lexed(l1, MINUS, <<>>, from)
                        ELSE DashDash(s, Adv(s, l1), locpt)

\* After "--" (l2): a long comment, or a short one to the end of the line.
DashDash(s, l2, locpt) ==
  IF Cur(s, l2) = LBRACKET THEN CommentBracket(s, SkipSep(s, l2), locpt)
                           ELSE GlexLoop(s, ShortComment(s, l2), locpt)

\* "--[" (r: skip_sep's result, whose buffer is reset).
CommentBracket(s, r, locpt) ==
  IF r.sep >= 0
    THEN LongCommentEnd(s, ReadLongString(s, ResetBuffer(r.ls), FALSE, r.sep), locpt)
    ELSE GlexLoop(s, ShortComment(s, ResetBuffer(r.ls)), locpt)

LongCommentEnd(s, lc, locpt) ==
  IF lc.err # NoErr THEN LexError(lc.ls, lc.err)
                    ELSE GlexLoop(s, ResetBuffer(lc.ls), locpt)

Glex(s, ls, locpt) == GlexLoop(s, ResetBuffer(ls), locpt)

-----------------------------------------------------------------------------
(* The LexState between calls, driven by the parser.                       *)

CONSTANTS
  Sources,        \* the chunks lexed: sequences of character codes
  LocalePoints    \* decimal points of the C locale (localeconv) in force

VARIABLES
  lsrc,     \* the chunk (the ZIO's characters)
  locpt,    \* localeconv()->decimal_point[0]
  lx,       \* the LexState: [i, line, lastline, decpoint, buff]
  tk,       \* ls->t, the current token
  ahead,    \* ls->lookahead; token TK_EOS when there is none
  seen,     \* the tokens gafqX_next has made current, in order (history)
  lexerr    \* the message of the lexical error raised, or NoErr

lexvars == <<lsrc, locpt, lx, tk, ahead, seen, lexerr>>

NoAhead == [NoTok EXCEPT !.token = TK_EOS]
LexStart == [i |-> 1, line |-> 1, lastline |-> 1, decpoint |-> DOT, buff |-> <<>>]

\* gafqX_setinput: decpoint '.', no look-ahead, line 1, and next(ls) has
\* read the first character.  ls->t is set by the parser's first
\* gafqX_next.
LexInit ==
  /\ lsrc \in Sources
  /\ locpt \in LocalePoints
  /\ lx = LexStart
  /\ tk = NoTok
  /\ ahead = NoAhead
  /\ seen = <<>>
  /\ lexerr = NoErr

\* The parser reads tokens until TK_EOS; an error ends the parse.
Lexing == lexerr = NoErr /\ tk.token # TK_EOS

\* Fault variant: the look-ahead token is used but not discharged.
XNextAhead_Keep ==
  /\ Lexing
  /\ ahead.token # TK_EOS
  /\ tk' = ahead
  /\ lx' = [lx EXCEPT !.lastline = lx.line]
  /\ seen' = Append(seen, ahead)
  /\ UNCHANGED <<lsrc, locpt, lexerr, ahead>>

\* gafqX_next with a look-ahead token: it becomes current and is discharged.
XNextAhead ==
  /\ Lexing
  /\ ahead.token # TK_EOS
  /\ tk' = ahead
  /\ ahead' = NoAhead
  /\ lx' = [lx EXCEPT !.lastline = lx.line]
  /\ seen' = Append(seen, ahead)
  /\ UNCHANGED <<lsrc, locpt, lexerr>>

\* glex's result r becomes ls->t, or its error is thrown.
NextLexed(r) ==
  /\ lx' = r.ls
  /\ IF r.err = NoErr THEN tk' = r.tok /\ seen' = Append(seen, r.tok) /\ UNCHANGED lexerr
                      ELSE lexerr' = r.err /\ UNCHANGED <<tk, seen>>

\* gafqX_next without one: glex reads the next token.
XNextLex ==
  /\ Lexing
  /\ ahead.token = TK_EOS
  /\ NextLexed(Glex(lsrc, [lx EXCEPT !.lastline = lx.line], locpt))
  /\ UNCHANGED <<lsrc, locpt, ahead>>

\* glex's result r becomes ls->lookahead, or its error is thrown.
AheadLexed(r) ==
  /\ lx' = r.ls
  /\ IF r.err = NoErr THEN ahead' = r.tok /\ UNCHANGED lexerr
                      ELSE lexerr' = r.err /\ UNCHANGED ahead

\* gafqX_lookahead, which asserts that no look-ahead is pending.
XLookahead ==
  /\ Lexing
  /\ tk # NoTok
  /\ ahead.token = TK_EOS
  /\ AheadLexed(Glex(lsrc, lx, locpt))
  /\ UNCHANGED <<lsrc, locpt, tk, seen>>

\* The parse has ended: the chunk is read or the error thrown.
LexDone == ~Lexing /\ UNCHANGED lexvars

LexNext == XNextAhead \/ XNextLex \/ XLookahead \/ LexDone

LexSpec == LexInit /\ [][LexNext]_lexvars

-----------------------------------------------------------------------------
(* Reference definitions: what the tokens mean, written from the rules of  *)
(* the language rather than from the lexer's loops.                        *)

RECURSIVE TokensFrom(_, _, _), TokensAfter(_, _, _)
\* The tokens of s read one after the other, without look-ahead, up to
\* TK_EOS or the first error.
TokensFrom(s, ls, pt) == TokensAfter(s, Glex(s, ls, pt), pt)
TokensAfter(s, r, pt) ==
  CASE r.err # NoErr -> <<>>
    [] r.tok.token = TK_EOS -> <<r.tok>>
    [] OTHER -> <<r.tok>> \o TokensFrom(s, r.ls, pt)

\* The length (1 or 2) of the line break at the start of w:
\* "\n", "\r", "\r\n" or "\n\r", the longest first.
BreakLen(w) == IF Len(w) > 1 /\ IsNewline(w[2]) /\ w[2] # w[1] THEN 2 ELSE 1

RECURSIVE LineBreaks(_)
LineBreaks(w) ==
  CASE w = <<>> -> 0
    [] ~IsNewline(w[1]) -> LineBreaks(Tail(w))
    [] OTHER -> 1 + LineBreaks(SubSeq(w, BreakLen(w) + 1, Len(w)))

\* w with every line break replaced by "\n".
RECURSIVE OneNewline(_)
OneNewline(w) ==
  CASE w = <<>> -> <<>>
    [] ~IsNewline(w[1]) -> <<w[1]>> \o OneNewline(Tail(w))
    [] OTHER -> <<LF>> \o OneNewline(SubSeq(w, BreakLen(w) + 1, Len(w)))

\* The text of a long bracket, without a first line break, with each line
\* break read as "\n".
LongText(body) ==
  IF body # <<>> /\ IsNewline(body[1])
    THEN OneNewline(SubSeq(body, BreakLen(body) + 1, Len(body)))
    ELSE OneNewline(body)

\* A long bracket [==[ ... ]==] of level n.
LongLevel(w, n) == LongText(SubSeq(w, n + 3, Len(w) - n - 2))
LongValue(w) == LongLevel(w, Cardinality({j \in 2..Len(w) : \A k \in 2..j : w[k] = EQ}))

\* A quoted string's escapes: \a ... \v, \ddd (at most three digits), a
\* backslash before a line break (which stands for "\n"), and \c for any
\* other c.  nd is the number of digits after the backslash, up to 3.
RECURSIVE Unescape(_), UnescapeAt(_, _)
Unescape(u) ==
  CASE u = <<>> -> <<>>
    [] u[1] # BACKSLASH -> <<u[1]>> \o Unescape(Tail(u))
    [] OTHER -> UnescapeAt(u, Cardinality({j \in 2..Min({4, Len(u)}) :
                                            \A k \in 2..j : IsDigit(u[k])}))
UnescapeAt(u, nd) ==
  CASE u[2] \in DOMAIN EscapeOf -> <<EscapeOf[u[2]]>> \o Unescape(SubSeq(u, 3, Len(u)))
    [] IsNewline(u[2]) -> <<LF>> \o Unescape(SubSeq(u, BreakLen(Tail(u)) + 2, Len(u)))
    [] nd > 0 -> <<FoldLeft(LAMBDA a, d : 10 * a + d - 48, 0, SubSeq(u, 2, nd + 1))>>
                   \o Unescape(SubSeq(u, nd + 2, Len(u)))
    [] OTHER -> <<u[2]>> \o Unescape(SubSeq(u, 3, Len(u)))

StringValue(w) ==
  IF w[1] = LBRACKET THEN LongValue(w) ELSE Unescape(SubSeq(w, 2, Len(w) - 1))

Lexeme(t) == SubSeq(lsrc, t.from, t.to)

-----------------------------------------------------------------------------
(* Properties.                                                             *)



Chars == 0..UCHAR_MAX
\* gafqX_lookahead is invisible to the parser: whenever and however often
\* it looks ahead, gafqX_next hands it the same tokens, in the same order,
\* as a parse without look-ahead would read.
LookaheadTransparent ==
  seen = SubSeq(TokensFrom(lsrc, LexStart, locpt), 1, Len(seen))

\* ls->linenumber counts the line breaks read so far, "\r\n" and "\n\r"
\* once, whether they end a line of code or a comment, or lie inside a
\* long string or after a backslash in a quoted string (inclinenumber).
LinesCounted ==
  lexerr = NoErr => lx.line = 1 + LineBreaks(SubSeq(lsrc, 1, lx.i - 1))

\* The SemInfo of a string token is what the string literal means: the
\* text of a long bracket, without its first line break, or the quoted
\* text with its escapes decoded (read_long_string, read_string); and it
\* is a string of bytes, so a \ddd past UCHAR_MAX is never let through.
StringsAsWritten ==
  \A k \in DOMAIN seen :
    seen[k].token = TK_STRING =>
      /\ seen[k].sem = StringValue(Lexeme(seen[k]))
      /\ seen[k].sem \in Seq(Chars)

\* A number token is the numeral as written, its "." the locale's decimal
\* point so that strtod converts it, and "malformed number" is raised only
\* for text that is not a numeral: whatever the locale, and whatever
\* ls->decpoint the earlier numerals of the chunk left (trydecpoint).
NumeralsAsWritten ==
  /\ \A k \in DOMAIN seen :
       seen[k].token = TK_NUMBER =>
         /\ BuffReplace(seen[k].sem, locpt, DOT) = Lexeme(seen[k])
         /\ Str2d(Append(seen[k].sem, 0), locpt)
  /\ lexerr = "malformed number" => ~Str2d(lx.buff, DOT)
====
