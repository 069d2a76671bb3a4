------------------------------ MODULE GafqStrLib ------------------------------
(***************************************************************************)
(* Pattern matching of the string library (gstrlib.c): match and its       *)
(* helpers, str_find_aux (string.find and string.match), gmatch_aux        *)
(* (string.gmatch) and str_gsub with a string replacement.  These are      *)
(* pure functions of their arguments, so they are operators: a string is   *)
(* the sequence of its bytes, and a position is an offset from its start,  *)
(* as the code's pointers are; reading at the end gives the terminating    *)
(* '\0'.  The matcher's MatchState (level and capture array) is threaded   *)
(* through the recursion exactly as the C code mutates it, undo on         *)
(* failure included.  An error raised with gafqL_error is a negative code  *)
(* that the callers pass up unchanged.                                     *)
(***************************************************************************)
EXTENDS Integers, Sequences, SequencesExt

CONSTANTS
  MAXCAPTURES,  \* GAFQ_MAXCAPTURES (gafqconf.h)
  Inits         \* the init arguments of string.find and string.match tried

ASSUME MAXCAPTURES \in Nat \ {0}

\* The bytes the matcher tests for.
L_ESC == 37
LPAREN == 40
RPAREN == 41
DOT == 46
DOLLAR == 36
STAR == 42
PLUS == 43
MINUS == 45
QUEST == 63
CARET == 94
LBRACKET == 91
RBRACKET == 93
LETTER_B == 98
LETTER_F == 102
ZERO == 48
ONE == 49
SPECIALS == {CARET, DOLLAR, STAR, PLUS, QUEST, DOT, LPAREN, LBRACKET, L_ESC, MINUS}

\* *(str + k): a byte of the string, '\0' at and past its end.
Ch(str, k) == IF k < Len(str) THEN str[k + 1] ELSE 0

\* The <ctype.h> classes of the C locale.
Upper == 65..90
Lower == 97..122
Digit == 48..57
Alpha == Upper \cup Lower
ToLower(c) == IF c \in Upper THEN c + 32 ELSE c
ClassOf ==
  (97 :> Alpha) @@ (99 :> (0..31 \cup {127})) @@ (100 :> Digit) @@
  (108 :> Lower) @@ (112 :> ((33..126) \ (Alpha \cup Digit))) @@
  (115 :> (9..13 \cup {32})) @@ (117 :> Upper) @@ (119 :> (Alpha \cup Digit)) @@
  (120 :> (Digit \cup 65..70 \cup 97..102)) @@ (122 :> {0})

NULL == -1                 \* match failed
CAP_UNFINISHED == -1
CAP_POSITION == -2
\* Errors raised by gafqL_error.
E_ENDS_ESC == -10          \* "malformed pattern (ends with '%')"
E_MISSING_BRACKET == -11   \* "malformed pattern (missing ']')"
E_UNBALANCED == -12        \* "unbalanced pattern"
E_MISSING_F == -13         \* "missing '[' after '%f' in pattern"
E_CAPTURE_INDEX == -14     \* "invalid capture index"
E_PATTERN_CAPTURE == -15   \* "invalid pattern capture"
E_TOO_MANY == -16          \* "too many captures"
E_UNFINISHED == -17        \* "unfinished capture"
IsErr(x) == x <= -10

-----------------------------------------------------------------------------
(* Character classes.                                                      *)

\* match_class: %a, %d, ... (upper case negates); any other byte is itself.
MatchClass(c, cl) ==
  IF ToLower(cl) \in DOMAIN ClassOf
  THEN (c \in ClassOf[ToLower(cl)]) = (cl \in Lower)
  ELSE cl = c

\* classend's scan for the ']' of a set, from the byte after '[' (and '^').
RECURSIVE BracketEnd(_, _)
BracketEnd(P, q) ==
  IF Ch(P, q) = 0 THEN E_MISSING_BRACKET
  ELSE LET q2 == IF Ch(P, q) = L_ESC /\ Ch(P, q + 1) # 0 THEN q + 2 ELSE q + 1
       IN  IF Ch(P, q2) = RBRACKET THEN q2 + 1 ELSE BracketEnd(P, q2)

\* classend: the end of the single-character class at p.
ClassEnd(P, p) ==
  CASE Ch(P, p) = L_ESC    -> IF Ch(P, p + 1) = 0 THEN E_ENDS_ESC ELSE p + 2
    [] Ch(P, p) = LBRACKET -> BracketEnd(P, IF Ch(P, p + 1) = CARET THEN p + 2 ELSE p + 1)
    [] OTHER               -> p + 1

\* The while (++p < ec) loop of matchbracketclass; q is p before the ++.
RECURSIVE BracketScan(_, _, _, _, _)
BracketScan(c, P, q, ec, sig) ==
  LET r == q + 1 IN
  CASE r >= ec -> ~sig
    [] Ch(P, r) = L_ESC ->
         IF MatchClass(c, Ch(P, r + 1)) THEN sig ELSE BracketScan(c, P, r + 1, ec, sig)
    [] Ch(P, r + 1) = MINUS /\ r + 2 < ec ->
         IF Ch(P, r) <= c /\ c <= Ch(P, r + 2) THEN sig ELSE BracketScan(c, P, r + 2, ec, sig)
    [] OTHER -> IF Ch(P, r) = c THEN sig ELSE BracketScan(c, P, r, ec, sig)

\* matchbracketclass: p is the '[', ec the closing ']'.
MatchBracketClass(c, P, p, ec) ==
  IF Ch(P, p + 1) = CARET THEN BracketScan(c, P, p + 1, ec, FALSE)
  ELSE BracketScan(c, P, p, ec, TRUE)

\* singlematch: does byte c match the class at p..ep-1?
SingleMatch(c, P, p, ep) ==
  CASE Ch(P, p) = DOT      -> TRUE
    [] Ch(P, p) = L_ESC    -> MatchClass(c, Ch(P, p + 1))
    [] Ch(P, p) = LBRACKET -> MatchBracketClass(c, P, p, ep - 1)
    [] OTHER               -> Ch(P, p) = c

-----------------------------------------------------------------------------
(* match.  ms is the MatchState [level, cap] with cap[l] = [init, len];    *)
(* a call returns [s, ms]: the end of the match (NULL on failure, or an    *)
(* error) and the MatchState as the call leaves it.                        *)

Res(s, ms) == [s |-> s, ms |-> ms]

\* check_capture: the index of back-reference %l.
CheckCapture(ms, l) ==
  LET i == l - ONE IN
  IF i < 0 \/ i >= ms.level \/ ms.cap[i].len = CAP_UNFINISHED
  THEN E_CAPTURE_INDEX ELSE i

\* capture_to_close: the innermost unfinished capture.
CaptureToClose(ms) ==
  LET open == {l \in 0..(ms.level - 1) : ms.cap[l].len = CAP_UNFINISHED}
  IN  IF open = {} THEN E_PATTERN_CAPTURE ELSE Max(open)

\* The while (++s < src_end) loop of matchbalance.
RECURSIVE BalanceScan(_, _, _, _, _)
BalanceScan(S, s, b, e, cont) ==
  LET n == s + 1 IN
  CASE n >= Len(S)   -> NULL
    [] Ch(S, n) = e  -> IF cont = 1 THEN n + 1 ELSE BalanceScan(S, n, b, e, cont - 1)
    [] Ch(S, n) = b  -> BalanceScan(S, n, b, e, cont + 1)
    [] OTHER         -> BalanceScan(S, n, b, e, cont)

\* matchbalance: %bxy at s, with p at x.
MatchBalance(S, P, s, p) ==
  CASE Ch(P, p) = 0 \/ Ch(P, p + 1) = 0 -> E_UNBALANCED
    [] Ch(S, s) # Ch(P, p)              -> NULL
    [] OTHER -> BalanceScan(S, s, Ch(P, p), Ch(P, p + 1), 1)

\* match_capture: %1-%9 at s.  The length of a position capture (-2) is
\* compared as a size_t, so it exceeds every remaining length.
MatchCapture(S, ms, s, l) ==
  LET i == CheckCapture(ms, l) IN
  IF IsErr(i) THEN i
  ELSE LET c == ms.cap[i] IN
       IF c.len < 0 \/ Len(S) - s < c.len THEN NULL
       ELSE IF SubSeq(S, c.init + 1, c.init + c.len) = SubSeq(S, s + 1, s + c.len)
            THEN s + c.len ELSE NULL

\* The i of max_expand: how many bytes from s the class at p..ep matches.
RECURSIVE MaxRun(_, _, _, _, _)
MaxRun(S, P, s, p, ep) ==
  IF s < Len(S) /\ SingleMatch(Ch(S, s), P, p, ep) THEN 1 + MaxRun(S, P, s + 1, p, ep) ELSE 0

RECURSIVE Match(_, _, _, _, _)

(* One step of match at (s, p): either the final result (done), or the    *)
(* (s, p) pairs to go on from, in the order match tries them; the first   *)
(* that does not return NULL is the result.  A pair entered by             *)
(* start_capture or end_capture carries the capture it opens or closes     *)
(* and the undo it needs on failure; a "goto init" or a loop of match      *)
(* calls carries none.                                                     *)
Done(r) == [done |-> TRUE, r |-> r, alts |-> <<>>]
Go(alts) == [done |-> FALSE, r |-> Res(NULL, [level |-> 0, cap |-> <<>>]), alts |-> alts]
Alt(s, p, op, x) == [s |-> s, p |-> p, op |-> op, x |-> x]
Goto(s, p) == Alt(s, p, "goto", 0)

\* max_expand: the item at p..ep followed by '*' (or '+', from s + 1):
\* match(ms, s+i, ep+1) for i from the longest run down to 0.
MaxExpand(S, P, s, p, ep) ==
  LET i == MaxRun(S, P, s, p, ep) IN Go([m \in 1..(i + 1) |-> Goto(s + i + 1 - m, ep + 1)])

\* min_expand: match(ms, s, ep+1), then one more repetition while the
\* byte at s matches the item.
MinExpand(S, P, s, p, ep) ==
  LET k == MaxRun(S, P, s, p, ep) IN Go([m \in 1..(k + 1) |-> Goto(s + m - 1, ep + 1)])

\* start_capture: open capture number level at s (it fails when level is
\* GAFQ_MAXCAPTURES already).
StartCapture(ms, s, p, what) ==
  IF ms.level >= MAXCAPTURES THEN Done(Res(E_TOO_MANY, ms))
  ELSE Go(<<Alt(s, p, "open", what)>>)

OpenCapture(ms, a) ==
  [level |-> ms.level + 1, cap |-> [ms.cap EXCEPT ![ms.level] = [init |-> a.s, len |-> a.x]]]

\* start_capture's undo when the rest fails: a start_capture that forgets it.
UndoStart_Skipped(ms) == ms

\* start_capture's undo when the rest fails: ms->level--.
UndoStart(ms) == [ms EXCEPT !.level = @ - 1]

\* end_capture: close the innermost open capture at s.
EndCapture(ms, s, p) ==
  LET l == CaptureToClose(ms) IN
  IF IsErr(l) THEN Done(Res(l, ms)) ELSE Go(<<Alt(s, p, "close", l)>>)

\* Entering a pair: the capture it opens or closes; and undoing it.
Enter(ms, a) ==
  CASE a.op = "open"  -> OpenCapture(ms, a)
    [] a.op = "close" -> [ms EXCEPT !.cap[a.x].len = a.s - ms.cap[a.x].init]
    [] OTHER          -> ms
Undo(ms, a) ==
  CASE a.op = "open"  -> UndoStart(ms)
    [] a.op = "close" -> [ms EXCEPT !.cap[a.x].len = CAP_UNFINISHED]
    [] OTHER          -> ms

\* The %f case of match: a frontier, with p after the "%f".
Frontier(S, P, ms, s, p) ==
  IF Ch(P, p) # LBRACKET THEN Done(Res(E_MISSING_F, ms))
  ELSE LET ep == ClassEnd(P, p)
           prev == IF s = 0 THEN 0 ELSE Ch(S, s - 1)
       IN  CASE IsErr(ep) -> Done(Res(ep, ms))
             [] MatchBracketClass(prev, P, p, ep - 1)
                  \/ ~MatchBracketClass(Ch(S, s), P, p, ep - 1) -> Done(Res(NULL, ms))
             [] OTHER -> Go(<<Goto(s, ep)>>)

\* The default case of match: a single-character class and its suffix.
DefaultItem(S, P, ms, s, p) ==
  LET ep == ClassEnd(P, p)
      m == s < Len(S) /\ SingleMatch(Ch(S, s), P, p, ep)
  IN
  CASE IsErr(ep) -> Done(Res(ep, ms))
    [] Ch(P, ep) = QUEST -> Go((IF m THEN <<Goto(s + 1, ep + 1)>> ELSE <<>>) \o <<Goto(s, ep + 1)>>)
    [] Ch(P, ep) = STAR  -> MaxExpand(S, P, s, p, ep)
    [] Ch(P, ep) = PLUS  -> IF m THEN MaxExpand(S, P, s + 1, p, ep) ELSE Done(Res(NULL, ms))
    [] Ch(P, ep) = MINUS -> MinExpand(S, P, s, p, ep)
    [] OTHER             -> IF m THEN Go(<<Goto(s + 1, ep)>>) ELSE Done(Res(NULL, ms))

\* The switch of match on the pattern byte at p.
Step(S, P, ms, s, p) ==
  LET c == Ch(P, p)
      d == Ch(P, p + 1)
      b == MatchBalance(S, P, s, p + 2)
      e == MatchCapture(S, ms, s, d)
  IN
  CASE c = LPAREN ->
         IF d = RPAREN THEN StartCapture(ms, s, p + 2, CAP_POSITION)
         ELSE StartCapture(ms, s, p + 1, CAP_UNFINISHED)
    [] c = RPAREN -> EndCapture(ms, s, p + 1)
    [] c = L_ESC /\ d = LETTER_B -> IF b < 0 THEN Done(Res(b, ms)) ELSE Go(<<Goto(b, p + 4)>>)
    [] c = L_ESC /\ d = LETTER_F -> Frontier(S, P, ms, s, p + 2)
    [] c = L_ESC /\ d \in Digit -> IF e < 0 THEN Done(Res(e, ms)) ELSE Go(<<Goto(e, p + 2)>>)
    [] c = 0 -> Done(Res(s, ms))
    [] c = DOLLAR /\ d = 0 -> Done(Res(IF s = Len(S) THEN s ELSE NULL, ms))
    [] OTHER -> DefaultItem(S, P, ms, s, p)

\* The pairs in turn: match from each, undoing its capture when it fails;
\* r is what match returned for the first pair.
RECURSIVE TryAlts(_, _, _, _)
TryNext(S, P, alts, r) ==
  IF r.s # NULL THEN r ELSE TryAlts(S, P, Undo(r.ms, Head(alts)), Tail(alts))
TryAlts(S, P, ms, alts) ==
  IF alts = <<>> THEN Res(NULL, ms)
  ELSE TryNext(S, P, alts, Match(S, P, Enter(ms, Head(alts)), Head(alts).s, Head(alts).p))

\* match: match pattern P from p against subject S from s.
MatchStep(S, P, ms, st) == IF st.done THEN st.r ELSE TryAlts(S, P, ms, st.alts)
Match(S, P, ms, s, p) == MatchStep(S, P, ms, Step(S, P, ms, s, p))

-----------------------------------------------------------------------------
(* The library functions.  A value pushed on the stack is a number, a      *)
(* string or nil; a call returns [err, vals]: the error it raised (0 for   *)
(* none) and the values it pushed.                                         *)

Num(n) == [k |-> "num", v |-> <<n>>]
Str(str) == [k |-> "str", v |-> str]
NilV == [k |-> "nil", v |-> <<>>]
ErrV(e) == [k |-> "err", v |-> <<e>>]
Ret(vals) == [err |-> 0, vals |-> vals]
Raise(e) == [err |-> e, vals |-> <<>>]

\* The MatchState of a new call; the capture array is not initialized, and
\* only entries below level are ever read.
MS0 == [level |-> 0, cap |-> [l \in 0..(MAXCAPTURES - 1) |-> [init |-> 0, len |-> 0]]]

\* posrelat: a negative position counts back from the end.
PosRelat(pos, len) ==
  LET q == IF pos < 0 THEN pos + len + 1 ELSE pos IN IF q >= 0 THEN q ELSE 0

\* push_onecapture: capture i, or the whole match s..e when there is none.
OneCapture(S, ms, i, s, e) ==
  IF i >= ms.level
  THEN IF i = 0 THEN Str(SubSeq(S, s + 1, e)) ELSE ErrV(E_CAPTURE_INDEX)
  ELSE LET c == ms.cap[i] IN
       CASE c.len = CAP_UNFINISHED -> ErrV(E_UNFINISHED)
         [] c.len = CAP_POSITION   -> Num(c.init + 1)
         [] OTHER                  -> Str(SubSeq(S, c.init + 1, c.init + c.len))

\* push_captures: whole is FALSE for string.find (s == NULL).
PushCaptures(S, ms, s, e, whole) ==
  LET n == IF ms.level = 0 /\ whole THEN 1 ELSE ms.level
      cs == [i \in 1..n |-> OneCapture(S, ms, i - 1, s, e)]
      bad == {i \in 1..n : cs[i].k = "err"}
  IN  IF bad = {} THEN Ret(cs) ELSE Raise(cs[Min(bad)].v[1])

\* memchr(s, c, n): the first offset in s..s+n-1 holding c.
MemChr(S, s, c, n) ==
  LET at == {k \in s..(s + n - 1) : Ch(S, k) = c}
  IN  IF at = {} THEN NULL ELSE Min(at)

\* The memchr loop of gmemfind: l1 candidate first bytes from s1, l2 bytes
\* of P after its first.
RECURSIVE MemFind(_, _, _, _, _)
MemFind(S, s1, l1, P, l2) ==
  LET init == MemChr(S, s1, P[1], l1) + 1 IN
  CASE l1 = 0 \/ init = 0 -> NULL
    [] SubSeq(S, init + 1, init + l2) = SubSeq(P, 2, l2 + 1) -> init - 1
    [] OTHER -> MemFind(S, init, l1 - (init - s1), P, l2)

\* gmemfind: the first occurrence of P in S at or after s1.
GMemFind(S, s1, P) ==
  CASE Len(P) = 0              -> s1
    [] Len(P) > Len(S) - s1    -> NULL
    [] OTHER -> MemFind(S, s1, (Len(S) - s1) - (Len(P) - 1), P, Len(P) - 1)

\* The do-while loop of str_find_aux: try each start s1 from s1 on.
\* r is what match returned for start s1.
RECURSIVE FindFrom(_, _, _, _, _, _)
FindAt(S, P, s1, anchor, find, r) ==
  CASE IsErr(r.s) -> Raise(r.s)
    [] r.s # NULL /\ find ->
         LET cs == PushCaptures(S, r.ms, 0, 0, FALSE) IN
         IF cs.err # 0 THEN cs ELSE Ret(<<Num(s1 + 1), Num(r.s)>> \o cs.vals)
    [] r.s # NULL -> PushCaptures(S, r.ms, s1, r.s, TRUE)
    [] s1 < Len(S) /\ ~anchor -> FindFrom(S, P, r.ms, s1 + 1, anchor, find)
    [] OTHER -> Ret(<<NilV>>)
FindFrom(S, P, ms, s1, anchor, find) ==
  FindAt(S, P, s1, anchor, find, Match(S, P, [ms EXCEPT !.level = 0], s1, IF anchor THEN 1 ELSE 0))

\* str_find_aux: string.find (find) and string.match, from position init.
StrFindAux(S, P, init, plain, find) ==
  LET i0 == PosRelat(init, Len(S)) - 1
      i == IF i0 < 0 THEN 0 ELSE IF i0 > Len(S) THEN Len(S) ELSE i0
  IN
  IF find /\ (plain \/ \A k \in 1..Len(P) : P[k] \notin SPECIALS)
  THEN LET s2 == GMemFind(S, i, P) IN
       IF s2 = NULL THEN Ret(<<NilV>>) ELSE Ret(<<Num(s2 + 1), Num(s2 + Len(P))>>)
  ELSE FindFrom(S, P, MS0, i, Ch(P, 0) = CARET, find)

\* The for loop of one gmatch_aux call: the first match from src on.
\* r is what match returned for src.
RECURSIVE GMatchScan(_, _, _, _)
ScanAt(S, P, src, r) ==
  CASE IsErr(r.s) -> [st |-> "err", e |-> r.s]
    [] r.s # NULL -> [st |-> "found", src |-> src, e |-> r.s, ms |-> r.ms]
    [] OTHER      -> GMatchScan(S, P, r.ms, src + 1)
GMatchScan(S, P, ms, src) ==
  IF src > Len(S) THEN [st |-> "done"]
  ELSE ScanAt(S, P, src, Match(S, P, [ms EXCEPT !.level = 0], src, 0))

RECURSIVE GMatch(_, _, _)

\* gmatch_aux resuming one byte past every match, empty or not (f is the
\* match the scan found).
GMatchFrom_SkipByte(S, P, f) ==
  CASE f.st = "done" -> Ret(<<>>)
    [] f.st = "err"  -> Raise(f.e)
    [] OTHER ->
         LET cs == PushCaptures(S, f.ms, f.src, f.e, TRUE)
             rest == GMatch(S, P, f.e + 1)
         IN  CASE cs.err # 0   -> cs
               [] rest.err # 0 -> rest
               [] OTHER        -> Ret(<<cs.vals>> \o rest.vals)

\* The iterator of string.gmatch called until it returns nothing, starting
\* at upvalue 3 = start: the sequence of what each call returned.  An
\* empty match moves the start one byte on.  f is the match the scan from
\* start found.
GMatchFrom(S, P, f) ==
  CASE f.st = "done" -> Ret(<<>>)
    [] f.st = "err"  -> Raise(f.e)
    [] OTHER ->
         LET cs == PushCaptures(S, f.ms, f.src, f.e, TRUE)
             rest == GMatch(S, P, IF f.e = f.src THEN f.e + 1 ELSE f.e)
         IN  CASE cs.err # 0   -> cs
               [] rest.err # 0 -> rest
               [] OTHER        -> Ret(<<cs.vals>> \o rest.vals)
GMatch(S, P, start) == GMatchFrom(S, P, GMatchScan(S, P, MS0, start))

\* gafqL_addvalue of a number: its decimal text (gafq_tolstring).
RECURSIVE Decimal(_)
Decimal(n) == IF n < 10 THEN <<ZERO + n>> ELSE Decimal(n \div 10) \o <<ZERO + (n % 10)>>

\* The loop of add_s over the replacement R from byte i: the text added
\* for the match s..e, or the error push_onecapture raised.
RECURSIVE AddS(_, _, _, _, _, _)
AddS(S, ms, s, e, R, i) ==
  LET c == Ch(R, i + 1)
      rest == AddS(S, ms, s, e, R, i + 2)
      piece == CASE c \notin Digit -> Ret(<<c>>)
                 [] c = ZERO       -> Ret(SubSeq(S, s + 1, e))
                 [] OTHER ->
                      LET v == OneCapture(S, ms, c - ONE, s, e) IN
                      CASE v.k = "err" -> Raise(v.v[1])
                        [] v.k = "num" -> Ret(Decimal(v.v[1]))
                        [] OTHER       -> Ret(v.v)
  IN
  CASE i >= Len(R)   -> Ret(<<>>)
    [] R[i + 1] # L_ESC ->
         LET r2 == AddS(S, ms, s, e, R, i + 1) IN
         IF r2.err # 0 THEN r2 ELSE Ret(<<R[i + 1]>> \o r2.vals)
    [] piece.err # 0 -> piece
    [] rest.err # 0  -> rest
    [] OTHER         -> Ret(piece.vals \o rest.vals)

\* The while (n < max_s) loop of str_gsub from src, with acc the text built
\* so far: [err, str, n].
\* r is what match returned for src.
RECURSIVE GsubLoop(_, _, _, _, _, _, _, _, _)
GsubAt(S, P, R, maxs, anchor, src, n, acc, r) ==
  LET a == IF r.s # NULL THEN AddS(S, r.ms, src, r.s, R, 0) ELSE Ret(<<>>)
      n2 == IF r.s # NULL THEN n + 1 ELSE n
      Finish(at, k, text) == [err |-> 0, str |-> text \o SubSeq(S, at + 1, Len(S)), n |-> k]
  IN
  CASE n >= maxs  -> Finish(src, n, acc)
    [] IsErr(r.s) -> [err |-> r.s, str |-> <<>>, n |-> 0]
    [] a.err # 0  -> [err |-> a.err, str |-> <<>>, n |-> 0]
    [] r.s # NULL /\ r.s > src ->
         IF anchor THEN Finish(r.s, n2, acc \o a.vals)
         ELSE GsubLoop(S, P, R, maxs, anchor, r.ms, r.s, n2, acc \o a.vals)
    [] src < Len(S) ->
         IF anchor THEN Finish(src + 1, n2, acc \o a.vals \o <<S[src + 1]>>)
         ELSE GsubLoop(S, P, R, maxs, anchor, r.ms, src + 1, n2, acc \o a.vals \o <<S[src + 1]>>)
    [] OTHER -> Finish(src, n2, acc \o a.vals)
GsubLoop(S, P, R, maxs, anchor, ms, src, n, acc) ==
  GsubAt(S, P, R, maxs, anchor, src, n, acc,
         Match(S, P, [ms EXCEPT !.level = 0], src, IF anchor THEN 1 ELSE 0))

\* str_gsub with a string replacement R and at most maxs substitutions.
StrGsub(S, P, R, maxs) == GsubLoop(S, P, R, maxs, Ch(P, 0) = CARET, MS0, 0, 0, <<>>)

-----------------------------------------------------------------------------
(* What a pattern means (the reference the matcher is checked against).    *)
(* A pattern is a list of items; each item maps a position and the         *)
(* captures so far to the list of its outcomes in the order the pattern    *)
(* prefers them (greedy '*' and '+' longest first, '-' shortest first,     *)
(* '?' with the byte first).  An outcome is a match end with its captures, *)
(* or an error, which ends the list: items are read only when reached, so  *)
(* a malformed item after a failing one raises nothing.                    *)

Byte == 0..255

\* %x: the bytes of class x, its complement for an upper-case letter.
EscSet(cl) ==
  IF ToLower(cl) \in DOMAIN ClassOf
  THEN IF cl \in Lower THEN ClassOf[ToLower(cl)] ELSE Byte \ ClassOf[ToLower(cl)]
  ELSE {cl}

Cls(set, next) == [set |-> set, next |-> next, e |-> 0]
ClsErr(e) == [set |-> {}, next |-> 0, e |-> e]

\* The elements of a [set] from byte k on: [set, next], or an error e.
\* A ']' right after '[' or "[^" is an element; x-y is a range unless y
\* is the closing ']'.
RECURSIVE SetElems(_, _, _)
SetElems(P, k, first) ==
  LET c == Ch(P, k)
      elem == CASE c = L_ESC -> [set |-> EscSet(Ch(P, k + 1)), len |-> 2]
                [] Ch(P, k + 1) = MINUS /\ Ch(P, k + 2) \notin {RBRACKET, 0} ->
                     [set |-> c..Ch(P, k + 2), len |-> 3]
                [] OTHER -> [set |-> {c}, len |-> 1]
      rest == SetElems(P, k + elem.len, FALSE)
  IN
  CASE c = RBRACKET /\ ~first -> Cls({}, k + 1)
    [] c = 0 \/ (c = L_ESC /\ Ch(P, k + 1) = 0) -> ClsErr(E_MISSING_BRACKET)
    [] rest.e # 0 -> rest
    [] OTHER -> Cls(elem.set \cup rest.set, rest.next)

\* The class at k: '.', %x, [set], [^set] or a byte: [set, next], or an error e.
RefClass(P, k) ==
  LET c == Ch(P, k)
      neg == Ch(P, k + 1) = CARET
      br == SetElems(P, IF neg THEN k + 2 ELSE k + 1, TRUE)
  IN
  CASE c = DOT -> Cls(Byte, k + 1)
    [] c = L_ESC -> IF Ch(P, k + 1) = 0 THEN ClsErr(E_ENDS_ESC)
                    ELSE Cls(EscSet(Ch(P, k + 1)), k + 2)
    [] c = LBRACKET /\ br.e # 0 -> br
    [] c = LBRACKET -> Cls(IF neg THEN Byte \ br.set ELSE br.set, br.next)
    [] OTHER -> Cls({c}, k + 1)

Item(t) == [t |-> t, set |-> {}, q |-> 0, n |-> 0]
ErrItem(e) == [Item("error") EXCEPT !.n = e]

\* The item at byte k (not the end of the pattern), the byte after it,
\* and whether it is the last one read: an error or the final '$'; cl and
\* fr are the classes at k and at k + 2.
ItemWith(P, k, cl, fr) ==
  LET c == Ch(P, k)
      d == Ch(P, k + 1)
      One(it, next) == [it |-> it, next |-> next, last |-> FALSE]
      Stop(it) == [it |-> it, next |-> 0, last |-> TRUE]
  IN
  CASE c = LPAREN /\ d = RPAREN -> One(Item("pos"), k + 2)
    [] c = LPAREN -> One(Item("open"), k + 1)
    [] c = RPAREN -> One(Item("close"), k + 1)
    [] c = L_ESC /\ d = LETTER_B ->
         IF Ch(P, k + 2) = 0 \/ Ch(P, k + 3) = 0 THEN Stop(ErrItem(E_UNBALANCED))
         ELSE One([Item("bal") EXCEPT !.set = {Ch(P, k + 2)}, !.n = Ch(P, k + 3)], k + 4)
    [] c = L_ESC /\ d = LETTER_F ->
         CASE Ch(P, k + 2) # LBRACKET -> Stop(ErrItem(E_MISSING_F))
           [] fr.e # 0 -> Stop(ErrItem(fr.e))
           [] OTHER -> One([Item("front") EXCEPT !.set = fr.set], fr.next)
    [] c = L_ESC /\ d \in Digit -> One([Item("back") EXCEPT !.n = d - ZERO], k + 2)
    [] c = DOLLAR /\ d = 0 -> Stop(Item("end"))
    [] cl.e # 0 -> Stop(ErrItem(cl.e))
    [] Ch(P, cl.next) \in {STAR, PLUS, MINUS, QUEST} ->
         One([Item("single") EXCEPT !.set = cl.set, !.q = Ch(P, cl.next)], cl.next + 1)
    [] OTHER -> One([Item("single") EXCEPT !.set = cl.set], cl.next)
ItemAt(P, k) == ItemWith(P, k, RefClass(P, k), RefClass(P, k + 2))

\* The items of the pattern from byte k.
RECURSIVE Parse(_, _)
ParseRest(P, x) == IF x.last THEN <<x.it>> ELSE <<x.it>> \o Parse(P, x.next)
Parse(P, k) == IF Ch(P, k) = 0 THEN <<>> ELSE ParseRest(P, ItemAt(P, k))


Ok(j, caps) == [ok |-> TRUE, end |-> j, caps |-> caps, e |-> 0]
Fail(e) == [ok |-> FALSE, end |-> 0, caps |-> <<>>, e |-> e]

\* Outcome lists are joined in order; a list ending in an error stops
\* the search there.
Stops(l) == l # <<>> /\ ~Last(l).ok

\* The longest run of bytes of set at offset i of S.
Span(S, i, set) ==
  Max({j \in 0..(Len(S) - i) : \A m \in (i + 1)..(i + j) : S[m] \in set})

\* Depth of %bxy from i to j: one for the x at i, plus every later x,
\* minus every y.
BalDepth(S, i, j, b, e) ==
  1 + Cardinality({m \in (i + 2)..(j + 1) : S[m] = b /\ S[m] # e})
    - Cardinality({m \in (i + 2)..(j + 1) : S[m] = e})

\* What item it does at offset i with captures caps: its outcomes (out),
\* or the (i, caps) pairs the remaining items run from, in order.
RefStep(S, it, i, caps) ==
  LET k == Span(S, i, it.set)
      open == {m \in DOMAIN caps : caps[m].kind = "open"}
      cap == caps[it.n]
      ends == {j \in (i + 1)..(Len(S) - 1) :
                  S[j + 1] = it.n /\ BalDepth(S, i, j, Ch(S, i), it.n) = 0}
      prev == IF i = 0 THEN 0 ELSE S[i]
      Out(l) == [done |-> TRUE, out |-> l, alts |-> <<>>]
      Run(ks) == [done |-> FALSE, out |-> <<>>, alts |-> [m \in DOMAIN ks |-> [i |-> i + ks[m], caps |-> caps]]]
      RunCaps(c) == [done |-> FALSE, out |-> <<>>, alts |-> <<[i |-> i, caps |-> c]>>]
  IN
  CASE it.t = "error" -> Out(<<Fail(it.n)>>)
    [] it.t = "end" -> Out(IF i = Len(S) THEN <<Ok(i, caps)>> ELSE <<>>)
    [] it.t \in {"open", "pos"} ->
         IF Len(caps) >= MAXCAPTURES THEN Out(<<Fail(E_TOO_MANY)>>)
         ELSE RunCaps(Append(caps, [at |-> i, len |-> 0, kind |-> it.t]))
    [] it.t = "close" ->
         IF open = {} THEN Out(<<Fail(E_PATTERN_CAPTURE)>>)
         ELSE RunCaps([caps EXCEPT ![Max(open)].len = i - caps[Max(open)].at,
                                   ![Max(open)].kind = "closed"])
    [] it.t = "back" ->
         CASE it.n = 0 \/ it.n > Len(caps) -> Out(<<Fail(E_CAPTURE_INDEX)>>)
           [] cap.kind = "open" -> Out(<<Fail(E_CAPTURE_INDEX)>>)
           [] cap.kind = "pos" -> Out(<<>>)
           [] i + cap.len <= Len(S)
                /\ SubSeq(S, i + 1, i + cap.len) = SubSeq(S, cap.at + 1, cap.at + cap.len) ->
                Run(<<cap.len>>)
           [] OTHER -> Out(<<>>)
    [] it.t = "bal" ->
         IF i < Len(S) /\ S[i + 1] \in it.set /\ ends # {}
         THEN Run(<<Min(ends) + 1 - i>>) ELSE Out(<<>>)
    [] it.t = "front" ->
         IF prev \notin it.set /\ Ch(S, i) \in it.set THEN Run(<<0>>) ELSE Out(<<>>)
    [] it.q = STAR  -> Run([m \in 1..(k + 1) |-> k + 1 - m])
    [] it.q = PLUS  -> Run([m \in 1..k |-> k + 1 - m])
    [] it.q = MINUS -> Run([m \in 1..(k + 1) |-> m - 1])
    [] it.q = QUEST -> Run(IF k >= 1 THEN <<1, 0>> ELSE <<0>>)
    [] OTHER        -> Run(IF k >= 1 THEN <<1>> ELSE <<>>)

RECURSIVE RefRun(_, _, _, _)

\* Run the remaining items from each pair in turn.
RECURSIVE RefAlts(_, _, _)
RefAlts(S, rest, alts) ==
  IF alts = <<>> THEN <<>>
  ELSE LET h == RefRun(S, rest, Head(alts).i, Head(alts).caps)
       IN IF Stops(h) THEN h ELSE h \o RefAlts(S, rest, Tail(alts))

\* The outcomes of the items from offset i, in the order they are preferred.
RefRun(S, items, i, caps) ==
  IF items = <<>> THEN <<Ok(i, caps)>>
  ELSE LET st == RefStep(S, Head(items), i, caps)
       IN  IF st.done THEN st.out ELSE RefAlts(S, Tail(items), st.alts)

\* The value of capture m of an outcome ending at j that started at i.
CapVal(S, caps, m) ==
  CASE caps[m].kind = "open" -> ErrV(E_UNFINISHED)
    [] caps[m].kind = "pos"  -> Num(caps[m].at + 1)
    [] OTHER -> Str(SubSeq(S, caps[m].at + 1, caps[m].at + caps[m].len))

\* The first start from i on (only i when anchored) where the pattern has
\* an outcome, with that outcome (found), or none (~found).
RECURSIVE FirstOutcome(_, _, _, _)
FirstOutcome(S, items, i, anchor) ==
  LET o == RefRun(S, items, i, <<>>)
  IN CASE o # <<>> -> [found |-> TRUE, start |-> i, o |-> Head(o)]
       [] anchor \/ i >= Len(S) -> [found |-> FALSE]
       [] OTHER -> FirstOutcome(S, items, i + 1, anchor)

\* string.find (find) and string.match (~find) as the manual states them,
\* from offset i, where r is the first outcome of the pattern.
RefFindFrom(S, P, i, plain, find, r) ==
  LET lp == Len(P)
      hits == {j \in i..(Len(S) - lp) : SubSeq(S, j + 1, j + lp) = P}
      vals == [m \in DOMAIN r.o.caps |-> CapVal(S, r.o.caps, m)]
      whole == <<Str(SubSeq(S, r.start + 1, r.o.end))>>
      bad == {m \in DOMAIN vals : vals[m].k = "err"}
  IN
  CASE find /\ (plain \/ \A m \in DOMAIN P : P[m] \notin SPECIALS) ->
         IF hits = {} THEN Ret(<<NilV>>) ELSE Ret(<<Num(Min(hits) + 1), Num(Min(hits) + lp)>>)
    [] ~r.found -> Ret(<<NilV>>)
    [] ~r.o.ok -> Raise(r.o.e)
    [] bad # {} -> Raise(E_UNFINISHED)
    [] find -> Ret(<<Num(r.start + 1), Num(r.o.end)>> \o vals)
    [] vals = <<>> -> Ret(whole)
    [] OTHER -> Ret(vals)
RefFind(S, P, init, plain, find) ==
  LET i == Min({Max({PosRelat(init, Len(S)) - 1, 0}), Len(S)})
      anchor == Ch(P, 0) = CARET
  IN  RefFindFrom(S, P, i, plain, find,
                  FirstOutcome(S, Parse(P, IF anchor THEN 1 ELSE 0), i, anchor))

-----------------------------------------------------------------------------
(* What the library promises for a subject S and a pattern P.              *)

\* string.find with and without plain, and string.match.
Modes == {[plain |-> FALSE, find |-> TRUE], [plain |-> TRUE, find |-> TRUE],
          [plain |-> FALSE, find |-> FALSE]}

\* str_find_aux, with match's backtracking, capture undo and error paths
\* and gmemfind's plain search, returns exactly what the pattern means:
\* the first start with a match, the preferred match there, its captures,
\* and the error of the first malformed item the search reaches.
FindAsSpecifiedFor(S, P) ==
  \A init \in Inits, m \in Modes :
    StrFindAux(S, P, init, m.plain, m.find) = RefFind(S, P, init, m.plain, m.find)

\* str_gsub and gmatch_aux step over the subject by different loops, each
\* with its own rule for an empty match; they must visit the same matches:
\* gsub with "%0" gives back the subject, having replaced as many matches
\* as gmatch yields, or max_s of them.  (gmatch takes '^' literally.)
GsubAgrees(S, maxs, g, m) ==
  g.err = 0 /\ m.err = 0 => g.str = S /\ g.n = Min({maxs, Len(m.vals)})
GsubAgreesWithGmatchFor(S, P) ==
  Ch(P, 0) # CARET =>
    \A maxs \in {1, Len(S) + 2} :
      GsubAgrees(S, maxs, StrGsub(S, P, <<L_ESC, ZERO>>, maxs), GMatch(S, P, 0))

=============================================================================
