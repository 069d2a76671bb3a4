----------------------------- MODULE GafqConcat -----------------------------
(***************************************************************************)
(* Concatenation (gvm.c gafqV_concat), reached from OP_CONCAT and from     *)
(* gafq_concat.  Each pass of its do-while loop looks at the top two       *)
(* operands: if either is neither a string nor a number, the __concat      *)
(* metamethod of the first, else of the second, replaces the pair;         *)
(* otherwise as many strings and numbers as lie below are coalesced into   *)
(* one string, their lengths summed in size_t.  Numbers are converted in   *)
(* place (gafqV_tostring).  A value is a record [t, s, n, args]: a string  *)
(* s, a number n, a table without metamethods, or a table whose metatable  *)
(* has a __concat function that returns a new such table holding its two  *)
(* operands (args), so that every metamethod call leaves a trace.          *)
(***************************************************************************)
EXTENDS Integers, Sequences, SequencesExt

CONSTANTS
  Letters,    \* the characters of the strings pushed
  Nums,       \* the numbers pushed: non-negative integers
  MAXSTR,     \* longest string pushed (model bound)
  WIDTH,      \* bits of size_t
  MAXSTACK,   \* most values on the stack (model bound)
  MAXCALLS    \* most concatenations made (model bound)

ASSUME Nums \subseteq Nat /\ WIDTH \in Nat \ {0} /\ MAXCALLS \in Nat

SIZE == 2^WIDTH
\* llimits.h: ((size_t)(~(size_t)0)-2)
MAX_SIZET == (SIZE - 1) - 2

NONE == "none"
ERR_CONCAT == "attempt to concatenate"
ERR_OVERFLOW == "string length overflow"

Str(s) == [t |-> "string", s |-> s, n |-> 0, args |-> <<>>]
Num(n) == [t |-> "number", s |-> <<>>, n |-> n, args |-> <<>>]
Plain == [t |-> "table", s |-> <<>>, n |-> 0, args |-> <<>>]
Cat(args) == [t |-> "catable", s |-> <<>>, n |-> 0, args |-> args]

\* The values a program pushes.
Pushed ==
  {Str(s) : s \in UNION {[1..k -> Letters] : k \in 0..MAXSTR}}
    \cup {Num(n) : n \in Nums} \cup {Plain, Cat(<<>>)}

VARIABLES
  stk,    \* the values on the stack, bottom first
  err,    \* the error the last concatenation raised, or NONE
  calls,  \* concatenations made so far
  last    \* the last call: [op, a, b, c] (OP_CONCAT) or [op, n] (gafq_concat)

vars == <<stk, err, calls, last>>

-----------------------------------------------------------------------------
\* gafq_number2str ("%.14g" of an integer): its decimal digits.
RECURSIVE Decimal(_)
Decimal(n) ==
  LET d == <<"0", "1", "2", "3", "4", "5", "6", "7", "8", "9">>[(n % 10) + 1]
  IN  IF n < 10 THEN <<d>> ELSE Decimal(n \div 10) \o <<d>>

\* gafqV_tostring through the tostring macro: a string as is, a number
\* replaced by its string, anything else fails.
IsStrNum(v) == v.t \in {"string", "number"}
tostring(v) == IF v.t = "number" THEN Str(Decimal(v.n)) ELSE v

\* call_binTM with TM_CONCAT: the first operand's metamethod, else the
\* second's; the metamethod called with (p1, p2) returns Cat(<<p1, p2>>).
HasConcatTM(v) == v.t = "catable"

\* Fault variant: the overflow test as tl + l >= MAX_SIZET, a sum that wraps.
RECURSIVE Collect_WrappedSum(_, _, _, _, _)
Collect_WrappedSum(s, n, tl, total, i) ==
  IF n < total /\ IsStrNum(s[i - n])
  THEN LET s1 == [s EXCEPT ![i - n] = tostring(@)]
           l  == Len(s1[i - n].s)
       IN  IF (tl + l) % SIZE >= MAX_SIZET
           THEN [s |-> s1, n |-> n, tl |-> tl, err |-> ERR_OVERFLOW]
           ELSE Collect_WrappedSum(s1, n + 1, (tl + l) % SIZE, total, i)
  ELSE [s |-> s, n |-> n, tl |-> tl, err |-> NONE]

\* The collecting loop of one pass: for (n = 1; n < total && tostring(top-n-1);
\* n++), with the overflow test l >= MAX_SIZET - tl in size_t.  i is the
\* position of the last operand (C's top - 1).
RECURSIVE Collect(_, _, _, _, _)
Collect(s, n, tl, total, i) ==
  IF n < total /\ IsStrNum(s[i - n])
  THEN LET s1 == [s EXCEPT ![i - n] = tostring(@)]
           l  == Len(s1[i - n].s)
       IN  IF l >= (MAX_SIZET - tl) % SIZE
           THEN [s |-> s1, n |-> n, tl |-> tl, err |-> ERR_OVERFLOW]
           ELSE Collect(s1, n + 1, (tl + l) % SIZE, total, i)
  ELSE [s |-> s, n |-> n, tl |-> tl, err |-> NONE]

\* One pass of the do-while loop on the operands ending at position i:
\* the stack it leaves, how many operands it consumed (n) and its error.
Pass(s, total, i) ==
  LET x == s[i - 1]
      y == s[i]
  IN
  IF ~IsStrNum(x) \/ ~IsStrNum(y)
  THEN IF HasConcatTM(x) \/ HasConcatTM(y)
       THEN [s |-> [s EXCEPT ![i - 1] = Cat(<<x, y>>)], n |-> 2, err |-> NONE]
       ELSE [s |-> s, n |-> 2, err |-> ERR_CONCAT]
  ELSE LET s1 == [s EXCEPT ![i] = tostring(y)] IN
       IF Len(s1[i].s) = 0
       THEN [s |-> [s1 EXCEPT ![i - 1] = tostring(x)], n |-> 2, err |-> NONE]
       ELSE LET c    == Collect(s1, 1, Len(s1[i].s), total, i)
                \* memcpy of the n strings into a buffer of tl bytes, then
                \* gafqS_newlstr(buffer, tl)
                text == FlattenSeq([k \in 1..c.n |-> c.s[i - c.n + k].s])
            IN  IF c.err # NONE THEN [s |-> c.s, n |-> c.n, err |-> c.err]
                ELSE [s |-> [c.s EXCEPT ![i - c.n + 1] = Str(SubSeq(text, 1, c.tl))],
                      n |-> c.n, err |-> NONE]

\* gafqV_concat(L, total, last): passes until one value is left, each one
\* consuming n operands for one (total -= n-1, last -= n-1).
RECURSIVE ConcatV(_, _, _)
ConcatV(s, total, i) ==
  LET p == Pass(s, total, i) IN
  IF p.err # NONE THEN [s |-> p.s, err |-> p.err]
  ELSE IF total - (p.n - 1) > 1 THEN ConcatV(p.s, total - (p.n - 1), i - (p.n - 1))
  ELSE [s |-> p.s, err |-> NONE]

-----------------------------------------------------------------------------
(* The callers.                                                             *)

\* gafq_concat(L, n): n >= 2 concatenates the top n values and pops n - 1;
\* n = 0 pushes the empty string; n = 1 leaves the stack as it is.
ApiConcat ==
  /\ err = NONE /\ calls < MAXCALLS
  /\ \E n \in {0} \cup 2..Len(stk) :
       /\ IF n = 0
          THEN Len(stk) < MAXSTACK /\ stk' = Append(stk, Str(<<>>)) /\ err' = NONE
          ELSE LET r == ConcatV(stk, n, Len(stk)) IN
               /\ err' = r.err
               /\ stk' = IF r.err # NONE THEN r.s ELSE SubSeq(r.s, 1, Len(stk) - (n - 1))
       /\ last' = [op |-> "api", n |-> n, a |-> 0, b |-> 0, c |-> 0]
  /\ calls' = calls + 1

\* OP_CONCAT A B C: gafqV_concat(L, c-b+1, c), then R(A) := R(B).
OpConcat ==
  /\ err = NONE /\ calls < MAXCALLS
  /\ \E a \in 1..Len(stk), b \in 1..Len(stk), c \in 1..Len(stk) :
       /\ b < c
       /\ LET r == ConcatV(stk, c - b + 1, c) IN
          /\ err' = r.err
          /\ stk' = IF r.err # NONE THEN r.s ELSE [r.s EXCEPT ![a] = r.s[b]]
       /\ last' = [op |-> "op", n |-> c - b + 1, a |-> a, b |-> b, c |-> c]
  /\ calls' = calls + 1

\* The error unwinds the caller, or the program has made its calls.
Halted == (err # NONE \/ calls = MAXCALLS) /\ UNCHANGED vars

\* Any values a program may have pushed.
Init ==
  /\ stk \in UNION {[1..k -> Pushed] : k \in 1..MAXSTACK}
  /\ err = NONE
  /\ calls = 0
  /\ last = [op |-> "none", n |-> 0, a |-> 0, b |-> 0, c |-> 0]

Next == ApiConcat \/ OpConcat \/ Halted

Spec == Init /\ [][Next]_vars

-----------------------------------------------------------------------------
\* The meaning of a .. b (spec.md 4.4 and the manual): right associative; two
\* strings or numbers give the string of both, longer than the longest
\* string (MAX_SIZET - 1 characters) an overflow error; otherwise the
\* __concat metamethod of the left operand, else of the right, is called
\* with both, and without one the concatenation is an error.
Bin(x, y) ==
  IF IsStrNum(x) /\ IsStrNum(y)
  THEN LET s == tostring(x).s \o tostring(y).s IN
       IF Len(s) >= MAX_SIZET THEN [v |-> x, err |-> ERR_OVERFLOW]
       ELSE [v |-> Str(s), err |-> NONE]
  ELSE IF HasConcatTM(x) \/ HasConcatTM(y) THEN [v |-> Cat(<<x, y>>), err |-> NONE]
  ELSE [v |-> x, err |-> ERR_CONCAT]

RECURSIVE RefConcat(_)
RefConcat(vs) ==
  IF Len(vs) = 1 THEN [v |-> vs[1], err |-> NONE]
  ELSE LET r == RefConcat(Tail(vs)) IN
       IF r.err # NONE THEN r ELSE Bin(Head(vs), r.v)

\* gafqV_concat, which coalesces runs of strings and numbers in one pass,
\* sums their lengths in size_t and takes metamethods pair by pair, gives
\* what the right-associative definition gives: the same value (the same
\* metamethod calls with the same operands, in the same nesting), the same
\* error, and for gafq_concat the values below untouched; OP_CONCAT leaves
\* the registers outside B..C other than A as they were.
ConcatAsFold ==
  [][calls' # calls =>
     LET r == RefConcat(SubSeq(stk, last'.c - last'.n + 1, last'.c)) IN
     /\ last'.op = "api" /\ last'.n >= 2 =>
          LET ra == RefConcat(SubSeq(stk, Len(stk) - last'.n + 1, Len(stk))) IN
          /\ err' = ra.err
          /\ err' = NONE =>
               stk' = SubSeq(stk, 1, Len(stk) - last'.n) \o <<ra.v>>
     /\ last'.op = "op" =>
          /\ err' = r.err
          /\ err' = NONE =>
               /\ stk'[last'.a] = r.v
               /\ \A k \in 1..Len(stk) \ ((last'.b..last'.c) \cup {last'.a}) :
                    stk'[k] = stk[k]
  ]_vars
====
