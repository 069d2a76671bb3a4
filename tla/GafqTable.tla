------------------------------ MODULE GafqTable ------------------------------
(***************************************************************************)
(* The table library's array functions (gtablib.c): table.insert,          *)
(* table.remove and table.sort on one table t.  The keys are 0 .. N + 1;   *)
(* the length #t that aux_getn takes (gafq_objlen, gafqH_getn) is any      *)
(* border of t.  gafqL_setn is a no-op in this build (GAFQ_COMPAT_GETN is  *)
(* not defined).  table.sort is the quicksort auxsort, translated as       *)
(* recursive operators over a record [a, err, lo, hi]: the array, the      *)
(* error raised if any, and the least and greatest key it read.  A         *)
(* comparator is the set of pairs <<x, y>> for which it returns true; the  *)
(* default comparator (gafq_lessthan) raises on a nil operand, a Gafq      *)
(* function receives the nil.                                              *)
(***************************************************************************)
EXTENDS Integers, Sequences, SequencesExt, FiniteSets

CONSTANTS
  Values,   \* the values stored in the table: positive integers
  N,        \* most elements the table holds (model bound)
  Cmps      \* the comparator functions passed to table.sort

ASSUME Values \subseteq Nat \ {0} /\ N \in Nat \ {0}

Nil == 0
Keys == 0..N + 1
NoRet == -1                  \* table.remove returned no value
OK == 0                      \* sort finished
ERR_ORDER == 1               \* "invalid order function for sorting"
ERR_COMPARE == 2             \* "attempt to compare" a nil (gafq_lessthan)

\* The default comparator, gafq_lessthan on numbers.
DefaultLt == {p \in Values \X Values : p[1] < p[2]}
DefaultCmp == [lt |-> DefaultLt, fn |-> FALSE]
Comparators ==
  {DefaultCmp} \cup {[lt |-> r, fn |-> TRUE] : r \in Cmps}

VARIABLES
  t,      \* t[k] for k \in Keys; Nil when absent
  op,     \* the last library call: "none", "insert", "remove", "sort"
  arg,    \* its arguments [pos, v, n, cmp]: position, value, #t, comparator
  ret,    \* what table.remove returned, NoRet when nothing
  err,    \* the error the last sort raised, or OK
  rd      \* [lo, hi]: least and greatest key the last sort read

vars == <<t, op, arg, ret, err, rd>>

NoReads == [lo |-> N + 2, hi |-> -1]

\* gafq_objlen of a table (gafqH_getn, not in the repository): any border.
Borders(tab) == {n \in 0..N : (n = 0 \/ tab[n] # Nil) /\ tab[n + 1] = Nil}

-----------------------------------------------------------------------------
(* auxsort.  A sort state s is [a, err, lo, hi].                            *)

\* gafq_rawgeti(L, 1, k): record that key k was read.
Read(s, k) ==
  [s EXCEPT !.lo = IF k < @ THEN k ELSE @, !.hi = IF k > @ THEN k ELSE @]

\* set2 of the two values just read from keys i and j: they change places.
Set2(s, i, j) == [s EXCEPT !.a = [@ EXCEPT ![i] = s.a[j], ![j] = s.a[i]]]

Fail(s, e) == [s EXCEPT !.err = e]

\* sort_comp(x, y): the comparator on two values; a nil raises under
\* gafq_lessthan.  The result is YES, NO or ERR_COMPARE.
YES == 10
NO == 11
SortComp(c, x, y) ==
  IF ~c.fn /\ (x = Nil \/ y = Nil) THEN ERR_COMPARE
  ELSE IF <<x, y>> \in c.lt THEN YES ELSE NO

\* Compare a[x] < a[y] and, when it holds, set2 the keys x and y.
SwapIfLess(s, c, x, y) ==
  LET r == Read(Read(s, y), x)
      b == SortComp(c, r.a[x], r.a[y])
  IN  IF b = ERR_COMPARE THEN Fail(r, ERR_COMPARE)
      ELSE IF b = YES THEN Set2(r, x, y) ELSE r

\* Fault variant: the median of three without the a[u] < a[i] test.
Median_TwoOnly(s, c, l, i, u) ==
  LET r == Read(Read(s, i), l)
      b == SortComp(c, r.a[i], r.a[l])
  IN  IF b = ERR_COMPARE THEN Fail(r, ERR_COMPARE)
      ELSE IF b = YES THEN Set2(r, i, l)
      ELSE r

\* The median of a[l], a[i], a[u] goes to a[i].
Median(s, c, l, i, u) ==
  LET r == Read(Read(s, i), l)
      b == SortComp(c, r.a[i], r.a[l])
  IN  IF b = ERR_COMPARE THEN Fail(r, ERR_COMPARE)
      ELSE IF b = YES THEN Set2(r, i, l)
      ELSE SwapIfLess(r, c, u, i)

\* repeat ++i until a[i] >= P; the i > u test follows the read.
RECURSIVE ScanUp(_, _, _, _, _)
ScanUp(s, c, P, i, u) ==
  LET r == Read(s, i + 1)
      b == SortComp(c, r.a[i + 1], P)
  IN  IF b = ERR_COMPARE THEN [s |-> Fail(r, ERR_COMPARE), k |-> i + 1]
      ELSE IF b = YES
           THEN IF i + 1 > u THEN [s |-> Fail(r, ERR_ORDER), k |-> i + 1]
                ELSE ScanUp(r, c, P, i + 1, u)
      ELSE [s |-> r, k |-> i + 1]

\* repeat --j until a[j] <= P; the j < l test follows the read.
RECURSIVE ScanDown(_, _, _, _, _)
ScanDown(s, c, P, j, l) ==
  LET r == Read(s, j - 1)
      b == SortComp(c, P, r.a[j - 1])
  IN  IF b = ERR_COMPARE THEN [s |-> Fail(r, ERR_COMPARE), k |-> j - 1]
      ELSE IF b = YES
           THEN IF j - 1 < l THEN [s |-> Fail(r, ERR_ORDER), k |-> j - 1]
                ELSE ScanDown(r, c, P, j - 1, l)
      ELSE [s |-> r, k |-> j - 1]

\* The for (;;) loop: invariant a[l..i] <= P <= a[j..u]; ends with k = i.
RECURSIVE Partition(_, _, _, _, _, _, _)
Partition(s, c, P, i, j, l, u) ==
  LET up == ScanUp(s, c, P, i, u)
      dn == ScanDown(up.s, c, P, j, l)
  IN  IF up.s.err # OK THEN up
      ELSE IF dn.s.err # OK THEN dn
      ELSE IF dn.k < up.k THEN [s |-> dn.s, k |-> up.k]
      ELSE Partition(Set2(dn.s, up.k, dn.k), c, P, up.k, dn.k, l, u)

\* auxsort(L, l, u): median of three, partition around the pivot at u - 1,
\* recurse into the smaller part and loop on the larger one.
RECURSIVE AuxSort(_, _, _, _)
AuxSort(s, c, l, u) ==
  IF l >= u \/ s.err # OK THEN s
  ELSE
  LET s1 == SwapIfLess(s, c, u, l) IN
  IF s1.err # OK \/ u - l = 1 THEN s1
  ELSE
  LET i  == (l + u) \div 2
      s2 == Median(s1, c, l, i, u)
  IN
  IF s2.err # OK \/ u - l = 2 THEN s2
  ELSE
  LET s3 == Set2(Read(Read(s2, i), u - 1), i, u - 1)
      pt == Partition(s3, c, s2.a[i], l, u - 1, l, u)
      k  == pt.k
      s4 == Set2(Read(Read(pt.s, u - 1), k), u - 1, k)
  IN
  IF pt.s.err # OK THEN pt.s
  ELSE IF k - l < u - k
       THEN AuxSort(AuxSort(s4, c, l, k - 1), c, k + 1, u)
       ELSE AuxSort(AuxSort(s4, c, k + 1, u), c, l, k - 1)

-----------------------------------------------------------------------------
(* The library calls.                                                       *)

\* tinsert with two arguments: t[#t + 1] = v.
TInsertEnd ==
  \E n \in Borders(t), v \in Values :
    /\ n + 1 <= N
    /\ t' = [t EXCEPT ![n + 1] = v]
    /\ op' = "insert"
    /\ arg' = [pos |-> n + 1, v |-> v, n |-> n, cmp |-> DefaultCmp]
    /\ ret' = NoRet /\ err' = OK /\ rd' = NoReads

\* Fault variant: the moving loop of tinsert starts at e + 1.
TInsert_ShiftOneMore ==
  \E n \in Borders(t), pos \in 0..N, v \in Values :
    LET e == IF pos > n + 1 THEN pos ELSE n + 1 IN
    /\ e <= N
    /\ t' = [k \in Keys |-> IF k = pos THEN v
                            ELSE IF pos < k /\ k <= e + 1 THEN t[k - 1]
                            ELSE t[k]]
    /\ op' = "insert"
    /\ arg' = [pos |-> pos, v |-> v, n |-> n, cmp |-> DefaultCmp]
    /\ ret' = NoRet /\ err' = OK /\ rd' = NoReads

\* tinsert with a position: e = max(#t + 1, pos); t[i] = t[i-1] for i from
\* e down to pos + 1; t[pos] = v.
TInsert ==
  \E n \in Borders(t), pos \in 0..N, v \in Values :
    LET e == IF pos > n + 1 THEN pos ELSE n + 1 IN
    /\ e <= N
    /\ t' = [k \in Keys |-> IF k = pos THEN v
                            ELSE IF pos < k /\ k <= e THEN t[k - 1]
                            ELSE t[k]]
    /\ op' = "insert"
    /\ arg' = [pos |-> pos, v |-> v, n |-> n, cmp |-> DefaultCmp]
    /\ ret' = NoRet /\ err' = OK /\ rd' = NoReads

\* Fault variant: tremove without t[e] = nil.
TRemove_NoClear ==
  \E n \in Borders(t), pos \in 0..N + 1 :
    /\ IF 1 <= pos /\ pos <= n
       THEN /\ ret' = t[pos]
            /\ t' = [k \in Keys |-> IF pos <= k /\ k < n THEN t[k + 1] ELSE t[k]]
       ELSE /\ ret' = NoRet
            /\ UNCHANGED t
    /\ op' = "remove"
    /\ arg' = [pos |-> pos, v |-> Nil, n |-> n, cmp |-> DefaultCmp]
    /\ err' = OK /\ rd' = NoReads

\* tremove: pos defaults to e = #t; outside 1..e nothing happens; otherwise
\* t[pos] is returned, t[pos] = t[pos+1] up to e - 1, and t[e] = nil.
TRemove ==
  \E n \in Borders(t), pos \in 0..N + 1 :
    /\ IF 1 <= pos /\ pos <= n
       THEN /\ ret' = t[pos]
            /\ t' = [k \in Keys |-> IF pos <= k /\ k < n THEN t[k + 1]
                                    ELSE IF k = n THEN Nil
                                    ELSE t[k]]
       ELSE /\ ret' = NoRet
            /\ UNCHANGED t
    /\ op' = "remove"
    /\ arg' = [pos |-> pos, v |-> Nil, n |-> n, cmp |-> DefaultCmp]
    /\ err' = OK /\ rd' = NoReads

\* sort: auxsort(L, 1, #t) with the default or a given comparator.  An
\* error leaves the table as auxsort had rearranged it.
Sort ==
  \E n \in Borders(t), c \in Comparators :
    LET r == AuxSort([a |-> t, err |-> OK, lo |-> NoReads.lo, hi |-> NoReads.hi], c, 1, n) IN
    /\ t' = r.a
    /\ err' = r.err
    /\ rd' = [lo |-> r.lo, hi |-> r.hi]
    /\ op' = "sort"
    /\ arg' = [pos |-> 0, v |-> Nil, n |-> n, cmp |-> c]
    /\ ret' = NoRet

\* Any table the program may build within the keys, t[N + 1] absent.
Init ==
  /\ t \in {f \in [Keys -> Values \cup {Nil}] : f[N + 1] = Nil}
  /\ op = "none"
  /\ arg = [pos |-> 0, v |-> Nil, n |-> 0, cmp |-> DefaultCmp]
  /\ ret = NoRet
  /\ err = OK
  /\ rd = NoReads

Next == TInsertEnd \/ TInsert \/ TRemove \/ Sort

Spec == Init /\ [][Next]_vars

-----------------------------------------------------------------------------
TypeOK ==
  /\ t \in [Keys -> Values \cup {Nil}] /\ t[N + 1] = Nil
  /\ op \in {"none", "insert", "remove", "sort"}
  /\ ret \in Values \cup {Nil, NoRet}
  /\ err \in {OK, ERR_ORDER, ERR_COMPARE}
  /\ arg.n \in 0..N

\* t holds a sequence: 1..m present, m + 1..N + 1 absent (t[0] aside).
IsSequence(tab) ==
  \E m \in 0..N : \A k \in 1..N + 1 : (tab[k] # Nil) <=> (k <= m)
AsSeq(tab) ==
  LET m == CHOOSE m \in 0..N : \A k \in 1..N + 1 : (tab[k] # Nil) <=> (k <= m)
  IN  [k \in 1..m |-> tab[k]]

\* How often each value, nil included, occurs under the keys.
Count(tab, x) == Cardinality({k \in Keys : tab[k] = x})
IsPermutation(t1, t2) == \A x \in Values \cup {Nil} : Count(t1, x) = Count(t2, x)

\* A strict weak order over Values: what a consistent comparator is.
StrictWeak(lt) ==
  \A x, y, z \in Values :
    /\ <<x, x>> \notin lt
    /\ (<<x, y>> \in lt /\ <<y, z>> \in lt) => <<x, z>> \in lt
    /\ (<<x, y>> \notin lt /\ <<y, x>> \notin lt /\ <<y, z>> \notin lt
          /\ <<z, y>> \notin lt) => (<<x, z>> \notin lt /\ <<z, x>> \notin lt)

\* table.insert and table.remove on a table that holds a sequence act as
\* inserting at a position 1 .. #t + 1 and removing at a position 1 .. #t of
\* that sequence: the shifting loops of tinsert and tremove move every
\* element once, in the right direction, and tremove returns the element.
\* On any table, holes and any border #t included, and at any position
\* (0 and past the border too), table.insert changes no key below pos or
\* above max(#t + 1, pos), and table.remove changes nothing when pos is
\* outside 1 .. #t and no key outside pos .. #t otherwise.
ListSemantics ==
  /\ [][/\ op' = "insert" =>
           \A k \in Keys : (k < arg'.pos \/ k > Max({arg'.n + 1, arg'.pos}))
                            => t'[k] = t[k]
       /\ op' = "remove" =>
           IF 1 <= arg'.pos /\ arg'.pos <= arg'.n
           THEN \A k \in Keys : (k < arg'.pos \/ k > arg'.n) => t'[k] = t[k]
           ELSE t' = t
     ]_vars
  /\ [][IsSequence(t) =>
       LET s == AsSeq(t) IN
       /\ (op' = "insert" /\ 1 <= arg'.pos /\ arg'.pos <= Len(s) + 1)
            => /\ IsSequence(t') /\ t'[0] = t[0]
               /\ AsSeq(t') = InsertAt(s, arg'.pos, arg'.v)
       /\ (op' = "remove" /\ 1 <= arg'.pos /\ arg'.pos <= Len(s))
            => /\ IsSequence(t') /\ t'[0] = t[0]
               /\ AsSeq(t') = RemoveAt(s, arg'.pos)
               /\ ret' = s[arg'.pos]
     ]_vars

\* With a consistent comparator (gafq_lessthan, or a function that is a
\* strict weak order) table.sort of a sequence raises no error, reads no
\* key outside 1 .. #t (the median of three keeps both scans in range), and
\* leaves a rearrangement of the sequence in which no element is less than
\* one before it.
SortCorrect ==
  [][(op' = "sort" /\ IsSequence(t) /\ StrictWeak(arg'.cmp.lt)) =>
       LET s == AsSeq(t) IN
       /\ err' = OK
       /\ rd'.lo >= 1 /\ rd'.hi <= Len(s)
       /\ IsSequence(t') /\ t'[0] = t[0]
       /\ IsPermutation(t, t')
       /\ IsSorted(AsSeq(t'), LAMBDA x, y : <<y, x>> \notin arg'.cmp.lt)
  ]_vars

\* Whatever a comparator function returns, table.sort of a sequence changes
\* only the keys 1 .. #t it was asked to sort: the scans' range tests
\* (i > u, j < l, "invalid order function for sorting") stop an
\* inconsistent comparator before a swap leaves the range.
SortWithinLength ==
  [][(op' = "sort" /\ IsSequence(t)) =>
       \A k \in Keys \ 1..arg'.n : t'[k] = t[k]
  ]_vars
====
