------------------------------- MODULE GafqStack -------------------------------
(***************************************************************************)
(* The value stack of one thread and the C API over it (gapi.c, gdo.c).   *)
(* The stack is a block of size slots (stacksize); stack_last sits EXTRA   *)
(* + 1 below its end.  gafqD_checkstack reallocates the block when fewer  *)
(* than n slots are left below stack_last, and correctstack moves every    *)
(* pointer into the new block: L->top, L->base, the open upvalues and      *)
(* func, base and top of every CallInfo.  A pointer is a record [g, o]:    *)
(* the block it points into (its generation) and the offset; one whose     *)
(* generation is not the current block's dangles.  Code that holds a       *)
(* position across a call keeps an offset (savestack / restorestack).      *)
(*                                                                         *)
(* The frames are C functions, which use the API (push, settop, remove,    *)
(* insert, replace, pushvalue, checkstack, call, return), and Gafq          *)
(* functions, which make open upvalues, call, run the tag-method calls of  *)
(* gvm.c (callTMres, callTM) at L->top = ci->top, and return.  Frame 1 is  *)
(* base_ci, the host calling the API.  Every call wants one result, a      *)
(* tag method call (callTM) none.                                          *)
(*                                                                         *)
(* A slot holds a value or nothing written since its block was allocated: *)
(* which value, nil included, no property tells apart, so values are one. *)
(***************************************************************************)
EXTENDS Integers, Sequences, FiniteSets, TLC

CONSTANTS
  MINSTACK,      \* GAFQ_MINSTACK
  EXTRA,         \* EXTRA_STACK
  MAXCSTACK,     \* GAFQI_MAXCSTACK
  MAXSTACKSIZE,  \* maxstacksize of the Gafq function called
  NREGS,         \* registers its instructions name (model bound)
  NUMPARAMS,     \* its numparams
  NUPVALS,       \* upvalues of the C closure called
  MAXCI,         \* frames (model bound)
  MAXN           \* largest count given to gafq_checkstack and gafq_call

ASSUME NUMPARAMS <= MAXSTACKSIZE /\ NREGS <= MAXSTACKSIZE

\* What a slot holds: a value (nil or any other: which one no property
\* tells apart), or nothing written since the block was allocated.
Val == 1
Junk == 0
REGISTRY == -10000          \* GAFQ_REGISTRYINDEX
GLOBALS == -10002           \* GAFQ_GLOBALSINDEX
UpvIndex(i) == GLOBALS - i  \* gafq_upvalueindex(i)

BASIC_STACK_SIZE == 2 * MINSTACK

VARIABLES
  stack,   \* stack[o] for o \in 0..size - 1
  size,    \* L->stacksize: slots allocated
  last,    \* offset of L->stack_last
  gen,     \* generation of the current block
  top,     \* L->top (pointer)
  base,    \* L->base (pointer)
  cis,     \* base_ci .. ci: [func, base, top (pointers), kind, cont]
  upvals,  \* L->openupval: pointers, highest offset first
  uaf,     \* a write went through a pointer into a freed block
  oob      \* a write went past the allocated block

svars == <<stack, size, last, gen, top, base, cis, upvals, uaf, oob>>

P(g, o) == [g |-> g, o |-> o]
Cur == cis[Len(cis)]
Window == top.o - base.o   \* gafq_gettop

\* The state as one record, for the operators that compose steps.
Mem == [stack |-> stack, size |-> size, last |-> last, gen |-> gen,
        top |-> top, base |-> base, cis |-> cis, upvals |-> upvals,
        uaf |-> uaf, oob |-> oob]

Become(m) ==
  /\ stack' = m.stack /\ size' = m.size /\ last' = m.last /\ gen' = m.gen
  /\ top' = m.top /\ base' = m.base /\ cis' = m.cis /\ upvals' = m.upvals
  /\ uaf' = m.uaf /\ oob' = m.oob

-----------------------------------------------------------------------------
(* Reallocation (gdo.c).                                                   *)

\* gafqD_reallocstack: realsize, and the contents (gafqM_reallocvector
\* keeps the old slots; the new ones are uninitialized).
RealSize(newsize) == newsize + 1 + EXTRA

\* Fault variant: the vector is reallocated to newsize + 1 slots.
Realloc_NoExtra(s, newsize) ==
  [o \in 0..newsize |-> IF o \in DOMAIN s THEN s[o] ELSE Junk]

Realloc(s, newsize) ==
  [o \in 0..RealSize(newsize) - 1 |-> IF o \in DOMAIN s THEN s[o] ELSE Junk]

\* correctstack: a pointer into the old block, moved to block g.
Moved(p, g) == [p EXCEPT !.g = g]

MovedCis(cs, g) ==
  [i \in DOMAIN cs |->
     [cs[i] EXCEPT !.func = Moved(@, g), !.base = Moved(@, g),
                   !.top = Moved(@, g)]]

MovedUpvals(us, g) == [i \in DOMAIN us |-> Moved(us[i], g)]

\* gafqD_checkstack(L, n): fewer than n slots between L->top and
\* stack_last grows the block (gafqD_growstack: double it, or add n), and
\* correctstack moves L->top, the open upvalues, the CallInfos and L->base.
CheckStackM(m, n) ==
  IF m.last - m.top.o > n THEN m
  ELSE LET ns == IF n <= m.size THEN 2 * m.size ELSE m.size + n
           g == m.gen + 1
       IN [m EXCEPT !.stack = Realloc(@, ns), !.size = RealSize(ns),
                    !.last = ns, !.gen = g, !.top = Moved(@, g),
                    !.upvals = MovedUpvals(@, g), !.cis = MovedCis(@, g),
                    !.base = Moved(@, g)]

\* Writes of the slots of the function w; one past the block is undefined
\* behaviour (oob) and leaves the block as it is.
WriteM(m, w) ==
  [m EXCEPT !.stack = [o \in DOMAIN @ |-> IF o \in DOMAIN w THEN w[o] ELSE @[o]],
            !.oob = @ \/ \E o \in DOMAIN w : o >= m.size]

\* A write through pointer p: into a freed block if p is stale (uaf).
WriteAt(m, p, v) ==
  IF p.g # m.gen THEN [m EXCEPT !.uaf = TRUE] ELSE WriteM(m, p.o :> v)

-----------------------------------------------------------------------------
(* index2adr (gapi.c): where an acceptable index points.  "stack" with an *)
(* offset, the registry, an upvalue of the running C closure, or           *)
(* gafqO_nilobject ("nil") for a valid index above the top or past the     *)
(* closure's upvalues.  Valid(idx) is its api_check.                       *)

Valid(idx) ==
  CASE idx > 0 -> idx <= Cur.top.o - base.o
    [] idx > REGISTRY -> idx # 0 /\ -idx <= Window
    [] OTHER -> idx = REGISTRY \/ Len(cis) > 1   \* upvalues need a C closure

Index2adr(idx) ==
  CASE idx > 0 -> IF base.o + idx - 1 >= top.o THEN [k |-> "nil"]
                  ELSE [k |-> "stack", o |-> base.o + idx - 1]
    [] idx > REGISTRY -> [k |-> "stack", o |-> top.o + idx]
    [] idx = REGISTRY -> [k |-> "reg"]
    [] OTHER -> IF GLOBALS - idx <= NUPVALS
                THEN [k |-> "upv", i |-> GLOBALS - idx] ELSE [k |-> "nil"]

ValueAt(a) == IF a.k = "stack" THEN stack[a.o] ELSE Val

\* The indices the frames try: stack indices, the registry, the upvalues.
Indices ==
  (-MAXN..MAXN \ {0}) \cup {REGISTRY} \cup {UpvIndex(i) : i \in 1..NUPVALS + 1}

IsC == Cur.kind = "C"
-----------------------------------------------------------------------------
(* Calls (gdo.c).                                                          *)

\* gafqD_precall of the function at offset f, L->top past its arguments.
\* A Gafq function (not vararg): checkstack(maxstacksize), extra arguments
\* dropped, base = func + 1, ci->top = base + maxstacksize, the registers
\* above the arguments set to nil, L->top = ci->top.  A C function:
\* checkstack(GAFQ_MINSTACK), base = func + 1, ci->top = L->top + MINSTACK.
\* func is kept as an offset (funcr) across the reallocation.
PrecallM(m, f, kind, cont) ==
  LET m1 == CheckStackM(m, IF kind = "G" THEN MAXSTACKSIZE ELSE MINSTACK)
      g == m1.gen
      b == f + 1
      t == IF kind = "G" /\ m1.top.o > b + NUMPARAMS THEN b + NUMPARAMS
           ELSE m1.top.o
      ctop == IF kind = "G" THEN b + MAXSTACKSIZE ELSE t + MINSTACK
      m2 == IF kind = "G" THEN WriteM(m1, [o \in t..ctop - 1 |-> Val]) ELSE m1
  IN [m2 EXCEPT !.top = P(g, IF kind = "G" THEN ctop ELSE t),
                !.base = P(g, b),
                !.cis = Append(@, [func |-> P(g, f), base |-> P(g, b),
                                   top |-> P(g, ctop), kind |-> kind,
                                   cont |-> cont])]

\* Fault variant: callTMres writes through res as it was before the call.
Restore_Raw(p) == p

\* restorestack: the saved offset, in the block as it is now.
Restore(p) == [p EXCEPT !.g = Mem.gen]

\* gafqD_poscall(L, firstResult) and what the caller does next: the
\* wanted results (1, or 0 for callTM) moved to func, L->ci popped, base
\* restored, L->top = res.  Then the caller's continuation: gafq_call
\* keeps L->top; the VM resets it to its ci->top (OP_CALL, OP_RETURN);
\* callTMres does L->top-- and copies that slot to res (restorestack).
PoscallM(m, fr) ==
  LET ci == m.cis[Len(m.cis)]
      rest == SubSeq(m.cis, 1, Len(m.cis) - 1)
      res == ci.func.o
      wanted == IF ci.cont.k = "tm0" THEN 0 ELSE 1
      v == IF fr < m.top.o THEN m.stack[fr] ELSE Val
      m1 == [WriteM(m, [o \in res..res + wanted - 1 |-> v])
               EXCEPT !.cis = rest, !.base = rest[Len(rest)].base,
                      !.top = P(m.gen, res + wanted)]
  IN CASE ci.cont.k = "vm" -> [m1 EXCEPT !.top = rest[Len(rest)].top]
       [] ci.cont.k = "tm" ->
            WriteAt([m1 EXCEPT !.top = P(m.gen, res)], Restore(ci.cont.res), v)
       [] OTHER -> m1

Call(m, f, cont) ==
  /\ Len(cis) < MAXCI
  /\ \E kind \in {"C", "G"} : Become(PrecallM(m, f, kind, cont))

-----------------------------------------------------------------------------
(* The C API, called by a C function (or the host, frame 1).              *)

StackOnly(idx) == Valid(idx) /\ Index2adr(idx).k = "stack"

\* gafq_push*: api_incr_top.
Push ==
  /\ IsC /\ top.o < Cur.top.o
  /\ stack' = [stack EXCEPT ![top.o] = Val]
  /\ top' = P(gen, top.o + 1)
  /\ UNCHANGED <<size, last, gen, base, cis, upvals, uaf, oob>>

\* Fault variant: settop raises L->top without writing nil above it.
SetTop_NoFill(idx) ==
  /\ IsC
  /\ IF idx >= 0
     THEN /\ idx <= last - base.o
          /\ top' = P(gen, base.o + idx)
     ELSE /\ -(idx + 1) <= Window
          /\ top' = P(gen, top.o + idx + 1)
  /\ UNCHANGED <<stack, size, last, gen, base, cis, upvals, uaf, oob>>

\* gafq_settop: nil-fill up to base + idx, or drop -(idx+1) values.
SetTop(idx) ==
  /\ IsC
  /\ IF idx >= 0
     THEN /\ idx <= last - base.o
          /\ stack' = [o \in DOMAIN stack |->
                         IF top.o <= o /\ o < base.o + idx THEN Val ELSE stack[o]]
          /\ top' = P(gen, base.o + idx)
     ELSE /\ -(idx + 1) <= Window
          /\ top' = P(gen, top.o + idx + 1)
          /\ UNCHANGED stack
  /\ UNCHANGED <<size, last, gen, base, cis, upvals, uaf, oob>>

\* gafq_remove: the slots above p shift down one.
GafqRemove(idx) ==
  /\ IsC /\ StackOnly(idx)
  /\ LET p == Index2adr(idx).o
     IN stack' = [o \in DOMAIN stack |->
                    IF p <= o /\ o < top.o - 1 THEN stack[o + 1] ELSE stack[o]]
  /\ top' = P(gen, top.o - 1)
  /\ UNCHANGED <<size, last, gen, base, cis, upvals, uaf, oob>>

\* gafq_insert: the slots p..top-1 shift up one (the loop writes slot
\* L->top), then the value at L->top goes to p; L->top is unchanged.
Insert(idx) ==
  /\ IsC /\ StackOnly(idx)
  /\ LET p == Index2adr(idx).o
         shifted == [o \in DOMAIN stack |->
                       IF p < o /\ o <= top.o THEN stack[o - 1] ELSE stack[o]]
     IN stack' = [shifted EXCEPT ![p] = shifted[top.o]]
  /\ UNCHANGED <<size, last, gen, top, base, cis, upvals, uaf, oob>>

\* gafq_replace: pop the top value into a stack slot, the registry or an
\* upvalue of the running C closure.
Replace(idx) ==
  /\ IsC /\ Window >= 1 /\ Valid(idx)
  /\ LET a == Index2adr(idx)
         v == stack[top.o - 1]
     IN /\ a.k # "nil"
        /\ stack' = IF a.k = "stack" THEN [stack EXCEPT ![a.o] = v] ELSE stack
  /\ top' = P(gen, top.o - 1)
  /\ UNCHANGED <<size, last, gen, base, cis, upvals, uaf, oob>>

\* gafq_pushvalue.
PushValue(idx) ==
  /\ IsC /\ top.o < Cur.top.o /\ Valid(idx)
  /\ stack' = [stack EXCEPT ![top.o] = ValueAt(Index2adr(idx))]
  /\ top' = P(gen, top.o + 1)
  /\ UNCHANGED <<size, last, gen, base, cis, upvals, uaf, oob>>

\* gafq_checkstack(L, n) that succeeds: gafqD_checkstack, then ci->top
\* raised to L->top + n.  (It returns 0 and changes nothing when n or
\* gettop + n exceeds GAFQI_MAXCSTACK.)
CheckStack(n) ==
  /\ IsC
  /\ n <= MAXCSTACK /\ Window + n <= MAXCSTACK
  /\ LET m == CheckStackM(Mem, n)
         ci == m.cis[Len(m.cis)]
     IN Become(IF ci.top.o < m.top.o + n
               THEN [m EXCEPT !.cis[Len(m.cis)].top = P(m.gen, m.top.o + n)]
               ELSE m)

\* gafq_call(L, nargs, 1): the function below its nargs arguments.
ApiCall(nargs) ==
  /\ IsC /\ nargs + 1 <= Window
  /\ Cur.top.o - top.o >= 1 - nargs   \* checkresults
  /\ Call(Mem, top.o - (nargs + 1), [k |-> "api"])

\* The C function returns n: gafqD_poscall(L, L->top - n).
CReturn(n) ==
  /\ IsC /\ Len(cis) > 1 /\ n <= Window
  /\ Become(PoscallM(Mem, top.o - n))

-----------------------------------------------------------------------------
(* A Gafq function running (gvm.c); L->top = ci->top between instructions. *)

Regs == 0..NREGS - 1

\* OP_CLOSURE with one OP_MOVE upvalue: gafqF_findupval(base + b) finds
\* the open upvalue of that slot or links a new one where the list stays
\* sorted; the closure goes to register a.
OpClosure(a, b) ==
  /\ ~IsC
  /\ LET level == base.o + b
     IN upvals' = IF \E i \in DOMAIN upvals : upvals[i].o = level THEN upvals
                  ELSE SelectSeq(upvals, LAMBDA p : p.o > level)
                       \o <<P(gen, level)>>
                       \o SelectSeq(upvals, LAMBDA p : p.o < level)
  /\ stack' = [stack EXCEPT ![base.o + a] = Val]
  /\ UNCHANGED <<size, last, gen, top, base, cis, uaf, oob>>

\* OP_CALL a (nargs + 1) 2: L->top = ra + b, then gafqD_precall.
OpCall(a, nargs) ==
  /\ ~IsC /\ base.o + a + 1 + nargs <= Cur.top.o
  /\ Call([Mem EXCEPT !.top = P(gen, base.o + a + 1 + nargs)], base.o + a,
          [k |-> "vm"])

\* callTMres(L, ra, f, p1, p2) (arithmetic and comparison metamethods):
\* three values written at L->top, gafqD_checkstack(L, 3), L->top += 3,
\* gafqD_call(L->top - 3, 1); res kept as an offset.
TMRes(a) ==
  /\ ~IsC
  /\ LET m1 == CheckStackM(WriteM(Mem, [o \in top.o..top.o + 2 |-> Val]), 3)
         m2 == [m1 EXCEPT !.top = P(m1.gen, m1.top.o + 3)]
     IN Call(m2, m2.top.o - 3, [k |-> "tm", res |-> P(gen, base.o + a)])

\* callTM(L, f, p1, p2, p3) (__newindex): four values written at L->top,
\* gafqD_checkstack(L, 4), L->top += 4, gafqD_call(L->top - 4, 0).
TM4 ==
  /\ ~IsC
  /\ LET m1 == CheckStackM(WriteM(Mem, [o \in top.o..top.o + 3 |-> Val]), 4)
         m2 == [m1 EXCEPT !.top = P(m1.gen, m1.top.o + 4)]
     IN Call(m2, m2.top.o - 4, [k |-> "tm0"])

\* OP_RETURN a 2: L->top = ra + 1, gafqF_close(L, base) (the upvalues of
\* the frame leave the list), gafqD_poscall(L, ra).
GReturn(a) ==
  /\ ~IsC
  /\ Become(PoscallM([Mem EXCEPT !.top = P(gen, base.o + a + 1),
                                  !.upvals = SelectSeq(@, LAMBDA p : p.o < base.o)],
                      base.o + a))

-----------------------------------------------------------------------------
\* stack_init (gstate.c): stack[0] is base_ci's function entry (nil),
\* base = 1, base_ci's top = base + GAFQ_MINSTACK.
StackInit ==
  /\ size = BASIC_STACK_SIZE + EXTRA
  /\ last = BASIC_STACK_SIZE - 1
  /\ stack = [o \in 0..BASIC_STACK_SIZE + EXTRA - 1 |-> IF o = 0 THEN Val ELSE Junk]
  /\ gen = 0
  /\ top = P(0, 1)
  /\ base = P(0, 1)
  /\ cis = <<[func |-> P(0, 0), base |-> P(0, 1), top |-> P(0, 1 + MINSTACK),
              kind |-> "C", cont |-> [k |-> "none"]]>>
  /\ upvals = <<>>
  /\ uaf = FALSE
  /\ oob = FALSE

StackNext ==
  \/ Push
  \/ \E i \in -MAXN..MAXN : SetTop(i)
  \/ \E i \in Indices : GafqRemove(i) \/ Insert(i) \/ Replace(i) \/ PushValue(i)
  \/ \E n \in 1..MAXN : CheckStack(n)
  \/ \E n \in 0..MAXN : ApiCall(n) \/ CReturn(n)
  \/ \E a, b \in Regs : OpClosure(a, b)
  \/ \E a \in Regs, n \in 0..MAXN : OpCall(a, n)
  \/ \E a \in Regs : TMRes(a)
  \/ TM4
  \/ \E a \in Regs : GReturn(a)

StackSpec == StackInit /\ [][StackNext]_svars

-----------------------------------------------------------------------------
(* Properties.                                                             *)

Ptr(p) == p \in [g : Nat, o : Nat]

StackTypeOK ==
  /\ size \in Nat /\ last \in Nat /\ gen \in Nat
  /\ stack \in [0..size - 1 -> {Val, Junk}]
  /\ Ptr(top) /\ Ptr(base)
  /\ \A i \in DOMAIN cis : Ptr(cis[i].func) /\ Ptr(cis[i].base) /\ Ptr(cis[i].top)
                          /\ cis[i].kind \in {"C", "G"}
  /\ \A i \in DOMAIN upvals : Ptr(upvals[i])
  /\ uaf \in BOOLEAN /\ oob \in BOOLEAN

Current(p) == p.g = gen

\* After any sequence of reallocations (gafq_checkstack, precall, the
\* checkstack of callTMres and callTM) no pointer into the stack dangles:
\* correctstack has moved L->top, L->base, every open upvalue and every
\* CallInfo, callTMres writes its result through the restored offset,
\* L->base is the running frame's base, and ci->top stays below
\* stack_last (the gafq_assert of gafqD_precall).
StackPointersValid ==
  /\ ~uaf
  /\ Current(top) /\ Current(base) /\ base = Cur.base
  /\ \A i \in DOMAIN cis :
       Current(cis[i].func) /\ Current(cis[i].base) /\ Current(cis[i].top)
  /\ \A i \in DOMAIN upvals : Current(upvals[i])
  /\ Cur.top.o <= last

\* Every write lands inside the allocated block, the tag-method calls'
\* writes at ci->top included (they rely on the EXTRA_STACK slots above
\* stack_last), and every slot below L->top has been written since it
\* was allocated.
WritesInBlock ==
  /\ ~oob
  /\ \A o \in 0..top.o - 1 : stack[o] # Junk
====
