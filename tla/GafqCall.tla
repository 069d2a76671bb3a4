------------------------------ MODULE GafqCall ------------------------------
(***************************************************************************)
(* The call/stack machinery of one Gafq thread (gdo.c, gvm.c, lfunc.c,     *)
(* gapi.c, gdebug.c): the CallInfo array, the value-stack top, the list of *)
(* open upvalues, the C-call counter nCcalls, the current error function,  *)
(* and the chain of C-level activations that a longjmp unwinds.            *)
(*                                                                         *)
(* The C stack is explicit.  cstack holds, innermost last:                 *)
(*   exec   a gafqV_execute activation; n is its nexeccalls counter;       *)
(*   cfn    the body of a C function called by gafqD_precall;              *)
(*   call   a gafqD_call in progress (it counts in nCcalls); cont says     *)
(*          which caller resumes when it returns;                          *)
(*   pcall  a gafqD_pcall whose gafqD_rawrunprotected holds errorJmp,      *)
(*          with the state it saved on entry;                              *)
(*   errmsg a gafqG_errormsg waiting for the error function to return.     *)
(* The innermost activation takes the next step.  Stack slots are          *)
(* offsets from L->stack, so reallocation (correctstack) is invisible      *)
(* here; values are not tracked, only where frames and upvalues lie.       *)
(*                                                                         *)
(* When the host's gafq_cpcall has returned, gafq_close (gstate.c) runs    *)
(* the __gc finalizers of NUDATA userdata on the same thread, retrying     *)
(* after each one that fails, and frees the state.                         *)
(***************************************************************************)
EXTENDS Integers, Sequences, SequencesExt, FiniteSets

CONSTANTS
  MAXCCALLS,      \* GAFQI_MAXCCALLS: nesting limit of gafqD_call
  MAXCALLS,       \* GAFQI_MAXCALLS: size limit of the CallInfo array
  BASIC_CI_SIZE,  \* initial size of the CallInfo array (gstate.h)
  MINSTACK,       \* GAFQ_MINSTACK: free slots given to a C function
  MAXSTACKSIZE,   \* Proto.maxstacksize of the Gafq functions called
  NUMPARAMS,      \* Proto.numparams of the Gafq functions called
  STACK_SLOTS,    \* bound on the value stack explored (the model's cap;
                  \* gafqD_growstack itself only stops when memory runs out)
  NUDATA          \* userdata with a __gc metamethod when the state is closed

ASSUME /\ BASIC_CI_SIZE \in Nat \ {0}
       /\ MAXCALLS >= BASIC_CI_SIZE
       /\ MAXCCALLS \in Nat \ {0}
       /\ MINSTACK \in Nat \ {0}
       /\ NUMPARAMS \in Nat /\ MAXSTACKSIZE > NUMPARAMS
       /\ NUDATA \in Nat

VARIABLES
  ci,         \* L->base_ci .. L->ci: Seq of [func, base, top, nres, isC]
  size_ci,    \* L->size_ci
  top,        \* L->top (a slot offset)
  openupval,  \* L->openupval: stack levels of the open upvalues, list order
  nCcalls,    \* L->nCcalls
  errfunc,    \* L->errfunc: "none", or whether its slot holds a function
  cstack,     \* C-level activations, innermost last
  tmudata,    \* G(L)->tmudata: the userdata whose finalizer is still to run
  fin,        \* fin[u]: how many times the finalizer of u was called
  phase       \* "run", "closing" (inside gafq_close) or "closed"

vars == <<ci, size_ci, top, openupval, nCcalls, errfunc, cstack, tmudata, fin, phase>>
closevars == <<tmudata, fin, phase>>

MULTRET == -1                       \* GAFQ_MULTRET
NResults == {MULTRET, 0, 1}         \* result counts a caller may ask for
ErrFuncs == {"none", "fn", "nonfn"}
\* What the called stack slot holds: a Gafq function (fixed or vararg), a C
\* function, a value whose __call is a Gafq or C function, or neither.
FnKinds == {"gafq", "vararg", "c"}
CalleeKinds == FnKinds \cup {"tm_gafq", "tm_c", "nocall"}

Exec(n) == [k |-> "exec", n |-> n]
CFn == [k |-> "cfn"]
ErrMsg == [k |-> "errmsg"]
CallEntry(cont, func, nres) ==
  [k |-> "call", cont |-> cont, func |-> func, nres |-> nres, entered |-> FALSE]
PcallEntry(cont, nres, snap) ==
  [k |-> "pcall", cont |-> cont, nres |-> nres, snap |-> snap]

Cur == ci[Len(ci)]
Act == cstack[Len(cstack)]
\* The innermost C-level activation is of kind k.
Running(k) == cstack # <<>> /\ Act.k = k

\* Steps after which the stack and every frame stay within STACK_SLOTS.
StackFits == top' <= STACK_SLOTS /\ \A i \in 1..Len(ci') : ci'[i].top <= STACK_SLOTS
IsGafqFrame(f) == ~f.isC

-----------------------------------------------------------------------------
(* Open upvalues (lfunc.c).                                                *)

\* gafqF_close: unlink open upvalues from the head while their level is >= level.
CloseList(l, level) ==
  LET k == SelectInSeq(l, LAMBDA v : v < level)
  IN  IF k = 0 THEN <<>> ELSE SubSeq(l, k, Len(l))

\* Fault variant: a new upvalue is always linked at the head of the list.
FindUpval_AtHead(l, level) ==
  IF \E i \in 1..Len(l) : l[i] = level THEN l ELSE <<level>> \o l

\* gafqF_findupval: walk while the level is >= the one sought; reuse an
\* upvalue at exactly that level, otherwise link a new one where the walk stopped.
FindUpval(l, level) ==
  LET k   == SelectInSeq(l, LAMBDA v : v < level)
      pos == IF k = 0 THEN Len(l) + 1 ELSE k
  IN  IF \E i \in 1..(pos - 1) : l[i] = level THEN l ELSE InsertAt(l, pos, level)

-----------------------------------------------------------------------------
(* Growing the CallInfo array (inc_ci, growCI).                           *)

\* Fault variant: growCI omits the overflow-while-handling-overflow check.
IncCi_NoErrErr ==
  IF Len(ci) < size_ci THEN [sz |-> size_ci, res |-> "ok"]
  ELSE [sz |-> 2 * size_ci,
        res |-> IF 2 * size_ci > MAXCALLS THEN "overflow" ELSE "ok"]

\* Outcome of inc_ci with the current array: the new size and "ok",
\* "overflow" (gafqG_runerror "stack overflow") or "errerr" (GAFQ_ERRERR).
IncCi ==
  IF Len(ci) < size_ci THEN [sz |-> size_ci, res |-> "ok"]
  ELSE IF size_ci > MAXCALLS THEN [sz |-> size_ci, res |-> "errerr"]
  ELSE [sz |-> 2 * size_ci,
        res |-> IF 2 * size_ci > MAXCALLS THEN "overflow" ELSE "ok"]

\* restore_stack_limit: shrink back an overflowed array when nci frames
\* (inuse = nci - 1) leave room.
RestoreStackLimit(sz, nci) ==
  IF sz > MAXCALLS /\ (nci - 1) + 1 < MAXCALLS THEN MAXCALLS ELSE sz

-----------------------------------------------------------------------------
(* Raising and catching errors (gdo.c, gdebug.c).                         *)

\* Index of the innermost errorJmp (pcall entry) in cs; 0 if there is none.
Boundary(cs) == SelectLastInSeq(cs, LAMBDA e : e.k = "pcall")

\* Fault variant: the catch in gafqD_pcall leaves nCcalls as it was at the throw.
Throw_KeepNCcalls(sz, cs) ==
  LET p    == Boundary(cs)
      e    == cs[p]
      s    == e.snap
      nci  == SubSeq(ci, 1, s.nci)
      ntop == s.oldtop + 1
      adj  == e.cont = "api" /\ e.nres = MULTRET /\ ntop >= nci[s.nci].top
  IN  /\ p > 0
      /\ openupval' = CloseList(openupval, s.oldtop)
      /\ top' = ntop
      /\ nCcalls' = nCcalls
      /\ ci' = IF adj THEN [nci EXCEPT ![s.nci].top = ntop] ELSE nci
      /\ size_ci' = RestoreStackLimit(sz, s.nci)
      /\ errfunc' = s.errfunc
      /\ cstack' = SubSeq(cs, 1, p - 1)

\* Fault variant: the catch in gafqD_pcall does not close the upvalues above old_top.
Throw_NoClose(sz, cs) ==
  LET p    == Boundary(cs)
      e    == cs[p]
      s    == e.snap
      nci  == SubSeq(ci, 1, s.nci)
      ntop == s.oldtop + 1
      adj  == e.cont = "api" /\ e.nres = MULTRET /\ ntop >= nci[s.nci].top
  IN  /\ p > 0
      /\ openupval' = openupval
      /\ top' = ntop
      /\ nCcalls' = s.nCcalls
      /\ ci' = IF adj THEN [nci EXCEPT ![s.nci].top = ntop] ELSE nci
      /\ size_ci' = RestoreStackLimit(sz, s.nci)
      /\ errfunc' = s.errfunc
      /\ cstack' = SubSeq(cs, 1, p - 1)

\* gafqD_throw caught by gafqD_pcall: close upvalues above old_top, put the
\* error object at old_top, restore nCcalls, ci, allowhook and errfunc,
\* restore_stack_limit; gafq_pcall then applies adjustresults.
Throw(sz, cs) ==
  LET p    == Boundary(cs)
      e    == cs[p]
      s    == e.snap
      nci  == SubSeq(ci, 1, s.nci)
      ntop == s.oldtop + 1
      adj  == e.cont = "api" /\ e.nres = MULTRET /\ ntop >= nci[s.nci].top
  IN  /\ p > 0
      /\ openupval' = CloseList(openupval, s.oldtop)
      /\ top' = ntop
      /\ nCcalls' = s.nCcalls
      /\ ci' = IF adj THEN [nci EXCEPT ![s.nci].top = ntop] ELSE nci
      /\ size_ci' = RestoreStackLimit(sz, s.nci)
      /\ errfunc' = s.errfunc
      /\ cstack' = SubSeq(cs, 1, p - 1)

\* gafqG_errormsg with the error value on top of the stack at slot t - 1:
\* call the error function if there is one, else throw GAFQ_ERRRUN.
Raise(t, sz, cs) ==
  CASE errfunc = "none"  -> Throw(sz, cs)
    [] errfunc = "nonfn" -> Throw(sz, cs)
    [] errfunc = "fn"    ->
         /\ cstack' = cs \o <<ErrMsg, CallEntry("errfunc", t - 1, 1)>>
         /\ top' = t + 1
         /\ nCcalls' = nCcalls + 1
         /\ size_ci' = sz
         /\ UNCHANGED <<ci, openupval, errfunc>>

-----------------------------------------------------------------------------
(* gafqD_precall: enter the function at slot func with top t.              *)

\* The frame a function of kind fk at func gets, and the new L->top:
\* precall for a Gafq function, adjust_varargs, or a C function.
NewFrame(func, t, fk, nres) ==
  CASE fk = "gafq" ->
         LET b == func + 1
         IN  [f |-> [func |-> func, base |-> b, top |-> b + MAXSTACKSIZE,
                     nres |-> nres, isC |-> FALSE],
              t |-> b + MAXSTACKSIZE]
    [] fk = "vararg" ->
         LET nargs == t - func - 1
             b     == func + 1 + (IF nargs < NUMPARAMS THEN NUMPARAMS ELSE nargs)
         IN  [f |-> [func |-> func, base |-> b, top |-> b + MAXSTACKSIZE,
                     nres |-> nres, isC |-> FALSE],
              t |-> b + MAXSTACKSIZE]
    [] fk = "c" ->
         [f |-> [func |-> func, base |-> func + 1, top |-> t + MINSTACK,
                 nres |-> nres, isC |-> TRUE],
          t |-> t]

\* tryfuncTM: a value with a __call function gets it inserted at func and
\* its arguments shifted up one slot; any other value is a type error.
Callee(kind) == CASE kind = "tm_gafq" -> "gafq"
                  [] kind = "tm_c"    -> "c"
                  [] OTHER            -> kind
ArgTop(kind, t) == IF kind \in {"tm_gafq", "tm_c"} THEN t + 1 ELSE t

\* precall as called from gafqV_execute (OP_CALL, mode "exec"), from
\* gafqD_call (mode "call") or from OP_TAILCALL (mode "tail"); cs is the C
\* stack the call starts from.
Precall(func, t, nres, kind, mode, cs) ==
  IF kind = "nocall" THEN Raise(t + 1, size_ci, cs)
  ELSE
  LET t1  == ArgTop(kind, t)
      fk  == Callee(kind)
      nf  == NewFrame(func, t1, fk, nres)
      inc == IncCi
  IN  CASE inc.res = "errerr"   -> Throw(inc.sz, cs)
        [] inc.res = "overflow" -> Raise(t1 + 1, inc.sz, cs)
        [] inc.res = "ok" /\ fk = "c" ->
             /\ ci' = Append(ci, nf.f)
             /\ top' = nf.t
             /\ size_ci' = inc.sz
             /\ cstack' = Append(cs, CFn)
             /\ UNCHANGED <<openupval, nCcalls, errfunc>>
        [] inc.res = "ok" /\ mode = "tail" ->
             \* OP_TAILCALL: close the caller's upvalues, slide the new frame
             \* down onto the caller's function slot, drop the caller's entry
             LET old == Cur
                 nb  == old.func + (nf.f.base - func)
                 nt  == old.func + (nf.t - func)
             IN  /\ openupval' = CloseList(openupval, old.base)
                 /\ ci' = [ci EXCEPT ![Len(ci)] =
                            [func |-> old.func, base |-> nb, top |-> nt,
                             nres |-> old.nres, isC |-> FALSE]]
                 /\ top' = nt
                 /\ size_ci' = inc.sz
                 /\ UNCHANGED <<cstack, nCcalls, errfunc>>
        [] inc.res = "ok" ->
             /\ ci' = Append(ci, nf.f)
             /\ top' = nf.t
             /\ size_ci' = inc.sz
             /\ cstack' = IF mode = "exec"
                          THEN [cs EXCEPT ![Len(cs)].n = @ + 1]
                          ELSE Append(cs, Exec(1))
             /\ UNCHANGED <<openupval, nCcalls, errfunc>>

-----------------------------------------------------------------------------
(* gafqV_execute: the current frame is a Gafq function.                    *)

\* L->top differs from ci->top only right after an open (multiple-result)
\* call; then only an instruction with B = 0 may follow.
IsOpen == top # Cur.top

\* Possible L->top for an instruction at register a passing arguments or
\* results after it: B > 0 sets it, B = 0 keeps the open top.
ArgTops(a) ==
  LET ra == Cur.base + a
  IN  IF IsOpen THEN (IF ra < top THEN {top} ELSE {})
      ELSE {ra + 1 + n : n \in 0..(MAXSTACKSIZE - 1 - a)}

RetTops(a) ==
  LET ra == Cur.base + a
  IN  IF IsOpen THEN (IF ra <= top THEN {top} ELSE {})
      ELSE {ra + n : n \in 0..(MAXSTACKSIZE - a)}

\* OP_CALL
OpCall ==
  /\ Running("exec")
  /\ \E a \in 0..(MAXSTACKSIZE - 1), nres \in NResults, kind \in CalleeKinds :
       \E t \in ArgTops(a) :
         Precall(Cur.base + a, t, nres, kind, "exec", cstack)
  /\ StackFits
  /\ UNCHANGED closevars

\* OP_TAILCALL
OpTailCall ==
  /\ Running("exec")
  /\ \E a \in 0..(MAXSTACKSIZE - 1), kind \in CalleeKinds :
       \E t \in ArgTops(a) :
         Precall(Cur.base + a, t, MULTRET, kind, "tail", cstack)
  /\ StackFits
  /\ UNCHANGED closevars

\* gafqD_poscall: move the results starting at first (ending at t) to the
\* function slot, pad with nil to the wanted count, pop the frame.
PoscallTop(first, t) ==
  Cur.func + (IF Cur.nres = MULTRET THEN t - first ELSE Cur.nres)

\* Fault variant: OP_RETURN always re-enters the loop (the nexeccalls test is lost).
OpReturn_StayInExecute ==
  /\ Running("exec")
  /\ \E a \in 0..(MAXSTACKSIZE - 1) :
       \E t \in RetTops(a) :
         LET ra   == Cur.base + a
             rtop == PoscallTop(ra, t)
             n    == Act.n - 1
         IN  /\ openupval' = CloseList(openupval, Cur.base)
             /\ ci' = Front(ci)
             /\ cstack' = [cstack EXCEPT ![Len(cstack)].n = n]
             /\ top' = IF n # 0 /\ Cur.nres # MULTRET
                       THEN ci[Len(ci) - 1].top ELSE rtop
             /\ UNCHANGED <<size_ci, nCcalls, errfunc>>
  /\ UNCHANGED closevars

\* OP_RETURN: close the frame's upvalues, poscall, and either leave this
\* gafqV_execute (nexeccalls reaches 0) or resume the calling Gafq frame.
OpReturn ==
  /\ Running("exec")
  /\ \E a \in 0..(MAXSTACKSIZE - 1) :
       \E t \in RetTops(a) :
         LET ra   == Cur.base + a
             rtop == PoscallTop(ra, t)
             n    == Act.n - 1
         IN  /\ openupval' = CloseList(openupval, Cur.base)
             /\ ci' = Front(ci)
             /\ cstack' = IF n = 0 THEN Front(cstack)
                          ELSE [cstack EXCEPT ![Len(cstack)].n = n]
             /\ top' = IF n # 0 /\ Cur.nres # MULTRET
                       THEN ci[Len(ci) - 1].top ELSE rtop
             /\ UNCHANGED <<size_ci, nCcalls, errfunc>>
  /\ UNCHANGED closevars

\* OP_CLOSURE capturing local register b (a MOVE pseudo-instruction).
OpClosure ==
  /\ Running("exec")
  /\ ~IsOpen
  /\ \E b \in 0..(MAXSTACKSIZE - 1) :
       openupval' = FindUpval(openupval, Cur.base + b)
  /\ UNCHANGED <<ci, size_ci, top, nCcalls, errfunc, cstack>>
  /\ UNCHANGED closevars

\* OP_CLOSE
OpClose ==
  /\ Running("exec")
  /\ ~IsOpen
  /\ \E a \in 0..(MAXSTACKSIZE - 1) :
       openupval' = CloseList(openupval, Cur.base + a)
  /\ UNCHANGED <<ci, size_ci, top, nCcalls, errfunc, cstack>>
  /\ UNCHANGED closevars

\* An instruction falling back to a metamethod: callTMres (function and two
\* operands, one result) or callTM (three operands, no result), each a
\* gafqD_call on the slots above L->top.
OpMetamethod ==
  /\ Running("exec")
  /\ ~IsOpen
  /\ \E nargs \in {2, 3} :
       /\ cstack' = Append(cstack, CallEntry("tm", top, IF nargs = 2 THEN 1 ELSE 0))
       /\ top' = top + 1 + nargs
       /\ nCcalls' = nCcalls + 1
  /\ UNCHANGED <<ci, size_ci, openupval, errfunc>>
  /\ StackFits
  /\ UNCHANGED closevars

\* A runtime error in an instruction (gafqG_runerror and friends): the
\* message is pushed and gafqG_errormsg runs.
OpRunError ==
  /\ Running("exec")
  /\ ~IsOpen
  /\ Raise(top + 1, size_ci, cstack)
  /\ StackFits
  /\ UNCHANGED closevars

-----------------------------------------------------------------------------
(* A C function running on the current frame (gapi.c).                    *)

\* gafq_push*: api_incr_top within ci->top
CPush ==
  /\ Running("cfn")
  /\ top < Cur.top
  /\ top' = top + 1
  /\ UNCHANGED <<ci, size_ci, openupval, nCcalls, errfunc, cstack>>
  /\ UNCHANGED closevars

\* gafq_settop(L, -2)
CPop ==
  /\ Running("cfn")
  /\ top > Cur.base
  /\ top' = top - 1
  /\ UNCHANGED <<ci, size_ci, openupval, nCcalls, errfunc, cstack>>
  /\ UNCHANGED closevars

\* The argument counts and result counts gafq_call and gafq_pcall accept
\* (api_checknelems, checkresults).
CallArgs == {na \in 0..(top - Cur.base - 1) : TRUE}
ResultsFit(nargs, nres) == nres = MULTRET \/ Cur.top - top >= nres - nargs

\* gafq_call -> gafqD_call
CCall ==
  /\ Running("cfn")
  /\ \E nargs \in CallArgs, nres \in NResults :
       /\ ResultsFit(nargs, nres)
       /\ cstack' = Append(cstack, CallEntry("api", top - (nargs + 1), nres))
       /\ nCcalls' = nCcalls + 1
       /\ UNCHANGED <<ci, size_ci, top, openupval, errfunc>>
  /\ UNCHANGED closevars

\* gafq_pcall -> gafqD_pcall (saves old_top, ci, nCcalls and errfunc, and
\* installs errorJmp) -> f_call -> gafqD_call.  An error function other
\* than 0 names a slot of the frame below the called function.
CPCall ==
  /\ Running("cfn")
  /\ \E nargs \in CallArgs, nres \in NResults, ef \in ErrFuncs :
       LET func == top - (nargs + 1)
           snap == [oldtop |-> func, nci |-> Len(ci), nCcalls |-> nCcalls,
                    errfunc |-> errfunc]
       IN  /\ ResultsFit(nargs, nres)
           /\ ef # "none" => func > Cur.base
           /\ errfunc' = ef
           /\ cstack' = cstack \o <<PcallEntry("api", nres, snap),
                                    CallEntry("pcall", func, nres)>>
           /\ nCcalls' = nCcalls + 1
           /\ UNCHANGED <<ci, size_ci, top, openupval>>
  /\ UNCHANGED closevars

\* return n: gafqD_poscall from precall; OP_CALL then resets L->top to
\* ci->top when the results are fixed (PCRC).
CReturn ==
  /\ Running("cfn")
  /\ \E n \in 0..(top - Cur.base) :
       LET rtop == PoscallTop(top - n, top)
           ncs  == Front(cstack)
       IN  /\ ci' = Front(ci)
           /\ cstack' = ncs
           /\ top' = IF ncs[Len(ncs)].k = "exec" /\ Cur.nres # MULTRET
                     THEN ci[Len(ci) - 1].top ELSE rtop
           /\ UNCHANGED <<size_ci, openupval, nCcalls, errfunc>>
  /\ UNCHANGED closevars

\* gafq_error -> gafqG_errormsg
CError ==
  /\ Running("cfn")
  /\ top > Cur.base
  /\ Raise(top, size_ci, cstack)
  /\ StackFits
  /\ UNCHANGED closevars

-----------------------------------------------------------------------------
(* gafqD_call, gafqD_pcall and gafqG_errormsg resuming.                    *)

\* gafqD_call after ++nCcalls: the C-stack checks, then precall.
DoCall ==
  /\ Running("call") /\ ~Act.entered
  /\ LET e  == Act
         cs == [cstack EXCEPT ![Len(cstack)].entered = TRUE]
     IN  CASE nCcalls = MAXCCALLS ->
                Raise(top + 1, size_ci, cstack)
           [] nCcalls >= MAXCCALLS + MAXCCALLS \div 8 ->
                Throw(size_ci, cstack)
           [] OTHER ->
                \E kind \in (IF e.cont \in {"api", "pcall"}
                             THEN CalleeKinds ELSE FnKinds) :
                  Precall(e.func, top, e.nres, kind, "call", cs)
  /\ StackFits
  /\ UNCHANGED closevars

\* gafqD_call returning: nCcalls--, then its caller continues: gafq_call's
\* adjustresults, f_call returning into gafqD_pcall (status 0), callTMres
\* copying the result into place, or gafqG_errormsg throwing.
FinishCall ==
  /\ Running("call") /\ Act.entered
  /\ nCcalls' = nCcalls - 1
  /\ LET e   == Act
         ncs == Front(cstack)
     IN  CASE e.cont = "pcall" ->
                LET pe  == ncs[Len(ncs)]
                    adj == pe.cont = "api" /\ pe.nres = MULTRET /\ top >= Cur.top
                IN  /\ cstack' = Front(ncs)
                    /\ errfunc' = pe.snap.errfunc
                    /\ ci' = IF adj THEN [ci EXCEPT ![Len(ci)].top = top] ELSE ci
                    /\ UNCHANGED top
           [] e.cont = "api" ->
                /\ cstack' = ncs
                /\ ci' = IF e.nres = MULTRET /\ top >= Cur.top
                         THEN [ci EXCEPT ![Len(ci)].top = top] ELSE ci
                /\ UNCHANGED <<top, errfunc>>
           [] e.cont = "tm" ->
                /\ cstack' = ncs
                /\ top' = e.func
                /\ UNCHANGED <<ci, errfunc>>
           [] e.cont = "errfunc" ->
                /\ cstack' = ncs
                /\ UNCHANGED <<ci, top, errfunc>>
  /\ UNCHANGED <<size_ci, openupval>>
  /\ UNCHANGED closevars

\* gafqG_errormsg after the error function returned: gafqD_throw(ERRRUN).
ErrMsgThrow ==
  /\ Running("errmsg")
  /\ Throw(size_ci, cstack)
  /\ UNCHANGED closevars

\* An allocation fails (the value stack or CallInfo array cannot grow in
\* gafqD_reallocstack/gafqD_reallocCI, or a string or closure cannot be
\* created): gafqD_throw(GAFQ_ERRMEM) straight to the innermost boundary,
\* without the error function.  Past STACK_SLOTS this is the only way on.
MemError ==
  /\ Running("exec") \/ Running("cfn") \/ (Running("call") /\ ~Act.entered)
  /\ Throw(size_ci, cstack)
  /\ UNCHANGED closevars

-----------------------------------------------------------------------------
(* gafq_close (gstate.c), called by main (gafq.c) once gafq_cpcall has     *)
(* returned.                                                               *)

\* One pass of the do-while loop of gafq_close: L->ci = L->base_ci,
\* L->base = L->top = ci->base, nCcalls = baseCcalls = 0.
ResetForGC ==
  /\ ci' = <<ci[1]>>
  /\ top' = ci[1].base
  /\ nCcalls' = 0

\* Fault variant: gafq_close gives up after the first failing finalizer.
Retry_GiveUp == ResetForGC /\ phase' = "closed"

\* gafqD_rawrunprotected(L, callalggcTM) returned an error: loop again.
Retry == ResetForGC /\ phase' = "closing"

\* gafq_close up to its loop: gafqF_close(L, L->stack) closes every open
\* upvalue, gafqC_separateudata(L, 1) moves every userdata with a __gc to
\* tmudata, L->errfunc = 0, and the first pass of the loop resets the stack.
Close ==
  /\ phase = "run" /\ cstack = <<>>
  /\ openupval' = <<>>
  /\ tmudata' = [i \in 1..NUDATA |-> i]
  /\ errfunc' = "none"
  /\ ResetForGC
  /\ phase' = "closing"
  /\ UNCHANGED <<size_ci, cstack, fin>>

\* Most calls of one finalizer explored (model bound; never reached when
\* each finalizer is called once).
MAXGCCALLS == 2

\* The register window of a Gafq finalizer called at slot func.
GCWindow(func) == (func + 1)..(func + MAXSTACKSIZE)

\* What a finalizer called at slot func leaves in the open-upvalue list:
\* a Gafq function that returns has closed its upvalues (OP_RETURN), a C
\* function opens none; one that fails leaves open the upvalues it made
\* in its window (gafqF_findupval, one per captured register).
GCUpvals(func, kind, ok) ==
  IF ok THEN IF kind = "gafq" THEN {CloseList(openupval, func + 1)} ELSE {openupval}
  ELSE IF kind = "gafq"
       THEN {FoldLeft(FindUpval, openupval, SetToSeq(S)) : S \in SUBSET GCWindow(func)}
       ELSE {openupval}

\* callalggcTM -> gafqC_callGCTM -> GCTM: unlink the first userdata of
\* tmudata, push its __gc and the userdata and gafqD_call them with no
\* result.  The finalizer runs to its end: it returns (L->top is back at
\* the function slot), or it fails ("attempt to call" when __gc is not a
\* function) and the longjmp lands in gafq_close's loop.
GCTM ==
  /\ phase = "closing" /\ tmudata # <<>> /\ fin[Head(tmudata)] < MAXGCCALLS
  /\ LET u == Head(tmudata) IN
     /\ tmudata' = Tail(tmudata)
     /\ fin' = [fin EXCEPT ![u] = @ + 1]
     /\ \E kind \in {"gafq", "c", "nocall"}, ok \in BOOLEAN :
          /\ openupval' \in GCUpvals(top, kind, ok /\ kind # "nocall")
          /\ IF ok /\ kind # "nocall"
             THEN UNCHANGED <<ci, top, nCcalls, phase>>
             ELSE Retry
  /\ UNCHANGED <<size_ci, errfunc, cstack>>

\* The pass that finds tmudata empty returns 0 and ends the loop;
\* close_state closes the upvalues left open and frees the state.
CloseDone ==
  /\ phase = "closing" /\ tmudata = <<>>
  /\ openupval' = <<>>
  /\ phase' = "closed"
  /\ UNCHANGED <<ci, size_ci, top, nCcalls, errfunc, cstack, tmudata, fin>>

\* The host program has exited.
Terminated ==
  /\ phase = "closed"
  /\ UNCHANGED vars

-----------------------------------------------------------------------------

\* gafq_newstate's stack_init followed by gafq_cpcall(L, pmain, ud):
\* f_Ccall pushes the C closure and its argument and gafqD_call enters it.
Init ==
  /\ ci = << [func |-> 0, base |-> 1, top |-> 1 + MINSTACK, nres |-> MULTRET, isC |-> TRUE],
             [func |-> 1, base |-> 2, top |-> 3 + MINSTACK, nres |-> 0, isC |-> TRUE] >>
  /\ size_ci = BASIC_CI_SIZE
  /\ top = 3
  /\ openupval = <<>>
  /\ nCcalls = 1
  /\ errfunc = "none"
  /\ cstack = << PcallEntry("cpcall", 0, [oldtop |-> 1, nci |-> 1, nCcalls |-> 0,
                                          errfunc |-> "none"]),
                 [CallEntry("pcall", 1, 0) EXCEPT !.entered = TRUE],
                 CFn >>
  /\ tmudata = <<>>
  /\ fin = [u \in 1..NUDATA |-> 0]
  /\ phase = "run"

\* The steps of the program running inside gafq_cpcall.
Program ==
  \/ OpCall \/ OpTailCall \/ OpReturn \/ OpClosure \/ OpClose
  \/ OpMetamethod \/ OpRunError
  \/ CPush \/ CPop \/ CCall \/ CPCall \/ CReturn \/ CError
  \/ DoCall \/ FinishCall \/ ErrMsgThrow \/ MemError

Next ==
  \/ Program
  \/ Close \/ GCTM \/ CloseDone \/ Terminated

Spec == Init /\ [][Next]_vars

-----------------------------------------------------------------------------
(* Properties.                                                             *)

Frame == [func : Nat, base : Nat, top : Nat, nres : MULTRET..1, isC : BOOLEAN]
Snap == [oldtop : Nat, nci : Nat, nCcalls : Nat, errfunc : ErrFuncs]
Activation ==
       [k : {"exec"}, n : Nat \ {0}] \cup {CFn, ErrMsg}
  \cup [k : {"call"}, cont : {"api", "pcall", "tm", "errfunc"}, func : Nat,
        nres : MULTRET..1, entered : BOOLEAN]
  \cup [k : {"pcall"}, cont : {"api", "cpcall"}, nres : MULTRET..1, snap : Snap]

TypeOK ==
  /\ ci \in Seq(Frame) /\ ci # <<>>
  /\ size_ci \in Nat
  /\ top \in Nat
  /\ openupval \in Seq(Nat)
  /\ nCcalls \in Nat
  /\ errfunc \in ErrFuncs
  /\ cstack \in Seq(Activation)
  /\ tmudata \in Seq(1..NUDATA)
  /\ fin \in [1..NUDATA -> Nat]
  /\ phase \in {"run", "closing", "closed"}

\* The open-upvalue list is strictly decreasing by stack level, and every
\* open upvalue lies inside the register window of a live Gafq frame: what
\* gafqF_findupval's sharing and gafqF_close's early stop rely on, and what
\* OP_RETURN, OP_TAILCALL and the unwinding in gafqD_pcall must keep by
\* closing before they drop frames.
OpenUpvalList ==
  /\ IsSorted(openupval, >)
  /\ \A lvl \in ToSet(openupval) :
       \E i \in 1..Len(ci) :
         IsGafqFrame(ci[i]) /\ ci[i].base <= lvl /\ lvl < ci[i].top

\* OpenUpvalList while the program runs, before gafq_close.
OpenUpvalListWhileRunning == phase = "run" => OpenUpvalList

\* Every CallInfo above base_ci belongs to exactly one C-level activation
\* (a running C function, or one of the nexeccalls of a gafqV_execute),
\* and nCcalls counts exactly the gafqD_call activations: the accounting
\* that OP_CALL/OP_RETURN re-entry, OP_TAILCALL and the restore of ci and
\* nCcalls after a longjmp in gafqD_pcall must preserve.
ExecCalls == FoldLeft(LAMBDA acc, e : acc + (IF e.k = "exec" THEN e.n ELSE 0),
                      0, cstack)
CStackAccounting ==
  /\ Len(ci) - 1 = ExecCalls + Len(SelectSeq(cstack, LAMBDA e : e.k = "cfn"))
  /\ nCcalls = Len(SelectSeq(cstack, LAMBDA e : e.k = "call"))

\* Recursion is bounded whatever the program does, including an error
\* function that itself fails: gafqD_call escalates to GAFQ_ERRERR once
\* nCcalls reaches MAXCCALLS + MAXCCALLS/8 (one past MAXCCALLS, where the
\* "C stack overflow" error is raised, if MAXCCALLS/8 is 0), and growCI
\* before the CallInfo array passes twice MAXCALLS.
CCallsLimit == MAXCCALLS + (IF MAXCCALLS \div 8 = 0 THEN 1 ELSE MAXCCALLS \div 8)
RecursionBounded ==
  /\ nCcalls <= CCallsLimit
  /\ Len(ci) <= size_ci
  /\ size_ci <= 2 * MAXCALLS

\* The depth limit: more than MAXCALLS frames are in use only while an
\* error is being handled (gafqG_errormsg running the error function), as
\* growCI's "stack overflow" and restore_stack_limit intend.
DepthLimitOnlyWhileHandling ==
  Len(ci) > MAXCALLS => \E i \in 1..Len(cstack) : cstack[i].k = "errmsg"

\* gafq_close calls the finalizer of every userdata separated at close
\* exactly once, whichever finalizers fail and however often its loop
\* restarts: none is skipped after a failure and none is called again.
EveryFinalizerOnce ==
  /\ \A u \in 1..NUDATA : fin[u] <= 1
  /\ phase = "closed" => \A u \in 1..NUDATA : fin[u] = 1

=============================================================================
