# TLA+ models of gafq

gafq is the Lua 5.1 interpreter with its prefix changed from `lua` to `gafq`.
This directory holds TLA+ models of the parts of its runtime whose
correctness depends on the order of steps rather than on data. It also holds
the TLC configurations that check them. Every definition is translated from
the C sources under `src/`, and `PROJECT.json` maps each one to the lines it
stands for.

## The system

One `gafq_State` is a thread. All threads share a `global_State`: the
collector, the string table and the registry. A thread keeps:

| state | where | what it holds |
|---|---|---|
| value stack `stack..top` | gstate.h | registers of every active function |
| `base_ci..ci`, `size_ci` | gstate.h | one `CallInfo` per active function: `func`, `base`, `top`, `nresults`, `tailcalls` |
| `openupval` | lfunc.c | the upvalues still pointing into the stack, sorted by level |
| `nCcalls`, `baseCcalls` | gdo.c | nested C calls (`gafqD_call`, resume), for the C-stack limit and for yield |
| `errorJmp`, `errfunc` | gdo.c | the innermost `setjmp` and the error handler's stack offset |
| `status` | gdo.c | 0, `GAFQ_YIELD` or the error that killed a coroutine |
| `hook`, `hookmask`, `allowhook` | gdebug.c, gdo.c | debug hooks, and the guard against re-entering one |

These parts interact as follows:

* **Calls.** The VM (`gafqV_execute`, gvm.c) runs Gafq functions. `OP_CALL`
  enters a Gafq callee by re-entering the same C loop (`nexeccalls++`).
  `OP_TAILCALL` replaces the current frame. `OP_RETURN` either leaves the loop
  or resumes the calling Gafq frame. A C function (or the API, `gafq_call`)
  calls through `gafqD_call`, which counts `nCcalls` and starts a new
  `gafqV_execute` for a Gafq callee. Metamethods (`callTMres`, `callTM`) also
  go through `gafqD_call`.
* **Errors.** `gafqG_runerror`/`gafq_error` call `gafqG_errormsg`. If an error
  function is set, it is called; then `gafqD_throw` longjmps to the innermost
  `gafqD_rawrunprotected`. `gafqD_pcall` then closes upvalues above the old
  top, puts the error object there, and restores `nCcalls`, `ci`,
  `allowhook`, `errfunc` and the CallInfo size limit.
* **Coroutines.** `gafq_resume` runs `resume` under
  `gafqD_rawrunprotected` with `baseCcalls = ++nCcalls`. `gafq_yield` refuses
  to cross a C boundary. An error kills the coroutine (`status = errcode`).
* **Hooks.** `gafqD_callhook` turns off `allowhook` while a hook runs. The
  SIGINT handler of the stand-alone interpreter installs a hook from signal
  context.
* **Metamethod lookup.** `fasttm` caches the absence of a metamethod in
  `Table.flags` (ltm.c). Writes through `gafqV_settable` clear it.
* **Collector.** lgc.h's colours and barriers; `lgc.c` itself is not in the
  repository.

## Inventory of components

| component | sources | status | modules |
|---|---|---|---|
| Calls, returns, protected calls, error functions | gdo.c, gvm.c, gapi.c, gdebug.c | partly | `GafqCall` |
| Open upvalues | lfunc.c | partly (no collector) | `GafqCall` |
| Coroutines | gdo.c, gbaselib.c, gapi.c | modelled | `GafqCoroutine`, `CoroutineStatus`, composed in `GafqInterrupt` |
| Metamethod lookup and its absence cache | ltm.c, gvm.c, gapi.c | partly | `GafqMeta` |
| Reference free list (`gafqL_ref`/`gafqL_unref`) | gauxlib.c | modelled | `GafqAuxRef` |
| String buffer (`gafqL_Buffer`) | gauxlib.c, gapi.c | modelled | `GafqAuxBuffer` |
| `table.sort`, `table.insert`, `table.remove` | gtablib.c, gapi.c | partly | `GafqTable`, run in `MC_GafqLibs` |
| Debug hooks and SIGINT | gdo.c, gdebug.c, gvm.c, gafq.c | partly (the `lstop` hook of the interpreter) | `GafqInterrupt` |
| `gafq_close` and its finalizer loop | gstate.c, gdo.c | partly | `GafqCall` |
| Collector | lgc.h, gapi.c | not modelled | — |
| Value stack, its reallocation and the C API over it | gdo.c, gapi.c, gvm.c, gstate.c | modelled | `GafqStack`, run in `MC_GafqLibs` |
| io library | giolib.c | partly | `GafqIo`, run in `MC_GafqLibs` |
| package library (`require`, `module`, `package.loadlib`) | loadlib.c | partly | `GafqRequire`, run in `MC_GafqLibs` |
| `gafqV_concat`, `OP_CONCAT`, `gafq_concat` | gvm.c, gapi.c | modelled | `GafqConcat` |
| String pattern matching (`string.find`, `match`, `gmatch`, `gsub`) | gstrlib.c | partly | `GafqStrLib`, `MC_GafqConcat` |
| Lexer (`gafqX_next`, `gafqX_lookahead`, `glex`) | glex.c, glex.h | partly (not `gafqX_init` or the token names of error messages) | `GafqLex`, `MC_GafqConcat` |
| Dump/undump, zio, base, os, math and debug libraries | gdump.c, lundump.c, lzio.c, gbaselib.c, loslib.c, lmathlib.c, gdblib.c | not modelled | — |

The "not modelled" rows are left out for these reasons:
* **Hooks.** Only the hook the interpreter itself installs (`lstop`, from
  the SIGINT handler) is modelled; `debug.sethook` and line hooks are not.
* **Collector.** `lgc.c` is not in the repository. Only the finalizer
  calls of `gafq_close` are modelled, following the spec.
* **Dump/undump and zio.** These are byte transformations of compiled
  chunks and input buffers.
* **Other libraries.** The base, os, math and debug libraries reach the
  core only through the C API, which `GafqCall` treats as arbitrary C
  functions, and keep no state of their own.

`PROJECT.json` lists every component with its reason. It also names what a
partly modelled component leaves out.

The table library and the auxiliary library fall outside the core that
`spec.md` describes. They are modelled from their source. They are the
runtime's own clients of the table and stack API, and they have real
boundaries: free lists, stack levels and index ranges.

## Hazards

These are the behaviours that are hard to test and that a model checker
reaches. `PROJECT.json` lists them at the line where they bite, with the
properties that cover them; where two of the hazards below are caught by the
same properties in the same way, only one of them has an entry there.

**Calls and errors:**
* **Unwinding.** A longjmp abandons frames, C activations and open upvalues at
  once (gdo.c:472).
* **Recursive error handling.** The error function is called with `nCcalls`
  already at the limit. It is escalated to `GAFQ_ERRERR` one or more levels
  later (gdo.c:372).
* **CallInfo growth and the overflow restore.** See gdo.c:170 and gdo.c:75.
  The restore has an off-by-one: see "Findings".
* **Open-upvalue order.** `findupval` and `close` depend on the list staying
  sorted (lfunc.c:58). `OP_TAILCALL` and `OP_RETURN` must close upvalues
  before they drop a frame.
* **`nexeccalls`.** The count of re-entries of `gafqV_execute` must pair
  `OP_CALL` with `OP_RETURN` (gvm.c:647).
* **Memory errors.** They bypass the error function (gdo.c:143).

**Shutdown:**
* **`gafq_close`'s retry loop** resets the state after a failing finalizer
  and must neither skip nor repeat the next one (gstate.c:209).
* **`gafqD_rawrunprotected` closes no upvalues** when a finalizer fails
  (gdo.c:116). See "Findings".

**Coroutines:**
* **Yield across a C boundary**, and `gafq_resume`'s status test (gdo.c:449,
  gdo.c:423).
* **`nCcalls` across a resume chain** at `GAFQI_MAXCCALLS` (gdo.c:425).
* **`costatus` telling "normal" from dead** (gbaselib.c:497).
* **`auxresume`'s late stack check** (gbaselib.c:531).

**Metamethods:**
* **`gafqV_settable` clearing the flags** after its own lookup of
  `__newindex` may have set a bit in the table it writes (gvm.c:145).

**Auxiliary library:**
* **A double `gafqL_unref`** (gauxlib.c:504).
* **`adjuststack`'s level limit** (gauxlib.c:417).
* **`gafqL_addvalue`'s insert below the value** (gauxlib.c:465).

**Table library:**
* **The sentinels of `auxsort`** under a comparator that is not an order
  (gtablib.c:227).
* **`tinsert`/`tremove` at and past `#t`** (gtablib.c:100, gtablib.c:122).

**Concatenation:**
* **The `size_t` length test** of the coalescing loop (gvm.c:299).

**String pattern matching:**
* **Capture undo on backtracking.** `start_capture` and `end_capture` undo
  their capture when the rest fails. The retry of the next alternative must
  not see it (gstrlib.c:340).
* **A position capture used as a back-reference.** Its length
  `CAP_POSITION` is compared as a `size_t` (gstrlib.c:360).
* **`GAFQ_MAXCAPTURES`** reached by a nested capture (gstrlib.c:335).
* **`gmemfind`'s candidate count `l1`** at the end of the subject
  (gstrlib.c:455).
* **The `init` clamp** of `str_find_aux` for negative positions and
  positions past the end (gstrlib.c:501).
* **The previous byte of `%f`** at the start of the subject
  (gstrlib.c:393).
* **The empty-match advance** of `gmatch_aux` and `str_gsub`. Each loop
  has its own rule (gstrlib.c:566).

**Ctrl-C (`GafqInterrupt`):**
* **The hook copied into a new thread.** `laction` arms `lstop` between any
  two instructions, also while the main thread is inside
  `coroutine.create`. `gafqE_newthread` then copies the hook into the new
  coroutine, and one Ctrl-C can raise "interrupted!" in both threads
  (gstate.c:125). See "Without a property yet".
* **The window after `gafq_pcall`.** A Ctrl-C between `gafq_pcall`
  returning and `signal(SIGINT, SIG_DFL)` arms a hook that nothing clears,
  so the next docall is interrupted at its first instruction (gafq.c:103).

**Value stack (`GafqStack`):**
* **Relocation.** Reallocating the stack moves every pointer into it;
  `correctstack` must move `L->top`, `L->base`, the open upvalues and every
  CallInfo (gdo.c:126).
* **`callTMres`'s result slot**, kept as an offset across a call that may
  reallocate the stack (gvm.c:87).
* **`callTM` writing four slots at `ci->top`** before its `checkstack`,
  into the `EXTRA_STACK` slack (gvm.c:98).
* **`gafq_settop` raising `L->top`** past `ci->top`: the slots it exposes
  must be set to nil (gapi.c:169).

**io library (`GafqIo`):**
* **The close function comes from the creator's environment**: a popen'ed
  FILE must reach `pclose` (giolib.c:178).
* **The NULL pointer of a closed handle**, which keeps `io.close`, an
  iterator at end of file, `io_gc` and `gafq_close` from closing a FILE
  twice (giolib.c:122).
* **Chunk boundaries** of `read_line` (fgets, giolib.c:305) and
  `read_chars` (fread, giolib.c:325).

**package library (`GafqRequire`):**
* **The sentinel** that turns a cyclic `require` into an error
  (loadlib.c:481).
* **A body returning nothing** leaves the sentinel, which `require` must
  turn into `true` (loadlib.c:488). A body returning `false` stores
  `false`, which the next `require` reads as absent (loadlib.c:452).

**Lexer (`GafqLex`):**
* **`inclinenumber`'s pair skip.** `"\r\n"` and `"\n\r"` are one line, but
  `"\n\n"` is two. The break may end a comment or lie inside a string
  (glex.c:117).
* **The decimal point kept in `ls->decpoint`** from an earlier numeral,
  which `trydecpoint` replaces only after a conversion fails (glex.c:190).
* **Offsets and limits of string values.** A long string is cut from the
  buffer `2 + sep` characters in from each end (glex.c:271). A `\ddd`
  escape must stop after three digits and reject values past `UCHAR_MAX`
  (glex.c:335).
* **The look-ahead token** that `gafqX_next` must discharge before it
  reads again (glex.c:522).

**Without a property yet:**
* the error-function offset going stale (gdebug.c:620);
* `module()` replacing the sentinel, so that a body failing after it leaves
  a half-initialised module that later `require`s return (loadlib.c:555):
  the model has this, but it is the documented behaviour of `module`;
* the hook copy in `gafqE_newthread` (gstate.c:125): a coroutine created
  after `laction` ran, but before `lstop` cleared the main thread's hook,
  inherits `lstop`. One Ctrl-C can then raise "interrupted!" twice (see the
  `GafqInterrupt` section). The code promises nothing to check this against;
* a double `gafq_unref` pushing a slot twice onto the free list
  (gauxlib.c:504): it is client misuse, with no documented behaviour;
* `callTM` pushing three values into the `EXTRA_STACK` reserve (gvm.c:98):
  the model has no slot-level stack bound for metamethod calls;
* `allowhook` left at 0 by an error in a hook (gdo.c:196): with `lstop` as
  the only hook, the error always reaches a `gafqD_pcall`, which restores it;
* GCSTEP arithmetic (gapi.c:927);
* `findupval` resurrecting a dead upvalue (lfunc.c:61).

## Module `GafqCall` (calls, returns, errors, upvalues)

### State

| variable | code |
|---|---|
| `ci` | `L->base_ci .. L->ci`; each record is `[func, base, top, nres, isC]` |
| `size_ci` | `L->size_ci` |
| `top` | `L->top` |
| `openupval` | the levels of `L->openupval` in list order |
| `nCcalls` | `L->nCcalls` |
| `errfunc` | `L->errfunc`: `"none"`, or whether its slot holds a function |
| `cstack` | the C stack, innermost last (see below) |
| `tmudata` | `G(L)->tmudata`: the userdata whose `__gc` is still to run |
| `fin` | how many times each userdata's finalizer has been called |
| `phase` | `"run"` inside `gafq_cpcall`, `"closing"` in `gafq_close`'s loop, `"closed"` after `close_state` |

Stack slots are offsets from `L->stack`. Values are not tracked, only where
frames and upvalues lie.

The C stack is explicit because a longjmp unwinds it. Its entries are:
* `exec` — a `gafqV_execute` with its `nexeccalls`;
* `cfn` — a running C function;
* `call` — a `gafqD_call` that counts in `nCcalls`, with the caller that
  resumes after it;
* `pcall` — a `gafqD_pcall` holding `errorJmp`, with the state saved on entry;
* `errmsg` — a `gafqG_errormsg` waiting for the error function.

The innermost entry takes the next step. The machine is sequential, so this
is exactly the C control flow.

### Actions

| action | code |
|---|---|
| `OpCall`, `OpTailCall`, `OpReturn`, `OpClosure`, `OpClose` | the opcodes of gvm.c, through `Precall` and `PoscallTop` (gdo.c) |
| `OpMetamethod` | `callTMres` and `callTM`: a `gafqD_call` above `L->top` |
| `OpRunError` | an instruction failing via `gafqG_runerror` |
| `CPush`, `CPop`, `CCall`, `CPCall`, `CReturn`, `CError` | a C function using `gafq_push*`, `gafq_settop`, `gafq_call`, `gafq_pcall`, `return n`, `gafq_error` |
| `DoCall` | `gafqD_call`'s `++nCcalls` checks and the precall that follows |
| `FinishCall` | `gafqD_call` returning: `gafq_call`'s `adjustresults`, `gafqD_pcall` returning 0, `callTMres` moving its result, or `gafqG_errormsg` going on to throw |
| `ErrMsgThrow` | `gafqG_errormsg`'s final `gafqD_throw` |
| `MemError` | an allocation failing with `GAFQ_ERRMEM` |
| `Close` | `gafq_close` up to its loop: `gafqF_close(L, L->stack)`, `separateudata`, `errfunc = 0`, and the first reset of `ci`, `top` and `nCcalls` |
| `GCTM` | one `__gc` call of the loop (`callalggcTM` → `gafqC_callGCTM`): it unlinks the first userdata, calls its finalizer, and on an error lands in the loop, which resets again (`Retry`) |
| `CloseDone` | the pass that finds `tmudata` empty, then `close_state`'s `gafqF_close` |
| `Terminated` | `main` has returned after `gafq_close` |

A few operators serve several actions:
* `Precall` covers `tryfuncTM` (a `__call` value shifts the arguments; any
  other non-function is a type error) and `inc_ci`/`growCI` with their two
  errors.
* `Throw` is the catch in `gafqD_pcall`.
* `Raise` is `gafqG_errormsg`.

The initial state is `stack_init`, followed by `main`'s
`gafq_cpcall(L, pmain, ud)` entering `pmain`. When `gafq_cpcall` has
returned (the C stack is empty), `main` calls `gafq_close`.

A finalizer is one atomic step, since `gafq_close` calls it at the bottom of
the reset stack. It is a Gafq function, a C function or a value that cannot
be called, and it returns or fails. A Gafq finalizer may capture any of its
registers (`GCUpvals`). When it returns, `OP_RETURN` closes them. When it
fails, `gafqD_rawrunprotected` closes nothing. `lgc.c` is not in the
repository, so `GCTM` and the set of separated userdata (all `NUDATA` of
them) follow the spec. A C finalizer that calls back into Gafq is not
modelled.

Instruction operands are small sets: register `a`, the argument and result
counts, and the kind of value called (Gafq function, vararg function, C
function, a value with a Gafq or C `__call`, or a value that cannot be
called). An instruction with B = 0 may follow only an open call, as
`gafqG_checkopenop` requires.

### Properties

* `TypeOK` — the type invariant. `nexeccalls` stays positive.
* `OpenUpvalList` — the open upvalues are strictly decreasing by level, and
  each lies in the register window of a live Gafq frame. A violation needs a
  call, a capture, and a return, tail call or error unwinding that drops the
  frame without closing.
* `CStackAccounting` — every CallInfo above `base_ci` belongs to exactly one C
  function or one `nexeccalls` re-entry, and `nCcalls` counts exactly the
  active `gafqD_call`s. This is what the catch in `gafqD_pcall` must restore,
  and what `OP_CALL`/`OP_RETURN`/`OP_TAILCALL` must keep.
* `RecursionBounded` — `nCcalls` and the CallInfo array stay within the
  escalation limits, even when error functions keep failing. The C-stack
  bound is `MAXCCALLS + MAXCCALLS/8`, or `MAXCCALLS + 1` when
  `MAXCCALLS/8` is 0. The `== MAXCCALLS` error runs the error function one
  level deeper before the escalation test can fire. TLC showed this with
  `MAXCCALLS = 4`.
* `DepthLimitOnlyWhileHandling` — more than `MAXCALLS` frames are in use only
  while an error function runs. This is what the spec says of the depth limit,
  and it is checked as a violation run (see "Findings").

* `OpenUpvalListWhileRunning` — `OpenUpvalList` in the `"run"` phase. The
  `errors` run checks this form, because during `gafq_close` the list is
  not kept (see "Findings").
* `EveryFinalizerOnce` — no finalizer is called twice, and once the state is
  closed every one has been called. Breaking it needs a finalizer to fail,
  the loop to reset, and the next pass to skip or repeat one.
No liveness is claimed. The program phase may loop forever. That
`gafq_close` ends depends on `GCTM` unlinking each userdata before it calls
the finalizer, and lgc.c is not in the repository, so it would only restate
the spec. Termination of error handling is a bounded-recursion safety property
(`RecursionBounded`).

### Runs

| run | cfg | result | checks |
|---|---|---|---|
| `errors` | `GafqCall_errors.cfg` | pass, 139 128 states, about 30 s | TypeOK, OpenUpvalListWhileRunning, CStackAccounting, RecursionBounded, EveryFinalizerOnce |
| `depth_limit` | `GafqCall_depth.cfg` | violation | DepthLimitOnlyWhileHandling |
| `close_stale_upvalues` | `GafqCall_close.cfg` | violation (5 states) | OpenUpvalList |

`MC_GafqCall` sets the bounds. They are the code's own limits, scaled down:

| constant | errors, close | depth | real value |
|---|---|---|---|
| `BASIC_CI_SIZE` | 2 | 2 | 8 |
| `MAXCALLS` | 3 | 3 | 20000 |
| `MAXCCALLS` | 4 | 4 | 200 |
| `MINSTACK` | 1 | 1 | 20 |
| `MAXSTACKSIZE` | 1 | 2 | per prototype |
| `NUMPARAMS` | 0 | 1 | per prototype |
| `STACK_SLOTS` | 7 | 8 | memory |
| `NResults` | {MULTRET, 1} | {MULTRET, 0, 1} | any |
| `NUDATA` | 2 | 2 | any |
| `MAXGCCALLS` (in `GafqCall`) | 2 | 2 | none |

Why these bounds are enough:
* `MAXCALLS = 3` with a base size of 2 makes the first growth overflow (2 → 4
  > 3). The restore then lands exactly on the limit. This is the path by which
  the real limits reach the same state (16384 → 32768 > 20000, restored to
  20000).
* `MAXCCALLS = 4` leaves room for `main`'s `gafq_cpcall`, a `gafq_pcall` and
  the error function. This lets the error function run, fail, and reach the
  `== MAXCCALLS` and escalation branches (`IncCi_NoErrErr` survives with 3).
* One register per frame leaves room, within 7 slots, for a metamethod call
  with its operands above the frame and for error functions nested deep
  enough to escalate. Upvalues at different levels still arise from nested
  frames, and from the two-register window of the `depth_limit` run.
* `STACK_SLOTS` is the model's stand-in for memory. A step that would need
  more slots is not taken, and `MemError` remains, as a failed
  `gafqD_reallocstack` would throw.
* Callers ask for one result or all results. A caller that asks for none
  takes the same paths of `gafqD_poscall`, copying and padding nothing.
* Two finalizers are the fewest for which a failing first one must not stop
  the second. `MAXGCCALLS` caps the calls of one finalizer. Since
  `EveryFinalizerOnce` holds, the cap never binds in the checked model. It
  keeps the state space of a mutant that retries a finalizer finite.

Each property of a passing run has a mutant in `PROJECT.json`: a variant of a
mapped definition that a plausible bug would produce. TLC finds each one:

| mutant | replaces | property violated |
|---|---|---|
| `Throw_NoClose` (`gafqF_close` forgotten in the catch) | `Throw` | `OpenUpvalListWhileRunning` |
| `Throw_KeepNCcalls` | `Throw` | `CStackAccounting` |
| `OpReturn_StayInExecute` | `OpReturn` | `TypeOK` |
| `IncCi_NoErrErr` | `IncCi` | `RecursionBounded` |
| `Retry_GiveUp` (the loop stops after one failing pass) | `Retry` | `EveryFinalizerOnce` |

### Not modelled in `GafqCall`

* **Hooks.** `hookmask` is 0 in this module.
* **Coroutines.**
* **`OP_VARARG` and `OP_SETLIST`.**
* **The values themselves.** An error object, a result or a closure's
  contents is not tracked.
* **An error-function index naming a slot at or above the called function.**
  The content of such a slot can change before the error. The model keeps the
  slot below the called function, as `xpcall` and the interpreter place it.
* **`tailcalls` and `savedpc`.** Only the debug interface reads them.

## Modules `GafqCoroutine` and `CoroutineStatus` (coroutines)

`CoroutineStatus` is the abstract specification: what `coroutine.status`
reports and the order of the resumed coroutines. It has these actions:
* `Create` makes a coroutine suspended.
* `Resume` runs a suspended coroutine and makes its resumer normal.
* `Leave("suspended")` models a yield, and `Leave("dead")` a return or an
  error. In both cases the resumer runs again.

`GafqCoroutine` is the detailed module. The threads run one at a time.
`chain` holds the threads inside `gafq_resume`, with the main thread first,
and its last entry is the running thread `L`. For each thread the module
keeps what `costatus` and the resume checks read:

| variable | code |
|---|---|
| `status` | `L->status` |
| `frames` | `L->ci > L->base_ci` |
| `vals` | `gafq_gettop` of a thread that is not running |
| `nCcalls`, `baseCcalls` | the same fields |
| `cb` | the C boundaries entered: a `gafqD_call`, or a `gafq_pcall` with the count it saved |
| `ret` | the outcome of `gafq_resume` until `auxresume` consumes it |

The actions are these:
* `Create` is `coroutine.create`.
* Failed resumes: `ResumeArgsOverflow`, `ResumeNotSuspended` and
  `ResumeCStackOverflow`, each refused with its message.
* `Resume` is the successful resume.
* `Yield` is a yield; `YieldAcrossBoundary` is a yield that is refused.
* `Return` is the body returning.
* `AuxResumeResults` and `AuxResumeError` are `auxresume` back in the resumer.
* `EnterBoundary`, `EnterBoundaryOverflow` and `LeaveBoundary` are the C
  boundaries.
* `RuntimeError` throws an error. It is caught, kills the coroutine, or ends
  the program.

Properties:
* `TypeOK` — the type invariant.
* `AbsSpec` — the refinement. `GafqCoroutine` implements `CoroutineStatus`
  under a mapping of `AbsSt`, which is `costatus` as the running thread sees
  it, and `AbsResumed`, the chain.
* `ResumeChainStatus` — exactly the threads below the running one in the
  chain are reported "normal", and no thread is in the chain twice.
* `CCallsNest` — each resumed thread starts one above its resumer's
  `nCcalls`, and every boundary adds one. Each `gafq_pcall` saved the count it
  restores.
* `DeadIsFinal` (violation run) — a dead coroutine stays dead.
* `OnlyRunningDies` (violation run) — only a running coroutine dies.

Runs:

| run | cfg | result | checks |
|---|---|---|---|
| `coroutines` | `GafqCoroutine.cfg` (on `MC_GafqInterrupt`) | pass, 360 040 states under symmetry, about 100 s | InterruptTypeOK, AbsSpec |
| `interrupts` | `GafqInterrupt.cfg` (on `MC_GafqInterrupt`) | pass, 110 112 states | ResumeChainStatus, CCallsNest |
| `dead_coroutine_resumed` | `GafqCoroutine_dead.cfg` | violation | DeadIsFinal |
| `resume_overflow_kills` | `GafqCoroutine_overflow.cfg` | violation | OnlyRunningDies |

The two passing runs check the coroutine model as the interpreter runs it,
composed with Ctrl-C (`GafqInterrupt`, below): the chain is empty between
docalls and restarts on the main thread, and the hook can stop the main
thread. The violation runs use `GafqCoroutine`'s own `Spec`.

Bounds (`MC_GafqCoroutine`):
* The `coroutines` run uses three coroutines, which is enough for a chain
  main → c1 → c2 → c3. Its limits are wide, so that no limit is reached
  (`MAXCCALLS = 10`, `MAXCSTACK = 4`).
* The `coroutines` run has one docall and one Ctrl-C. The three
  coroutines are a symmetry set (`MC_Symmetry`): `coroutine.create` picks
  any thread not yet created, and nothing names one. AbsSpec is a safety
  property, so symmetry is sound for it.
* The other runs use two coroutines and tight limits. `MAXCCALLS = 4` is
  reached by main entering a boundary and resuming c1. A checkstack of 2
  fails on two values.
* One boundary per thread and at most one value per transfer are enough:
  only the counts are read.

The refinement does not hold under the tight limits. The two violation runs
show why.

Mutants: `CoStatus_NoFrames` (AbsSpec), `ThrowKills_KeepStatus`
(ResumeChainStatus), `Resume_NoSetLevel` (CCallsNest) and
`LeaveBoundary_Unguarded` (InterruptTypeOK).

## Module `GafqInterrupt` (Ctrl-C in the stand-alone interpreter)

`docall` (gafq.c) installs `laction` for SIGINT, runs the chunk under
`gafq_pcall`, and puts `SIG_DFL` back. `laction` resets SIGINT to `SIG_DFL`,
so a second Ctrl-C kills the process. It then sets the hook of `globalL`
(the main thread) to `lstop`, with mask call|return|count and a count of 1.
The next instruction, call or return of that thread calls the hook
(`traceexec` and `gafqD_callhook`). `lstop` clears the hook and raises
"interrupted!". Hooks belong to a thread, and a new thread copies its
creator's hook (`gafqE_newthread`).

The module extends `GafqCoroutine` and adds these variables:

| variable | code |
|---|---|
| `handler` | the disposition of SIGINT: `SIG_DFL` or `laction` |
| `hooked` | the threads whose `L->hook` is `lstop` |
| `phase` | where `main` is: before a docall, inside it, exited, or killed |
| `chunks`, `handled`, `nint` | docalls finished, Ctrl-Cs handled, "interrupted!" errors raised |

The actions are these:
* `SignalHandled` is `laction`. `SignalKills` is a Ctrl-C under `SIG_DFL`.
  Both can come between any two steps, the window after `gafq_pcall`
  returned included.
* `StartChunk` is `docall` up to the start of the chunk on the main thread.
  `EndChunk` is `gafq_pcall` having returned and `signal(SIGINT, SIG_DFL)`.
  It is followed by another docall or by the exit. `runargs` stops at an
  error, while `dotty` goes on reading lines, so the model chooses either.
* `Interrupt` is `lstop`: it clears the hook and throws like any runtime
  error of `L`. A script `pcall` may catch the error. At top level, `docall`
  reports it.
* `Code(A)` is every action of `GafqCoroutine`, taken only while no hook is
  due on the running thread. A hooked thread executes nothing before its
  hook. `auxresume`'s C code after `gafq_resume` returned runs no checked
  instruction, and may go on.
* `SignalDuringCreate` is `laction` running while the main thread is inside
  `gafqB_cocreate`, after its call hook and before `gafq_newthread`.
  `gafqE_newthread` copies `hookmask`, `basehookcount` and `hook`
  (gstate.c:125-127), so the new coroutine is hooked as well. The main
  thread's return hook is the next one due.

`laction` hooks only `globalL`, so a coroutine is hooked only by inheriting
the hook in `SignalDuringCreate`.

The module adds no property of its own. The `interrupts` run checks the
coroutine properties with Ctrl-C in the picture, and `coroutines` checks
the refinement.

Three behaviours the code has are in the model but not stated as
properties. The code promises nothing either way:
* One Ctrl-C can raise "interrupted!" twice. TLC reaches this trace:
  1. A `pcall` runs on the main thread.
  2. The signal arrives inside `coroutine.create`, and the new thread
     inherits `lstop`.
  3. The main thread's return hook raises "interrupted!", and the `pcall`
     catches it.
  4. The script resumes the coroutine, whose first instruction raises
     "interrupted!" again.

  The coroutine may equally be resumed by a later docall.
  spec.md describes the interrupt only as an error "on the next checked
  instruction", and that holds in each thread.
* A Ctrl-C while a coroutine runs is answered only when the main thread
  runs again. The hook is on `globalL`, and the coroutine has none. A
  coroutine that never yields cannot be interrupted, and a second Ctrl-C
  kills the process.
* A Ctrl-C in the window after one docall's `gafq_pcall` interrupts the
  next docall's first instruction.

Bounds (`MC_GafqInterrupt`): the `interrupts` run has two docalls and two
Ctrl-Cs. That is enough for a Ctrl-C in the window before the second
docall, for two Ctrl-Cs within one docall (the second kills), and for an
interrupt caught by a `pcall` (one boundary).

## Module `GafqAuxRef` (`gafqL_ref` / `gafqL_unref`)

A table `t` hands out integer keys. `t[0]` (`FREELIST_REF`) heads a list of
released keys, threaded through the released slots themselves. When the list
is empty, a new key is `#t + 1`. `#t` is `gafq_objlen`, which is `gafqH_getn`
and may return any border, so `Borders` gives them all. `held` counts how
often the client holds each reference; the client releases only what it
holds. `issued` records every key handed out (history only).

* `TypeOK` — the type invariant.
* `RefsLive` — every held reference was handed out once, and its slot still
  holds the client's value.
* `FreeListExact` — the chain from `t[0]` has no repetition and consists of
  exactly the keys handed out and released since.

The module is checked in run `auxlib` together with `GafqAuxBuffer` (see
"Run `auxlib`" below), with `NSLOTS = 4`: a free list of three keys in any
order, and a released key in the middle of `#t`. Mutants:
* `Ref_NoIncrement` (a new key `#t`) breaks `TypeOK`;
* `Ref_KeepHead` breaks `RefsLive`;
* `Unref_Swapped` (the two stores of `gafqL_unref` in the other order)
  breaks `FreeListExact`.

A double `gafqL_unref` by the client is outside the model. The client
releases only what it holds, and the code has no guard against a double
release.

## Module `GafqAuxBuffer` (`gafqL_Buffer`)

Characters collect in an array of `BUFFERSIZE` bytes. When the array is full,
or when a long value is added, its contents become one more string "level" on
the stack. `adjuststack` then concatenates the top levels. It does so while
more than `LIMIT` levels would occupy stack slots, or while the top string is
longer than the one below it.

The actions are:
* `AddChar` — `gafqL_addchar`;
* `AddGString` — `gafqL_addlstring`, as a fold of `AddCharTo`;
* `AddValue` — `gafqL_addvalue`;
* `PushResult` — `gafqL_pushresult`.

Strings are sequences over two letters. Their lengths steer `adjuststack`,
and their letters show the order of the pieces.

* `TypeOK` — the type invariant. The array never holds more than
  `BUFFERSIZE` characters.
* `ContentsInOrder` — the levels followed by the array hold exactly what was
  added, in order, and the result is all of it.
* `LevelsBounded` — fewer than `LIMIT` levels are on the stack between calls.

The module is checked in run `auxlib`, with `BUFFERSIZE = 2`, `LIMIT = 3` and
at most 7 characters. Mutants:
* `AddCharTo_OffByOne` breaks `TypeOK`;
* `AddValue_NoInsert` (the emptied buffer pushed above the value) breaks
  `ContentsInOrder`;
* `ToGet_NoLimit` breaks `LevelsBounded`.

### Run `auxlib`

`MC_GafqAuxLib` instantiates both modules side by side. This is a C
function that builds a string in a buffer while it takes and releases
references. The two share no state, so every interleaving of their calls is
a behaviour, and each must keep its own invariants. The run checks the five
properties above and passes with 160 734 states (89 of references times
1 806 of buffer). Five reference keys would make the product 749 490 states; four still
thread the free list in every order.

## Module `GafqTable` (`table.insert`, `table.remove`, `table.sort`)

The module holds one table `t` over the keys `0 .. N+1`. `#t` is any border.
`auxsort` is translated as recursive operators (`Median`, `ScanUp`,
`ScanDown`, `Partition`, `AuxSort`) over a record: the array, the error raised
if any, and the least and greatest key read. A comparator is the set of pairs
for which it returns true. The default comparator raises on nil; a Gafq
function receives the nil.

* `TypeOK` — the type invariant, including that `t[N+1]` stays absent.
* `ListSemantics` (action property) — on any table, holes included, an
  insert at `pos` leaves every key below `pos` and above `max(n+1, pos)`
  alone, and a remove leaves the keys outside `pos..n` alone (all of `t`
  when `pos` is outside `1..n`, `pos = 0` included). On a sequence,
  `table.insert` and `table.remove` act as `InsertAt` and `RemoveAt` of
  SequencesExt, and `table.remove` returns the element removed.
* `SortCorrect` (action property) — with `gafq_lessthan`, or a comparator
  that is a strict weak order, sorting a sequence has these outcomes:
  * it raises no error;
  * it reads only keys `1..#t`;
  * it leaves a sorted permutation.
* `SortWithinLength` (violation run) — whatever the comparator returns, sort
  changes only the keys `1..#t`.

Runs:

| run | cfg | result | checks |
|---|---|---|---|
| `libraries` | `GafqLibs.cfg` | pass (see "Run `libraries`") | TypeOK, ListSemantics, SortCorrect, with the invariants of the other libraries |
| `sort_leaves_range` | `GafqTable_range.cfg` | violation | SortWithinLength |

Bounds:
* The `libraries` run uses values {1, 2} and `N = 5`. Two values give ties and
  both orders. Five elements make `auxsort` partition and recurse, and leave
  room for holes and an insert past `#t + 1`.
* The violation run uses `N = 4` (the fewest for which a partition happens)
  and every relation over {1, 2, nil} as the comparator.

Mutants:
* `TInsert_ShiftOneMore` breaks `TypeOK`;
* `TRemove_NoClear` breaks `ListSemantics`;
* `Median_TwoOnly` breaks `SortCorrect`.

## Module `GafqStack` (the value stack and its reallocation)

The stack is a block of `size` slots. `stack_last` sits `EXTRA_STACK + 1`
below its end. A pointer into the stack is a record `[g, o]`: the block it
points into (a generation, bumped by every reallocation) and an offset. A
pointer whose generation is not the current one points into a freed block.
Code that keeps a position across a call keeps an offset
(`savestack`/`restorestack`); the model keeps such a position as a pointer
and restores it as the code does. A slot holds a value or `Junk` (nothing
written since the block was allocated); which value it holds no property
tells apart.

State: `stack`, `size`, `last` (`stack_last`), `gen`, `top`, `base`, `cis`
(the CallInfos: `func`, `base`, `top`, whether a C or Gafq function runs,
and what the caller does when it returns), `upvals` (`L->openupval`), and
two flags: `uaf` (a write through a stale pointer) and `oob` (a write past
the block).

| action | source |
|---|---|
| `Push`, `SetTop`, `GafqRemove`, `Insert`, `Replace`, `PushValue` | `api_incr_top`, `gafq_settop`, `gafq_remove`, `gafq_insert`, `gafq_replace`, `gafq_pushvalue` (gapi.c), through `index2adr` |
| `CheckStack(n)` | `gafq_checkstack`: `gafqD_checkstack`, then `ci->top` raised |
| `ApiCall(n)`, `CReturn(n)` | `gafq_call` and a C function's return (`gafqD_poscall(L, L->top - n)`) |
| `OpCall`, `GReturn`, `OpClosure` | `OP_CALL`, `OP_RETURN` (with `gafqF_close`), `OP_CLOSURE` (`gafqF_findupval`) |
| `TMRes(a)`, `TM4` | `callTMres` and `callTM` (gvm.c) at `L->top = ci->top` |

Every call goes through `PrecallM` (`gafqD_precall`: `checkstack` of
`maxstacksize` or `GAFQ_MINSTACK`, the nil fill of a Gafq frame) and every
return through `PoscallM`. A reallocation (`CheckStackM`: `growstack`,
`reallocstack`, `correctstack`) can happen inside `gafq_checkstack`,
`precall` and the `checkstack` of `callTMres`/`callTM`, so one step of the
model may reallocate twice, as the C code does.

* `StackTypeOK` — the type invariant.
* `StackPointersValid` — after any sequence of reallocations no pointer
  dangles: `L->top`, `L->base`, every CallInfo and every open upvalue point
  into the current block, `callTMres` writes through a current pointer,
  `L->base` is the running frame's base, and `ci->top <= stack_last` (the
  `gafq_assert` of `gafqD_precall`).
* `WritesInBlock` — every write lands inside the block (the tag-method
  calls write up to four slots above `ci->top`, into `EXTRA_STACK`), and
  every slot below `L->top` has been written since it was allocated.

Mutants: `Realloc_NoExtra` (the vector reallocated without the extra slots)
breaks `StackTypeOK`; `Restore_Raw` (`callTMres` writing through the pointer
taken before the call) breaks `StackPointersValid`; `SetTop_NoFill` breaks
`WritesInBlock`.

A Gafq frame's `ci->top` is below `stack_last` (its `precall` asks for
`maxstacksize` slots first), so `callTM` writes at most `stack_last + 3`.
Doubling the block on growth leaves `ci->top` far below the new
`stack_last`, so in the model no frame reaches the top of a block it grew;
`EXTRA_STACK` is more slack than the writes need.

## Module `GafqIo` (the io library)

A handle is a number `1..nh`; handles 1-3 are stdin, stdout and stderr
(`createstdfile`). For each handle the model keeps whether its `FILE *`
is non-NULL (`fp`), how the FILE was opened (`how`), the `__close` of the
environment it was created in (`cls`: `io_noclose`, `io_fclose` or
`io_pclose`), and the close functions that have closed it (`closedwith`).
`dflt` is the environment's `IO_INPUT`/`IO_OUTPUT` slots, `held` the
handles the script holds, `iters` the `lines` iterators (handle and
`toclose`), `fin` the handles `io_gc` has run on, and `iophase` the state's
life (`run`, `closing` in `gafq_close`, `closed`).

Actions: `IoOpen`, `IoTmpfile`, `IoPopen` (each `newfile` then the OS call,
which may fail), `IoClose` (`aux_close`), `SetDefaultHandle` and
`SetDefaultName` (`g_iofile`), `FLines` and `IoLines`, `ReadLineEOF`
(`io_readline` closing the file of `io.lines`), `DropHandle`,
`DropIterator`, `IoGc` (the collector finalizing an unreachable handle, or
every handle at close), `CloseState`, `StateClosed`, `IoClosed`.

Reading is a set of operators: `FgetsLen`, `ReadLine`, `ReadChars`,
`TestEof`, `ReadFormat`, `GRead`, `IoRead` translate `read_line` (fgets in
chunks of `BUFFERSIZE - 1`), `read_chars` (fread in chunks), `test_eof` and
`g_read`. `RefRead` is the reference: what each format means on the file's
contents, without chunks.

* `IoTypeOK` — the type invariant.
* `CloseMatchesOpen` — a FILE is closed at most once, and by the function
  that matches how it was opened (`pclose` for `popen`).
* `ReadAsDocumented` (in `MC_GafqLibs`) — `file:read` returns what its
  formats mean whatever the chunk size.

Mutants: `AuxClose_NoStd` breaks `IoTypeOK`; `IoPopen_SharedEnv` (popen handles
made in the library's environment) breaks `CloseMatchesOpen`;
`ReadLine_EofEmpty` (success at end of file whatever was read) breaks
`ReadAsDocumented`.

## Module `GafqRequire` (`require`, `module`, `package.loadlib`)

Each module `m` has a configuration `cfg[m]`, chosen in the initial state:
which loader finds it (`preload`, a C library, a C library without the
symbol, a Croot library without the symbol, a bad file, none), whether its
body calls `module`, which module it requires, whether it then fails, and
whether it returns nil, `false` or a value. `loaded` is `package.loaded`
(absent, the sentinel, `true`, `false`, the returned value or the module
table), `stk` the bodies
running (module and step), `lib` the one C library's handle in the registry
(`none`, `null` after a failed dlopen, `open`), `nreq` the script's `require` calls, `lastret` what
the script's last `require` returned, `finished` what a body's completed
load left.

Actions: `Require` (`ll_require`: the `_LOADED` check, the loaders,
`ll_loadfunc` with `ll_register`, the sentinel), `ModuleCall` (`ll_module`),
`BodyError`, `BodyReturn` (the end of `ll_require`), `LoadLib`
(`ll_loadlib`), `RqCloseState` (`gctm` at `gafq_close`), `RqClosed`.

* `RqTypeOK` — the type invariant.
* `NoReentrantLoad` — no module body starts while another run of it is
  active.
* `LoadedStable` — once a body has returned a true value (its result, the
  table `module()` made, or `true` for nil), `package.loaded[m]` keeps it,
  and `require` never returns the sentinel. A body that returned `false`
  is not covered. `ll_require` stores `false` (`!gafq_isnil`), but its
  `gafq_toboolean` test reads it as absent, so the next `require` runs the
  body again. The model has that reload.

Mutants: `RequireLoaded_NoToboolean` breaks `RqTypeOK`; `Load_NoSentinel`
breaks `NoReentrantLoad`; `BodyReturn_KeepSentinel` breaks
`LoadedStable`.

## Run `libraries` (`MC_GafqLibs`, `GafqLibs.cfg`)

`MC_GafqLibs` extends `MC_GafqTable`, `GafqIo`, `GafqRequire` and
`GafqStack`. They share no state, so a behaviour runs one of them, chosen
by `part` in the initial state, while the others stay in their first state
(an empty table, no module found, the io library just opened, the stack
after `stack_init`). `part = "read"` holds one `file:read` call; the
invariant `ReadAsDocumented` compares its result with `RefRead`.

Result: pass, 367 437 distinct states, about 2 minutes with coverage; every
action of the four modules fires.

Bounds:
* table: as in `GafqTable` above.
* io: four handles (`MAXH = 4`: the three standard ones and one opened),
  enough for a handle to be opened, made the default, iterated, closed and
  finalized; `BUFFERSIZE = 3` (chunks of two characters).
* read: files of up to five characters over a letter and a newline, read
  with up to two formats among `*l`, `*a` and counts 0 to 3: lines longer
  than a chunk, a line ending exactly at a chunk boundary, a last line
  without newline, and counts crossing the end of file.
* require: two modules, each with every configuration, and two `require`s
  from the script: enough for a cycle A -> B -> A, a module required
  twice, and the C library asked for by both.
* stack: `GAFQ_MINSTACK = 2` (a first block of 4 + 5 slots),
  `EXTRA_STACK = 5`, `GAFQI_MAXCSTACK = 4`, a Gafq function with
  `maxstacksize = 7` and one parameter, instructions naming registers 0
  and 1, three frames (the host, a callee, a tag method or its callee), and
  counts up to 2. With `maxstacksize = 7` the first Gafq call grows the
  block and a tag method called from it grows it again, so `callTMres`
  returns into a reallocated stack.

## Module `GafqMeta` (metamethod lookup and the absence cache)

The module models the following code:
* `gafqV_gettable` and `gafqV_settable` (gvm.c), with their `MAXTAGLOOP`
  loop;
* `fasttm` and `gafqT_gettm` (ltm.h, ltm.c): a metatable's `flags` has one
  bit per event found absent;
* `gafqT_gettmbyobj` for the number type's metatable;
* the API calls `gafq_gettable`/`getfield`, `gafq_settable`/`setfield`,
  `gafq_rawset` and `gafq_setmetatable`.

The data is abstracted. A table has three fields: an ordinary key `k`,
`__index` and `__newindex`. Values are nil, a number, a function and the
tables. A metamethod that is a function is called, and the call is recorded
as `CALLED`. A table handler is indexed in turn.

| variable | code |
|---|---|
| `store[h][f]` | the raw contents of table `h` |
| `meta[h]` | `h->metatable` |
| `typemt` | `G(L)->mt[GAFQ_TNUMBER]` |
| `flags[h]` | `h->flags`, as the set of events cached as absent |
| `last` | the call the last step made and its result (history only) |

`GetTable`, `SetTable` and `FastTM` are recursive operators that return the
result together with the flags the lookups set. `gafqH_set` (ltable.c) is not
in the repository. It is taken to clear the flags of the table it writes, as
`luaH_set` of Lua 5.1 does, and `gafq_rawset` depends on that. The cfg uses
`VIEW tables` to leave `last` out of the state fingerprint. The action
property is still checked on every transition.

Properties:
* `CacheSound` — every event cached as absent in a table is absent from it.
  This must survive all of the following:
  * `settable` (including a store into a table that is its own metatable,
    after `fasttm` set a bit in that very table);
  * `rawset`;
  * `setmetatable`.
* `AccessAsSpecified` — every get and set returns, stores, calls or raises
  exactly what an uncached definition of the index/newindex events
  (`RefGet`, `RefSet`) gives in the state the call started from. The cache is
  never observed.

Run `metamethods` (`GafqMeta.cfg`) passes with 64 800 states. It uses two
tables and `MAXTAGLOOP = 4`, which lets chains t1 → t2 → t1 loop into the
"loop in gettable"/"loop in settable" errors.

Mutants:
* `SetTable_NoFlagReset` (`h->flags = 0` dropped) breaks `CacheSound`. The
  counterexample is a self-metatable.
* `FastTM_CacheAlways` breaks `AccessAsSpecified`.

## Module `GafqConcat` (concatenation)

`gafqV_concat` (gvm.c) is reached from `OP_CONCAT` and from `gafq_concat`.
Each pass of its do-while loop looks at the top two operands:
* If either operand is neither a string nor a number, the `__concat`
  metamethod replaces the pair: the first operand's, else the second's
  (`call_binTM`).
* If the second operand is the empty string, the result is the first operand
  converted to a string.
* Otherwise, as many strings and numbers as lie below are coalesced into one
  string. Numbers are converted in place (`gafqV_tostring`). The lengths are
  summed in `size_t`, with the test `l >= MAX_SIZET - tl` before each
  addition.

The module translates this as recursive operators:
* `Pass` is one iteration;
* `Collect` is the collecting loop;
* `ConcatV` is the whole loop.

A value is a string (a sequence of characters), a number, a table without
metamethods, or a table whose `__concat` returns a new such table holding its
two operands. That table records every metamethod call and its operands.
`size_t` has `WIDTH` bits: `SIZE = 2^WIDTH` and `MAX_SIZET = SIZE - 3`, as
in llimits.h. Every length is computed modulo `SIZE`. A number is converted to
its decimal digits (`gafq_number2str` is `"%.14g"`, and the numbers are
integers).

The actions are:
* `ApiConcat` — `gafq_concat(n)` for `n = 0` or `2..#stack`;
* `OpConcat` — `OP_CONCAT A B C` on any registers;
* `Halted` — after an error, or after `MAXCALLS` calls.

`Init` is any stack of up to `MAXSTACK` pushed values.

* `ConcatAsFold` (action property) — every call gives what the
  right-associative definition `RefConcat` gives. That is:
  * the same value, with the same metamethod calls, operands and nesting;
  * the same error ("attempt to concatenate" or "string length overflow");
  * for `gafq_concat`, the values below are untouched;
  * for `OP_CONCAT`, the registers outside `B..C`, other than `A`, are
    unchanged.

Run `concat` (`GafqConcat.cfg`) passes with 840 158 states, in about a
minute and a half. This count includes the string-library calls and the
lexer's chunks described in the next two sections. Its bounds:
* one letter, the numbers 7 and 10, and strings of up to three characters;
* a 3-bit `size_t` (`MAX_SIZET = 5`);
* four stack slots and two calls.

Two calls let a concatenation take a string of four characters made by the
first call. Together with two more strings, the sum passes 2^3.

The mutant `Collect_WrappedSum` tests `tl + l >= MAX_SIZET` on the wrapped
sum. TLC finds the result `""` where an overflow error is due.

## Module `GafqStrLib` (pattern matching of the string library)

gstrlib.c matches Lua-style patterns with a backtracking matcher.
* `match` runs over the pattern. It uses `goto init` for the tail cases and
  recursive calls for backtracking.
* Those recursive calls come from `start_capture`, `end_capture`,
  `max_expand`, `min_expand` and the `?` case.
* The library functions are built on `match`:
  * `str_find_aux` serves `string.find` and `string.match`. Its plain search
    is `gmemfind`.
  * `gmatch_aux` is the iterator behind `string.gmatch`.
  * `str_gsub` serves `string.gsub`, with `add_s` for a string replacement.

The module has no state. It translates these functions into operators.
* A match state `ms` is a record `[level, cap]`, like `MatchState`.
* `match` returns `Res(s, ms)`, the match end (or `NULL`, or an error code)
  and the match state as the call left it.
* `gafqL_error` is an error code `E_*`, which every caller passes up, as
  the longjmp does.

**The matcher.** `Step` is the `switch` of `match`. Each case returns one of
two things:
* `Done(r)`, a final result;
* `Go(alts)`, the `(s, p)` pairs `match` goes on from, in the order it tries
  them.

The pairs for each case are:
* a `goto init` is one pair;
* `max_expand` gives the runs from longest to shortest;
* `min_expand` gives them from shortest to longest;
* `?` tries the pair with the byte first.

A pair from `start_capture` or `end_capture` carries its capture. `Enter`
opens or closes it, and `Undo` (`UndoStart` for `ms->level--`) reverses it.
`TryAlts` is the one place that calls `Match` again. The `ms` a failed
attempt leaves is the `ms` the next attempt starts from, as in the C code.

The helpers that take a computed result as a parameter (`MatchStep`,
`TryNext`, `FindAt`, `ScanAt`, `GMatchFrom`, `GsubAt`) hold the part of a C
function that follows a call to `match`. Passing the result in keeps it from
being re-evaluated at each use.

**What a pattern means.** The module also defines the manual's reading of a
pattern, independently of the matcher:
* `Parse` turns the pattern into items.
* `RefRun` lists an item sequence's outcomes in the order the pattern
  prefers them, from a position with the captures so far.
* `FirstOutcome` finds the first start with an outcome.
* `RefFind` is `string.find` and `string.match` stated on top of these:
  plain search by substring positions, and the capture values.

Errors are outcomes, so a malformed item raises its error only when the
search reaches it, as the matcher does.

**Properties** (invariants of `MC_GafqConcat`):
* `FindAsSpecified` — for every call, `str_find_aux` returns exactly what
  `RefFind` says. This holds for `string.find` (with and without `plain`)
  and `string.match`, and for every `init` of `Inits`. It covers:
  * the start and end positions;
  * every capture value (substring, position, or the "unfinished capture"
    error);
  * the first error the search reaches.
* `GsubAgreesWithGmatch` — `string.gsub(S, P, "%0", max_s)` gives back `S`
  and counts the matches as `string.gmatch` yields them (or `max_s`, when
  that is less). The two loops step over empty matches by different code,
  so this checks that they visit the same matches. It applies to patterns
  without `^`, which `gmatch` takes literally.

**The harness.** `MC_GafqConcat` adds a variable `strcall`. Each string
call is an initial state of its own: a subject, a pattern and
`strcall.on = TRUE`. The call's only step is a stutter. The verdicts are
computed once, as the constant sets `FindFailures` and `GsubFailures`, and
the invariants look the call up in them. The string calls share the run
with the concatenation model because they need no actions of their own.

**Inputs and bounds:**
* Subjects: every string of at most 3 bytes over `a` and `b` (15 strings).
* Patterns: the empty pattern, 24 tokens, and every pair of tokens (601
  patterns). The tokens are:
  * classes (`a`, `.`, `%a`, `[a]`, `[^a]`) and quantifiers;
  * capture brackets, a position capture and the back-reference `%1`;
  * the anchors `^` and `$`, `%f[b]` and `%bab`;
  * the malformed items `%` and `[`;
  * quantified items, and `(()`, which opens two captures.
* `init` in `{1, -1, 5}`: the start, the last byte, and past the end.
* `GAFQ_MAXCAPTURES` is 2, so `(()(` exceeds it.

Two tokens reach every pair of constructs. This covers:
* a quantifier after each class;
* a back-reference after a capture;
* an anchor before anything;
* a malformed item after a failing one.

Three bytes leave room for two-byte runs, `%bab` and an empty match inside
the subject.

**Mutants:**
* `UndoStart_Skipped` drops `ms->level--`. A capture opened by a failed
  alternative then stays open into the next one. TLC finds a call whose
  captures differ from `RefFind`'s.
* `GMatchFrom_SkipByte` resumes one byte past every match, including
  non-empty ones, and skips matches that `gsub` finds.

## Module `GafqLex` (the lexer)

glex.c turns a chunk into tokens for the parser. The parser is not in the
repository, and its only uses of the lexer are `gafqX_next`, which makes
the next token current, and `gafqX_lookahead`, which reads one token
ahead. `GafqLex` models both. Each one runs `glex` to its return, since
the whole function runs between two parser steps.

**The functions as operators.** A chunk is a sequence of byte codes (0..255),
and `EOZ` is -1. The `LexState` the functions share is a record `ls`:
* `i`, the position of `ls->current`;
* `line` and `lastline`;
* `decpoint`;
* `buff`, the token buffer.

`next`, `save`, `save_and_next` and `check_next` are the operators `Adv`,
`Save`, `SaveAndNext` and `CheckNext`. Each loop of the C code is a
RECURSIVE operator:
* `GlexLoop`, the `for(;;)` of `glex`;
* `SepEquals`, in `skip_sep`;
* `LongBody`, in `read_long_string`;
* `StringBody`, in `read_string`;
* `DecEscape`, the `\ddd` loop;
* `NumeralChars`, in `read_numeral`;
* `NameChars`, the name loop;
* `ShortComment`, a comment to the end of the line.

Each of these returns the record `[ls, tok, err]`. `err` is the message
`gafqX_lexerror` throws, or `"none"`. The lexer's helpers are translated as
written:
* `inclinenumber` is `LineEnd`, which skips `"\n\r"` and `"\r\n"` as one
  break.
* `buffreplace` is `BuffReplace`.
* `trydecpoint` is `TryDecPoint`, which re-reads the locale's decimal
  point and retries the conversion once.
* `read_numeral` and `gafqO_str2d` model the numeral's conversion. gobject.c
  is not in the repository, so `Str2d` is modelled from the spec: a
  decimal numeral with the locale's point, or `0x` hexadecimal.

`COMPAT_LSTR` selects how `read_long_string` treats a nested `[[`:
* 1 is the default: the nesting is accepted;
* 2 raises the error;
* 0 ignores it.

**State.** `lsrc` is the chunk and `locpt` the locale's decimal point.
`lx` is the `LexState` between calls. `tk` is `ls->t` and `ahead` is
`ls->lookahead`. `seen` lists the tokens `gafqX_next` has handed over, and
`lexerr` the error thrown, if any.

**Actions:**
* `LexInit` — `gafqX_setinput` on any chunk of `Sources`, in either locale.
* `XNextAhead` — `gafqX_next` with a pending look-ahead, which it
  discharges.
* `XNextLex` — `gafqX_next` without one: `glex` reads the token.
* `XLookahead` — `gafqX_lookahead` after the first token, when none is
  pending. This is the assertion at glex.c:533.
* `LexDone` — the parse has reached `TK_EOS` or an error.

**Reference definitions.** These are written from the language's rules,
not from the lexer's loops:
* `TokensFrom`, the tokens read one after the other without look-ahead;
* `LineBreaks`, where a line break is `\n`, `\r`, `\r\n` or `\n\r`;
* `LongValue`, the text of a long bracket;
* `Unescape`, the escapes of a quoted string;
* `Lexeme`, the source text of a token, from its span.

**Properties** (invariants of run `concat`):
* `LookaheadTransparent` — the tokens `gafqX_next` hands over are a prefix
  of `TokensFrom`, whenever the parser looks ahead.
* `LinesCounted` — `ls->linenumber` is one more than the line breaks before
  `ls->current`. This holds for breaks in code, comments, long strings and
  after a backslash in a quoted string.
* `StringsAsWritten` — a string token's value is `LongValue` or `Unescape`
  of its lexeme, and every character is a byte (0..255).
* `NumeralsAsWritten` — a number token is its lexeme with `.` replaced by
  the locale's point, and that text converts. "malformed number" is raised
  only for text that does not convert with `.`. Both hold in both
  locales, and after any earlier numeral has changed `ls->decpoint`.

**Harness and bounds.** `MC_GafqConcat` adds a variable `lexon`. A chunk
to lex is an initial state of its own, like a string call. The chunks are
the empty chunk, 22 pieces and every pair of pieces (507 chunks). The
pieces each reach one case:
* long strings: with a first newline, with `\r\n` inside, of level 1, with
  a nested `[[`, and unfinished;
* long comments: `--[[ ]]`, `--[=` and an unfinished `--[[`;
* quoted strings: an escaped newline, `\256`, `\1234`, and an unfinished
  string;
* numerals: `1.5`, `.5e+1`, `0x1f`, `1..` and `3e`;
* names, the reserved word `do`, the two-character operators, `...`, and
  bare `\n\r\n` and `\r`.

A pair joins two cases, for instance a numeral read in the `,` locale
after an earlier numeral, or a line break split between two pieces.

**Mutants:**
* `DecSaved_NoLimit` drops the `UCHAR_MAX` test. `\256` then saves 256, so
  `StringsAsWritten` fails.
* `XNextAhead_Keep` keeps the look-ahead. The parser then gets the token
  twice, so `LookaheadTransparent` fails.
* `LineEnd_AnyPair` skips a second break even when it equals the first.
  `"\n\n"` then counts as one line, so `LinesCounted` fails.
* `LongResult_Offset` cuts one character too few from the start of a long
  string. `StringsAsWritten` fails.
* `NumeralEnd_NoReplace` omits `buffreplace`. In the `,` locale the first
  conversion then fails and `trydecpoint` must run, and a later numeral
  reads with the stale `decpoint`. `NumeralsAsWritten` fails.

## Findings

**CallInfo restore off-by-one (run `depth_limit`, src/gdo.c:75).**
`restore_stack_limit` shrinks the CallInfo array back to `MAXCALLS` only if
`inuse + 1 < MAXCALLS`. TLC's counterexample takes 9 states:
1. An overflow is caught at depth 2, and `size_ci` is restored to 3 (= `MAXCALLS`).
2. A C function at depth 3 calls `gafq_pcall`.
3. The callee overflows again. The catch at depth 3 does not shrink the array,
   so `size_ci` stays at 6.
4. A fourth frame is pushed without any error.

From then on, calls run past `MAXCALLS`. The next overflow finds
`size_ci > MAXCALLS` and is escalated to `GAFQ_ERRERR` ("error in error
handling"), although no error is being handled. The spec says that exceeding
the limit raises a stack-overflow error, and that only a breach while
unwinding one is escalated. With the real constants, the same path needs a
pcall made from depth exactly 20000 after an earlier overflow has been
caught.

**A finished coroutine comes back to life (run `dead_coroutine_resumed`,
src/gbaselib.c:531).** `auxresume` checks `gafq_checkstack(L, nres + 1)`
after the coroutine's body has returned, but before it moves the results.
When the check fails ("too many results to resume"), the results stay on the
finished coroutine. That coroutine has status 0, `ci` at `base_ci` and a
non-empty stack, so `costatus` reports it suspended. A later resume calls the
last leftover result as a function. The spec (scenario C) says a returned
coroutine is dead.

**A coroutine that never ran is reported dead (run `resume_overflow_kills`,
src/gdo.c:426).** At `GAFQI_MAXCCALLS`, `resume_error` resets the
coroutine's top to its base. That drops the body function of a fresh
coroutine, and `auxresume` then moves the message out. The stack is left
empty, and `costatus` reports the coroutine dead.

**`table.sort` writes outside `1..#t` (run `sort_leaves_range`,
src/gtablib.c:227).** `auxsort` tests `i > u` only after reading `a[i]`, and
only when the comparator says `a[i] < P`. With a comparator that is not an
order, the scan reads `t[#t+1]` and passes nil to the function. When the
function returns false there, `set2(L, u-1, i)` moves an element to
`t[#t+1]` and nil into the range. The "invalid order function" error raised
later leaves the table with a hole.

TLC's example is `{1,1,1,1}` with a comparator that returns true only for
`1 < 1`. It ends with `t[2] = nil`, `t[5] = 1` and the error raised.

**A failing finalizer leaves open upvalues behind (run
`close_stale_upvalues`, src/gstate.c:209).** `gafq_close` runs the `__gc`
finalizers under `gafqD_rawrunprotected`. Unlike `gafqD_pcall` (gdo.c:473),
that function closes no upvalues when an error unwinds. TLC's counterexample
takes 5 states:
1. The program ends.
2. `gafq_close` starts.
3. A Gafq finalizer captures a register and then fails.

`L->openupval` then holds an upvalue at a slot above the reset `L->top`,
and no frame owns it. The next finalizer is called at the same slot, and
`gafqF_findupval` shares the leftover upvalue with it. The spec says an open
upvalue is closed once its enclosing frame returns. `close_state` closes the
upvalue at the end, so the harm is limited to finalizers seeing each other's
registers.

## Fairness and liveness

No liveness property is checked, and no `Spec` carries fairness. The one
temporal property beyond action properties is `AbsSpec` in the
`coroutines` run, which is a safety property: every step of the coroutine
model is a step or a stutter of the abstract status machine.

`gafq_close`'s finalizer loop would terminate only if each finalizer
returns. In the model, that rests on `GCTM`, which is written from the spec,
so a liveness check of it would say nothing about the code.

Fairness is given to nothing. The interpreter schedules nothing, so nothing
in the code makes these steps happen:
* a Gafq program or a C function may loop forever;
* a coroutine may never be resumed;
* a client may never release a reference.

Termination of error handling, of `MAXTAGLOOP` chains and of `auxsort` is
what the code does guarantee. It appears as safety: `RecursionBounded`, the
loop errors of `GafqMeta`, and `SortCorrect`'s "no error".

## Not modelled, and why

* **User hooks.** `debug.sethook`, line hooks and a hook that yields are
  not modelled; nor is `allowhook` inside such hooks. `GafqInterrupt` models
  only the `lstop` hook of the interpreter, and `hookmask` is 0 throughout
  `GafqCall`. The non-atomic field writes of `gafq_sethook` from signal
  context are not modelled either: the VM reads `hookmask` first and the
  count only when the mask is set, so no interleaving of those writes reads
  a mixed state that matters.
* **The collector.** `lgc.c` is not in the repository. The barriers and the
  `findupval` resurrection would have to be modelled from the spec alone.
  Only `gafq_close`'s finalizer loop is modelled (in `GafqCall`).
* **Stack values.** `GafqStack` tracks pointers and whether a slot was
  written, not what it holds: which value moves where is the API's data,
  and `GafqCall` and `GafqAuxBuffer` check the stack levels the libraries
  use. `gafqD_reallocCI` (the CallInfo array) is modelled in `GafqCall`;
  vararg functions (`adjust_varargs`) and `gafq_xmove` are not.
* **Other metamethods.** Arithmetic, comparison, `__eq`, `__concat`,
  `__call`, `__len` and `__gc` are not modelled. Nor are userdata metatables.
* **The rest of the string library.** This covers `str_format`,
  `string.rep`, `byte`, `char`, `upper`, `lower` and `dump`, plus `gsub`
  with a function or table replacement. Most are byte transformations; the
  replacement calls back into Gafq (`add_value`).
* **The rest of the io library.** `read_number` (fscanf), `g_write`,
  `f_seek`, `f_setvbuf`, `flush`, `io.type` and `tostring` pass values
  straight to stdio. Files in the model hold a letter and newlines, so an
  embedded zero byte, which `read_line` truncates at (giolib.c:304), is not
  represented.
* **The rest of the package library.** `findfile`'s walk over the path
  templates, `mkfuncname`, `setpath` and `package.seeall` manipulate
  strings; the model takes each loader's outcome as given. A failure after
  `module()` leaves the module's table in `package.loaded`; this is
  documented behaviour, so no property states otherwise.
* **Other library functions.** This covers `table.concat`, `maxn`,
  `foreach`, the os, math and debug libraries, and dump/undump/zio. They are text and byte
  transformations, or thin wrappers around the C API.
