---------------------------- MODULE GafqCoroutine ----------------------------
(***************************************************************************)
(* Coroutines: gafq_resume / gafq_yield (gdo.c) and the coroutine library  *)
(* (gbaselib.c: create, resume, wrap, yield, status).  Threads share one   *)
(* global state and run one at a time: chain holds the threads that are    *)
(* inside gafq_resume, outermost (the main thread) first, and the last one *)
(* is the running thread L, the only one that takes steps.                 *)
(*                                                                         *)
(* Per thread the model keeps what costatus and the resume checks read:    *)
(* L->status, whether L->ci is above base_ci, the number of values above   *)
(* L->base (gafq_gettop), nCcalls and baseCcalls, and the C-call           *)
(* boundaries the running code has entered (gafqD_call from a metamethod   *)
(* or C function, or a gafq_pcall that catches errors).  When gafq_resume  *)
(* returns, ret holds its outcome until auxresume, still in the resumer,   *)
(* moves the values across.                                                *)
(***************************************************************************)
EXTENDS Integers, Sequences, SequencesExt

CONSTANTS
  Main,         \* the main thread (gafq_open)
  Coroutines,   \* threads coroutine.create may return
  MAXCCALLS,    \* GAFQI_MAXCCALLS
  MAXCSTACK,    \* GAFQI_MAXCSTACK: the limit gafq_checkstack enforces
  MAXVALS,      \* most values passed to resume, yield or return (model bound)
  BOUNDARIES    \* most C-call boundaries entered in one thread (model bound)

ASSUME /\ Main \notin Coroutines
       /\ MAXCCALLS \in Nat \ {0}
       /\ MAXCSTACK \in Nat /\ MAXVALS \in Nat /\ BOUNDARIES \in Nat

Threads == {Main} \cup Coroutines

\* gafq.c: the main chunk runs inside gafq_cpcall(pmain) and docall's gafq_pcall.
MAIN_CCALLS == 2

VARIABLES
  created,     \* coroutines created so far
  status,      \* L->status: "ok" (0), "yield" (GAFQ_YIELD) or "err" (an error code)
  frames,      \* L->ci > L->base_ci
  vals,        \* L->top - L->base of a thread that is not running
  nCcalls,     \* L->nCcalls
  baseCcalls,  \* L->baseCcalls
  cb,          \* C-call boundaries entered by the running code of each thread
  chain,       \* Seq of [th, mode]: threads inside gafq_resume, Main first
  ret          \* outcome of the last gafq_resume, not yet consumed by auxresume

vars == <<created, status, frames, vals, nCcalls, baseCcalls, cb, chain, ret>>

NoRet == [st |-> "none", co |-> Main, n |-> 0, mode |-> "main"]
Modes == {"resume", "wrap"}   \* coroutine.resume or a function made by coroutine.wrap

L == Last(chain).th

\* Fault variant: costatus without the gafq_getstack test, so a thread that
\* resumed another is told apart from a dead one only by its stack height.
CoStatus_NoFrames(from, co) ==
  IF from = co THEN "running"
  ELSE CASE status[co] = "yield" -> "suspended"
         [] status[co] = "ok"    -> IF vals[co] = 0 THEN "dead" ELSE "suspended"
         [] OTHER                -> "dead"

\* costatus (gbaselib.c): what coroutine.status(co) reports when called in L.
CoStatus(from, co) ==
  IF from = co THEN "running"
  ELSE CASE status[co] = "yield" -> "suspended"
         [] status[co] = "ok"    -> IF frames[co] THEN "normal"
                                    ELSE IF vals[co] = 0 THEN "dead"
                                    ELSE "suspended"
         [] OTHER                -> "dead"

-----------------------------------------------------------------------------
(* Errors.  An error in L unwinds to the innermost gafq_pcall of L; with   *)
(* none, a coroutine dies (gafq_resume's gafqD_rawrunprotected returns the *)
(* error) and the main program ends (gafq.c reports the error).  nc is     *)
(* L->nCcalls at the throw, v the stack heights the step leaves; any       *)
(* outcome of a gafq_resume that L was handling has been consumed.         *)

\* gafqD_pcall catches: cut the boundaries and restore the nCcalls it saved.
ThrowCaught(nc, v) ==
  LET p == SelectLastInSeq(cb[L], LAMBDA e : e.k = "pcall")
  IN  /\ p > 0
      /\ cb' = [cb EXCEPT ![L] = SubSeq(cb[L], 1, p - 1)]
      /\ nCcalls' = [nCcalls EXCEPT ![L] = cb[L][p].saved]
      /\ vals' = v
      /\ ret' = NoRet
      /\ UNCHANGED <<created, status, frames, baseCcalls, chain>>

\* Fault variant: gafq_resume does not record the error status of the thread.
ThrowKills_KeepStatus(nc, v) ==
  /\ ~\E i \in 1..Len(cb[L]) : cb[L][i].k = "pcall"
  /\ L # Main
  /\ vals' = [v EXCEPT ![L] = 1]
  /\ nCcalls' = [nCcalls EXCEPT ![L] = nc - 1]
  /\ cb' = [cb EXCEPT ![L] = <<>>]
  /\ chain' = Front(chain)
  /\ ret' = [st |-> "err", co |-> L, n |-> 1, mode |-> Last(chain).mode]
  /\ UNCHANGED <<created, status, frames, baseCcalls>>

\* gafq_resume: mark the coroutine dead, put the error object on its stack,
\* decrement nCcalls and return the error code to auxresume.
ThrowKills(nc, v) ==
  /\ ~\E i \in 1..Len(cb[L]) : cb[L][i].k = "pcall"
  /\ L # Main
  /\ status' = [status EXCEPT ![L] = "err"]
  /\ vals' = [v EXCEPT ![L] = 1]
  /\ nCcalls' = [nCcalls EXCEPT ![L] = nc - 1]
  /\ cb' = [cb EXCEPT ![L] = <<>>]
  /\ chain' = Front(chain)
  /\ ret' = [st |-> "err", co |-> L, n |-> 1, mode |-> Last(chain).mode]
  /\ UNCHANGED <<created, frames, baseCcalls>>

\* The main chunk fails: docall reports the error and the interpreter stops.
ThrowEndsMain(nc, v) ==
  /\ ~\E i \in 1..Len(cb[L]) : cb[L][i].k = "pcall"
  /\ L = Main
  /\ chain' = <<>>
  /\ vals' = v
  /\ ret' = NoRet
  /\ UNCHANGED <<created, status, frames, nCcalls, baseCcalls, cb>>

Throw(nc, v) == ThrowCaught(nc, v) \/ ThrowKills(nc, v) \/ ThrowEndsMain(nc, v)

-----------------------------------------------------------------------------
(* Steps of the running thread.                                            *)

Running == chain # <<>> /\ ret.st = "none"

\* Any runtime error raised by the code L runs (gafqG_runerror, error()).
RuntimeError == Running /\ Throw(nCcalls[L], vals)

\* gafqD_call from a metamethod or C function, or gafq_pcall (which saves
\* nCcalls before its gafqD_call increments it).
EnterBoundary ==
  \E k \in {"pcall", "ccall"} :
    LET n == nCcalls[L] + 1 IN
    /\ Running
    /\ Len(cb[L]) < BOUNDARIES
    /\ ~(n = MAXCCALLS \/ n >= MAXCCALLS + MAXCCALLS \div 8)
    /\ cb' = [cb EXCEPT ![L] = Append(@, [k |-> k, saved |-> nCcalls[L]])]
    /\ nCcalls' = [nCcalls EXCEPT ![L] = n]
    /\ UNCHANGED <<created, status, frames, vals, baseCcalls, chain, ret>>

\* gafqD_call at the limit: "C stack overflow", or GAFQ_ERRERR past it.
EnterBoundaryOverflow ==
  LET n == nCcalls[L] + 1 IN
  /\ Running
  /\ Len(cb[L]) < BOUNDARIES
  /\ n = MAXCCALLS \/ n >= MAXCCALLS + MAXCCALLS \div 8
  /\ Throw(n, vals)

\* Fault variant: the count is decremented whether or not a boundary is left.
LeaveBoundary_Unguarded ==
  /\ Running
  /\ cb' = [cb EXCEPT ![L] = Front(@)]
  /\ nCcalls' = [nCcalls EXCEPT ![L] = @ - 1]
  /\ UNCHANGED <<created, status, frames, vals, baseCcalls, chain, ret>>

\* The call made at the innermost boundary returns normally.
LeaveBoundary ==
  /\ Running
  /\ cb[L] # <<>>
  /\ cb' = [cb EXCEPT ![L] = Front(@)]
  /\ nCcalls' = [nCcalls EXCEPT ![L] = @ - 1]
  /\ UNCHANGED <<created, status, frames, vals, baseCcalls, chain, ret>>

\* coroutine.create: gafq_newthread, then the Gafq function is moved onto
\* the new thread's stack (a fresh thread is stack_init'ed with status 0).
CreateThread(co) ==
  /\ Running
  /\ created' = created \cup {co}
  /\ vals' = [vals EXCEPT ![co] = 1]
  /\ UNCHANGED <<status, frames, nCcalls, baseCcalls, cb, chain, ret>>

Create == \E co \in Coroutines \ created : CreateThread(co)

-----------------------------------------------------------------------------
(* auxresume (gbaselib.c) and gafq_resume (gdo.c), called by L on co with  *)
(* narg arguments; mode says whether coroutine.resume or a wrap function   *)
(* called it.  A failed resume makes coroutine.resume return false and a   *)
(* wrap function raise the error in L.                                     *)

\* gafq_checkstack(co, narg) fails: "too many arguments to resume".
ResumeArgsOverflow ==
  \E co \in created, narg \in 0..MAXVALS :
    /\ Running
    /\ vals[co] + narg > MAXCSTACK
    /\ Throw(nCcalls[L], vals)

\* costatus is not "suspended": "cannot resume <status> coroutine".
\* coroutine.resume just returns false and the message; a wrap function raises it.
ResumeNotSuspended ==
  \E co \in created, narg \in 0..MAXVALS :
    /\ Running
    /\ vals[co] + narg <= MAXCSTACK
    /\ CoStatus(L, co) # "suspended"
    /\ Throw(nCcalls[L], vals)

\* The arguments are moved and gafq_setlevel copies L's nCcalls, which is
\* already at the limit: resume_error resets co's top to its base and leaves
\* "C stack overflow" there as the only value; gafq_resume returns GAFQ_ERRRUN.
ResumeCStackOverflow ==
  \E co \in created, narg \in 0..MAXVALS, mode \in Modes :
    /\ Running
    /\ vals[co] + narg <= MAXCSTACK
    /\ CoStatus(L, co) = "suspended"
    /\ nCcalls[L] >= MAXCCALLS
    /\ vals' = [vals EXCEPT ![co] = 1]
    /\ nCcalls' = [nCcalls EXCEPT ![co] = nCcalls[L]]
    /\ ret' = [st |-> "err", co |-> co, n |-> 1, mode |-> mode]
    /\ UNCHANGED <<created, status, frames, baseCcalls, cb, chain>>

\* Fault variant: auxresume without gafq_setlevel, so co counts from its own
\* stale nCcalls.
Resume_NoSetLevel ==
  \E co \in created, narg \in 0..MAXVALS, mode \in Modes :
    /\ Running
    /\ vals[co] + narg <= MAXCSTACK
    /\ CoStatus(L, co) = "suspended"
    /\ nCcalls[co] < MAXCCALLS
    /\ status' = [status EXCEPT ![co] = "ok"]
    /\ frames' = [frames EXCEPT ![co] = TRUE]
    /\ nCcalls' = [nCcalls EXCEPT ![co] = nCcalls[co] + 1]
    /\ baseCcalls' = [baseCcalls EXCEPT ![co] = nCcalls[co] + 1]
    /\ cb' = [cb EXCEPT ![co] = <<>>]
    /\ chain' = Append(chain, [th |-> co, mode |-> mode])
    /\ UNCHANGED <<created, vals, ret>>

\* The resume goes through: baseCcalls = ++nCcalls, and co runs, either from
\* the function below the arguments (status 0) or from its yield (GAFQ_YIELD).
Resume ==
  \E co \in created, narg \in 0..MAXVALS, mode \in Modes :
    /\ Running
    /\ vals[co] + narg <= MAXCSTACK
    /\ CoStatus(L, co) = "suspended"
    /\ nCcalls[L] < MAXCCALLS
    /\ status' = [status EXCEPT ![co] = "ok"]
    /\ frames' = [frames EXCEPT ![co] = TRUE]
    /\ nCcalls' = [nCcalls EXCEPT ![co] = nCcalls[L] + 1]
    /\ baseCcalls' = [baseCcalls EXCEPT ![co] = nCcalls[L] + 1]
    /\ cb' = [cb EXCEPT ![co] = <<>>]
    /\ chain' = Append(chain, [th |-> co, mode |-> mode])
    /\ UNCHANGED <<created, vals, ret>>

\* gafq_yield (coroutine.yield with n values): refused when a C-call boundary
\* lies between the resume and the yield.
YieldAcrossBoundary ==
  /\ Running
  /\ nCcalls[L] > baseCcalls[L]
  /\ Throw(nCcalls[L], vals)

\* L->base = L->top - n, status GAFQ_YIELD; execution unwinds to gafq_resume,
\* which decrements nCcalls and returns GAFQ_YIELD.
Yield ==
  \E n \in 0..MAXVALS :
    /\ Running
    /\ nCcalls[L] <= baseCcalls[L]
    /\ status' = [status EXCEPT ![L] = "yield"]
    /\ vals' = [vals EXCEPT ![L] = n]
    /\ nCcalls' = [nCcalls EXCEPT ![L] = @ - 1]
    /\ chain' = Front(chain)
    /\ ret' = [st |-> "yield", co |-> L, n |-> n, mode |-> Last(chain).mode]
    /\ UNCHANGED <<created, frames, baseCcalls, cb>>

\* The body of a coroutine returns n values: gafqD_poscall leaves L->ci at
\* base_ci and gafq_resume returns 0.  The main chunk returning ends the program.
Return ==
  \E n \in 0..MAXVALS :
    /\ Running
    /\ cb[L] = <<>>
    /\ IF L = Main
       THEN /\ chain' = <<>>
            /\ UNCHANGED <<status, frames, vals, nCcalls, ret>>
       ELSE /\ frames' = [frames EXCEPT ![L] = FALSE]
            /\ vals' = [vals EXCEPT ![L] = n]
            /\ nCcalls' = [nCcalls EXCEPT ![L] = @ - 1]
            /\ chain' = Front(chain)
            /\ ret' = [st |-> "ok", co |-> L, n |-> n, mode |-> Last(chain).mode]
            /\ UNCHANGED status
    /\ UNCHANGED <<created, baseCcalls, cb>>

\* Back in auxresume after a yield or a return: gafq_checkstack(L, nres + 1)
\* fails ("too many results to resume") and the values stay on co; or they
\* are moved to L.  coroutine.resume keeps the coroutine on L's stack.
AuxResumeResults ==
  LET nres  == ret.n
      extra == IF ret.mode = "resume" THEN 1 ELSE 0
  IN  /\ chain # <<>>
      /\ ret.st \in {"yield", "ok"}
      /\ IF extra + nres + 1 > MAXCSTACK
         THEN Throw(nCcalls[L], vals)
         ELSE /\ vals' = [vals EXCEPT ![ret.co] = 0]
              /\ ret' = NoRet
              /\ UNCHANGED <<created, status, frames, nCcalls, baseCcalls, cb, chain>>
\* Back in auxresume after an error: the error object is moved to L;
\* coroutine.resume returns false and it, a wrap function raises it in L.
AuxResumeError ==
  LET v == [vals EXCEPT ![ret.co] = 0] IN
  /\ chain # <<>>
  /\ ret.st = "err"
  /\ IF ret.mode = "wrap"
     THEN Throw(nCcalls[L], v)
     ELSE /\ vals' = v
          /\ ret' = NoRet
          /\ UNCHANGED <<created, status, frames, nCcalls, baseCcalls, cb, chain>>

\* The interpreter has stopped.
Terminated == chain = <<>> /\ UNCHANGED vars

-----------------------------------------------------------------------------
\* gafq_open: the main thread runs the main chunk; no coroutine exists yet.
Init ==
  /\ created = {}
  /\ status = [t \in Threads |-> "ok"]
  /\ frames = [t \in Threads |-> t = Main]
  /\ vals = [t \in Threads |-> 0]
  /\ nCcalls = [t \in Threads |-> IF t = Main THEN MAIN_CCALLS ELSE 0]
  /\ baseCcalls = [t \in Threads |-> 0]
  /\ cb = [t \in Threads |-> <<>>]
  /\ chain = <<[th |-> Main, mode |-> "main"]>>
  /\ ret = NoRet

Next ==
  \/ RuntimeError \/ EnterBoundary \/ EnterBoundaryOverflow \/ LeaveBoundary
  \/ Create
  \/ ResumeArgsOverflow \/ ResumeNotSuspended \/ ResumeCStackOverflow \/ Resume
  \/ YieldAcrossBoundary \/ Yield \/ Return
  \/ AuxResumeResults \/ AuxResumeError
  \/ Terminated

Spec == Init /\ [][Next]_vars
-----------------------------------------------------------------------------
(* Properties.                                                             *)

TypeOK ==
  /\ created \subseteq Coroutines
  /\ status \in [Threads -> {"ok", "yield", "err"}]
  /\ frames \in [Threads -> BOOLEAN]
  /\ vals \in [Threads -> Nat]
  /\ nCcalls \in [Threads -> Nat]
  /\ baseCcalls \in [Threads -> Nat]
  /\ cb \in [Threads -> Seq([k : {"pcall", "ccall"}, saved : Nat])]
  /\ chain \in Seq([th : Threads, mode : Modes \cup {"main"}])
  /\ ret \in [st : {"none", "ok", "yield", "err"}, co : Threads,
              n : Nat, mode : Modes \cup {"main"}]

InChain(t) == \E i \in 1..Len(chain) : chain[i].th = t

\* costatus tells the threads inside a pending gafq_resume ("normal") from
\* suspended and dead ones only through L->status and L->ci: every thread in
\* the resume chain below the running one, and no other, is reported normal,
\* and no thread is in the chain twice (auxresume refuses to resume a thread
\* that is running or normal).
ResumeChainStatus ==
  chain # <<>> =>
    /\ \A i, j \in 1..Len(chain) : chain[i].th = chain[j].th => i = j
    /\ \A t \in created :
         CoStatus(L, t) = "normal" <=> (InChain(t) /\ t # L)

\* nCcalls counts the C levels of every thread in the chain: a resumed
\* thread starts one above its resumer's count at the resume (gafq_setlevel
\* and ++nCcalls), each boundary a thread enters adds one, and each
\* gafq_pcall has saved the count it restores when it catches an error.
CCallsNest ==
  /\ \A i \in 2..Len(chain) :
       baseCcalls[chain[i].th] = nCcalls[chain[i - 1].th] + 1
  /\ \A i \in 1..Len(chain) :
       LET t     == chain[i].th
           start == IF t = Main THEN MAIN_CCALLS ELSE baseCcalls[t]
       IN  /\ nCcalls[t] = start + Len(cb[t])
           /\ \A j \in 1..Len(cb[t]) : cb[t][j].saved = start + j - 1

-----------------------------------------------------------------------------
(* Refinement of CoroutineStatus: coroutine.status as the running thread   *)
(* sees it, a coroutine that has returned counting as dead once auxresume  *)
(* has its results, and the resumed coroutines below the main thread.      *)

Viewer == IF chain = <<>> THEN Main ELSE L

AbsSt ==
  [c \in Coroutines |->
     IF c \notin created THEN "none"
     ELSE IF ret.st = "ok" /\ ret.co = c THEN "dead"
     ELSE CoStatus(Viewer, c)]

AbsResumed ==
  IF chain = <<>> THEN <<>> ELSE [i \in 1..Len(chain) - 1 |-> chain[i + 1].th]

Abs == INSTANCE CoroutineStatus WITH st <- AbsSt, resumed <- AbsResumed

\* The coroutine library implements the status machine of the manual:
\* created suspended, resumed only when suspended, suspended again by a
\* yield, dead by a return or an error, and control back to the resumer.
AbsSpec == Abs!Spec

\* A dead coroutine stays dead: the values a finished body returned never
\* make coroutine.status report it suspended again (gbaselib.c costatus).
DeadIsFinal ==
  [][\A c \in Coroutines : AbsSt[c] = "dead" => AbsSt'[c] = "dead"]_vars

\* Only a running coroutine dies: a suspended coroutine that a resume could
\* not start (gafq_resume's resume_error) is still suspended afterwards.
OnlyRunningDies ==
  [][\A c \in Coroutines :
       AbsSt[c] # "dead" /\ AbsSt'[c] = "dead" => AbsSt[c] = "running"]_vars
=============================================================================
