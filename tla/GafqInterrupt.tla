---------------------------- MODULE GafqInterrupt ----------------------------
(***************************************************************************)
(* Ctrl-C in the stand-alone interpreter (gafq.c), composed with the       *)
(* coroutine model.  docall installs laction for SIGINT around the         *)
(* gafq_pcall that runs a chunk and puts SIG_DFL back after it.  laction   *)
(* resets SIGINT to SIG_DFL (a second Ctrl-C kills the process) and sets   *)
(* the hook of globalL, the main thread, to lstop with a count of 1        *)
(* (gafq_sethook, gdebug.c, which is meant to be called asynchronously).   *)
(* The next instruction, call or return the hooked thread executes calls   *)
(* the hook (gafqD_callhook with allowhook set), and lstop clears the hook *)
(* and raises "interrupted!" in that thread.                               *)
(*                                                                         *)
(* Hooks belong to a thread (L->hook): a coroutine running when the signal *)
(* comes is not hooked and goes on; the hooked main thread answers only    *)
(* when control is back in it.  While the running thread is hooked its     *)
(* code takes no step but the hook; the C continuation of a resume         *)
(* (auxresume after gafq_resume returned) runs no checked instruction and  *)
(* may go on.                                                              *)
(***************************************************************************)
EXTENDS GafqCoroutine

CONSTANTS
  NCHUNKS,   \* docall calls made: -e, -l, the script, lines typed (model bound)
  NSIGS      \* SIGINTs laction handles (model bound)

ASSUME NCHUNKS \in Nat \ {0} /\ NSIGS \in Nat

VARIABLES
  handler,   \* disposition of SIGINT: "dfl" (SIG_DFL) or "laction"
  hooked,    \* threads whose L->hook is lstop
  phase,     \* main (gafq.c): "setup" before a docall, "chunk" from its
             \* signal(SIGINT, laction) to its signal(SIGINT, SIG_DFL),
             \* "exit" after the last one, "killed" by SIG_DFL
  chunks,    \* docall calls finished
  handled,   \* SIGINTs laction has handled
  nint       \* "interrupted!" errors lstop has raised

ivars == <<handler, hooked, phase, chunks, handled, nint>>
allvars == <<vars, ivars>>

\* The running thread has lstop armed: its next checked instruction calls it.
HookDue == Running /\ L \in hooked

-----------------------------------------------------------------------------
(* Signals, delivered between any two steps of the interpreter.            *)

\* laction: signal(i, SIG_DFL), then gafq_sethook(globalL, lstop,
\* CALL | RET | COUNT, 1).
SignalHandled ==
  /\ phase \in {"setup", "chunk"}
  /\ handler = "laction"
  /\ handled < NSIGS
  /\ handler' = "dfl"
  /\ hooked' = hooked \cup {Main}
  /\ handled' = handled + 1
  /\ UNCHANGED <<vars, phase, chunks, nint>>

\* Under SIG_DFL a SIGINT terminates the process.
SignalKills ==
  /\ phase \in {"setup", "chunk"}
  /\ handler = "dfl"
  /\ phase' = "killed"
  /\ UNCHANGED <<vars, handler, hooked, chunks, handled, nint>>

-----------------------------------------------------------------------------
(* docall (gafq.c) and the chunk it runs.                                  *)

\* signal(SIGINT, laction), then gafq_pcall starts the chunk on the main
\* thread: pmain's and docall's C levels below it, no boundary entered.
StartChunk ==
  /\ phase = "setup"
  /\ handler' = "laction"
  /\ phase' = "chunk"
  /\ chain' = <<[th |-> Main, mode |-> "main"]>>
  /\ nCcalls' = [nCcalls EXCEPT ![Main] = MAIN_CCALLS]
  /\ cb' = [cb EXCEPT ![Main] = <<>>]
  /\ UNCHANGED <<created, status, frames, vals, baseCcalls, ret,
                 hooked, chunks, handled, nint>>

\* lstop: gafq_sethook(L, NULL, 0, 0), then gafqL_error(L, "interrupted!"),
\* which unwinds like any runtime error of L.
Interrupt ==
  /\ phase = "chunk"
  /\ HookDue
  /\ hooked' = hooked \ {L}
  /\ nint' = nint + 1
  /\ Throw(nCcalls[L], vals)
  /\ UNCHANGED <<handler, phase, chunks, handled>>

\* A step of the code (GafqCoroutine) while no hook is due.  The running
\* thread is not hooked, so a thread coroutine.create makes here copies no
\* hook from it (gafqE_newthread).
Code(A) == phase = "chunk" /\ ~HookDue /\ A /\ UNCHANGED ivars

\* laction runs while the main thread is inside gafqB_cocreate, after the
\* call hook and before gafq_newthread: gafqE_newthread then copies
\* hookmask, basehookcount and hook, so the new thread co is hooked with
\* lstop as well, and the main thread's return hook is the next one due.
SignalDuringCreate ==
  /\ phase = "chunk"
  /\ handler = "laction"
  /\ handled < NSIGS
  /\ Running
  /\ L = Main
  /\ Main \notin hooked
  /\ handler' = "dfl"
  /\ handled' = handled + 1
  /\ \E co \in Coroutines \ created :
       /\ CreateThread(co)
       /\ hooked' = hooked \cup {Main, co}
  /\ UNCHANGED <<phase, chunks, nint>>

\* gafq_pcall has returned (chain empty); signal(SIGINT, SIG_DFL).  The
\* interpreter goes on with the next docall, or has no more to run: an error
\* ends -e, -l and the script, dotty reads lines until end of input.  No hook
\* is cleared.
EndChunk ==
  /\ phase = "chunk"
  /\ chain = <<>>
  /\ handler' = "dfl"
  /\ chunks' = chunks + 1
  /\ \E more \in BOOLEAN :
       phase' = IF more /\ chunks + 1 < NCHUNKS THEN "setup" ELSE "exit"
  /\ UNCHANGED <<vars, hooked, handled, nint>>

\* The interpreter has exited or was killed.
Stopped == phase \in {"exit", "killed"} /\ UNCHANGED allvars

-----------------------------------------------------------------------------
\* gafq_open and pmain: no chunk runs yet and SIGINT has its default action;
\* the threads are as GafqCoroutine's Init leaves them, the chain empty.
IInit ==
  /\ created = {}
  /\ status = [t \in Threads |-> "ok"]
  /\ frames = [t \in Threads |-> t = Main]
  /\ vals = [t \in Threads |-> 0]
  /\ nCcalls = [t \in Threads |-> IF t = Main THEN MAIN_CCALLS ELSE 0]
  /\ baseCcalls = [t \in Threads |-> 0]
  /\ cb = [t \in Threads |-> <<>>]
  /\ chain = <<>>
  /\ ret = NoRet
  /\ handler = "dfl"
  /\ hooked = {}
  /\ phase = "setup"
  /\ chunks = 0
  /\ handled = 0
  /\ nint = 0

INext ==
  \/ SignalHandled \/ SignalKills
  \/ StartChunk \/ Interrupt \/ EndChunk \/ SignalDuringCreate
  \/ Code(RuntimeError) \/ Code(EnterBoundary) \/ Code(EnterBoundaryOverflow)
  \/ Code(LeaveBoundary) \/ Code(Create)
  \/ Code(ResumeArgsOverflow) \/ Code(ResumeNotSuspended)
  \/ Code(ResumeCStackOverflow) \/ Code(Resume)
  \/ Code(YieldAcrossBoundary) \/ Code(Yield) \/ Code(Return)
  \/ Code(AuxResumeResults) \/ Code(AuxResumeError)
  \/ Stopped

ISpec == IInit /\ [][INext]_allvars
-----------------------------------------------------------------------------
(* Properties.                                                             *)

InterruptTypeOK ==
  /\ TypeOK
  /\ handler \in {"dfl", "laction"}
  /\ hooked \subseteq Threads
  /\ phase \in {"setup", "chunk", "exit", "killed"}
  /\ chunks \in 0..NCHUNKS
  /\ handled \in 0..NSIGS
  /\ nint \in Nat

=============================================================================
