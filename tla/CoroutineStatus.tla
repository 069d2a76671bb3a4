--------------------------- MODULE CoroutineStatus ---------------------------
(***************************************************************************)
(* What the coroutine library promises (coroutine.status, resume, yield):  *)
(* a coroutine is created suspended; resume runs a suspended coroutine and *)
(* makes the one that resumed it normal; when the running coroutine yields *)
(* it is suspended again, when its body returns or raises an error it is   *)
(* dead, and in both cases the coroutine that resumed it runs again.  A    *)
(* dead coroutine stays dead.  The main thread is not a coroutine: when    *)
(* resumed is empty, the main thread is the one running.                   *)
(***************************************************************************)
EXTENDS Sequences, SequencesExt

CONSTANT Coroutines

VARIABLES
  st,       \* what coroutine.status reports for each coroutine ("none": not created)
  resumed   \* the coroutines currently resumed, outermost first

vars == <<st, resumed>>

Statuses == {"none", "suspended", "running", "normal", "dead"}

TypeOK ==
  /\ st \in [Coroutines -> Statuses]
  /\ resumed \in Seq(Coroutines)

Init ==
  /\ st = [c \in Coroutines |-> "none"]
  /\ resumed = <<>>

Create(c) ==
  /\ st[c] = "none"
  /\ st' = [st EXCEPT ![c] = "suspended"]
  /\ UNCHANGED resumed

\* The running coroutine, if any, becomes normal.
Resume(c) ==
  /\ st[c] = "suspended"
  /\ resumed' = Append(resumed, c)
  /\ st' = [d \in Coroutines |->
              IF d = c THEN "running"
              ELSE IF resumed # <<>> /\ d = Last(resumed) THEN "normal"
              ELSE st[d]]

\* The running coroutine stops as suspended (yield) or dead; its resumer runs.
Leave(to) ==
  /\ resumed # <<>>
  /\ resumed' = Front(resumed)
  /\ st' = [d \in Coroutines |->
              IF d = Last(resumed) THEN to
              ELSE IF resumed' # <<>> /\ d = Last(resumed') THEN "running"
              ELSE st[d]]

Next ==
  \/ \E c \in Coroutines : Create(c) \/ Resume(c)
  \/ Leave("suspended")
  \/ Leave("dead")

Spec == Init /\ [][Next]_vars

\* The statuses agree with the resume chain: the innermost resumed coroutine
\* is the running one, the others are normal, and no coroutine is resumed twice.
ChainConsistent ==
  /\ IsInjective(resumed)
  /\ \A c \in Coroutines :
       /\ st[c] = "running" <=> (resumed # <<>> /\ c = Last(resumed))
       /\ st[c] = "normal" <=> c \in ToSet(Front(resumed))
=============================================================================
