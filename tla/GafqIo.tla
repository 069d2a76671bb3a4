-------------------------------- MODULE GafqIo --------------------------------
(***************************************************************************)
(* File handles of the io library (giolib.c).  A handle is a userdata      *)
(* holding a FILE * (NULL once closed) whose environment names the         *)
(* function that closes it (__close): io_noclose for stdin, stdout and     *)
(* stderr, io_pclose for io.popen, io_fclose for every other handle.       *)
(* newfile takes the environment of the C function that creates the        *)
(* handle (gafq_newuserdata, getcurrenv), so io.popen has an environment   *)
(* of its own.  The script creates, passes, closes and drops handles; the  *)
(* collector finalizes the unreachable ones (io_gc), and gafq_close        *)
(* finalizes all of them.                                                  *)
(*                                                                         *)
(* A FILE is identified by the handle it is stored in; how[h] says where   *)
(* it came from and closedwith[h] lists the OS close calls made on it.     *)
(* Reading and writing change no modelled state; what a read returns is    *)
(* the operator GRead below.                                               *)
(***************************************************************************)
EXTENDS Naturals, Sequences, FiniteSetsExt, Functions

CONSTANTS
  MAXH,       \* handles created, the three standard ones included (model bound)
  BUFFERSIZE  \* GAFQL_BUFFERSIZE, the chunk fgets and fread are given

ASSUME MAXH \in Nat /\ MAXH >= 3 /\ BUFFERSIZE \in Nat /\ BUFFERSIZE >= 2

IO_INPUT == 1
IO_OUTPUT == 2
StdHandles == {1, 2, 3}   \* io.stdin, io.stdout, io.stderr
Handles == 1..MAXH

\* The close function of a FILE of each origin.
CloseOf == [fopen |-> "fclose", tmpfile |-> "fclose", popen |-> "pclose"]

VARIABLES
  nh,          \* handles created so far: 1..nh
  fp,          \* fp[h]: the handle's FILE * is not NULL
  how,         \* how[h]: "none", "std", "fopen", "popen" or "tmpfile"
  cls,         \* cls[h]: __close of the handle's environment
  closedwith,  \* closedwith[h]: the OS close calls made on h's FILE
  dflt,        \* dflt[IO_INPUT], dflt[IO_OUTPUT]: the default files
  held,        \* handles the script holds
  iters,       \* lines iterators the script holds: [h, toclose]
  fin,         \* handles the collector has finalized (io_gc called)
  iophase      \* "run", "closing" (in gafq_close), "closed"

iovars == <<nh, fp, how, cls, closedwith, dflt, held, iters, fin,
            iophase>>

\* The handles a script can name: the ones it holds, io.stdin, io.stdout,
\* io.stderr, and the defaults io.input() and io.output() return.
ScriptHandles == held \cup StdHandles \cup Range(dflt)

\* The handles the collector cannot free: lines iterators keep theirs as
\* an upvalue.
Reachable(h) == h \in ScriptHandles \cup {it.h : it \in iters}

\* The OS has h's FILE open.
OsOpen(h) == how[h] # "none" /\ closedwith[h] = <<>>

-----------------------------------------------------------------------------
(* Helpers.                                                                *)

\* Fault variant: the standard files' __close closes the FILE as well.
AuxClose_NoStd(h) ==
  /\ fp' = [fp EXCEPT ![h] = FALSE]
  /\ closedwith' = [closedwith EXCEPT ![h] = Append(@, cls[h])]

\* aux_close: call __close of the handle's environment.  io_noclose
\* returns nil, "cannot close standard file"; io_fclose and io_pclose close
\* the FILE and set the handle's pointer to NULL.
AuxClose(h) ==
  IF cls[h] = "noclose"
  THEN UNCHANGED <<fp, closedwith>>
  ELSE /\ fp' = [fp EXCEPT ![h] = FALSE]
       /\ closedwith' = [closedwith EXCEPT ![h] = Append(@, cls[h])]

\* newfile creates handle nh + 1 closed (*pf = NULL) with environment env,
\* then the caller stores what src (fopen, popen, tmpfile) returned; ok is
\* whether that was a FILE.
NewFile(env, src, ok) ==
  LET h == nh + 1 IN
  /\ nh < MAXH
  /\ nh' = h
  /\ cls' = [cls EXCEPT ![h] = env]
  /\ fp' = [fp EXCEPT ![h] = ok]
  /\ how' = [how EXCEPT ![h] = IF ok THEN src ELSE "none"]

Running == iophase = "run"

-----------------------------------------------------------------------------
(* The library functions.                                                  *)

\* newfile in a function whose environment has __close env, then src;
\* a failure returns nil, message, errno and the closed handle is garbage.
OpenIn(env, src) ==
  /\ Running
  /\ \E ok \in BOOLEAN :
       /\ NewFile(env, src, ok)
       /\ held' = IF ok THEN held \cup {nh + 1} ELSE held
  /\ UNCHANGED <<closedwith, dflt, iters, fin, iophase>>

\* io.open and io.tmpfile, in the library's environment (io_fclose).
Open(src) == OpenIn("fclose", src)

IoOpen == Open("fopen")

IoTmpfile == Open("tmpfile")

\* Fault variant of io.popen: registered without an environment of its
\* own, so it creates handles with the library's, whose __close is fclose.
IoPopen_SharedEnv == OpenIn("fclose", "popen")

\* io.popen, in the environment gafqopen_io gave it (io_pclose).
IoPopen == OpenIn("pclose", "popen")

\* io.close(h), h:close() and io.close() (the default output): tofile
\* raises "attempt to use a closed file" on a closed handle, otherwise
\* aux_close.
IoClose ==
  /\ Running
  /\ \E h \in ScriptHandles :
       /\ fp[h]
       /\ AuxClose(h)
  /\ UNCHANGED <<nh, how, cls, dflt, held, iters, fin, iophase>>

\* io.input(file) and io.output(file) with a handle: tofile checks that it
\* is open, and the environment's slot f is set to it.
SetDefaultHandle(f) ==
  /\ Running
  /\ \E h \in ScriptHandles :
       /\ fp[h]
       /\ dflt' = [dflt EXCEPT ![f] = h]
  /\ UNCHANGED <<nh, fp, how, cls, closedwith, held, iters, fin,
                 iophase>>

\* io.input(name) and io.output(name): newfile and fopen; a failure raises
\* (fileerror), a FILE becomes the default.
SetDefaultName(f) ==
  /\ Running
  /\ \E ok \in BOOLEAN :
       /\ NewFile("fclose", "fopen", ok)
       /\ dflt' = IF ok THEN [dflt EXCEPT ![f] = nh + 1] ELSE dflt
  /\ UNCHANGED <<closedwith, held, iters, fin, iophase>>

\* f:lines() and io.lines() (the default input): tofile, then a closure
\* io_readline with upvalues the handle and toclose = false.
FLines ==
  /\ Running
  /\ \E h \in ScriptHandles :
       /\ fp[h]
       /\ iters' = iters \cup {[h |-> h, toclose |-> FALSE]}
  /\ UNCHANGED <<nh, fp, how, cls, closedwith, dflt, held, fin,
                 iophase>>

\* io.lines(name): newfile and fopen ("r"); a failure raises, a FILE gets
\* an iterator with toclose = true.
IoLines ==
  /\ Running
  /\ \E ok \in BOOLEAN :
       /\ NewFile("fclose", "fopen", ok)
       /\ iters' = IF ok THEN iters \cup {[h |-> nh + 1, toclose |-> TRUE]}
                         ELSE iters
  /\ UNCHANGED <<closedwith, dflt, held, fin, iophase>>

\* io_readline reaching end of file in an iterator of io.lines(name): it
\* raises "file is already closed" if the handle is closed, otherwise
\* read_line fails and the iterator closes the handle with aux_close.
\* A line read, or end of file with toclose = false, changes nothing.
ReadLineEOF ==
  /\ Running
  /\ \E it \in iters :
       /\ fp[it.h]
       /\ it.toclose
       /\ AuxClose(it.h)
  /\ UNCHANGED <<nh, how, cls, dflt, held, iters, fin, iophase>>

\* The script forgets a handle or an iterator.
DropHandle ==
  /\ Running
  /\ \E h \in held : held' = held \ {h}
  /\ UNCHANGED <<nh, fp, how, cls, closedwith, dflt, iters, fin,
                 iophase>>

DropIterator ==
  /\ Running
  /\ \E it \in iters : iters' = iters \ {it}
  /\ UNCHANGED <<nh, fp, how, cls, closedwith, dflt, held, fin,
                 iophase>>

\* io_gc, the finalizer: an unreachable handle, or any handle not yet
\* finalized when gafq_close separates every userdata with __gc.  A closed
\* handle is ignored; an open one is closed by aux_close.
IoGc ==
  /\ iophase # "closed"
  /\ \E h \in (1..nh) \ fin :
       /\ iophase = "closing" \/ ~Reachable(h)
       /\ fin' = fin \cup {h}
       /\ IF fp[h] THEN AuxClose(h) ELSE UNCHANGED <<fp, closedwith>>
  /\ UNCHANGED <<nh, how, cls, dflt, held, iters, iophase>>

\* gafq_close: the script has ended; every handle is to be finalized.
CloseState ==
  /\ Running
  /\ iophase' = "closing"
  /\ UNCHANGED <<nh, fp, how, cls, closedwith, dflt, held, iters, fin>>

\* close_state, once callalggcTM has run every finalizer.
StateClosed ==
  /\ iophase = "closing"
  /\ fin = 1..nh
  /\ iophase' = "closed"
  /\ UNCHANGED <<nh, fp, how, cls, closedwith, dflt, held, iters, fin>>

\* The state is closed; the host program goes on without it.
IoClosed == iophase = "closed" /\ UNCHANGED iovars

\* gafqopen_io: the metatable, the library's environment (__close =
\* io_fclose), and createstdfile for stdin, stdout and stderr in an
\* environment whose __close is io_noclose; stdin and stdout are the
\* default files.
IoInit ==
  /\ nh = 3
  /\ fp = [h \in Handles |-> h \in StdHandles]
  /\ how = [h \in Handles |-> IF h \in StdHandles THEN "std" ELSE "none"]
  /\ cls = [h \in Handles |-> IF h \in StdHandles THEN "noclose" ELSE "none"]
  /\ closedwith = [h \in Handles |-> <<>>]
  /\ dflt = [f \in {IO_INPUT, IO_OUTPUT} |-> f]
  /\ held = {}
  /\ iters = {}
  /\ fin = {}
  /\ iophase = "run"

IoNext ==
  \/ IoOpen \/ IoTmpfile \/ IoPopen \/ IoClose
  \/ SetDefaultHandle(IO_INPUT) \/ SetDefaultHandle(IO_OUTPUT)
  \/ SetDefaultName(IO_INPUT) \/ SetDefaultName(IO_OUTPUT)
  \/ FLines \/ IoLines \/ ReadLineEOF
  \/ DropHandle \/ DropIterator
  \/ IoGc \/ CloseState \/ StateClosed \/ IoClosed

IoSpec == IoInit /\ [][IoNext]_iovars

-----------------------------------------------------------------------------
(* Reading (g_read): what file:read and io.read return for a file whose    *)
(* contents are the sequence C, read from position pos.  A format is a    *)
(* record: [opt |-> "l"] for "*l", "a" for "*a", "count" with its number  *)
(* n; "*n" (fscanf) is not modelled.  A result is a string                *)
(* or NoValue.                                                              *)

NL == "\n"
NoValue == "nil"   \* a nil result

\* fgets(p, BUFFERSIZE, f): the number of characters it reads, at most
\* BUFFERSIZE - 1, through the first newline; 0 is NULL (end of file).
FgetsLen(C, pos) ==
  LET avail == Min({Len(C) - pos + 1, BUFFERSIZE - 1})
      nls == {i \in 1..avail : C[pos + i - 1] = NL}
  IN IF nls = {} THEN avail ELSE Min(nls)

\* read_line: chunks of fgets until one ends with the newline, which is
\* dropped; at end of file it succeeds if it read anything.  acc is the
\* buffer so far.
\* Fault variant: success at end of file whatever was read.
RECURSIVE ReadLine_EofEmpty(_, _, _)
ReadLine_EofEmpty(C, pos, acc) ==
  LET l == FgetsLen(C, pos)
      p == SubSeq(C, pos, pos + l - 1)
  IN IF l = 0 THEN [ok |-> TRUE, s |-> acc, pos |-> pos]
     ELSE IF p[l] # NL THEN ReadLine_EofEmpty(C, pos + l, acc \o p)
     ELSE [ok |-> TRUE, s |-> acc \o SubSeq(p, 1, l - 1), pos |-> pos + l]

RECURSIVE ReadLine(_, _, _)
ReadLine(C, pos, acc) ==
  LET l == FgetsLen(C, pos)
      p == SubSeq(C, pos, pos + l - 1)
  IN IF l = 0 THEN [ok |-> acc # <<>>, s |-> acc, pos |-> pos]
     ELSE IF p[l] # NL THEN ReadLine(C, pos + l, acc \o p)
     ELSE [ok |-> TRUE, s |-> acc \o SubSeq(p, 1, l - 1), pos |-> pos + l]

\* read_chars: fread chunks of rlen = min(BUFFERSIZE, n) until n
\* characters are read or a chunk comes back short; success if n reached
\* 0 or anything was read.
RECURSIVE ReadChars(_, _, _, _)
ReadChars(C, pos, n, acc) ==
  LET rlen == Min({BUFFERSIZE, n})
      nr == Min({rlen, Len(C) - pos + 1})
      acc2 == acc \o SubSeq(C, pos, pos + nr - 1)
  IN IF n - nr > 0 /\ nr = rlen THEN ReadChars(C, pos + nr, n - nr, acc2)
     ELSE [ok |-> n - nr = 0 \/ acc2 # <<>>, s |-> acc2, pos |-> pos + nr]

\* test_eof (a count of 0): "" unless at end of file.
TestEof(C, pos) == [ok |-> pos <= Len(C), s |-> <<>>, pos |-> pos]

ReadFormat(C, pos, fmt) ==
  CASE fmt.opt = "l" -> ReadLine(C, pos, <<>>)
    [] fmt.opt = "a" -> [ReadChars(C, pos, Len(C) + 1, <<>>) EXCEPT !.ok = TRUE]
    [] fmt.n = 0 -> TestEof(C, pos)
    [] OTHER -> ReadChars(C, pos, fmt.n, <<>>)

\* g_read: the formats in order while they succeed; the failing one's
\* result is replaced by nil and ends the results.  No format is "*l".
LineFmt == [opt |-> "l", n |-> 0]
RECURSIVE GRead(_, _, _)
GRead(C, pos, fmts) ==
  IF fmts = <<>> THEN <<>>
  ELSE LET r == ReadFormat(C, pos, Head(fmts)) IN
       IF r.ok THEN <<r.s>> \o GRead(C, r.pos, Tail(fmts)) ELSE <<NoValue>>

IoRead(C, fmts) == GRead(C, 1, IF fmts = <<>> THEN <<LineFmt>> ELSE fmts)

-----------------------------------------------------------------------------
(* Properties.                                                             *)

IoTypeOK ==
  /\ nh \in 3..MAXH
  /\ fp \in [Handles -> BOOLEAN]
  /\ how \in [Handles -> {"none", "std", "fopen", "popen", "tmpfile"}]
  /\ cls \in [Handles -> {"none", "noclose", "fclose", "pclose"}]
  /\ \A h \in Handles : closedwith[h] \in Seq({"fclose", "pclose"})
  /\ dflt \in [{IO_INPUT, IO_OUTPUT} -> 1..nh]
  /\ held \subseteq 1..nh /\ fin \subseteq 1..nh
  /\ iters \subseteq [h : 1..nh, toclose : BOOLEAN]
  /\ iophase \in {"run", "closing", "closed"}

\* Each FILE is closed at most once, by the call that matches how it was
\* opened (fclose for fopen and tmpfile, pclose for popen), and the
\* standard files never: whichever of io.close, h:close, the lines
\* iterator, io_gc or gafq_close reaches it first, the others find NULL.
CloseMatchesOpen ==
  \A h \in Handles :
    \/ closedwith[h] = <<>>
    \/ how[h] \in DOMAIN CloseOf /\ closedwith[h] = <<CloseOf[how[h]]>>

\* What each format reads, as the reference manual describes it: "*l"
\* the next line without its newline, nil at end of file; "*a" the rest
\* of the file, "" at end of file; a count k, up to k characters, nil at
\* end of file ("" for k = 0 unless at end of file).
RefFormat(C, pos, fmt) ==
  LET rest == SubSeq(C, pos, Len(C))
      nls == {i \in 1..Len(rest) : rest[i] = NL}
      eol == IF nls = {} THEN Len(rest) + 1 ELSE Min(nls)
      k == Min({fmt.n, Len(rest)})
  IN CASE fmt.opt = "a" -> [ok |-> TRUE, s |-> rest, pos |-> Len(C) + 1]
       [] fmt.opt = "l" -> [ok |-> rest # <<>>, s |-> SubSeq(rest, 1, eol - 1),
                         pos |-> Min({pos + eol, Len(C) + 1})]
       [] OTHER -> [ok |-> rest # <<>>, s |-> SubSeq(rest, 1, k),
                    pos |-> pos + k]

RECURSIVE RefRead(_, _, _)
RefRead(C, pos, fmts) ==
  IF fmts = <<>> THEN <<>>
  ELSE LET r == RefFormat(C, pos, Head(fmts)) IN
       IF r.ok THEN <<r.s>> \o RefRead(C, r.pos, Tail(fmts)) ELSE <<NoValue>>

\* file:read and io.read return what the formats mean for a file without
\* embedded zeros, whatever the chunk size: read_line's loop over fgets
\* chunks, read_chars's loop over fread chunks and the end-of-file tests.
ReadAsDocumentedFor(C, fmts) ==
  IoRead(C, fmts) = RefRead(C, 1, IF fmts = <<>> THEN <<LineFmt>> ELSE fmts)
====
