------------------------------ MODULE MC_GafqLibs ------------------------------
(***************************************************************************)
(* The libraries and the value stack under them, checked side by side:     *)
(* the table library (GafqTable), the io library (GafqIo), require and     *)
(* module (GafqRequire) and the stack the C API works on (GafqStack).      *)
(* They share no state: a behaviour runs one of them, chosen by part,      *)
(* while the others stay in their first state.  part "read" holds one      *)
(* call of file:read on a file's contents, whose result the state shows.   *)
(***************************************************************************)
EXTENDS MC_GafqTable, GafqIo, GafqRequire, GafqStack

VARIABLES
  part,      \* the component this behaviour runs
  readcall   \* <<contents, formats>> of a file:read call, or NoRead

allvars == <<part, readcall, vars, iovars, rqvars, svars>>

\* Files of up to five characters over a letter and a newline, read with up
\* to two formats: "*l", "*a", and counts up to three.  Chunks of two
\* characters (BUFFERSIZE 3) split lines and counts.
MC_BUFFERSIZE == 3
MC_Contents == BoundedSeq({"a", NL}, 5)
MC_Formats == {[opt |-> "l", n |-> 0], [opt |-> "a", n |-> 0]}
              \cup [opt : {"count"}, n : 0..3]
ReadCalls == MC_Contents \X BoundedSeq(MC_Formats, 2)
NoRead == <<<<>>, <<>>>>

\* An empty table; package.loaded with every module absent and no loader
\* that finds one.
TableIdle == Init /\ t = [k \in Keys |-> Nil]
IdleConfig == [found |-> "none", mod |-> FALSE, req |-> NoMod, fail |-> FALSE,
               ret |-> "nil"]
RqIdle == RqInit /\ cfg = [m \in Mods |-> IdleConfig]

LibsInit ==
  /\ part \in {"table", "io", "read", "require", "stack"}
  /\ IF part = "table" THEN Init ELSE TableIdle
  /\ IoInit
  /\ IF part = "require" THEN RqInit ELSE RqIdle
  /\ StackInit
  /\ IF part = "read" THEN readcall \in ReadCalls ELSE readcall = NoRead

InTable(A) == part = "table" /\ A /\ UNCHANGED <<part, readcall, iovars, rqvars, svars>>
InIo(A) == part = "io" /\ A /\ UNCHANGED <<part, readcall, vars, rqvars, svars>>
InRq(A) == part = "require" /\ A /\ UNCHANGED <<part, readcall, vars, iovars, svars>>
InStack(A) == part = "stack" /\ A /\ UNCHANGED <<part, readcall, vars, iovars, rqvars>>
\* The read call has returned; its result is what the state shows.
ReadReturned == part = "read" /\ UNCHANGED allvars

LibsNext ==
  \/ InTable(TInsertEnd) \/ InTable(TInsert) \/ InTable(TRemove) \/ InTable(Sort)
  \/ InIo(IoOpen) \/ InIo(IoTmpfile) \/ InIo(IoPopen) \/ InIo(IoClose)
  \/ InIo(SetDefaultHandle(IO_INPUT)) \/ InIo(SetDefaultHandle(IO_OUTPUT))
  \/ InIo(SetDefaultName(IO_INPUT)) \/ InIo(SetDefaultName(IO_OUTPUT))
  \/ InIo(FLines) \/ InIo(IoLines) \/ InIo(ReadLineEOF)
  \/ InIo(DropHandle) \/ InIo(DropIterator)
  \/ InIo(IoGc) \/ InIo(CloseState) \/ InIo(StateClosed) \/ InIo(IoClosed)
  \/ ReadReturned
  \/ InRq(Require) \/ InRq(ModuleCall) \/ InRq(BodyError) \/ InRq(BodyReturn)
  \/ InRq(LoadLib) \/ InRq(RqCloseState) \/ InRq(RqClosed)
  \/ InStack(Push)
  \/ \E i \in -MAXN..MAXN : InStack(SetTop(i))
  \/ \E i \in Indices : InStack(GafqRemove(i))
  \/ \E i \in Indices : InStack(Insert(i))
  \/ \E i \in Indices : InStack(Replace(i))
  \/ \E i \in Indices : InStack(PushValue(i))
  \/ \E n \in 1..MAXN : InStack(CheckStack(n))
  \/ \E n \in 0..MAXN : InStack(ApiCall(n))
  \/ \E n \in 0..MAXN : InStack(CReturn(n))
  \/ \E a, b \in Regs : InStack(OpClosure(a, b))
  \/ \E a \in Regs, n \in 0..MAXN : InStack(OpCall(a, n))
  \/ \E a \in Regs : InStack(TMRes(a))
  \/ InStack(TM4)
  \/ \E a \in Regs : InStack(GReturn(a))

LibsSpec == LibsInit /\ [][LibsNext]_allvars

\* The read calls whose result is not what the formats mean, computed once.
ReadFailures == {c \in ReadCalls : ~ReadAsDocumentedFor(c[1], c[2])}

\* file:read and io.read return what their formats mean (see
\* ReadAsDocumentedFor): read_line over fgets chunks, read_chars over fread
\* chunks, test_eof, and the nil that stops g_read.
ReadAsDocumented == readcall \notin ReadFailures
====
