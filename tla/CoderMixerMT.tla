---------------------------- MODULE CoderMixerMT ----------------------------
(***************************************************************************)
(* CMixerMT: the coders of one folder run at the same time, the main coder *)
(* on the calling thread and every other one on its own CVirtThread,       *)
(* joined by stream binders.  The binders appear here as the pipes module  *)
(* BytePipe promises (StreamBinder shows that CStreamBinder keeps that     *)
(* promise); UsesPipes shows that the mixer uses them as it must.          *)
(*                                                                         *)
(* A coder is what the mixer has to expect of one: it reads and writes its *)
(* streams in any order, and returns a result.                             *)
(***************************************************************************)
EXTENDS Integers, Sequences, FiniteSets

CONSTANTS
  NumCoders,
  Shapes,       \* what a mixer may be made for: bonds (pairs <<writer, reader>>),
                \* the coders SelectMainCoder may choose, and whether it encodes
  Chunks,       \* bound: pieces written to a bond in one call of Code
  MaxRounds,    \* bound: folders coded with the same mixer
  OwnFaults,    \* what a coder may fail with: the errors of Code, by kind
  ThrowFaults,  \* a coder may throw
  CreateFaults  \* creating a thread may fail

Coders == 0..(NumCoders - 1)

(* E_ABORT, E_OUTOFMEMORY, any other error, S_FALSE, E_FAIL.               *)
Errors == {"abort", "mem", "error", "data", "fail"}

ASSUME ConstantsAssumption ==
  /\ NumCoders \in Nat \ {0} /\ Chunks \in Nat /\ MaxRounds \in Nat
  /\ Shapes \subseteq [bonds : SUBSET (Coders \X Coders), mainCoders : SUBSET Coders,
                       encode : BOOLEAN]
  /\ OwnFaults \subseteq Errors
  /\ {ThrowFaults, CreateFaults} \subseteq BOOLEAN

(* CBondsChecks: a coder has one unpack stream, its output when it decodes *)
(* and its input when it encodes, and is not bound to itself.              *)
ASSUME ShapesAssumption ==
  \A f \in Shapes : \A b \in f.bonds :
    /\ b[1] # b[2]
    /\ \A d \in f.bonds : (IF f.encode THEN b[2] = d[2] ELSE b[1] = d[1]) => b = d

VARIABLES
  shape,  \* _bi and EncodeMode of this mixer
  main,   \* the calling thread
  vt,     \* CVirtThread of each coder: pc, StartEvent, FinishedEvent, Exit
  coder,  \* CCoderMT: where Code is, the bond of the call it is in, Result,
          \* and the error of its own it failed with in this round
  pipe    \* the binder and its two streams

vars == <<shape, main, vt, coder, pipe>>

Bonds == UNION {f.bonds : f \in Shapes}
MainCoder == main.coder      \* MainCoderIndex
EncodeMode == shape.encode   \* encoders read to the end, decoders may stop before

NoBond == <<>>
Writer(b) == b[1]
Reader(b) == b[2]
Ins(c) == {b \in shape.bonds : Reader(b) = c}
Outs(c) == {b \in shape.bonds : Writer(b) = c}

FreshPipe == [got |-> 0, acked |-> 0, eof |-> FALSE, cut |-> FALSE,
              readOpen |-> TRUE, writeOpen |-> TRUE, round |-> 0]

(* The mixer has its coders (SetBindInfo, AddCoder, ReInit) and Code has   *)
(* run its Init for the first time.                                        *)
Init ==
  /\ shape \in Shapes
  /\ \E c \in shape.mainCoders :
       main = [pc |-> "create", i |-> 0, coder |-> c, todo |-> {}, round |-> 0,
               returned |-> "none"]
  /\ vt = [c \in Coders |-> [pc |-> "none", start |-> FALSE, finished |-> FALSE,
                             exit |-> FALSE]]
  /\ coder = [c \in Coders |-> [at |-> "rest", call |-> NoBond, result |-> "ok",
                                own |-> "ok"]]
  /\ pipe = [b \in Bonds |-> FreshPipe]

-----------------------------------------------------------------------------
(* CCoderMT::Code of coder c, on whichever thread it runs.                 *)

Free(c) == coder[c].at = "run" /\ coder[c].call = NoBond
WasCut(c) == \E b \in Outs(c) : pipe[b].cut

CallRead(c, b) ==
  /\ Free(c) /\ ~WasCut(c) /\ b \in Ins(c) /\ ~pipe[b].eof
  /\ coder' = [coder EXCEPT ![c].call = b]
  /\ UNCHANGED <<main, vt, pipe>>

CallWrite(c, b) ==
  /\ Free(c) /\ ~WasCut(c) /\ b \in Outs(c) /\ pipe[b].acked < Chunks
  /\ coder' = [coder EXCEPT ![c].call = b]
  /\ UNCHANGED <<main, vt, pipe>>

Offered(b) == coder[Writer(b)].call = b /\ pipe[b].got = pipe[b].acked

ReadReturns(c, b) ==
  /\ coder[c].call = b /\ b \in Ins(c)
  /\ \/ Offered(b) /\ pipe' = [pipe EXCEPT ![b].got = @ + 1]
     \/ ~Offered(b) /\ ~pipe[b].writeOpen /\ pipe' = [pipe EXCEPT ![b].eof = TRUE]
  /\ coder' = [coder EXCEPT ![c].call = NoBond]
  /\ UNCHANGED <<main, vt>>

WriteReturns(c, b) ==
  /\ coder[c].call = b /\ b \in Outs(c)
  /\ ~Offered(b) \/ ~pipe[b].readOpen
  /\ pipe' = [pipe EXCEPT ![b].acked = pipe[b].got, ![b].cut = Offered(b)]
  /\ coder' = [coder EXCEPT ![c].call = NoBond]
  /\ UNCHANGED <<main, vt>>

(* A coder whose input ended early may notice (S_FALSE) or may not.        *)
Truncated(c) == \E b \in Ins(c) : pipe[b].eof /\ coder[Writer(b)].result # "ok"
Content(c) == EncodeMode => \A b \in Ins(c) : pipe[b].eof

Finish(c, result, own) ==
  coder' = [coder EXCEPT ![c].at = "release", ![c].result = result, ![c].own = own]

CoderReturns(c) ==
  /\ Free(c)
  /\ \/ WasCut(c) /\ Finish(c, "cut", "ok")
     \/ ~WasCut(c) /\ Content(c) /\ Finish(c, "ok", "ok")
     \/ ~WasCut(c) /\ Truncated(c) /\ Finish(c, "data", "ok")
     \/ \E f \in OwnFaults : Finish(c, f, f)
  /\ UNCHANGED <<main, vt, pipe>>

(* Execute turns an exception into E_FAIL; on the calling thread nothing   *)
(* catches it inside the mixer.                                            *)
CoderThrows(c) ==
  /\ ThrowFaults /\ Free(c)
  /\ IF c = MainCoder THEN Finish(c, "throw", "throw") ELSE Finish(c, "fail", "fail")
  /\ UNCHANGED <<main, vt, pipe>>

Held(c) == {b \in Ins(c) : pipe[b].readOpen} \cup {b \in Outs(c) : pipe[b].writeOpen}

(* Releasing the last reference to a stream closes that end of the binder. *)
CloseEnd(c, b) ==
  pipe' = IF c = Reader(b) THEN [pipe EXCEPT ![b].readOpen = FALSE]
                           ELSE [pipe EXCEPT ![b].writeOpen = FALSE]

Release_InStreams(c) ==
  /\ coder[c].at = "release"
  /\ \/ /\ \E b \in Held(c) \cap Ins(c) : CloseEnd(c, b)
        /\ UNCHANGED coder
     \/ /\ Held(c) \cap Ins(c) = {}
        /\ coder' = [coder EXCEPT ![c].at = "done"]
        /\ UNCHANGED pipe
  /\ UNCHANGED <<main, vt>>

(* CReleaser: all InStreams, then all OutStreams, however Code ended.      *)
Release(c) ==
  /\ coder[c].at = "release"
  /\ \/ /\ \E b \in Held(c) : /\ b \in Outs(c) => Held(c) \cap Ins(c) = {}
                              /\ CloseEnd(c, b)
        /\ UNCHANGED coder
     \/ /\ Held(c) = {}
        /\ coder' = [coder EXCEPT ![c].at = "done"]
        /\ UNCHANGED pipe
  /\ UNCHANGED <<main, vt>>

CodeStep(c) ==
  \/ \E b \in shape.bonds : CallRead(c, b) \/ CallWrite(c, b) \/ ReadReturns(c, b) \/ WriteReturns(c, b)
  \/ CoderReturns(c) \/ CoderThrows(c) \/ Release(c)

-----------------------------------------------------------------------------
(* CoderThread, the loop of a worker.                                      *)

WakeUp(c) ==
  /\ vt[c].pc = "wait" /\ vt[c].start
  /\ vt' = [vt EXCEPT ![c].start = FALSE, ![c].pc = IF vt[c].exit THEN "exited" ELSE "execute"]
  /\ coder' = IF vt[c].exit THEN coder ELSE [coder EXCEPT ![c].at = "run"]
  /\ UNCHANGED <<main, pipe>>

Executed(c) ==
  /\ vt[c].pc = "execute" /\ coder[c].at = "done"
  /\ coder' = [coder EXCEPT ![c].at = "rest"]
  /\ vt' = [vt EXCEPT ![c].pc = "wait", ![c].finished = TRUE]
  /\ UNCHANGED <<main, pipe>>

WorkerStep(c) == WakeUp(c) \/ Executed(c) \/ (vt[c].pc = "execute" /\ CodeStep(c))

-----------------------------------------------------------------------------
(* The calling thread: CMixerMT::Code.                                     *)

NextCoder == main' = [main EXCEPT !.i = @ + 1]

(* CVirtThread::Create.                                                    *)
CreateWorker ==
  /\ main.pc = "create" /\ main.i \in Coders \ {MainCoder}
  /\ \/ /\ vt' = [vt EXCEPT ![main.i] = [pc |-> IF @.pc = "none" THEN "wait" ELSE @.pc,
                                         start |-> FALSE, finished |-> FALSE, exit |-> FALSE]]
        /\ NextCoder
     \/ /\ CreateFaults /\ vt[main.i].pc = "none"
        /\ vt' = [vt EXCEPT ![main.i].exit = FALSE]
        /\ main' = [main EXCEPT !.pc = "idle", !.returned = "thread"]
  /\ UNCHANGED <<coder, pipe>>

StartWorker ==
  /\ main.pc = "start" /\ main.i \in Coders \ {MainCoder}
  /\ vt' = [vt EXCEPT ![main.i].exit = FALSE, ![main.i].start = TRUE]
  /\ NextCoder
  /\ UNCHANGED <<coder, pipe>>

AwaitWorker_DontWait ==
  /\ main.pc = "await" /\ main.i \in Coders \ {MainCoder}
  /\ NextCoder
  /\ UNCHANGED <<vt, coder, pipe>>

(* WaitExecuteFinish.                                                      *)
AwaitWorker ==
  /\ main.pc = "await" /\ main.i \in Coders \ {MainCoder} /\ vt[main.i].finished
  /\ vt' = [vt EXCEPT ![main.i].finished = FALSE]
  /\ NextCoder
  /\ UNCHANGED <<coder, pipe>>

(* All three loops leave the main coder out.                               *)
SkipMainCoder ==
  /\ main.pc \in {"create", "start", "await"} /\ main.i = MainCoder
  /\ NextCoder
  /\ UNCHANGED <<vt, coder, pipe>>

LoopEnd ==
  /\ main.i = NumCoders
  /\ \/ /\ main.pc = "create"
        /\ main' = [main EXCEPT !.pc = "start", !.i = 0]
        /\ UNCHANGED coder
     \/ /\ main.pc = "start"
        /\ main' = [main EXCEPT !.pc = "code"]
        /\ coder' = [coder EXCEPT ![MainCoder].at = "run"]
  /\ UNCHANGED <<vt, pipe>>

MainCoded ==
  /\ main.pc = "code" /\ coder[MainCoder].at = "done"
  /\ coder' = [coder EXCEPT ![MainCoder].at = "rest"]
  /\ main' = IF coder[MainCoder].result = "throw"
             THEN [main EXCEPT !.pc = "idle", !.returned = "throw"]
             ELSE [main EXCEPT !.pc = "await", !.i = 0]
  /\ UNCHANGED <<vt, pipe>>

Results == {coder[c].result : c \in Coders}

Verdict_InOrder(result) ==
  LET Bad == {c \in Coders : coder[c].result \notin {"ok", "cut"}} IN
  IF Bad = {} THEN result = "ok"
  ELSE \E c \in Bad : (\A d \in Bad : c <= d) /\ result = coder[c].result

Verdict_MainCoder(result) ==
  result = IF coder[MainCoder].result = "cut" THEN "ok" ELSE coder[MainCoder].result

(* The order in which Code looks at the results: S_FALSE and E_FAIL may    *)
(* only be the consequence of another error.                               *)
Verdict(result) ==
  \/ result = "abort" /\ "abort" \in Results
  \/ result = "mem" /\ "mem" \in Results /\ "abort" \notin Results
  \/ result = "error" /\ "error" \in Results /\ Results \cap {"abort", "mem"} = {}
  \/ result = "data" /\ "data" \in Results /\ Results \cap {"abort", "mem", "error"} = {}
  \/ result = "fail" /\ "fail" \in Results /\ Results \subseteq {"ok", "cut", "fail"}
  \/ result = "ok" /\ Results \subseteq {"ok", "cut"}

Return ==
  /\ main.pc = "await" /\ main.i = NumCoders
  /\ \E result \in Errors \cup {"ok"} :
       Verdict(result) /\ main' = [main EXCEPT !.pc = "idle", !.returned = result]
  /\ UNCHANGED <<vt, coder, pipe>>

-----------------------------------------------------------------------------
(* The owner of the mixer, CEncoder or CDecoder.                           *)

(* The next folder: extraction goes on after a data error and after        *)
(* E_NOTIMPL, which is one of the other errors, an update only after       *)
(* success.  Another coder may be the main one, according to whether the   *)
(* whole folder is wanted.                                                 *)
NextFolder ==
  /\ main.pc = "idle" /\ main.round < MaxRounds
  /\ main.returned = "ok" \/ (main.returned \in {"data", "error"} /\ ~EncodeMode)
  /\ \E c \in shape.mainCoders :
       main' = [main EXCEPT !.pc = "reinit", !.coder = c, !.todo = shape.bonds,
                            !.round = @ + 1, !.returned = "none"]
  /\ UNCHANGED <<vt, coder, pipe>>

(* ReInit, and CreateStreams from Init.                                    *)
ReInit ==
  /\ main.pc = "reinit"
  /\ \/ \E b \in main.todo :
          /\ pipe' = [pipe EXCEPT ![b] = [FreshPipe EXCEPT !.round = pipe[b].round + 1]]
          /\ main' = [main EXCEPT !.todo = @ \ {b}]
          /\ UNCHANGED coder
     \/ /\ main.todo = {}
        /\ main' = [main EXCEPT !.pc = "create", !.i = 0]
        /\ coder' = [c \in Coders |-> [coder[c] EXCEPT !.own = "ok"]]
        /\ UNCHANGED pipe
  /\ UNCHANGED vt

(* ~CMixerMT destroys _coders, the last one first, and then the binders.   *)
Destroy ==
  /\ main.pc = "idle"
  /\ main' = [main EXCEPT !.pc = "destroy", !.i = NumCoders - 1]
  /\ UNCHANGED <<vt, coder, pipe>>

(* WaitThreadFinish, up to the wait.                                       *)
StopWorker ==
  /\ main.pc = "destroy" /\ main.i \in Coders
  /\ vt' = [vt EXCEPT ![main.i].exit = TRUE, ![main.i].start = vt[main.i].pc # "none"]
  /\ main' = [main EXCEPT !.pc = "join"]
  /\ UNCHANGED <<coder, pipe>>

JoinWorker_DontWait ==
  /\ main.pc = "join"
  /\ IF Held(main.i) # {}
     THEN (\E b \in Held(main.i) : CloseEnd(main.i, b)) /\ UNCHANGED main
     ELSE main' = [main EXCEPT !.pc = "destroy", !.i = @ - 1] /\ UNCHANGED pipe
  /\ UNCHANGED <<vt, coder>>

(* The thread is gone, and the streams it never released go with its coder. *)
JoinWorker ==
  /\ main.pc = "join" /\ vt[main.i].pc \in {"none", "exited"}
  /\ IF Held(main.i) # {}
     THEN (\E b \in Held(main.i) : CloseEnd(main.i, b)) /\ UNCHANGED main
     ELSE main' = [main EXCEPT !.pc = "destroy", !.i = @ - 1] /\ UNCHANGED pipe
  /\ UNCHANGED <<vt, coder>>

DestroyBinders ==
  /\ main.pc = "destroy" /\ main.i = -1
  /\ main' = [main EXCEPT !.pc = "gone"]
  /\ UNCHANGED <<vt, coder, pipe>>

MainStep ==
  \/ CreateWorker \/ StartWorker \/ AwaitWorker \/ SkipMainCoder \/ LoopEnd
  \/ (main.pc = "code" /\ CodeStep(MainCoder)) \/ MainCoded \/ Return
  \/ NextFolder \/ ReInit \/ Destroy \/ StopWorker \/ JoinWorker \/ DestroyBinders

Next ==
  /\ MainStep \/ \E c \in Coders : WorkerStep(c)
  /\ UNCHANGED shape

Spec == Init /\ [][Next]_vars

(* The threads run; a coder makes finitely many calls and then returns.    *)
FairSpec == /\ Spec /\ WF_vars(MainStep /\ UNCHANGED shape)
            /\ \A c \in Coders : WF_vars(WorkerStep(c) /\ UNCHANGED shape)

-----------------------------------------------------------------------------
(* Properties.                                                             *)

MainType ==
  [pc : {"create", "start", "code", "await", "idle", "reinit", "destroy", "join", "gone"},
   i : -1..NumCoders, coder : Coders, todo : SUBSET Bonds, round : 0..MaxRounds,
   returned : Errors \cup {"none", "ok", "throw", "thread"}]
ThreadType == [pc : {"none", "wait", "execute", "exited"}, start : BOOLEAN,
               finished : BOOLEAN, exit : BOOLEAN]
CoderType == [at : {"rest", "run", "release", "done"}, call : Bonds \cup {NoBond},
              result : Errors \cup {"ok", "cut", "throw"}, own : Errors \cup {"ok", "throw"}]
PipeType == [got : 0..Chunks, acked : 0..Chunks, eof : BOOLEAN, cut : BOOLEAN,
             readOpen : BOOLEAN, writeOpen : BOOLEAN, round : 0..MaxRounds]

TypeOK ==
  /\ shape \in Shapes /\ main \in MainType
  /\ vt \in [Coders -> ThreadType] /\ coder \in [Coders -> CoderType]
  /\ pipe \in [Bonds -> PipeType]

JustReturned(result) == main.pc = "idle" /\ main.returned = result

(* S_OK means that no coder failed, and that a coder which saw the end of  *)
(* its input saw the end of what its neighbour had to say: a stream that   *)
(* was closed because of an error is never taken for a complete one.       *)
SuccessIsWhole ==
  JustReturned("ok") =>
    /\ \A c \in Coders : coder[c].own = "ok"
    /\ \A b \in Bonds : pipe[b].eof => coder[Writer(b)].result = "ok"

(* The error that is returned is one a coder failed with by itself, not    *)
(* the data error or the cut it caused in its neighbours; only an E_FAIL   *)
(* gives way to the data error that it caused.                             *)
RootCause ==
  \A f \in Errors :
    JustReturned(f) =>
      \/ \E c \in Coders : coder[c].own = f
      \/ f = "data" /\ {coder[c].own : c \in Coders} = {"ok", "fail"}

(* What makes these inductive.  A coder has still to run in this round, or *)
(* after an exception was started in it and does;                          *)
ToRun(c) ==
  \/ coder[c].at = "run" \/ (vt[c].start /\ ~vt[c].exit) \/ main.pc = "create"
  \/ main.pc = "start" /\ (main.i <= c \/ c = MainCoder)

(* a thread is told to exit by ~CMixerMT only, which waits for it, and the *)
(* coder of a thread is at work while its thread is, the main coder while  *)
(* the calling thread is;                                                  *)
Stopped(c) ==
  (main.pc \in {"destroy", "gone"} /\ main.i < c) \/ (main.pc = "join" /\ main.i <= c)
Joined(c) == main.pc \in {"destroy", "join", "gone"} /\ main.i < c

Lifecycle(c) ==
  /\ vt[c].exit = Stopped(c)
  /\ vt[c].pc = "exited" => vt[c].exit /\ ~vt[c].start
  /\ vt[c].pc = "none" => ~vt[c].start /\ ~vt[c].finished
  /\ Joined(c) => vt[c].pc \in {"none", "exited"}
  /\ vt[c].start /\ ~vt[c].exit => vt[c].pc = "wait" /\ c # MainCoder
  /\ IF c = MainCoder
     THEN vt[c].pc # "execute" /\ (coder[c].at # "rest" <=> main.pc = "code")
     ELSE coder[c].at # "rest" <=> vt[c].pc = "execute"
  /\ coder[c].call # NoBond => coder[c].at = "run" /\ coder[c].call \in Ins(c) \cup Outs(c)

(* Code starts each worker once and takes its FinishedEvent once;          *)
Quiet(c) ==
  vt[c].pc \in {"none", "wait"} /\ ~vt[c].start /\ ~vt[c].finished /\ coder[c].at = "rest"
Started(c) ==
  \/ vt[c].start /\ ~vt[c].finished /\ vt[c].pc = "wait"
  \/ ~vt[c].start /\ ~vt[c].finished /\ vt[c].pc = "execute"
  \/ ~vt[c].start /\ vt[c].finished /\ vt[c].pc = "wait"

Rendezvous(c) ==
  /\ main.pc \in {"create", "reinit"} \/ (main.pc = "idle" /\ main.returned # "throw") => Quiet(c)
  /\ main.pc = "create" /\ c < main.i /\ c # MainCoder => vt[c].pc = "wait"
  /\ main.pc = "start" =>
       IF c < main.i /\ c # MainCoder THEN Started(c)
       ELSE Quiet(c) /\ (c # MainCoder => vt[c].pc = "wait")
  /\ main.pc = "code" => IF c # MainCoder THEN Started(c) ELSE ~vt[c].start /\ ~vt[c].finished
  /\ main.pc = "await" => IF main.i <= c /\ c # MainCoder THEN Started(c) ELSE Quiet(c)

MainFits ==
  /\ main.pc \in {"create", "start", "await"} => main.i >= 0
  /\ main.pc = "join" => main.i \in Coders
  /\ main.pc = "gone" => main.i = -1
  /\ main.pc \in {"create", "start", "code", "await", "reinit"} <=> main.returned = "none"
  /\ main.todo \subseteq shape.bonds

(* the ends of a coder are open before it has run, and closed when it has; *)
InCode == main.pc \in {"create", "start", "code", "await"}
Told == main.pc = "idle" /\ main.returned \in Errors \cup {"ok"}

EndsFit(c) ==
  /\ ToRun(c) =>
       /\ coder[c].own = "ok"
       /\ \A b \in Ins(c) : pipe[b].readOpen
       /\ \A b \in Outs(c) : pipe[b].writeOpen
  /\ InCode /\ ~ToRun(c) /\ coder[c].at # "release" => Held(c) = {}
  /\ Told => Held(c) = {}

(* of a bond no more than one piece is on offer, and nobody is told the    *)
(* end, or cut, while the other end is open;                               *)
BondFits(b) ==
  LET p == pipe[b] IN
  /\ p.got \in {p.acked, p.acked + 1}
  /\ p.got # p.acked => coder[Writer(b)].call = b
  /\ coder[Writer(b)].call = b => p.acked < Chunks /\ ~p.cut
  /\ p.eof => ~p.writeOpen /\ ~p.cut
  /\ p.cut => ~p.readOpen
  /\ main.pc = "reinit" => p.readOpen = (b \notin main.todo) /\ p.writeOpen = (b \notin main.todo)
  /\ main.round = p.round + (IF main.pc = "reinit" /\ b \in main.todo THEN 1 ELSE 0)

(* and behind each result that is not a success of a coder that has run,   *)
(* is some coder's own error, but for a decoder that was cut.              *)
Blamed == \E c \in Coders : coder[c].own # "ok"

CauseIsKnown(c) ==
  LET result == coder[c].result IN
  /\ coder[c].own # "ok" => result = coder[c].own
  /\ result \notin {"ok", "cut", "data"} => coder[c].own = result
  /\ result = "ok" => (EncodeMode => \A b \in Ins(c) : pipe[b].eof)
  /\ result = "cut" => \E b \in Outs(c) : pipe[b].cut
  /\ result = "throw" => c = MainCoder /\ main.pc = "code"
  /\ result # "ok" /\ (EncodeMode \/ result # "cut") => Blamed

IInv ==
  /\ TypeOK /\ MainFits
  /\ \A c \in Coders :
       /\ Lifecycle(c) /\ Rendezvous(c) /\ EndsFit(c)
       /\ InCode /\ ~ToRun(c) => CauseIsKnown(c)
  /\ \A b \in Bonds : IF b \in shape.bonds THEN BondFits(b) ELSE pipe[b] = FreshPipe
  /\ SuccessIsWhole /\ RootCause

(* When Code has returned a result no worker still codes or is about to,   *)
(* and when the binders are destroyed no thread is left that could use one, *)
(* even after an exception left workers running.  IInv, which says why, is *)
(* checked with it.                                                        *)
ThreadsAtRest ==
  /\ IInv
  /\ (main.pc = "idle" /\ main.returned # "throw") \/ main.pc = "gone"
     => \A c \in Coders :
          /\ vt[c].pc \in {"none", "wait", "exited"} /\ coder[c].at = "rest"
          /\ ~vt[c].start /\ (main.pc = "idle" => ~vt[c].finished)

Pipes == INSTANCE BytePipe WITH
  delivered <- [b \in Bonds |-> [i \in 1..pipe[b].got |-> i - 1]],
  offered <- [b \in Bonds |-> IF coder[Writer(b)].call = b THEN pipe[b].acked + 1
                                                           ELSE pipe[b].acked],
  acked <- [b \in Bonds |-> pipe[b].acked],
  eof <- [b \in Bonds |-> pipe[b].eof],
  cut <- [b \in Bonds |-> pipe[b].cut],
  readClosed <- [b \in Bonds |-> ~pipe[b].readOpen],
  writeClosed <- [b \in Bonds |-> ~pipe[b].writeOpen],
  round <- [b \in Bonds |-> pipe[b].round]

(* The mixer keeps its side of the contract of the binders: an end is      *)
(* closed only between calls, and a binder is prepared for the next folder *)
(* only when both its ends are closed.                                     *)
UsesPipes == Pipes!Spec

(* Code returns or throws, whichever coders fail and in whatever order,    *)
(* and the destructor of the mixer comes to an end.                        *)
CallsReturn ==
  /\ (main.returned = "none") ~> (main.returned # "none")
  /\ (main.pc \in {"destroy", "join"}) ~> (main.pc = "gone")
=============================================================================
