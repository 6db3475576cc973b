------------------------- MODULE CoderMixerMT_proofs -------------------------
(***************************************************************************)
(* Proofs about CoderMixerMT for any coders and bonds, any number of       *)
(* folders and pieces, and whatever goes wrong in the coders: threads at   *)
(* rest when Code returns and when the binders go, the meaning of success, *)
(* the cause behind an error, and the use of the binders.                  *)
(***************************************************************************)
EXTENDS CoderMixerMT, TLAPS

(* Shapes and types.                                                       *)
LEMMA BondFacts ==
  ASSUME shape \in Shapes
  PROVE  /\ shape.bonds \subseteq Bonds /\ NoBond \notin Bonds /\ Bonds \subseteq Coders \X Coders
         /\ \A b \in Bonds : Writer(b) \in Coders /\ Reader(b) \in Coders
         /\ \A b \in shape.bonds : Writer(b) # Reader(b)
         /\ \A b, d \in shape.bonds : ~EncodeMode /\ Writer(b) = Writer(d) => b = d
<1>1. shape.bonds \subseteq Bonds
  BY DEF Bonds
<1>2. Bonds \subseteq Coders \X Coders
  BY ConstantsAssumption DEF Bonds
<1>3. \A b \in Bonds : Writer(b) \in Coders /\ Reader(b) \in Coders
  BY <1>2 DEF Writer, Reader
<1>4. NoBond \notin Bonds
  <2>1. ASSUME NEW b \in Coders \X Coders PROVE b # <<>>
    BY <2>1
  <2> QED
    BY <1>2, <2>1 DEF NoBond
<1>5. \A b \in shape.bonds : Writer(b) # Reader(b)
  BY ShapesAssumption DEF Writer, Reader
<1>6. \A b, d \in shape.bonds : ~EncodeMode /\ Writer(b) = Writer(d) => b = d
  BY ShapesAssumption DEF Writer, EncodeMode
<1> QED
  BY <1>1, <1>2, <1>3, <1>4, <1>5, <1>6

LEMMA EndsOf ==
  /\ \A c, b : b \in Ins(c) <=> b \in shape.bonds /\ Reader(b) = c
  /\ \A c, b : b \in Outs(c) <=> b \in shape.bonds /\ Writer(b) = c
BY DEF Ins, Outs

LEMMA CoderFacts ==
  /\ NumCoders \in Nat \ {0} /\ Chunks \in Nat /\ MaxRounds \in Nat
  /\ \A c \in Coders : /\ c \in Int /\ 0 <= c /\ c < NumCoders
                       /\ c + 1 \in -1..NumCoders /\ c - 1 \in -1..NumCoders
  /\ OwnFaults \subseteq Errors /\ 0 \in Coders
BY ConstantsAssumption DEF Coders

LEMMA MainFacts ==
  ASSUME main \in MainType
  PROVE  /\ main.pc \in {"create", "start", "code", "await", "idle", "reinit", "destroy", "join",
                         "gone"}
         /\ main.i \in -1..NumCoders /\ main.i \in Int /\ MainCoder \in Coders
         /\ main.todo \subseteq Bonds /\ main.round \in 0..MaxRounds /\ main.round \in Nat
         /\ main.returned \in Errors \cup {"none", "ok", "throw", "thread"}
BY CoderFacts DEF MainType, MainCoder

LEMMA ThreadFacts ==
  ASSUME TypeOK, NEW c \in Coders
  PROVE  /\ vt[c] \in ThreadType /\ vt[c].pc \in {"none", "wait", "execute", "exited"}
         /\ vt[c].start \in BOOLEAN /\ vt[c].finished \in BOOLEAN /\ vt[c].exit \in BOOLEAN
         /\ coder[c] \in CoderType /\ coder[c].at \in {"rest", "run", "release", "done"}
         /\ coder[c].call \in Bonds \cup {NoBond}
         /\ coder[c].result \in Errors \cup {"ok", "cut", "throw"}
         /\ coder[c].own \in Errors \cup {"ok", "throw"}
BY DEF TypeOK, ThreadType, CoderType

LEMMA PipeFacts ==
  ASSUME TypeOK, NEW b \in Bonds
  PROVE  /\ pipe[b] \in PipeType /\ pipe[b].got \in 0..Chunks /\ pipe[b].acked \in 0..Chunks
         /\ pipe[b].eof \in BOOLEAN /\ pipe[b].cut \in BOOLEAN
         /\ pipe[b].readOpen \in BOOLEAN /\ pipe[b].writeOpen \in BOOLEAN
         /\ pipe[b].round \in 0..MaxRounds
BY DEF TypeOK, PipeType

LEMMA HeldNothing ==
  ASSUME TypeOK, NEW c \in Coders
  PROVE  Held(c) = {} <=> \A b \in shape.bonds : /\ Reader(b) = c => ~pipe[b].readOpen
                                                 /\ Writer(b) = c => ~pipe[b].writeOpen
BY EndsOf DEF Held

-----------------------------------------------------------------------------
(* CCoderMT::Code of one coder.                                            *)
Working(c) == vt[c].pc = "execute" \/ (c = MainCoder /\ main.pc = "code")

LEMMA WorkingFacts ==
  ASSUME IInv, NEW c \in Coders, Working(c)
  PROVE  /\ coder[c].at # "rest" /\ main.pc \notin {"create", "reinit"} /\ ~Told
         /\ ToRun(c) <=> coder[c].at = "run"
<1>1. Lifecycle(c) /\ Rendezvous(c) /\ coder[c].at # "rest"
  BY DEF IInv, Lifecycle, Working
<1>2. ~Quiet(c)
  BY <1>1 DEF Quiet
<1>3. main.pc \notin {"create", "reinit"} /\ ~Told
  BY <1>1, <1>2 DEF Rendezvous, Told, Errors
<1>4. ~(main.pc = "start" /\ (main.i <= c \/ c = MainCoder))
  <2>1. SUFFICES ASSUME main.pc = "start", main.i <= c \/ c = MainCoder PROVE FALSE
    OBVIOUS
  <2>2. ~(c < main.i /\ c # MainCoder)
    BY <2>1, CoderFacts, MainFacts DEF IInv, TypeOK
  <2> QED
    BY <1>1, <1>2, <2>1, <2>2 DEF Rendezvous
<1>5. ~(vt[c].start /\ ~vt[c].exit)
  BY <1>1 DEF Lifecycle, Working
<1> QED
  BY <1>1, <1>3, <1>4, <1>5 DEF ToRun

CodeFrame(c) ==
  /\ main' = main /\ vt' = vt /\ shape' = shape /\ TypeOK'
  /\ \A d \in Coders : d # c => coder'[d] = coder[d]
  /\ coder[c].at \in {"run", "release"} /\ coder'[c].at # "rest"
  /\ coder'[c].at = "run" => coder[c].at = "run" /\ coder'[c].own = coder[c].own
  /\ coder'[c].call # NoBond => coder'[c].at = "run" /\ coder'[c].call \in Ins(c) \cup Outs(c)
  /\ coder'[c].at = "done" => Held(c)' = {}
  /\ coder[c].at = "release" => /\ coder'[c].own = coder[c].own
                                /\ coder'[c].result = coder[c].result
  /\ \A b \in Bonds :
       /\ pipe[b].eof => pipe'[b].eof
       /\ pipe[b].cut => pipe'[b].cut
       /\ pipe'[b].round = pipe[b].round
       /\ pipe'[b].readOpen = pipe[b].readOpen \/ (Reader(b) = c /\ coder[c].at = "release")
       /\ pipe'[b].readOpen => pipe[b].readOpen
       /\ pipe'[b].writeOpen = pipe[b].writeOpen \/ (Writer(b) = c /\ coder[c].at = "release")
       /\ pipe'[b].writeOpen => pipe[b].writeOpen
       /\ b \notin shape.bonds => pipe'[b] = pipe[b]

LEMMA CodeKeeps ==
  ASSUME IInv, NEW c \in Coders, Working(c), CodeFrame(c),
         InCode /\ coder'[c].at # "run" => CauseIsKnown(c)',
         \A b \in shape.bonds : BondFits(b)'
  PROVE  IInv'
<1>1. main' = main /\ vt' = vt /\ shape' = shape /\ TypeOK'
      /\ \A d \in Coders : d # c => coder'[d] = coder[d]
  BY DEF CodeFrame
<1>2. MainFits'
  BY <1>1 DEF IInv, MainFits
<1>3. \A d \in Coders : Stopped(d)' = Stopped(d) /\ Joined(d)' = Joined(d)
                        /\ Ins(d)' = Ins(d) /\ Outs(d)' = Outs(d)
  BY <1>1 DEF Stopped, Joined, Ins, Outs
<1>4. /\ InCode' = InCode /\ Told' = Told /\ MainCoder' = MainCoder /\ EncodeMode' = EncodeMode
  BY <1>1 DEF InCode, Told, MainCoder, EncodeMode
<1>5. ASSUME NEW d \in Coders PROVE Lifecycle(d)'
  <2>1. Lifecycle(d)
    BY DEF IInv
  <2>2. CASE d # c
    BY <1>1, <1>3, <1>4, <2>1, <2>2 DEF Lifecycle
  <2>3. CASE d = c
    <3>1. coder'[c].at # "rest" /\ coder[c].at # "rest"
      BY DEF CodeFrame
    <3>2. coder'[c].call # NoBond => coder'[c].at = "run" /\ coder'[c].call \in Ins(c) \cup Outs(c)
      BY DEF CodeFrame
    <3> QED
      BY <1>1, <1>3, <1>4, <2>1, <2>3, <3>1, <3>2 DEF Lifecycle
  <2> QED
    BY <2>2, <2>3
<1>6. ASSUME NEW d \in Coders PROVE Rendezvous(d)'
  <2>1. Rendezvous(d)
    BY DEF IInv
  <2>2. Quiet(d)' <=> Quiet(d)
    <3>1. coder'[d].at = "rest" <=> coder[d].at = "rest"
      BY <1>1 DEF CodeFrame
    <3> QED
      BY <1>1, <3>1 DEF Quiet
  <2>3. Started(d)' <=> Started(d)
    BY <1>1 DEF Started
  <2> QED
    BY <1>1, <1>4, <2>1, <2>2, <2>3 DEF Rendezvous
<1>7. \A d \in Coders : d # c => (ToRun(d)' <=> ToRun(d))
  BY <1>1, <1>4 DEF ToRun
<1>8. ToRun(c)' <=> coder'[c].at = "run"
  <2>1. coder[c].at # "run" => ~ToRun(c)
    BY WorkingFacts
  <2>2. ToRun(c)' => coder'[c].at = "run" \/ ToRun(c)
    BY <1>1, <1>4 DEF ToRun
  <2>3. ~(vt[c].start /\ ~vt[c].exit) /\ main.pc # "create"
        /\ ~(main.pc = "start" /\ (main.i <= c \/ c = MainCoder))
    <3>1. CASE coder[c].at = "release"
      BY <2>1, <3>1 DEF ToRun
    <3>2. CASE coder[c].at = "run"
      <4>1. Lifecycle(c) /\ Rendezvous(c) /\ ~Quiet(c)
        BY <3>2 DEF IInv, Quiet
      <4>2. main.pc # "create"
        BY WorkingFacts
      <4>3. ~(vt[c].start /\ ~vt[c].exit)
        BY <4>1 DEF Lifecycle, Working
      <4>4. ASSUME main.pc = "start", main.i <= c \/ c = MainCoder PROVE FALSE
        <5>1. ~(c < main.i /\ c # MainCoder)
          BY <4>4, CoderFacts, MainFacts DEF IInv, TypeOK
        <5> QED
          BY <4>1, <4>4, <5>1 DEF Rendezvous
      <4> QED
        BY <4>2, <4>3, <4>4
    <3> QED
      BY <3>1, <3>2 DEF CodeFrame
  <2> QED
    BY <1>1, <1>4, <2>3 DEF ToRun
<1>9. \A b \in shape.bonds : b \in Bonds
  BY BondFacts DEF IInv, TypeOK
<1>10. Blamed => Blamed'
  <2>1. SUFFICES ASSUME NEW d \in Coders, coder[d].own # "ok" PROVE Blamed'
    BY DEF Blamed
  <2>2. coder'[d].own # "ok"
    <3>1. CASE d # c
      BY <1>1, <2>1, <3>1
    <3>2. CASE d = c
      <4>1. coder[c].at # "run"
        BY <2>1, <3>2, WorkingFacts DEF IInv, EndsFit
      <4> QED
        BY <2>1, <3>2, <4>1 DEF CodeFrame
    <3> QED
      BY <3>1, <3>2
  <2> QED
    BY <2>2 DEF Blamed
<1>11. ASSUME NEW d \in Coders PROVE EndsFit(d)'
  <2>1. EndsFit(d) /\ ~Told'
    BY <1>4, WorkingFacts DEF IInv
  <2>2. CASE d # c
    <3>1. \A b \in Bonds : /\ Reader(b) = d => pipe'[b].readOpen = pipe[b].readOpen
                           /\ Writer(b) = d => pipe'[b].writeOpen = pipe[b].writeOpen
      BY <2>2 DEF CodeFrame
    <3>2. Held(d)' = Held(d)
      BY <1>3, <1>9, <3>1, EndsOf DEF Held
    <3>3. /\ \A b \in Ins(d) : pipe'[b].readOpen = pipe[b].readOpen
          /\ \A b \in Outs(d) : pipe'[b].writeOpen = pipe[b].writeOpen
      BY <1>9, <3>1, EndsOf
    <3> QED
      BY <1>1, <1>3, <1>4, <1>7, <2>1, <2>2, <3>2, <3>3 DEF EndsFit
  <2>3. CASE d = c
    <3>1. CASE coder'[c].at = "run"
      <4>1. coder[c].at = "run" /\ coder'[c].own = coder[c].own
        BY <3>1 DEF CodeFrame
      <4>2. ToRun(c)
        BY <4>1 DEF ToRun
      <4>3. \A b \in Bonds : pipe'[b].readOpen = pipe[b].readOpen
                             /\ pipe'[b].writeOpen = pipe[b].writeOpen
        BY <4>1 DEF CodeFrame
      <4>4. /\ \A b \in Ins(c) : pipe'[b].readOpen = pipe[b].readOpen
            /\ \A b \in Outs(c) : pipe'[b].writeOpen = pipe[b].writeOpen
        BY <1>9, <4>3, EndsOf
      <4> QED
        BY <1>3, <1>8, <2>1, <2>3, <3>1, <4>1, <4>2, <4>4 DEF EndsFit
    <3>2. CASE coder'[c].at # "run"
      <4>1. coder'[c].at # "release" => Held(c)' = {}
        <5>1. coder'[c].at \in {"release", "done"}
          BY <1>1, <3>2, ThreadFacts DEF CodeFrame, TypeOK, CoderType
        <5> QED
          BY <5>1 DEF CodeFrame
      <4> QED
        BY <1>8, <2>1, <2>3, <3>2, <4>1 DEF EndsFit
    <3> QED
      BY <3>1, <3>2
  <2> QED
    BY <2>2, <2>3
<1>12. ASSUME NEW d \in Coders, InCode', ~ToRun(d)' PROVE CauseIsKnown(d)'
  <2>1. CASE d = c
    BY <1>4, <1>8, <1>12, <2>1
  <2>2. CASE d # c
    <3>1. CauseIsKnown(d)
      BY <1>4, <1>7, <1>12, <2>2 DEF IInv
    <3>2. /\ \A b \in Ins(d) : pipe[b].eof => pipe'[b].eof
          /\ \A b \in Outs(d) : pipe[b].cut => pipe'[b].cut
      BY <1>9, EndsOf DEF CodeFrame
    <3> QED
      BY <1>1, <1>3, <1>4, <1>10, <2>2, <3>1, <3>2 DEF CauseIsKnown
  <2> QED
    BY <2>1, <2>2
<1>13. \A b \in Bonds : IF b \in shape'.bonds THEN BondFits(b)' ELSE pipe'[b] = FreshPipe
  BY <1>1 DEF CodeFrame, IInv
<1>14. SuccessIsWhole' /\ RootCause'
  BY <1>4, WorkingFacts DEF SuccessIsWhole, RootCause, JustReturned, Told
<1> QED
  BY <1>1, <1>2, <1>5, <1>6, <1>11, <1>12, <1>13, <1>14 DEF IInv

(* A coder calls Read or Write.                                            *)
LEMMA CallKeeps ==
  ASSUME IInv, NEW c \in Coders, Working(c), UNCHANGED shape, NEW b \in shape.bonds,
         CallRead(c, b) \/ CallWrite(c, b)
  PROVE  IInv'
<1>1. /\ coder[c].at = "run" /\ coder[c].call = NoBond /\ ~WasCut(c) /\ b \in Ins(c) \cup Outs(c)
      /\ coder' = [coder EXCEPT ![c].call = b] /\ main' = main /\ vt' = vt /\ pipe' = pipe
      /\ b \in Outs(c) => pipe[b].acked < Chunks
  <2>1. b \in Ins(c) => b \notin Outs(c)
    BY BondFacts, EndsOf DEF IInv, TypeOK
  <2> QED
    BY <2>1 DEF CallRead, CallWrite, Free
<1>2. b \in Bonds
  BY BondFacts DEF IInv, TypeOK
<1>3. coder[c] \in CoderType /\ coder \in [Coders -> CoderType]
  BY DEF IInv, TypeOK
<1>4. /\ coder'[c] = [coder[c] EXCEPT !.call = b]
      /\ \A d \in Coders : d # c => coder'[d] = coder[d]
  BY <1>1, <1>3
<1>5. /\ coder'[c].at = "run" /\ coder'[c].own = coder[c].own /\ coder'[c].call = b
      /\ coder'[c].result = coder[c].result
  BY <1>1, <1>3, <1>4 DEF CoderType
<1>6. TypeOK'
  <2>1. coder'[c] \in CoderType
    BY <1>2, <1>3, <1>4 DEF CoderType
  <2>2. coder' \in [Coders -> CoderType]
    BY <1>1, <1>3, <1>4, <2>1
  <2> QED
    BY <1>1, <2>2 DEF IInv, TypeOK
<1>7. CodeFrame(c)
  BY <1>1, <1>4, <1>5, <1>6 DEF CodeFrame
<1>8. ASSUME NEW e \in shape.bonds PROVE BondFits(e)'
  <2>1. BondFits(e) /\ Writer(e) \in Coders /\ e \in Bonds
    BY BondFacts DEF IInv, TypeOK
  <2>2. CASE Writer(e) # c \/ e # b
    <3>1. coder'[Writer(e)].call = e <=> coder[Writer(e)].call = e
      <4>1. NoBond # e
        BY <2>1, BondFacts DEF IInv, TypeOK
      <4> QED
        BY <1>1, <1>4, <1>5, <2>1, <2>2, <4>1
    <3> QED
      BY <1>1, <2>1, <3>1 DEF BondFits
  <2>3. CASE Writer(e) = c /\ e = b
    <3>1. b \in Outs(c)
      BY <2>3, EndsOf
    <3>2. ~pipe[b].cut
      BY <1>1, <3>1 DEF WasCut
    <3> QED
      BY <1>1, <1>5, <2>1, <2>3, <3>1, <3>2 DEF BondFits
  <2> QED
    BY <2>2, <2>3
<1> QED
  BY <1>5, <1>7, <1>8, CodeKeeps

(* The ends of the bond of a call are open, so that its other end has not  *)
(* been told that this one is closed.                                      *)
LEMMA CallFacts ==
  ASSUME IInv, NEW c \in Coders, NEW b \in Bonds, coder[c].call = b
  PROVE  /\ coder[c].at = "run" /\ b \in shape.bonds /\ ToRun(c)
         /\ Reader(b) = c => pipe[b].readOpen /\ ~pipe[b].cut
         /\ Writer(b) = c => pipe[b].writeOpen /\ ~pipe[b].eof /\ ~pipe[b].cut
         /\ Reader(b) = c \/ Writer(b) = c
<1>1. b # NoBond
  BY BondFacts DEF IInv, TypeOK
<1>2. coder[c].at = "run" /\ b \in Ins(c) \cup Outs(c)
  BY <1>1 DEF IInv, Lifecycle
<1>3. ToRun(c)
  BY <1>2 DEF ToRun
<1>4. b \in shape.bonds /\ (Reader(b) = c \/ Writer(b) = c)
  BY <1>2, EndsOf
<1>5. BondFits(b) /\ EndsFit(c)
  BY <1>4 DEF IInv
<1>6. (Reader(b) = c => pipe[b].readOpen) /\ (Writer(b) = c => pipe[b].writeOpen)
  BY <1>3, <1>4, <1>5, EndsOf DEF EndsFit
<1> QED
  BY <1>2, <1>3, <1>4, <1>5, <1>6 DEF BondFits

(* What returning from Read and Write leaves alone.                        *)
LEMMA CallReturns ==
  ASSUME IInv, NEW c \in Coders, Working(c), UNCHANGED shape, NEW b \in shape.bonds,
         coder[c].call = b, coder' = [coder EXCEPT ![c].call = NoBond],
         main' = main, vt' = vt, pipe' \in [Bonds -> PipeType],
         \A e \in Bonds : e # b => pipe'[e] = pipe[e],
         pipe[b].eof => pipe'[b].eof, pipe[b].cut => pipe'[b].cut,
         pipe'[b].round = pipe[b].round, pipe'[b].readOpen = pipe[b].readOpen,
         pipe'[b].writeOpen = pipe[b].writeOpen, BondFits(b)'
  PROVE  IInv'
<1>1. b \in Bonds /\ coder[c].at = "run" /\ coder[c] \in CoderType
      /\ coder \in [Coders -> CoderType]
  BY BondFacts, CallFacts DEF IInv, TypeOK
<1>2. /\ coder'[c] = [coder[c] EXCEPT !.call = NoBond]
      /\ \A d \in Coders : d # c => coder'[d] = coder[d]
  BY <1>1
<1>3. coder'[c].at = "run" /\ coder'[c].own = coder[c].own /\ coder'[c].call = NoBond
  BY <1>1, <1>2 DEF CoderType
<1>4. TypeOK'
  <2>1. coder'[c] \in CoderType
    BY <1>1, <1>2 DEF CoderType
  <2>2. coder' \in [Coders -> CoderType]
    BY <1>1, <1>2, <2>1
  <2> QED
    BY <2>2 DEF IInv, TypeOK
<1>5. CodeFrame(c)
  BY <1>1, <1>2, <1>3, <1>4 DEF CodeFrame
<1>6. ASSUME NEW e \in shape.bonds PROVE BondFits(e)'
  <2>1. CASE e = b
    BY <2>1
  <2>2. CASE e # b
    <3>1. BondFits(e) /\ Writer(e) \in Coders /\ e \in Bonds /\ NoBond # e
      BY BondFacts DEF IInv, TypeOK
    <3>2. coder'[Writer(e)].call = e <=> coder[Writer(e)].call = e
      BY <1>2, <1>3, <2>2, <3>1
    <3> QED
      BY <2>2, <3>1, <3>2 DEF BondFits
  <2> QED
    BY <2>1, <2>2
<1> QED
  BY <1>3, <1>5, <1>6, CodeKeeps

LEMMA ReadKeeps ==
  ASSUME IInv, NEW c \in Coders, Working(c), UNCHANGED shape, NEW b \in shape.bonds,
         ReadReturns(c, b)
  PROVE  IInv'
<1>1. /\ b \in Bonds /\ coder[c].call = b /\ Reader(b) = c /\ Writer(b) # c /\ Writer(b) \in Coders
      /\ pipe[b].readOpen /\ ~pipe[b].cut /\ BondFits(b)
  BY BondFacts, CallFacts, EndsOf DEF IInv, TypeOK, ReadReturns
<1>2. pipe \in [Bonds -> PipeType] /\ pipe[b] \in PipeType /\ coder \in [Coders -> CoderType]
  BY <1>1 DEF IInv, TypeOK
<1>3. /\ coder' = [coder EXCEPT ![c].call = NoBond] /\ main' = main /\ vt' = vt
      /\ coder'[Writer(b)] = coder[Writer(b)]
  BY <1>1, <1>2 DEF ReadReturns
<1>4. CASE Offered(b) /\ pipe' = [pipe EXCEPT ![b].got = @ + 1]
  <2>1. coder[Writer(b)].call = b /\ pipe[b].got = pipe[b].acked /\ pipe[b].acked < Chunks
    BY <1>1, <1>4 DEF Offered, BondFits
  <2>2. /\ pipe'[b] = [pipe[b] EXCEPT !.got = @ + 1]
        /\ \A e \in Bonds : e # b => pipe'[e] = pipe[e]
    BY <1>1, <1>2, <1>4
  <2>3. pipe[b].got + 1 \in 0..Chunks
    BY <1>1, <2>1, PipeFacts, CoderFacts DEF IInv
  <2>4. pipe'[b] \in PipeType
    BY <1>2, <2>2, <2>3 DEF PipeType
  <2>5. pipe' \in [Bonds -> PipeType]
    BY <1>2, <1>4, <2>2, <2>4
  <2>6. /\ pipe'[b].got = pipe[b].got + 1 /\ pipe'[b].acked = pipe[b].acked
        /\ pipe'[b].eof = pipe[b].eof /\ pipe'[b].cut = pipe[b].cut
        /\ pipe'[b].readOpen = pipe[b].readOpen /\ pipe'[b].writeOpen = pipe[b].writeOpen
        /\ pipe'[b].round = pipe[b].round
    BY <1>2, <2>2 DEF PipeType
  <2>7. BondFits(b)'
    BY <1>1, <1>3, <2>1, <2>6 DEF BondFits
  <2> QED
    BY <1>1, <1>3, <2>2, <2>5, <2>6, <2>7, CallReturns
<1>5. CASE ~Offered(b) /\ ~pipe[b].writeOpen /\ pipe' = [pipe EXCEPT ![b].eof = TRUE]
  <2>1. /\ pipe'[b] = [pipe[b] EXCEPT !.eof = TRUE]
        /\ \A e \in Bonds : e # b => pipe'[e] = pipe[e]
    BY <1>1, <1>2, <1>5
  <2>2. pipe'[b] \in PipeType
    BY <1>2, <2>1 DEF PipeType
  <2>3. pipe' \in [Bonds -> PipeType]
    BY <1>2, <1>5, <2>1, <2>2
  <2>4. /\ pipe'[b].got = pipe[b].got /\ pipe'[b].acked = pipe[b].acked
        /\ pipe'[b].eof = TRUE /\ pipe'[b].cut = pipe[b].cut
        /\ pipe'[b].readOpen = pipe[b].readOpen /\ pipe'[b].writeOpen = pipe[b].writeOpen
        /\ pipe'[b].round = pipe[b].round
    BY <1>2, <2>1 DEF PipeType
  <2>5. BondFits(b)'
    BY <1>1, <1>3, <1>5, <2>4 DEF BondFits
  <2> QED
    BY <1>1, <1>3, <2>1, <2>3, <2>4, <2>5, CallReturns
<1> QED
  BY <1>4, <1>5 DEF ReadReturns

LEMMA WriteKeeps ==
  ASSUME IInv, NEW c \in Coders, Working(c), UNCHANGED shape, NEW b \in shape.bonds,
         WriteReturns(c, b)
  PROVE  IInv'
<1>1. /\ b \in Bonds /\ coder[c].call = b /\ Writer(b) = c
      /\ pipe[b].writeOpen /\ ~pipe[b].cut /\ ~pipe[b].eof /\ BondFits(b)
  BY BondFacts, CallFacts, EndsOf DEF IInv, TypeOK, WriteReturns
<1>2. pipe \in [Bonds -> PipeType] /\ pipe[b] \in PipeType /\ coder \in [Coders -> CoderType]
      /\ coder[c] \in CoderType
  BY <1>1 DEF IInv, TypeOK
<1>3. /\ coder' = [coder EXCEPT ![c].call = NoBond] /\ main' = main /\ vt' = vt
      /\ pipe' = [pipe EXCEPT ![b].acked = pipe[b].got, ![b].cut = Offered(b)]
      /\ Offered(b) => ~pipe[b].readOpen
  BY DEF WriteReturns
<1>4. coder'[c].call = NoBond /\ NoBond # b
  <2>1. coder'[c] = [coder[c] EXCEPT !.call = NoBond]
    BY <1>2, <1>3
  <2> QED
    BY <1>1, <1>2, <2>1, BondFacts DEF CoderType, IInv, TypeOK
<1>5. Offered(b) \in BOOLEAN
  BY DEF Offered
<1>6. /\ pipe'[b] = [pipe[b] EXCEPT !.acked = pipe[b].got, !.cut = Offered(b)]
      /\ \A e \in Bonds : e # b => pipe'[e] = pipe[e]
  BY <1>1, <1>2, <1>3
<1>7. pipe'[b] \in PipeType
  BY <1>2, <1>5, <1>6 DEF PipeType
<1>8. pipe' \in [Bonds -> PipeType]
  BY <1>2, <1>3, <1>6, <1>7
<1>9. /\ pipe'[b].got = pipe[b].got /\ pipe'[b].acked = pipe[b].got
      /\ pipe'[b].eof = pipe[b].eof /\ pipe'[b].cut = Offered(b)
      /\ pipe'[b].readOpen = pipe[b].readOpen /\ pipe'[b].writeOpen = pipe[b].writeOpen
      /\ pipe'[b].round = pipe[b].round
  BY <1>2, <1>6 DEF PipeType
<1>10. BondFits(b)'
  BY <1>1, <1>3, <1>4, <1>9 DEF BondFits
<1> QED
  BY <1>1, <1>3, <1>6, <1>8, <1>9, <1>10, CallReturns

(* A coder returns: its own error, or a consequence of one that is known.  *)
LEMMA FinishKeeps ==
  ASSUME IInv, NEW c \in Coders, Working(c), UNCHANGED shape,
         coder[c].at = "run", coder[c].call = NoBond,
         NEW result \in Errors \cup {"ok", "cut", "throw"}, NEW own \in Errors \cup {"ok", "throw"},
         Finish(c, result, own), main' = main, vt' = vt, pipe' = pipe,
         own # "ok" => result = own,
         result \notin {"ok", "cut", "data"} => own = result,
         result = "ok" => (EncodeMode => \A b \in Ins(c) : pipe[b].eof),
         result = "cut" => WasCut(c),
         result = "throw" => c = MainCoder /\ main.pc = "code",
         InCode /\ result # "ok" /\ (EncodeMode \/ result # "cut") => own # "ok" \/ Blamed
  PROVE  IInv'
<1>1. coder[c] \in CoderType /\ coder \in [Coders -> CoderType]
  BY DEF IInv, TypeOK
<1>2. /\ coder'[c] = [coder[c] EXCEPT !.at = "release", !.result = result, !.own = own]
      /\ \A d \in Coders : d # c => coder'[d] = coder[d]
  BY <1>1 DEF Finish
<1>3. /\ coder'[c].at = "release" /\ coder'[c].result = result /\ coder'[c].own = own
      /\ coder'[c].call = NoBond
  BY <1>1, <1>2 DEF CoderType
<1>4. TypeOK'
  <2>1. coder'[c] \in CoderType
    BY <1>1, <1>2 DEF CoderType
  <2>2. coder' \in [Coders -> CoderType]
    BY <1>1, <1>2, <2>1 DEF Finish
  <2> QED
    BY <2>2 DEF IInv, TypeOK
<1>5. CodeFrame(c)
  BY <1>2, <1>3, <1>4 DEF CodeFrame
<1>6. ASSUME InCode PROVE CauseIsKnown(c)'
  <2>1. own # "ok" \/ Blamed => Blamed'
    <3>1. coder[c].own = "ok"
      BY DEF IInv, EndsFit, ToRun
    <3>2. \A d \in Coders : coder[d].own # "ok" => coder'[d].own # "ok"
      BY <1>2, <3>1
    <3> QED
      BY <1>3, <3>2 DEF Blamed
  <2>2. EncodeMode' = EncodeMode /\ Ins(c)' = Ins(c) /\ Outs(c)' = Outs(c) /\ MainCoder' = MainCoder
    BY DEF EncodeMode, Ins, Outs, MainCoder
  <2>3. result = "cut" => \E b \in Outs(c) : pipe[b].cut
    BY DEF WasCut
  <2> QED
    BY <1>3, <1>6, <2>1, <2>2, <2>3 DEF CauseIsKnown
<1>7. \A b \in shape.bonds : BondFits(b)'
  <2>1. \A d \in Coders : coder'[d].call = coder[d].call
    BY <1>2, <1>3
  <2> QED
    BY <2>1, BondFacts DEF IInv, TypeOK, BondFits
<1> QED
  BY <1>5, <1>6, <1>7, CodeKeeps

(* Who sees an end of a bond closed knows a coder that has returned.       *)
LEMMA OtherEnd ==
  ASSUME IInv, InCode, NEW b \in shape.bonds
  PROVE  /\ ~pipe[b].readOpen => CauseIsKnown(Reader(b))
         /\ ~pipe[b].writeOpen => CauseIsKnown(Writer(b))
<1>1. Reader(b) \in Coders /\ Writer(b) \in Coders
  BY BondFacts DEF IInv, TypeOK
<1>2. b \in Ins(Reader(b)) /\ b \in Outs(Writer(b))
  BY EndsOf
<1> QED
  BY <1>1, <1>2 DEF IInv, EndsFit

LEMMA CutIsBlamed ==
  ASSUME IInv, InCode, EncodeMode, NEW c \in Coders, WasCut(c)
  PROVE  Blamed
<1>1. PICK b \in Outs(c) : pipe[b].cut
  BY DEF WasCut
<1>2. b \in shape.bonds /\ BondFits(b)
  BY EndsOf, BondFacts DEF IInv, TypeOK
<1>3. ~pipe[b].readOpen /\ ~pipe[b].eof
  BY <1>1, <1>2 DEF BondFits
<1>4. CauseIsKnown(Reader(b)) /\ b \in Ins(Reader(b))
  BY <1>2, <1>3, OtherEnd, EndsOf
<1> QED
  BY <1>3, <1>4 DEF CauseIsKnown

LEMMA TruncatedIsBlamed ==
  ASSUME IInv, InCode, NEW c \in Coders, Truncated(c)
  PROVE  Blamed
<1>1. PICK b \in Ins(c) : pipe[b].eof /\ coder[Writer(b)].result # "ok"
  BY DEF Truncated
<1>2. b \in shape.bonds /\ BondFits(b) /\ shape \in Shapes
  BY EndsOf, BondFacts DEF IInv, TypeOK
<1>3. ~pipe[b].writeOpen /\ ~pipe[b].cut
  BY <1>1, <1>2 DEF BondFits
<1>4. CauseIsKnown(Writer(b))
  BY <1>2, <1>3, OtherEnd
<1>5. EncodeMode \/ coder[Writer(b)].result # "cut"
  <2>1. SUFFICES ASSUME ~EncodeMode, coder[Writer(b)].result = "cut" PROVE FALSE
    OBVIOUS
  <2>2. PICK d \in Outs(Writer(b)) : pipe[d].cut
    BY <1>4, <2>1 DEF CauseIsKnown
  <2>3. d = b
    BY <1>2, <2>1, <2>2, EndsOf, BondFacts
  <2> QED
    BY <1>3, <2>2, <2>3
<1> QED
  BY <1>1, <1>4, <1>5 DEF CauseIsKnown

LEMMA CoderReturnsKeeps ==
  ASSUME IInv, NEW c \in Coders, Working(c), UNCHANGED shape, CoderReturns(c)
  PROVE  IInv'
<1>1. coder[c].at = "run" /\ coder[c].call = NoBond /\ main' = main /\ vt' = vt /\ pipe' = pipe
  BY DEF CoderReturns, Free
<1>2. CASE WasCut(c) /\ Finish(c, "cut", "ok")
  BY <1>1, <1>2, CutIsBlamed, FinishKeeps
<1>3. CASE ~WasCut(c) /\ Content(c) /\ Finish(c, "ok", "ok")
  BY <1>1, <1>3, FinishKeeps DEF Content
<1>4. CASE ~WasCut(c) /\ Truncated(c) /\ Finish(c, "data", "ok")
  <2>1. "data" \in Errors
    BY DEF Errors
  <2> QED
    BY <1>1, <1>4, <2>1, TruncatedIsBlamed, FinishKeeps
<1>5. CASE \E f \in OwnFaults : Finish(c, f, f)
  <2>1. PICK f \in OwnFaults : Finish(c, f, f)
    BY <1>5
  <2>2. f \in Errors /\ f \notin {"ok", "cut", "throw"}
    BY CoderFacts DEF Errors
  <2> QED
    BY <1>1, <2>1, <2>2, FinishKeeps
<1> QED
  BY <1>2, <1>3, <1>4, <1>5 DEF CoderReturns

LEMMA CoderThrowsKeeps ==
  ASSUME IInv, NEW c \in Coders, Working(c), UNCHANGED shape, CoderThrows(c)
  PROVE  IInv'
<1>1. coder[c].at = "run" /\ coder[c].call = NoBond /\ main' = main /\ vt' = vt /\ pipe' = pipe
  BY DEF CoderThrows, Free
<1>2. CASE c = MainCoder /\ Finish(c, "throw", "throw")
  <2>1. main.pc = "code"
    BY <1>1, <1>2 DEF IInv, Lifecycle
  <2> QED
    BY <1>1, <1>2, <2>1, FinishKeeps
<1>3. CASE Finish(c, "fail", "fail")
  <2>1. "fail" \in Errors
    BY DEF Errors
  <2> QED
    BY <1>1, <1>3, <2>1, FinishKeeps
<1> QED
  BY <1>2, <1>3 DEF CoderThrows

(* The coder lets go of its streams.                                       *)
LEMMA CloseEffect ==
  ASSUME TypeOK, NEW c \in Coders, NEW b \in Held(c), CloseEnd(c, b)
  PROVE  /\ pipe' \in [Bonds -> PipeType] /\ b \in shape.bonds
         /\ \A e \in Bonds : e # b => pipe'[e] = pipe[e]
         /\ pipe'[b].got = pipe[b].got /\ pipe'[b].acked = pipe[b].acked
         /\ pipe'[b].eof = pipe[b].eof /\ pipe'[b].cut = pipe[b].cut
         /\ pipe'[b].round = pipe[b].round
         /\ \/ /\ Reader(b) = c /\ ~pipe'[b].readOpen
               /\ pipe'[b].writeOpen = pipe[b].writeOpen
               /\ pipe' = [pipe EXCEPT ![b].readOpen = FALSE]
            \/ /\ Writer(b) = c /\ ~pipe'[b].writeOpen
               /\ pipe'[b].readOpen = pipe[b].readOpen
               /\ pipe' = [pipe EXCEPT ![b].writeOpen = FALSE]
<1>1. b \in shape.bonds /\ b \in Bonds /\ (Reader(b) = c \/ Writer(b) = c)
  BY EndsOf, BondFacts DEF Held, TypeOK
<1>2. pipe \in [Bonds -> PipeType] /\ pipe[b] \in PipeType
  BY <1>1 DEF TypeOK
<1>3. CASE Reader(b) = c
  <2>1. pipe' = [pipe EXCEPT ![b].readOpen = FALSE]
    BY <1>3 DEF CloseEnd
  <2>2. /\ pipe'[b] = [pipe[b] EXCEPT !.readOpen = FALSE]
        /\ \A e \in Bonds : e # b => pipe'[e] = pipe[e]
    BY <1>1, <1>2, <2>1
  <2>3. pipe'[b] \in PipeType
    BY <1>2, <2>2 DEF PipeType
  <2>4. pipe' \in [Bonds -> PipeType]
    BY <1>2, <2>1, <2>2, <2>3
  <2>5. /\ pipe'[b].got = pipe[b].got /\ pipe'[b].acked = pipe[b].acked
        /\ pipe'[b].eof = pipe[b].eof /\ pipe'[b].cut = pipe[b].cut
        /\ pipe'[b].round = pipe[b].round
        /\ ~pipe'[b].readOpen /\ pipe'[b].writeOpen = pipe[b].writeOpen
    BY <1>2, <2>2 DEF PipeType
  <2> QED
    BY <1>1, <1>3, <2>1, <2>2, <2>4, <2>5
<1>4. CASE Reader(b) # c
  <2>1. pipe' = [pipe EXCEPT ![b].writeOpen = FALSE]
    BY <1>4 DEF CloseEnd
  <2>2. /\ pipe'[b] = [pipe[b] EXCEPT !.writeOpen = FALSE]
        /\ \A e \in Bonds : e # b => pipe'[e] = pipe[e]
    BY <1>1, <1>2, <2>1
  <2>3. pipe'[b] \in PipeType
    BY <1>2, <2>2 DEF PipeType
  <2>4. pipe' \in [Bonds -> PipeType]
    BY <1>2, <2>1, <2>2, <2>3
  <2>5. /\ pipe'[b].got = pipe[b].got /\ pipe'[b].acked = pipe[b].acked
        /\ pipe'[b].eof = pipe[b].eof /\ pipe'[b].cut = pipe[b].cut
        /\ pipe'[b].round = pipe[b].round
        /\ ~pipe'[b].writeOpen /\ pipe'[b].readOpen = pipe[b].readOpen
    BY <1>2, <2>2 DEF PipeType
  <2> QED
    BY <1>1, <1>4, <2>1, <2>2, <2>4, <2>5
<1> QED
  BY <1>3, <1>4

LEMMA ReleaseKeeps ==
  ASSUME IInv, NEW c \in Coders, Working(c), UNCHANGED shape, Release(c)
  PROVE  IInv'
<1>1. coder[c].at = "release" /\ main' = main /\ vt' = vt /\ ~ToRun(c) /\ c \in Coders
  BY WorkingFacts DEF Release
<1>2. coder[c] \in CoderType /\ coder \in [Coders -> CoderType] /\ coder[c].call = NoBond /\ TypeOK
  BY <1>1 DEF IInv, TypeOK, Lifecycle
<1>3. InCode => CauseIsKnown(c)
  BY <1>1 DEF IInv
<1>4. CASE coder' = coder /\ \E b \in Held(c) : CloseEnd(c, b)
  <2>1. PICK b \in Held(c) : CloseEnd(c, b)
    BY <1>4
  <2>2. /\ pipe' \in [Bonds -> PipeType] /\ b \in shape.bonds
        /\ \A e \in Bonds : e # b => pipe'[e] = pipe[e]
        /\ pipe'[b].got = pipe[b].got /\ pipe'[b].acked = pipe[b].acked
        /\ pipe'[b].eof = pipe[b].eof /\ pipe'[b].cut = pipe[b].cut
        /\ pipe'[b].round = pipe[b].round
        /\ \/ Reader(b) = c /\ ~pipe'[b].readOpen /\ pipe'[b].writeOpen = pipe[b].writeOpen
           \/ Writer(b) = c /\ ~pipe'[b].writeOpen /\ pipe'[b].readOpen = pipe[b].readOpen
    BY <1>2, <2>1, CloseEffect
  <2>3. TypeOK'
    BY <1>1, <1>2, <1>4, <2>2 DEF TypeOK
  <2>4. CodeFrame(c)
    BY <1>1, <1>2, <1>4, <2>2, <2>3 DEF CodeFrame
  <2>5. InCode => CauseIsKnown(c)'
    <3>1. \A e \in Bonds : pipe'[e].eof = pipe[e].eof /\ pipe'[e].cut = pipe[e].cut
      BY <2>2
    <3>2. /\ \A e \in Ins(c) : pipe'[e].eof = pipe[e].eof
          /\ \A e \in Outs(c) : pipe'[e].cut = pipe[e].cut
      BY <1>2, <3>1, EndsOf, BondFacts DEF TypeOK
    <3>3. /\ EncodeMode' = EncodeMode /\ Ins(c)' = Ins(c) /\ Outs(c)' = Outs(c)
          /\ MainCoder' = MainCoder /\ Blamed' = Blamed
      BY <1>1, <1>4 DEF EncodeMode, Ins, Outs, MainCoder, Blamed
    <3> QED
      BY <1>1, <1>3, <1>4, <3>2, <3>3 DEF CauseIsKnown
  <2>6. ASSUME NEW e \in shape.bonds PROVE BondFits(e)'
    <3>1. BondFits(e) /\ e \in Bonds /\ main.pc # "reinit"
      BY <1>2, BondFacts, WorkingFacts DEF IInv, TypeOK
    <3>2. /\ pipe'[e].got = pipe[e].got /\ pipe'[e].acked = pipe[e].acked
          /\ pipe'[e].eof = pipe[e].eof /\ pipe'[e].cut = pipe[e].cut
          /\ pipe'[e].round = pipe[e].round
          /\ pipe'[e].readOpen => pipe[e].readOpen
          /\ pipe'[e].writeOpen => pipe[e].writeOpen
      BY <2>2, <3>1, PipeFacts, <1>2
    <3> QED
      BY <1>1, <1>4, <3>1, <3>2 DEF BondFits
  <2> QED
    BY <2>4, <2>5, <2>6, CodeKeeps
<1>5. CASE Held(c) = {} /\ coder' = [coder EXCEPT ![c].at = "done"] /\ pipe' = pipe
  <2>1. /\ coder'[c] = [coder[c] EXCEPT !.at = "done"]
        /\ \A d \in Coders : d # c => coder'[d] = coder[d]
    BY <1>2, <1>5
  <2>2. /\ coder'[c].at = "done" /\ coder'[c].result = coder[c].result
        /\ coder'[c].own = coder[c].own /\ coder'[c].call = NoBond
    BY <1>2, <2>1 DEF CoderType
  <2>3. coder'[c] \in CoderType
    BY <1>2, <2>1 DEF CoderType
  <2>4. coder' \in [Coders -> CoderType]
    BY <1>2, <1>5, <2>1, <2>3
  <2>5. TypeOK'
    BY <1>1, <1>2, <1>5, <2>4 DEF TypeOK
  <2>6. /\ EncodeMode' = EncodeMode /\ Ins(c)' = Ins(c) /\ Outs(c)' = Outs(c)
        /\ MainCoder' = MainCoder
    BY <1>1 DEF EncodeMode, Ins, Outs, MainCoder
  <2>7. Held(c)' = {}
    BY <1>5, <2>6 DEF Held
  <2>8. CodeFrame(c)
    BY <1>1, <1>2, <1>5, <2>1, <2>2, <2>5, <2>7 DEF CodeFrame
  <2>9. InCode => CauseIsKnown(c)'
    <3>1. Blamed' = Blamed
      <4>1. \A d \in Coders : coder'[d].own = coder[d].own
        BY <2>1, <2>2
      <4> QED
        BY <4>1 DEF Blamed
    <3> QED
      BY <1>1, <1>3, <1>5, <2>2, <2>6, <3>1 DEF CauseIsKnown
  <2>10. \A b \in shape.bonds : BondFits(b)'
    <3>1. \A d \in Coders : coder'[d].call = coder[d].call
      BY <1>2, <2>1, <2>2
    <3> QED
      BY <1>1, <1>5, <3>1, BondFacts DEF IInv, TypeOK, BondFits
  <2> QED
    BY <2>8, <2>9, <2>10, CodeKeeps
<1> QED
  BY <1>4, <1>5 DEF Release

LEMMA CodeStepKeeps ==
  ASSUME IInv, NEW c \in Coders, Working(c), UNCHANGED shape, CodeStep(c)
  PROVE  IInv'
BY CallKeeps, ReadKeeps, WriteKeeps, CoderReturnsKeeps, CoderThrowsKeeps, ReleaseKeeps DEF CodeStep

-----------------------------------------------------------------------------
(* The loop of a worker: it and its coder change place, and no more.       *)
LEMMA PlaceKeeps ==
  ASSUME IInv, NEW c \in Coders, TypeOK', main' = main, shape' = shape, pipe' = pipe,
         \A d \in Coders : d # c => vt'[d] = vt[d] /\ coder'[d] = coder[d],
         coder'[c].own = coder[c].own, coder'[c].result = coder[c].result,
         coder'[c].call = coder[c].call, Lifecycle(c)', Rendezvous(c)', EndsFit(c)',
         InCode /\ ~ToRun(c)' => CauseIsKnown(c)
  PROVE  IInv'
<1>1. /\ InCode' = InCode /\ Told' = Told /\ MainCoder' = MainCoder /\ EncodeMode' = EncodeMode
      /\ \A d : Stopped(d)' = Stopped(d) /\ Joined(d)' = Joined(d)
                /\ Ins(d)' = Ins(d) /\ Outs(d)' = Outs(d) /\ Held(d)' = Held(d)
  BY DEF InCode, Told, MainCoder, EncodeMode, Stopped, Joined, Ins, Outs, Held
<1>2. \A d \in Coders : /\ coder'[d].own = coder[d].own /\ coder'[d].result = coder[d].result
                        /\ coder'[d].call = coder[d].call
  OBVIOUS
<1>3. Blamed' = Blamed
  BY <1>2 DEF Blamed
<1>4. ASSUME NEW d \in Coders, d # c
      PROVE  /\ Lifecycle(d)' /\ Rendezvous(d)' /\ EndsFit(d)'
             /\ InCode /\ ~ToRun(d)' => CauseIsKnown(d)
  <2>1. Lifecycle(d) /\ Rendezvous(d) /\ EndsFit(d) /\ (InCode /\ ~ToRun(d) => CauseIsKnown(d))
    BY DEF IInv
  <2>2. (Quiet(d)' <=> Quiet(d)) /\ (Started(d)' <=> Started(d)) /\ (ToRun(d)' <=> ToRun(d))
    BY <1>1, <1>4 DEF Quiet, Started, ToRun
  <2>3. Lifecycle(d)'
    BY <1>1, <1>4, <2>1 DEF Lifecycle
  <2>4. Rendezvous(d)'
    BY <1>1, <1>4, <2>1, <2>2 DEF Rendezvous
  <2>5. EndsFit(d)'
    BY <1>1, <1>4, <2>1, <2>2 DEF EndsFit
  <2> QED
    BY <2>1, <2>2, <2>3, <2>4, <2>5
<1>5. \A d \in Coders : /\ Lifecycle(d)' /\ Rendezvous(d)' /\ EndsFit(d)'
                        /\ InCode /\ ~ToRun(d)' => CauseIsKnown(d)
  BY <1>4
<1>6. \A d \in Coders : CauseIsKnown(d) => CauseIsKnown(d)'
  BY <1>1, <1>2, <1>3 DEF CauseIsKnown
<1>7. \A b \in Bonds : IF b \in shape'.bonds THEN BondFits(b)' ELSE pipe'[b] = FreshPipe
  BY <1>2, BondFacts DEF BondFits, IInv, TypeOK
<1>8. SuccessIsWhole' /\ RootCause'
  <2>1. SuccessIsWhole'
    BY <1>2, BondFacts DEF SuccessIsWhole, JustReturned, IInv, TypeOK
  <2>2. RootCause'
    <3>1. {coder'[d].own : d \in Coders} = {coder[d].own : d \in Coders}
      BY <1>2
    <3> QED
      BY <1>2, <3>1 DEF RootCause, JustReturned, IInv
  <2> QED
    BY <2>1, <2>2
<1>9. MainFits'
  BY DEF IInv, MainFits
<1> QED
  BY <1>1, <1>5, <1>6, <1>7, <1>8, <1>9 DEF IInv

LEMMA WakeUpKeeps ==
  ASSUME IInv, NEW c \in Coders, UNCHANGED shape, WakeUp(c)
  PROVE  IInv'
<1>1. /\ vt[c].pc = "wait" /\ vt[c].start /\ main' = main /\ pipe' = pipe
      /\ vt' = [vt EXCEPT ![c].start = FALSE,
                          ![c].pc = IF vt[c].exit THEN "exited" ELSE "execute"]
      /\ coder' = IF vt[c].exit THEN coder ELSE [coder EXCEPT ![c].at = "run"]
  BY DEF WakeUp
<1>2. /\ vt \in [Coders -> ThreadType] /\ vt[c] \in ThreadType
      /\ coder \in [Coders -> CoderType] /\ coder[c] \in CoderType /\ TypeOK
      /\ Lifecycle(c) /\ Rendezvous(c) /\ EndsFit(c) /\ ~Quiet(c)
      /\ InCode /\ ~ToRun(c) => CauseIsKnown(c)
  BY <1>1 DEF IInv, TypeOK, Quiet
<1>3. /\ vt'[c] = [vt[c] EXCEPT !.start = FALSE,
                                !.pc = IF vt[c].exit THEN "exited" ELSE "execute"]
      /\ \A d \in Coders : d # c => vt'[d] = vt[d]
  BY <1>1, <1>2
<1>4. /\ ~vt'[c].start /\ vt'[c].exit = vt[c].exit /\ vt'[c].finished = vt[c].finished
      /\ vt'[c].pc = IF vt[c].exit THEN "exited" ELSE "execute"
  BY <1>2, <1>3 DEF ThreadType
<1>5. vt' \in [Coders -> ThreadType]
  <2>1. vt'[c] \in ThreadType
    BY <1>2, <1>3 DEF ThreadType
  <2> QED
    BY <1>1, <1>2, <1>3, <2>1
<1>6. /\ InCode' = InCode /\ Told' = Told /\ MainCoder' = MainCoder
      /\ \A d : Stopped(d)' = Stopped(d) /\ Joined(d)' = Joined(d)
                /\ Ins(d)' = Ins(d) /\ Outs(d)' = Outs(d) /\ Held(d)' = Held(d)
  BY <1>1 DEF InCode, Told, MainCoder, Stopped, Joined, Ins, Outs, Held
<1>7. CASE vt[c].exit
  <2>1. coder' = coder /\ TypeOK' /\ vt'[c].pc = "exited"
    BY <1>1, <1>2, <1>4, <1>5, <1>7 DEF TypeOK
  <2>2. Stopped(c) /\ main.pc \in {"destroy", "join", "gone"}
    BY <1>2, <1>7 DEF Lifecycle, Stopped
  <2>3. coder[c].at = "rest"
    BY <1>1, <1>2, <2>2 DEF Lifecycle
  <2>4. Lifecycle(c)'
    BY <1>1, <1>2, <1>4, <1>6, <1>7, <2>1, <2>2, <2>3 DEF Lifecycle
  <2>5. Rendezvous(c)'
    BY <1>1, <2>2 DEF Rendezvous
  <2>6. EndsFit(c)' /\ ~InCode
    BY <1>1, <1>4, <1>6, <1>7, <2>1, <2>2, <2>3 DEF EndsFit, ToRun, InCode, Told
  <2> QED
    BY <1>1, <1>3, <2>1, <2>4, <2>5, <2>6, PlaceKeeps
<1>8. CASE ~vt[c].exit
  <2>1. coder' = [coder EXCEPT ![c].at = "run"] /\ vt'[c].pc = "execute" /\ c # MainCoder
    BY <1>1, <1>2, <1>4, <1>8 DEF Lifecycle
  <2>2. /\ coder'[c] = [coder[c] EXCEPT !.at = "run"]
        /\ \A d \in Coders : d # c => coder'[d] = coder[d]
    BY <1>2, <2>1
  <2>3. /\ coder'[c].at = "run" /\ coder'[c].own = coder[c].own
        /\ coder'[c].result = coder[c].result /\ coder'[c].call = coder[c].call
    BY <1>2, <2>2 DEF CoderType
  <2>4. TypeOK'
    <3>1. coder'[c] \in CoderType
      BY <1>2, <2>2 DEF CoderType
    <3>2. coder' \in [Coders -> CoderType]
      BY <1>2, <2>1, <2>2, <3>1
    <3> QED
      BY <1>1, <1>2, <1>5, <3>2 DEF TypeOK
  <2>5. Lifecycle(c)'
    BY <1>1, <1>2, <1>4, <1>6, <1>8, <2>1, <2>3 DEF Lifecycle
  <2>6. Rendezvous(c)'
    <3>1. Started(c) => Started(c)'
      BY <1>1, <1>4, <2>1 DEF Started
    <3> QED
      BY <1>1, <1>2, <1>6, <2>1, <3>1 DEF Rendezvous
  <2>7. ToRun(c) /\ ToRun(c)'
    BY <1>1, <1>8, <2>3 DEF ToRun
  <2>8. ~Told
    BY <1>2 DEF Rendezvous, Told, Errors
  <2>9. EndsFit(c)'
    BY <1>1, <1>2, <1>6, <2>3, <2>7, <2>8 DEF EndsFit
  <2> QED
    BY <1>1, <1>3, <2>2, <2>3, <2>4, <2>5, <2>6, <2>7, <2>9, PlaceKeeps
<1> QED
  BY <1>7, <1>8

LEMMA ExecutedKeeps ==
  ASSUME IInv, NEW c \in Coders, UNCHANGED shape, Executed(c)
  PROVE  IInv'
<1>1. /\ vt[c].pc = "execute" /\ coder[c].at = "done" /\ main' = main /\ pipe' = pipe
      /\ coder' = [coder EXCEPT ![c].at = "rest"]
      /\ vt' = [vt EXCEPT ![c].pc = "wait", ![c].finished = TRUE]
  BY DEF Executed
<1>2. /\ vt \in [Coders -> ThreadType] /\ vt[c] \in ThreadType
      /\ coder \in [Coders -> CoderType] /\ coder[c] \in CoderType /\ TypeOK
      /\ Lifecycle(c) /\ Rendezvous(c) /\ EndsFit(c) /\ ~Quiet(c)
      /\ InCode /\ ~ToRun(c) => CauseIsKnown(c)
  BY <1>1 DEF IInv, TypeOK, Quiet
<1>3. /\ vt'[c] = [vt[c] EXCEPT !.pc = "wait", !.finished = TRUE]
      /\ coder'[c] = [coder[c] EXCEPT !.at = "rest"]
      /\ \A d \in Coders : d # c => vt'[d] = vt[d] /\ coder'[d] = coder[d]
  BY <1>1, <1>2
<1>4. /\ vt'[c].start = vt[c].start /\ vt'[c].exit = vt[c].exit /\ vt'[c].finished
      /\ vt'[c].pc = "wait"
      /\ coder'[c].at = "rest" /\ coder'[c].own = coder[c].own
      /\ coder'[c].result = coder[c].result /\ coder'[c].call = coder[c].call
  BY <1>2, <1>3 DEF ThreadType, CoderType
<1>5. TypeOK'
  <2>1. vt'[c] \in ThreadType /\ coder'[c] \in CoderType
    BY <1>2, <1>3 DEF ThreadType, CoderType
  <2>2. vt' \in [Coders -> ThreadType] /\ coder' \in [Coders -> CoderType]
    BY <1>1, <1>2, <1>3, <2>1
  <2> QED
    BY <1>1, <1>2, <2>2 DEF TypeOK
<1>6. /\ InCode' = InCode /\ Told' = Told /\ MainCoder' = MainCoder
      /\ \A d : Stopped(d)' = Stopped(d) /\ Joined(d)' = Joined(d)
                /\ Ins(d)' = Ins(d) /\ Outs(d)' = Outs(d) /\ Held(d)' = Held(d)
  BY <1>1 DEF InCode, Told, MainCoder, Stopped, Joined, Ins, Outs, Held
<1>7. Working(c) /\ ~ToRun(c) /\ ~Told
  BY <1>1, WorkingFacts DEF Working
<1>8. ~(vt[c].start /\ ~vt[c].exit) /\ c # MainCoder /\ coder[c].call = NoBond
  BY <1>1, <1>2 DEF Lifecycle
<1>9. ~ToRun(c)'
  BY <1>1, <1>4, <1>6, <1>7 DEF ToRun
<1>10. Lifecycle(c)'
  BY <1>1, <1>2, <1>4, <1>6, <1>8 DEF Lifecycle
<1>11. Rendezvous(c)'
  <2>1. Started(c) => Started(c)'
    BY <1>1, <1>4 DEF Started
  <2> QED
    BY <1>1, <1>2, <1>6, <1>8, <2>1 DEF Rendezvous
<1>12. EndsFit(c)'
  BY <1>1, <1>2, <1>6, <1>7, <1>9 DEF EndsFit
<1> QED
  BY <1>1, <1>2, <1>3, <1>4, <1>5, <1>7, <1>10, <1>11, <1>12, PlaceKeeps

LEMMA WorkerStepKeeps ==
  ASSUME IInv, NEW c \in Coders, UNCHANGED shape, WorkerStep(c)
  PROVE  IInv'
BY WakeUpKeeps, ExecutedKeeps, CodeStepKeeps DEF WorkerStep, Working

-----------------------------------------------------------------------------
(* The calling thread.  Most of its steps leave streams and results alone. *)
LEMMA MainKeeps ==
  ASSUME IInv, TypeOK', MainFits', UNCHANGED <<shape, pipe>>, main'.round = main.round,
         main.pc # "reinit", main'.pc # "reinit", ~Told',
         \A c \in Coders :
           /\ coder'[c].own = coder[c].own /\ coder'[c].result = coder[c].result
           /\ coder'[c].call = coder[c].call
           /\ coder'[c].at = "release" <=> coder[c].at = "release"
           /\ Lifecycle(c)' /\ Rendezvous(c)'
           /\ ToRun(c)' => ToRun(c)
           /\ InCode' /\ ~ToRun(c)' => InCode /\ ~ToRun(c)
           /\ InCode' /\ coder[c].result = "throw" /\ CauseIsKnown(c) =>
                c = MainCoder' /\ main'.pc = "code"
  PROVE  IInv'
<1>1. /\ EncodeMode' = EncodeMode
      /\ \A d : Ins(d)' = Ins(d) /\ Outs(d)' = Outs(d) /\ Held(d)' = Held(d)
  BY DEF EncodeMode, Ins, Outs, Held
<1>2. Blamed' = Blamed
  BY DEF Blamed
<1>3. ASSUME NEW c \in Coders PROVE EndsFit(c)'
  <2>1. EndsFit(c)
    BY DEF IInv
  <2>2. InCode' /\ ~ToRun(c)' /\ coder'[c].at # "release" => Held(c) = {}
    BY <2>1 DEF EndsFit
  <2>3. ToRun(c)' =>
          /\ coder'[c].own = "ok"
          /\ \A b \in Ins(c) : pipe[b].readOpen
          /\ \A b \in Outs(c) : pipe[b].writeOpen
    BY <2>1 DEF EndsFit
  <2> QED
    BY <1>1, <2>2, <2>3 DEF EndsFit
<1>4. ASSUME NEW c \in Coders, InCode', ~ToRun(c)' PROVE CauseIsKnown(c)'
  <2>1. CauseIsKnown(c)
    BY <1>4 DEF IInv
  <2> QED
    BY <1>1, <1>2, <1>4, <2>1 DEF CauseIsKnown
<1>5. \A b \in Bonds : IF b \in shape'.bonds THEN BondFits(b)' ELSE pipe'[b] = FreshPipe
  BY BondFacts DEF BondFits, IInv, TypeOK
<1>6. SuccessIsWhole' /\ RootCause'
  BY DEF SuccessIsWhole, RootCause, JustReturned, Told
<1> QED
  BY <1>3, <1>4, <1>5, <1>6 DEF IInv

(* The parts of the invariant, as they are used here.                      *)
LEMMA Parts ==
  ASSUME IInv
  PROVE  /\ TypeOK /\ MainFits /\ main \in MainType
         /\ vt \in [Coders -> ThreadType] /\ coder \in [Coders -> CoderType]
         /\ pipe \in [Bonds -> PipeType] /\ shape \in Shapes
         /\ \A c \in Coders : /\ Lifecycle(c) /\ Rendezvous(c) /\ EndsFit(c)
                              /\ vt[c] \in ThreadType /\ coder[c] \in CoderType
BY DEF IInv, TypeOK

LEMMA InTheLoops ==
  ASSUME IInv, InCode
  PROVE  /\ main.pc \notin {"reinit", "idle", "destroy", "join", "gone"}
         /\ ~Told /\ main.returned = "none"
         /\ \A c \in Coders : ~Stopped(c) /\ ~Joined(c) /\ ~vt[c].exit
<1>1. main.pc \notin {"reinit", "idle", "destroy", "join", "gone"} /\ main.returned = "none"
  BY Parts DEF InCode, MainFits
<1>2. ~Told /\ \A c \in Coders : ~Stopped(c) /\ ~Joined(c)
  BY <1>1 DEF Told, Stopped, Joined
<1> QED
  BY <1>1, <1>2, Parts DEF Lifecycle

LEMMA SkipMainCoderKeeps ==
  ASSUME IInv, UNCHANGED shape, SkipMainCoder
  PROVE  IInv'
<1>1. /\ main.pc \in {"create", "start", "await"} /\ main.i = MainCoder
      /\ main' = [main EXCEPT !.i = @ + 1] /\ vt' = vt /\ coder' = coder /\ pipe' = pipe
  BY DEF SkipMainCoder, NextCoder
<1>2. main.i \in Coders /\ main.i + 1 \in -1..NumCoders /\ main.i >= 0
  BY <1>1, Parts, MainFacts, CoderFacts
<1>3. /\ main' \in MainType /\ main'.i = main.i + 1 /\ main'.pc = main.pc
      /\ main'.coder = main.coder /\ main'.round = main.round /\ main'.returned = main.returned
      /\ main'.todo = main.todo
  BY <1>1, <1>2, Parts DEF MainType
<1>4. TypeOK'
  BY <1>1, <1>3, Parts DEF TypeOK
<1>5. InCode /\ InCode' /\ MainCoder' = MainCoder
  BY <1>1, <1>3 DEF InCode, MainCoder
<1>6. MainFits'
  BY <1>1, <1>2, <1>3, <1>5, Parts, InTheLoops, CoderFacts DEF MainFits
<1>7. ~Told' /\ main.pc # "reinit" /\ main'.pc # "reinit"
  BY <1>1, <1>3 DEF Told
<1>8. ASSUME NEW c \in Coders
      PROVE  /\ c < main'.i /\ c # MainCoder <=> c < main.i /\ c # MainCoder
             /\ main'.i <= c \/ c = MainCoder <=> main.i <= c \/ c = MainCoder
  BY <1>1, <1>2, <1>3, CoderFacts
<1>9. ASSUME NEW c \in Coders PROVE Lifecycle(c)' /\ Rendezvous(c)' /\ (ToRun(c)' <=> ToRun(c))
  <2>1. Stopped(c)' = Stopped(c) /\ Joined(c)' = Joined(c)
    BY <1>1, <1>3 DEF Stopped, Joined
  <2>2. Ins(c)' = Ins(c) /\ Outs(c)' = Outs(c)
    BY DEF Ins, Outs
  <2>3. Lifecycle(c)'
    BY <1>1, <1>3, <1>5, <2>1, <2>2, Parts DEF Lifecycle
  <2>4. (Quiet(c)' <=> Quiet(c)) /\ (Started(c)' <=> Started(c))
    BY <1>1 DEF Quiet, Started
  <2>5. ToRun(c)' <=> ToRun(c)
    BY <1>1, <1>3, <1>5, <1>8 DEF ToRun
  <2>6. main'.i <= c /\ c # MainCoder <=> main.i <= c /\ c # MainCoder
    BY <1>1, <1>2, <1>3, CoderFacts
  <2>7. Rendezvous(c)'
    BY <1>1, <1>3, <1>5, <1>8, <2>4, <2>6, Parts DEF Rendezvous
  <2> QED
    BY <2>3, <2>5, <2>7
<1>10. \A c \in Coders : coder[c].result = "throw" /\ CauseIsKnown(c) => main.pc = "code"
  BY DEF CauseIsKnown
<1> QED
  BY <1>1, <1>3, <1>4, <1>5, <1>6, <1>7, <1>9, <1>10, MainKeeps

(* A step that moves one worker and goes on to the next.                   *)
LEMMA NextCoderFacts ==
  ASSUME IInv, main.i \in Coders, main.pc \in {"create", "start", "await"},
         main' = [main EXCEPT !.i = @ + 1]
  PROVE  /\ main' \in MainType /\ main'.i = main.i + 1 /\ main'.pc = main.pc
         /\ main'.coder = main.coder /\ main'.round = main.round
         /\ main'.returned = main.returned /\ main'.todo = main.todo
         /\ InCode /\ InCode' /\ MainCoder' = MainCoder /\ ~Told'
         /\ main.pc # "reinit" /\ main'.pc # "reinit"
         /\ UNCHANGED shape => MainFits'
<1>1. main.i + 1 \in -1..NumCoders /\ main.i >= 0
  BY CoderFacts
<1>2. /\ main' \in MainType /\ main'.i = main.i + 1 /\ main'.pc = main.pc
      /\ main'.coder = main.coder /\ main'.round = main.round
      /\ main'.returned = main.returned /\ main'.todo = main.todo
  BY <1>1, Parts DEF MainType
<1>3. InCode /\ InCode' /\ MainCoder' = MainCoder /\ ~Told'
  BY <1>2 DEF InCode, MainCoder, Told
<1>4. UNCHANGED shape => MainFits'
  BY <1>1, <1>2, <1>3, Parts, InTheLoops, CoderFacts DEF MainFits
<1> QED
  BY <1>2, <1>3, <1>4

LEMMA OthersWait ==
  ASSUME IInv, UNCHANGED shape, NEW c \in Coders, main.i \in Coders, c # main.i,
         main' = [main EXCEPT !.i = @ + 1], main.pc \in {"create", "start", "await"},
         coder' = coder, vt'[c] = vt[c]
  PROVE  Lifecycle(c)' /\ Rendezvous(c)' /\ (ToRun(c)' <=> ToRun(c))
<1>1. /\ main'.i = main.i + 1 /\ main'.pc = main.pc /\ main'.returned = main.returned
      /\ InCode /\ InCode' /\ MainCoder' = MainCoder
  BY NextCoderFacts
<1>2. Stopped(c)' = Stopped(c) /\ Joined(c)' = Joined(c)
  BY <1>1 DEF Stopped, Joined
<1>3. Ins(c)' = Ins(c) /\ Outs(c)' = Outs(c)
  BY DEF Ins, Outs
<1>4. Lifecycle(c)'
  BY <1>1, <1>2, <1>3, Parts DEF Lifecycle
<1>5. (Quiet(c)' <=> Quiet(c)) /\ (Started(c)' <=> Started(c))
  BY DEF Quiet, Started
<1>6. (c < main'.i <=> c < main.i) /\ (main'.i <= c <=> main.i <= c)
  BY <1>1, CoderFacts
<1>7. ToRun(c)' <=> ToRun(c)
  BY <1>1, <1>6 DEF ToRun
<1>8. Rendezvous(c)'
  BY <1>1, <1>5, <1>6, Parts DEF Rendezvous
<1> QED
  BY <1>4, <1>7, <1>8

LEMMA CreateWorkerKeeps ==
  ASSUME IInv, UNCHANGED shape, CreateWorker
  PROVE  IInv'
<1>0. PICK w \in Coders : w = main.i
  BY DEF CreateWorker
<1>1. /\ main.pc = "create" /\ w \in Coders /\ w # MainCoder /\ coder' = coder /\ pipe' = pipe
      /\ InCode /\ ToRun(w)
  BY <1>0 DEF CreateWorker, InCode, ToRun
<1>2. /\ vt \in [Coders -> ThreadType] /\ vt[w] \in ThreadType /\ main \in MainType
      /\ Lifecycle(w) /\ Rendezvous(w) /\ Quiet(w)
  BY <1>0, <1>1, Parts DEF Rendezvous
<1>3. CASE /\ vt' = [vt EXCEPT ![w] = [pc |-> IF @.pc = "none" THEN "wait" ELSE @.pc,
                                       start |-> FALSE, finished |-> FALSE, exit |-> FALSE]]
           /\ NextCoder
  <2>1. main' = [main EXCEPT !.i = @ + 1]
    BY <1>3 DEF NextCoder
  <2>2. /\ main' \in MainType /\ main'.i = main.i + 1 /\ main'.pc = main.pc
        /\ main'.round = main.round /\ InCode' /\ MainCoder' = MainCoder /\ ~Told' /\ MainFits'
    BY <1>0, <1>1, <2>1, NextCoderFacts
  <2>3. /\ vt'[w] = [pc |-> IF vt[w].pc = "none" THEN "wait" ELSE vt[w].pc,
                     start |-> FALSE, finished |-> FALSE, exit |-> FALSE]
        /\ \A c \in Coders : c # w => vt'[c] = vt[c]
    BY <1>0, <1>1, <1>2, <1>3
  <2>4. vt'[w] \in ThreadType /\ vt'[w].pc = "wait" /\ ~vt'[w].start /\ ~vt'[w].finished
        /\ ~vt'[w].exit
    BY <1>0, <1>2, <2>3 DEF ThreadType, Quiet
  <2>5. TypeOK'
    <3>1. vt' \in [Coders -> ThreadType]
      BY <1>0, <1>1, <1>2, <1>3, <2>3, <2>4
    <3> QED
      BY <1>0, <1>1, <2>2, <3>1, Parts DEF TypeOK
  <2>6. Lifecycle(w)'
    <3>1. vt'[w].exit = Stopped(w)' /\ ~Joined(w)'
      BY <1>1, <2>2, <2>4 DEF Stopped, Joined, ThreadType
    <3>2. Ins(w)' = Ins(w) /\ Outs(w)' = Outs(w)
      BY DEF Ins, Outs
    <3>3. coder'[w].at = "rest" /\ coder'[w].call = NoBond
      BY <1>1, <1>2 DEF Quiet, Lifecycle
    <3>4. w # MainCoder'
      BY <1>1, <2>2
    <3>5. vt'[w].pc = "wait" /\ ~vt'[w].start
      BY <2>4
    <3> QED
      BY <3>1, <3>2, <3>3, <3>4, <3>5 DEF Lifecycle
  <2>7. Rendezvous(w)'
    <3>1. Quiet(w)'
      BY <1>0, <1>1, <1>2, <2>4 DEF Quiet
    <3> QED
      BY <1>0, <1>1, <2>2, <2>4, <3>1 DEF Rendezvous
  <2>8. \A c \in Coders : Lifecycle(c)' /\ Rendezvous(c)' /\ (ToRun(c)' <=> ToRun(c))
    <3>1. ToRun(w)'
      BY <1>0, <1>1, <2>2 DEF ToRun
    <3>2. ASSUME NEW c \in Coders, c # w
          PROVE  Lifecycle(c)' /\ Rendezvous(c)' /\ (ToRun(c)' <=> ToRun(c))
      BY <1>0, <1>1, <2>1, <2>3, <3>2, OthersWait
    <3> QED
      BY <1>0, <1>1, <2>6, <2>7, <3>1, <3>2
  <2>9. \A c \in Coders : coder[c].result = "throw" /\ CauseIsKnown(c) => main.pc = "code"
    BY DEF CauseIsKnown
  <2> QED
    BY <1>0, <1>1, <2>2, <2>5, <2>8, <2>9, MainKeeps
<1>4. CASE /\ vt[w].pc = "none" /\ vt' = [vt EXCEPT ![w].exit = FALSE]
           /\ main' = [main EXCEPT !.pc = "idle", !.returned = "thread"]
  <2>1. vt' = vt
    <3>1. ~vt[w].exit
      BY <1>0, <1>1, InTheLoops
    <3>2. vt'[w] = [vt[w] EXCEPT !.exit = FALSE]
      BY <1>0, <1>1, <1>2, <1>4
    <3>3. vt'[w] = vt[w]
      BY <1>0, <1>2, <3>1, <3>2 DEF ThreadType
    <3> QED
      BY <1>0, <1>1, <1>2, <1>4, <3>3
  <2>2. /\ main' \in MainType /\ main'.pc = "idle" /\ main'.returned = "thread"
        /\ main'.coder = main.coder /\ main'.round = main.round /\ main'.i = main.i
        /\ main'.todo = main.todo
    BY <1>0, <1>2, <1>4 DEF MainType
  <2>3. ~InCode' /\ ~Told' /\ MainCoder' = MainCoder /\ TypeOK'
    BY <1>0, <1>1, <2>1, <2>2, Parts DEF InCode, Told, Errors, MainCoder, TypeOK
  <2>4. MainFits'
    BY <2>2, Parts DEF MainFits
  <2>5. ASSUME NEW c \in Coders PROVE Lifecycle(c)' /\ Rendezvous(c)' /\ (ToRun(c)' => ToRun(c))
    <3>1. Stopped(c)' = Stopped(c) /\ Joined(c)' = Joined(c) /\ Ins(c)' = Ins(c) /\ Outs(c)' = Outs(c)
      BY <1>0, <1>1, <2>2 DEF Stopped, Joined, Ins, Outs
    <3>2. Lifecycle(c)'
      BY <1>0, <1>1, <2>1, <2>2, <2>3, <3>1, Parts DEF Lifecycle
    <3>3. Quiet(c) /\ (Quiet(c)' <=> Quiet(c))
      BY <1>0, <1>1, <2>1, Parts DEF Rendezvous, Quiet
    <3>4. Rendezvous(c)'
      BY <2>2, <3>3 DEF Rendezvous
    <3>5. ToRun(c)
      BY <1>1 DEF ToRun
    <3> QED
      BY <3>2, <3>4, <3>5
  <2> QED
    BY <1>0, <1>1, <2>2, <2>3, <2>4, <2>5, MainKeeps
<1> QED
  BY <1>0, <1>3, <1>4 DEF CreateWorker

LEMMA StartWorkerKeeps ==
  ASSUME IInv, UNCHANGED shape, StartWorker
  PROVE  IInv'
<1>0. PICK w \in Coders : w = main.i
  BY DEF StartWorker
<1>1. /\ main.pc = "start" /\ w \in Coders /\ w # MainCoder /\ coder' = coder /\ pipe' = pipe
      /\ vt' = [vt EXCEPT ![w].exit = FALSE, ![w].start = TRUE]
      /\ main' = [main EXCEPT !.i = @ + 1] /\ InCode
  BY <1>0 DEF StartWorker, NextCoder, InCode
<1>2. /\ vt \in [Coders -> ThreadType] /\ vt[w] \in ThreadType
      /\ Lifecycle(w) /\ Rendezvous(w) /\ w \in Int
  BY <1>0, <1>1, Parts, CoderFacts
<1>3. Quiet(w) /\ vt[w].pc = "wait"
  <2>1. ~(w < main.i /\ w # MainCoder)
    BY <1>0, <1>2
  <2> QED
    BY <1>0, <1>1, <1>2, <2>1 DEF Rendezvous
<1>4. /\ main' \in MainType /\ main'.i = main.i + 1 /\ main'.pc = main.pc
      /\ main'.round = main.round /\ InCode' /\ MainCoder' = MainCoder /\ ~Told' /\ MainFits'
  BY <1>0, <1>1, NextCoderFacts
<1>5. /\ vt'[w] = [vt[w] EXCEPT !.exit = FALSE, !.start = TRUE]
      /\ \A c \in Coders : c # w => vt'[c] = vt[c]
  BY <1>0, <1>1, <1>2
<1>6. vt'[w] \in ThreadType /\ vt'[w].pc = "wait" /\ vt'[w].start /\ ~vt'[w].finished
      /\ ~vt'[w].exit
  BY <1>0, <1>2, <1>3, <1>5 DEF ThreadType, Quiet
<1>7. TypeOK'
  <2>1. vt' \in [Coders -> ThreadType]
    BY <1>0, <1>1, <1>2, <1>5, <1>6
  <2> QED
    BY <1>0, <1>1, <1>4, <2>1, Parts DEF TypeOK
<1>8. Lifecycle(w)'
  <2>1. vt'[w].exit = Stopped(w)' /\ ~Joined(w)'
    BY <1>1, <1>4, <1>6 DEF Stopped, Joined, ThreadType
  <2>2. Ins(w)' = Ins(w) /\ Outs(w)' = Outs(w)
    BY DEF Ins, Outs
  <2>3. coder'[w].at = "rest" /\ coder'[w].call = NoBond
    BY <1>1, <1>2, <1>3 DEF Quiet, Lifecycle
  <2>4. w # MainCoder'
    BY <1>1, <1>4
  <2>5. vt'[w].pc = "wait"
    BY <1>6
  <2> QED
    BY <2>1, <2>2, <2>3, <2>4, <2>5 DEF Lifecycle
<1>9. Rendezvous(w)'
  <2>1. Started(w)' /\ w < main'.i
    BY <1>0, <1>2, <1>4, <1>6 DEF Started
  <2> QED
    BY <1>0, <1>1, <1>4, <2>1 DEF Rendezvous
<1>10. \A c \in Coders : Lifecycle(c)' /\ Rendezvous(c)' /\ (ToRun(c)' <=> ToRun(c))
  <2>1. ToRun(w)' /\ ToRun(w)
    BY <1>0, <1>1, <1>2, <1>6 DEF ToRun
  <2>2. ASSUME NEW c \in Coders, c # w
        PROVE  Lifecycle(c)' /\ Rendezvous(c)' /\ (ToRun(c)' <=> ToRun(c))
    BY <1>0, <1>1, <1>5, <2>2, OthersWait
  <2> QED
    BY <1>0, <1>1, <1>8, <1>9, <2>1, <2>2
<1>11. \A c \in Coders : coder[c].result = "throw" /\ CauseIsKnown(c) => main.pc = "code"
  BY DEF CauseIsKnown
<1> QED
  BY <1>0, <1>1, <1>4, <1>7, <1>10, <1>11, MainKeeps

LEMMA AwaitWorkerKeeps ==
  ASSUME IInv, UNCHANGED shape, AwaitWorker
  PROVE  IInv'
<1>0. PICK w \in Coders : w = main.i
  BY DEF AwaitWorker
<1>1. /\ main.pc = "await" /\ w \in Coders /\ w # MainCoder /\ coder' = coder /\ pipe' = pipe
      /\ vt[w].finished /\ vt' = [vt EXCEPT ![w].finished = FALSE]
      /\ main' = [main EXCEPT !.i = @ + 1] /\ InCode
  BY <1>0 DEF AwaitWorker, NextCoder, InCode
<1>2. /\ vt \in [Coders -> ThreadType] /\ vt[w] \in ThreadType
      /\ Lifecycle(w) /\ Rendezvous(w) /\ w \in Int
  BY <1>0, <1>1, Parts, CoderFacts
<1>3. Started(w) /\ vt[w].pc = "wait" /\ ~vt[w].start
  <2>1. main.i <= w
    BY <1>0, <1>2
  <2> QED
    BY <1>0, <1>1, <1>2, <2>1 DEF Rendezvous, Started
<1>4. /\ main' \in MainType /\ main'.i = main.i + 1 /\ main'.pc = main.pc
      /\ main'.round = main.round /\ InCode' /\ MainCoder' = MainCoder /\ ~Told' /\ MainFits'
  BY <1>0, <1>1, NextCoderFacts
<1>5. /\ vt'[w] = [vt[w] EXCEPT !.finished = FALSE]
      /\ \A c \in Coders : c # w => vt'[c] = vt[c]
  BY <1>0, <1>1, <1>2
<1>6. vt'[w] \in ThreadType /\ vt'[w].pc = "wait" /\ ~vt'[w].start /\ ~vt'[w].finished
      /\ ~vt'[w].exit
  BY <1>1, <1>2, <1>3, <1>5, InTheLoops DEF ThreadType
<1>7. TypeOK'
  <2>1. vt' \in [Coders -> ThreadType]
    BY <1>0, <1>1, <1>2, <1>5, <1>6
  <2> QED
    BY <1>0, <1>1, <1>4, <2>1, Parts DEF TypeOK
<1>8. Lifecycle(w)' /\ coder[w].at = "rest"
  <2>1. vt'[w].exit = Stopped(w)' /\ ~Joined(w)'
    BY <1>1, <1>4, <1>6, InTheLoops DEF Stopped, Joined, ThreadType
  <2>2. Ins(w)' = Ins(w) /\ Outs(w)' = Outs(w)
    BY DEF Ins, Outs
  <2>3. coder[w].at = "rest" /\ coder'[w].at = "rest" /\ coder'[w].call = NoBond
    BY <1>1, <1>2, <1>3 DEF Lifecycle
  <2>4. w # MainCoder'
    BY <1>1, <1>4
  <2>5. vt'[w].pc = "wait" /\ ~vt'[w].start
    BY <1>6
  <2> QED
    BY <2>1, <2>2, <2>3, <2>4, <2>5 DEF Lifecycle
<1>9. Rendezvous(w)'
  <2>1. Quiet(w)' /\ ~(main'.i <= w)
    BY <1>0, <1>1, <1>2, <1>4, <1>6, <1>8 DEF Quiet
  <2> QED
    BY <1>0, <1>1, <1>4, <2>1 DEF Rendezvous
<1>10. \A c \in Coders : Lifecycle(c)' /\ Rendezvous(c)' /\ (ToRun(c)' <=> ToRun(c))
  <2>1. ~ToRun(w)' /\ ~ToRun(w)
    BY <1>0, <1>1, <1>3, <1>4, <1>6, <1>8 DEF ToRun
  <2>2. ASSUME NEW c \in Coders, c # w
        PROVE  Lifecycle(c)' /\ Rendezvous(c)' /\ (ToRun(c)' <=> ToRun(c))
    BY <1>0, <1>1, <1>5, <2>2, OthersWait
  <2> QED
    BY <1>0, <1>1, <1>8, <1>9, <2>1, <2>2
<1>11. \A c \in Coders : coder[c].result = "throw" /\ CauseIsKnown(c) => main.pc = "code"
  BY DEF CauseIsKnown
<1> QED
  BY <1>0, <1>1, <1>4, <1>7, <1>10, <1>11, MainKeeps

LEMMA LoopEndKeeps ==
  ASSUME IInv, UNCHANGED shape, LoopEnd
  PROVE  IInv'
<1>1. main.i = NumCoders /\ vt' = vt /\ pipe' = pipe /\ UNCHANGED shape
  BY DEF LoopEnd
<1>2. \A c \in Coders : Ins(c)' = Ins(c) /\ Outs(c)' = Outs(c)
  BY DEF Ins, Outs
<1>3. \A c \in Coders : c < main.i /\ ~(main.i <= c) /\ 0 <= c
  BY <1>1, CoderFacts
<1>4. \A c \in Coders : coder[c].result = "throw" /\ CauseIsKnown(c) => main.pc = "code"
  BY DEF CauseIsKnown
<1>5. CASE main.pc = "create" /\ main' = [main EXCEPT !.pc = "start", !.i = 0] /\ coder' = coder
  <2>1. 0 \in -1..NumCoders /\ 0 >= 0
    BY CoderFacts
  <2>2. /\ main' \in MainType /\ main'.pc = "start" /\ main'.i = 0 /\ main'.coder = main.coder
        /\ main'.round = main.round /\ main'.returned = main.returned /\ main'.todo = main.todo
    BY <1>5, <2>1, Parts DEF MainType
  <2>3. InCode /\ InCode' /\ MainCoder' = MainCoder /\ ~Told' /\ TypeOK'
    BY <1>1, <1>5, <2>2, Parts DEF InCode, MainCoder, Told, TypeOK
  <2>4. MainFits'
    BY <1>1, <1>5, <2>1, <2>2, <2>3, Parts, InTheLoops DEF MainFits
  <2>5. ASSUME NEW c \in Coders PROVE Lifecycle(c)' /\ Rendezvous(c)' /\ ToRun(c) /\ ToRun(c)'
    <3>1. Stopped(c)' = Stopped(c) /\ Joined(c)' = Joined(c)
      BY <1>5, <2>2 DEF Stopped, Joined
    <3>2. Lifecycle(c)'
      BY <1>1, <1>2, <1>5, <2>2, <2>3, <3>1, Parts DEF Lifecycle
    <3>3. ToRun(c) /\ ToRun(c)'
      BY <1>3, <1>5, <2>2 DEF ToRun
    <3>4. Quiet(c)' /\ (c # MainCoder => vt'[c].pc = "wait")
      BY <1>1, <1>3, <1>5, Parts DEF Rendezvous, Quiet
    <3>5. ~(c < main'.i)
      BY <2>2, CoderFacts
    <3>6. Rendezvous(c)'
      BY <2>2, <2>3, <3>4, <3>5 DEF Rendezvous
    <3> QED
      BY <3>2, <3>3, <3>6
  <2> QED
    BY <1>1, <1>4, <1>5, <2>2, <2>3, <2>4, <2>5, MainKeeps
<1>6. CASE /\ main.pc = "start" /\ main' = [main EXCEPT !.pc = "code"]
           /\ coder' = [coder EXCEPT ![MainCoder].at = "run"]
  <2>0. PICK m \in Coders : m = MainCoder
    BY Parts, MainFacts
  <2>1. /\ main' \in MainType /\ main'.pc = "code" /\ main'.i = main.i /\ main'.coder = main.coder
        /\ main'.round = main.round /\ main'.returned = main.returned /\ main'.todo = main.todo
    BY <1>6, Parts DEF MainType
  <2>2. InCode /\ InCode' /\ MainCoder' = MainCoder /\ ~Told'
    BY <1>6, <2>1 DEF InCode, MainCoder, Told
  <2>3. Quiet(m)
    BY <1>6, <2>0, Parts DEF Rendezvous
  <2>4. /\ coder'[m] = [coder[m] EXCEPT !.at = "run"]
        /\ \A c \in Coders : c # m => coder'[c] = coder[c]
    BY <1>6, <2>0, Parts
  <2>5. /\ coder'[m].at = "run" /\ coder'[m].own = coder[m].own
        /\ coder'[m].result = coder[m].result /\ coder'[m].call = coder[m].call
    BY <2>4, Parts DEF CoderType
  <2>6. TypeOK'
    <3>1. coder'[m] \in CoderType
      BY <2>4, Parts DEF CoderType
    <3>2. coder' \in [Coders -> CoderType]
      BY <1>6, <2>0, <2>4, <3>1, Parts
    <3> QED
      BY <1>1, <2>1, <3>2, Parts DEF TypeOK
  <2>7. MainFits'
    BY <1>1, <1>6, <2>1, <2>2, Parts, InTheLoops DEF MainFits
  <2>8. ASSUME NEW c \in Coders
        PROVE  /\ Lifecycle(c)' /\ Rendezvous(c)' /\ (ToRun(c)' <=> ToRun(c))
               /\ coder'[c].at = "release" <=> coder[c].at = "release"
    <3>1. Stopped(c)' = Stopped(c) /\ Joined(c)' = Joined(c)
      BY <1>6, <2>1 DEF Stopped, Joined
    <3>2. CASE c = m
      <4>1. Lifecycle(c)'
        BY <1>1, <1>2, <1>6, <2>0, <2>1, <2>2, <2>5, <3>1, <3>2, Parts DEF Lifecycle
      <4>2. Rendezvous(c)'
        BY <1>1, <2>0, <2>1, <2>2, <2>3, <3>2 DEF Rendezvous, Quiet
      <4>3. ToRun(c)' /\ ToRun(c)
        BY <1>6, <2>0, <2>5, <3>2 DEF ToRun
      <4>4. coder[c].at = "rest"
        BY <2>3, <3>2 DEF Quiet
      <4> QED
        BY <2>5, <3>2, <4>1, <4>2, <4>3, <4>4
    <3>3. CASE c # m
      <4>1. Lifecycle(c)'
        BY <1>1, <1>2, <1>6, <2>0, <2>1, <2>2, <2>4, <3>1, <3>3, Parts DEF Lifecycle
      <4>2. Started(c)'
        BY <1>1, <1>3, <1>6, <2>0, <3>3, Parts DEF Rendezvous, Started
      <4>3. Rendezvous(c)'
        BY <2>0, <2>1, <2>2, <3>3, <4>2 DEF Rendezvous
      <4>4. ToRun(c)' <=> ToRun(c)
        BY <1>1, <1>3, <1>6, <2>0, <2>1, <2>2, <2>4, <3>3 DEF ToRun
      <4> QED
        BY <2>4, <3>3, <4>1, <4>3, <4>4
    <3> QED
      BY <3>2, <3>3
  <2>9. \A c \in Coders : /\ coder'[c].own = coder[c].own /\ coder'[c].result = coder[c].result
                          /\ coder'[c].call = coder[c].call
    BY <2>4, <2>5
  <2>10. \A c \in Coders : ~(coder[c].result = "throw" /\ InCode /\ CauseIsKnown(c))
    BY <1>4, <1>6
  <2> QED
    BY <1>1, <1>4, <1>6, <2>1, <2>2, <2>6, <2>7, <2>8, <2>9, <2>10, MainKeeps
<1> QED
  BY <1>5, <1>6 DEF LoopEnd

LEMMA MainCodedKeeps ==
  ASSUME IInv, UNCHANGED shape, MainCoded
  PROVE  IInv'
<1>0. PICK m \in Coders : m = MainCoder
  BY Parts, MainFacts
<1>1. /\ main.pc = "code" /\ coder[m].at = "done" /\ coder' = [coder EXCEPT ![m].at = "rest"]
      /\ main' = IF coder[m].result = "throw"
                 THEN [main EXCEPT !.pc = "idle", !.returned = "throw"]
                 ELSE [main EXCEPT !.pc = "await", !.i = 0]
      /\ vt' = vt /\ pipe' = pipe /\ InCode
  BY <1>0 DEF MainCoded, InCode
<1>2. /\ coder'[m] = [coder[m] EXCEPT !.at = "rest"]
      /\ \A c \in Coders : c # m => coder'[c] = coder[c]
  BY <1>1, Parts
<1>3. /\ coder'[m].at = "rest" /\ coder'[m].own = coder[m].own
      /\ coder'[m].result = coder[m].result /\ coder'[m].call = coder[m].call
  BY <1>2, Parts DEF CoderType
<1>4. coder' \in [Coders -> CoderType]
  <2>1. coder'[m] \in CoderType
    BY <1>2, Parts DEF CoderType
  <2> QED
    BY <1>1, <1>2, <2>1, Parts
<1>5. \A c \in Coders : /\ coder'[c].own = coder[c].own /\ coder'[c].result = coder[c].result
                        /\ coder'[c].call = coder[c].call
                        /\ coder'[c].at = "release" <=> coder[c].at = "release"
  BY <1>1, <1>2, <1>3
<1>6. /\ 0 \in -1..NumCoders /\ main' \in MainType /\ main'.coder = main.coder
      /\ main'.round = main.round /\ main'.todo = main.todo
      /\ IF coder[m].result = "throw" THEN main'.pc = "idle" /\ main'.returned = "throw"
         ELSE main'.pc = "await" /\ main'.i = 0 /\ main'.returned = main.returned
  <2>1. 0 \in -1..NumCoders
    BY CoderFacts
  <2>2. CASE coder[m].result = "throw"
    BY <1>1, <2>1, <2>2, Parts DEF MainType
  <2>3. CASE coder[m].result # "throw"
    BY <1>1, <2>1, <2>3, Parts DEF MainType
  <2> QED
    BY <2>2, <2>3
<1>7. /\ MainCoder' = MainCoder /\ TypeOK' /\ ~Told' /\ main.pc # "reinit" /\ main'.pc # "reinit"
      /\ main'.pc \in {"idle", "await"}
  BY <1>1, <1>4, <1>6, Parts DEF MainCoder, TypeOK, Told, Errors
<1>8. MainFits'
  <2>1. main.returned = "none" /\ main.todo \subseteq shape.bonds
    BY <1>1, Parts DEF MainFits
  <2>2. main'.pc = "await" => main'.i = 0 /\ main'.i >= 0
    BY <1>6
  <2> QED
    BY <1>6, <1>7, <2>1, <2>2 DEF MainFits
<1>9. ASSUME NEW c \in Coders PROVE Lifecycle(c)' /\ Rendezvous(c)' /\ (ToRun(c)' <=> ToRun(c))
  <2>1. /\ Stopped(c)' = Stopped(c) /\ Joined(c)' = Joined(c) /\ Ins(c)' = Ins(c)
        /\ Outs(c)' = Outs(c)
    BY <1>1, <1>7 DEF Stopped, Joined, Ins, Outs
  <2>2. main'.pc = "await" => main'.i <= c
    BY <1>6, CoderFacts
  <2>3. CASE c = m
    <3>1. coder[c].call = NoBond
      BY <1>1, <2>3, Parts DEF Lifecycle
    <3>2. Lifecycle(c)'
      BY <1>0, <1>1, <1>3, <1>7, <2>1, <2>3, <3>1, Parts DEF Lifecycle
    <3>3. Quiet(c)'
      <4>1. vt[c].pc \notin {"execute", "exited"}
        BY <1>0, <1>1, <2>3, Parts, InTheLoops DEF Lifecycle
      <4>2. vt[c].pc \in {"none", "wait"}
        BY <4>1, Parts, ThreadFacts
      <4>3. ~vt[c].start /\ ~vt[c].finished
        BY <1>0, <1>1, <2>3, Parts DEF Rendezvous
      <4> QED
        BY <1>1, <1>3, <2>3, <4>2, <4>3 DEF Quiet
    <3>4. Rendezvous(c)'
      BY <1>0, <1>7, <2>3, <3>3 DEF Rendezvous
    <3>5. ~ToRun(c) /\ ~ToRun(c)'
      BY <1>0, <1>1, <1>3, <1>7, <2>3, <3>2, Parts DEF ToRun, Lifecycle
    <3> QED
      BY <3>2, <3>4, <3>5
  <2>4. CASE c # m
    <3>1. Lifecycle(c)'
      BY <1>0, <1>1, <1>2, <1>7, <2>1, <2>4, Parts DEF Lifecycle
    <3>2. Started(c)'
      BY <1>0, <1>1, <2>4, Parts DEF Rendezvous, Started
    <3>3. main'.pc = "idle" => main'.returned = "throw"
      BY <1>6
    <3>4. Rendezvous(c)'
      BY <1>0, <1>7, <2>2, <2>4, <3>2, <3>3 DEF Rendezvous
    <3>5. ToRun(c)' <=> ToRun(c)
      BY <1>1, <1>2, <1>7, <2>4 DEF ToRun
    <3> QED
      BY <3>1, <3>4, <3>5
  <2> QED
    BY <2>3, <2>4
<1>10. ASSUME NEW c \in Coders, InCode', coder[c].result = "throw", CauseIsKnown(c) PROVE FALSE
  <2>1. c = m
    BY <1>0, <1>10 DEF CauseIsKnown
  <2> QED
    BY <1>6, <1>10, <2>1 DEF InCode
<1> QED
  BY <1>1, <1>5, <1>6, <1>7, <1>8, <1>9, <1>10, MainKeeps

(* The destructor stops one thread after the other.                        *)
LEMMA DestroyKeeps ==
  ASSUME IInv, UNCHANGED shape, Destroy
  PROVE  IInv'
<1>1. /\ main.pc = "idle" /\ vt' = vt /\ coder' = coder /\ pipe' = pipe
      /\ main' = [main EXCEPT !.pc = "destroy", !.i = NumCoders - 1]
  BY DEF Destroy
<1>2. NumCoders - 1 \in -1..NumCoders /\ \A c \in Coders : ~(NumCoders - 1 < c)
  BY CoderFacts
<1>3. /\ main' \in MainType /\ main'.pc = "destroy" /\ main'.i = NumCoders - 1
      /\ main'.coder = main.coder /\ main'.round = main.round
      /\ main'.returned = main.returned /\ main'.todo = main.todo
  BY <1>1, <1>2, Parts DEF MainType
<1>4. /\ MainCoder' = MainCoder /\ TypeOK' /\ ~Told' /\ ~InCode'
  BY <1>1, <1>3, Parts DEF MainCoder, TypeOK, Told, InCode
<1>5. MainFits'
  BY <1>1, <1>3, Parts DEF MainFits
<1>6. ASSUME NEW c \in Coders PROVE Lifecycle(c)' /\ Rendezvous(c)' /\ (ToRun(c)' => ToRun(c))
  <2>1. Stopped(c)' = Stopped(c) /\ ~Joined(c)'
    BY <1>1, <1>2, <1>3 DEF Stopped, Joined
  <2>2. Ins(c)' = Ins(c) /\ Outs(c)' = Outs(c)
    BY DEF Ins, Outs
  <2>3. Lifecycle(c)'
    BY <1>1, <1>3, <1>4, <2>1, <2>2, Parts DEF Lifecycle
  <2>4. Rendezvous(c)' /\ (ToRun(c)' => ToRun(c))
    BY <1>1, <1>3 DEF Rendezvous, ToRun
  <2> QED
    BY <2>3, <2>4
<1> QED
  BY <1>1, <1>3, <1>4, <1>5, <1>6, MainKeeps

LEMMA StopWorkerKeeps ==
  ASSUME IInv, UNCHANGED shape, StopWorker
  PROVE  IInv'
<1>0. PICK w \in Coders : w = main.i
  BY DEF StopWorker
<1>1. /\ main.pc = "destroy" /\ main' = [main EXCEPT !.pc = "join"] /\ coder' = coder /\ pipe' = pipe
      /\ vt' = [vt EXCEPT ![w].exit = TRUE, ![w].start = vt[w].pc # "none"]
  BY <1>0 DEF StopWorker
<1>2. /\ main' \in MainType /\ main'.pc = "join" /\ main'.i = main.i
      /\ main'.coder = main.coder /\ main'.round = main.round
      /\ main'.returned = main.returned /\ main'.todo = main.todo
  BY <1>1, Parts DEF MainType
<1>3. /\ vt'[w] = [vt[w] EXCEPT !.exit = TRUE, !.start = vt[w].pc # "none"]
      /\ \A c \in Coders : c # w => vt'[c] = vt[c]
  BY <1>1, Parts
<1>4. /\ vt'[w] \in ThreadType /\ vt'[w].exit = TRUE /\ vt'[w].start = (vt[w].pc # "none")
      /\ vt'[w].pc = vt[w].pc /\ vt'[w].finished = vt[w].finished
  <2>1. (vt[w].pc # "none") \in BOOLEAN
    OBVIOUS
  <2> QED
    BY <1>3, <2>1, Parts DEF ThreadType
<1>5. /\ MainCoder' = MainCoder /\ ~Told' /\ ~InCode'
  BY <1>1, <1>2 DEF MainCoder, Told, InCode
<1>6. TypeOK'
  <2>1. vt' \in [Coders -> ThreadType]
    BY <1>1, <1>3, <1>4, Parts
  <2> QED
    BY <1>1, <1>2, <2>1, Parts DEF TypeOK
<1>7. MainFits'
  BY <1>0, <1>1, <1>2, Parts DEF MainFits
<1>8. ASSUME NEW c \in Coders PROVE Lifecycle(c)' /\ Rendezvous(c)' /\ (ToRun(c)' => ToRun(c))
  <2>1. Ins(c)' = Ins(c) /\ Outs(c)' = Outs(c) /\ Joined(c)' = Joined(c)
    BY <1>1, <1>2 DEF Ins, Outs, Joined
  <2>2. Rendezvous(c)'
    BY <1>2 DEF Rendezvous
  <2>3. CASE c = w
    <3>1. ~Stopped(c) /\ vt'[c].exit = Stopped(c)' /\ ~Joined(c)
      <4>1. ~(main.i < c) /\ main.i <= c
        BY <1>0, <2>3, CoderFacts
      <4>2. ~Stopped(c) /\ ~Joined(c)
        BY <1>1, <4>1 DEF Stopped, Joined
      <4>3. vt'[c].exit = Stopped(c)'
        BY <1>2, <1>4, <2>3, <4>1 DEF Stopped
      <4> QED
        BY <4>2, <4>3
    <3>2. vt[c].pc # "exited"
      BY <3>1, Parts DEF Lifecycle
    <3>3. Lifecycle(c)'
      BY <1>1, <1>2, <1>4, <1>5, <2>1, <2>3, <3>1, <3>2, Parts DEF Lifecycle
    <3>4. ToRun(c)' => ToRun(c)
      BY <1>1, <1>2, <1>4, <2>3 DEF ToRun
    <3> QED
      BY <2>2, <3>3, <3>4
  <2>4. CASE c # w
    <3>1. Stopped(c)' = Stopped(c)
      BY <1>0, <1>1, <1>2, <2>4, CoderFacts DEF Stopped
    <3>2. Lifecycle(c)'
      BY <1>1, <1>2, <1>3, <1>5, <2>1, <2>4, <3>1, Parts DEF Lifecycle
    <3>3. ToRun(c)' => ToRun(c)
      BY <1>1, <1>2, <1>3, <2>4 DEF ToRun
    <3> QED
      BY <2>2, <3>2, <3>3
  <2> QED
    BY <2>3, <2>4
<1> QED
  BY <1>1, <1>2, <1>5, <1>6, <1>7, <1>8, MainKeeps

LEMMA DestroyBindersKeeps ==
  ASSUME IInv, UNCHANGED shape, DestroyBinders
  PROVE  IInv'
<1>1. /\ main.pc = "destroy" /\ main.i = -1 /\ main' = [main EXCEPT !.pc = "gone"]
      /\ vt' = vt /\ coder' = coder /\ pipe' = pipe
  BY DEF DestroyBinders
<1>2. /\ main' \in MainType /\ main'.pc = "gone" /\ main'.i = main.i
      /\ main'.coder = main.coder /\ main'.round = main.round
      /\ main'.returned = main.returned /\ main'.todo = main.todo
  BY <1>1, Parts DEF MainType
<1>3. /\ MainCoder' = MainCoder /\ TypeOK' /\ ~Told' /\ ~InCode'
  BY <1>1, <1>2, Parts DEF MainCoder, TypeOK, Told, InCode
<1>4. MainFits'
  BY <1>1, <1>2, Parts DEF MainFits
<1>5. ASSUME NEW c \in Coders PROVE Lifecycle(c)' /\ Rendezvous(c)' /\ (ToRun(c)' => ToRun(c))
  <2>1. Stopped(c)' = Stopped(c) /\ Joined(c)' = Joined(c) /\ Ins(c)' = Ins(c) /\ Outs(c)' = Outs(c)
    BY <1>1, <1>2 DEF Stopped, Joined, Ins, Outs
  <2>2. Lifecycle(c)'
    BY <1>1, <1>2, <1>3, <2>1, Parts DEF Lifecycle
  <2>3. Rendezvous(c)' /\ (ToRun(c)' => ToRun(c))
    BY <1>1, <1>2 DEF Rendezvous, ToRun
  <2> QED
    BY <2>2, <2>3
<1> QED
  BY <1>1, <1>2, <1>3, <1>4, <1>5, MainKeeps

(* The thread of the coder is gone: its coder is at rest.                  *)
LEMMA JoinWorkerKeeps ==
  ASSUME IInv, UNCHANGED shape, JoinWorker
  PROVE  IInv'
<1>0. PICK w \in Coders : w = main.i
  BY Parts DEF JoinWorker, MainFits
<1>1. main.pc = "join" /\ vt[w].pc \in {"none", "exited"} /\ vt' = vt /\ coder' = coder
  BY <1>0 DEF JoinWorker
<1>2. CASE Held(w) = {} /\ main' = [main EXCEPT !.pc = "destroy", !.i = @ - 1] /\ pipe' = pipe
  <2>1. main.i - 1 \in -1..NumCoders
    BY <1>0, CoderFacts
  <2>2. /\ main' \in MainType /\ main'.pc = "destroy" /\ main'.i = main.i - 1
        /\ main'.coder = main.coder /\ main'.round = main.round
        /\ main'.returned = main.returned /\ main'.todo = main.todo
    BY <1>2, <2>1, Parts DEF MainType
  <2>3. /\ MainCoder' = MainCoder /\ TypeOK' /\ ~Told' /\ ~InCode'
    BY <1>1, <1>2, <2>2, Parts DEF MainCoder, TypeOK, Told, InCode
  <2>4. MainFits'
    BY <1>1, <2>2, Parts DEF MainFits
  <2>5. ASSUME NEW c \in Coders PROVE Lifecycle(c)' /\ Rendezvous(c)' /\ (ToRun(c)' => ToRun(c))
    <3>1. main.i - 1 < c <=> main.i <= c
      BY <1>0, CoderFacts
    <3>2. Stopped(c)' = Stopped(c) /\ Ins(c)' = Ins(c) /\ Outs(c)' = Outs(c)
      BY <1>1, <2>2, <3>1 DEF Stopped, Ins, Outs
    <3>3. Joined(c)' => vt[c].pc \in {"none", "exited"}
      <4>1. main.i <= c <=> main.i < c \/ c = w
        BY <1>0, CoderFacts
      <4> QED
        BY <1>1, <2>2, <3>1, <4>1, Parts DEF Joined, Lifecycle
    <3>4. Lifecycle(c)'
      BY <1>1, <2>2, <2>3, <3>2, <3>3, Parts DEF Lifecycle
    <3>5. Rendezvous(c)' /\ (ToRun(c)' => ToRun(c))
      BY <1>1, <2>2 DEF Rendezvous, ToRun
    <3> QED
      BY <3>4, <3>5
  <2> QED
    BY <1>1, <1>2, <2>2, <2>3, <2>4, <2>5, MainKeeps
<1>3. CASE main' = main /\ \E b \in Held(w) : CloseEnd(w, b)
  <2>1. PICK b \in Held(w) : CloseEnd(w, b)
    BY <1>3
  <2>2. /\ pipe' \in [Bonds -> PipeType] /\ b \in shape.bonds
        /\ \A e \in Bonds : e # b => pipe'[e] = pipe[e]
        /\ pipe'[b].got = pipe[b].got /\ pipe'[b].acked = pipe[b].acked
        /\ pipe'[b].eof = pipe[b].eof /\ pipe'[b].cut = pipe[b].cut
        /\ pipe'[b].round = pipe[b].round
        /\ \/ Reader(b) = w /\ ~pipe'[b].readOpen /\ pipe'[b].writeOpen = pipe[b].writeOpen
           \/ Writer(b) = w /\ ~pipe'[b].writeOpen /\ pipe'[b].readOpen = pipe[b].readOpen
    BY <2>1, Parts, CloseEffect
  <2>3. TypeOK'
    BY <1>1, <1>3, <2>2, Parts DEF TypeOK
  <2>4. /\ MainCoder' = MainCoder /\ ~Told' /\ ~InCode' /\ MainFits'
        /\ \A c : /\ Stopped(c)' = Stopped(c) /\ Joined(c)' = Joined(c)
                  /\ Ins(c)' = Ins(c) /\ Outs(c)' = Outs(c) /\ ToRun(c)' = ToRun(c)
    BY <1>1, <1>3, Parts DEF MainCoder, Told, InCode, MainFits, Stopped, Joined, Ins, Outs, ToRun
  <2>5. ASSUME NEW c \in Coders PROVE Lifecycle(c)' /\ Rendezvous(c)' /\ EndsFit(c)'
    <3>1. Lifecycle(c)' /\ Rendezvous(c)'
      BY <1>1, <1>3, <2>4, Parts DEF Lifecycle, Rendezvous
    <3>2. ToRun(c) => c # w
      <4>1. coder[w].at # "run" /\ ~(vt[w].start /\ ~vt[w].exit)
        BY <1>1, Parts DEF Lifecycle
      <4> QED
        BY <1>1, <4>1 DEF ToRun
    <3>3. ToRun(c) => /\ \A e \in Ins(c) : pipe'[e].readOpen = pipe[e].readOpen
                      /\ \A e \in Outs(c) : pipe'[e].writeOpen = pipe[e].writeOpen
      BY <2>2, <3>2, EndsOf, BondFacts, Parts
    <3> QED
      BY <1>1, <2>4, <3>1, <3>3, Parts DEF EndsFit
  <2>6. ASSUME NEW e \in shape.bonds PROVE BondFits(e)'
    <3>1. BondFits(e) /\ e \in Bonds
      BY Parts, BondFacts DEF IInv
    <3>2. /\ pipe'[e].got = pipe[e].got /\ pipe'[e].acked = pipe[e].acked
          /\ pipe'[e].eof = pipe[e].eof /\ pipe'[e].cut = pipe[e].cut
          /\ pipe'[e].round = pipe[e].round
          /\ pipe'[e].readOpen => pipe[e].readOpen
          /\ pipe'[e].writeOpen => pipe[e].writeOpen
      BY <2>2, <3>1, PipeFacts, Parts
    <3> QED
      BY <1>1, <1>3, <3>1, <3>2 DEF BondFits
  <2>7. \A e \in Bonds : e \notin shape.bonds => pipe'[e] = FreshPipe
    BY <2>2 DEF IInv
  <2>8. SuccessIsWhole' /\ RootCause'
    BY <1>1, <1>3 DEF SuccessIsWhole, RootCause, JustReturned
  <2> QED
    BY <2>3, <2>4, <2>5, <2>6, <2>7, <2>8 DEF IInv
<1> QED
  BY <1>0, <1>2, <1>3 DEF JoinWorker

(* Every worker has finished: its result has a cause, and the result Code  *)
(* returns is one of them.                                                 *)
LEMMA AllDone ==
  ASSUME IInv, main.pc = "await", main.i = NumCoders, NEW c \in Coders
  PROVE  /\ Quiet(c) /\ ~ToRun(c) /\ CauseIsKnown(c) /\ Held(c) = {}
         /\ coder[c].result # "throw"
<1>1. ~(main.i <= c)
  BY CoderFacts
<1>2. Quiet(c)
  BY <1>1, Parts DEF Rendezvous
<1>3. ~ToRun(c) /\ InCode /\ coder[c].at = "rest"
  BY <1>2 DEF ToRun, Quiet, InCode
<1>4. CauseIsKnown(c) /\ Held(c) = {}
  BY <1>3 DEF IInv, EndsFit
<1> QED
  BY <1>2, <1>3, <1>4 DEF CauseIsKnown

LEMMA NoneBlamed ==
  ASSUME IInv, main.pc = "await", main.i = NumCoders, Results \subseteq {"ok", "cut"}
  PROVE  /\ \A c \in Coders : coder[c].own = "ok"
         /\ \A b \in Bonds : pipe[b].eof => coder[Writer(b)].result = "ok"
<1>1. \A c \in Coders : coder[c].result \in {"ok", "cut"}
  BY DEF Results
<1>2. ASSUME NEW c \in Coders PROVE coder[c].own = "ok"
  BY <1>1, AllDone, Parts, ThreadFacts DEF CauseIsKnown, Errors
<1>3. ~Blamed
  BY <1>2 DEF Blamed
<1>4. ASSUME NEW b \in Bonds, pipe[b].eof, coder[Writer(b)].result # "ok" PROVE FALSE
  <2>1. Writer(b) \in Coders
    BY BondFacts, Parts
  <2>2. b \in shape.bonds
    BY <1>4 DEF IInv, FreshPipe
  <2>3. ~pipe[b].cut
    BY <1>4, <2>2 DEF IInv, BondFits
  <2>4. coder[Writer(b)].result = "cut" /\ CauseIsKnown(Writer(b))
    BY <1>1, <1>4, <2>1, AllDone
  <2>5. ~EncodeMode
    BY <1>3, <2>4 DEF CauseIsKnown
  <2>6. PICK d \in Outs(Writer(b)) : pipe[d].cut
    BY <2>4 DEF CauseIsKnown
  <2>7. d = b
    BY <2>2, <2>5, <2>6, EndsOf, BondFacts, Parts
  <2> QED
    BY <2>3, <2>6, <2>7
<1> QED
  BY <1>2, <1>4

LEMMA VerdictHasCause ==
  ASSUME IInv, main.pc = "await", main.i = NumCoders, NEW f \in Errors, Verdict(f)
  PROVE  \/ \E c \in Coders : coder[c].own = f
         \/ f = "data" /\ {coder[c].own : c \in Coders} = {"ok", "fail"}
<1>1. f \in Results /\ f # "ok"
  BY DEF Verdict, Errors
<1>2. PICK c \in Coders : coder[c].result = f
  BY <1>1 DEF Results
<1>3. CASE f # "data"
  <2>1. coder[c].own = f
    BY <1>2, <1>3, AllDone DEF CauseIsKnown, Errors
  <2> QED
    BY <2>1
<1>4. CASE f = "data"
  <2>1. SUFFICES ASSUME \A d \in Coders : coder[d].own # "data"
                 PROVE  {coder[d].own : d \in Coders} = {"ok", "fail"}
    BY <1>4
  <2>2. Results \cap {"abort", "mem", "error"} = {}
    BY <1>4 DEF Verdict
  <2>3. ASSUME NEW d \in Coders PROVE coder[d].own \in {"ok", "fail"}
    <3>1. coder[d].own # "ok" => coder[d].own = coder[d].result /\ coder[d].result \in Results
      BY AllDone DEF CauseIsKnown, Results
    <3>2. coder[d].own \in Errors \cup {"ok", "throw"} /\ coder[d].result # "throw"
      BY AllDone, Parts, ThreadFacts
    <3>3. coder[d].own # "ok" => coder[d].own \notin {"abort", "mem", "error", "data", "throw"}
      BY <2>1, <2>2, <3>1, <3>2
    <3> QED
      BY <3>2, <3>3 DEF Errors
  <2>4. coder[c].own = "ok"
    BY <1>2, <1>4, <2>1, AllDone DEF CauseIsKnown
  <2>5. PICK d \in Coders : coder[d].own # "ok"
    BY <1>2, <1>4, AllDone DEF CauseIsKnown, Blamed
  <2>6. coder[d].own = "fail"
    BY <2>3, <2>5
  <2> QED
    BY <2>3, <2>4, <2>6
<1> QED
  BY <1>3, <1>4

LEMMA ReturnKeeps ==
  ASSUME IInv, UNCHANGED shape, Return
  PROVE  IInv'
<1>1. PICK result \in Errors \cup {"ok"} :
        Verdict(result) /\ main' = [main EXCEPT !.pc = "idle", !.returned = result]
  BY DEF Return
<1>2. main.pc = "await" /\ main.i = NumCoders /\ vt' = vt /\ coder' = coder /\ pipe' = pipe
  BY DEF Return
<1>3. /\ main' \in MainType /\ main'.pc = "idle" /\ main'.returned = result /\ main'.i = main.i
      /\ main'.coder = main.coder /\ main'.round = main.round /\ main'.todo = main.todo
  BY <1>1, Parts DEF MainType
<1>4. result \notin {"none", "throw", "thread"}
  BY DEF Errors
<1>5. TypeOK' /\ MainFits'
  BY <1>2, <1>3, <1>4, Parts DEF TypeOK, MainFits
<1>6. /\ MainCoder' = MainCoder /\ ~InCode'
      /\ \A c : /\ Stopped(c)' = Stopped(c) /\ Joined(c)' = Joined(c)
                /\ Ins(c)' = Ins(c) /\ Outs(c)' = Outs(c) /\ Held(c)' = Held(c)
  BY <1>2, <1>3 DEF MainCoder, InCode, Stopped, Joined, Ins, Outs, Held
<1>7. ASSUME NEW c \in Coders PROVE Lifecycle(c)' /\ Rendezvous(c)' /\ EndsFit(c)'
  <2>1. Quiet(c) /\ Held(c) = {}
    BY <1>2, AllDone
  <2>2. Lifecycle(c)'
    BY <1>2, <1>3, <1>6, <2>1, Parts DEF Lifecycle, Quiet
  <2>3. Quiet(c)'
    BY <1>2, <2>1 DEF Quiet
  <2>4. Rendezvous(c)'
    BY <1>3, <2>3 DEF Rendezvous
  <2>5. ~ToRun(c)'
    BY <1>2, <1>3, <2>1 DEF ToRun, Quiet
  <2>6. EndsFit(c)'
    BY <1>6, <2>1, <2>5 DEF EndsFit
  <2> QED
    BY <2>2, <2>4, <2>6
<1>8. \A b \in Bonds : IF b \in shape'.bonds THEN BondFits(b)' ELSE pipe'[b] = FreshPipe
  BY <1>2, <1>3 DEF BondFits, IInv
<1>9. SuccessIsWhole'
  <2>1. SUFFICES ASSUME JustReturned("ok")' PROVE SuccessIsWhole'
    BY DEF SuccessIsWhole
  <2>2. result = "ok"
    BY <1>3, <2>1 DEF JustReturned
  <2>3. Results \subseteq {"ok", "cut"}
    BY <1>1, <2>2 DEF Verdict
  <2> QED
    BY <1>2, <2>3, NoneBlamed DEF SuccessIsWhole
<1>10. RootCause'
  <2>1. SUFFICES ASSUME NEW f \in Errors, JustReturned(f)'
                 PROVE  (\/ \E c \in Coders : coder[c].own = f
                         \/ f = "data" /\ {coder[c].own : c \in Coders} = {"ok", "fail"})'
    BY DEF RootCause
  <2>2. result = f
    BY <1>3, <2>1 DEF JustReturned
  <2> QED
    BY <1>1, <1>2, <2>2, VerdictHasCause
<1> QED
  BY <1>5, <1>6, <1>7, <1>8, <1>9, <1>10 DEF IInv

(* The next folder.                                                        *)
LEMMA NextFolderKeeps ==
  ASSUME IInv, UNCHANGED shape, NextFolder
  PROVE  IInv'
<1>1. /\ main.pc = "idle" /\ main.round < MaxRounds /\ main.returned \in {"ok", "data", "error"}
      /\ vt' = vt /\ coder' = coder /\ pipe' = pipe
  BY DEF NextFolder
<1>2. PICK m \in shape.mainCoders :
        main' = [main EXCEPT !.pc = "reinit", !.coder = m, !.todo = shape.bonds,
                             !.round = @ + 1, !.returned = "none"]
  BY DEF NextFolder
<1>3. m \in Coders /\ shape.bonds \subseteq Bonds /\ main.round + 1 \in 0..MaxRounds
  <2>1. m \in Coders
    BY Parts, ConstantsAssumption
  <2>2. main.round + 1 \in 0..MaxRounds
    BY <1>1, Parts, MainFacts, CoderFacts
  <2> QED
    BY <2>1, <2>2, Parts, BondFacts
<1>4. /\ main' \in MainType /\ main'.pc = "reinit" /\ main'.coder = m /\ main'.todo = shape.bonds
      /\ main'.round = main.round + 1 /\ main'.returned = "none" /\ main'.i = main.i
  BY <1>2, <1>3, Parts DEF MainType
<1>5. TypeOK' /\ MainFits' /\ ~InCode' /\ ~Told'
  BY <1>1, <1>4, Parts DEF TypeOK, MainFits, InCode, Told
<1>6. \A c \in Coders : Quiet(c) /\ Held(c) = {}
  <2>1. Told /\ main.returned # "throw"
    BY <1>1 DEF Told, Errors
  <2> QED
    BY <1>1, <2>1, Parts DEF Rendezvous, EndsFit
<1>7. ASSUME NEW c \in Coders PROVE Lifecycle(c)' /\ Rendezvous(c)' /\ EndsFit(c)'
  <2>1. /\ Stopped(c)' = Stopped(c) /\ ~Joined(c)' /\ Ins(c)' = Ins(c) /\ Outs(c)' = Outs(c)
    BY <1>1, <1>4 DEF Stopped, Joined, Ins, Outs
  <2>2. Lifecycle(c)'
    BY <1>1, <1>4, <1>6, <2>1, Parts DEF Lifecycle, Quiet
  <2>3. Quiet(c)'
    BY <1>1, <1>6 DEF Quiet
  <2>4. Rendezvous(c)'
    BY <1>4, <2>3 DEF Rendezvous
  <2>5. ~ToRun(c)'
    BY <1>1, <1>4, <1>6 DEF ToRun, Quiet
  <2> QED
    BY <1>5, <2>2, <2>4, <2>5 DEF EndsFit
<1>8. ASSUME NEW b \in shape.bonds PROVE BondFits(b)'
  <2>1. BondFits(b) /\ b \in Bonds /\ Reader(b) \in Coders /\ Writer(b) \in Coders
    BY Parts, BondFacts DEF IInv
  <2>2. pipe[b].readOpen = FALSE /\ pipe[b].writeOpen = FALSE
    BY <1>6, <2>1, Parts, HeldNothing, PipeFacts
  <2>3. (b \notin main'.todo) = FALSE
    BY <1>4
  <2>4. pipe[b].round \in Nat /\ main.round = pipe[b].round
    BY <1>1, <2>1, Parts, PipeFacts, CoderFacts DEF BondFits
  <2>5. main'.round = pipe[b].round + (IF main'.pc = "reinit" /\ b \in main'.todo THEN 1 ELSE 0)
    BY <1>4, <2>4
  <2> QED
    BY <1>1, <2>1, <2>2, <2>3, <2>5 DEF BondFits
<1>9. \A b \in Bonds : b \notin shape.bonds => pipe'[b] = FreshPipe
  BY <1>1 DEF IInv
<1>10. SuccessIsWhole' /\ RootCause'
  BY <1>4 DEF SuccessIsWhole, RootCause, JustReturned
<1> QED
  BY <1>5, <1>7, <1>8, <1>9, <1>10 DEF IInv

(* The binders are prepared one after the other.                           *)
LEMMA ReInitKeeps ==
  ASSUME IInv, UNCHANGED shape, ReInit
  PROVE  IInv'
<1>1. main.pc = "reinit" /\ vt' = vt
  BY DEF ReInit
<1>2. \A c \in Coders : Quiet(c) /\ coder[c].call = NoBond
  BY <1>1, Parts DEF Rendezvous, Quiet, Lifecycle
<1>3. main.returned = "none" /\ main.todo \subseteq shape.bonds
  BY <1>1, Parts DEF MainFits
<1>4. \A c : Ins(c)' = Ins(c) /\ Outs(c)' = Outs(c)
  BY DEF Ins, Outs
<1>5. ASSUME NEW b \in main.todo, main' = [main EXCEPT !.todo = @ \ {b}], coder' = coder,
             pipe' = [pipe EXCEPT ![b] = [FreshPipe EXCEPT !.round = pipe[b].round + 1]]
      PROVE  IInv'
  <2>1. b \in shape.bonds /\ b \in Bonds /\ b # NoBond /\ Writer(b) \in Coders /\ BondFits(b)
    BY <1>3, Parts, BondFacts DEF IInv
  <2>2. main.todo \ {b} \in SUBSET Bonds
    BY Parts, MainFacts
  <2>3. /\ main' \in MainType /\ main'.pc = "reinit" /\ main'.todo = main.todo \ {b}
        /\ main'.coder = main.coder /\ main'.round = main.round
        /\ main'.returned = main.returned /\ main'.i = main.i
    BY <1>1, <1>5, <2>2, Parts DEF MainType
  <2>4. main.round = pipe[b].round + 1 /\ pipe[b].round + 1 \in 0..MaxRounds
    <3>1. main.round = pipe[b].round + 1
      BY <1>1, <1>5, <2>1 DEF BondFits
    <3> QED
      BY <3>1, Parts, MainFacts
  <2>5. /\ pipe'[b] = [FreshPipe EXCEPT !.round = pipe[b].round + 1]
        /\ \A e \in Bonds : e # b => pipe'[e] = pipe[e]
    BY <1>5, <2>1, Parts
  <2>6. /\ pipe'[b].got = 0 /\ pipe'[b].acked = 0 /\ pipe'[b].eof = FALSE /\ pipe'[b].cut = FALSE
        /\ pipe'[b].readOpen = TRUE /\ pipe'[b].writeOpen = TRUE
        /\ pipe'[b].round = pipe[b].round + 1
    BY <2>5 DEF FreshPipe
  <2>7. pipe' \in [Bonds -> PipeType]
    <3>1. 0 \in 0..Chunks
      BY CoderFacts
    <3>2. pipe'[b] \in PipeType
      BY <2>4, <2>5, <3>1 DEF PipeType, FreshPipe
    <3> QED
      BY <1>5, <2>1, <2>5, <3>2, Parts
  <2>8. TypeOK' /\ MainFits' /\ ~InCode' /\ ~Told' /\ MainCoder' = MainCoder
    BY <1>1, <1>3, <1>5, <2>3, <2>7, Parts DEF TypeOK, MainFits, InCode, Told, MainCoder
  <2>9. ASSUME NEW c \in Coders PROVE Lifecycle(c)' /\ Rendezvous(c)' /\ EndsFit(c)'
    <3>1. Stopped(c)' = Stopped(c) /\ Joined(c)' = Joined(c)
      BY <1>1, <2>3 DEF Stopped, Joined
    <3>2. Lifecycle(c)'
      BY <1>1, <1>4, <1>5, <2>3, <2>8, <3>1, Parts DEF Lifecycle
    <3>3. Quiet(c)'
      BY <1>1, <1>2, <1>5 DEF Quiet
    <3>4. Rendezvous(c)' /\ ~ToRun(c)'
      BY <1>1, <1>2, <1>5, <2>3, <3>3 DEF Rendezvous, ToRun, Quiet
    <3> QED
      BY <2>8, <3>2, <3>4 DEF EndsFit
  <2>10. ASSUME NEW e \in shape.bonds PROVE BondFits(e)'
    <3>1. CASE e = b
      <4>1. coder'[Writer(b)].call # b
        BY <1>2, <1>5, <2>1
      <4>2. b \notin main'.todo
        BY <2>3
      <4>3. main'.round = pipe'[b].round + (IF main'.pc = "reinit" /\ b \in main'.todo THEN 1 ELSE 0)
        BY <2>3, <2>4, <2>6, <4>2
      <4>4. pipe'[b].got \in {pipe'[b].acked, pipe'[b].acked + 1}
        BY <2>6
      <4> QED
        BY <2>6, <3>1, <4>1, <4>2, <4>3, <4>4 DEF BondFits
    <3>2. CASE e # b
      <4>1. BondFits(e) /\ pipe'[e] = pipe[e]
        BY <2>5, <3>2, Parts, BondFacts DEF IInv
      <4>2. e \in main'.todo <=> e \in main.todo
        BY <2>3, <3>2
      <4> QED
        BY <1>1, <1>5, <2>3, <4>1, <4>2 DEF BondFits
    <3> QED
      BY <3>1, <3>2
  <2>11. \A e \in Bonds : e \notin shape.bonds => pipe'[e] = FreshPipe
    BY <2>1, <2>5 DEF IInv
  <2>12. SuccessIsWhole' /\ RootCause'
    BY <2>3 DEF SuccessIsWhole, RootCause, JustReturned
  <2> QED
    BY <2>8, <2>9, <2>10, <2>11, <2>12 DEF IInv
<1>6. ASSUME main.todo = {}, main' = [main EXCEPT !.pc = "create", !.i = 0], pipe' = pipe,
             coder' = [c \in Coders |-> [coder[c] EXCEPT !.own = "ok"]]
      PROVE  IInv'
  <2>1. 0 \in -1..NumCoders /\ 0 >= 0
    BY CoderFacts
  <2>2. /\ main' \in MainType /\ main'.pc = "create" /\ main'.i = 0 /\ main'.todo = main.todo
        /\ main'.coder = main.coder /\ main'.round = main.round /\ main'.returned = main.returned
    BY <1>6, <2>1, Parts DEF MainType
  <2>3. \A c \in Coders : /\ coder'[c] \in CoderType /\ coder'[c].at = coder[c].at
                          /\ coder'[c].call = coder[c].call /\ coder'[c].own = "ok"
    BY <1>6, Parts DEF CoderType
  <2>4. TypeOK'
    <3>1. coder' \in [Coders -> CoderType]
      BY <1>6, <2>3
    <3> QED
      BY <1>1, <1>6, <2>2, <3>1, Parts DEF TypeOK
  <2>5. MainFits' /\ ~Told' /\ MainCoder' = MainCoder
    BY <1>1, <1>3, <2>1, <2>2, Parts DEF MainFits, Told, MainCoder
  <2>6. \A b \in shape.bonds : /\ b \in Bonds /\ BondFits(b) /\ pipe[b].readOpen /\ pipe[b].writeOpen
    <3>1. \A b \in shape.bonds : b \in Bonds /\ BondFits(b)
      BY Parts, BondFacts DEF IInv
    <3> QED
      BY <1>1, <1>6, <3>1 DEF BondFits
  <2>7. ASSUME NEW c \in Coders PROVE Lifecycle(c)' /\ Rendezvous(c)' /\ EndsFit(c)' /\ ToRun(c)'
    <3>1. Stopped(c)' = Stopped(c) /\ Joined(c)' = Joined(c)
      BY <1>1, <2>2 DEF Stopped, Joined
    <3>2. Lifecycle(c)'
      BY <1>1, <1>4, <2>2, <2>3, <2>5, <3>1, Parts DEF Lifecycle
    <3>3. Quiet(c)'
      BY <1>1, <1>2, <2>3 DEF Quiet
    <3>4. ~(c < main'.i)
      BY <2>2, CoderFacts
    <3>5. Rendezvous(c)' /\ ToRun(c)'
      BY <2>2, <3>3, <3>4 DEF Rendezvous, ToRun
    <3>6. EndsFit(c)'
      BY <1>4, <1>6, <2>3, <2>5, <2>6, <3>5, EndsOf DEF EndsFit
    <3> QED
      BY <3>2, <3>5, <3>6
  <2>8. ASSUME NEW b \in shape.bonds PROVE BondFits(b)'
    <3>1. Writer(b) \in Coders
      BY <2>6, Parts, BondFacts
    <3>2. coder'[Writer(b)].call = coder[Writer(b)].call
      BY <2>3, <3>1
    <3>3. main'.round = pipe'[b].round + (IF main'.pc = "reinit" /\ b \in main'.todo THEN 1 ELSE 0)
      BY <1>1, <1>6, <2>2, <2>6 DEF BondFits
    <3> QED
      BY <1>6, <2>2, <2>6, <3>2, <3>3 DEF BondFits
  <2>9. \A b \in Bonds : b \notin shape.bonds => pipe'[b] = FreshPipe
    BY <1>6 DEF IInv
  <2>10. SuccessIsWhole' /\ RootCause'
    BY <2>2 DEF SuccessIsWhole, RootCause, JustReturned
  <2> QED
    BY <2>4, <2>5, <2>7, <2>8, <2>9, <2>10 DEF IInv
<1> QED
  BY <1>5, <1>6 DEF ReInit

LEMMA MainStepKeeps ==
  ASSUME IInv, UNCHANGED shape, MainStep
  PROVE  IInv'
<1>1. main.pc = "code" /\ CodeStep(MainCoder) => IInv'
  BY CodeStepKeeps, Parts, MainFacts DEF Working
<1> QED
  BY <1>1, CreateWorkerKeeps, StartWorkerKeeps, AwaitWorkerKeeps, SkipMainCoderKeeps,
     LoopEndKeeps, MainCodedKeeps, ReturnKeeps, NextFolderKeeps, ReInitKeeps, DestroyKeeps,
     StopWorkerKeeps, JoinWorkerKeeps, DestroyBindersKeeps DEF MainStep

LEMMA InitFits == Init => IInv
<1> SUFFICES ASSUME Init PROVE IInv
  OBVIOUS
<1>1. PICK m \in shape.mainCoders :
        main = [pc |-> "create", i |-> 0, coder |-> m, todo |-> {}, round |-> 0,
                returned |-> "none"]
  BY DEF Init
<1>2. /\ shape \in Shapes /\ m \in Coders /\ MainCoder = m /\ pipe = [b \in Bonds |-> FreshPipe]
      /\ vt = [c \in Coders |-> [pc |-> "none", start |-> FALSE, finished |-> FALSE,
                                 exit |-> FALSE]]
      /\ coder = [c \in Coders |-> [at |-> "rest", call |-> NoBond, result |-> "ok", own |-> "ok"]]
  BY <1>1, ConstantsAssumption DEF Init, MainCoder
<1>3. main \in MainType
  <2>1. 0 \in -1..NumCoders /\ 0 \in 0..MaxRounds
    BY CoderFacts
  <2> QED
    BY <1>1, <1>2, <2>1 DEF MainType
<1>4. vt \in [Coders -> ThreadType] /\ coder \in [Coders -> CoderType]
  BY <1>2 DEF ThreadType, CoderType
<1>5. pipe \in [Bonds -> PipeType]
  <2>1. 0 \in 0..Chunks /\ 0 \in 0..MaxRounds
    BY CoderFacts
  <2> QED
    BY <1>2, <2>1 DEF PipeType, FreshPipe
<1>6. TypeOK
  BY <1>2, <1>3, <1>4, <1>5 DEF TypeOK
<1>7. MainFits
  BY <1>1 DEF MainFits
<1>8. ASSUME NEW c \in Coders PROVE Lifecycle(c) /\ Rendezvous(c) /\ EndsFit(c) /\ ToRun(c)
  <2>1. /\ vt[c].pc = "none" /\ ~vt[c].start /\ ~vt[c].finished /\ vt[c].exit = FALSE
        /\ coder[c].at = "rest" /\ coder[c].call = NoBond /\ coder[c].own = "ok"
        /\ main.pc = "create" /\ main.i = 0 /\ main.returned = "none" /\ ~(c < 0)
    BY <1>1, <1>2, CoderFacts
  <2>2. vt[c].exit = Stopped(c) /\ ~Joined(c)
    BY <2>1 DEF Stopped, Joined
  <2>3. Lifecycle(c)
    BY <2>1, <2>2 DEF Lifecycle
  <2>4. Rendezvous(c) /\ ToRun(c) /\ ~Told
    BY <2>1 DEF Rendezvous, Quiet, ToRun, Told
  <2>5. \A b \in Ins(c) \cup Outs(c) : pipe[b].readOpen /\ pipe[b].writeOpen
    BY <1>2, EndsOf, BondFacts DEF FreshPipe
  <2>6. EndsFit(c)
    BY <2>1, <2>4, <2>5 DEF EndsFit
  <2> QED
    BY <2>3, <2>4, <2>6
<1>9. ASSUME NEW b \in shape.bonds PROVE BondFits(b)
  <2>1. b \in Bonds /\ Writer(b) \in Coders /\ NoBond # b
    BY <1>2, BondFacts
  <2>2. /\ coder[Writer(b)].call # b /\ pipe[b] = FreshPipe
        /\ main.round = 0 /\ main.pc = "create"
    BY <1>1, <1>2, <2>1
  <2> QED
    BY <2>2 DEF BondFits, FreshPipe
<1>10. SuccessIsWhole /\ RootCause
  BY <1>1 DEF SuccessIsWhole, RootCause, JustReturned
<1> QED
  BY <1>2, <1>6, <1>7, <1>8, <1>9, <1>10 DEF IInv

(* IInv is inductive: threads, ends, bonds and causes fit in every state,  *)
(* for any coders and bonds, and any number of pieces and folders.         *)
THEOREM MixerInvariant == Spec => []IInv
<1>1. ASSUME IInv, [Next]_vars PROVE IInv'
  <2>1. CASE Next
    BY <1>1, <2>1, MainStepKeeps, WorkerStepKeeps DEF Next
  <2>2. CASE UNCHANGED vars
    <3>1. shape' = shape /\ main' = main /\ vt' = vt /\ coder' = coder /\ pipe' = pipe
      BY <2>2 DEF vars
    <3>2. TypeOK' /\ MainFits'
      BY <1>1, <3>1 DEF IInv, TypeOK, MainFits
    <3>3. /\ InCode' = InCode /\ Told' = Told /\ Blamed' = Blamed
          /\ MainCoder' = MainCoder /\ EncodeMode' = EncodeMode
      BY <3>1 DEF InCode, Told, Blamed, MainCoder, EncodeMode
    <3>4. \A c : /\ Ins(c)' = Ins(c) /\ Outs(c)' = Outs(c) /\ Held(c)' = Held(c)
                 /\ Stopped(c)' = Stopped(c) /\ Joined(c)' = Joined(c)
                 /\ Quiet(c)' = Quiet(c) /\ Started(c)' = Started(c) /\ ToRun(c)' = ToRun(c)
      BY <3>1 DEF Ins, Outs, Held, Stopped, Joined, Quiet, Started, ToRun, MainCoder
    <3>5. \A c : /\ Lifecycle(c) => Lifecycle(c)'
                 /\ Rendezvous(c) => Rendezvous(c)'
                 /\ EndsFit(c) => EndsFit(c)'
                 /\ CauseIsKnown(c) => CauseIsKnown(c)'
      BY <3>1, <3>3, <3>4 DEF Lifecycle, Rendezvous, EndsFit, CauseIsKnown
    <3>6. \A b : BondFits(b) => BondFits(b)'
      BY <3>1 DEF BondFits
    <3>7. SuccessIsWhole' /\ RootCause'
      BY <1>1, <3>1 DEF IInv, SuccessIsWhole, RootCause, JustReturned
    <3> QED
      BY <1>1, <3>1, <3>2, <3>3, <3>4, <3>5, <3>6, <3>7 DEF IInv
  <2> QED
    BY <1>1, <2>1, <2>2
<1> QED
  BY <1>1, InitFits, PTL DEF Spec

(* When Code has returned a result no worker still codes or is about to,   *)
(* and when the binders are destroyed no thread is left that uses one.     *)
THEOREM AtRest == Spec => []ThreadsAtRest
<1>1. IInv => ThreadsAtRest
  <2>1. SUFFICES ASSUME IInv, NEW c \in Coders,
                        (main.pc = "idle" /\ main.returned # "throw") \/ main.pc = "gone"
                 PROVE  /\ vt[c].pc \in {"none", "wait", "exited"} /\ coder[c].at = "rest"
                        /\ ~vt[c].start /\ (main.pc = "idle" => ~vt[c].finished)
    BY DEF ThreadsAtRest
  <2>2. CASE main.pc = "idle"
    BY <2>1, <2>2, Parts DEF Rendezvous, Quiet
  <2>3. CASE main.pc = "gone"
    <3>1. main.i = -1 /\ -1 < c
      BY <2>1, <2>3, Parts, CoderFacts DEF MainFits
    <3>2. Lifecycle(c) /\ Joined(c)
      BY <2>1, <2>3, <3>1, Parts DEF Joined
    <3>3. vt[c].pc \in {"none", "exited"} /\ ~vt[c].start /\ coder[c].at = "rest"
      BY <2>3, <3>2 DEF Lifecycle
    <3> QED
      BY <2>3, <3>3
  <2> QED
    BY <2>1, <2>2, <2>3
<1> QED
  BY <1>1, MixerInvariant, PTL

(* S_OK means that no coder failed and no early end was taken for an end,  *)
(* whatever the bonds between the coders.                                  *)
THEOREM SuccessMeansWhole == Spec => []SuccessIsWhole
<1>1. IInv => SuccessIsWhole
  BY DEF IInv
<1> QED
  BY <1>1, MixerInvariant, PTL

(* The error Code returns is a coder's own, not one it caused in others.   *)
THEOREM CauseIsReturned == Spec => []RootCause
<1>1. IInv => RootCause
  BY DEF IInv
<1> QED
  BY <1>1, MixerInvariant, PTL

-----------------------------------------------------------------------------
(* The refinement: what BytePipe sees of a state.                          *)
Taken(n) == [i \in 1..n |-> i - 1]
PipeDelivered == [b \in Bonds |-> Taken(pipe[b].got)]
PipeOffered == [b \in Bonds |-> IF coder[Writer(b)].call = b THEN pipe[b].acked + 1
                                                             ELSE pipe[b].acked]
PipeAcked == [b \in Bonds |-> pipe[b].acked]
PipeEof == [b \in Bonds |-> pipe[b].eof]
PipeCut == [b \in Bonds |-> pipe[b].cut]
PipeReadClosed == [b \in Bonds |-> ~pipe[b].readOpen]
PipeWriteClosed == [b \in Bonds |-> ~pipe[b].writeOpen]
PipeRound == [b \in Bonds |-> pipe[b].round]

LEMMA TakenFacts ==
  ASSUME NEW n \in Nat
  PROVE  /\ Len(Taken(n)) = n /\ Taken(n) \in Seq(Int)
         /\ Taken(n) \o [i \in 1..1 |-> n + i - 1] = Taken(n + 1)
         /\ Taken(0) = <<>>
<1>1. Taken(n) \in Seq(Int) /\ Len(Taken(n)) = n
  BY DEF Taken
<1>2. Taken(n) \o [i \in 1..1 |-> n + i - 1] = Taken(n + 1)
  BY DEF Taken
<1>3. Taken(0) = <<>>
  BY DEF Taken
<1> QED
  BY <1>1, <1>2, <1>3

(* Most steps of the mixer leave the pipes alone.                          *)
LEMMA Silent ==
  ASSUME pipe' = pipe,
         \A b \in Bonds : coder'[Writer(b)].call = b <=> coder[Writer(b)].call = b
  PROVE  UNCHANGED Pipes!vars
<1>1. PipeOffered' = PipeOffered
  BY DEF PipeOffered, Writer
<1>2. /\ PipeDelivered' = PipeDelivered /\ PipeAcked' = PipeAcked /\ PipeEof' = PipeEof
      /\ PipeCut' = PipeCut /\ PipeReadClosed' = PipeReadClosed
      /\ PipeWriteClosed' = PipeWriteClosed /\ PipeRound' = PipeRound
  BY DEF PipeDelivered, PipeAcked, PipeEof, PipeCut, PipeReadClosed, PipeWriteClosed, PipeRound
<1> QED
  BY <1>1, <1>2 DEF Pipes!vars, PipeOffered, PipeDelivered, PipeAcked, PipeEof, PipeCut,
     PipeReadClosed, PipeWriteClosed, PipeRound, Taken

(* A step at one bond: each view changes there only, or not at all.        *)
LEMMA OneBond ==
  ASSUME NEW b \in Bonds,
         \A e \in Bonds : e # b =>
           pipe'[e] = pipe[e] /\ (coder'[Writer(e)].call = e <=> coder[Writer(e)].call = e)
  PROVE  /\ PipeDelivered' = [PipeDelivered EXCEPT ![b] = Taken(pipe'[b].got)]
         /\ pipe'[b].got = pipe[b].got => PipeDelivered' = PipeDelivered
         /\ /\ pipe'[b].acked = pipe[b].acked
            /\ coder'[Writer(b)].call = b <=> coder[Writer(b)].call = b
            => PipeOffered' = PipeOffered
         /\ \A n : pipe'[b].acked = n => PipeAcked' = [PipeAcked EXCEPT ![b] = n]
         /\ pipe'[b].acked = pipe[b].acked => PipeAcked' = PipeAcked
         /\ \A n : pipe'[b].eof = n => PipeEof' = [PipeEof EXCEPT ![b] = n]
         /\ pipe'[b].eof = pipe[b].eof => PipeEof' = PipeEof
         /\ \A n : pipe'[b].cut = n => PipeCut' = [PipeCut EXCEPT ![b] = n]
         /\ pipe'[b].cut = pipe[b].cut => PipeCut' = PipeCut
         /\ pipe'[b].readOpen = FALSE => PipeReadClosed' = [PipeReadClosed EXCEPT ![b] = TRUE]
         /\ pipe'[b].readOpen = TRUE => PipeReadClosed' = [PipeReadClosed EXCEPT ![b] = FALSE]
         /\ pipe'[b].readOpen = pipe[b].readOpen => PipeReadClosed' = PipeReadClosed
         /\ pipe'[b].writeOpen = FALSE => PipeWriteClosed' = [PipeWriteClosed EXCEPT ![b] = TRUE]
         /\ pipe'[b].writeOpen = TRUE => PipeWriteClosed' = [PipeWriteClosed EXCEPT ![b] = FALSE]
         /\ pipe'[b].writeOpen = pipe[b].writeOpen => PipeWriteClosed' = PipeWriteClosed
         /\ \A n : pipe'[b].round = n => PipeRound' = [PipeRound EXCEPT ![b] = n]
         /\ pipe'[b].round = pipe[b].round => PipeRound' = PipeRound
<1>1. PipeDelivered' = [PipeDelivered EXCEPT ![b] = Taken(pipe'[b].got)]
  BY DEF PipeDelivered
<1>2. pipe'[b].got = pipe[b].got => PipeDelivered' = PipeDelivered
  BY DEF PipeDelivered
<1>3. pipe'[b].acked = pipe[b].acked /\ (coder'[Writer(b)].call = b <=> coder[Writer(b)].call = b)
      => PipeOffered' = PipeOffered
  BY DEF PipeOffered, Writer
<1>4. /\ \A n : pipe'[b].acked = n => PipeAcked' = [PipeAcked EXCEPT ![b] = n]
      /\ pipe'[b].acked = pipe[b].acked => PipeAcked' = PipeAcked
  BY DEF PipeAcked
<1>5. /\ \A n : pipe'[b].eof = n => PipeEof' = [PipeEof EXCEPT ![b] = n]
      /\ pipe'[b].eof = pipe[b].eof => PipeEof' = PipeEof
  BY DEF PipeEof
<1>6. /\ \A n : pipe'[b].cut = n => PipeCut' = [PipeCut EXCEPT ![b] = n]
      /\ pipe'[b].cut = pipe[b].cut => PipeCut' = PipeCut
  BY DEF PipeCut
<1>7. /\ pipe'[b].readOpen = FALSE => PipeReadClosed' = [PipeReadClosed EXCEPT ![b] = TRUE]
      /\ pipe'[b].readOpen = TRUE => PipeReadClosed' = [PipeReadClosed EXCEPT ![b] = FALSE]
      /\ pipe'[b].readOpen = pipe[b].readOpen => PipeReadClosed' = PipeReadClosed
  BY DEF PipeReadClosed
<1>8. /\ pipe'[b].writeOpen = FALSE => PipeWriteClosed' = [PipeWriteClosed EXCEPT ![b] = TRUE]
      /\ pipe'[b].writeOpen = TRUE => PipeWriteClosed' = [PipeWriteClosed EXCEPT ![b] = FALSE]
      /\ pipe'[b].writeOpen = pipe[b].writeOpen => PipeWriteClosed' = PipeWriteClosed
  BY DEF PipeWriteClosed
<1>9. /\ \A n : pipe'[b].round = n => PipeRound' = [PipeRound EXCEPT ![b] = n]
      /\ pipe'[b].round = pipe[b].round => PipeRound' = PipeRound
  BY DEF PipeRound
<1> QED
  BY <1>1, <1>2, <1>3, <1>4, <1>5, <1>6, <1>7, <1>8, <1>9

LEMMA OneOffer ==
  ASSUME NEW b \in Bonds, NEW n,
         n = (IF coder'[Writer(b)].call = b THEN pipe'[b].acked + 1 ELSE pipe'[b].acked),
         \A e \in Bonds : e # b =>
           pipe'[e] = pipe[e] /\ (coder'[Writer(e)].call = e <=> coder[Writer(e)].call = e)
  PROVE  PipeOffered' = [PipeOffered EXCEPT ![b] = n]
BY DEF PipeOffered, Writer

(* Calling Read shows nothing, calling Write offers a piece.               *)
LEMMA CallPipe ==
  ASSUME IInv, NEW c \in Coders, Working(c), NEW b \in shape.bonds,
         CallRead(c, b) \/ CallWrite(c, b)
  PROVE  [Pipes!Next]_(Pipes!vars)
<1>1. /\ coder[c].at = "run" /\ coder[c].call = NoBond /\ coder' = [coder EXCEPT ![c].call = b]
      /\ pipe' = pipe
  BY DEF CallRead, CallWrite, Free
<1>2. b \in Bonds /\ NoBond \notin Bonds /\ Reader(b) # Writer(b) /\ Writer(b) \in Coders
      /\ \A e \in Bonds : Writer(e) \in Coders
  BY Parts, BondFacts
<1>3. coder'[c].call = b /\ \A d \in Coders : d # c => coder'[d] = coder[d]
  <2>1. coder'[c] = [coder[c] EXCEPT !.call = b]
    BY <1>1, Parts
  <2> QED
    BY <1>1, <2>1, Parts DEF CoderType
<1>4. \A e \in Bonds : e # b => (coder'[Writer(e)].call = e <=> coder[Writer(e)].call = e)
  BY <1>1, <1>2, <1>3
<1>5. CASE Writer(b) # c
  <2>1. coder'[Writer(b)].call = coder[Writer(b)].call
    BY <1>2, <1>3, <1>5
  <2> QED
    BY <1>1, <1>4, <2>1, Silent
<1>6. CASE Writer(b) = c
  <2>1. ToRun(c) /\ b \in Outs(c)
    BY <1>1, <1>6, EndsOf DEF ToRun
  <2>2. pipe[b].writeOpen = TRUE
    BY <1>2, <2>1, Parts, PipeFacts DEF EndsFit
  <2>3. pipe[b].acked \in Nat
    BY <1>2, Parts, PipeFacts, CoderFacts
  <2>4. /\ ~PipeWriteClosed[b] /\ PipeOffered[b] = PipeAcked[b] /\ PipeAcked[b] = pipe[b].acked
    BY <1>1, <1>2, <1>6, <2>2 DEF PipeWriteClosed, PipeOffered, PipeAcked
  <2>5. PipeOffered' = [PipeOffered EXCEPT ![b] = pipe[b].acked + 1]
    BY <1>1, <1>2, <1>3, <1>4, <1>6, OneOffer
  <2>6. PipeOffered'[b] = pipe[b].acked + 1
    BY <1>2, <2>5 DEF PipeOffered
  <2>7. PipeOffered'[b] \in Nat /\ PipeOffered'[b] > PipeAcked[b]
        /\ PipeOffered' = [PipeOffered EXCEPT ![b] = PipeOffered'[b]]
    <3>1. PipeOffered' = [PipeOffered EXCEPT ![b] = PipeOffered'[b]]
      BY <2>5, <2>6, Zenon
    <3> QED
      BY <2>3, <2>4, <2>6, <3>1
  <2>8. UNCHANGED <<PipeDelivered, PipeAcked, PipeEof, PipeCut, PipeReadClosed, PipeWriteClosed,
                    PipeRound>>
    BY <1>1 DEF PipeDelivered, PipeAcked, PipeEof, PipeCut, PipeReadClosed, PipeWriteClosed, PipeRound
  <2>9. Pipes!Offer(b)
    BY <2>4, <2>7, <2>8 DEF Pipes!Offer, PipeDelivered, PipeOffered, PipeAcked, PipeEof, PipeCut,
       PipeReadClosed, PipeWriteClosed, PipeRound, Taken
  <2> QED
    BY <1>2, <2>9 DEF Pipes!Next
<1> QED
  BY <1>5, <1>6

(* Read returns: one piece is delivered, or the end of the stream told.    *)
LEMMA ReadPipe ==
  ASSUME IInv, NEW c \in Coders, NEW b \in shape.bonds, ReadReturns(c, b)
  PROVE  [Pipes!Next]_(Pipes!vars)
<1>1. /\ b \in Bonds /\ NoBond \notin Bonds /\ Reader(b) = c /\ Writer(b) # c
      /\ pipe[b].readOpen = TRUE /\ coder[c].call = b /\ BondFits(b) /\ Writer(b) \in Coders
      /\ \A e \in Bonds : Writer(e) \in Coders
  BY Parts, BondFacts, CallFacts, EndsOf, PipeFacts DEF IInv, ReadReturns
<1>2. coder' = [coder EXCEPT ![c].call = NoBond]
  BY DEF ReadReturns
<1>3. coder'[c].call = NoBond /\ \A d \in Coders : d # c => coder'[d] = coder[d]
  <2>1. coder'[c] = [coder[c] EXCEPT !.call = NoBond]
    BY <1>2, Parts
  <2> QED
    BY <1>2, <2>1, Parts DEF CoderType
<1>4. \A e \in Bonds : coder'[Writer(e)].call = e <=> coder[Writer(e)].call = e
  BY <1>1, <1>3
<1>5. /\ pipe[b].got \in Nat /\ pipe[b].acked \in Nat /\ pipe \in [Bonds -> PipeType]
      /\ pipe[b] \in PipeType
  BY <1>1, Parts, PipeFacts, CoderFacts
<1>6. CASE Offered(b) /\ pipe' = [pipe EXCEPT ![b].got = @ + 1]
  <2>1. coder[Writer(b)].call = b /\ pipe[b].got = pipe[b].acked
    BY <1>6 DEF Offered
  <2>2. pipe'[b] = [pipe[b] EXCEPT !.got = @ + 1] /\ \A e \in Bonds : e # b => pipe'[e] = pipe[e]
    BY <1>1, <1>5, <1>6
  <2>3. /\ pipe'[b].got = pipe[b].got + 1 /\ pipe'[b].acked = pipe[b].acked
        /\ pipe'[b].eof = pipe[b].eof /\ pipe'[b].cut = pipe[b].cut
        /\ pipe'[b].readOpen = pipe[b].readOpen /\ pipe'[b].writeOpen = pipe[b].writeOpen
        /\ pipe'[b].round = pipe[b].round
    BY <1>5, <2>2 DEF PipeType
  <2>4. /\ PipeDelivered' = [PipeDelivered EXCEPT ![b] = Taken(pipe[b].got + 1)]
        /\ PipeOffered' = PipeOffered /\ PipeAcked' = PipeAcked /\ PipeEof' = PipeEof
        /\ PipeCut' = PipeCut /\ PipeReadClosed' = PipeReadClosed
        /\ PipeWriteClosed' = PipeWriteClosed /\ PipeRound' = PipeRound
    <3>1. PipeDelivered' = [PipeDelivered EXCEPT ![b] = Taken(pipe[b].got + 1)]
      <4>1. PipeDelivered' = [PipeDelivered EXCEPT ![b] = Taken(pipe'[b].got)]
        BY <1>1, <1>4, <2>2, OneBond
      <4> QED
        BY <2>3, <4>1, Zenon
    <3> QED
      BY <1>1, <1>4, <2>2, <2>3, <3>1, OneBond, SMTT(30), ZenonT(30)
  <2>5. /\ PipeDelivered[b] = Taken(pipe[b].got) /\ Len(PipeDelivered[b]) = pipe[b].got
        /\ PipeOffered[b] = pipe[b].got + 1 /\ ~PipeReadClosed[b]
    BY <1>1, <1>5, <2>1, TakenFacts DEF PipeDelivered, PipeOffered, PipeReadClosed
  <2>6. 1 \in 1..(PipeOffered[b] - Len(PipeDelivered[b]))
    BY <1>5, <2>5
  <2>7. Taken(pipe[b].got + 1)
          = PipeDelivered[b] \o [i \in 1..1 |-> Len(PipeDelivered[b]) + i - 1]
    BY <1>5, <2>5, TakenFacts
  <2>8. PipeDelivered' = [PipeDelivered EXCEPT ![b] =
                            @ \o [i \in 1..1 |-> Len(PipeDelivered[b]) + i - 1]]
    BY <2>4, <2>7
  <2>9. Pipes!Deliver(b)
    BY <2>4, <2>5, <2>6, <2>8 DEF Pipes!Deliver, PipeDelivered, PipeOffered, PipeAcked, PipeEof,
       PipeCut, PipeReadClosed, PipeWriteClosed, PipeRound, Taken
  <2> QED
    BY <1>1, <2>9 DEF Pipes!Next
<1>7. CASE ~Offered(b) /\ ~pipe[b].writeOpen /\ pipe' = [pipe EXCEPT ![b].eof = TRUE]
  <2>1. pipe[b].writeOpen = FALSE /\ pipe[b].got = pipe[b].acked
    <3>1. pipe[b].writeOpen = FALSE
      BY <1>1, <1>7, Parts, PipeFacts
    <3>2. coder[Writer(b)].call # b
      BY <1>1, <3>1, CallFacts
    <3> QED
      BY <1>1, <3>1, <3>2 DEF BondFits
  <2>2. pipe'[b] = [pipe[b] EXCEPT !.eof = TRUE] /\ \A e \in Bonds : e # b => pipe'[e] = pipe[e]
    BY <1>1, <1>5, <1>7
  <2>3. /\ pipe'[b].got = pipe[b].got /\ pipe'[b].acked = pipe[b].acked
        /\ pipe'[b].eof = TRUE /\ pipe'[b].cut = pipe[b].cut
        /\ pipe'[b].readOpen = pipe[b].readOpen /\ pipe'[b].writeOpen = pipe[b].writeOpen
        /\ pipe'[b].round = pipe[b].round
    BY <1>5, <2>2 DEF PipeType
  <2>4. /\ PipeEof' = [PipeEof EXCEPT ![b] = TRUE] /\ PipeDelivered' = PipeDelivered
        /\ PipeOffered' = PipeOffered /\ PipeAcked' = PipeAcked
        /\ PipeCut' = PipeCut /\ PipeReadClosed' = PipeReadClosed
        /\ PipeWriteClosed' = PipeWriteClosed /\ PipeRound' = PipeRound
    BY <1>1, <1>4, <2>2, <2>3, OneBond
  <2>5. /\ PipeDelivered[b] = Taken(pipe[b].got) /\ Len(PipeDelivered[b]) = PipeAcked[b]
        /\ ~PipeReadClosed[b] /\ PipeWriteClosed[b]
    BY <1>1, <1>5, <2>1, TakenFacts DEF PipeDelivered, PipeAcked, PipeReadClosed, PipeWriteClosed
  <2>6. Pipes!End(b)
    BY <2>4, <2>5 DEF Pipes!End, PipeDelivered, PipeOffered, PipeAcked, PipeEof,
       PipeCut, PipeReadClosed, PipeWriteClosed, PipeRound, Taken
  <2> QED
    BY <1>1, <2>6 DEF Pipes!Next
<1> QED
  BY <1>6, <1>7 DEF ReadReturns

(* Write returns: it reports what was taken, and "cut" if that is nothing. *)
LEMMA WritePipe ==
  ASSUME IInv, NEW c \in Coders, NEW b \in shape.bonds, WriteReturns(c, b)
  PROVE  [Pipes!Next]_(Pipes!vars)
<1>1. /\ b \in Bonds /\ NoBond \notin Bonds /\ Writer(b) = c /\ BondFits(b) /\ pipe[b].cut = FALSE
      /\ coder[c].call = b /\ \A e \in Bonds : Writer(e) \in Coders
  BY Parts, BondFacts, CallFacts, EndsOf, PipeFacts DEF IInv, WriteReturns
<1>2. /\ coder' = [coder EXCEPT ![c].call = NoBond]
      /\ pipe' = [pipe EXCEPT ![b].acked = pipe[b].got, ![b].cut = Offered(b)]
      /\ ~Offered(b) \/ ~pipe[b].readOpen
  BY DEF WriteReturns
<1>3. coder'[c].call = NoBond /\ \A d \in Coders : d # c => coder'[d] = coder[d]
  <2>1. coder'[c] = [coder[c] EXCEPT !.call = NoBond]
    BY <1>2, Parts
  <2> QED
    BY <1>2, <2>1, Parts DEF CoderType
<1>4. /\ coder'[Writer(b)].call # b
      /\ \A e \in Bonds : e # b => (coder'[Writer(e)].call = e <=> coder[Writer(e)].call = e)
  BY <1>1, <1>3
<1>5. /\ pipe[b].got \in Nat /\ pipe[b].acked \in Nat /\ pipe \in [Bonds -> PipeType]
      /\ pipe[b] \in PipeType
  BY <1>1, Parts, PipeFacts, CoderFacts
<1>6. /\ pipe'[b] = [pipe[b] EXCEPT !.acked = pipe[b].got, !.cut = Offered(b)]
      /\ \A e \in Bonds : e # b => pipe'[e] = pipe[e]
  BY <1>1, <1>2, <1>5
<1>7. /\ pipe'[b].got = pipe[b].got /\ pipe'[b].acked = pipe[b].got
      /\ pipe'[b].eof = pipe[b].eof /\ pipe'[b].cut = Offered(b)
      /\ pipe'[b].readOpen = pipe[b].readOpen /\ pipe'[b].writeOpen = pipe[b].writeOpen
      /\ pipe'[b].round = pipe[b].round
  BY <1>5, <1>6 DEF PipeType
<1>8. Offered(b) = (pipe[b].cut \/ pipe[b].got = pipe[b].acked)
  BY <1>1 DEF Offered
<1>9. /\ PipeDelivered[b] = Taken(pipe[b].got) /\ Len(PipeDelivered[b]) = pipe[b].got
      /\ PipeAcked[b] = pipe[b].acked /\ PipeOffered[b] = pipe[b].acked + 1
      /\ PipeCut[b] = pipe[b].cut
  BY <1>1, <1>5, TakenFacts DEF PipeDelivered, PipeOffered, PipeAcked, PipeCut
<1>10. PipeOffered[b] > PipeAcked[b]
  BY <1>5, <1>9
<1>11. Len(PipeDelivered[b]) = PipeOffered[b] \/ PipeReadClosed[b]
  <2>1. CASE pipe[b].got = pipe[b].acked
    <3>1. ~pipe[b].readOpen
      BY <1>1, <1>2, <2>1 DEF Offered
    <3> QED
      BY <1>1, <3>1 DEF PipeReadClosed
  <2>2. CASE pipe[b].got # pipe[b].acked
    BY <1>1, <1>9, <2>2 DEF BondFits
  <2> QED
    BY <2>1, <2>2
<1>12. PipeOffered' = [PipeOffered EXCEPT ![b] = Len(PipeDelivered[b])]
  <2>1. PipeOffered' = [PipeOffered EXCEPT ![b] = pipe[b].got]
    BY <1>1, <1>4, <1>6, <1>7, OneOffer
  <2> QED
    BY <1>9, <2>1, Zenon
<1>13. /\ PipeAcked' = [PipeAcked EXCEPT ![b] = Len(PipeDelivered[b])]
       /\ PipeDelivered' = PipeDelivered /\ PipeEof' = PipeEof
       /\ PipeReadClosed' = PipeReadClosed /\ PipeWriteClosed' = PipeWriteClosed
       /\ PipeRound' = PipeRound
  <2>1. PipeAcked' = [PipeAcked EXCEPT ![b] = pipe[b].got]
    BY <1>1, <1>4, <1>6, <1>7, OneBond
  <2>2. PipeAcked' = [PipeAcked EXCEPT ![b] = Len(PipeDelivered[b])]
    BY <1>9, <2>1, Zenon
  <2> QED
    BY <1>1, <1>4, <1>6, <1>7, <2>2, OneBond
<1>14. PipeCut' = [PipeCut EXCEPT ![b] = @ \/ Len(PipeDelivered[b]) = PipeAcked[b]]
  <2>1. PipeCut' = [PipeCut EXCEPT ![b] = Offered(b)]
    BY <1>1, <1>4, <1>6, <1>7, OneBond
  <2>2. Offered(b) = (PipeCut[b] \/ Len(PipeDelivered[b]) = PipeAcked[b])
    BY <1>8, <1>9
  <2> QED
    BY <2>1, <2>2, Zenon
<1>15. Pipes!Report(b)
  BY <1>10, <1>11, <1>12, <1>13, <1>14 DEF Pipes!Report, PipeDelivered, PipeOffered, PipeAcked,
     PipeEof, PipeCut, PipeReadClosed, PipeWriteClosed, PipeRound, Taken
<1> QED
  BY <1>1, <1>15 DEF Pipes!Next

(* A coder lets go of an end, and has no call under way.                   *)
LEMMA ClosePipe ==
  ASSUME IInv, NEW c \in Coders, NEW b \in Held(c), CloseEnd(c, b), coder' = coder,
         coder[c].call = NoBond
  PROVE  [Pipes!Next]_(Pipes!vars)
<1>1. /\ b \in shape.bonds /\ b \in Bonds /\ NoBond # b
      /\ \A e \in Bonds : e # b => pipe'[e] = pipe[e]
      /\ pipe'[b].got = pipe[b].got /\ pipe'[b].acked = pipe[b].acked
      /\ pipe'[b].eof = pipe[b].eof /\ pipe'[b].cut = pipe[b].cut
      /\ pipe'[b].round = pipe[b].round
      /\ \/ Reader(b) = c /\ ~pipe'[b].readOpen /\ pipe'[b].writeOpen = pipe[b].writeOpen
         \/ Writer(b) = c /\ ~pipe'[b].writeOpen /\ pipe'[b].readOpen = pipe[b].readOpen
      /\ pipe'[b].readOpen \in BOOLEAN /\ pipe'[b].writeOpen \in BOOLEAN
  <2>1. pipe' \in [Bonds -> PipeType] /\ b \in shape.bonds
    BY Parts, CloseEffect
  <2>2. b \in Bonds /\ NoBond # b
    BY <2>1, Parts, BondFacts
  <2> QED
    BY <2>1, <2>2, Parts, CloseEffect DEF PipeType
<1>2. /\ PipeDelivered' = PipeDelivered /\ PipeOffered' = PipeOffered /\ PipeAcked' = PipeAcked
      /\ PipeEof' = PipeEof /\ PipeCut' = PipeCut /\ PipeRound' = PipeRound
  BY <1>1, OneBond
<1>3. CASE pipe'[b].readOpen = FALSE /\ pipe'[b].writeOpen = pipe[b].writeOpen
  <2>1. /\ PipeReadClosed' = [PipeReadClosed EXCEPT ![b] = TRUE]
        /\ PipeWriteClosed' = PipeWriteClosed
    BY <1>1, <1>3, OneBond
  <2>2. Pipes!CloseRead(b)
    BY <1>2, <2>1 DEF Pipes!CloseRead, PipeDelivered, PipeOffered, PipeAcked, PipeEof,
       PipeCut, PipeReadClosed, PipeWriteClosed, PipeRound, Taken
  <2> QED
    BY <1>1, <2>2 DEF Pipes!Next
<1>4. CASE /\ Writer(b) = c /\ pipe'[b].writeOpen = FALSE
           /\ pipe'[b].readOpen = pipe[b].readOpen
  <2>1. /\ PipeWriteClosed' = [PipeWriteClosed EXCEPT ![b] = TRUE]
        /\ PipeReadClosed' = PipeReadClosed
    BY <1>1, <1>4, OneBond
  <2>2. PipeOffered[b] = PipeAcked[b]
    BY <1>1, <1>4 DEF PipeOffered, PipeAcked
  <2>3. Pipes!CloseWrite(b)
    BY <1>2, <2>1, <2>2 DEF Pipes!CloseWrite, PipeDelivered, PipeOffered, PipeAcked, PipeEof,
       PipeCut, PipeReadClosed, PipeWriteClosed, PipeRound, Taken
  <2> QED
    BY <1>1, <2>3 DEF Pipes!Next
<1> QED
  BY <1>1, <1>3, <1>4

(* A binder is prepared for the next folder: both its ends are closed.     *)
LEMMA RenewPipe ==
  ASSUME IInv, main.pc = "reinit", NEW b \in main.todo, coder' = coder,
         pipe' = [pipe EXCEPT ![b] = [FreshPipe EXCEPT !.round = pipe[b].round + 1]]
  PROVE  [Pipes!Next]_(Pipes!vars)
<1>1. /\ b \in shape.bonds /\ b \in Bonds /\ BondFits(b) /\ Writer(b) \in Coders /\ NoBond # b
      /\ pipe \in [Bonds -> PipeType]
  <2>1. b \in shape.bonds
    BY Parts DEF MainFits
  <2> QED
    BY <2>1, Parts, BondFacts DEF IInv
<1>2. coder[Writer(b)].call # b
  BY <1>1, Parts DEF Rendezvous, Quiet, Lifecycle
<1>3. pipe[b].readOpen = FALSE /\ pipe[b].writeOpen = FALSE
  BY <1>1 DEF BondFits
<1>4. /\ pipe'[b] = [FreshPipe EXCEPT !.round = pipe[b].round + 1]
      /\ \A e \in Bonds : e # b => pipe'[e] = pipe[e]
  BY <1>1
<1>5. /\ pipe'[b].got = 0 /\ pipe'[b].acked = 0 /\ pipe'[b].eof = FALSE /\ pipe'[b].cut = FALSE
      /\ pipe'[b].readOpen = TRUE /\ pipe'[b].writeOpen = TRUE
      /\ pipe'[b].round = pipe[b].round + 1
  BY <1>4 DEF FreshPipe
<1>6. PipeReadClosed[b] /\ PipeWriteClosed[b] /\ PipeRound[b] = pipe[b].round
  BY <1>1, <1>3 DEF PipeReadClosed, PipeWriteClosed, PipeRound
<1>7. PipeDelivered' = [PipeDelivered EXCEPT ![b] = <<>>]
  <2>1. PipeDelivered' = [PipeDelivered EXCEPT ![b] = Taken(pipe'[b].got)]
    BY <1>1, <1>4, OneBond
  <2>2. Taken(pipe'[b].got) = <<>>
    BY <1>5, TakenFacts
  <2> QED
    BY <2>1, <2>2
<1>8. PipeOffered' = [PipeOffered EXCEPT ![b] = 0]
  BY <1>1, <1>2, <1>4, <1>5, OneOffer
<1>9. /\ PipeAcked' = [PipeAcked EXCEPT ![b] = 0]
      /\ PipeEof' = [PipeEof EXCEPT ![b] = FALSE] /\ PipeCut' = [PipeCut EXCEPT ![b] = FALSE]
  BY <1>1, <1>4, <1>5, OneBond
<1>10. /\ PipeReadClosed' = [PipeReadClosed EXCEPT ![b] = FALSE]
       /\ PipeWriteClosed' = [PipeWriteClosed EXCEPT ![b] = FALSE]
  BY <1>1, <1>4, <1>5, OneBond
<1>11. PipeRound' = [PipeRound EXCEPT ![b] = @ + 1]
  <2>1. PipeRound' = [PipeRound EXCEPT ![b] = pipe[b].round + 1]
    BY <1>1, <1>4, <1>5, OneBond
  <2> QED
    BY <1>6, <2>1
<1>12. Pipes!Renew(b)
  BY <1>6, <1>7, <1>8, <1>9, <1>10, <1>11 DEF Pipes!Renew, PipeDelivered, PipeOffered, PipeAcked,
     PipeEof, PipeCut, PipeReadClosed, PipeWriteClosed, PipeRound, Taken
<1> QED
  BY <1>1, <1>12 DEF Pipes!Next

(* The other steps do not touch a pipe.                                    *)
LEMMA CallsStay ==
  ASSUME pipe' = pipe, \A c \in Coders : coder'[c].call = coder[c].call, IInv
  PROVE  UNCHANGED Pipes!vars
BY Parts, BondFacts, Silent


LEMMA CodePipe ==
  ASSUME IInv, NEW c \in Coders, Working(c), CodeStep(c)
  PROVE  [Pipes!Next]_(Pipes!vars)
<1>1. ASSUME NEW result, NEW own, Finish(c, result, own), pipe' = pipe
      PROVE  [Pipes!Next]_(Pipes!vars)
  <2>1. /\ coder'[c] = [coder[c] EXCEPT !.at = "release", !.result = result, !.own = own]
        /\ \A d \in Coders : d # c => coder'[d] = coder[d]
    BY <1>1, Parts DEF Finish
  <2>2. coder'[c].call = coder[c].call
    BY <2>1, Parts DEF CoderType
  <2> QED
    BY <1>1, <2>1, <2>2, CallsStay
<1>2. CASE \E b \in shape.bonds : CallRead(c, b) \/ CallWrite(c, b)
  BY <1>2, CallPipe
<1>3. CASE \E b \in shape.bonds : ReadReturns(c, b) \/ WriteReturns(c, b)
  BY <1>3, ReadPipe, WritePipe
<1>4. CASE CoderReturns(c) \/ CoderThrows(c)
  BY <1>1, <1>4 DEF CoderReturns, CoderThrows
<1>5. CASE Release(c)
  <2>1. coder[c].at = "release" /\ coder[c].call = NoBond
    BY <1>5, Parts DEF Release, Lifecycle
  <2>2. CASE coder' = coder /\ \E b \in Held(c) : CloseEnd(c, b)
    BY <2>1, <2>2, ClosePipe
  <2>3. CASE coder' = [coder EXCEPT ![c].at = "done"] /\ pipe' = pipe
    <3>1. /\ coder'[c] = [coder[c] EXCEPT !.at = "done"]
          /\ \A d \in Coders : d # c => coder'[d] = coder[d]
      BY <2>3, Parts
    <3>2. coder'[c].call = coder[c].call
      BY <3>1, Parts DEF CoderType
    <3> QED
      BY <2>3, <3>1, <3>2, CallsStay
  <2> QED
    BY <1>5, <2>2, <2>3 DEF Release
<1> QED
  BY <1>2, <1>3, <1>4, <1>5 DEF CodeStep

LEMMA PlaceOnly ==
  ASSUME IInv, NEW c \in Coders, NEW at, coder' = [coder EXCEPT ![c].at = at], pipe' = pipe
  PROVE  UNCHANGED Pipes!vars
<1>1. /\ coder'[c] = [coder[c] EXCEPT !.at = at]
      /\ \A d \in Coders : d # c => coder'[d] = coder[d]
  BY Parts
<1>2. coder'[c].call = coder[c].call
  BY <1>1, Parts DEF CoderType
<1> QED
  BY <1>1, <1>2, CallsStay

LEMMA StepPipe ==
  ASSUME IInv, [Next]_vars
  PROVE  [Pipes!Next]_(Pipes!vars)
<1>1. CASE coder' = coder /\ pipe' = pipe
  BY <1>1, CallsStay
<1>2. ASSUME NEW c \in Coders, WorkerStep(c) PROVE [Pipes!Next]_(Pipes!vars)
  <2>1. CASE WakeUp(c)
    BY <1>1, <2>1, PlaceOnly DEF WakeUp
  <2>2. CASE Executed(c)
    BY <2>2, PlaceOnly DEF Executed
  <2>3. CASE vt[c].pc = "execute" /\ CodeStep(c)
    BY <2>3, CodePipe DEF Working
  <2> QED
    BY <1>2, <2>1, <2>2, <2>3 DEF WorkerStep
<1>3. ASSUME MainStep PROVE [Pipes!Next]_(Pipes!vars)
  <2>0. MainCoder \in Coders
    BY Parts, MainFacts
  <2>1. CASE CreateWorker \/ StartWorker \/ AwaitWorker \/ SkipMainCoder
    BY <1>1, <2>1 DEF CreateWorker, StartWorker, AwaitWorker, SkipMainCoder
  <2>2. CASE LoopEnd
    BY <1>1, <2>0, <2>2, PlaceOnly DEF LoopEnd
  <2>3. CASE main.pc = "code" /\ CodeStep(MainCoder)
    BY <2>0, <2>3, CodePipe DEF Working
  <2>4. CASE MainCoded
    BY <2>0, <2>4, PlaceOnly DEF MainCoded
  <2>5. CASE Return \/ NextFolder \/ Destroy \/ StopWorker \/ DestroyBinders
    BY <1>1, <2>5 DEF Return, NextFolder, Destroy, StopWorker, DestroyBinders
  <2>6. CASE ReInit
    <3>1. CASE coder' = [c \in Coders |-> [coder[c] EXCEPT !.own = "ok"]] /\ pipe' = pipe
      <4>1. \A c \in Coders : coder'[c].call = coder[c].call
        BY <3>1, Parts DEF CoderType
      <4> QED
        BY <3>1, <4>1, CallsStay
    <3> QED
      BY <2>6, <3>1, RenewPipe DEF ReInit
  <2>7. CASE JoinWorker
    <3>1. PICK w \in Coders : w = main.i
      BY <2>7, Parts DEF JoinWorker, MainFits
    <3>2. vt[w].pc \in {"none", "exited"} /\ main.pc = "join" /\ coder' = coder
      BY <2>7, <3>1 DEF JoinWorker
    <3>3. coder[w].call = NoBond
      BY <3>2, Parts DEF Lifecycle
    <3>4. CASE \E b \in Held(w) : CloseEnd(w, b)
      BY <3>2, <3>3, <3>4, ClosePipe
    <3>5. CASE pipe' = pipe
      BY <1>1, <3>2, <3>5
    <3> QED
      BY <2>7, <3>1, <3>4, <3>5 DEF JoinWorker
  <2> QED
    BY <1>3, <2>1, <2>2, <2>3, <2>4, <2>5, <2>6, <2>7 DEF MainStep
<1>4. CASE UNCHANGED vars
  BY <1>1, <1>4 DEF vars
<1> QED
  BY <1>2, <1>3, <1>4 DEF Next

LEMMA InitPipe == Init => Pipes!Init
<1> SUFFICES ASSUME Init PROVE Pipes!Init
  OBVIOUS
<1>1. /\ shape \in Shapes /\ pipe = [b \in Bonds |-> FreshPipe]
      /\ \A c \in Coders : coder[c].call = NoBond
  BY DEF Init
<1>2. \A b \in Bonds : /\ coder[Writer(b)].call # b /\ pipe[b].got = 0 /\ pipe[b].acked = 0
                       /\ pipe[b].eof = FALSE /\ pipe[b].cut = FALSE /\ pipe[b].readOpen = TRUE
                       /\ pipe[b].writeOpen = TRUE /\ pipe[b].round = 0
  BY <1>1, BondFacts DEF FreshPipe
<1>3. PipeDelivered = [b \in Bonds |-> <<>>]
  BY <1>2, TakenFacts DEF PipeDelivered
<1>4. PipeOffered = [b \in Bonds |-> 0] /\ PipeAcked = [b \in Bonds |-> 0]
  BY <1>2 DEF PipeOffered, PipeAcked
<1>5. PipeEof = [b \in Bonds |-> FALSE] /\ PipeCut = [b \in Bonds |-> FALSE]
  BY <1>2 DEF PipeEof, PipeCut
<1>6. /\ PipeReadClosed = [b \in Bonds |-> FALSE] /\ PipeWriteClosed = [b \in Bonds |-> FALSE]
      /\ PipeRound = [b \in Bonds |-> 0]
  BY <1>2 DEF PipeReadClosed, PipeWriteClosed, PipeRound
<1> QED
  BY <1>3, <1>4, <1>5, <1>6 DEF Pipes!Init, PipeDelivered, PipeOffered, PipeAcked, PipeEof,
     PipeCut, PipeReadClosed, PipeWriteClosed, PipeRound, Taken

(* The mixer keeps its side of the contract of the binders: ends are       *)
(* closed between calls, and binders renewed when both ends are closed.    *)
THEOREM MixerUsesPipes == Spec => UsesPipes
<1>1. IInv /\ [Next]_vars => [Pipes!Next]_(Pipes!vars)
  BY StepPipe
<1> QED
  BY InitPipe, <1>1, MixerInvariant, PTL DEF Spec, UsesPipes, Pipes!Spec
=============================================================================
