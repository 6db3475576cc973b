------------------------ MODULE Synchronization_proofs ------------------------
(***************************************************************************)
(* Proofs about Synchronization for any threads, objects and wait lists:   *)
(* the inductive invariant, hence that no wakeup is lost, and that the     *)
(* mutex and condition variable construction implements WaitObjects; and   *)
(* about StreamBinder, which waits for events of that kind.                *)
(***************************************************************************)
EXTENDS Synchronization, TLAPS, SequenceTheorems

(* What the assumptions say of a call.                                     *)
LEMMA CallFacts ==
  ASSUME NEW c \in Calls
  PROVE  /\ c.on \in Seq(Objects) /\ Len(c.on) \in Nat \ {0} /\ c.on[1] \in Objects
         /\ \A k \in 1..Len(c.on) : c.on[k] \in Objects /\ SynchroOf[c.on[k]] = SynchroOf[c.on[1]]
         /\ SynchroOf[c.on[1]] \in Synchros
         /\ c.op \in {"set", "reset", "release", "wait"}
         /\ c.op \in {"set", "reset"} => MaxCount[c.on[1]] = 1
         /\ c.n \in Nat \ {0}
<1>1. CASE c.op = "wait"
  <2>1. c.on \in Waits /\ c.n = 1
    BY <1>1 DEF Calls
  <2>2. c.on \in Seq(Objects) /\ Len(c.on) > 0 /\ Len(c.on) \in Nat
    BY <2>1, ConstantsAssumption
  <2>3. \A k \in 1..Len(c.on) : c.on[k] \in Objects /\ SynchroOf[c.on[k]] = SynchroOf[c.on[1]]
    BY <2>1, <2>2, ConstantsAssumption
  <2> QED
    BY <1>1, <2>1, <2>2, <2>3, ConstantsAssumption
<1>2. CASE c.op # "wait"
  <2>1. PICK o \in Objects : c.on = <<o>>
    BY <1>2, ConstantsAssumption DEF Calls
  <2>2. c.op \in {"set", "reset", "release"} /\ c.n \in Nat \ {0}
    <3>1. c.op \in {"set", "reset", "release"} /\ c.n \in {1} \cup Releases
      BY <1>2 DEF Calls
    <3>2. \A r \in {1} \cup Releases : r \in Nat \ {0}
      BY ConstantsAssumption
    <3>3. c.n \in Nat \ {0}
      BY <3>1, <3>2, Zenon
    <3> QED
      BY <3>1, <3>3
  <2>3. c.op \in {"set", "reset"} => MaxCount[o] = 1
    <3>1. c.op \in {"set", "reset"} => \E p \in Objects \ Semaphores : c.on = <<p>>
      BY DEF Calls
    <3> QED
      BY <3>1, <2>1, ConstantsAssumption
  <2>4. c.on \in Seq(Objects) /\ Len(c.on) = 1 /\ c.on[1] = o
    BY <2>1
  <2> QED
    BY <2>1, <2>2, <2>3, <2>4, ConstantsAssumption
<1> QED
  BY <1>1, <1>2

(* A thread inside an operation has a call and its pair of that call.      *)
LEMMA BusyFacts ==
  ASSUME IInv, NEW t \in Threads, pc[t] # "idle"
  PROVE  /\ call[t] \in Calls /\ Synchro(t) \in Synchros
         /\ Target(t) \in Objects
         /\ call[t].n \in Nat \ {0}
         /\ state[Target(t)] \in Nat /\ MaxCount[Target(t)] \in Nat \ {0}
         /\ state[Target(t)] <= MaxCount[Target(t)]
         /\ call[t].op \in {"set", "reset"} => MaxCount[Target(t)] = 1
<1>1. call[t] \in Calls
  BY DEF IInv, TypeOK, CallMatches
<1> QED
  BY <1>1, CallFacts, ConstantsAssumption DEF Synchro, Target, IInv, TypeOK

LEMMA InitIInv == Init => IInv
<1> SUFFICES ASSUME Init PROVE IInv
  OBVIOUS
<1>1. TypeOK
  BY ConstantsAssumption DEF Init, TypeOK
<1>2. OwnerMatches
  <2> SUFFICES ASSUME NEW t \in Threads, NEW s \in Synchros
               PROVE  owner[s] # t /\ ~Holding(t)
    BY DEF OwnerMatches
  <2> QED
    BY ConstantsAssumption DEF Init, Holding
<1>3. NoLostWakeup
  BY DEF Init, NoLostWakeup
<1>4. \A t \in Threads : CallMatches(t)
  BY DEF Init, CallMatches
<1> QED
  BY <1>1, <1>2, <1>3, <1>4 DEF IInv

(* Every step keeps the types, in particular the counts in their range.    *)
LEMMA NextTypeOK == IInv /\ Next => TypeOK'
<1> SUFFICES ASSUME IInv, NEW t \in Threads,
                    Start(t) \/ Enter(t) \/ Proceed(t) \/ Spurious(t)
             PROVE  TypeOK'
  BY DEF Next
<1> USE DEF IInv, TypeOK, Goto
<1>1. CASE Start(t)
  BY <1>1 DEF Start
<1>2. CASE Enter(t)
  BY <1>2, BusyFacts DEF Enter
<1>3. CASE Set(t)
  BY <1>3, BusyFacts DEF Set
<1>4. CASE Reset(t)
  BY <1>4, BusyFacts DEF Reset
<1>5. CASE Release(t)
  BY <1>5, BusyFacts DEF Release
<1>6. CASE Take(t)
  <2>1. PICK k \in 1..Len(call[t].on) :
          /\ state[call[t].on[k]] > 0
          /\ state' = IF call[t].on[k] \in ManualReset THEN state
                      ELSE [state EXCEPT ![call[t].on[k]] = @ - 1]
    BY <1>6 DEF Take, FirstSignaled
  <2>2. pc[t] # "idle"
    BY <1>6 DEF Take
  <2>3. call[t].on[k] \in Objects
    BY <2>2, BusyFacts, CallFacts
  <2>4. state[call[t].on[k]] - 1 \in Nat /\ state[call[t].on[k]] - 1 <= MaxCount[call[t].on[k]]
    BY <2>1, <2>3, ConstantsAssumption
  <2>5. state' \in [Objects -> Nat] /\ \A o \in Objects : state'[o] <= MaxCount[o]
    BY <2>1, <2>3, <2>4
  <2> QED
    BY <1>6, <2>5 DEF Take
<1>7. CASE Sleep(t)
  BY <1>7, BusyFacts DEF Sleep
<1>8. CASE Broadcast(t)
  BY <1>8 DEF Broadcast
<1>9. CASE Leave(t)
  BY <1>9, BusyFacts DEF Leave
<1>10. CASE Spurious(t)
  BY <1>10 DEF Spurious
<1> QED
  BY <1>1, <1>2, <1>3, <1>4, <1>5, <1>6, <1>7, <1>8, <1>9, <1>10 DEF Proceed

(* A thread's call and place go together.                                  *)
LEMMA NextCallMatches == IInv /\ Next => \A v \in Threads : CallMatches(v)'
<1> SUFFICES ASSUME IInv, NEW t \in Threads, NEW v \in Threads,
                    Start(t) \/ Enter(t) \/ Proceed(t) \/ Spurious(t)
             PROVE  CallMatches(v)'
  BY DEF Next
<1>0. CallMatches(t) /\ CallMatches(v) /\ call \in [Threads -> Calls \cup {NoCall}]
      /\ pc \in [Threads -> {"idle", "enter", "locked", "sleep", "woken", "signal", "leave"}]
  BY DEF IInv, TypeOK
<1>1. CASE Start(t)
  BY <1>0, <1>1, NoCallAssumption DEF Start, Goto, CallMatches
<1>2. CASE Broadcast(t)
  BY <1>0, <1>2 DEF Broadcast, CallMatches, Sleepers
<1>3. CASE Sleep(t)
  BY <1>0, <1>3 DEF Sleep, Goto, CallMatches
<1>4. CASE Leave(t)
  BY <1>0, <1>4 DEF Leave, Goto, CallMatches
<1>5. CASE Enter(t) \/ Spurious(t)
  BY <1>0, <1>5 DEF Enter, Spurious, Goto, CallMatches
<1>6. CASE Set(t) \/ Reset(t) \/ Release(t) \/ Take(t)
  BY <1>0, <1>6 DEF Set, Reset, Release, Take, Goto, CallMatches
<1> QED
  BY <1>1, <1>2, <1>3, <1>4, <1>5, <1>6 DEF Proceed

(* A step that takes or gives no mutex keeps who holds what.               *)
LEMMA SameOwners ==
  ASSUME IInv, owner' = owner,
         \A v \in Threads : /\ Holding(v)' <=> Holding(v)
                            /\ Holding(v) => Synchro(v)' = Synchro(v)
  PROVE  OwnerMatches'
BY DEF OwnerMatches, IInv

LEMMA NextOwnerMatches == IInv /\ Next => OwnerMatches'
<1> SUFFICES ASSUME IInv, NEW t \in Threads,
                    Start(t) \/ Enter(t) \/ Proceed(t) \/ Spurious(t)
             PROVE  OwnerMatches'
  BY DEF Next
<1>0. OwnerMatches /\ call \in [Threads -> Calls \cup {NoCall}]
      /\ pc \in [Threads -> {"idle", "enter", "locked", "sleep", "woken", "signal", "leave"}]
      /\ owner \in [Synchros -> Threads \cup {Nobody}]
  BY DEF IInv, TypeOK
<1>1. CASE Start(t)
  BY <1>0, <1>1, SameOwners DEF Start, Goto, Holding, Synchro, Target
<1>2. CASE Set(t) \/ Reset(t) \/ Release(t) \/ Take(t)
  BY <1>0, <1>2, SameOwners DEF Set, Reset, Release, Take, Goto, Holding, Synchro, Target
<1>3. CASE Spurious(t)
  BY <1>0, <1>3, SameOwners DEF Spurious, Goto, Holding, Synchro, Target
<1>4. CASE Broadcast(t)
  BY <1>0, <1>4, SameOwners DEF Broadcast, Sleepers, Holding, Synchro, Target
<1>5. CASE Enter(t)
  <2>1. Synchro(t) \in Synchros /\ owner[Synchro(t)] = Nobody
    BY <1>5, BusyFacts DEF Enter
  <2>2. owner' = [owner EXCEPT ![Synchro(t)] = t] /\ ~Holding(t) /\ Holding(t)'
    BY <1>0, <1>5 DEF Enter, Goto, Holding
  <2>3. \A v \in Threads \ {t} : Holding(v)' <=> Holding(v)
    BY <1>0, <1>5 DEF Enter, Goto, Holding
  <2>4. \A v \in Threads : Synchro(v)' = Synchro(v)
    BY <1>5 DEF Enter, Synchro, Target
  <2>5. ASSUME NEW v \in Threads, NEW s \in Synchros
        PROVE  (owner[s] = v) <=> (Holding(v) /\ Synchro(v) = s)
    BY <1>0, <2>5 DEF OwnerMatches
  <2> SUFFICES ASSUME NEW v \in Threads, NEW s \in Synchros
               PROVE  (owner'[s] = v) <=> (Holding(v)' /\ Synchro(v)' = s)
    BY DEF OwnerMatches
  <2>6. CASE s = Synchro(t)
    BY <1>0, <2>1, <2>2, <2>3, <2>4, <2>5, <2>6, ConstantsAssumption
  <2>7. CASE s # Synchro(t)
    BY <1>0, <2>1, <2>2, <2>3, <2>4, <2>5, <2>7
  <2> QED
    BY <2>6, <2>7
<1>6. CASE Sleep(t) \/ Leave(t)
  <2>1. Synchro(t) \in Synchros
    BY <1>6, BusyFacts DEF Sleep, Leave
  <2>2. owner' = [owner EXCEPT ![Synchro(t)] = Nobody] /\ Holding(t) /\ ~Holding(t)'
    BY <1>0, <1>6 DEF Sleep, Leave, Goto, Holding
  <2>3. \A v \in Threads \ {t} : Holding(v)' <=> Holding(v)
    BY <1>0, <1>6 DEF Sleep, Leave, Goto, Holding
  <2>4. \A v \in Threads \ {t} : Synchro(v)' = Synchro(v)
    BY <1>0, <1>6 DEF Sleep, Leave, Synchro, Target
  <2>5. ASSUME NEW v \in Threads, NEW s \in Synchros
        PROVE  (owner[s] = v) <=> (Holding(v) /\ Synchro(v) = s)
    BY <1>0, <2>5 DEF OwnerMatches
  <2> SUFFICES ASSUME NEW v \in Threads, NEW s \in Synchros
               PROVE  (owner'[s] = v) <=> (Holding(v)' /\ Synchro(v)' = s)
    BY DEF OwnerMatches
  <2>6. CASE v = t
    <3>1. owner'[s] # t
      <4>1. CASE s = Synchro(t)
        BY <1>0, <2>1, <2>2, <4>1, ConstantsAssumption
      <4>2. CASE s # Synchro(t)
        BY <1>0, <2>1, <2>2, <2>5, <4>2
      <4> QED
        BY <4>1, <4>2
    <3> QED
      BY <2>2, <2>6, <3>1
  <2>7. CASE v # t
    <3>1. CASE s = Synchro(t)
      BY <1>0, <2>1, <2>2, <2>3, <2>4, <2>5, <2>7, <3>1, ConstantsAssumption
    <3>2. CASE s # Synchro(t)
      BY <1>0, <2>1, <2>2, <2>3, <2>4, <2>5, <2>7, <3>2
    <3> QED
      BY <3>1, <3>2
  <2> QED
    BY <2>6, <2>7
<1> QED
  BY <1>1, <1>2, <1>3, <1>4, <1>5, <1>6 DEF Proceed

(* Two threads never hold the same pair.                                   *)
LEMMA Exclusive ==
  ASSUME IInv, NEW u \in Threads, NEW v \in Threads,
         Holding(u), Holding(v), Synchro(u) = Synchro(v)
  PROVE  u = v
<1>1. Synchro(u) \in Synchros
  BY BusyFacts DEF Holding
<1> QED
  BY <1>1 DEF IInv, OwnerMatches

(* A sleeper's objects all use its pair.                                   *)
LEMMA SleeperFacts ==
  ASSUME IInv, NEW v \in Threads, pc[v] # "idle", NEW k \in 1..Len(call[v].on)
  PROVE  call[v].on[k] \in Objects /\ SynchroOf[call[v].on[k]] = Synchro(v)
BY BusyFacts, CallFacts DEF Synchro, Target

LEMMA NextNoLostWakeup == IInv /\ Next => NoLostWakeup'
<1> SUFFICES ASSUME IInv, NEW t \in Threads,
                    Start(t) \/ Enter(t) \/ Proceed(t) \/ Spurious(t),
                    NEW v \in Threads, pc'[v] = "sleep", AnySignaled(v)'
             PROVE  \E u \in Threads : pc'[u] = "signal" /\ Synchro(u)' = Synchro(v)'
  BY DEF Next, NoLostWakeup
<1>0. /\ call \in [Threads -> Calls \cup {NoCall}]
      /\ pc \in [Threads -> {"idle", "enter", "locked", "sleep", "woken", "signal", "leave"}]
      /\ state \in [Objects -> Nat]
      /\ pc[v] = "sleep" /\ AnySignaled(v) =>
           \E u \in Threads : pc[u] = "signal" /\ Synchro(u) = Synchro(v)
  BY DEF IInv, TypeOK, NoLostWakeup
<1>1. CASE Start(t) \/ Enter(t) \/ Spurious(t)
  <2>1. /\ v # t /\ pc[v] = "sleep" /\ AnySignaled(v) /\ Synchro(v)' = Synchro(v)
        /\ t \notin {u \in Threads : pc[u] = "signal"}
    BY <1>0, <1>1 DEF Start, Enter, Spurious, Goto, AnySignaled, Synchro, Target
  <2>2. \A u \in Threads \ {t} : pc'[u] = pc[u] /\ Synchro(u)' = Synchro(u)
    BY <1>0, <1>1 DEF Start, Enter, Spurious, Goto, Synchro, Target
  <2> QED
    BY <1>0, <2>1, <2>2
<1>2. CASE Set(t) \/ Release(t)
  <2>1. pc[v] = "sleep" /\ call' = call /\ pc[t] = "locked" /\ v # t
    BY <1>0, <1>2 DEF Set, Release, Goto
  <2>2. CASE pc'[t] = "signal" /\ Synchro(v) = Synchro(t)
    BY <2>1, <2>2 DEF Synchro, Target
  <2>3. CASE Synchro(v) # Synchro(t)
    <3>1. \A k \in 1..Len(call[v].on) : state'[call[v].on[k]] = state[call[v].on[k]]
      BY <1>0, <1>2, <2>1, <2>3, SleeperFacts DEF Set, Release, Synchro, Target
    <3>2. AnySignaled(v)
      BY <2>1, <3>1 DEF AnySignaled
    <3>3. PICK u \in Threads : pc[u] = "signal" /\ Synchro(u) = Synchro(v)
      BY <1>0, <2>1, <3>2
    <3>4. u # t /\ pc'[u] = "signal" /\ Synchro(u)' = Synchro(v)'
      BY <1>0, <1>2, <2>1, <3>3 DEF Set, Release, Goto, Synchro, Target
    <3> QED
      BY <3>4
  <2>4. CASE pc'[t] # "signal"
    <3>1. state' = state
      BY <1>0, <1>2, <2>4 DEF Set, Release, Goto
    <3>2. AnySignaled(v)
      BY <2>1, <3>1 DEF AnySignaled
    <3>3. PICK u \in Threads : pc[u] = "signal" /\ Synchro(u) = Synchro(v)
      BY <1>0, <2>1, <3>2
    <3>4. u # t /\ pc'[u] = "signal" /\ Synchro(u)' = Synchro(v)'
      BY <1>0, <1>2, <2>1, <3>3 DEF Set, Release, Goto, Synchro, Target
    <3> QED
      BY <3>4
  <2> QED
    BY <2>2, <2>3, <2>4
<1>3. CASE Reset(t) \/ Take(t) \/ Leave(t)
  <2>1. pc[v] = "sleep" /\ v # t /\ call'[v] = call[v]
    BY <1>0, <1>3 DEF Reset, Take, Leave, Goto
  <2>2. \A o \in Objects : state'[o] > 0 => state[o] > 0
    <3>1. CASE Reset(t)
      BY <1>0, <3>1 DEF Reset
    <3>2. CASE Take(t)
      BY <1>0, <3>2 DEF Take, FirstSignaled
    <3>3. CASE Leave(t)
      BY <3>3 DEF Leave
    <3> QED
      BY <1>3, <3>1, <3>2, <3>3
  <2>3. AnySignaled(v)
    BY <2>1, <2>2, SleeperFacts DEF AnySignaled
  <2>4. PICK u \in Threads : pc[u] = "signal" /\ Synchro(u) = Synchro(v)
    BY <1>0, <2>1, <2>3
  <2>5. u # t /\ pc'[u] = "signal" /\ Synchro(u)' = Synchro(v)'
    BY <1>0, <1>3, <2>1, <2>4 DEF Reset, Take, Leave, Goto, Synchro, Target
  <2> QED
    BY <2>5
<1>4. CASE Sleep(t)
  <2>1. call' = call /\ state' = state /\ pc[t] = "locked" /\ ~AnySignaled(t)
    BY <1>4 DEF Sleep
  <2>2. v # t
    BY <2>1 DEF AnySignaled
  <2>3. pc[v] = "sleep" /\ AnySignaled(v)
    BY <1>0, <1>4, <2>1, <2>2 DEF Sleep, Goto, AnySignaled
  <2>4. PICK u \in Threads : pc[u] = "signal" /\ Synchro(u) = Synchro(v)
    BY <1>0, <2>3
  <2>5. u # t /\ pc'[u] = "signal" /\ Synchro(u)' = Synchro(v)'
    BY <1>0, <1>4, <2>1, <2>4 DEF Sleep, Goto, Synchro, Target
  <2> QED
    BY <2>5
<1>5. CASE Broadcast(t)
  <2>1. /\ call' = call /\ state' = state /\ pc[t] = "signal" /\ v # t
        /\ pc[v] = "sleep" /\ v \notin Sleepers(Synchro(t))
    BY <1>0, <1>5 DEF Broadcast, Sleepers
  <2>2. Synchro(v) # Synchro(t) /\ AnySignaled(v)
    BY <2>1 DEF Sleepers, AnySignaled
  <2>3. PICK u \in Threads : pc[u] = "signal" /\ Synchro(u) = Synchro(v)
    BY <1>0, <2>1, <2>2
  <2>4. u # t /\ pc'[u] = "signal" /\ Synchro(u)' = Synchro(v)'
    BY <1>0, <1>5, <2>1, <2>2, <2>3 DEF Broadcast, Sleepers, Synchro, Target
  <2> QED
    BY <2>4
<1> QED
  BY <1>1, <1>2, <1>3, <1>4, <1>5 DEF Proceed

LEMMA StutterIInv == IInv /\ UNCHANGED vars => IInv'
<1> SUFFICES ASSUME IInv, UNCHANGED vars PROVE IInv'
  OBVIOUS
<1>1. TypeOK' /\ NoLostWakeup' /\ \A v \in Threads : CallMatches(v)'
  BY DEF IInv, vars, TypeOK, NoLostWakeup, CallMatches, AnySignaled, Synchro, Target
<1>2. OwnerMatches'
  BY SameOwners DEF vars, Holding, Synchro, Target
<1> QED
  BY <1>1, <1>2 DEF IInv

THEOREM Inductive == Spec => []IInv
<1>1. IInv /\ [Next]_vars => IInv'
  BY NextTypeOK, NextCallMatches, NextOwnerMatches, NextNoLostWakeup, StutterIInv DEF IInv
<1> QED
  BY <1>1, InitIInv, PTL DEF Spec

(* Counts never leave their range: a semaphore is not released beyond its  *)
(* maximum and an event is no more than signaled.                          *)
THEOREM TypeCorrect == Spec => []TypeOK
<1>1. IInv => TypeOK
  BY DEF IInv
<1> QED
  BY <1>1, Inductive, PTL

(* No wakeup is lost, for any threads, objects and wait lists.             *)
THEOREM NoWakeupIsLost == Spec => []NoLostWakeup
<1>1. IInv => NoLostWakeup
  BY DEF IInv
<1> QED
  BY <1>1, Inductive, PTL

-------------------------------------------------------------------------------
(* The refinement.                                                         *)

LEMMA PhaseUpdate ==
  ASSUME NEW t \in Threads, \A u \in Threads \ {t} : PhaseOf(u)' = PhaseOf(u)
  PROVE  Phase' = [Phase EXCEPT ![t] = PhaseOf(t)']
BY DEF Phase

LEMMA PhaseSame ==
  ASSUME \A u \in Threads : PhaseOf(u)' = PhaseOf(u) PROVE Phase' = Phase
BY DEF Phase

LEMMA StepRefines ==
  ASSUME IInv, NEW t \in Threads, Start(t) \/ Enter(t) \/ Proceed(t) \/ Spurious(t)
  PROVE  [Abstract!Next]_(Abstract!vars)
<1>0. /\ call \in [Threads -> Calls \cup {NoCall}]
      /\ pc \in [Threads -> {"idle", "enter", "locked", "sleep", "woken", "signal", "leave"}]
      /\ Phase[t] = PhaseOf(t)
  BY DEF IInv, TypeOK, Phase
<1>1. CASE Start(t)
  <2>1. Phase' = [Phase EXCEPT ![t] = "pending"] /\ Phase[t] = "idle"
    BY <1>0, <1>1, PhaseUpdate DEF Start, Goto, PhaseOf
  <2> QED
    BY <1>1, <2>1 DEF Start, Abstract!Next, Abstract!Call
<1>2. CASE Enter(t) \/ Sleep(t) \/ Spurious(t)
  <2>1. Phase' = Phase
    BY <1>0, <1>2, PhaseSame DEF Enter, Sleep, Spurious, Goto, PhaseOf
  <2> QED
    BY <1>2, <2>1 DEF Enter, Sleep, Spurious, Abstract!vars
<1>3. CASE Broadcast(t)
  <2>1. Phase' = Phase
    BY <1>0, <1>3, PhaseSame DEF Broadcast, Sleepers, PhaseOf
  <2> QED
    BY <1>3, <2>1 DEF Broadcast, Abstract!vars
<1>4. CASE Leave(t)
  <2>1. Phase' = [Phase EXCEPT ![t] = "idle"] /\ Phase[t] = "done"
    BY <1>0, <1>4, PhaseUpdate DEF Leave, Goto, PhaseOf
  <2> QED
    BY <1>4, <2>1 DEF Leave, Abstract!Next, Abstract!Return
<1>5. CASE Set(t) \/ Reset(t) \/ Release(t) \/ Take(t)
  <2>1. Phase' = [Phase EXCEPT ![t] = "done"] /\ Phase[t] = "pending" /\ call' = call
    BY <1>0, <1>5, PhaseUpdate DEF Set, Reset, Release, Take, Goto, PhaseOf
  <2>2. Abstract!Set(t) \/ Abstract!Reset(t) \/ Abstract!Release(t) \/ Abstract!Wait(t)
    <3>1. CASE Set(t)
      BY <3>1 DEF Set, Target, Abstract!Set, Abstract!Target
    <3>2. CASE Reset(t)
      BY <3>2 DEF Reset, Target, Abstract!Reset, Abstract!Target
    <3>3. CASE Release(t)
      BY <3>3 DEF Release, Target, Abstract!Release, Abstract!Target
    <3>4. CASE Take(t)
      BY <3>4 DEF Take, FirstSignaled, Abstract!Wait
    <3> QED
      BY <1>5, <3>1, <3>2, <3>3, <3>4
  <2> QED
    BY <2>1, <2>2 DEF Abstract!Next, Abstract!Effect
<1> QED
  BY <1>1, <1>2, <1>3, <1>4, <1>5 DEF Proceed

(* The objects built from mutexes and condition variables are the atomic   *)
(* ones: each operation has one instant of effect, and a wait takes one    *)
(* signal of the first signaled object.                                    *)
THEOREM ImplementsWaitObjects == Spec => WaitObjectsSpec
<1>1. Init => Abstract!Init
  BY DEF Init, Abstract!Init, Phase, PhaseOf
<1>2. IInv /\ [Next]_vars =>
        [Abstract!Next]_(Abstract!vars)
  <2>1. CASE Next
    BY <2>1, StepRefines DEF Next
  <2>2. CASE UNCHANGED vars
    BY <2>2 DEF vars, Phase, PhaseOf, Abstract!vars
  <2> QED
    BY <2>1, <2>2
<1> QED
  BY <1>1, <1>2, Inductive, PTL DEF Spec, WaitObjectsSpec, Abstract!Spec

-----------------------------------------------------------------------------
(* The stream binder, for any bonds and bounds: its inductive invariant,   *)
(* that a lent buffer is never touched while its owner runs, and that each *)
(* binder implements BytePipe.                                             *)

CONSTANTS Bonds, MaxBytes, MaxSize, MaxRounds

VARIABLES
  canWrite, closedEvent, canRead, closed2, waitWrite, buf, bufSize, processed,
  rpc, rsize, wpc, wsize, acked, got, eof, cut, round

Binder == INSTANCE StreamBinder

Bond(b) == Binder!EventsMatchPcs(b) /\ Binder!Ownership(b) /\ Binder!Progress(b)

(* Initially no byte is on its way and both ends are idle.                 *)
LEMMA BinderInitial == Binder!Init => Binder!IInv
<1> SUFFICES ASSUME Binder!Init PROVE Binder!IInv
  OBVIOUS
<1>0. <<>> \in Seq(Nat) /\ Len(<<>>) = 0
  BY EmptySeq
<1>1. Binder!TypeOK
  BY <1>0 DEF Binder!Init, Binder!TypeOK, Binder!Null
<1>2. \A b \in Bonds : Bond(b)
  <2> SUFFICES ASSUME NEW b \in Bonds PROVE Bond(b)
    OBVIOUS
  <2>1. rpc[b] = "idle" /\ wpc[b] = "idle" /\ Len(got[b]) = 0 /\ acked[b] = 0
    BY <1>0 DEF Binder!Init
  <2>2. Binder!EventsMatchPcs(b) /\ Binder!Ownership(b)
    BY DEF Binder!Init, Binder!EventsMatchPcs, Binder!Ownership, Binder!WithWriter
  <2>3. Binder!Progress(b)
    BY <2>1 DEF Binder!Progress
  <2> QED
    BY <2>2, <2>3 DEF Bond
<1> QED
  BY <1>1, <1>2 DEF Binder!IInv, Bond

(* What ReadCopy appends: n bytes, and when n > 0 they come from a buffer  *)
(* whose owner is blocked.                                                 *)
LEMMA CopyProperties ==
  ASSUME Binder!IInv, NEW b \in Bonds, Binder!ReadCopy(b),
         NEW n, n = Binder!Lesser(rsize[b], bufSize[b])
  PROVE  /\ n \in Nat /\ (n = 0 <=> bufSize[b] = 0)
         /\ n <= bufSize[b]
         /\ n > 0 => wpc[b] = "wait" /\ buf[b] = Len(got[b])
         /\ n = 0 => wpc[b] = "closed"
         /\ got'[b] = got[b] \o [i \in 1..n |-> buf[b] + i - 1]
         /\ got'[b] \in Seq(Nat) /\ Len(got'[b]) = Len(got[b]) + n
<1> DEFINE r == [i \in 1..n |-> buf[b] + i - 1]
<1>1. /\ rpc[b] = "copy" /\ rsize[b] \in Nat \ {0} /\ bufSize[b] \in Nat
      /\ got[b] \in Seq(Nat) /\ got \in [Bonds -> Seq(Nat)]
      /\ wpc[b] \in {"wait", "closed"}
      /\ bufSize[b] > 0 => wpc[b] = "wait" /\ buf[b] \in Nat
      /\ wpc[b] = "wait" => bufSize[b] > 0
      /\ wpc[b] = "closed" => bufSize[b] = 0
      /\ wpc[b] = "wait" => Len(got[b]) = buf[b]
  BY DEF Binder!IInv, Binder!TypeOK, Binder!EventsMatchPcs, Binder!Ownership, Binder!WithWriter,
     Binder!Progress, Binder!ReadCopy
<1>2. /\ n \in Nat /\ (n = 0 <=> bufSize[b] = 0) /\ n <= bufSize[b]
      /\ n > 0 => wpc[b] = "wait" /\ buf[b] = Len(got[b])
      /\ n = 0 => wpc[b] = "closed"
  BY <1>1 DEF Binder!Lesser
<1>3. \A i \in 1..n : buf[b] + i - 1 \in Nat
  BY <1>1, <1>2
<1>4. r \in Seq(Nat) /\ Len(r) = n
  <2>1. r \in [1..n -> Nat]
    BY <1>3
  <2>2. r \in Seq(Nat)
    BY <2>1, <1>2
  <2>3. DOMAIN r = 1..n /\ DOMAIN r = 1..Len(r) /\ Len(r) \in Nat
    BY <2>2, LenProperties
  <2> QED
    BY <2>2, <2>3, <1>2
<1>5. got'[b] = got[b] \o r
  BY <1>1 DEF Binder!ReadCopy
<1>6. got[b] \o r \in Seq(Nat) /\ Len(got[b] \o r) = Len(got[b]) + n
  <2> HIDE DEF r
  <2>1. got[b] \in Seq(Nat)
    BY <1>1
  <2>2. r \in Seq(Nat)
    BY <1>4
  <2>3. /\ got[b] \o r \in Seq(Nat)
        /\ Len(got[b] \o r) = Len(got[b]) + Len(r)
    BY ONLY <2>1, <2>2, ConcatProperties
  <2> QED
    BY <2>3, <1>4
<1> QED
  BY <1>2, <1>5, <1>6

(* Every step keeps the types of the fields, events and program counters.  *)
LEMMA BinderNextTypes ==
  ASSUME Binder!BoundsAssumption
  PROVE  Binder!IInv /\ [Binder!Next]_(Binder!vars) => Binder!TypeOK'
<1> SUFFICES ASSUME Binder!IInv, [Binder!Next]_(Binder!vars) PROVE Binder!TypeOK'
  OBVIOUS
<1> USE DEF Binder!BoundsAssumption, Binder!IInv, Binder!TypeOK, Binder!fields, Binder!reader,
   Binder!writer, Binder!Null
<1>1. ASSUME NEW b \in Bonds, NEW size \in 1..MaxSize, Binder!ReadCall(b, size) PROVE Binder!TypeOK'
  BY <1>1 DEF Binder!ReadCall
<1>2. ASSUME NEW b \in Bonds, NEW size \in 1..MaxSize, Binder!WriteCall(b, size)
      PROVE  Binder!TypeOK'
  <2>1. CASE closed2[b]
    BY <1>2, <2>1 DEF Binder!WriteCall
  <2>2. CASE ~closed2[b]
    <3>1. size \in Nat /\ acked[b] \in Nat
      OBVIOUS
    <3>2. /\ buf' = [buf EXCEPT ![b] = acked[b]]
          /\ bufSize' = [bufSize EXCEPT ![b] = size]
          /\ wsize' = [wsize EXCEPT ![b] = size]
      BY <1>2, <2>2 DEF Binder!WriteCall
    <3>3. buf' \in [Bonds -> Nat \cup {Binder!Null}]
      BY <3>1, <3>2
    <3>4. bufSize' \in [Bonds -> Nat] /\ wsize' \in [Bonds -> Nat]
      BY <3>1, <3>2
    <3> QED
      BY <1>2, <2>2, <3>3, <3>4 DEF Binder!WriteCall
  <2> QED
    BY <2>1, <2>2
<1>3. ASSUME NEW b \in Bonds, Binder!ReadLock(b) PROVE Binder!TypeOK'
  BY <1>3 DEF Binder!ReadLock
<1>4. ASSUME NEW b \in Bonds, Binder!ReadCopy(b) PROVE Binder!TypeOK'
  <2>1. got' \in [Bonds -> Seq(Nat)] /\ rsize' \in [Bonds -> Nat]
    BY <1>4, CopyProperties DEF Binder!ReadCopy
  <2> QED
    BY <1>4, <2>1 DEF Binder!ReadCopy
<1>5. ASSUME NEW b \in Bonds, Binder!ReadAdvance(b) PROVE Binder!TypeOK'
  <2>1. rsize[b] <= bufSize[b] /\ buf[b] \in Nat
    BY <1>5 DEF Binder!ReadAdvance, Binder!Ownership, Binder!Progress, Binder!EventsMatchPcs,
       Binder!WithWriter
  <2>2. bufSize[b] - rsize[b] \in Nat /\ buf[b] + rsize[b] \in Nat
        /\ processed[b] + rsize[b] \in Nat
    BY <2>1
  <2> QED
    BY <1>5, <2>2 DEF Binder!ReadAdvance
<1>6. ASSUME NEW b \in Bonds, Binder!ReadReset(b) PROVE Binder!TypeOK'
  BY <1>6 DEF Binder!ReadReset
<1>7. ASSUME NEW b \in Bonds, Binder!ReadSignal(b) PROVE Binder!TypeOK'
  BY <1>7 DEF Binder!ReadSignal
<1>8. ASSUME NEW b \in Bonds, Binder!CloseRead(b) PROVE Binder!TypeOK'
  BY <1>8 DEF Binder!CloseRead
<1>9. ASSUME NEW b \in Bonds, Binder!WriteSet(b) PROVE Binder!TypeOK'
  BY <1>9 DEF Binder!WriteSet
<1>10. ASSUME NEW b \in Bonds, Binder!WriteWait(b) PROVE Binder!TypeOK'
  BY <1>10 DEF Binder!WriteWait
<1>11. ASSUME NEW b \in Bonds, Binder!WriteReturn(b) PROVE Binder!TypeOK'
  <2>1. PICK n \in Nat : n = wsize[b] - bufSize[b]
    BY <1>11 DEF Binder!WriteReturn, Binder!Progress
  <2>2. acked' = [acked EXCEPT ![b] = @ + n] /\ acked' \in [Bonds -> Nat]
    BY <1>11, <2>1 DEF Binder!WriteReturn
  <2> QED
    BY <1>11, <2>2 DEF Binder!WriteReturn
<1>12. ASSUME NEW b \in Bonds, Binder!CloseWriteSet(b) PROVE Binder!TypeOK'
  BY <1>12 DEF Binder!CloseWriteSet
<1>13. ASSUME NEW b \in Bonds, Binder!CloseWrite(b) PROVE Binder!TypeOK'
  BY <1>13 DEF Binder!CloseWrite
<1>14. ASSUME NEW b \in Bonds, Binder!ReInit(b) PROVE Binder!TypeOK'
  BY <1>14, EmptySeq DEF Binder!ReInit
<1>15. CASE UNCHANGED Binder!vars
  BY <1>15 DEF Binder!vars
<1> QED
  BY <1>1, <1>2, <1>3, <1>4, <1>5, <1>6, <1>7, <1>8,
     <1>9, <1>10, <1>11, <1>12, <1>13, <1>14, <1>15
  DEF Binder!Next, Binder!ReadSteps, Binder!WriteSteps

(* Every step keeps the relation between the events, the two program       *)
(* counters and the bytes of each bond; a step of one bond leaves the      *)
(* fields of every other bond alone.                                       *)
LEMMA BinderNextBond ==
  ASSUME Binder!BoundsAssumption
  PROVE  Binder!IInv /\ [Binder!Next]_(Binder!vars) => \A c \in Bonds : Bond(c)'
<1> SUFFICES ASSUME Binder!IInv, [Binder!Next]_(Binder!vars), NEW c \in Bonds PROVE Bond(c)'
  OBVIOUS
<1> USE DEF Binder!BoundsAssumption, Binder!IInv, Binder!TypeOK, Binder!fields, Binder!reader,
   Binder!writer
<1>1. ASSUME NEW b \in Bonds, NEW size \in 1..MaxSize, Binder!ReadCall(b, size) PROVE Bond(c)'
  <2>1. CASE c # b
    BY <1>1, <2>1 DEF Binder!ReadCall, Bond, Binder!EventsMatchPcs, Binder!Ownership,
       Binder!WithWriter, Binder!Progress
  <2>2. CASE c = b
    <3>1. Binder!EventsMatchPcs(b)'
      BY <1>1 DEF Binder!ReadCall, Bond, Binder!EventsMatchPcs, Binder!Ownership,
         Binder!WithWriter, Binder!Progress
    <3>2. Binder!Ownership(b)'
      BY <1>1 DEF Binder!ReadCall, Bond, Binder!EventsMatchPcs, Binder!Ownership,
         Binder!WithWriter, Binder!Progress
    <3>3. Binder!Progress(b)'
      BY <1>1 DEF Binder!ReadCall, Bond, Binder!EventsMatchPcs, Binder!Ownership,
         Binder!WithWriter, Binder!Progress
    <3> QED
      BY <3>1, <3>2, <3>3, <2>2 DEF Bond
  <2> QED
    BY <2>1, <2>2
<1>2. ASSUME NEW b \in Bonds, NEW size \in 1..MaxSize, Binder!WriteCall(b, size) PROVE Bond(c)'
  <2>1. CASE c # b
    <3>1. UNCHANGED <<canWrite, closedEvent, canRead, closed2, waitWrite>>
          /\ UNCHANGED <<rpc, rsize, got, acked>>
      BY <1>2 DEF Binder!WriteCall
    <3>2. /\ wpc'[c] = wpc[c] /\ wsize'[c] = wsize[c] /\ cut'[c] = cut[c]
          /\ buf'[c] = buf[c] /\ bufSize'[c] = bufSize[c]
      BY <1>2, <2>1 DEF Binder!WriteCall
    <3> QED
      BY <3>1, <3>2 DEF Bond, Binder!EventsMatchPcs, Binder!Ownership, Binder!WithWriter,
         Binder!Progress
  <2>2. CASE c = b
    <3>1. Binder!EventsMatchPcs(b)'
      BY <1>2 DEF Binder!WriteCall, Bond, Binder!EventsMatchPcs, Binder!Ownership,
         Binder!WithWriter, Binder!Progress
    <3>2. Binder!Ownership(b)'
      BY <1>2 DEF Binder!WriteCall, Bond, Binder!EventsMatchPcs, Binder!Ownership,
         Binder!WithWriter, Binder!Progress
    <3>3. Binder!Progress(b)'
      BY <1>2, SMTT(30) DEF Binder!WriteCall, Bond, Binder!EventsMatchPcs, Binder!Ownership,
         Binder!WithWriter, Binder!Progress
    <3> QED
      BY <3>1, <3>2, <3>3, <2>2 DEF Bond
  <2> QED
    BY <2>1, <2>2
<1>3. ASSUME NEW b \in Bonds, Binder!ReadLock(b) PROVE Bond(c)'
  <2>1. CASE c # b
    BY <1>3, <2>1 DEF Binder!ReadLock, Bond, Binder!EventsMatchPcs, Binder!Ownership,
       Binder!WithWriter, Binder!Progress
  <2>2. CASE c = b
    <3>1. Binder!EventsMatchPcs(b)'
      BY <1>3 DEF Binder!ReadLock, Bond, Binder!EventsMatchPcs, Binder!Ownership,
         Binder!WithWriter, Binder!Progress
    <3>2. Binder!Ownership(b)'
      BY <1>3 DEF Binder!ReadLock, Bond, Binder!EventsMatchPcs, Binder!Ownership,
         Binder!WithWriter, Binder!Progress
    <3>3. Binder!Progress(b)'
      BY <1>3 DEF Binder!ReadLock, Bond, Binder!EventsMatchPcs, Binder!Ownership,
         Binder!WithWriter, Binder!Progress
    <3> QED
      BY <3>1, <3>2, <3>3, <2>2 DEF Bond
  <2> QED
    BY <2>1, <2>2
<1>4. ASSUME NEW b \in Bonds, Binder!ReadCopy(b) PROVE Bond(c)'
  <2>1. CASE c # b
    BY <1>4, <2>1 DEF Binder!ReadCopy, Bond, Binder!EventsMatchPcs, Binder!Ownership,
       Binder!WithWriter, Binder!Progress
  <2>2. CASE c = b
    <3>1. Binder!EventsMatchPcs(b)'
      BY <1>4, CopyProperties DEF Binder!ReadCopy, Bond, Binder!EventsMatchPcs, Binder!Ownership,
         Binder!WithWriter, Binder!Progress
    <3>2. PICK n \in Nat :
            /\ n = Binder!Lesser(rsize[b], bufSize[b]) /\ (n = 0 <=> bufSize[b] = 0)
            /\ n <= bufSize[b] /\ Len(got'[b]) = Len(got[b]) + n
            /\ n > 0 => wpc[b] = "wait" /\ buf[b] = Len(got[b])
            /\ n = 0 => wpc[b] = "closed"
      BY <1>4, CopyProperties
    <3>3. /\ rpc'[b] = IF n = 0 THEN "idle" ELSE "advance"
          /\ rsize'[b] = n /\ rpc[b] = "copy"
          /\ UNCHANGED <<canWrite, closedEvent, canRead, closed2, waitWrite, buf, bufSize>>
          /\ UNCHANGED <<wpc, wsize, acked>>
      BY <1>4, <3>2 DEF Binder!ReadCopy
    <3>4. Binder!Ownership(b)'
      BY <3>2, <3>3 DEF Binder!Ownership, Binder!WithWriter
    <3>5. Binder!Progress(b)'
      <4>1. CASE n = 0
        BY <3>2, <3>3, <4>1 DEF Binder!Progress
      <4>2. CASE n # 0
        <5>1. n > 0 /\ wpc[b] = "wait" /\ buf[b] = Len(got[b]) /\ n <= bufSize[b]
          BY <3>2, <4>2
        <5>2. /\ wsize[b] > 0 /\ buf[b] \in Nat /\ buf[b] >= acked[b]
              /\ buf[b] + bufSize[b] = acked[b] + wsize[b]
          BY <5>1 DEF Binder!Progress
        <5>3. rpc'[b] = "advance" /\ rsize'[b] = n /\ Len(got'[b]) = buf[b] + n
          BY <3>2, <3>3, <4>2, <5>1
        <5> QED
          BY <3>3, <5>1, <5>2, <5>3 DEF Binder!Progress
      <4> QED
        BY <4>1, <4>2
    <3> QED
      BY <3>1, <3>4, <3>5, <2>2 DEF Bond
  <2> QED
    BY <2>1, <2>2
<1>5. ASSUME NEW b \in Bonds, Binder!ReadAdvance(b) PROVE Bond(c)'
  <2>1. CASE c # b
    BY <1>5, <2>1 DEF Binder!ReadAdvance, Bond, Binder!EventsMatchPcs, Binder!Ownership,
       Binder!WithWriter, Binder!Progress
  <2>2. CASE c = b
    <3>1. Binder!EventsMatchPcs(b)'
      BY <1>5 DEF Binder!ReadAdvance, Bond, Binder!EventsMatchPcs, Binder!Ownership,
         Binder!WithWriter, Binder!Progress
    <3>2. Binder!Ownership(b)'
      BY <1>5 DEF Binder!ReadAdvance, Bond, Binder!EventsMatchPcs, Binder!Ownership,
         Binder!WithWriter, Binder!Progress
    <3>3. Binder!Progress(b)'
      <4>1. /\ rpc[b] = "advance" /\ wpc[b] = "wait"
            /\ rsize[b] \in Nat /\ bufSize[b] \in Nat /\ rsize[b] <= bufSize[b]
        BY <1>5 DEF Binder!ReadAdvance, Binder!EventsMatchPcs, Binder!Ownership, Binder!WithWriter,
           Binder!Progress
      <4>2. /\ buf'[b] = buf[b] + rsize[b] /\ bufSize'[b] = bufSize[b] - rsize[b]
            /\ rpc'[b] \in {"reset", "idle"}
            /\ UNCHANGED <<rsize, got, wpc, wsize, acked>>
        BY <1>5 DEF Binder!ReadAdvance
      <4>3. /\ wsize[b] > 0 /\ buf[b] \in Nat /\ acked[b] \in Nat /\ buf[b] >= acked[b]
            /\ buf[b] + bufSize[b] = acked[b] + wsize[b]
            /\ Len(got[b]) = buf[b] + rsize[b]
        BY <4>1 DEF Binder!Progress
      <4>4. /\ buf'[b] \in Nat /\ buf'[b] >= acked[b]
            /\ buf'[b] + bufSize'[b] = acked[b] + wsize[b]
            /\ Len(got[b]) = buf'[b]
        BY <4>1, <4>2, <4>3, SMTT(30)
      <4> QED
        BY <4>1, <4>2, <4>3, <4>4 DEF Binder!Progress
    <3> QED
      BY <3>1, <3>2, <3>3, <2>2 DEF Bond
  <2> QED
    BY <2>1, <2>2
<1>6. ASSUME NEW b \in Bonds, Binder!ReadReset(b) PROVE Bond(c)'
  <2>1. CASE c # b
    BY <1>6, <2>1 DEF Binder!ReadReset, Bond, Binder!EventsMatchPcs, Binder!Ownership,
       Binder!WithWriter, Binder!Progress
  <2>2. CASE c = b
    <3>1. Binder!EventsMatchPcs(b)'
      BY <1>6 DEF Binder!ReadReset, Bond, Binder!EventsMatchPcs, Binder!Ownership,
         Binder!WithWriter, Binder!Progress
    <3>2. Binder!Ownership(b)'
      BY <1>6 DEF Binder!ReadReset, Bond, Binder!EventsMatchPcs, Binder!Ownership,
         Binder!WithWriter, Binder!Progress
    <3>3. Binder!Progress(b)'
      BY <1>6 DEF Binder!ReadReset, Bond, Binder!EventsMatchPcs, Binder!Ownership,
         Binder!WithWriter, Binder!Progress
    <3> QED
      BY <3>1, <3>2, <3>3, <2>2 DEF Bond
  <2> QED
    BY <2>1, <2>2
<1>7. ASSUME NEW b \in Bonds, Binder!ReadSignal(b) PROVE Bond(c)'
  <2>1. CASE c # b
    BY <1>7, <2>1 DEF Binder!ReadSignal, Bond, Binder!EventsMatchPcs, Binder!Ownership,
       Binder!WithWriter, Binder!Progress
  <2>2. CASE c = b
    <3>1. Binder!EventsMatchPcs(b)'
      BY <1>7 DEF Binder!ReadSignal, Bond, Binder!EventsMatchPcs, Binder!Ownership,
         Binder!WithWriter, Binder!Progress
    <3>2. Binder!Ownership(b)'
      BY <1>7 DEF Binder!ReadSignal, Bond, Binder!EventsMatchPcs, Binder!Ownership,
         Binder!WithWriter, Binder!Progress
    <3>3. Binder!Progress(b)'
      BY <1>7 DEF Binder!ReadSignal, Bond, Binder!EventsMatchPcs, Binder!Ownership,
         Binder!WithWriter, Binder!Progress
    <3> QED
      BY <3>1, <3>2, <3>3, <2>2 DEF Bond
  <2> QED
    BY <2>1, <2>2
<1>8. ASSUME NEW b \in Bonds, Binder!CloseRead(b) PROVE Bond(c)'
  <2>1. CASE c # b
    BY <1>8, <2>1 DEF Binder!CloseRead, Bond, Binder!EventsMatchPcs, Binder!Ownership,
       Binder!WithWriter, Binder!Progress
  <2>2. CASE c = b
    <3>1. Binder!EventsMatchPcs(b)'
      BY <1>8 DEF Binder!CloseRead, Bond, Binder!EventsMatchPcs, Binder!Ownership,
         Binder!WithWriter, Binder!Progress
    <3>2. Binder!Ownership(b)'
      BY <1>8 DEF Binder!CloseRead, Bond, Binder!EventsMatchPcs, Binder!Ownership,
         Binder!WithWriter, Binder!Progress
    <3>3. Binder!Progress(b)'
      BY <1>8 DEF Binder!CloseRead, Bond, Binder!EventsMatchPcs, Binder!Ownership,
         Binder!WithWriter, Binder!Progress
    <3> QED
      BY <3>1, <3>2, <3>3, <2>2 DEF Bond
  <2> QED
    BY <2>1, <2>2
<1>9. ASSUME NEW b \in Bonds, Binder!WriteSet(b) PROVE Bond(c)'
  <2>1. CASE c # b
    BY <1>9, <2>1 DEF Binder!WriteSet, Bond, Binder!EventsMatchPcs, Binder!Ownership,
       Binder!WithWriter, Binder!Progress
  <2>2. CASE c = b
    <3>1. Binder!EventsMatchPcs(b)'
      BY <1>9 DEF Binder!WriteSet, Bond, Binder!EventsMatchPcs, Binder!Ownership,
         Binder!WithWriter, Binder!Progress
    <3>2. Binder!Ownership(b)'
      BY <1>9 DEF Binder!WriteSet, Binder!EventsMatchPcs, Binder!Ownership, Binder!WithWriter
    <3>3. Binder!Progress(b)'
      BY <1>9 DEF Binder!WriteSet, Bond, Binder!EventsMatchPcs, Binder!Ownership,
         Binder!WithWriter, Binder!Progress
    <3> QED
      BY <3>1, <3>2, <3>3, <2>2 DEF Bond
  <2> QED
    BY <2>1, <2>2
<1>10. ASSUME NEW b \in Bonds, Binder!WriteWait(b) PROVE Bond(c)'
  <2>1. CASE c # b
    BY <1>10, <2>1 DEF Binder!WriteWait, Bond, Binder!EventsMatchPcs, Binder!Ownership,
       Binder!WithWriter, Binder!Progress
  <2>2. CASE c = b
    <3>1. Binder!EventsMatchPcs(b)'
      BY <1>10 DEF Binder!WriteWait, Bond, Binder!EventsMatchPcs, Binder!Ownership,
         Binder!WithWriter, Binder!Progress
    <3>2. Binder!Ownership(b)'
      BY <1>10 DEF Binder!WriteWait, Bond, Binder!EventsMatchPcs, Binder!Ownership,
         Binder!WithWriter, Binder!Progress
    <3>3. Binder!Progress(b)'
      BY <1>10 DEF Binder!WriteWait, Bond, Binder!EventsMatchPcs, Binder!Ownership,
         Binder!WithWriter, Binder!Progress
    <3> QED
      BY <3>1, <3>2, <3>3, <2>2 DEF Bond
  <2> QED
    BY <2>1, <2>2
<1>11. ASSUME NEW b \in Bonds, Binder!WriteReturn(b) PROVE Bond(c)'
  <2>1. CASE c # b
    BY <1>11, <2>1 DEF Binder!WriteReturn, Bond, Binder!EventsMatchPcs, Binder!Ownership,
       Binder!WithWriter, Binder!Progress
  <2>2. CASE c = b
    <3>1. Binder!EventsMatchPcs(b)'
      BY <1>11, SMTT(30) DEF Binder!WriteReturn, Bond, Binder!EventsMatchPcs, Binder!Ownership,
         Binder!WithWriter, Binder!Progress
    <3>2. Binder!Ownership(b)'
      BY <1>11 DEF Binder!WriteReturn, Bond, Binder!EventsMatchPcs, Binder!Ownership,
         Binder!WithWriter, Binder!Progress
    <3>3. Binder!Progress(b)'
      BY <1>11, SMTT(30) DEF Binder!WriteReturn, Bond, Binder!EventsMatchPcs, Binder!Ownership,
         Binder!WithWriter, Binder!Progress
    <3> QED
      BY <3>1, <3>2, <3>3, <2>2 DEF Bond
  <2> QED
    BY <2>1, <2>2
<1>12. ASSUME NEW b \in Bonds, Binder!CloseWriteSet(b) PROVE Bond(c)'
  <2>1. CASE c # b
    BY <1>12, <2>1 DEF Binder!CloseWriteSet, Bond, Binder!EventsMatchPcs, Binder!Ownership,
       Binder!WithWriter, Binder!Progress
  <2>2. CASE c = b
    <3>1. Binder!EventsMatchPcs(b)'
      BY <1>12 DEF Binder!CloseWriteSet, Bond, Binder!EventsMatchPcs, Binder!Ownership,
         Binder!WithWriter, Binder!Progress
    <3>2. Binder!Ownership(b)'
      BY <1>12 DEF Binder!CloseWriteSet, Bond, Binder!EventsMatchPcs, Binder!Ownership,
         Binder!WithWriter, Binder!Progress
    <3>3. Binder!Progress(b)'
      BY <1>12 DEF Binder!CloseWriteSet, Bond, Binder!EventsMatchPcs, Binder!Ownership,
         Binder!WithWriter, Binder!Progress
    <3> QED
      BY <3>1, <3>2, <3>3, <2>2 DEF Bond
  <2> QED
    BY <2>1, <2>2
<1>13. ASSUME NEW b \in Bonds, Binder!CloseWrite(b) PROVE Bond(c)'
  <2>1. CASE c # b
    BY <1>13, <2>1 DEF Binder!CloseWrite, Bond, Binder!EventsMatchPcs, Binder!Ownership,
       Binder!WithWriter, Binder!Progress
  <2>2. CASE c = b
    <3>1. Binder!EventsMatchPcs(b)'
      BY <1>13 DEF Binder!CloseWrite, Bond, Binder!EventsMatchPcs, Binder!Ownership,
         Binder!WithWriter, Binder!Progress
    <3>2. Binder!Ownership(b)'
      BY <1>13 DEF Binder!CloseWrite, Bond, Binder!EventsMatchPcs, Binder!Ownership,
         Binder!WithWriter, Binder!Progress
    <3>3. Binder!Progress(b)'
      BY <1>13 DEF Binder!CloseWrite, Bond, Binder!EventsMatchPcs, Binder!Ownership,
         Binder!WithWriter, Binder!Progress
    <3> QED
      BY <3>1, <3>2, <3>3, <2>2 DEF Bond
  <2> QED
    BY <2>1, <2>2
<1>14. ASSUME NEW b \in Bonds, Binder!ReInit(b) PROVE Bond(c)'
  <2>1. CASE c # b
    BY <1>14, <2>1 DEF Binder!ReInit, Bond, Binder!EventsMatchPcs, Binder!Ownership,
       Binder!WithWriter, Binder!Progress
  <2>2. CASE c = b
    <3>1. Binder!EventsMatchPcs(b)'
      BY <1>14, EmptySeq DEF Binder!ReInit, Bond, Binder!EventsMatchPcs, Binder!Ownership,
         Binder!WithWriter, Binder!Progress
    <3>2. Binder!Ownership(b)'
      BY <1>14, EmptySeq DEF Binder!ReInit, Bond, Binder!EventsMatchPcs, Binder!Ownership,
         Binder!WithWriter, Binder!Progress
    <3>3. Binder!Progress(b)'
      BY <1>14, EmptySeq DEF Binder!ReInit, Bond, Binder!EventsMatchPcs, Binder!Ownership,
         Binder!WithWriter, Binder!Progress
    <3> QED
      BY <3>1, <3>2, <3>3, <2>2 DEF Bond
  <2> QED
    BY <2>1, <2>2
<1>15. CASE UNCHANGED Binder!vars
  BY <1>15 DEF Binder!vars, Bond, Binder!EventsMatchPcs, Binder!Ownership, Binder!WithWriter,
     Binder!Progress
<1> QED
  BY <1>1, <1>2, <1>3, <1>4, <1>5, <1>6, <1>7, <1>8,
     <1>9, <1>10, <1>11, <1>12, <1>13, <1>14, <1>15
  DEF Binder!Next, Binder!ReadSteps, Binder!WriteSteps

(* The events always agree with what both ends are doing, whoever owns the *)
(* buffer; the types of all fields are part of it.                         *)
THEOREM BinderInvariant ==
  ASSUME Binder!BoundsAssumption
  PROVE  Binder!Spec => []Binder!IInv
<1>1. Binder!IInv /\ [Binder!Next]_(Binder!vars) => Binder!IInv'
  BY BinderNextTypes, BinderNextBond DEF Binder!IInv, Bond
<1> QED
  BY BinderInitial, <1>1, PTL DEF Binder!Spec

(* The variables keep the types of the fields they stand for.              *)
THEOREM BinderTypes ==
  ASSUME Binder!BoundsAssumption
  PROVE  Binder!Spec => []Binder!TypeOK
<1>1. Binder!IInv => Binder!TypeOK
  BY DEF Binder!IInv
<1> QED
  BY BinderInvariant, <1>1, PTL

(* The reader dereferences the writer's memory only while the writer is    *)
(* blocked inside Write: for any number of binders and any sizes.          *)
THEOREM LentBuffer ==
  ASSUME Binder!BoundsAssumption
  PROVE  Binder!Spec => []Binder!BufferIsLent
<1>1. Binder!IInv => Binder!BufferIsLent
  BY DEF Binder!IInv, Binder!TypeOK, Binder!EventsMatchPcs, Binder!Ownership, Binder!WithWriter,
     Binder!Progress, Binder!BufferIsLent
<1> QED
  BY BinderInvariant, <1>1, PTL

-----------------------------------------------------------------------------
(* The refinement: what BytePipe sees of a state.                          *)

PipeOffered == [b \in Bonds |-> IF wpc[b] \in {"set", "wait", "return"}
                                  THEN acked[b] + wsize[b] ELSE acked[b]]
PipeReadClosed  == [b \in Bonds |-> rpc[b] = "closed"]
PipeWriteClosed == [b \in Bonds |-> wpc[b] \in {"closing", "closed"}]

(* Most steps of the binder move no byte and tell nobody anything.         *)
LEMMA Silent ==
  ASSUME UNCHANGED <<got, acked, eof, cut, round>>,
         PipeOffered' = PipeOffered, PipeReadClosed' = PipeReadClosed,
         PipeWriteClosed' = PipeWriteClosed
  PROVE  UNCHANGED Binder!Pipe!vars
  BY DEF Binder!Pipe!vars, PipeOffered, PipeReadClosed, PipeWriteClosed

LEMMA StepPipe ==
  ASSUME Binder!BoundsAssumption
  PROVE  Binder!IInv /\ [Binder!Next]_(Binder!vars) => [Binder!Pipe!Next]_(Binder!Pipe!vars)
<1> DEFINE PipeStep == [Binder!Pipe!Next]_(Binder!Pipe!vars)
<1> SUFFICES ASSUME Binder!IInv, [Binder!Next]_(Binder!vars) PROVE PipeStep
  OBVIOUS
<1> USE DEF Binder!IInv, Binder!TypeOK, Binder!fields, Binder!reader, Binder!writer
<1>1. ASSUME NEW b \in Bonds, NEW size \in 1..MaxSize, Binder!ReadCall(b, size) PROVE PipeStep
  BY <1>1, Silent DEF Binder!ReadCall, PipeOffered, PipeReadClosed, PipeWriteClosed
<1>2. ASSUME NEW b \in Bonds, NEW size \in 1..MaxSize, Binder!WriteCall(b, size) PROVE PipeStep
  <2>1. CASE closed2[b]
    <3>1. cut[b] = TRUE
      BY <2>1 DEF Binder!EventsMatchPcs
    <3>2. cut' = cut
      <4>1. cut' = [cut EXCEPT ![b] = TRUE]
        BY <1>2, <2>1 DEF Binder!WriteCall
      <4>2. cut = [cut EXCEPT ![b] = cut[b]]
        OBVIOUS
      <4> QED
        BY <3>1, <4>1, <4>2, Zenon
    <3> QED
      BY <1>2, <2>1, <3>2, Silent DEF Binder!WriteCall, PipeOffered, PipeReadClosed, PipeWriteClosed
  <2>2. CASE ~closed2[b]
    <3>0. /\ wpc[b] = "idle" /\ size \in Nat \ {0} /\ acked[b] \in Nat
          /\ wpc' = [wpc EXCEPT ![b] = "set"] /\ wsize' = [wsize EXCEPT ![b] = size]
          /\ UNCHANGED <<got, acked, eof, cut, round, rpc>>
      BY <1>2, <2>2 DEF Binder!BoundsAssumption, Binder!WriteCall
    <3>1. /\ ~PipeWriteClosed[b] /\ PipeOffered[b] = acked[b]
          /\ PipeOffered'[b] = acked[b] + size
          /\ PipeReadClosed' = PipeReadClosed
      BY <3>0 DEF PipeOffered, PipeReadClosed, PipeWriteClosed
    <3>a. PipeOffered'[b] \in Nat /\ PipeOffered'[b] > acked[b]
      BY <3>0, <3>1
    <3>b. PipeOffered' = [PipeOffered EXCEPT ![b] = PipeOffered'[b]]
      BY <3>0 DEF PipeOffered
    <3>c. PipeWriteClosed' = PipeWriteClosed
      BY <3>0 DEF PipeWriteClosed
    <3>2. Binder!Pipe!Offer(b)
      BY <3>0, <3>1, <3>a, <3>b, <3>c DEF Binder!Pipe!Offer, PipeOffered, PipeReadClosed,
         PipeWriteClosed
    <3> QED
      BY <3>2 DEF Binder!Pipe!Next
  <2> QED
    BY <2>1, <2>2
<1>3. ASSUME NEW b \in Bonds, Binder!ReadLock(b) PROVE PipeStep
  BY <1>3, Silent DEF Binder!ReadLock, PipeOffered, PipeReadClosed, PipeWriteClosed
<1>4. ASSUME NEW b \in Bonds, Binder!ReadCopy(b) PROVE PipeStep
  <2>1. PICK n \in Nat :
          /\ n = Binder!Lesser(rsize[b], bufSize[b]) /\ n <= bufSize[b]
          /\ n > 0 => wpc[b] = "wait" /\ buf[b] = Len(got[b])
          /\ n = 0 => wpc[b] = "closed"
    BY <1>4, CopyProperties
  <2>2. /\ rpc[b] = "copy" /\ rpc'[b] # "closed"
        /\ got' = [got EXCEPT ![b] = @ \o [i \in 1..n |-> buf[b] + i - 1]]
        /\ eof' = [eof EXCEPT ![b] = @ \/ n = 0]
        /\ UNCHANGED <<acked, cut, round, wpc, wsize>>
    BY <1>4, <2>1 DEF Binder!ReadCopy
  <2>3. PipeReadClosed' = PipeReadClosed /\ PipeWriteClosed' = PipeWriteClosed
        /\ PipeOffered' = PipeOffered /\ ~PipeReadClosed[b]
    BY <1>4, <2>2 DEF Binder!ReadCopy, PipeOffered, PipeReadClosed, PipeWriteClosed
  <2>4. CASE n = 0
    <3>1. got' = got
      <4>1. [i \in 1..0 |-> buf[b] + i - 1] = <<>>
        OBVIOUS
      <4>2. got[b] \o <<>> = got[b]
        BY ConcatEmptySeq
      <4> QED
        BY <2>2, <2>4, <4>1, <4>2
    <3>2. PipeWriteClosed[b] /\ Len(got[b]) = acked[b]
      BY <2>1, <2>4 DEF Binder!Progress, PipeWriteClosed
    <3>3. eof' = [eof EXCEPT ![b] = TRUE]
      BY <2>2, <2>4
    <3>4. Binder!Pipe!End(b)
      BY <2>2, <2>3, <3>1, <3>2, <3>3 DEF Binder!Pipe!End, PipeOffered, PipeReadClosed,
         PipeWriteClosed
    <3> QED
      BY <3>4 DEF Binder!Pipe!Next
  <2>5. CASE n > 0
    <3>1. eof' = eof
      BY <2>2, <2>5
    <3>2. Len(got[b]) \in Nat
      BY LenProperties
    <3>3. n \in 1..(PipeOffered[b] - Len(got[b]))
      BY <2>1, <2>2, <2>5, <3>2 DEF Binder!Progress, PipeOffered
    <3>4. got' = [got EXCEPT ![b] = @ \o [i \in 1..n |-> Len(got[b]) + i - 1]]
      BY <2>1, <2>2, <2>5
    <3>5. Binder!Pipe!Deliver(b)
      BY <2>2, <2>3, <3>1, <3>3, <3>4 DEF Binder!Pipe!Deliver, PipeOffered, PipeReadClosed,
         PipeWriteClosed
    <3> QED
      BY <3>5 DEF Binder!Pipe!Next
  <2> QED
    BY <2>1, <2>4, <2>5
<1>5. ASSUME NEW b \in Bonds, Binder!ReadAdvance(b) PROVE PipeStep
  BY <1>5, Silent DEF Binder!ReadAdvance, PipeOffered, PipeReadClosed, PipeWriteClosed
<1>6. ASSUME NEW b \in Bonds, Binder!ReadReset(b) PROVE PipeStep
  BY <1>6, Silent DEF Binder!ReadReset, PipeOffered, PipeReadClosed, PipeWriteClosed
<1>7. ASSUME NEW b \in Bonds, Binder!ReadSignal(b) PROVE PipeStep
  BY <1>7, Silent DEF Binder!ReadSignal, PipeOffered, PipeReadClosed, PipeWriteClosed
<1>8. ASSUME NEW b \in Bonds, Binder!CloseRead(b) PROVE PipeStep
  <2>1. /\ PipeReadClosed' = [PipeReadClosed EXCEPT ![b] = TRUE]
        /\ PipeOffered' = PipeOffered /\ PipeWriteClosed' = PipeWriteClosed
        /\ UNCHANGED <<got, acked, eof, cut, round>>
    BY <1>8 DEF Binder!CloseRead, PipeOffered, PipeReadClosed, PipeWriteClosed
  <2>2. Binder!Pipe!CloseRead(b)
    BY <2>1 DEF Binder!Pipe!CloseRead, PipeOffered, PipeReadClosed, PipeWriteClosed
  <2> QED
    BY <2>2 DEF Binder!Pipe!Next
<1>9. ASSUME NEW b \in Bonds, Binder!WriteSet(b) PROVE PipeStep
  BY <1>9, Silent DEF Binder!WriteSet, PipeOffered, PipeReadClosed, PipeWriteClosed
<1>10. ASSUME NEW b \in Bonds, Binder!WriteWait(b) PROVE PipeStep
  BY <1>10, Silent DEF Binder!WriteWait, PipeOffered, PipeReadClosed, PipeWriteClosed
<1>11. ASSUME NEW b \in Bonds, Binder!WriteReturn(b) PROVE PipeStep
  <2> DEFINE n == wsize[b] - bufSize[b]
  <2>1. /\ n \in Nat /\ acked[b] + n = Len(got[b])
        /\ wpc[b] = "return" /\ wsize[b] > 0
        /\ rpc[b] = "closed" \/ bufSize[b] = 0
    BY <1>11 DEF Binder!WriteReturn, Binder!Progress, Binder!Ownership, Binder!WithWriter
  <2>2. /\ acked' = [acked EXCEPT ![b] = Len(got[b])]
        /\ cut' = [cut EXCEPT ![b] = @ \/ Len(got[b]) = acked[b]]
        /\ UNCHANGED <<got, eof, round>>
    <3>1. n = 0 <=> Len(got[b]) = acked[b]
      BY <2>1
    <3>2. acked' = [acked EXCEPT ![b] = Len(got[b])]
      BY <1>11, <2>1 DEF Binder!WriteReturn
    <3>3. cut' = [cut EXCEPT ![b] = @ \/ n = 0]
      BY <1>11 DEF Binder!WriteReturn
    <3>4. (cut[b] \/ n = 0) = (cut[b] \/ Len(got[b]) = acked[b])
      BY <3>1
    <3>5. cut' = [cut EXCEPT ![b] = @ \/ Len(got[b]) = acked[b]]
      BY <3>3, <3>4, Zenon
    <3> QED
      BY <1>11, <3>2, <3>5 DEF Binder!WriteReturn
  <2>3. /\ PipeOffered[b] > acked[b]
        /\ Len(got[b]) = PipeOffered[b] \/ PipeReadClosed[b]
        /\ PipeOffered' = [PipeOffered EXCEPT ![b] = Len(got[b])]
        /\ PipeReadClosed' = PipeReadClosed /\ PipeWriteClosed' = PipeWriteClosed
    <3>1. /\ wpc' = [wpc EXCEPT ![b] = "idle"]
          /\ UNCHANGED <<wsize, rpc>> /\ bufSize[b] \in Nat /\ wsize[b] \in Nat
          /\ acked[b] \in Nat
      BY <1>11 DEF Binder!WriteReturn
    <3>2. PipeOffered[b] = acked[b] + wsize[b]
      BY <2>1 DEF PipeOffered
    <3>3. PipeOffered[b] > acked[b] /\ (Len(got[b]) = PipeOffered[b] \/ PipeReadClosed[b])
      <4>1. CASE rpc[b] = "closed"
        <5>1. PipeReadClosed[b]
          BY <4>1 DEF PipeReadClosed
        <5>2. PipeOffered[b] > acked[b]
          BY <2>1, <3>1, <3>2
        <5> QED
          BY <5>1, <5>2
      <4>2. CASE bufSize[b] = 0
        BY <2>1, <3>1, <3>2, <4>2
      <4> QED
        BY <2>1, <4>1, <4>2
    <3>4. PipeOffered' = [PipeOffered EXCEPT ![b] = Len(got[b])]
      BY <2>2, <3>1 DEF PipeOffered
    <3>5. PipeReadClosed' = PipeReadClosed /\ PipeWriteClosed' = PipeWriteClosed
      BY <2>1, <3>1 DEF PipeReadClosed, PipeWriteClosed
    <3> QED
      BY <3>3, <3>4, <3>5
  <2>4. Binder!Pipe!Report(b)
    BY <2>2, <2>3 DEF Binder!Pipe!Report, PipeOffered, PipeReadClosed, PipeWriteClosed
  <2> QED
    BY <2>4 DEF Binder!Pipe!Next
<1>12. ASSUME NEW b \in Bonds, Binder!CloseWriteSet(b) PROVE PipeStep
  BY <1>12, Silent DEF Binder!CloseWriteSet, PipeOffered, PipeReadClosed, PipeWriteClosed
<1>13. ASSUME NEW b \in Bonds, Binder!CloseWrite(b) PROVE PipeStep
  <2>1. /\ PipeWriteClosed' = [PipeWriteClosed EXCEPT ![b] = TRUE]
        /\ PipeOffered[b] = acked[b]
        /\ PipeOffered' = PipeOffered /\ PipeReadClosed' = PipeReadClosed
        /\ UNCHANGED <<got, acked, eof, cut, round>>
    BY <1>13 DEF Binder!CloseWrite, PipeOffered, PipeReadClosed, PipeWriteClosed
  <2>2. Binder!Pipe!CloseWrite(b)
    BY <2>1 DEF Binder!Pipe!CloseWrite, PipeOffered, PipeReadClosed, PipeWriteClosed
  <2> QED
    BY <2>2 DEF Binder!Pipe!Next
<1>14. ASSUME NEW b \in Bonds, Binder!ReInit(b) PROVE PipeStep
  <2>1. /\ PipeReadClosed[b] /\ PipeWriteClosed[b]
        /\ got' = [got EXCEPT ![b] = <<>>] /\ acked' = [acked EXCEPT ![b] = 0]
        /\ eof' = [eof EXCEPT ![b] = FALSE] /\ cut' = [cut EXCEPT ![b] = FALSE]
        /\ round' = [round EXCEPT ![b] = @ + 1]
        /\ PipeOffered' = [PipeOffered EXCEPT ![b] = 0]
        /\ PipeReadClosed' = [PipeReadClosed EXCEPT ![b] = FALSE]
        /\ PipeWriteClosed' = [PipeWriteClosed EXCEPT ![b] = FALSE]
    <3>1. /\ rpc[b] = "closed" /\ wpc[b] = "closed"
          /\ rpc' = [rpc EXCEPT ![b] = "idle"] /\ wpc' = [wpc EXCEPT ![b] = "idle"]
          /\ acked' = [acked EXCEPT ![b] = 0] /\ UNCHANGED wsize
      BY <1>14 DEF Binder!ReInit
    <3>2. PipeReadClosed[b] /\ PipeWriteClosed[b]
      BY <3>1 DEF PipeOffered, PipeReadClosed, PipeWriteClosed
    <3>3. PipeOffered' = [PipeOffered EXCEPT ![b] = 0]
      BY <3>1 DEF PipeOffered
    <3>4. PipeReadClosed' = [PipeReadClosed EXCEPT ![b] = FALSE]
      BY <3>1 DEF PipeReadClosed
    <3>5. PipeWriteClosed' = [PipeWriteClosed EXCEPT ![b] = FALSE]
      <4>1. ("idle" \in {"closing", "closed"}) = FALSE
        OBVIOUS
      <4> QED
        BY <3>1, <4>1 DEF PipeWriteClosed
    <3> QED
      BY <1>14, <3>2, <3>3, <3>4, <3>5 DEF Binder!ReInit
  <2>2. Binder!Pipe!Renew(b)
    BY <2>1 DEF Binder!Pipe!Renew, PipeOffered, PipeReadClosed, PipeWriteClosed
  <2> QED
    BY <2>2 DEF Binder!Pipe!Next
<1>15. CASE UNCHANGED Binder!vars
  BY <1>15, Silent DEF Binder!vars, PipeOffered, PipeReadClosed, PipeWriteClosed
<1> QED
  BY <1>1, <1>2, <1>3, <1>4, <1>5, <1>6, <1>7, <1>8,
     <1>9, <1>10, <1>11, <1>12, <1>13, <1>14, <1>15
  DEF Binder!Next, Binder!ReadSteps, Binder!WriteSteps

(* The binder is a byte pipe: bytes arrive once and in order, Write tells  *)
(* the truth about them, the end of the stream and a cut are reported only *)
(* when the other side closed.                                             *)
THEOREM ImplementsPipe ==
  ASSUME Binder!BoundsAssumption
  PROVE  Binder!Spec => Binder!PipeSpec
<1>1. Binder!Init => Binder!Pipe!Init
  <2> SUFFICES ASSUME Binder!Init PROVE Binder!Pipe!Init
    OBVIOUS
  <2>1. \A b \in Bonds : rpc[b] = "idle" /\ wpc[b] = "idle" /\ acked[b] = 0
    BY DEF Binder!Init
  <2>2. PipeReadClosed = [b \in Bonds |-> FALSE]
    BY <2>1 DEF PipeReadClosed
  <2>3. PipeWriteClosed = [b \in Bonds |-> FALSE]
    <3>1. ("idle" \in {"closing", "closed"}) = FALSE
      OBVIOUS
    <3> QED
      BY <2>1, <3>1 DEF PipeWriteClosed
  <2>4. PipeOffered = [b \in Bonds |-> 0]
    BY <2>1 DEF PipeOffered
  <2> QED
    BY <2>2, <2>3, <2>4 DEF Binder!Init, Binder!Pipe!Init, PipeOffered, PipeReadClosed,
       PipeWriteClosed
<1>2. Binder!IInv /\ [Binder!Next]_(Binder!vars) => Binder!IInv'
  BY BinderNextTypes, BinderNextBond DEF Binder!IInv, Bond
<1>3. Binder!Spec => []Binder!IInv
  BY BinderInitial, <1>2, PTL DEF Binder!Spec
<1> QED
  BY <1>1, <1>3, StepPipe, PTL DEF Binder!Spec, Binder!PipeSpec, Binder!Pipe!Spec
===============================================================================
