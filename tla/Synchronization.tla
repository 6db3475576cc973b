--------------------------- MODULE Synchronization ---------------------------
(***************************************************************************)
(* Events, semaphores and WaitForMultipleObjects built from a mutex and a  *)
(* condition variable: C/Threads.c, where each object has its own pair,    *)
(* and CSynchro with the WFMO classes, where the objects of one wait share *)
(* a pair.                                                                 *)
(***************************************************************************)
EXTENDS Integers, Sequences

CONSTANTS
  Threads,
  Objects,      \* events and semaphores
  Semaphores,   \* the semaphores among them; the others are events
  ManualReset,  \* events that a wait leaves signaled
  MaxCount,     \* _maxCount of each object, 1 for an event
  Initial,      \* what each object is created with: initialSignaled, initiallyCount
  Synchros,     \* mutex and condition variable pairs
  SynchroOf,    \* the pair an object uses
  Waits,        \* the lists of handles that are waited on
  Releases,     \* releaseCount arguments
  NoCall, Nobody

ASSUME ConstantsAssumption ==
  /\ Semaphores \subseteq Objects /\ ManualReset \subseteq Objects \ Semaphores
  /\ MaxCount \in [Objects -> Nat \ {0}]
  /\ \A o \in Objects \ Semaphores : MaxCount[o] = 1
  /\ Initial \in [Objects -> Nat] /\ \A o \in Objects : Initial[o] <= MaxCount[o]
  /\ SynchroOf \in [Objects -> Synchros]
  /\ Waits \subseteq Seq(Objects)
  /\ \A w \in Waits : /\ Len(w) > 0
                      /\ \A k \in 1..Len(w) : SynchroOf[w[k]] = SynchroOf[w[1]]
  /\ Releases \subseteq Nat \ {0}
  /\ Nobody \notin Threads

Calls ==
  [op : {"set", "reset"}, on : {<<o>> : o \in Objects \ Semaphores}, n : {1}]
    \cup [op : {"release"}, on : {<<o>> : o \in Semaphores}, n : Releases]
    \cup [op : {"wait"}, on : Waits, n : {1}]

ASSUME NoCallAssumption == NoCall \notin Calls

VARIABLES
  state,  \* _state of an event (0 or 1), _count of a semaphore
  owner,  \* who holds each mutex
  call,   \* the call each thread is in
  pc      \* "idle", "enter", "locked", "sleep" (in cond_wait), "woken" (to take
          \* the mutex again), "signal" (before broadcast), "leave" (before unlock)

vars == <<state, owner, call, pc>>

Init ==
  /\ state = Initial
  /\ owner = [s \in Synchros |-> Nobody]
  /\ call = [t \in Threads |-> NoCall]
  /\ pc = [t \in Threads |-> "idle"]

Goto(t, where) == pc' = [pc EXCEPT ![t] = where]

Target(t) == call[t].on[1]

Synchro(t) == SynchroOf[Target(t)]

Start(t) ==
  /\ pc[t] = "idle"
  /\ \E c \in Calls : call' = [call EXCEPT ![t] = c]
  /\ Goto(t, "enter")
  /\ UNCHANGED <<state, owner>>

(* pthread_mutex_lock, also the one at the end of pthread_cond_wait.       *)
Enter(t) ==
  /\ pc[t] \in {"enter", "woken"} /\ owner[Synchro(t)] = Nobody
  /\ owner' = [owner EXCEPT ![Synchro(t)] = t]
  /\ Goto(t, "locked")
  /\ UNCHANGED <<state, call>>

Set(t) ==
  /\ pc[t] = "locked" /\ call[t].op = "set"
  /\ state' = [state EXCEPT ![Target(t)] = 1]
  /\ Goto(t, "signal")
  /\ UNCHANGED <<owner, call>>

Reset(t) ==
  /\ pc[t] = "locked" /\ call[t].op = "reset"
  /\ state' = [state EXCEPT ![Target(t)] = 0]
  /\ Goto(t, "leave")
  /\ UNCHANGED <<owner, call>>

Release(t) ==
  /\ pc[t] = "locked" /\ call[t].op = "release"
  /\ IF state[Target(t)] + call[t].n > MaxCount[Target(t)]
     THEN Goto(t, "leave") /\ UNCHANGED state
     ELSE /\ state' = [state EXCEPT ![Target(t)] = @ + call[t].n]
          /\ Goto(t, "signal")
  /\ UNCHANGED <<owner, call>>

FirstSignaled(t, k) ==
  /\ state[call[t].on[k]] > 0
  /\ \A j \in 1..(k - 1) : state[call[t].on[j]] = 0

AnySignaled(t) == \E k \in 1..Len(call[t].on) : state[call[t].on[k]] > 0

(* IsSignaledAndUpdate on one handle after the other.                      *)
Take(t) ==
  /\ pc[t] = "locked" /\ call[t].op = "wait"
  /\ \E k \in 1..Len(call[t].on) :
       LET o == call[t].on[k] IN
       /\ FirstSignaled(t, k)
       /\ state' = IF o \in ManualReset THEN state ELSE [state EXCEPT ![o] = @ - 1]
  /\ Goto(t, "leave")
  /\ UNCHANGED <<owner, call>>

(* pthread_cond_wait: unlock and sleep in one step.                        *)
Sleep(t) ==
  /\ pc[t] = "locked" /\ call[t].op = "wait" /\ ~AnySignaled(t)
  /\ owner' = [owner EXCEPT ![Synchro(t)] = Nobody]
  /\ Goto(t, "sleep")
  /\ UNCHANGED <<state, call>>

Spurious_NoRecheck(t) ==
  /\ pc[t] = "sleep" /\ owner[Synchro(t)] = Nobody
  /\ owner' = [owner EXCEPT ![Synchro(t)] = t]
  /\ Goto(t, "leave")
  /\ UNCHANGED <<state, call>>

(* pthread_cond_wait may return although nobody signaled.                  *)
Spurious(t) ==
  /\ pc[t] = "sleep"
  /\ Goto(t, "woken")
  /\ UNCHANGED <<state, owner, call>>

Sleepers(s) == {u \in Threads : pc[u] = "sleep" /\ Synchro(u) = s}

Broadcast_WakeOne(t) ==
  /\ pc[t] = "signal"
  /\ IF Sleepers(Synchro(t)) = {} THEN Goto(t, "leave")
     ELSE \E u \in Sleepers(Synchro(t)) :
            pc' = [pc EXCEPT ![t] = "leave", ![u] = "woken"]
  /\ UNCHANGED <<state, owner, call>>

Broadcast(t) ==
  /\ pc[t] = "signal"
  /\ pc' = [u \in Threads |-> IF u = t THEN "leave"
                              ELSE IF u \in Sleepers(Synchro(t)) THEN "woken"
                              ELSE pc[u]]
  /\ UNCHANGED <<state, owner, call>>

(* pthread_mutex_unlock and return.                                        *)
Leave(t) ==
  /\ pc[t] = "leave"
  /\ owner' = [owner EXCEPT ![Synchro(t)] = Nobody]
  /\ call' = [call EXCEPT ![t] = NoCall]
  /\ Goto(t, "idle")
  /\ UNCHANGED state

(* What a thread does once it runs inside the critical section.            *)
Proceed(t) ==
  Set(t) \/ Reset(t) \/ Release(t) \/ Take(t) \/ Sleep(t) \/ Broadcast(t) \/ Leave(t)

Next == \E t \in Threads : Start(t) \/ Enter(t) \/ Proceed(t) \/ Spurious(t)

Spec == Init /\ [][Next]_vars

(* A thread that holds a mutex goes on; nothing is asked of Start, Enter   *)
(* or the accident of Spurious.                                            *)
FairSpec == Spec /\ \A t \in Threads : WF_vars(Proceed(t))

-----------------------------------------------------------------------------
(* Properties.                                                             *)

(* Counts stay within their maximum whatever is released and set.          *)
TypeOK ==
  /\ state \in [Objects -> Nat] /\ \A o \in Objects : state[o] <= MaxCount[o]
  /\ owner \in [Synchros -> Threads \cup {Nobody}]
  /\ call \in [Threads -> Calls \cup {NoCall}]
  /\ pc \in [Threads -> {"idle", "enter", "locked", "sleep", "woken", "signal", "leave"}]

(* No wakeup is lost: a thread is asleep on a signaled object only while   *)
(* the thread that signaled it is still on its way to the broadcast.       *)
NoLostWakeup ==
  \A t \in Threads :
    pc[t] = "sleep" /\ AnySignaled(t) =>
      \E u \in Threads : pc[u] = "signal" /\ Synchro(u) = Synchro(t)

PhaseOf(t) ==
  CASE pc[t] = "idle" -> "idle"
    [] pc[t] \in {"signal", "leave"} -> "done"
    [] OTHER -> "pending"

Phase == [t \in Threads |-> PhaseOf(t)]

Abstract == INSTANCE WaitObjects WITH phase <- Phase

(* To their callers these objects are the atomic ones of WaitObjects.      *)
WaitObjectsSpec == Abstract!Spec

(* Nobody sleeps on while an object it waits for stays signaled.           *)
SignalWakes ==
  \A t \in Threads :
    (pc[t] = "sleep" /\ AnySignaled(t)) ~> ~(pc[t] = "sleep" /\ AnySignaled(t))

-----------------------------------------------------------------------------
(* The inductive invariant.                                                *)

Holding(t) == pc[t] \in {"locked", "signal", "leave"}

CallMatches(t) ==
  /\ (call[t] = NoCall) <=> (pc[t] = "idle")
  /\ pc[t] \in {"sleep", "woken"} => call[t].op = "wait"

OwnerMatches ==
  \A t \in Threads : \A s \in Synchros :
    (owner[s] = t) <=> (Holding(t) /\ Synchro(t) = s)

IInv ==
  /\ TypeOK /\ OwnerMatches /\ NoLostWakeup
  /\ \A t \in Threads : CallMatches(t)
=============================================================================
