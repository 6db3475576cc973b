----------------------------- MODULE WaitObjects -----------------------------
(***************************************************************************)
(* What events and semaphores promise to the code that uses them: every    *)
(* operation takes effect in one instant between its call and its return,  *)
(* a wait on several objects takes exactly one signal, that of the first   *)
(* signaled object of its list, and a release beyond the maximum is        *)
(* refused and changes nothing.                                            *)
(***************************************************************************)
EXTENDS Integers, Sequences

CONSTANTS Threads, Objects, Calls, NoCall, Initial, MaxCount, ManualReset

VARIABLES state,   \* state[o]: the count; an event is signaled at 1
          call,    \* the operation a thread is in
          phase    \* "idle", "pending" before its effect, "done" after it

vars == <<state, call, phase>>

Init ==
  /\ state = Initial
  /\ call = [t \in Threads |-> NoCall]
  /\ phase = [t \in Threads |-> "idle"]

Call(t) ==
  /\ phase[t] = "idle"
  /\ \E c \in Calls : call' = [call EXCEPT ![t] = c]
  /\ phase' = [phase EXCEPT ![t] = "pending"]
  /\ UNCHANGED state

Target(t) == call[t].on[1]

Set(t) == call[t].op = "set" /\ state' = [state EXCEPT ![Target(t)] = 1]

Reset(t) == call[t].op = "reset" /\ state' = [state EXCEPT ![Target(t)] = 0]

Release(t) ==
  /\ call[t].op = "release"
  /\ state' = IF state[Target(t)] + call[t].n > MaxCount[Target(t)] THEN state
              ELSE [state EXCEPT ![Target(t)] = @ + call[t].n]

Wait(t) ==
  /\ call[t].op = "wait"
  /\ \E k \in 1..Len(call[t].on) :
       LET o == call[t].on[k] IN
       /\ state[o] > 0 /\ \A j \in 1..(k - 1) : state[call[t].on[j]] = 0
       /\ state' = IF o \in ManualReset THEN state ELSE [state EXCEPT ![o] = @ - 1]

Effect(t) ==
  /\ phase[t] = "pending"
  /\ Set(t) \/ Reset(t) \/ Release(t) \/ Wait(t)
  /\ phase' = [phase EXCEPT ![t] = "done"]
  /\ UNCHANGED call

Return(t) ==
  /\ phase[t] = "done"
  /\ call' = [call EXCEPT ![t] = NoCall]
  /\ phase' = [phase EXCEPT ![t] = "idle"]
  /\ UNCHANGED state

Next == \E t \in Threads : Call(t) \/ Effect(t) \/ Return(t)

Spec == Init /\ [][Next]_vars
=============================================================================
