-------------------------- MODULE AtomicWakerProofs -------------------------
(***************************************************************************)
(* Proofs about AtomicWaker, for any number of tasks and threads.          *)
(***************************************************************************)
EXTENDS AtomicWaker, TLAPS

USE WakerAssumption DEF WAITING, REGISTERING, WAKING

\* The state word says who is in the critical section: the REGISTERING bit is
\* that of one task, and a thread in it has set the WAKING bit alone.
Locked ==
  /\ \A t1, t2 \in Registering : t1 = t2
  /\ \A w1, w2 \in Taking : w1 = w2
  /\ Registering # {} <=> state \in {1, 3}
  /\ Taking # {} <=> state = 2

\* What the owner of the cell knows about it.
Owned ==
  /\ \A t \in Tasks : pc[t] \in {"release", "take"} => cell = t
  /\ \A t \in Tasks : pc[t] \in {"take", "swap"} => state = 3
  /\ \A t \in Tasks : pc[t] = "wake" => took[t] = t
  /\ \A t \in Tasks : pc[t] = "swap" => took[t] = t
  /\ \A w \in Threads : wpc[w] = "and" => cell = "none"

WInv == TypeOK /\ Locked /\ Owned

LEMMA WInvInit == Init => WInv
<1> SUFFICES ASSUME Init PROVE WInv
  OBVIOUS
<1>1. TypeOK
  <2>1. ready \in BOOLEAN /\ woken \in [Tasks -> BOOLEAN]
    BY DEF Init
  <2>2. /\ state \in 0 .. 3 /\ cell \in Tasks \cup {"none"}
        /\ took \in [Tasks -> Tasks \cup {"none"}]
        /\ hand \in [Threads -> Tasks \cup {"none"}]
    BY DEF Init
  <2> QED
    BY <2>1, <2>2 DEF Init, TypeOK
<1>2. Registering = {} /\ Taking = {}
  BY DEF Init, Registering, Taking
<1>3. Locked /\ Owned
  BY <1>2 DEF Init, Locked, Owned
<1> QED
  BY <1>1, <1>3 DEF WInv

LEMMA WInvTask ==
  ASSUME WInv, NEW t \in Tasks, TaskStep(t)
  PROVE  WInv'
<1> USE DEF WInv, TypeOK, Locked, Owned, Registering, Taking, Goto, threadVars
<1>1. CASE DoRegister(t)
  BY <1>1 DEF DoRegister
<1>2. CASE SetWaker(t)
  BY <1>2 DEF SetWaker
<1>3. CASE ReleaseCell(t)
  BY <1>3 DEF ReleaseCell
<1>4. CASE TakeBack(t)
  BY <1>4 DEF TakeBack
<1>5. CASE SwapWaiting(t)
  BY <1>5 DEF SwapWaiting
<1>6. CASE WakeTaken(t)
  BY <1>6 DEF WakeTaken
<1>7. CASE WakeSelf(t)
  BY <1>7 DEF WakeSelf
<1>8. CASE Check(t)
  <2>1. \E label \in {"start", "parked"} : pc' = [pc EXCEPT ![t] = label]
    BY <1>8 DEF Check
  <2>2. ready' \in BOOLEAN
    BY <1>8 DEF Check
  <2>3. pc[t] = "check" /\ UNCHANGED <<state, cell, took, threadVars, woken>>
    BY <1>8 DEF Check
  <2> HIDE DEF Goto
  <2> QED
    BY <2>1, <2>2, <2>3
<1>9. CASE Run(t)
  BY <1>9 DEF Run
<1> QED
  BY <1>1, <1>2, <1>3, <1>4, <1>5, <1>6, <1>7, <1>8, <1>9 DEF TaskStep

LEMMA WInvThread ==
  ASSUME WInv, NEW w \in Threads, Produce(w) \/ WakeCall(w)
  PROVE  WInv'
<1> USE DEF WInv, TypeOK, Locked, Owned, Registering, Taking, WGoto, taskVars
<1>1. CASE Produce(w)
  BY <1>1 DEF Produce
<1>2. CASE FetchOrWaking(w)
  BY <1>2 DEF FetchOrWaking, OrWaking
<1>3. CASE TakeWaker(w)
  BY <1>3 DEF TakeWaker
<1>4. CASE FetchAndNotWaking(w)
  BY <1>4 DEF FetchAndNotWaking, AndNotWaking
<1>5. CASE Wake(w)
  BY <1>5 DEF Wake
<1> QED
  BY <1>1, <1>2, <1>3, <1>4, <1>5 DEF WakeCall

LEMMA WInvNext == WInv /\ [Next]_vars => WInv'
<1> SUFFICES ASSUME WInv, [Next]_vars PROVE WInv'
  OBVIOUS
<1>1. CASE UNCHANGED vars
  BY <1>1 DEF vars, taskVars, threadVars, WInv, TypeOK, Locked, Owned,
     Registering, Taking
<1>2. CASE Next
  BY <1>2, WInvTask, WInvThread DEF Next
<1> QED
  BY <1>1, <1>2

LEMMA WInvHolds == Spec => []WInv
BY WInvInit, WInvNext, PTL DEF Spec

\* Every variable keeps its type; the state word never leaves 0 .. 3.
THEOREM TypeCorrect == Spec => []TypeOK
<1>1. WInv => TypeOK
  BY DEF WInv
<1> QED
  BY <1>1, WInvHolds, PTL

\* The cell is never accessed by two at a time, with any number of concurrent
\* calls of register and wake.
THEOREM CellExclusiveHolds == Spec => []CellExclusive
<1>1. WInv => CellExclusive
  BY DEF WInv, Locked, CellExclusive
<1> QED
  BY <1>1, WInvHolds, PTL

\* The assertion and the unwrap in do_register never fail.
THEOREM AssertionsHoldAlways == Spec => []AssertionsHold
<1>1. WInv => AssertionsHold
  <2> SUFFICES ASSUME WInv, NEW t \in Tasks PROVE AssertionsHold!(t)
    BY DEF AssertionsHold
  <2>1. pc[t] = "release" => state \in {1, 3}
    <3>1. pc[t] = "release" => t \in Registering
      BY DEF Registering
    <3> QED
      BY <3>1 DEF WInv, Locked
  <2>2. pc[t] = "take" => state = 3 /\ cell = t
    BY DEF WInv, Owned
  <2> QED
    BY <2>1, <2>2
<1> QED
  BY <1>1, WInvHolds, PTL
-----------------------------------------------------------------------------
(* No wake is lost.  One task registers, as the &mut self of Handle::lock   *)
(* ensures; a second one could overwrite its waker.                         *)

SingleTask == \A s, t \in Tasks : s = t

\* Once it has registered, a task has been woken, or its waker is in the cell,
\* or in the hand of a thread that is about to call it.
Alerted ==
  \A t \in Tasks : pc[t] \in {"check", "parked"} =>
    \/ woken[t] \/ cell = t
    \/ \E w \in Threads : wpc[w] \in {"and", "wake"} /\ hand[w] = t

\* When a parked task's result is there, the call of wake that will find the
\* waker has been made and is not over.
Underway ==
  \A t \in Tasks : pc[t] = "parked" /\ ready =>
    \/ woken[t]
    \/ \E w \in Threads : \/ wpc[w] \in {"or", "take"} /\ cell = t
                          \/ wpc[w] \in {"and", "wake"} /\ hand[w] = t

NInv == WInv /\ Alerted /\ Underway

LEMMA NInvTask ==
  ASSUME SingleTask, NInv, WInv', NEW t \in Tasks, TaskStep(t)
  PROVE  NInv'
<1> USE DEF SingleTask, NInv, WInv, TypeOK, Alerted, Underway, Goto, threadVars
<1>1. CASE DoRegister(t)
  <2>1. Registering = {}
    BY <1>1 DEF DoRegister, Registering
  <2>2. state \in {0, 2}
    BY <2>1 DEF Locked
  <2> QED
    BY <1>1, <2>2 DEF DoRegister
<1>2. CASE SetWaker(t)
  BY <1>2 DEF SetWaker
<1>3. CASE ReleaseCell(t)
  BY <1>3 DEF ReleaseCell, Owned
<1>4. CASE TakeBack(t)
  BY <1>4 DEF TakeBack
<1>5. CASE SwapWaiting(t)
  BY <1>5 DEF SwapWaiting
<1>6. CASE WakeTaken(t)
  <2>1. took[t] = t
    BY <1>6 DEF WakeTaken, Owned
  <2>2. woken'[t]
    BY <1>6, <2>1 DEF WakeTaken
  <2>3. \A s \in Tasks : s = t
    OBVIOUS
  <2>4. \A s \in Tasks : woken'[s]
    BY <2>2, <2>3
  <2> QED
    BY <2>4
<1>7. CASE WakeSelf(t)
  BY <1>7 DEF WakeSelf
<1>8. CASE Check(t)
  <2>1. ~ ready' /\ pc[t] = "check"
    BY <1>8 DEF Check
  <2>2. UNCHANGED <<cell, wpc, hand, woken>>
    BY <1>8 DEF Check
  <2>3. \A s \in Tasks : s = t
    OBVIOUS
  <2>4. Alerted'
    BY <2>1, <2>2, <2>3
  <2>5. Underway'
    BY <2>1
  <2> QED
    BY <2>4, <2>5
<1>9. CASE Run(t)
  BY <1>9 DEF Run
<1> QED
  BY <1>1, <1>2, <1>3, <1>4, <1>5, <1>6, <1>7, <1>8, <1>9 DEF TaskStep

LEMMA NInvThread ==
  ASSUME SingleTask, NInv, WInv', NEW w \in Threads, Produce(w) \/ WakeCall(w)
  PROVE  NInv'
<1> USE DEF SingleTask, NInv, WInv, TypeOK, Alerted, Underway, WGoto, taskVars
<1>1. CASE Produce(w)
  BY <1>1 DEF Produce
<1>2. CASE FetchOrWaking(w)
  <2>1. Alerted'
    BY <1>2 DEF FetchOrWaking
  <2>2. ASSUME NEW t \in Tasks, pc[t] = "parked", ready, cell = t,
               ~ woken[t]
        PROVE  \E v \in Threads : wpc'[v] = "take"
    <3>1. Registering = {}
      BY <2>2 DEF Registering
    <3>2. CASE state = 0
      BY <1>2, <3>2 DEF FetchOrWaking
    <3>3. CASE state = 2
      <4>1. PICK v \in Threads : wpc[v] \in {"take", "and"}
        BY <3>3 DEF Locked, Taking
      <4>2. wpc[v] = "take" /\ v # w
        BY <4>1, <2>2, <1>2 DEF Owned, FetchOrWaking
      <4> QED
        BY <4>2, <1>2 DEF FetchOrWaking
    <3> QED
      BY <3>1, <3>2, <3>3 DEF Locked
  <2>3. Underway'
    BY <1>2, <2>2 DEF FetchOrWaking
  <2> QED
    BY <2>1, <2>3
<1>3. CASE TakeWaker(w)
  BY <1>3 DEF TakeWaker
<1>4. CASE FetchAndNotWaking(w)
  BY <1>4 DEF FetchAndNotWaking
<1>5. CASE Wake(w)
  BY <1>5 DEF Wake
<1> QED
  BY <1>1, <1>2, <1>3, <1>4, <1>5 DEF WakeCall

\* With one registering task, no interleaving of register with any number of
\* concurrent calls of wake loses the wake-up for a result.
THEOREM NoLostWakeHolds ==
  ASSUME SingleTask
  PROVE  Spec => []NoLostWake
<1>1. Init => NInv
  BY WInvInit DEF NInv, Init, Alerted, Underway
<1>2. NInv /\ [Next]_vars => NInv'
  <2> SUFFICES ASSUME NInv, [Next]_vars PROVE NInv'
    OBVIOUS
  <2>1. WInv'
    BY WInvNext DEF NInv
  <2>2. CASE UNCHANGED vars
    BY <2>1, <2>2 DEF vars, taskVars, threadVars, NInv, Alerted, Underway
  <2>3. CASE Next
    BY <2>1, <2>3, NInvTask, NInvThread, SingleTask DEF Next
  <2> QED
    BY <2>2, <2>3
<1>3. NInv => NoLostWake
  BY DEF NInv, Underway, NoLostWake
<1> QED
  BY <1>1, <1>2, <1>3, PTL DEF Spec
=============================================================================
