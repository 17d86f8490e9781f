---------------------------- MODULE AtomicWaker -----------------------------
(***************************************************************************)
(* The cell through which a completion finds the task to wake              *)
(* (atomic_waker.rs), with every access to its state word and to the waker *)
(* it guards as a step of its own.                                         *)
(*                                                                         *)
(* Tasks register and then look at a result (Handle::lock registers before *)
(* header_lock); threads produce a result and then wake (Header::release   *)
(* unlocks before wake).  The result is the Boolean `ready`.  Accesses are *)
(* interleaved as under sequential consistency.                            *)
(***************************************************************************)
EXTENDS Integers

CONSTANTS
  Tasks,    \* the tasks that register: one at a time for a Handle, which is
            \* locked through &mut self
  Threads   \* the threads that call wake: one in background.rs, as many as
            \* the user runs on a port of their own

ASSUME WakerAssumption == Tasks # {} /\ "none" \notin Tasks

VARIABLES
  state,    \* AtomicWaker::state
  cell,     \* AtomicWaker::waker: whose waker it holds, "none" without one
  pc,       \* pc[t]: where task t is
  took,     \* took[t]: the waker do_register has taken back from the cell
  wpc,      \* wpc[w]: where thread w is
  hand,     \* hand[w]: the waker take_waker has taken from the cell
  ready,    \* the result the task is waiting for is there
  woken     \* woken[t]: t's waker has been called since t last ran

taskVars == <<pc, took>>
threadVars == <<wpc, hand>>
vars == <<state, cell, taskVars, threadVars, ready, woken>>

WAITING == 0
REGISTERING == 1
WAKING == 2

\* state | WAKING and state & !WAKING, for the four values the word can have.
OrWaking(n) == IF n < WAKING THEN n + WAKING ELSE n
AndNotWaking(n) == IF n < WAKING THEN n ELSE n - WAKING

TypeOK ==
  /\ state \in 0 .. 3
  /\ cell \in Tasks \cup {"none"}
  /\ pc \in [Tasks -> {"start", "set", "release", "take", "swap", "wake",
                       "self", "check", "parked"}]
  /\ took \in [Tasks -> Tasks \cup {"none"}]
  /\ wpc \in [Threads -> {"produce", "or", "take", "and", "wake"}]
  /\ hand \in [Threads -> Tasks \cup {"none"}]
  /\ ready \in BOOLEAN
  /\ woken \in [Tasks -> BOOLEAN]

Init ==
  /\ state = WAITING /\ cell = "none"
  /\ pc = [t \in Tasks |-> "start"]
  /\ took = [t \in Tasks |-> "none"]
  /\ wpc = [w \in Threads |-> "produce"]
  /\ hand = [w \in Threads |-> "none"]
  /\ ready = FALSE
  /\ woken = [t \in Tasks |-> FALSE]

Goto(t, label) == pc' = [pc EXCEPT ![t] = label]
WGoto(w, label) == wpc' = [wpc EXCEPT ![w] = label]

-----------------------------------------------------------------------------
(* do_register, and the task around it. *)

\* Fault: only the REGISTERING bit is looked at.
DoRegisterIgnoresWaking(t) ==
  /\ pc[t] = "start"
  /\ IF state \in {WAITING, WAKING}
     THEN state' = state + REGISTERING /\ Goto(t, "set")
     ELSE state' = state /\ Goto(t, "check")
  /\ UNCHANGED <<cell, took, threadVars, ready, woken>>

\* The compare-exchange: the cell is locked, or a wake is in progress, or
\* another task is registering and this call is dropped.
DoRegister(t) ==
  /\ pc[t] = "start"
  /\ state' = IF state = WAITING THEN REGISTERING ELSE state
  /\ Goto(t, CASE state = WAITING -> "set"
               [] state = WAKING  -> "self"
               [] OTHER           -> "check")
  /\ UNCHANGED <<cell, took, threadVars, ready, woken>>

\* The cell is locked: the waker is stored.
SetWaker(t) ==
  /\ pc[t] = "set"
  /\ cell' = t
  /\ Goto(t, "release")
  /\ UNCHANGED <<state, took, threadVars, ready, woken>>

\* The lock is released, unless wake was called in the meantime.
ReleaseCell(t) ==
  /\ pc[t] = "release"
  /\ state' = IF state = REGISTERING THEN WAITING ELSE state
  /\ Goto(t, IF state = REGISTERING THEN "check" ELSE "take")
  /\ UNCHANGED <<cell, took, threadVars, ready, woken>>

\* Wake was called: the waker is taken back,
TakeBack(t) ==
  /\ pc[t] = "take"
  /\ took' = [took EXCEPT ![t] = cell]
  /\ cell' = "none"
  /\ Goto(t, "swap")
  /\ UNCHANGED <<state, threadVars, ready, woken>>

\* the lock is released,
SwapWaiting(t) ==
  /\ pc[t] = "swap"
  /\ state' = WAITING
  /\ Goto(t, "wake")
  /\ UNCHANGED <<cell, took, threadVars, ready, woken>>

\* and the waker is called in place of the caller of wake.
WakeTaken(t) ==
  /\ pc[t] = "wake"
  /\ woken' = [s \in Tasks |-> woken[s] \/ s = took[t]]
  /\ took' = [took EXCEPT ![t] = "none"]
  /\ Goto(t, "check")
  /\ UNCHANGED <<state, cell, threadVars, ready>>

\* Fault: the call is dropped as if another task were registering.
WakeSelfSkipped(t) ==
  /\ pc[t] = "self"
  /\ Goto(t, "check")
  /\ UNCHANGED <<state, cell, took, threadVars, ready, woken>>

\* A wake is in progress on the old waker: the new one is called here.
WakeSelf(t) ==
  /\ pc[t] = "self"
  /\ woken' = [woken EXCEPT ![t] = TRUE]
  /\ Goto(t, "check")
  /\ UNCHANGED <<state, cell, took, threadVars, ready>>

\* Registered: the task looks at the result, and parks if it is not there.
Check(t) ==
  /\ pc[t] = "check"
  /\ ready' = FALSE
  /\ Goto(t, IF ready THEN "start" ELSE "parked")
  /\ UNCHANGED <<state, cell, took, threadVars, woken>>

\* The executor polls a task that was woken.
Run(t) ==
  /\ pc[t] = "parked" /\ woken[t]
  /\ woken' = [woken EXCEPT ![t] = FALSE]
  /\ Goto(t, "start")
  /\ UNCHANGED <<state, cell, took, threadVars, ready>>

TaskStep(t) ==
  \/ DoRegister(t) \/ SetWaker(t) \/ ReleaseCell(t) \/ TakeBack(t)
  \/ SwapWaiting(t) \/ WakeTaken(t) \/ WakeSelf(t) \/ Check(t) \/ Run(t)

-----------------------------------------------------------------------------
(* wake and take_waker, and the thread around them. *)

\* The result is produced before wake is called.
Produce(w) ==
  /\ wpc[w] = "produce"
  /\ ready' = TRUE
  /\ WGoto(w, "or")
  /\ UNCHANGED <<state, cell, taskVars, hand, woken>>

\* Fault: fetch_add in place of fetch_or.
FetchAddWaking(w) ==
  /\ wpc[w] = "or"
  /\ state' = state + WAKING
  /\ WGoto(w, IF state = WAITING THEN "take" ELSE "produce")
  /\ UNCHANGED <<cell, taskVars, hand, ready, woken>>

\* Fault: a registering task is not recognised as the owner of the cell.
FetchOrIgnoresRegistering(w) ==
  /\ wpc[w] = "or"
  /\ state' = OrWaking(state)
  /\ WGoto(w, IF state < WAKING THEN "take" ELSE "produce")
  /\ UNCHANGED <<cell, taskVars, hand, ready, woken>>

\* fetch_or: the cell is locked, or someone else will see the bit.
FetchOrWaking(w) ==
  /\ wpc[w] = "or"
  /\ state' = OrWaking(state)
  /\ WGoto(w, IF state = WAITING THEN "take" ELSE "produce")
  /\ UNCHANGED <<cell, taskVars, hand, ready, woken>>

TakeWaker(w) ==
  /\ wpc[w] = "take"
  /\ hand' = [hand EXCEPT ![w] = cell]
  /\ cell' = "none"
  /\ WGoto(w, "and")
  /\ UNCHANGED <<state, taskVars, ready, woken>>

FetchAndNotWaking(w) ==
  /\ wpc[w] = "and"
  /\ state' = AndNotWaking(state)
  /\ WGoto(w, "wake")
  /\ UNCHANGED <<cell, taskVars, hand, ready, woken>>

\* wake() calls the waker it was handed, if any.
Wake(w) ==
  /\ wpc[w] = "wake"
  /\ woken' = [s \in Tasks |-> woken[s] \/ s = hand[w]]
  /\ hand' = [hand EXCEPT ![w] = "none"]
  /\ WGoto(w, "produce")
  /\ UNCHANGED <<state, cell, taskVars, ready>>

WakeCall(w) ==
  FetchOrWaking(w) \/ TakeWaker(w) \/ FetchAndNotWaking(w) \/ Wake(w)

Next ==
  \/ \E t \in Tasks : TaskStep(t)
  \/ \E w \in Threads : Produce(w) \/ WakeCall(w)

Spec == Init /\ [][Next]_vars

\* Woken tasks are polled and calls end; no result need ever be produced.
FairSpec ==
  /\ Spec
  /\ \A t \in Tasks : WF_vars(TaskStep(t))
  /\ \A w \in Threads : WF_vars(WakeCall(w))

-----------------------------------------------------------------------------
(* Properties. *)

\* Tasks and threads between locking and releasing the cell.
Registering == {t \in Tasks : pc[t] \in {"set", "release", "take", "swap"}}
Taking == {w \in Threads : wpc[w] \in {"take", "and"}}

\* "When this transition is made, it is guaranteed that no other thread will
\* access the waker cell": even with concurrent calls of register.
CellExclusive ==
  /\ \A t1, t2 \in Registering : t1 = t2
  /\ \A w1, w2 \in Taking : w1 = w2
  /\ Registering = {} \/ Taking = {}

\* The assertions of do_register hold: a failed release finds both bits set,
\* and the waker it takes back (and unwraps) is there.
AssertionsHold ==
  \A t \in Tasks :
    /\ pc[t] = "release" => state \in {REGISTERING, REGISTERING + WAKING}
    /\ pc[t] = "take" => state = REGISTERING + WAKING /\ cell = t

\* A task that parked without the result, while every call of wake that was
\* made for it is over, has been woken.
NoLostWake ==
  ready /\ (\A w \in Threads : wpc[w] = "produce") =>
    \A t \in Tasks : pc[t] = "parked" => woken[t]

\* A result is seen by the task that waits for it.
ResultSeen == ready ~> ~ ready
=============================================================================
