--------------------------- MODULE HandleAwaited ----------------------------
(***************************************************************************)
(* Proofs about Handle for callers that await their futures: whatever      *)
(* kinds of operation follow each other on a handle, a future gets its own *)
(* result, and its task is woken for it.                                   *)
(***************************************************************************)
EXTENDS HandleProofs

\* No future is dropped in mid-operation, and header_lock's compare-exchange
\* does not fail without a reason.
Awaiting == ~Cancels /\ "lock" \notin WeakCAS

\* What is in the header of a handle that is polled was submitted by the future
\* that polls it.
Own ==
  \A h \in Handles :
    /\ pc[h] \in {"register", "cas", "store", "busy", "wait"} /\ lock[h] # 0 => mine[h]
    /\ pc[h] = "poll" /\ open /\ lock[h] # 0 => mine[h]
    /\ pc[h] = "collect" => mine[h]

\* The task is polled for a completion or with an open word, so it never finds
\* the header busy; while it waits its waker is registered until it is woken.
\* When the port is closed anything may be left in a handle that is not polled.
Calm ==
  \A h \in Handles :
    /\ pc[h] # "busy"
    /\ pc[h] \in {"register", "cas"} => lock[h] <= 0
    /\ pc[h] = "poll" /\ open => lock[h] <= 0
    /\ pc[h] = "gone" /\ open => lock[h] = 0
    /\ pc[h] \in {"cas", "submit"} => waker[h]
    /\ pc[h] \in {"register", "cas", "store", "submit", "collect"} => ~woken[h]
    /\ pc[h] \in {"idle", "poll"} /\ open => ~woken[h]

Waiting ==
  \A h \in Handles : pc[h] = "wait" =>
    \/ lock[h] > 0 /\ waker[h] /\ ~woken[h]
    \/ lock[h] < 0 /\ woken[h]
    \/ lock[h] < 0 /\ waker[h] /\ bg = "wake" /\ on[bgop] = h

\* A wake finds a task that waits for a completion which is there, and that
\* nobody else has woken.
Waking ==
  \A h \in Handles : bg = "wake" /\ on[bgop] = h =>
    \/ pc[h] = "wait" /\ lock[h] < 0 /\ ~woken[h]
    \/ pc[h] \in {"idle", "poll", "refused", "gone"} /\ ~open

\* Cancellations are asked for by handles that are dropped after the port was
\* closed, and then every status is released.
Uncancelled == open => cancelled = {}

AwaitInv == Calm /\ Waiting /\ Waking /\ Uncancelled

LEMMA AwaitingRegular == ASSUME Awaiting PROVE Regular
BY DEF Awaiting, Regular, StrongLock

-----------------------------------------------------------------------------
(* A future's own result. *)

\* The steps of a task.
LEMMA OwnTask ==
  ASSUME Inv, Settled, Own, Awaiting, NEW h \in Handles,
         \/ Task(h) \/ SiblingWakes(h) \/ DropFuture(h) \/ DropHandle(h)
         \/ \E c \in Codes : NewFuture(h, c)
  PROVE  Own'
<1> USE LockWordFacts DEF Inv, TypeOK, Own, Goto, EndFuture
<1>1. CASE Permit(h)
  BY <1>1 DEF Permit
<1>2. CASE Refused(h)
  BY <1>2 DEF Refused
<1>3. CASE Register(h)
  BY <1>3 DEF Register
<1>4. CASE HeaderLock(h)
  BY <1>4 DEF HeaderLock
<1>5. CASE HeaderLockFails(h)
  BY <1>5 DEF HeaderLockFails, Awaiting
<1>6. CASE HeaderLockStore(h)
  <2>1. lock[h] # 0
    BY <1>6, ActiveCode DEF HeaderLockStore, InOrder, Word
  <2> QED
    BY <1>6, <2>1 DEF HeaderLockStore
<1>7. CASE Busy(h)
  BY <1>7 DEF Busy
<1>8. CASE SubmitFails(h)
  BY <1>8 DEF SubmitFails
<1>9. CASE Collect(h)
  BY <1>9 DEF Collect
<1>10. CASE PollAgain(h)
  BY <1>10 DEF PollAgain
<1>11. CASE SiblingWakes(h)
  BY <1>11 DEF SiblingWakes
<1>12. CASE DropFuture(h)
  BY <1>12 DEF DropFuture, Awaiting
<1>13. CASE DropHandle(h)
  BY <1>13 DEF DropHandle
<1>14. CASE \E o \in Ops : Submit(h, o)
  BY <1>14 DEF Submit
<1>15. CASE \E c \in Codes : NewFuture(h, c)
  BY <1>15 DEF NewFuture, Settled, Awaiting
<1> QED
  BY <1>1, <1>2, <1>3, <1>4, <1>5, <1>6, <1>7, <1>8, <1>9, <1>10, <1>11, <1>12, <1>13, <1>14, <1>15 DEF Task

\* The steps of the kernel and of the background thread: a completion is put
\* where its operation was.
LEMMA OwnThread ==
  ASSUME Inv, Own,
         \/ \E o \in Ops, r \in Results : Complete(o, r)
         \/ Close \/ Delivery
  PROVE  Own'
<1>1. CASE UnlockCAS
  <2>1. lock[on[bgop]] # 0
    BY <1>1 DEF Inv, InUse, TypeOK, UnlockCAS
  <2> QED
    BY <1>1, <2>1 DEF Inv, TypeOK, Own, UnlockCAS, taskVars
<1>2. CASE Close
  BY <1>2 DEF Own, Close, taskVars
<1>3. CASE \/ \E o \in Ops, r \in Results : Complete(o, r)
           \/ \E o \in Ops : Dequeue(o)
           \/ UnlockLoad \/ UnlockRetry \/ Wake \/ DropStatus
  <2>1. lock' = lock /\ pc' = pc /\ mine' = mine /\ open' = open
    BY <1>3 DEF Complete, Dequeue, UnlockLoad, UnlockRetry, Wake, DropStatus,
       taskVars
  <2> QED
    BY <2>1 DEF Own
<1> QED
  BY <1>1, <1>2, <1>3 DEF Delivery

\* The result a future returns is that of the operation it submitted, whatever
\* kinds of operation are used and however often the task is polled, provided
\* that no future of the handle was dropped before it was finished.
THEOREM CollectsOwnHolds == ASSUME Awaiting PROVE Spec => []CollectsOwn
<1>1. Init => Own
  BY DEF Init, Own
<1>2. Inv /\ Settled /\ Own /\ [Next]_vars => Own'
  <2> SUFFICES ASSUME Inv, Settled, Own, [Next]_vars PROVE Own'
    OBVIOUS
  <2>1. CASE UNCHANGED vars
    BY <2>1 DEF Own, vars, taskVars
  <2>2. CASE Next
    BY <2>2, OwnTask, OwnThread DEF Next
  <2> QED
    BY <2>1, <2>2
<1>3. Spec => []Inv /\ []Settled
  BY AwaitingRegular, InvHolds
<1>4. Own => CollectsOwn
  BY DEF Own, CollectsOwn
<1> QED
  BY <1>1, <1>2, <1>3, <1>4, PTL DEF Spec

-----------------------------------------------------------------------------
(* No lost wake-up. *)

\* The facts about the header that the steps of a task below rest on.
LEMMA CalmWord ==
  ASSUME Inv, Settled, Awaiting, NEW h \in Handles
  PROVE  /\ lock[h] \in Int
         /\ pc[h] = "submit" => lock[h] > 0
         /\ pc[h] = "store" => fut[h] = -seen[h]
         /\ pc[h] = "idle" /\ open => lock[h] = 0
         /\ pc[h] = "refused" => ~open
<1>1. lock[h] \in Int
  BY LockWordFacts DEF Inv, TypeOK
<1>2. pc[h] = "submit" => lock[h] > 0
  BY ActiveCode DEF Inv, InOrder, Word
<1>3. pc[h] = "store" => fut[h] = -seen[h]
  BY ActiveCode DEF Inv, InOrder, Word
<1> QED
  BY <1>1, <1>2, <1>3 DEF Inv, InOrder, Match, Settled, Awaiting

\* The steps of a task.
LEMMA AwaitTask ==
  ASSUME Inv, Settled, AwaitInv, Awaiting, ~Siblings, NEW h \in Handles,
         \/ Task(h) \/ SiblingWakes(h) \/ DropFuture(h) \/ DropHandle(h)
         \/ \E c \in Codes : NewFuture(h, c)
  PROVE  AwaitInv'
<1>0. /\ lock[h] \in Int
      /\ pc[h] = "submit" => lock[h] > 0
      /\ pc[h] = "store" => fut[h] = -seen[h]
      /\ pc[h] = "idle" /\ open => lock[h] = 0
      /\ pc[h] = "refused" => ~open
  BY CalmWord
<1>a. lock \in [Handles -> LockWords] /\ LockWords \subseteq Int
  BY LockWordFacts DEF Inv, TypeOK
<1>b. /\ waker \in [Handles -> BOOLEAN] /\ woken \in [Handles -> BOOLEAN]
      /\ pc \in [Handles -> {"idle", "poll", "refused", "register", "cas", "store",
                             "busy", "submit", "collect", "wait", "gone"}]
      /\ cancelled \subseteq Ops
  BY DEF Inv, TypeOK
<1> USE <1>0, <1>a, <1>b
    DEF AwaitInv, Calm, Waiting, Waking, Uncancelled, Goto, EndFuture, ioVars, bgVars
<1>1. CASE Permit(h)
  BY <1>1 DEF Permit
<1>2. CASE Refused(h)
  BY <1>2 DEF Refused
<1>3. CASE Register(h)
  BY <1>3 DEF Register
<1>4. CASE HeaderLock(h)
  <2>1. fut[h] > 0 /\ fut[h] \in Int
    BY <1>4, ActiveCode DEF HeaderLock, Inv
  <2> QED
    BY <1>4, <2>1 DEF HeaderLock
<1>5. CASE HeaderLockFails(h)
  BY <1>5 DEF HeaderLockFails, Awaiting
<1>6. CASE HeaderLockStore(h)
  BY <1>6 DEF HeaderLockStore
<1>7. CASE SubmitFails(h)
  BY <1>7 DEF SubmitFails
<1>8. CASE Collect(h)
  BY <1>8 DEF Collect
<1>9. CASE PollAgain(h)
  BY <1>9 DEF PollAgain
<1>10. CASE DropHandle(h)
  BY <1>10 DEF DropHandle, CancelIoEx
<1>11. CASE \E o \in Ops : Submit(h, o)
  <2> PICK o \in Ops : Submit(h, o)
    BY <1>11
  <2>1. bg = "wake" => bgop # o
    BY DEF Submit, KernelAccepts, Inv, InUse
  <2> QED
    BY <2>1 DEF Submit, KernelAccepts, Inv, TypeOK
<1>12. CASE \E c \in Codes : NewFuture(h, c)
  BY <1>12 DEF NewFuture
<1>13. ~Busy(h) /\ ~SiblingWakes(h) /\ ~DropFuture(h)
  BY DEF Busy, SiblingWakes, DropFuture, Awaiting
<1> QED
  BY <1>1, <1>2, <1>3, <1>4, <1>5, <1>6, <1>7, <1>8, <1>9, <1>10, <1>11, <1>12, <1>13 DEF Task

\* The steps of the kernel and of the background thread.
LEMMA AwaitThread ==
  ASSUME Inv, Settled, AwaitInv, Awaiting,
         \/ \E o \in Ops, r \in Results : Complete(o, r)
         \/ Close \/ Delivery
  PROVE  AwaitInv'
<1> USE DEF AwaitInv
<1>1. CASE UnlockCAS
  <2>1. /\ bgop \in Ops /\ on[bgop] \in Handles
        /\ lock[on[bgop]] = old /\ old \in Int /\ old > 0
        /\ pc[on[bgop]] \notin {"submit", "collect"}
    BY <1>1, LockWordFacts DEF UnlockCAS, Inv, InOrder, InUse, TypeOK, Held, Pending, Unfinished
  <2>2. pc[on[bgop]] # "store"
    <3>1. pc[on[bgop]] = "store" => lock[on[bgop]] = -fut[on[bgop]] /\ -fut[on[bgop]] < 0
      BY <2>1, ActiveCode DEF Inv, InOrder, Word
    <3> QED
      BY <2>1, <3>1
  <2>3. bg' = "wake"
    BY <1>1, <2>1 DEF UnlockCAS, Aborted, Uncancelled
  <2>4. /\ lock' = [lock EXCEPT ![on[bgop]] = -old]
        /\ UNCHANGED <<waker, woken, pc, open, on, bgop, cancelled>>
    BY <1>1 DEF UnlockCAS, taskVars, ioVars
  <2>5. pc[on[bgop]] = "idle" => ~open
    BY <2>1, CalmWord
  <2>6. pc[on[bgop]] = "refused" => ~open
    BY <2>1, CalmWord
  <2>7. lock'[on[bgop]] = -old /\ -old < 0 /\ -old \in Int
    BY <2>1, <2>4 DEF Inv, TypeOK
  <2>8. Calm'
    BY <2>1, <2>4, <2>7 DEF Calm, Inv, TypeOK
  <2>9. Waiting'
    BY <1>1, <2>1, <2>3, <2>4, <2>7 DEF Waiting, UnlockCAS, Inv, TypeOK
  <2>10. Waking'
    <3>1. \/ pc[on[bgop]] = "wait" /\ ~woken[on[bgop]]
          \/ pc[on[bgop]] \in {"idle", "poll", "refused", "gone"} /\ ~open
      BY <2>1, <2>2, <2>5, <2>6 DEF Calm, Waiting, Inv, TypeOK
    <3> QED
      BY <3>1, <2>4, <2>7 DEF Waking
  <2> QED
    BY <2>4, <2>8, <2>9, <2>10 DEF Uncancelled
<1>2. CASE Wake
  <2>1. /\ bg' = "drop" /\ UNCHANGED <<lock, pc, open, on, bgop, cancelled>>
        /\ bgop \in Ops /\ on[bgop] \in Handles
    BY <1>2 DEF Wake, ioVars, Inv, InUse
  <2>2. ASSUME NEW g \in Handles, g # on[bgop]
        PROVE  woken'[g] = woken[g] /\ waker'[g] = waker[g]
    BY <1>2, <2>2 DEF Wake, Inv, TypeOK
  <2>3. woken'[on[bgop]] <=> woken[on[bgop]] \/ waker[on[bgop]]
    BY <1>2, <2>1, Zenon DEF Wake, Inv, TypeOK
  <2>4. \/ pc[on[bgop]] = "wait" /\ ~woken[on[bgop]]
        \/ pc[on[bgop]] \in {"idle", "poll", "refused", "gone"} /\ ~open
    BY <1>2, <2>1 DEF Waking, Wake
  <2>5. Calm'
    BY <2>1, <2>2, <2>4 DEF Calm
  <2>6. Waiting'
    <3> SUFFICES ASSUME NEW g \in Handles, pc[g] = "wait"
                 PROVE  Waiting!(g)'
      BY <2>1 DEF Waiting
    <3>1. CASE g # on[bgop]
      BY <2>1, <2>2, <3>1 DEF Waiting
    <3>2. CASE g = on[bgop]
      <4>1. lock[g] \in Int /\ ~ (lock[g] > 0)
        BY <1>2, <3>2, LockWordFacts DEF Waking, Wake, Inv, TypeOK, Waiting
      <4> QED
        BY <2>1, <2>3, <2>4, <3>2, <4>1 DEF Waiting
    <3> QED
      BY <3>1, <3>2
  <2>7. Waking' /\ Uncancelled'
    BY <2>1 DEF Waking, Uncancelled
  <2> QED
    BY <2>5, <2>6, <2>7
<1>3. CASE Close
  BY <1>3 DEF Close, Calm, Waiting, Waking, Uncancelled, taskVars, ioVars, bgVars
<1>4. CASE \E o \in Ops, r \in Results : Complete(o, r)
  BY <1>4 DEF Complete, Calm, Waiting, Waking, Uncancelled, taskVars, bgVars
<1>5. CASE (\E o \in Ops : Dequeue(o)) \/ UnlockLoad \/ UnlockRetry \/ DropStatus
  <2>1. /\ UNCHANGED <<lock, waker, woken, pc, open>>
        /\ bg # "wake" /\ bg' # "wake"
        /\ cancelled' \subseteq cancelled
    BY <1>5 DEF Dequeue, UnlockLoad, UnlockRetry, DropStatus, taskVars, ioVars
  <2> QED
    BY <2>1 DEF Calm, Waiting, Waking, Uncancelled
<1> QED
  BY <1>1, <1>2, <1>3, <1>4, <1>5 DEF Delivery

\* A future that waits without a pending operation has been woken or is about
\* to be, whatever kinds of operation are used and whenever the port is shut
\* down, if its task is polled for its own sake only and it is not dropped.
THEOREM NoLostWakeHolds ==
  ASSUME Awaiting, ~Siblings PROVE Spec => []NoLostWake
<1>1. Init => AwaitInv
  BY DEF Init, AwaitInv, Calm, Waiting, Waking, Uncancelled
<1>2. Inv /\ Settled /\ AwaitInv /\ [Next]_vars => AwaitInv'
  <2> SUFFICES ASSUME Inv, Settled, AwaitInv, [Next]_vars PROVE AwaitInv'
    OBVIOUS
  <2>1. CASE UNCHANGED vars
    BY <2>1 DEF AwaitInv, Calm, Waiting, Waking, Uncancelled, vars, taskVars,
       ioVars, bgVars
  <2>2. CASE Next
    BY <2>2, AwaitTask, AwaitThread DEF Next
  <2> QED
    BY <2>1, <2>2
<1>3. Spec => []Inv /\ []Settled
  BY AwaitingRegular, InvHolds
<1>4. Inv /\ AwaitInv => NoLostWake
  <2> SUFFICES ASSUME Inv, AwaitInv, NEW h \in Handles,
                      pc[h] = "wait", lock[h] <= 0
               PROVE  woken[h] \/ (bg = "wake" /\ on[bgop] = h)
    BY DEF NoLostWake
  <2>1. lock[h] \in Int
    BY LockWordFacts DEF Inv, TypeOK
  <2> QED
    BY <2>1 DEF AwaitInv, Waiting
<1> QED
  BY <1>1, <1>2, <1>3, <1>4, PTL DEF Spec
=============================================================================
