---------------------------- MODULE HandleProofs ----------------------------
(***************************************************************************)
(* Proofs about Handle, for any set of handles, operations and codes.      *)
(***************************************************************************)
EXTENDS Handle, FiniteSetTheorems, TLAPS

USE HandleAssumption

\* The words header_lock and unlock store, by sign.
LEMMA LockWordFacts ==
  /\ LockWords \subseteq Int
  /\ \A c \in Codes : c \in LockWords /\ -c \in LockWords /\ c > 0
  /\ \A w \in LockWords : -w \in LockWords
  /\ \A w \in LockWords : w > 0 => w \in Codes
  /\ \A w \in LockWords : w < 0 => -w \in Codes
  /\ 0 \in LockWords /\ 0 \notin Codes
<1>1. \A c \in Codes : c \in Int /\ c > 0 /\ -c \in Int /\ -c < 0 /\ -(-c) = c
  BY SMT
<1>2. \A c \in Codes : c \in LockWords /\ -c \in LockWords
  BY DEF LockWords
<1>3. 0 \in LockWords /\ 0 \notin Codes
  BY DEF LockWords
<1>4. ASSUME NEW w \in LockWords
      PROVE  /\ w \in Int /\ -w \in LockWords
             /\ w > 0 => w \in Codes
             /\ w < 0 => -w \in Codes
  <2>1. CASE w = 0
    BY <1>3, <2>1
  <2>2. CASE w \in Codes
    BY <1>1, <1>2, <2>2
  <2>3. ASSUME NEW c \in Codes, w = -c
        PROVE  /\ w \in Int /\ w < 0 /\ -w = c
    BY <1>1, <2>3
  <2>4. CASE \E c \in Codes : w = -c
    BY <1>2, <2>3, <2>4
  <2> QED
    BY <2>1, <2>2, <2>4 DEF LockWords
<1> QED
  BY <1>1, <1>2, <1>3, <1>4

-----------------------------------------------------------------------------
(* Type correctness, and what an operation in use and the thread's program *)
(* counter say about the rest of the state.  Both hold for all constants.  *)

\* An operation that is in use has a handle and a code; the background thread
\* delivers exactly the operation that is taken.
InUse ==
  /\ \A o \in Ops : io[o] # "free" => on[o] \in Handles /\ kind[o] \in Codes
  /\ bg # "idle" => bgop \in Ops /\ io[bgop] = "taken"
  /\ \A o \in Ops : io[o] = "taken" => bg # "idle" /\ o = bgop
  /\ bg = "cas" => old > 0
  /\ \A h \in Handles : fut[h] = 0 <=> pc[h] \in {"idle", "gone"}

LEMMA TypeInit == Init => TypeOK /\ InUse
<1> SUFFICES ASSUME Init PROVE TypeOK /\ InUse
  OBVIOUS
<1>1. TypeOK
  BY LockWordFacts DEF Init, TypeOK, Results
<1>2. InUse
  BY DEF Init, InUse
<1> QED
  BY <1>1, <1>2

\* The steps of a task other than the system call.
LEMMA TypeTask ==
  ASSUME TypeOK, InUse, NEW h \in Handles,
         \/ Permit(h) \/ Refused(h) \/ Register(h) \/ HeaderLock(h)
         \/ HeaderLockFails(h) \/ HeaderLockStore(h) \/ Busy(h)
         \/ SubmitFails(h) \/ Collect(h) \/ PollAgain(h)
         \/ SiblingWakes(h) \/ DropFuture(h) \/ DropHandle(h)
         \/ \E c \in Codes : NewFuture(h, c)
  PROVE  TypeOK' /\ InUse'
<1> USE LockWordFacts DEF TypeOK, InUse, Goto, EndFuture, CancelIoEx, ioVars, bgVars
<1>1. CASE Permit(h)
  BY <1>1 DEF Permit
<1>2. CASE Refused(h)
  BY <1>2 DEF Refused
<1>3. CASE Register(h)
  BY <1>3 DEF Register
<1>4. CASE HeaderLock(h)
  <2>1. fut[h] \in LockWords
    OBVIOUS
  <2> QED
    BY <1>4, <2>1 DEF HeaderLock
<1>5. CASE HeaderLockFails(h)
  BY <1>5 DEF HeaderLockFails
<1>6. CASE HeaderLockStore(h)
  BY <1>6 DEF HeaderLockStore
<1>7. CASE Busy(h)
  BY <1>7 DEF Busy
<1>8. CASE SubmitFails(h)
  BY <1>8 DEF SubmitFails
<1>9. CASE Collect(h)
  BY <1>9 DEF Collect
<1>10. CASE PollAgain(h)
  BY <1>10 DEF PollAgain
<1>11. CASE SiblingWakes(h)
  BY <1>11 DEF SiblingWakes
<1>12. CASE DropFuture(h)
  BY <1>12 DEF DropFuture
<1>13. CASE DropHandle(h)
  BY <1>13 DEF DropHandle
<1>14. CASE \E c \in Codes : NewFuture(h, c)
  BY <1>14 DEF NewFuture
<1> QED
  BY <1>1, <1>2, <1>3, <1>4, <1>5, <1>6, <1>7, <1>8, <1>9, <1>10, <1>11,
     <1>12, <1>13, <1>14

\* The steps that move an operation to the kernel and back.
LEMMA TypeIO ==
  ASSUME TypeOK, InUse, NEW o \in Ops,
         \/ \E h \in Handles : Submit(h, o)
         \/ \E r \in Results : Complete(o, r)
         \/ Dequeue(o)
  PROVE  TypeOK' /\ InUse'
<1> USE LockWordFacts DEF TypeOK, InUse, taskVars, bgVars
<1>1. CASE \E h \in Handles : Submit(h, o)
  <2> PICK h \in Handles : Submit(h, o)
    BY <1>1
  <2>1. fut[h] \in Codes
    BY DEF Submit
  <2> QED
    BY <2>1 DEF Submit, KernelAccepts, Goto
<1>2. CASE \E r \in Results : Complete(o, r)
  <2> PICK r \in Results : Complete(o, r)
    BY <1>2
  <2> QED
    BY DEF Complete
<1>3. CASE Dequeue(o)
  BY <1>3 DEF Dequeue
<1> QED
  BY <1>1, <1>2, <1>3

\* The other steps of the background thread.
LEMMA TypeThread ==
  ASSUME TypeOK, InUse,
         \/ Close \/ UnlockLoad \/ UnlockCAS \/ UnlockRetry \/ Wake \/ DropStatus
  PROVE  TypeOK' /\ InUse'
<1> USE LockWordFacts DEF TypeOK, InUse, taskVars, ioVars, bgVars
<1>1. CASE Close
  BY <1>1 DEF Close
<1>2. CASE UnlockLoad
  BY <1>2 DEF UnlockLoad
<1>3. CASE UnlockCAS
  BY <1>3 DEF UnlockCAS
<1>4. CASE UnlockRetry
  BY <1>4 DEF UnlockRetry
<1>5. CASE Wake
  BY <1>5 DEF Wake
<1>6. CASE DropStatus
  BY <1>6 DEF DropStatus
<1> QED
  BY <1>1, <1>2, <1>3, <1>4, <1>5, <1>6

LEMMA TypeNext == TypeOK /\ InUse /\ [Next]_vars => TypeOK' /\ InUse'
<1> SUFFICES ASSUME TypeOK, InUse, [Next]_vars PROVE TypeOK' /\ InUse'
  OBVIOUS
<1>1. CASE UNCHANGED vars
  BY <1>1 DEF TypeOK, InUse, vars, taskVars, ioVars, bgVars
<1>2. CASE Next
  BY <1>2, TypeTask, TypeIO, TypeThread DEF Next, Task, Delivery
<1> QED
  BY <1>1, <1>2

\* Every variable keeps its type: in particular the lock word only ever holds
\* 0, a code or a negated code, whatever task and background thread do.
THEOREM TypeCorrect == Spec => []TypeOK
<1>1. Spec => [](TypeOK /\ InUse)
  BY TypeInit, TypeNext, PTL DEF Spec
<1> QED
  BY <1>1, PTL

-----------------------------------------------------------------------------
(* The reference count of the header. *)

\* The operations that own a reference to the header of h.
Owners(h) == {o \in Ops : io[o] # "free" /\ on[o] = h}

LEMMA OwnersFinite ==
  \A h : IsFiniteSet(Owners(h)) /\ Cardinality(Owners(h)) \in Nat
<1> SUFFICES ASSUME NEW h
             PROVE  IsFiniteSet(Owners(h)) /\ Cardinality(Owners(h)) \in Nat
  OBVIOUS
<1>1. Owners(h) \subseteq Ops
  BY DEF Owners
<1> QED
  BY <1>1, FS_Subset, FS_CardinalityType

LEMMA OneOwnerMore ==
  ASSUME NEW S, NEW T, NEW x, IsFiniteSet(S), T = S \cup {x}, x \notin S
  PROVE  Cardinality(T) = Cardinality(S) + 1
BY FS_AddElement

LEMMA OneOwnerLess ==
  ASSUME NEW S, NEW T, NEW x, IsFiniteSet(S), T = S \ {x}, x \in S
  PROVE  Cardinality(T) = Cardinality(S) - 1
BY FS_RemoveElement

\* A step that gives no operation to a handle and takes none from it, and
\* drops no handle, keeps the balance.
LEMMA RefsKept ==
  ASSUME TypeOK, RefsBalance, refs' = refs, io' = io, on' = on,
         \A h \in Handles : pc'[h] = "gone" <=> pc[h] = "gone"
  PROVE  RefsBalance'
BY DEF RefsBalance

LEMMA RefsNext ==
  ASSUME TypeOK, InUse, RefsBalance, [Next]_vars
  PROVE  RefsBalance'
<1> DEFINE Handed(h) == IF pc[h] = "gone" THEN 0 ELSE 1
<1>0. \A h \in Handles : refs[h] = Cardinality(Owners(h)) + Handed(h)
  BY DEF RefsBalance, Owners
<1>s. SUFFICES \A h \in Handles :
        refs'[h] = Cardinality(Owners(h)') + (IF pc'[h] = "gone" THEN 0 ELSE 1)
  BY DEF RefsBalance, Owners
<1>1. ASSUME NEW g \in Handles, NEW o \in Ops, Submit(g, o)
      PROVE  \A h \in Handles : refs'[h] = Cardinality(Owners(h)')
                                  + (IF pc'[h] = "gone" THEN 0 ELSE 1)
  <2> TAKE h \in Handles
  <2> USE <1>1 DEF Submit, KernelAccepts, Goto, TypeOK
  <2>1. CASE h = g
    <3>1. Owners(h)' = Owners(h) \cup {o} /\ o \notin Owners(h)
      BY <2>1 DEF Owners
    <3>2. Cardinality(Owners(h)') = Cardinality(Owners(h)) + 1
      <4> HIDE <1>1 DEF Submit, KernelAccepts, Goto, TypeOK
      <4>1. IsFiniteSet(Owners(h))
        BY OwnersFinite
      <4> QED
        BY <3>1, <4>1, OneOwnerMore
    <3> QED
      BY <2>1, <3>2, <1>0, OwnersFinite
  <2>2. CASE h # g
    <3>1. Owners(h)' = Owners(h)
      BY <2>2 DEF Owners
    <3> QED
      BY <2>2, <3>1, <1>0
  <2> QED
    BY <2>1, <2>2
<1>2. ASSUME DropStatus
      PROVE  \A h \in Handles : refs'[h] = Cardinality(Owners(h)')
                                  + (IF pc'[h] = "gone" THEN 0 ELSE 1)
  <2> TAKE h \in Handles
  <2> USE <1>2 DEF DropStatus, TypeOK, InUse, taskVars
  <2>1. CASE h = on[bgop]
    <3>1. Owners(h)' = Owners(h) \ {bgop} /\ bgop \in Owners(h)
      BY <2>1 DEF Owners
    <3>2. Cardinality(Owners(h)') = Cardinality(Owners(h)) - 1
      <4> HIDE <1>2 DEF DropStatus, TypeOK, InUse, taskVars
      <4>1. IsFiniteSet(Owners(h))
        BY OwnersFinite
      <4> QED
        BY <3>1, <4>1, OneOwnerLess
    <3> QED
      BY <2>1, <3>2, <1>0, OwnersFinite
  <2>2. CASE h # on[bgop]
    <3>1. Owners(h)' = Owners(h)
      BY <2>2 DEF Owners
    <3> QED
      BY <2>2, <3>1, <1>0
  <2> QED
    BY <2>1, <2>2
<1>3. ASSUME NEW g \in Handles, DropHandle(g)
      PROVE  \A h \in Handles : refs'[h] = Cardinality(Owners(h)')
                                  + (IF pc'[h] = "gone" THEN 0 ELSE 1)
  <2> TAKE h \in Handles
  <2>1. Owners(h)' = Owners(h)
    BY <1>3 DEF DropHandle, Owners
  <2> QED
    BY <1>0, <1>3, <2>1, OwnersFinite DEF DropHandle, Goto, TypeOK
<1>4. ASSUME NEW o \in Ops, Dequeue(o) \/ \E r \in Results : Complete(o, r)
      PROVE  \A h \in Handles : refs'[h] = Cardinality(Owners(h)')
                                  + (IF pc'[h] = "gone" THEN 0 ELSE 1)
  <2> TAKE h \in Handles
  <2>1. Owners(h)' = Owners(h)
    BY <1>4 DEF Dequeue, Complete, Owners, TypeOK
  <2> QED
    BY <1>0, <1>4, <2>1 DEF Dequeue, Complete, taskVars
<1>5. CASE UNCHANGED vars
  BY <1>5, RefsKept DEF vars, taskVars, ioVars, RefsBalance, Owners
<1>6. ASSUME NEW h \in Handles,
             \/ Permit(h) \/ Refused(h) \/ Register(h) \/ HeaderLock(h)
             \/ HeaderLockFails(h) \/ HeaderLockStore(h) \/ Busy(h)
             \/ SubmitFails(h) \/ Collect(h) \/ PollAgain(h)
             \/ SiblingWakes(h) \/ DropFuture(h)
             \/ \E c \in Codes : NewFuture(h, c)
      PROVE  RefsBalance'
  <2>1. /\ refs' = refs /\ io' = io /\ on' = on
        /\ \A g \in Handles : pc'[g] = "gone" <=> pc[g] = "gone"
    BY <1>6 DEF Permit, Refused, Register, HeaderLock, HeaderLockFails,
       HeaderLockStore, Busy, SubmitFails, Collect, PollAgain, SiblingWakes,
       DropFuture, NewFuture, Goto, EndFuture, ioVars, TypeOK
  <2> QED
    BY <2>1, RefsKept
<1>7. CASE Close \/ UnlockLoad \/ UnlockCAS \/ UnlockRetry \/ Wake
  <2>1. /\ refs' = refs /\ io' = io /\ on' = on /\ pc' = pc
    BY <1>7 DEF Close, UnlockLoad, UnlockCAS, UnlockRetry, Wake, taskVars, ioVars
  <2> QED
    BY <2>1, RefsKept DEF RefsBalance, Owners
<1>8. RefsBalance' => \A h \in Handles : refs'[h] = Cardinality(Owners(h)')
                                  + (IF pc'[h] = "gone" THEN 0 ELSE 1)
  BY DEF RefsBalance, Owners
<1> QED
  BY <1>1, <1>2, <1>3, <1>4, <1>5, <1>6, <1>7, <1>8 DEF Next, Task, Delivery

\* The count of the Arc<Header> is one for the handle plus one for each
\* operation between prepare() and the drop of its status, for every
\* interleaving, every kind of cancellation and every spurious failure.
THEOREM RefsBalanced == Spec => []RefsBalance
<1>1. Init => RefsBalance
  <2> SUFFICES ASSUME Init PROVE RefsBalance
    OBVIOUS
  <2>1. \A h \in Handles : Owners(h) = {}
    BY DEF Init, Owners
  <2> QED
    BY <2>1, FS_EmptySet DEF Init, RefsBalance, Owners
<1>2. Spec => [](TypeOK /\ InUse)
  BY TypeInit, TypeNext, PTL DEF Spec
<1>3. TypeOK /\ InUse /\ RefsBalance /\ [Next]_vars => RefsBalance'
  BY RefsNext
<1> QED
  BY <1>1, <1>2, <1>3, PTL DEF Spec
-----------------------------------------------------------------------------
(* Who may hold the lock, for all constants. *)

\* A header is locked by an Idle guard or by an operation whose completion is
\* still to come: there is always somebody who will open it.
LockHeld == \A h \in Handles : lock[h] > 0 => pc[h] = "submit" \/ Pending(h) # {}

LEMMA LockHeldNext ==
  ASSUME TypeOK, InUse, LockHeld, [Next]_vars
  PROVE  LockHeld'
<1>0. lock \in [Handles -> LockWords] /\ LockWords \subseteq Int
  BY LockWordFacts DEF TypeOK
<1>1. ASSUME NEW g \in Handles,
             \/ Permit(g) \/ Refused(g) \/ Register(g) \/ HeaderLock(g)
             \/ HeaderLockFails(g) \/ HeaderLockStore(g) \/ Busy(g)
             \/ SubmitFails(g) \/ Collect(g) \/ PollAgain(g)
             \/ SiblingWakes(g) \/ DropFuture(g) \/ DropHandle(g)
             \/ \E c \in Codes : NewFuture(g, c)
      PROVE  LockHeld'
  <2>1. /\ io' = io /\ on' = on /\ bg' = bg
        /\ \A h \in Handles \ {g} : lock'[h] = lock[h] /\ pc'[h] = pc[h]
    BY <1>1 DEF Permit, Refused, Register, HeaderLock, HeaderLockFails, HeaderLockStore,
       Busy, SubmitFails, Collect, PollAgain, SiblingWakes, DropFuture, DropHandle,
       NewFuture, Goto, EndFuture, ioVars, bgVars, TypeOK
  <2>2. \A h : Pending(h)' = Pending(h)
    BY <2>1 DEF Pending, Unfinished
  <2>3. \/ lock'[g] = 0 \/ pc'[g] = "submit"
        \/ lock'[g] = lock[g] /\ pc[g] # "submit"
    BY <1>1 DEF Permit, Refused, Register, HeaderLock, HeaderLockFails, HeaderLockStore,
       Busy, SubmitFails, Collect, PollAgain, SiblingWakes, DropFuture, DropHandle,
       NewFuture, Goto, EndFuture, TypeOK
  <2> QED
    BY <2>1, <2>2, <2>3 DEF LockHeld
<1>2. ASSUME NEW g \in Handles, NEW o \in Ops, Submit(g, o)
      PROVE  LockHeld'
  <2>1. /\ lock' = lock /\ bg' = bg /\ io[o] = "free"
        /\ io' = [io EXCEPT ![o] = "flight"] /\ on' = [on EXCEPT ![o] = g]
        /\ \A h \in Handles \ {g} : pc'[h] = pc[h]
    BY <1>2 DEF Submit, KernelAccepts, Goto, bgVars, TypeOK
  <2>2. \A h : Pending(h) \subseteq Pending(h)'
    BY <2>1 DEF Pending, Unfinished, TypeOK
  <2>3. o \in Pending(g)'
    BY <2>1 DEF Pending, Unfinished, TypeOK
  <2> QED
    BY <2>1, <2>2, <2>3 DEF LockHeld
<1>3. CASE UnlockCAS
  <2>1. /\ on[bgop] \in Handles /\ old \in Int /\ old > 0 /\ pc' = pc /\ io' = io
        /\ on' = on /\ bgop' = bgop /\ lock' = [lock EXCEPT ![on[bgop]] = -old]
    BY <1>3, <1>0 DEF UnlockCAS, taskVars, ioVars, InUse, TypeOK
  <2>2. \A h \in Handles \ {on[bgop]} : Pending(h)' = Pending(h) /\ lock'[h] = lock[h]
    BY <1>0, <1>3, <2>1 DEF UnlockCAS, Pending, Unfinished, InUse
  <2>3. ~ (lock'[on[bgop]] > 0)
    BY <1>0, <2>1
  <2> QED
    BY <2>1, <2>2, <2>3 DEF LockHeld
<1>4. CASE \/ \E o \in Ops, r \in Results : Complete(o, r)
           \/ \E o \in Ops : Dequeue(o)
           \/ Close \/ Wake \/ DropStatus \/ UNCHANGED vars
  <2>1. lock' = lock /\ pc' = pc
    BY <1>4 DEF Complete, Dequeue, Close, Wake, DropStatus, taskVars, vars
  <2>2. \A h : Pending(h)' = Pending(h)
    <3> USE DEF Pending, Unfinished, InUse, TypeOK
    <3>1. CASE \E o \in Ops, r \in Results : Complete(o, r)
      BY <3>1 DEF Complete, bgVars
    <3>2. CASE \E o \in Ops : Dequeue(o)
      BY <3>2 DEF Dequeue
    <3>3. CASE Close \/ Wake \/ UNCHANGED vars
      BY <3>3 DEF Close, Wake, vars, ioVars, bgVars
    <3>4. CASE DropStatus
      BY <3>4 DEF DropStatus
    <3> QED
      BY <1>4, <3>1, <3>2, <3>3, <3>4
  <2> QED
    BY <2>1, <2>2 DEF LockHeld
<1>5. CASE UnlockLoad \/ UnlockRetry
  <2>1. /\ lock' = lock /\ pc' = pc /\ io' = io /\ on' = on /\ bgop' = bgop
        /\ bg \in {"load", "cas"}
        /\ bg' = IF lock[on[bgop]] > 0 THEN "cas" ELSE "drop"
    BY <1>5 DEF UnlockLoad, UnlockRetry, taskVars, ioVars
  <2>2. ASSUME NEW h \in Handles, lock[h] > 0
        PROVE  Pending(h)' = Pending(h)
    BY <2>1, <2>2 DEF Pending, Unfinished, InUse
  <2> QED
    BY <2>1, <2>2 DEF LockHeld
<1> QED
  BY <1>1, <1>2, <1>3, <1>4, <1>5 DEF Next, Task, Delivery

-----------------------------------------------------------------------------
(* Exclusive use of the header.  It needs two assumptions: header_lock's   *)
(* compare-exchange does not fail without a reason, since the store of 0   *)
(* that follows a failure leaves an Idle guard over an open word; and where*)
(* futures are dropped in mid-operation one kind of operation is used, as  *)
(* the same store discards the completion of another kind (handle_switch). *)

StrongLock == "lock" \notin WeakCAS

Regular == StrongLock /\ (Cancels => \A c, d \in Codes : c = d)

\* An operation pending on g holds its header: the lock word is its code, it is
\* alone, no guard exists, and what the kernel has queued has a final status.
Held(g) ==
  /\ \A o \in Pending(g) :
       /\ lock[g] = kind[o]
       /\ pc[g] \notin {"submit", "collect"}
       /\ io[o] # "flight" => ovl[g] \in Results
  /\ \A o1, o2 \in Pending(g) : o1 = o2

\* What the lock word of a header says without looking at the operations.
Word(g) ==
  /\ lock[g] > 0 => pc[g] = "submit" \/ Pending(g) # {}
  /\ lock[g] < 0 => ovl[g] \in Results
  /\ pc[g] = "submit" => lock[g] = fut[g]
  /\ pc[g] = "collect" => lock[g] = 0 /\ ovl[g] \in Results
  /\ pc[g] = "store" => lock[g] = -fut[g] /\ seen[g] = -fut[g]

\* The word belongs to the future that is being polled.
Match(g) ==
  /\ pc[g] \in {"register", "cas", "store", "busy", "submit", "collect", "wait"}
       => lock[g] \in {0, fut[g], -fut[g]}
  /\ pc[g] = "poll" /\ open => lock[g] \in {0, fut[g], -fut[g]}
  /\ pc[g] = "refused" => ~ open

\* The thread's copy of the word is current.
Copy(g) == bg = "cas" /\ on[bgop] = g => old = lock[g]

\* A handle that is gone has cancelled what it left in the kernel.
Gone(g) ==
  pc[g] = "gone" => \A o \in Ops : io[o] = "flight" /\ on[o] = g => o \in cancelled

\* The header of g is in order.  No part of this looks at another handle, so it
\* is kept by a handle that is used regularly whatever is done to the others.
InOrder(g) == Held(g) /\ Word(g) /\ Match(g) /\ Copy(g) /\ Gone(g)

Inv == TypeOK /\ InUse /\ \A g \in Handles : InOrder(g)

\* A step that makes a future on g finds an open word, or one of that future's
\* kind, unless its poll will be refused.  This is what the invariant needs of
\* the callers, and what a dropped future may take away from the next one.
Fits(g) == \A c \in Codes : NewFuture(g, c) /\ open => lock[g] \in {0, c, -c}

LEMMA InvInit == Init => Inv
<1> SUFFICES ASSUME Init PROVE Inv
  OBVIOUS
<1>1. TypeOK /\ InUse
  BY TypeInit
<1>2. ASSUME NEW g \in Handles PROVE InOrder(g)
  BY LockWordFacts
     DEF Init, InOrder, Held, Word, Match, Copy, Gone, Pending, Unfinished
<1> QED
  BY <1>1, <1>2 DEF Inv

\* A pending operation makes its lock word positive.
LEMMA PendingPositive ==
  ASSUME TypeOK, InUse, NEW g \in Handles, Held(g), Pending(g) # {}
  PROVE  lock[g] \in Codes /\ lock[g] \in Int /\ lock[g] > 0
BY LockWordFacts DEF TypeOK, InUse, Held, Pending, Unfinished

LEMMA UnfinishedPositive ==
  ASSUME Inv
  PROVE  \A o \in Ops : Unfinished(o) =>
           on[o] \in Handles /\ lock[on[o]] \in Int /\ lock[on[o]] > 0
<1> SUFFICES ASSUME NEW o \in Ops, Unfinished(o)
             PROVE  on[o] \in Handles /\ lock[on[o]] \in Int /\ lock[on[o]] > 0
  OBVIOUS
<1>1. on[o] \in Handles
  BY DEF Inv, InUse, Unfinished
<1>2. Held(on[o]) /\ o \in Pending(on[o])
  BY <1>1 DEF Inv, InOrder, Pending
<1> QED
  BY <1>1, <1>2, PendingPositive DEF Inv

\* A future that is being polled has a code, whose sign is known.
LEMMA ActiveCode ==
  ASSUME TypeOK, InUse, NEW h \in Handles, pc[h] \notin {"idle", "gone"}
  PROVE  /\ fut[h] \in Codes /\ fut[h] \in Int /\ fut[h] > 0
         /\ -fut[h] \in Int /\ -fut[h] < 0 /\ -(-fut[h]) = fut[h]
         /\ lock[h] \in Int
<1>1. fut[h] \in Codes /\ lock[h] \in LockWords
  BY DEF TypeOK, InUse
<1>2. fut[h] \in Int /\ fut[h] > 0 /\ lock[h] \in Int
  BY <1>1, LockWordFacts
<1> QED
  BY <1>1, <1>2

-----------------------------------------------------------------------------
(* Steps that leave the header of g alone. *)

\* Nothing that belongs to g changes; one of its operations may be completed, as
\* long as its status is written.
LEMMA OrderFrame ==
  ASSUME NEW g \in Handles, InOrder(g),
         lock'[g] = lock[g], pc'[g] = pc[g], fut'[g] = fut[g], seen'[g] = seen[g],
         ovl'[g] = ovl[g] \/ ovl'[g] \in Results, open' => open, pc[g] # "refused" \/ open' = open,
         Pending(g)' = Pending(g),
         \A o \in Pending(g) : /\ kind'[o] = kind[o]
                               /\ io'[o] # "flight" => io[o] # "flight" \/ ovl'[g] \in Results,
         \A o \in Ops : io'[o] = "flight" /\ on'[o] = g =>
           io[o] = "flight" /\ on[o] = g /\ (o \in cancelled => o \in cancelled'),
         bg' = "cas" /\ on'[bgop'] = g => old' = lock[g]
  PROVE  InOrder(g)'
<1>1. Held(g)'
  BY DEF InOrder, Held
<1>2. Word(g)'
  BY DEF InOrder, Word
<1>3. Match(g)' /\ Copy(g)' /\ Gone(g)'
  BY DEF InOrder, Match, Copy, Gone
<1> QED
  BY <1>1, <1>2, <1>3 DEF InOrder

\* A task of another handle.
LEMMA OrderElsewhere ==
  ASSUME TypeOK, InUse, NEW g \in Handles, InOrder(g), NEW h \in Handles \ {g},
         \/ Task(h) \/ SiblingWakes(h) \/ DropFuture(h) \/ DropHandle(h)
         \/ \E c \in Codes : NewFuture(h, c)
  PROVE  InOrder(g)'
<1>1. /\ lock'[g] = lock[g] /\ pc'[g] = pc[g] /\ fut'[g] = fut[g] /\ seen'[g] = seen[g]
      /\ open' = open /\ UNCHANGED bgVars
  BY DEF TypeOK, Task, SiblingWakes, DropFuture, DropHandle, NewFuture, Permit, Refused,
     Register, HeaderLock, HeaderLockFails, HeaderLockStore, Busy, Submit, SubmitFails,
     Collect, PollAgain, Goto, EndFuture
<1>2. CASE \E o \in Ops : Submit(h, o)
  <2> PICK o \in Ops : Submit(h, o)
    BY <1>2
  <2>1. /\ io[o] = "free" /\ io' = [io EXCEPT ![o] = "flight"]
        /\ on' = [on EXCEPT ![o] = h] /\ kind' = [kind EXCEPT ![o] = fut[h]]
        /\ ovl'[g] = ovl[g] /\ cancelled' = cancelled
    BY DEF Submit, KernelAccepts, TypeOK
  <2>2. Pending(g)' = Pending(g)
    BY <1>1, <2>1 DEF TypeOK, Pending, Unfinished, bgVars
  <2>3. bg = "cas" => on'[bgop] = on[bgop]
    BY <2>1 DEF InUse, TypeOK
  <2>4. bg' = "cas" /\ on'[bgop'] = g => old' = lock[g]
    BY <1>1, <2>3 DEF bgVars, InOrder, Copy
  <2>5. \A x \in Pending(g) : kind'[x] = kind[x] /\ io'[x] = io[x]
    BY <2>1 DEF TypeOK, Pending, Unfinished
  <2>6. \A x \in Ops : io'[x] = "flight" /\ on'[x] = g =>
          io[x] = "flight" /\ on[x] = g /\ (x \in cancelled => x \in cancelled')
    BY <2>1 DEF TypeOK
  <2> QED
    BY <1>1, <2>1, <2>2, <2>4, <2>5, <2>6, OrderFrame
<1>3. CASE /\ io' = io /\ on' = on /\ kind' = kind /\ ovl' = ovl
           /\ cancelled \subseteq cancelled'
  <2>1. Pending(g)' = Pending(g)
    BY <1>1, <1>3 DEF Pending, Unfinished, bgVars
  <2>2. bg' = "cas" /\ on'[bgop'] = g => old' = lock[g]
    BY <1>1, <1>3 DEF bgVars, InOrder, Copy
  <2> QED
    BY <1>1, <1>3, <2>1, <2>2, OrderFrame
<1>4. (\E o \in Ops : Submit(h, o))
      \/ (io' = io /\ on' = on /\ kind' = kind /\ ovl' = ovl /\ cancelled \subseteq cancelled')
  BY DEF Task, SiblingWakes, DropFuture, DropHandle, NewFuture, Permit, Refused,
     Register, HeaderLock, HeaderLockFails, HeaderLockStore, Busy, SubmitFails,
     Collect, PollAgain, CancelIoEx, ioVars
<1> QED
  BY <1>2, <1>3, <1>4

-----------------------------------------------------------------------------
(* The steps of g's own task. *)

\* Steps that leave lock word, operations and status alone.
LEMMA OrderQuiet ==
  ASSUME TypeOK, InUse, NEW g \in Handles, InOrder(g),
         \/ Permit(g) \/ Refused(g) \/ Register(g) \/ Busy(g) \/ PollAgain(g)
         \/ SiblingWakes(g) \/ DropFuture(g)
  PROVE  InOrder(g)'
<1>1. /\ UNCHANGED <<lock, io, on, kind, ovl, open, bgVars>>
      /\ cancelled \subseteq cancelled'
  BY DEF Permit, Refused, Register, Busy, PollAgain, SiblingWakes, DropFuture,
     CancelIoEx, ioVars
<1>2. Pending(g)' = Pending(g)
  BY <1>1 DEF Pending, Unfinished, bgVars
<1>3. \/ pc'[g] = "refused" /\ ~open /\ pc[g] = "poll" /\ fut'[g] = fut[g]
      \/ pc'[g] = "register" /\ open /\ pc[g] = "poll" /\ fut'[g] = fut[g]
      \/ pc'[g] = "idle" /\ pc[g] \in {"refused", "wait"}
      \/ pc'[g] = "cas" /\ pc[g] = "register" /\ fut'[g] = fut[g]
      \/ pc'[g] = "wait" /\ pc[g] \in {"busy", "wait"} /\ fut'[g] = fut[g]
      \/ pc'[g] = "poll" /\ pc[g] = "wait" /\ fut'[g] = fut[g]
  BY DEF Permit, Refused, Register, Busy, PollAgain, SiblingWakes, DropFuture,
     Goto, EndFuture, TypeOK
<1>4. Held(g)' /\ Word(g)'
  BY <1>1, <1>2, <1>3 DEF InOrder, Held, Word
<1>5. Match(g)'
  BY <1>1, <1>3 DEF InOrder, Match
<1>6. Copy(g)' /\ Gone(g)'
  BY <1>1, <1>3 DEF InOrder, Copy, Gone, bgVars
<1> QED
  BY <1>4, <1>5, <1>6 DEF InOrder

\* A new future that fits what is in the header.
LEMMA OrderNewFuture ==
  ASSUME TypeOK, InUse, NEW g \in Handles, InOrder(g), Fits(g),
         NEW c \in Codes, NewFuture(g, c)
  PROVE  InOrder(g)'
<1>1. /\ UNCHANGED <<lock, ioVars, open, bgVars>>
      /\ pc[g] = "idle" /\ pc'[g] = "poll" /\ fut'[g] = c
  BY DEF NewFuture, Goto, TypeOK
<1>2. open => lock[g] \in {0, c, -c}
  BY DEF Fits
<1>3. Pending(g)' = Pending(g)
  BY <1>1 DEF Pending, Unfinished, ioVars, bgVars
<1>4. Held(g)' /\ Word(g)'
  BY <1>1, <1>3 DEF InOrder, Held, Word, ioVars
<1>5. Match(g)'
  BY <1>1, <1>2 DEF Match
<1>6. Copy(g)' /\ Gone(g)'
  BY <1>1 DEF InOrder, Copy, Gone, ioVars, bgVars
<1> QED
  BY <1>4, <1>5, <1>6 DEF InOrder

\* The word was open, so nothing is pending on g.
LEMMA OrderHeaderLock ==
  ASSUME TypeOK, InUse, NEW g \in Handles, InOrder(g), HeaderLock(g)
  PROVE  InOrder(g)'
<1>1. /\ UNCHANGED <<fut, ioVars, open, bgVars>>
      /\ lock[g] = 0 /\ lock'[g] = fut[g] /\ pc[g] = "cas" /\ pc'[g] = "submit"
  BY DEF HeaderLock, Goto, TypeOK
<1>2. fut[g] \in Int /\ fut[g] > 0 /\ ~ (fut[g] < 0)
  BY <1>1, ActiveCode
<1>3. Pending(g) = {} /\ Pending(g)' = Pending(g)
  <2>1. Pending(g)' = Pending(g)
    BY <1>1 DEF Pending, Unfinished, ioVars, bgVars
  <2> QED
    BY <1>1, <2>1, PendingPositive DEF InOrder
<1>4. Held(g)' /\ Word(g)'
  BY <1>1, <1>2, <1>3 DEF Held, Word
<1>5. Match(g)' /\ Gone(g)'
  BY <1>1 DEF Match, Gone
<1>6. Copy(g)'
  BY <1>1, <1>3 DEF Copy, Pending, Unfinished, InUse, ioVars, bgVars
<1> QED
  BY <1>4, <1>5, <1>6 DEF InOrder

\* A word that is neither open nor positive is this future's completion.
LEMMA OrderHeaderLockFails ==
  ASSUME TypeOK, InUse, StrongLock, NEW g \in Handles, InOrder(g), HeaderLockFails(g)
  PROVE  InOrder(g)'
<1>1. /\ UNCHANGED <<lock, fut, ioVars, open, bgVars>>
      /\ pc[g] = "cas" /\ lock[g] # 0 /\ seen'[g] = lock[g]
      /\ pc'[g] = IF lock[g] > 0 THEN "busy" ELSE "store"
  BY DEF HeaderLockFails, StrongLock, Goto, TypeOK
<1>2. lock[g] \in {0, fut[g], -fut[g]}
  BY <1>1 DEF InOrder, Match
<1>3. ~ (lock[g] > 0) => lock[g] = -fut[g]
  BY <1>1, <1>2, ActiveCode
<1>4. Pending(g)' = Pending(g)
  BY <1>1 DEF Pending, Unfinished, ioVars, bgVars
<1>5. Held(g)' /\ Word(g)'
  BY <1>1, <1>3, <1>4 DEF InOrder, Held, Word, ioVars
<1>6. Match(g)' /\ Copy(g)' /\ Gone(g)'
  BY <1>1, <1>2 DEF InOrder, Match, Copy, Gone, ioVars, bgVars
<1> QED
  BY <1>5, <1>6 DEF InOrder

\* The completion is this future's, and nothing is pending on g.
LEMMA OrderHeaderLockStore ==
  ASSUME TypeOK, InUse, NEW g \in Handles, InOrder(g), HeaderLockStore(g)
  PROVE  InOrder(g)'
<1>1. /\ UNCHANGED <<fut, ioVars, open, bgVars>>
      /\ pc[g] = "store" /\ lock'[g] = 0
      /\ pc'[g] = IF fut[g] = -seen[g] THEN "collect" ELSE "submit"
  BY DEF HeaderLockStore, Goto, TypeOK
<1>2. lock[g] = -fut[g] /\ seen[g] = -fut[g]
  BY <1>1 DEF InOrder, Word
<1>3. lock[g] < 0 /\ fut[g] = -seen[g]
  BY <1>1, <1>2, ActiveCode
<1>4. pc'[g] = "collect" /\ ovl[g] \in Results
  BY <1>1, <1>3 DEF InOrder, Word
<1>5. Pending(g) = {} /\ Pending(g)' = Pending(g)
  <2>1. Pending(g)' = Pending(g)
    BY <1>1 DEF Pending, Unfinished, ioVars, bgVars
  <2> QED
    BY <1>3, <2>1, PendingPositive DEF InOrder
<1>6. Held(g)' /\ Word(g)'
  BY <1>1, <1>4, <1>5 DEF Held, Word, ioVars
<1>7. Match(g)' /\ Gone(g)'
  BY <1>1, <1>4 DEF Match, Gone
<1>8. Copy(g)'
  BY <1>1, <1>5 DEF Copy, Pending, Unfinished, InUse, ioVars, bgVars
<1> QED
  BY <1>6, <1>7, <1>8 DEF InOrder

\* The Idle guard becomes the one pending operation of g.
LEMMA OrderSubmit ==
  ASSUME TypeOK, InUse, NEW g \in Handles, InOrder(g), NEW o \in Ops, Submit(g, o)
  PROVE  InOrder(g)'
<1>1. /\ UNCHANGED <<lock, fut, cancelled, open, bgVars>>
      /\ pc[g] = "submit" /\ pc'[g] = "wait" /\ io[o] = "free"
      /\ io' = [io EXCEPT ![o] = "flight"] /\ on' = [on EXCEPT ![o] = g]
      /\ kind' = [kind EXCEPT ![o] = fut[g]]
  BY DEF Submit, KernelAccepts, Goto, TypeOK
<1>2. lock[g] = fut[g] /\ fut[g] \in Int /\ fut[g] > 0 /\ ~ (fut[g] < 0)
  BY <1>1, ActiveCode DEF InOrder, Word
<1>3. Pending(g) = {}
  BY <1>1 DEF InOrder, Held
<1>4. Pending(g)' = {o}
  BY <1>1, <1>3 DEF Pending, Unfinished, TypeOK, bgVars
<1>5. Held(g)' /\ Word(g)'
  BY <1>1, <1>2, <1>4 DEF Held, Word, TypeOK
<1>6. Match(g)' /\ Gone(g)'
  BY <1>1, <1>2 DEF Match, Gone
<1>7. Copy(g)'
  BY <1>1, <1>3 DEF Copy, Pending, Unfinished, InUse, TypeOK, bgVars
<1> QED
  BY <1>5, <1>6, <1>7 DEF InOrder

\* The guard's Drop, on the error path or after the result was read.
LEMMA OrderEndGuard ==
  ASSUME TypeOK, InUse, NEW g \in Handles, InOrder(g), SubmitFails(g) \/ Collect(g)
  PROVE  InOrder(g)'
<1>1. /\ UNCHANGED <<ioVars, open, bgVars>>
      /\ pc[g] \in {"submit", "collect"} /\ pc'[g] = "idle" /\ lock'[g] = 0
  BY DEF SubmitFails, Collect, Goto, EndFuture, TypeOK
<1>2. Pending(g) = {} /\ Pending(g)' = Pending(g)
  BY <1>1 DEF InOrder, Held, Pending, Unfinished, ioVars, bgVars
<1>3. Held(g)' /\ Word(g)' /\ Match(g)' /\ Gone(g)'
  BY <1>1, <1>2 DEF Held, Word, Match, Gone
<1>4. Copy(g)'
  BY <1>1, <1>2 DEF Copy, Pending, Unfinished, InUse, ioVars, bgVars
<1> QED
  BY <1>3, <1>4 DEF InOrder

\* The handle's Drop cancels if and only if something is pending.
LEMMA OrderDropHandle ==
  ASSUME TypeOK, InUse, NEW g \in Handles, InOrder(g), DropHandle(g)
  PROVE  InOrder(g)'
<1>1. /\ UNCHANGED <<lock, io, on, kind, ovl, open, bgVars>>
      /\ pc[g] = "idle" /\ pc'[g] = "gone"
      /\ lock[g] > 0 => \A o \in Ops : io[o] = "flight" /\ on[o] = g => o \in cancelled'
  BY DEF DropHandle, CancelIoEx, Goto, TypeOK
<1>2. Pending(g)' = Pending(g)
  BY <1>1 DEF Pending, Unfinished, bgVars
<1>3. Held(g)' /\ Word(g)'
  BY <1>1, <1>2 DEF InOrder, Held, Word
<1>4. Match(g)' /\ Copy(g)'
  BY <1>1 DEF InOrder, Match, Copy, bgVars
<1>5. Gone(g)'
  <2>1. ~ (lock[g] > 0) => \A o \in Ops : ~ (io[o] = "flight" /\ on[o] = g)
    BY PendingPositive DEF InOrder, Pending, Unfinished
  <2> QED
    BY <1>1, <2>1 DEF Gone
<1> QED
  BY <1>3, <1>4, <1>5 DEF InOrder

LEMMA OrderTask ==
  ASSUME TypeOK, InUse, StrongLock, NEW g \in Handles, InOrder(g), Fits(g),
         \/ Task(g) \/ SiblingWakes(g) \/ DropFuture(g) \/ DropHandle(g)
         \/ \E c \in Codes : NewFuture(g, c)
  PROVE  InOrder(g)'
BY OrderQuiet, OrderNewFuture, OrderHeaderLock, OrderHeaderLockFails,
   OrderHeaderLockStore, OrderSubmit, OrderEndGuard, OrderDropHandle DEF Task

-----------------------------------------------------------------------------
(* The kernel and the thread. *)

\* The kernel writes a final status before it queues the packet, and a status
\* that is taken stays pending until unlock.
LEMMA OrderIO ==
  ASSUME TypeOK, InUse, NEW g \in Handles, InOrder(g), NEW o \in Ops,
         (\E r \in Results : Complete(o, r)) \/ Dequeue(o)
  PROVE  InOrder(g)'
<1>1. CASE \E r \in Results : Complete(o, r)
  <2> PICK r \in Results : Complete(o, r)
    BY <1>1
  <2>1. /\ UNCHANGED <<lock, taskVars, on, kind, open, bgVars>>
        /\ io[o] = "flight" /\ io' = [io EXCEPT ![o] = "queued"]
        /\ ovl' = [ovl EXCEPT ![on[o]] = r]
        /\ \A x \in Ops \ {o} : x \in cancelled => x \in cancelled'
    BY DEF Complete
  <2>2. ovl'[g] = IF on[o] = g THEN r ELSE ovl[g]
    BY <2>1 DEF TypeOK
  <2>3. Pending(g)' = Pending(g)
    BY <2>1 DEF Pending, Unfinished, TypeOK, bgVars
  <2>4. \A x \in Pending(g) : io'[x] # "flight" => io[x] # "flight" \/ ovl'[g] \in Results
    BY <2>1, <2>2 DEF Pending, TypeOK
  <2>5. \A x \in Ops : io'[x] = "flight" /\ on'[x] = g =>
          io[x] = "flight" /\ on[x] = g /\ (x \in cancelled => x \in cancelled')
    BY <2>1 DEF TypeOK
  <2>6. bg' = "cas" /\ on'[bgop'] = g => old' = lock[g]
    BY <2>1 DEF InOrder, Copy, bgVars
  <2> QED
    BY <2>1, <2>2, <2>3, <2>4, <2>5, <2>6, OrderFrame DEF taskVars
<1>2. CASE Dequeue(o)
  <2>1. /\ UNCHANGED <<lock, taskVars, on, kind, ovl, cancelled, open>>
        /\ io[o] = "queued" /\ io' = [io EXCEPT ![o] = "taken"]
        /\ bg = "idle" /\ bg' = "load"
    BY <1>2 DEF Dequeue
  <2>2. Pending(g)' = Pending(g)
    BY <2>1 DEF Pending, Unfinished, TypeOK, InUse
  <2>3. \A x \in Pending(g) : io'[x] # "flight" => io[x] # "flight"
    BY <2>1 DEF Pending, TypeOK
  <2>4. \A x \in Ops : io'[x] = "flight" /\ on'[x] = g => io[x] = "flight" /\ on[x] = g
    BY <2>1 DEF TypeOK
  <2> QED
    BY <2>1, <2>2, <2>3, <2>4, OrderFrame DEF taskVars
<1> QED
  BY <1>1, <1>2

\* The load, or the next look at the word, finds the positive word of the
\* operation that is delivered.
LEMMA OrderLook ==
  ASSUME TypeOK, InUse, NEW g \in Handles, InOrder(g), UnlockLoad \/ UnlockRetry
  PROVE  InOrder(g)'
<1>1. /\ UNCHANGED <<lock, taskVars, ioVars, open, bgop>>
      /\ bg \in {"load", "cas"} /\ bgop \in Ops /\ io[bgop] = "taken"
      /\ old' = lock[on[bgop]] /\ bg' = IF lock[on[bgop]] > 0 THEN "cas" ELSE "drop"
  BY DEF UnlockLoad, UnlockRetry, InUse
<1>2. on[bgop] = g => lock[g] > 0
  BY <1>1, PendingPositive DEF InOrder, Pending, Unfinished
<1>3. Pending(g)' = Pending(g)
  BY <1>1, <1>2 DEF Pending, Unfinished, InUse, ioVars
<1> QED
  BY <1>1, <1>3, OrderFrame DEF taskVars, ioVars

\* The completion negates the word and ends the operation.
LEMMA OrderUnlockCAS ==
  ASSUME TypeOK, InUse, NEW g \in Handles, InOrder(g), UnlockCAS
  PROVE  InOrder(g)'
<1>1. /\ UNCHANGED <<taskVars, ioVars, open, bgop, old>>
      /\ bg = "cas" /\ bg' \in {"drop", "wake"} /\ bgop \in Ops /\ io[bgop] = "taken"
      /\ on[bgop] \in Handles /\ lock[on[bgop]] = old
      /\ lock' = [lock EXCEPT ![on[bgop]] = -old]
  BY DEF UnlockCAS, InUse
<1>2. CASE on[bgop] # g
  <2>1. lock'[g] = lock[g]
    BY <1>1, <1>2 DEF TypeOK
  <2>2. Pending(g)' = Pending(g)
    BY <1>1, <1>2 DEF Pending, Unfinished, InUse, ioVars
  <2> QED
    BY <1>1, <2>1, <2>2, OrderFrame DEF taskVars, ioVars
<1>3. CASE on[bgop] = g
  <2>1. bgop \in Pending(g)
    BY <1>1, <1>3 DEF Pending, Unfinished
  <2>2. lock[g] = old /\ old \in Int /\ old > 0 /\ lock'[g] = -old
    BY <1>1, <1>3, <2>1, PendingPositive DEF InOrder, TypeOK
  <2>3. lock'[g] < 0 /\ ~ (lock'[g] > 0)
    BY <2>2
  <2>4. pc[g] \notin {"submit", "collect"} /\ ovl[g] \in Results
    BY <1>1, <2>1 DEF InOrder, Held
  <2>5. Pending(g)' = {}
    BY <1>1, <2>1 DEF InOrder, Held, Pending, Unfinished, InUse, ioVars
  <2>6. pc[g] # "store"
    <3>1. pc[g] = "store" => lock[g] = -fut[g] /\ -fut[g] < 0
      BY ActiveCode DEF InOrder, Word
    <3> QED
      BY <2>2, <3>1
  <2>7. Held(g)' /\ Word(g)'
    BY <1>1, <2>3, <2>4, <2>5, <2>6 DEF Held, Word, taskVars, ioVars
  <2>8. Match(g)'
    <3>1. ASSUME pc[g] \notin {"idle", "gone"}, lock[g] \in {0, fut[g], -fut[g]}
          PROVE  lock'[g] \in {0, fut[g], -fut[g]}
      BY <2>2, <3>1, ActiveCode
    <3> QED
      BY <1>1, <3>1 DEF InOrder, Match, taskVars
  <2>9. Copy(g)' /\ Gone(g)'
    BY <1>1 DEF InOrder, Copy, Gone, taskVars, ioVars
  <2> QED
    BY <2>7, <2>8, <2>9 DEF InOrder
<1> QED
  BY <1>2, <1>3

\* The other steps of the thread touch neither the word nor a pending operation.
LEMMA OrderThread ==
  ASSUME TypeOK, InUse, NEW g \in Handles, InOrder(g), Close \/ Wake \/ DropStatus
  PROVE  InOrder(g)'
<1>1. CASE Close \/ Wake
  <2>1. /\ UNCHANGED <<lock, pc, fut, seen, ioVars>> /\ (open' => open)
        /\ bg \notin {"load", "cas"} /\ bg' \notin {"load", "cas"}
    BY <1>1 DEF Close, Wake, taskVars, bgVars
  <2>2. Pending(g)' = Pending(g)
    BY <2>1 DEF Pending, Unfinished, ioVars
  <2>3. pc[g] = "refused" => ~open
    BY DEF InOrder, Match
  <2> QED
    BY <2>1, <2>2, <2>3, OrderFrame DEF ioVars, InOrder, Held, Word, Match, Copy, Gone
<1>2. CASE DropStatus
  <2>1. /\ UNCHANGED <<lock, taskVars, ovl, open>> /\ bg = "drop" /\ bg' = "idle"
        /\ bgop \in Ops /\ io[bgop] = "taken" /\ io' = [io EXCEPT ![bgop] = "free"]
        /\ on' = [on EXCEPT ![bgop] = "none"] /\ kind' = [kind EXCEPT ![bgop] = 0]
        /\ cancelled' = cancelled \ {bgop}
    BY <1>2 DEF DropStatus, InUse
  <2>2. Pending(g)' = Pending(g)
    BY <2>1 DEF Pending, Unfinished, TypeOK
  <2>3. \A x \in Pending(g) : kind'[x] = kind[x] /\ io'[x] = io[x]
    BY <2>1 DEF Pending, Unfinished, TypeOK
  <2>4. \A x \in Ops : io'[x] = "flight" /\ on'[x] = g =>
          io[x] = "flight" /\ on[x] = g /\ (x \in cancelled => x \in cancelled')
    BY <2>1 DEF TypeOK
  <2> QED
    BY <2>1, <2>2, <2>3, <2>4, OrderFrame DEF taskVars
<1> QED
  BY <1>1, <1>2

\* The header of g stays in order, whatever happens on the other handles.
LEMMA OrderNext ==
  ASSUME TypeOK, InUse, StrongLock, NEW g \in Handles, InOrder(g), Fits(g), [Next]_vars
  PROVE  InOrder(g)'
<1>1. CASE UNCHANGED vars
  BY <1>1 DEF InOrder, Held, Word, Match, Copy, Gone, Pending, Unfinished,
     vars, taskVars, ioVars, bgVars
<1>2. ASSUME NEW h \in Handles,
             \/ Task(h) \/ SiblingWakes(h) \/ DropFuture(h) \/ DropHandle(h)
             \/ \E c \in Codes : NewFuture(h, c)
      PROVE  InOrder(g)'
  BY <1>2, OrderTask, OrderElsewhere
<1>3. CASE (\E o \in Ops, r \in Results : Complete(o, r)) \/ Close \/ Delivery
  BY <1>3, OrderIO, OrderLook, OrderUnlockCAS, OrderThread DEF Delivery
<1> QED
  BY <1>1, <1>2, <1>3 DEF Next

LEMMA InvNext ==
  ASSUME Inv, StrongLock, \A g \in Handles : Fits(g), [Next]_vars
  PROVE  Inv'
BY TypeNext, OrderNext DEF Inv

-----------------------------------------------------------------------------
(* The callers of Regular.  One kind of operation always fits; without     *)
(* dropped futures every kind does, as nothing is left behind.             *)

\* Without dropped futures the header of an idle handle is open, unless the
\* port closed before a result was collected.
Settled ==
  ~ Cancels => \A h \in Handles : pc[h] = "idle" /\ open => lock[h] = 0

LEMMA SettledNext ==
  ASSUME Inv, Settled, [Next]_vars
  PROVE  Settled'
<1> SUFFICES ASSUME ~ Cancels
             PROVE  \A h \in Handles : pc'[h] = "idle" /\ open' => lock'[h] = 0
  BY DEF Settled
<1>s. \A h \in Handles : pc[h] = "idle" /\ open => lock[h] = 0
  BY DEF Settled
<1>t. /\ lock \in [Handles -> LockWords] /\ LockWords \subseteq Int
      /\ pc \in [Handles -> {"idle", "poll", "refused", "register", "cas", "store",
                             "busy", "submit", "collect", "wait", "gone"}]
      /\ \A h \in Handles : pc[h] = "refused" => ~ open
  BY LockWordFacts DEF Inv, InOrder, TypeOK, Match
<1>1. ASSUME NEW g \in Handles,
             \/ Task(g) \/ SiblingWakes(g) \/ DropFuture(g) \/ DropHandle(g)
             \/ \E c \in Codes : NewFuture(g, c)
      PROVE  \A h \in Handles : pc'[h] = "idle" /\ open' => lock'[h] = 0
  BY <1>s, <1>t, <1>1 DEF Task, Permit, Refused, Register, HeaderLock, HeaderLockFails,
     HeaderLockStore, Busy, Submit, SubmitFails, Collect, PollAgain, SiblingWakes,
     DropFuture, DropHandle, NewFuture, Goto, EndFuture
<1>2. CASE UnlockCAS
  <2>1. bgop \in Ops /\ on[bgop] \in Handles /\ lock[on[bgop]] # 0
    BY <1>2, <1>t DEF UnlockCAS, Inv, InUse
  <2> QED
    BY <1>s, <1>t, <1>2, <2>1 DEF UnlockCAS, taskVars
<1>3. CASE \/ \E o \in Ops, r \in Results : Complete(o, r)
           \/ Close \/ (\E o \in Ops : Dequeue(o))
           \/ UnlockLoad \/ UnlockRetry \/ Wake \/ DropStatus \/ UNCHANGED vars
  <2>1. lock' = lock /\ pc' = pc /\ (open' => open)
    BY <1>3 DEF Complete, Close, Dequeue, UnlockLoad, UnlockRetry, Wake, DropStatus,
       vars, taskVars
  <2> QED
    BY <1>s, <2>1
<1> QED
  BY <1>1, <1>2, <1>3 DEF Next, Delivery

LEMMA RegularFits ==
  ASSUME Regular, Inv, Settled, NEW h \in Handles
  PROVE  Fits(h)
<1> SUFFICES ASSUME NEW c \in Codes, NewFuture(h, c), open
             PROVE  lock[h] \in {0, c, -c}
  BY DEF Fits
<1>1. CASE ~ Cancels
  BY <1>1 DEF Settled, NewFuture
<1>2. CASE Cancels
  <2>1. lock[h] \in LockWords /\ lock[h] \in Int /\ c \in Int
    BY LockWordFacts DEF Inv, TypeOK
  <2>2. CASE lock[h] > 0
    BY <1>2, <2>1, <2>2, LockWordFacts DEF Regular
  <2>3. CASE lock[h] < 0
    <3>1. -lock[h] = c
      BY <1>2, <2>1, <2>3, LockWordFacts DEF Regular
    <3> QED
      BY <2>1, <3>1
  <2> QED
    BY <2>1, <2>2, <2>3
<1> QED
  BY <1>1, <1>2, HandleAssumption

LEMMA InvHolds == ASSUME Regular PROVE Spec => []Inv /\ []Settled
<1>1. Init => Settled
  BY DEF Init, Settled
<1>2. Inv /\ Settled /\ [Next]_vars => Inv' /\ Settled'
  BY RegularFits, InvNext, SettledNext DEF Regular
<1> QED
  BY <1>1, <1>2, InvInit, PTL DEF Spec

\* Under Regular no two operations ever share a header: the README's "one
\* pending I/O operation at a time", for any number of handles and operations.
THEOREM OnePendingHolds == ASSUME Regular PROVE Spec => []OnePending
<1>1. Inv => OnePending
  BY DEF Inv, InOrder, Held, OnePending, Pending
<1> QED
  BY <1>1, InvHolds, PTL

\* Under Regular the guard's owner never shares buffers and OVERLAPPED with
\* the kernel or with a completion that has not unlocked the header.
THEOREM GuardExclusiveHolds == ASSUME Regular PROVE Spec => []GuardExclusive
<1>1. Inv => GuardExclusive
  BY DEF Inv, InOrder, Held, GuardExclusive, Pending
<1> QED
  BY <1>1, InvHolds, PTL

\* Under Regular the lock word means what the comment on Header::lock says.
THEOREM LockWordMeaningHolds == ASSUME Regular PROVE Spec => []LockWordMeaning
<1>1. Inv => LockWordMeaning
  BY DEF Inv, InOrder, Held, Word, LockWordMeaning, Pending
<1> QED
  BY <1>1, InvHolds, PTL

\* Under Regular a Pending guard always reads a final status.
THEOREM CollectsFinishedHolds == ASSUME Regular PROVE Spec => []CollectsFinished
<1>1. Inv => CollectsFinished
  BY DEF Inv, InOrder, Word, CollectsFinished
<1> QED
  BY <1>1, InvHolds, PTL

\* Under Regular a dropped handle has cancelled whatever it left in the kernel.
THEOREM DropCancelsHolds == ASSUME Regular PROVE Spec => []DropCancels
<1>1. Inv => DropCancels
  BY DEF Inv, InOrder, InUse, Gone, DropCancels
<1> QED
  BY <1>1, InvHolds, PTL

-----------------------------------------------------------------------------
(* Refinement.  Under Regular the interleaved steps of Handle implement    *)
(* OverlappedResource: every step changes the phase of at most one handle, *)
(* and only the way the header's comment allows.                           *)

\* A handle whose operations, word and guard stay the same keeps its phase.
LEMMA PhaseKept ==
  ASSUME NEW h \in Handles, Pending(h)' = Pending(h), lock'[h] = lock[h],
         pc'[h] = "collect" <=> pc[h] = "collect",
         pc[h] = "collect" => fut'[h] = fut[h]
  PROVE  PhaseOf(h)' = PhaseOf(h)
BY DEF PhaseOf

\* Phases are functions: a step keeps all of them, or all but one.
LEMMA PhaseSame ==
  ASSUME \A h \in Handles : PhaseOf(h)' = PhaseOf(h)
  PROVE  Phase' = Phase
BY DEF Phase

LEMMA PhaseMoves ==
  ASSUME NEW h \in Handles, \A g \in Handles \ {h} : PhaseOf(g)' = PhaseOf(g)
  PROVE  Phase' = [Phase EXCEPT ![h] = PhaseOf(h)']
BY DEF Phase

-----------------------------------------------------------------------------
(* Which steps change what Pending, the lock word and the guard say. *)

LEMMA PhaseQuiet ==
  ASSUME Inv, NEW h \in Handles,
         \/ Permit(h) \/ Refused(h) \/ Register(h) \/ Busy(h) \/ PollAgain(h)
         \/ SiblingWakes(h) \/ DropFuture(h) \/ HeaderLockFails(h)
         \/ DropHandle(h) \/ \E c \in Codes : NewFuture(h, c)
  PROVE  Phase' = Phase
<1>1. /\ io' = io /\ on' = on /\ bg' = bg /\ lock' = lock
      /\ \A g \in Handles : /\ pc'[g] = "collect" <=> pc[g] = "collect"
                            /\ pc[g] = "collect" => fut'[g] = fut[g]
  BY DEF Inv, TypeOK, Permit, Refused, Register, Busy, PollAgain, SiblingWakes,
     DropFuture, HeaderLockFails, DropHandle, NewFuture, Goto, EndFuture,
     ioVars, bgVars
<1>2. \A g : Pending(g)' = Pending(g)
  BY <1>1 DEF Pending, Unfinished
<1> QED
  BY <1>1, <1>2, PhaseKept, PhaseSame

\* An open word is locked, or the guard of a failed submission opens it again:
\* nothing is pending, so the resource is open on both sides.
LEMMA PhaseIdleGuard ==
  ASSUME Inv, Inv', NEW h \in Handles, HeaderLock(h) \/ SubmitFails(h)
  PROVE  Phase' = Phase
<1>1. /\ io' = io /\ on' = on /\ bg' = bg
      /\ pc[h] # "collect" /\ pc'[h] # "collect"
      /\ \A g \in Handles \ {h} : lock'[g] = lock[g] /\ pc'[g] = pc[g] /\ fut'[g] = fut[g]
  BY DEF Inv, TypeOK, HeaderLock, SubmitFails, Goto, EndFuture, ioVars, bgVars
<1>2. \A g : Pending(g)' = Pending(g)
  BY <1>1 DEF Pending, Unfinished
<1>3. Pending(h) = {} /\ ~ (lock[h] < 0) /\ ~ (lock'[h] < 0)
  <2>1. fut[h] \in Int /\ fut[h] > 0
    BY ActiveCode DEF Inv, HeaderLock, SubmitFails
  <2>2. ~ (lock[h] < 0) /\ ~ (lock'[h] < 0)
    BY <2>1 DEF Inv, InOrder, TypeOK, Word, HeaderLock, SubmitFails
  <2>3. CASE HeaderLock(h)
    BY <2>2, <2>3, UnfinishedPositive DEF HeaderLock, Pending
  <2>4. CASE SubmitFails(h)
    BY <2>2, <2>4 DEF Inv, InOrder, Held, SubmitFails, Pending
  <2> QED
    BY <2>3, <2>4
<1>4. PhaseOf(h)' = PhaseOf(h)
  BY <1>1, <1>2, <1>3 DEF PhaseOf
<1> QED
  BY <1>1, <1>2, <1>4, PhaseKept, PhaseSame

\* A completion becomes the Pending guard of its own future.
LEMMA PhaseStore ==
  ASSUME Inv, Inv', NEW h \in Handles, HeaderLockStore(h)
  PROVE  Phase' = Phase
<1>1. /\ io' = io /\ on' = on /\ bg' = bg /\ fut' = fut /\ lock'[h] = 0
      /\ \A g \in Handles \ {h} : lock'[g] = lock[g] /\ pc'[g] = pc[g]
  BY DEF Inv, TypeOK, HeaderLockStore, Goto, ioVars, bgVars
<1>2. \A g : Pending(g)' = Pending(g)
  BY <1>1 DEF Pending, Unfinished
<1>3. lock[h] = -fut[h] /\ seen[h] = -fut[h] /\ -fut[h] < 0 /\ -(-fut[h]) = fut[h]
  BY ActiveCode DEF Inv, InOrder, Word, HeaderLockStore
<1>4. pc'[h] = "collect"
  BY <1>3 DEF Inv, TypeOK, HeaderLockStore, Goto
<1>5. Pending(h) = {}
  BY <1>3, UnfinishedPositive DEF Pending
<1>6. PhaseOf(h)' = PhaseOf(h)
  BY <1>1, <1>2, <1>3, <1>4, <1>5 DEF PhaseOf
<1> QED
  BY <1>1, <1>2, <1>6, PhaseKept, PhaseSame

LEMMA PhaseSubmit ==
  ASSUME Inv, Inv', NEW h \in Handles, NEW o \in Ops, Submit(h, o)
  PROVE  Resource!Submit(h, fut[h]) /\ fut[h] \in Codes
<1>1. fut[h] \in Codes /\ fut[h] \in Int /\ fut[h] > 0
  BY ActiveCode DEF Inv, Submit
<1>2. lock[h] = fut[h] /\ lock' = lock
  BY DEF Inv, InOrder, Word, Submit
<1>3. Pending(h) = {}
  BY DEF Inv, InOrder, Held, Submit, Pending
<1>4. o \in Pending(h)'
  BY DEF Inv, TypeOK, Submit, KernelAccepts, Pending, Unfinished
<1>5. PhaseOf(h) = <<"open", 0>> /\ PhaseOf(h)' = <<"submitted", fut[h]>>
  <2>1. Pending(h)' # {}
    BY <1>4
  <2>2. pc[h] # "collect"
    BY DEF Submit
  <2> QED
    BY <1>1, <1>2, <1>3, <2>1, <2>2 DEF PhaseOf
<1>6. ASSUME NEW g \in Handles \ {h} PROVE PhaseOf(g)' = PhaseOf(g)
  <2>1. Pending(g)' = Pending(g)
    BY <1>6 DEF Inv, TypeOK, Submit, KernelAccepts, Pending, Unfinished, bgVars
  <2> QED
    BY <1>2, <1>6, <2>1, PhaseKept DEF Inv, TypeOK, Submit, Goto
<1> QED
  BY <1>1, <1>5, <1>6, PhaseMoves DEF Phase, Resource!Submit, Resource!Move

LEMMA PhaseTake ==
  ASSUME Inv, Inv', NEW h \in Handles, Collect(h)
  PROVE  Resource!Take(h, fut[h]) /\ fut[h] \in Codes
<1>1. fut[h] \in Codes
  BY ActiveCode DEF Inv, Collect
<1>2. /\ io' = io /\ on' = on /\ bg' = bg /\ lock[h] = 0 /\ lock'[h] = 0
      /\ pc[h] = "collect" /\ pc'[h] = "idle"
      /\ \A g \in Handles \ {h} : lock'[g] = lock[g] /\ pc'[g] = pc[g] /\ fut'[g] = fut[g]
  BY DEF Inv, InOrder, TypeOK, Word, Collect, Goto, EndFuture, ioVars, bgVars
<1>3. \A g : Pending(g)' = Pending(g)
  BY <1>2 DEF Pending, Unfinished
<1>4. Pending(h) = {}
  BY DEF Inv, InOrder, Held, Collect, Pending
<1>5. PhaseOf(h) = <<"completed", fut[h]>> /\ PhaseOf(h)' = <<"open", 0>>
  BY <1>2, <1>3, <1>4 DEF PhaseOf
<1>6. ASSUME NEW g \in Handles \ {h} PROVE PhaseOf(g)' = PhaseOf(g)
  BY <1>2, <1>3, <1>6, PhaseKept
<1> QED
  BY <1>1, <1>5, <1>6, PhaseMoves DEF Phase, Resource!Take, Resource!Move

\* The kernel and the thread's other steps leave an unfinished operation
\* unfinished and touch no other.
LEMMA PhaseDelivery ==
  ASSUME Inv,
         \/ \E o \in Ops, r \in Results : Complete(o, r)
         \/ \E o \in Ops : Dequeue(o)
         \/ Close \/ UnlockLoad \/ UnlockRetry \/ Wake \/ DropStatus
  PROVE  Phase' = Phase
<1>1. lock' = lock /\ pc' = pc /\ fut' = fut
  BY DEF Complete, Dequeue, Close, UnlockLoad, UnlockRetry, Wake, DropStatus,
     taskVars
<1>2. ASSUME NEW g \in Handles PROVE Pending(g)' = Pending(g)
  <2> USE DEF Inv, InOrder, TypeOK, InUse, Pending, Unfinished, ioVars, bgVars
  <2>1. CASE \E o \in Ops, r \in Results : Complete(o, r)
    BY <2>1 DEF Complete
  <2>2. CASE \E o \in Ops : Dequeue(o)
    BY <2>2 DEF Dequeue
  <2>3. CASE Close \/ Wake
    BY <2>3 DEF Close, Wake
  <2>4. CASE UnlockLoad
    <3>1. lock[on[bgop]] > 0
      BY <2>4, LockWordFacts DEF UnlockLoad, InOrder, Held
    <3> QED
      BY <2>4, <3>1 DEF UnlockLoad
  <2>5. CASE UnlockRetry
    BY <2>5 DEF UnlockRetry, InOrder, Copy
  <2>6. CASE DropStatus
    BY <2>6 DEF DropStatus
  <2> QED
    BY <2>1, <2>2, <2>3, <2>4, <2>5, <2>6
<1> QED
  BY <1>1, <1>2, PhaseKept, PhaseSame

LEMMA PhaseFinish ==
  ASSUME Inv, Inv', UnlockCAS
  PROVE  /\ on[bgop] \in Handles /\ old \in Codes
         /\ Resource!Finish(on[bgop], old)
<1>0. PICK h \in Handles : h = on[bgop]
  BY DEF Inv, InUse, UnlockCAS
<1>1. /\ bgop \in Ops /\ bgop \in Pending(h)
      /\ lock[h] = old /\ old \in Codes /\ old \in Int /\ old > 0
  BY <1>0, LockWordFacts DEF Inv, InOrder, TypeOK, InUse, Held, Copy, UnlockCAS, Pending, Unfinished
<1>2. lock'[h] = -old /\ -old < 0 /\ -(-old) = old
  <2>1. lock'[h] = -old
    BY <1>0, <1>1 DEF Inv, TypeOK, UnlockCAS
  <2> QED
    BY <1>1, <2>1
<1>3. Pending(h)' = {}
  <2>1. \A o \in Pending(h) : o = bgop
    BY <1>0, <1>1 DEF Inv, InOrder, Held, Pending
  <2> QED
    BY <1>1, <2>1 DEF Inv, InUse, UnlockCAS, Pending, Unfinished, ioVars
<1>4. PhaseOf(h) = <<"submitted", old>> /\ PhaseOf(h)' = <<"completed", old>>
  BY <1>1, <1>2, <1>3 DEF PhaseOf
<1>5. ASSUME NEW g \in Handles \ {h} PROVE PhaseOf(g)' = PhaseOf(g)
  <2>1. Pending(g)' = Pending(g)
    BY <1>0, <1>1, <1>5 DEF Inv, InOrder, TypeOK, InUse, UnlockCAS, Pending, Unfinished, ioVars
  <2> QED
    BY <1>0, <1>5, <2>1, PhaseKept DEF Inv, TypeOK, UnlockCAS, taskVars
<1> QED
  BY <1>0, <1>1, <1>4, <1>5, PhaseMoves DEF Phase, Resource!Finish, Resource!Move

-----------------------------------------------------------------------------
LEMMA PhaseStep ==
  ASSUME Inv, Inv', [Next]_vars
  PROVE  [Resource!Next]_Phase
<1>1. CASE UNCHANGED vars
  <2>1. \A g : Pending(g)' = Pending(g)
    BY <1>1 DEF vars, ioVars, bgVars, Pending, Unfinished
  <2>2. Phase' = Phase
    BY <1>1, <2>1, PhaseKept, PhaseSame DEF vars, taskVars
  <2> QED
    BY <2>2
<1>2. ASSUME NEW h \in Handles, NEW o \in Ops, Submit(h, o)
      PROVE  Resource!Next
  BY <1>2, PhaseSubmit DEF Resource!Next
<1>3. ASSUME NEW h \in Handles, Collect(h) PROVE Resource!Next
  BY <1>3, PhaseTake DEF Resource!Next
<1>4. ASSUME UnlockCAS PROVE Resource!Next
  BY <1>4, PhaseFinish DEF Resource!Next
<1>5. CASE Next
  BY <1>2, <1>3, <1>4, <1>5, PhaseQuiet, PhaseIdleGuard, PhaseStore,
     PhaseDelivery
     DEF Next, Task, Delivery
<1> QED
  BY <1>1, <1>5

LEMMA PhaseInit == Init => Resource!Init
<1> SUFFICES ASSUME Init PROVE Resource!Init
  OBVIOUS
<1>1. \A h \in Handles : PhaseOf(h) = <<"open", 0>>
  BY DEF Init, PhaseOf, Pending, Unfinished
<1> QED
  BY <1>1 DEF Resource!Init, Phase

\* Under Regular, task, kernel and background thread together implement the
\* abstract resource: an operation is submitted only when the resource is
\* open, its completion arrives once, under its own code, and is taken before
\* the next submission.
THEOREM Refinement == ASSUME Regular PROVE Spec => ImplementsResource
<1>1. Init => Resource!Init
  BY PhaseInit
<1>2. Inv /\ Inv' /\ [Next]_vars => [Resource!Next]_Phase
  BY PhaseStep
<1> QED
  BY <1>1, <1>2, InvHolds, PTL DEF Spec, ImplementsResource, Resource!Spec
=============================================================================
