---------------------------- MODULE DriverProofs ----------------------------
(***************************************************************************)
(* Theorems about Driver.  Its tasks and its thread use the port the way   *)
(* CompletionPort says, so what CompletionPortProofs proves of the port    *)
(* holds of the whole; from that, the port is to the handles what Handle   *)
(* takes it to be; and the port is closed by its last owner, with nothing  *)
(* outstanding.  The rest is about the futures: each collects its own      *)
(* result, and none is stranded by the shutdown.                           *)
(***************************************************************************)
EXTENDS Driver, FiniteSetTheorems, TLAPS

\* The proofs about the port, with the mapping of Driver's Port.
PortProofs == INSTANCE CompletionPortProofs WITH
                Clients <- Handles, MaxPosts <- 0,
                bg <- thread, posts <- 0, stray <- 0

\* The proofs about the handles, with the mapping of Driver's Handle.
HandleProofs == INSTANCE HandleProofs WITH
                  Cancels <- TRUE, Siblings <- FALSE, open <- pending >= 0

-----------------------------------------------------------------------------
(* Every step is a step of the port, or leaves the port alone. *)

LEMMA PortQuiet ==
  ASSUME UNCHANGED io, UNCHANGED portVars
  PROVE  UNCHANGED Port!vars
BY DEF portVars, Port!vars

LEMMA PortOwnership ==
  ASSUME NEW h \in Handles,
         \/ Register(h) \/ \E d \in Handles : Duplicate(h, d)
         \/ DropHandle(h) \/ \E c \in Codes : NewFuture(h, c)
         \/ DropFuture(h) \/ LockStep(h)
  PROVE  UNCHANGED Port!vars
<1>1. UNCHANGED io /\ UNCHANGED portVars
  BY DEF Register, Duplicate, DropHandle, NewFuture, DropFuture, LockStep,
     Handle!DropHandle, Handle!NewFuture, Handle!DropFuture, Handle!PollAgain,
     Handle!Register, Handle!HeaderLock, Handle!HeaderLockFails,
     Handle!HeaderLockStore, Handle!ioVars
<1> QED
  BY <1>1, PortQuiet

LEMMA PortLetGo ==
  ASSUME DropArc("user") \/ ThreadReturns \/ Unlock
  PROVE  UNCHANGED Port!vars
<1>1. UNCHANGED io /\ UNCHANGED portVars
  BY DEF DropArc, ThreadReturns, Unlock, Handle!UnlockLoad, Handle!UnlockCAS,
     Handle!UnlockRetry, Handle!Wake, Handle!ioVars
<1> QED
  BY <1>1, PortQuiet

LEMMA PortNext ==
  ASSUME [Next]_vars
  PROVE  [Port!Next]_(Port!vars)
<1>1. ASSUME NEW h \in Handles, Poll(h)
      PROVE  [Port!Next]_(Port!vars)
  BY <1>1, PortOwnership DEF Poll, Permit, Refused, EndGuard, Submit, Port!Next
<1>2. ASSUME NEW o \in Ops, Complete(o)
      PROVE  [Port!Next]_(Port!vars)
  BY <1>2 DEF Complete, Port!Next
<1>3. CASE Thread
  BY <1>3, PortLetGo DEF Thread, Dequeue, DequeueShutdown, Account, Close,
     DropStatus, Port!Next, Port!Background
<1>4. CASE Shutdown
  BY <1>4 DEF Shutdown, Port!Next
<1>5. CASE UNCHANGED vars
  BY <1>5, PortQuiet DEF vars
<1> QED
  BY <1>1, <1>2, <1>3, <1>4, <1>5, PortOwnership, PortLetGo DEF Next

-----------------------------------------------------------------------------
(* The port's invariant. *)

LEMMA PortAssumed == PortProofs!PortAssumption
BY DriverAssumption, Zenon DEF PortProofs!PortAssumption,
   IsFiniteSet, Cardinality, PortProofs!IsFiniteSet, PortProofs!Cardinality

\* Port and PortProofs are the same specification.
LEMMA SamePort ==
  /\ Port!Init => PortProofs!Init
  /\ [Port!Next]_(Port!vars) => [PortProofs!Next]_(PortProofs!vars)
<1>1. Port!Init => PortProofs!Init
  BY Zenon DEF Port!Init, PortProofs!Init
<1>2. Port!Next => PortProofs!Next
  BY Zenon DEF
     Port!Next, Port!Background, Port!Permit, Port!UndoPermit, Port!DropPermit,
     Port!Submit, Port!Complete, Port!Shutdown, Port!Post, Port!Poll,
     Port!AccountStatus, Port!Deliver, Port!AccountShutdown, Port!AccountReserved,
     Port!PollDuringShutdown, Port!PollDuringShutdownReserved, Port!Release,
     Port!GetQueuedCompletionStatus, Port!DropStatus, Port!Wrap, Port!AsUsize,
     Port!BackgroundVars, Port!Counters, Port!Messages,
     PortProofs!Next, PortProofs!Background, PortProofs!Permit,
     PortProofs!UndoPermit, PortProofs!DropPermit, PortProofs!Submit,
     PortProofs!Complete, PortProofs!Shutdown, PortProofs!Post, PortProofs!Poll,
     PortProofs!AccountStatus, PortProofs!Deliver, PortProofs!AccountShutdown,
     PortProofs!AccountReserved, PortProofs!PollDuringShutdown,
     PortProofs!PollDuringShutdownReserved, PortProofs!Release,
     PortProofs!GetQueuedCompletionStatus, PortProofs!DropStatus,
     PortProofs!Wrap, PortProofs!AsUsize, PortProofs!BackgroundVars,
     PortProofs!Counters, PortProofs!Messages
<1>3. Port!vars = PortProofs!vars
  BY DEF Port!vars, PortProofs!vars
<1> QED
  BY <1>1, <1>2, <1>3 DEF Port!vars, PortProofs!vars

LEMMA PortInvariant == Spec => []PortProofs!PInv
<1>1. Init => PortProofs!PInv
  BY PortAssumed, SamePort, PortProofs!PInvInit DEF Init
<1>2. PortProofs!PInv /\ [Next]_vars => PortProofs!PInv'
  BY PortAssumed, PortNext, SamePort, PortProofs!PInvNext
<1> QED
  BY <1>1, <1>2, PTL DEF Spec

\* Only poll's Shutdown takes the counter across zero, whatever the numbers of
\* tasks and operations: what `open` means to a handle is what it means to the
\* port, and no step of one waits for the other to agree.
THEOREM SignKeptHolds == Spec => []SignKept
<1>1. PortProofs!PInv => SignKept
  <2> SUFFICES ASSUME PortProofs!PInv
               PROVE  SignKept
    OBVIOUS
  <2>1. \A n : Port!Wrap(n) = PortProofs!Wrap(n)
    BY DEF Port!Wrap, PortProofs!Wrap
  <2> QED
    BY <2>1, PortAssumed, PortProofs!CounterSide DEF SignKept
<1> QED
  BY <1>1, PortInvariant, PTL

-----------------------------------------------------------------------------
(* Every step is a step of the handles, or leaves them alone. *)

\* The handles stand still as long as the counter stays on its side of zero.
LEMMA HandleQuiet ==
  ASSUME UNCHANGED io, UNCHANGED handleVars, pending' >= 0 <=> pending >= 0
  PROVE  UNCHANGED Handle!vars
BY DEF handleVars, Handle!vars, Handle!taskVars, Handle!ioVars, Handle!bgVars

\* Dequeuing a shutdown message touches no operation.
LEMMA DequeueQuiet ==
  ASSUME PortProofs!PInv, DequeueShutdown
  PROVE  UNCHANGED io /\ UNCHANGED pending
<1>1. io \in [Ops -> {"free", "flight", "queued", "taken"}]
  BY DEF PortProofs!PInv, PortProofs!TypeOK
<1>2. CASE Port!Poll
  BY <1>1, <1>2 DEF DequeueShutdown, Port!Poll, Port!GetQueuedCompletionStatus
<1>3. CASE Port!PollDuringShutdownReserved
  BY <1>3 DEF Port!PollDuringShutdownReserved
<1> QED
  BY <1>2, <1>3 DEF DequeueShutdown

LEMMA AccountQuiet ==
  ASSUME PortProofs!PInv, SignKept, Account
  PROVE  UNCHANGED io /\ (pending' >= 0 <=> pending >= 0)
<1>1. thread = "account" /\ got \in Ops \cup {"message"} /\ pending' = Port!Wrap(pending - 1)
  BY DEF Account, Port!AccountStatus
<1>2. got # "shutdown"
  BY <1>1, DriverAssumption
<1> QED
  BY <1>1, <1>2 DEF SignKept, Account

LEMMA HandleNext ==
  ASSUME PortProofs!PInv, SignKept, [Next]_vars
  PROVE  [Handle!Next]_(Handle!vars)
<1>1. ASSUME NEW h \in Handles,
             Register(h) \/ \E d \in Handles : Duplicate(h, d)
      PROVE  UNCHANGED Handle!vars
  <2>1. UNCHANGED io /\ UNCHANGED handleVars /\ UNCHANGED pending
    BY <1>1 DEF Register, Duplicate, portVars
  <2> QED
    BY <2>1, HandleQuiet
<1>2. ASSUME NEW h \in Handles,
             DropHandle(h) \/ (\E c \in Codes : NewFuture(h, c)) \/ DropFuture(h)
      PROVE  Handle!Next
  BY <1>2 DEF DropHandle, NewFuture, DropFuture, Handle!Next
<1>3. ASSUME NEW h \in Handles, Poll(h)
      PROVE  Handle!Next
  BY <1>3 DEF Poll, LockStep, Permit, Refused, EndGuard, Submit, Handle!Task, Handle!Next
<1>4. ASSUME NEW o \in Ops, Complete(o)
      PROVE  Handle!Next
  <2>1. Outcomes \subseteq Handle!Results
    BY DriverAssumption DEF Handle!Results
  <2> QED
    BY <1>4, <2>1 DEF Complete, Handle!Next
<1>5. CASE Shutdown \/ DropArc("user") \/ ThreadReturns \/ Account \/ DequeueShutdown
  <2>1. UNCHANGED io /\ UNCHANGED handleVars /\ (pending' >= 0 <=> pending >= 0)
    BY <1>5, AccountQuiet, DequeueQuiet DEF Shutdown, DropArc, ThreadReturns, Account,
       DequeueShutdown, Port!Shutdown, portVars
  <2> QED
    BY <2>1, HandleQuiet
<1>6. CASE Dequeue \/ Close \/ Unlock \/ DropStatus
  BY <1>6 DEF Dequeue, Close, Unlock, DropStatus, Handle!Delivery, Handle!Next
<1>7. CASE UNCHANGED vars
  <2>1. UNCHANGED io /\ UNCHANGED handleVars /\ UNCHANGED pending
    BY <1>7 DEF vars, portVars
  <2> QED
    BY <2>1, HandleQuiet
<1> QED
  BY <1>1, <1>2, <1>3, <1>4, <1>5, <1>6, <1>7 DEF Next, Thread

\* The composition is a behaviour of Handle: to the handles the port's counter
\* is a flag that is lowered once, when poll returns Shutdown.
THEOREM ImplementsHandleHolds == Spec => ImplementsHandle
<1>1. Init => Handle!Init
  BY DEF Init
<1>2. PortProofs!PInv /\ SignKept /\ [Next]_vars => [Handle!Next]_(Handle!vars)
  BY HandleNext
<1> QED
  BY <1>1, <1>2, PortInvariant, SignKeptHolds, PTL
     DEF Spec, ImplementsHandle, Handle!Spec

-----------------------------------------------------------------------------
(* Who owns the port. *)

Labels == {"idle", "poll", "refused", "register", "cas", "store", "busy", "submit",
           "collect", "wait", "gone"}

\* Inner is held once by setup's Arc, as long as that has an owner, and once by
\* every wrapper; and the thread lets go of it only when it has returned.
Owned ==
  /\ pc \in [Handles -> Labels]
  /\ wrapped \subseteq Handles /\ owners \subseteq {"user", "thread"}
  /\ \A h \in Handles \ wrapped : pc[h] # "gone"
  /\ inner = (IF owners = {} THEN 0 ELSE 1) + Cardinality(Live)
  /\ "thread" \notin owners => thread \in {"done", "failed", "panicked"}

LEMMA LiveFinite ==
  ASSUME wrapped \subseteq Handles
  PROVE  IsFiniteSet(Live) /\ Cardinality(Live) \in Nat /\ (Cardinality(Live) = 0 <=> Live = {})
<1>1. Live \subseteq Handles
  BY DEF Live
<1> QED
  BY <1>1, DriverAssumption, FS_Subset, FS_CardinalityType, FS_EmptySet

\* A thread that has returned does nothing any more.
LEMMA ThreadStays ==
  ASSUME [Port!Next]_(Port!vars), thread \in {"done", "failed", "panicked"}
  PROVE  thread' = thread
BY DEF Port!Next, Port!Background, Port!vars, Port!Permit, Port!UndoPermit,
   Port!DropPermit, Port!Submit, Port!Complete, Port!Shutdown, Port!Post, Port!Poll,
   Port!AccountStatus, Port!Deliver, Port!AccountShutdown, Port!AccountReserved,
   Port!PollDuringShutdown, Port!PollDuringShutdownReserved, Port!Release,
   Port!BackgroundVars

\* A step that drops no wrapper leaves the ones there are.
LEMMA LiveKept ==
  ASSUME Owned, wrapped' = wrapped, pc' \in [Handles -> Labels],
         \A h \in Handles : pc'[h] = "gone" <=> pc[h] = "gone"
  PROVE  Live' = Live
BY DEF Owned, Live

\* What polls, completions and the thread do to the wrappers.
LEMMA PollKeeps ==
  ASSUME Owned, NEW h \in Handles,
         Poll(h) \/ (\E c \in Codes : NewFuture(h, c)) \/ DropFuture(h)
  PROVE  /\ UNCHANGED arcVars /\ pc' \in [Handles -> Labels]
         /\ \A g \in Handles : pc'[g] = "gone" <=> pc[g] = "gone"
<1>1. UNCHANGED arcVars
  BY DEF Poll, NewFuture, DropFuture, LockStep, Permit, Refused, EndGuard, Submit, ownVars, madeVars
<1> DEFINE To(label) == pc[h] # "gone" /\ pc' = [pc EXCEPT ![h] = label]
<1>2. \/ To("poll") \/ To("register") \/ To("refused") \/ To("cas") \/ To("submit")
      \/ To("busy") \/ To("store") \/ To("collect") \/ To("wait") \/ To("idle")
  <2>1. CASE LockStep(h)
    BY <2>1 DEF LockStep, Handle!PollAgain, Handle!Register, Handle!HeaderLock,
       Handle!HeaderLockFails, Handle!HeaderLockStore, Handle!Goto
  <2>2. CASE Permit(h) \/ Refused(h) \/ EndGuard(h) \/ \E o \in Ops : Submit(h, o)
    BY <2>2 DEF Permit, Refused, EndGuard, Submit, Handle!Permit, Handle!Refused,
       Handle!Busy, Handle!SubmitFails, Handle!Collect, Handle!Submit,
       Handle!EndFuture, Handle!Goto
  <2>3. CASE (\E c \in Codes : NewFuture(h, c)) \/ DropFuture(h)
    BY <2>3 DEF NewFuture, DropFuture, Handle!NewFuture, Handle!DropFuture,
       Handle!EndFuture, Handle!Goto
  <2> QED
    BY <2>1, <2>2, <2>3 DEF Poll
<1> QED
  BY <1>1, <1>2 DEF Owned, Labels

LEMMA ThreadKeeps ==
  ASSUME Owned, (\E o \in Ops : Complete(o)) \/ Dequeue \/ DequeueShutdown \/ Account
                \/ Close \/ Unlock \/ DropStatus \/ Shutdown \/ UNCHANGED vars
  PROVE  UNCHANGED arcVars /\ pc' = pc
BY DEF Complete, Dequeue, DequeueShutdown, Account, Close, Unlock, DropStatus, Shutdown,
   vars, ownVars, handleVars, Handle!Complete, Handle!Dequeue, Handle!Close,
   Handle!UnlockLoad, Handle!UnlockCAS, Handle!UnlockRetry, Handle!Wake,
   Handle!DropStatus, Handle!taskVars

LEMMA OwnedNext ==
  ASSUME Owned, [Next]_vars
  PROVE  Owned'
<1>1. "thread" \notin owners => thread' \in {"done", "failed", "panicked"}
  BY PortNext, ThreadStays DEF Owned
<1>2. ASSUME UNCHANGED arcVars, pc' \in [Handles -> Labels],
             \A g \in Handles : pc'[g] = "gone" <=> pc[g] = "gone"
      PROVE  Owned'
  <2>1. Live' = Live
    BY <1>2, LiveKept DEF arcVars
  <2> QED
    BY <1>1, <1>2, <2>1 DEF Owned, arcVars
<1>3. ASSUME NEW d \in Handles, d \notin wrapped, pc' = pc,
             wrapped' = wrapped \cup {d}, inner' = inner + 1, owners' = owners
      PROVE  Owned'
  <2>1. Live' = Live \cup {d} /\ d \notin Live
    BY <1>3 DEF Owned, Live
  <2>2. Cardinality(Live') = Cardinality(Live) + 1 /\ Cardinality(Live) \in Nat
    BY <2>1, LiveFinite, FS_AddElement DEF Owned
  <2> QED
    BY <1>1, <1>3, <2>2 DEF Owned
<1>4. ASSUME NEW h \in Handles, DropHandle(h)
      PROVE  Owned'
  <2>1. /\ h \in Live /\ pc' = [pc EXCEPT ![h] = "gone"] /\ inner' = inner - 1
        /\ wrapped' = wrapped /\ owners' = owners
    BY <1>4 DEF DropHandle, Handle!DropHandle, Handle!Goto
  <2>2. Live' = Live \ {h} /\ pc' \in [Handles -> Labels]
    BY <2>1 DEF Owned, Live, Labels
  <2>3. Cardinality(Live') = Cardinality(Live) - 1 /\ Cardinality(Live) \in Nat
    BY <2>1, <2>2, LiveFinite, FS_RemoveElement DEF Owned
  <2>4. \A g \in Handles \ wrapped : pc'[g] # "gone"
    BY <2>1 DEF Owned, Live
  <2> QED
    BY <1>1, <2>1, <2>2, <2>3, <2>4 DEF Owned
<1>5. ASSUME NEW x, DropArc(x), x = "thread" => thread \in {"done", "failed", "panicked"}
      PROVE  Owned'
  <2>1. /\ x \in owners /\ owners' = owners \ {x} /\ thread' = thread
        /\ inner' = IF owners = {x} THEN inner - 1 ELSE inner
        /\ pc' = pc /\ wrapped' = wrapped
    BY <1>5 DEF DropArc, portVars, handleVars
  <2>2. Live' = Live
    BY <2>1 DEF Live
  <2>3. Cardinality(Live) \in Nat
    BY LiveFinite DEF Owned
  <2>4. owners' = {} <=> owners = {x}
    BY <2>1
  <2>5. inner' = (IF owners' = {} THEN 0 ELSE 1) + Cardinality(Live')
    BY <2>1, <2>2, <2>3, <2>4 DEF Owned
  <2>6. "thread" \notin owners' => thread' \in {"done", "failed", "panicked"}
    BY <1>5, <2>1 DEF Owned
  <2> QED
    BY <2>1, <2>5, <2>6 DEF Owned
<1>6. ASSUME NEW h \in Handles,
             Register(h) \/ \E d \in Handles : Duplicate(h, d)
      PROVE  Owned'
  BY <1>3, <1>6 DEF Register, Duplicate, handleVars
<1>7. ASSUME NEW h \in Handles,
             Poll(h) \/ (\E c \in Codes : NewFuture(h, c)) \/ DropFuture(h)
      PROVE  Owned'
  BY <1>2, <1>7, PollKeeps
<1>8. CASE \/ (\E o \in Ops : Complete(o)) \/ Dequeue \/ DequeueShutdown \/ Account
           \/ Close \/ Unlock \/ DropStatus \/ Shutdown \/ UNCHANGED vars
  <2>1. UNCHANGED arcVars /\ pc' = pc
    BY <1>8, ThreadKeeps
  <2> QED
    BY <1>2, <2>1 DEF Owned
<1>9. CASE ThreadReturns \/ DropArc("user")
  BY <1>5, <1>9 DEF ThreadReturns
<1> QED
  BY <1>4, <1>6, <1>7, <1>8, <1>9 DEF Next, Thread

LEMMA OwnedAlways == Spec => []Owned
<1>1. Init => Owned
  <2> SUFFICES ASSUME Init
               PROVE  Owned
    OBVIOUS
  <2>1. pc = [h \in Handles |-> "idle"] /\ Live = {}
    BY DEF Init, Handle!Init, Live
  <2>2. Cardinality(Live) = 0
    BY <2>1, FS_EmptySet
  <2> QED
    BY <2>1, <2>2 DEF Init, Owned, Labels, Port!Init
<1>2. Owned /\ [Next]_vars => Owned'
  BY OwnedNext
<1> QED
  BY <1>1, <1>2, PTL DEF Spec

\* The system's handle is closed exactly when neither the user, nor the thread,
\* nor any Handle or Socket can use it, however many were made and dropped.
THEOREM ClosedWhenUnusedHolds == Spec => []ClosedWhenUnused
<1>1. Owned => ClosedWhenUnused
  <2> SUFFICES ASSUME Owned
               PROVE  ClosedWhenUnused
    OBVIOUS
  <2>1. Cardinality(Live) \in Nat /\ (Cardinality(Live) = 0 <=> Live = {})
    BY LiveFinite DEF Owned
  <2> QED
    BY <2>1 DEF Owned, ClosedWhenUnused, Closed
<1> QED
  BY <1>1, OwnedAlways, PTL

\* The port is never closed with an operation in the kernel or on its way back:
\* the thread holds it until it has drained the port, and it drains all of it.
THEOREM DrainedAtCloseHolds == Spec => []DrainedAtClose
<1>1. Owned /\ PortProofs!PInv => DrainedAtClose
  <2> SUFFICES ASSUME Owned, PortProofs!PInv, Closed
               PROVE  Port!Outstanding = {}
    BY DEF DrainedAtClose
  <2>1. Cardinality(Live) \in Nat
    BY LiveFinite DEF Owned
  <2>2. "thread" \notin owners
    BY <2>1 DEF Owned, Closed
  <2>3. thread = "done"
    BY <2>2 DEF Owned, PortProofs!PInv, PortProofs!Unposted, PortProofs!ShutdownAssertion
  <2>4. PortProofs!InKernel = 0
    BY <2>3 DEF PortProofs!PInv, PortProofs!Counted, PortProofs!Covered
  <2>5. PortProofs!Outstanding = {}
    BY <2>4, PortAssumed, PortProofs!Sizes
  <2> QED
    BY <2>5 DEF Port!Outstanding, PortProofs!Outstanding
<1> QED
  BY <1>1, OwnedAlways, PortInvariant, PTL

-----------------------------------------------------------------------------
(* The type invariant. *)

\* Handle and HandleProofs are the same specification.
LEMMA SameHandle ==
  /\ Handle!Init => HandleProofs!Init
  /\ [Handle!Next]_(Handle!vars) => [HandleProofs!Next]_(HandleProofs!vars)
<1>1. Handle!Init => HandleProofs!Init
  BY Zenon DEF Handle!Init, HandleProofs!Init
<1>2. Handle!Next => HandleProofs!Next
  BY Zenon DEF
     Handle!Next, Handle!Task, Handle!NewFuture, Handle!SiblingWakes,
     Handle!DropFuture, Handle!DropHandle, Handle!Complete, Handle!Close,
     Handle!Delivery, Handle!Dequeue, Handle!UnlockLoad, Handle!UnlockCAS,
     Handle!UnlockRetry, Handle!Wake, Handle!DropStatus, Handle!Permit,
     Handle!Refused, Handle!Register, Handle!HeaderLock, Handle!HeaderLockFails,
     Handle!HeaderLockStore, Handle!Busy, Handle!Submit, Handle!SubmitFails,
     Handle!Collect, Handle!PollAgain, Handle!KernelAccepts, Handle!Goto,
     Handle!EndFuture, Handle!CancelIoEx, Handle!Aborted, Handle!Results,
     Handle!taskVars, Handle!ioVars, Handle!bgVars, HandleProofs!Next,
     HandleProofs!Task, HandleProofs!NewFuture, HandleProofs!SiblingWakes,
     HandleProofs!DropFuture, HandleProofs!DropHandle, HandleProofs!Complete,
     HandleProofs!Close, HandleProofs!Delivery, HandleProofs!Dequeue,
     HandleProofs!UnlockLoad, HandleProofs!UnlockCAS, HandleProofs!UnlockRetry,
     HandleProofs!Wake, HandleProofs!DropStatus, HandleProofs!Permit,
     HandleProofs!Refused, HandleProofs!Register, HandleProofs!HeaderLock,
     HandleProofs!HeaderLockFails, HandleProofs!HeaderLockStore, HandleProofs!Busy,
     HandleProofs!Submit, HandleProofs!SubmitFails, HandleProofs!Collect,
     HandleProofs!PollAgain, HandleProofs!KernelAccepts, HandleProofs!Goto,
     HandleProofs!EndFuture, HandleProofs!CancelIoEx, HandleProofs!Aborted,
     HandleProofs!Results, HandleProofs!taskVars, HandleProofs!ioVars,
     HandleProofs!bgVars
<1>3. UNCHANGED Handle!vars => UNCHANGED HandleProofs!vars
  BY DEF Handle!vars, Handle!taskVars, Handle!ioVars, Handle!bgVars,
     HandleProofs!vars, HandleProofs!taskVars, HandleProofs!ioVars, HandleProofs!bgVars
<1> QED
  BY <1>1, <1>2, <1>3

LEMMA HandleAssumed == HandleProofs!HandleAssumption
BY DriverAssumption, Zenon DEF HandleProofs!HandleAssumption,
   IsFiniteSet, HandleProofs!IsFiniteSet

\* The state is always of its type, in both components.
THEOREM TypeCorrect == Spec => []TypeOK
<1> DEFINE HInv == HandleProofs!TypeOK /\ HandleProofs!InUse
           Known == abandoned \subseteq Handles /\ made \in 0..MaxFutures
<1>1. Spec => []HInv
  <2>1. Init => HInv
    BY HandleAssumed, SameHandle, HandleProofs!TypeInit DEF Init
  <2>2. PortProofs!PInv /\ SignKept /\ HInv /\ [Next]_vars => HInv'
    BY HandleAssumed, HandleNext, SameHandle, HandleProofs!TypeNext
  <2> QED
    BY <2>1, <2>2, PortInvariant, SignKeptHolds, PTL DEF Spec
<1>2. Known /\ [Next]_vars => Known'
  BY DriverAssumption
     DEF Next, vars, ownVars, madeVars, Register, Duplicate, DropHandle, NewFuture, Poll,
     LockStep, Permit, Refused, EndGuard, Submit, DropFuture, Complete, Shutdown, DropArc, Thread,
     Dequeue, DequeueShutdown, Account, Close, Unlock, DropStatus, ThreadReturns
<1>3. HInv /\ PortProofs!PInv /\ Owned /\ Known => TypeOK
  <2> SUFFICES ASSUME HInv, PortProofs!PInv, Owned, Known
               PROVE  TypeOK
    OBVIOUS
  <2>1. Port!TypeOK
    BY Zenon DEF PortProofs!PInv, PortProofs!TypeOK, Port!TypeOK, Port!Packets,
       PortProofs!Packets, Port!Messages, PortProofs!Messages
  <2>2. Handle!TypeOK
    BY Zenon DEF HandleProofs!TypeOK, Handle!TypeOK, Handle!LockWords,
       HandleProofs!LockWords, Handle!Results, HandleProofs!Results
  <2>3. inner \in Nat
    BY LiveFinite DEF Owned
  <2> QED
    BY <2>1, <2>2, <2>3 DEF TypeOK, Owned
<1>4. Spec => []Known
  <2>1. Init => Known
    BY DriverAssumption DEF Init
  <2> HIDE DEF Known
  <2> QED
    BY <1>2, <2>1, PTL DEF Spec
<1> QED
  BY <1>1, <1>3, <1>4, PortInvariant, OwnedAlways, PTL
-----------------------------------------------------------------------------
(* The futures of the kept handles.  On a handle that lost a future while  *)
(* it waited anything may be found in the header; on any other, what is in *)
(* the header was put there by the future that is polled, whatever kinds   *)
(* of operation follow each other and whatever happens to the others.      *)
(* As in HandleProofs, header_lock's compare-exchange must not fail without*)
(* a reason.                                                               *)

StrongLock == "lock" \notin WeakCAS

\* The header of every kept handle is in order, in the sense of HandleProofs.
KeptInv ==
  /\ HandleProofs!TypeOK /\ HandleProofs!InUse /\ HandleProofs!LockHeld
  /\ abandoned \subseteq Handles
  /\ \A h \in Kept : HandleProofs!InOrder(h)

\* What is in the header of a handle that is polled, or may be polled with
\* success, was submitted by the future that polls it.
OwnWord ==
  \A h \in Kept :
    /\ pc[h] \in {"register", "cas", "store", "wait"} /\ lock[h] # 0 => mine[h]
    /\ pc[h] = "poll" /\ pending >= 0 /\ lock[h] # 0 => mine[h]
    /\ pc[h] = "collect" => mine[h]

\* A task never finds its header busy; the word is positive only from its Idle
\* guard to the completion it waits for, and nothing is left in an idle handle
\* unless the port was closed before the result was collected.
Calm ==
  \A h \in Kept :
    /\ pc[h] # "busy"
    /\ pc[h] \notin {"submit", "wait"} => lock[h] <= 0
    /\ pc[h] = "idle" /\ pending >= 0 => lock[h] = 0
    /\ pc[h] \in {"cas", "submit"} => waker[h]
    /\ pc[h] # "wait" => ~woken[h]

\* A task that waits has its waker registered until it is woken.
Waiting ==
  \A h \in Kept : pc[h] = "wait" =>
    \/ lock[h] > 0 /\ waker[h] /\ ~woken[h]
    \/ lock[h] < 0 /\ woken[h]
    \/ lock[h] < 0 /\ waker[h] /\ bg = "wake" /\ on[bgop] = h

\* A wake finds a task that waits for a completion which is there, and that
\* nobody else has woken.
Waking ==
  \A h \in Kept : bg = "wake" /\ on[bgop] = h =>
    pc[h] = "wait" /\ lock[h] < 0 /\ ~woken[h]

\* Only on handles that lost a future is an operation ever cancelled.
Asked == \A o \in cancelled : io[o] # "free" /\ on[o] \in abandoned

FutureInv == OwnWord /\ Calm /\ Waiting /\ Waking /\ Asked

\* What HandleProofs knows about the headers, as far as it is needed here.
HeaderFacts ==
  /\ lock \in [Handles -> Int]
  /\ waker \in [Handles -> BOOLEAN] /\ woken \in [Handles -> BOOLEAN]
  /\ mine \in [Handles -> BOOLEAN]
  /\ pc \in [Handles -> Labels]
  /\ io \in [Ops -> {"free", "flight", "queued", "taken"}]
  /\ on \in [Ops -> Handles \cup {"none"}]
  /\ cancelled \subseteq Ops
  /\ abandoned \subseteq Handles
  /\ \A h \in Kept :
       /\ pc[h] = "submit" => lock[h] > 0
       /\ pc[h] = "store" => lock[h] < 0 /\ fut[h] = -seen[h]
       /\ pc[h] = "collect" => lock[h] = 0
       /\ pc[h] = "cas" => fut[h] \in Int /\ fut[h] > 0
       /\ pc[h] = "refused" => ~ (pending >= 0)
  /\ bg # "idle" => bgop \in Ops /\ io[bgop] = "taken" /\ on[bgop] \in Handles
  /\ bg = "cas" => old \in Int /\ old > 0
  /\ bg = "cas" /\ on[bgop] \in Kept => pc[on[bgop]] \notin {"submit", "collect"}

LEMMA HeaderFactsHold ==
  ASSUME KeptInv
  PROVE  HeaderFacts
<1>1. HandleProofs!TypeOK /\ HandleProofs!InUse
  BY DEF KeptInv
<1>2. lock \in [Handles -> Int]
  BY <1>1, HandleAssumed, HandleProofs!LockWordFacts DEF HandleProofs!TypeOK
<1>3. /\ waker \in [Handles -> BOOLEAN] /\ woken \in [Handles -> BOOLEAN]
      /\ mine \in [Handles -> BOOLEAN]
      /\ pc \in [Handles -> Labels]
      /\ io \in [Ops -> {"free", "flight", "queued", "taken"}]
      /\ on \in [Ops -> Handles \cup {"none"}]
      /\ cancelled \subseteq Ops /\ abandoned \subseteq Handles
  BY <1>1 DEF HandleProofs!TypeOK, Labels, KeptInv
<1>4. ASSUME NEW h \in Kept, pc[h] \notin {"idle", "gone"}
      PROVE  /\ fut[h] \in Int /\ fut[h] > 0 /\ -fut[h] \in Int /\ -fut[h] < 0
             /\ -(-fut[h]) = fut[h]
  BY <1>1, <1>4, HandleAssumed, HandleProofs!ActiveCode DEF Kept
<1>5. ASSUME NEW h \in Kept
      PROVE  /\ pc[h] = "submit" => lock[h] > 0
             /\ pc[h] = "store" => lock[h] < 0 /\ fut[h] = -seen[h]
             /\ pc[h] = "collect" => lock[h] = 0
             /\ pc[h] = "cas" => fut[h] \in Int /\ fut[h] > 0
             /\ pc[h] = "refused" => ~ (pending >= 0)
  <2>1. /\ pc[h] = "submit" => lock[h] = fut[h]
        /\ pc[h] = "collect" => lock[h] = 0
        /\ pc[h] = "store" => lock[h] = -fut[h] /\ seen[h] = -fut[h]
        /\ pc[h] = "refused" => ~ (pending >= 0)
    BY DEF KeptInv, HandleProofs!InOrder, HandleProofs!Word, HandleProofs!Match
  <2> QED
    BY <1>4, <2>1
<1>6. bg # "idle" => bgop \in Ops /\ io[bgop] = "taken" /\ on[bgop] \in Handles
  BY <1>1 DEF HandleProofs!InUse
<1>7. bg = "cas" => old \in Int /\ old > 0
  BY <1>1, HandleAssumed, HandleProofs!LockWordFacts DEF HandleProofs!InUse, HandleProofs!TypeOK
<1>8. bg = "cas" /\ on[bgop] \in Kept => pc[on[bgop]] \notin {"submit", "collect"}
  BY <1>6 DEF KeptInv, HandleProofs!InOrder, HandleProofs!Held, HandleProofs!Pending,
     HandleProofs!Unfinished
<1> QED
  BY <1>2, <1>3, <1>5, <1>6, <1>7, <1>8 DEF HeaderFacts

-----------------------------------------------------------------------------
(* The steps, one by one. *)

\* A step that leaves tasks, words and the wake in progress alone.
LEMMA FutureQuiet ==
  ASSUME HeaderFacts, FutureInv,
         UNCHANGED <<lock, waker, woken, pc, mine, abandoned>>,
         pending' >= 0 => pending >= 0,
         bg' = "wake" => bg = "wake" /\ on'[bgop'] = on[bgop],
         bg = "wake" => bg' = "wake" /\ on'[bgop'] = on[bgop],
         \A o \in cancelled' : o \in cancelled /\ io'[o] # "free" /\ on'[o] = on[o]
  PROVE  FutureInv'
<1>1. OwnWord' /\ Calm'
  BY DEF FutureInv, OwnWord, Calm, Kept
<1>2. Waiting' /\ Waking'
  BY DEF FutureInv, Waiting, Waking, Kept
<1>3. Asked'
  BY DEF FutureInv, Asked
<1> QED
  BY <1>1, <1>2, <1>3 DEF FutureInv

\* A step of a task that moves nothing but what belongs to its handle, and to
\* the thread's wake of another nothing at all.
Elsewhere(h) ==
  /\ \A g \in Handles \ {h} : /\ lock'[g] = lock[g] /\ waker'[g] = waker[g]
                              /\ woken'[g] = woken[g] /\ pc'[g] = pc[g]
                              /\ mine'[g] = mine[g]
  /\ UNCHANGED <<bg, bgop>>
  /\ bg = "wake" => on'[bgop] = on[bgop]
  /\ pending' >= 0 <=> pending >= 0

\* The steps of the task of a kept handle that leave the operations alone.
LEMMA FutureTask ==
  ASSUME HeaderFacts, FutureInv, NEW h \in Kept, Elsewhere(h),
         UNCHANGED <<io, on, cancelled, abandoned>>,
         OwnWord!(h)', Calm!(h)', Waiting!(h)', Waking!(h)'
  PROVE  FutureInv'
<1>1. OwnWord' /\ Calm'
  BY DEF FutureInv, OwnWord, Calm, Kept, Elsewhere
<1>2. Waiting' /\ Waking'
  BY DEF FutureInv, Waiting, Waking, Kept, Elsewhere
<1>3. Asked'
  BY DEF FutureInv, Asked
<1> QED
  BY <1>1, <1>2, <1>3 DEF FutureInv

\* The steps of the task of a handle that lost a future: whatever it finds and
\* does, it cancels no other handle's operations.
LEMMA FutureLost ==
  ASSUME HeaderFacts, FutureInv, NEW h \in abandoned', Elsewhere(h),
         abandoned' = abandoned \cup {h},
         \A o \in cancelled' : /\ io'[o] # "free"
                               /\ (o \in cancelled /\ on'[o] = on[o]) \/ on'[o] = h
  PROVE  FutureInv'
<1>1. OwnWord' /\ Calm'
  BY DEF FutureInv, OwnWord, Calm, Kept, Elsewhere
<1>2. Waiting' /\ Waking'
  BY DEF FutureInv, Waiting, Waking, Kept, Elsewhere
<1>3. Asked'
  BY DEF FutureInv, Asked
<1> QED
  BY <1>1, <1>2, <1>3 DEF FutureInv

LEMMA LostPolls ==
  ASSUME HeaderFacts, FutureInv, NEW h \in abandoned,
         \/ LockStep(h) \/ Permit(h) \/ Refused(h) \/ EndGuard(h)
         \/ (\E o \in Ops : Submit(h, o)) \/ DropHandle(h)
         \/ \E c \in Codes : NewFuture(h, c)
  PROVE  FutureInv'
<1>1. h \in Handles /\ abandoned' = abandoned
  BY DEF HeaderFacts, LockStep, Permit, Refused, EndGuard, Submit, DropHandle, NewFuture,
     ownVars, madeVars
<1>2. CASE \E o \in Ops : Submit(h, o)
  <2> PICK o \in Ops : Submit(h, o)
    BY <1>2
  <2>1. /\ pc' = [pc EXCEPT ![h] = "wait"] /\ mine' = [mine EXCEPT ![h] = TRUE]
        /\ io[o] = "free" /\ io' = [io EXCEPT ![o] = "flight"]
        /\ on' = [on EXCEPT ![o] = h]
        /\ UNCHANGED <<lock, waker, woken, cancelled, bg, bgop>>
        /\ pending' >= 0 <=> pending >= 0
    BY DEF Submit, Handle!Submit, Handle!KernelAccepts, Handle!Goto, Handle!bgVars
  <2>2. Elsewhere(h)
    BY <1>1, <2>1 DEF HeaderFacts, Elsewhere
  <2>3. \A x \in cancelled' : io'[x] # "free" /\ x \in cancelled /\ on'[x] = on[x]
    BY <2>1 DEF HeaderFacts, FutureInv, Asked
  <2> QED
    BY <1>1, <2>2, <2>3, FutureLost
<1>3. CASE LockStep(h) \/ Permit(h) \/ Refused(h) \/ EndGuard(h) \/ DropHandle(h)
           \/ \E c \in Codes : NewFuture(h, c)
  <2>1. /\ UNCHANGED <<io, on, bg, bgop>> /\ (pending' >= 0 <=> pending >= 0)
        /\ \/ cancelled' = cancelled
           \/ cancelled' = cancelled \cup {o \in Ops : io[o] = "flight" /\ on[o] = h}
    BY <1>3 DEF LockStep, Permit, Refused, EndGuard, DropHandle, NewFuture,
       Handle!PollAgain, Handle!Register, Handle!HeaderLock, Handle!HeaderLockFails,
       Handle!HeaderLockStore, Handle!Permit, Handle!Refused, Handle!Busy,
       Handle!SubmitFails, Handle!Collect, Handle!DropHandle, Handle!NewFuture,
       Handle!CancelIoEx, Handle!ioVars, Handle!bgVars
  <2>2. \A g \in Handles \ {h} : /\ lock'[g] = lock[g] /\ waker'[g] = waker[g]
                                 /\ woken'[g] = woken[g] /\ pc'[g] = pc[g]
                                 /\ mine'[g] = mine[g]
    BY <1>1, <1>3 DEF LockStep, Permit, Refused, EndGuard, DropHandle, NewFuture,
       Handle!PollAgain, Handle!Register, Handle!HeaderLock, Handle!HeaderLockFails,
       Handle!HeaderLockStore, Handle!Permit, Handle!Refused, Handle!Busy,
       Handle!SubmitFails, Handle!Collect, Handle!DropHandle, Handle!NewFuture,
       Handle!Goto, Handle!EndFuture, HeaderFacts
  <2>3. Elsewhere(h)
    BY <2>1, <2>2 DEF Elsewhere
  <2>4. \A x \in cancelled' : io'[x] # "free" /\ ((x \in cancelled /\ on'[x] = on[x]) \/ on'[x] = h)
    BY <2>1 DEF FutureInv, Asked
  <2> QED
    BY <1>1, <2>3, <2>4, FutureLost
<1> QED
  BY <1>2, <1>3

LEMMA FuturePolls ==
  ASSUME HeaderFacts, FutureInv, StrongLock, NEW h \in Kept,
         \/ LockStep(h) \/ Permit(h) \/ Refused(h) \/ EndGuard(h)
         \/ \E c \in Codes : NewFuture(h, c)
  PROVE  FutureInv'
<1>1. h \in Handles /\ h \in Kept
  BY DEF Kept
<1>2. abandoned' = abandoned
  BY DEF LockStep, Permit, Refused, EndGuard, NewFuture, ownVars, madeVars
<1>3. /\ OwnWord!(h) /\ Calm!(h) /\ Waiting!(h) /\ Waking!(h)
  BY <1>1 DEF FutureInv, OwnWord, Calm, Waiting, Waking
<1> USE <1>1, <1>2, <1>3, FutureTask
    DEF HeaderFacts, Elsewhere, Handle!Goto, Handle!EndFuture, Handle!ioVars, Handle!bgVars
<1>4. CASE Handle!PollAgain(h)
  <2>1. /\ pc' = [pc EXCEPT ![h] = "poll"] /\ woken' = [woken EXCEPT ![h] = FALSE]
        /\ UNCHANGED <<lock, waker, mine, io, on, cancelled, bg, bgop>>
        /\ pending' >= 0 <=> pending >= 0
        /\ pc[h] = "wait" /\ woken[h]
    BY <1>4 DEF Handle!PollAgain
  <2>2. pc'[h] = "poll" /\ ~ woken'[h] /\ h \in Handles
    BY <2>1 DEF Kept
  <2>3. lock[h] <= 0 /\ ~ (bg = "wake" /\ on[bgop] = h)
    BY <2>1, <2>2
  <2>4. OwnWord!(h)' /\ Calm!(h)' /\ Waiting!(h)' /\ Waking!(h)'
    BY <2>1, <2>2, <2>3
  <2> QED
    BY <2>1, <2>4
<1>5. CASE Handle!Register(h)
  BY <1>5 DEF Handle!Register
<1>6. CASE Handle!HeaderLock(h)
  BY <1>6 DEF Handle!HeaderLock
<1>7. CASE Handle!HeaderLockFails(h)
  BY <1>7 DEF Handle!HeaderLockFails, StrongLock
<1>8. CASE Handle!HeaderLockStore(h)
  BY <1>8 DEF Handle!HeaderLockStore
<1>9. CASE Handle!Permit(h)
  BY <1>9 DEF Handle!Permit
<1>10. CASE Handle!Refused(h)
  BY <1>10 DEF Handle!Refused
<1>11. CASE Handle!SubmitFails(h) \/ Handle!Collect(h)
  BY <1>11 DEF Handle!SubmitFails, Handle!Collect
<1>12. CASE \E c \in Codes : Handle!NewFuture(h, c)
  <2>1. /\ pc' = [pc EXCEPT ![h] = "poll"] /\ mine' = [mine EXCEPT ![h] = FALSE]
        /\ UNCHANGED <<lock, waker, woken, io, on, cancelled, bg, bgop>>
        /\ pending' >= 0 <=> pending >= 0
        /\ pc[h] = "idle"
    BY <1>12 DEF Handle!NewFuture
  <2>2. pc'[h] = "poll" /\ h \in Handles
    BY <2>1 DEF Kept
  <2>3. OwnWord!(h)' /\ Calm!(h)' /\ Waiting!(h)' /\ Waking!(h)'
    BY <2>1, <2>2
  <2> QED
    BY <2>1, <2>3
<1>13. ~ Handle!Busy(h)
  BY DEF Handle!Busy
<1> QED
  BY <1>4, <1>5, <1>6, <1>7, <1>8, <1>9, <1>10, <1>11, <1>12, <1>13
     DEF LockStep, Permit, Refused, EndGuard, NewFuture

\* The operation that is submitted locks the header for its own future.
LEMMA FutureSubmits ==
  ASSUME HeaderFacts, FutureInv, NEW h \in Kept, NEW o \in Ops, Submit(h, o)
  PROVE  FutureInv'
<1>1. /\ pc[h] = "submit" /\ pc' = [pc EXCEPT ![h] = "wait"]
      /\ mine' = [mine EXCEPT ![h] = TRUE]
      /\ io[o] = "free" /\ io' = [io EXCEPT ![o] = "flight"]
      /\ on' = [on EXCEPT ![o] = h]
      /\ UNCHANGED <<lock, waker, woken, cancelled, bg, bgop, abandoned>>
      /\ pending' >= 0 <=> pending >= 0
  BY DEF Submit, Handle!Submit, Handle!KernelAccepts, Handle!Goto, Handle!bgVars, ownVars,
     madeVars
<1>2. h \in Handles /\ lock[h] > 0 /\ waker[h] /\ ~woken[h]
  BY <1>1 DEF HeaderFacts, FutureInv, Calm, Kept
<1>3. bg = "wake" => on'[bgop] = on[bgop] /\ on[bgop] # h
  BY <1>1, <1>2 DEF HeaderFacts, FutureInv, Waking
<1>4. OwnWord' /\ Calm'
  BY <1>1, <1>2 DEF HeaderFacts, FutureInv, OwnWord, Calm, Kept
<1>5. Waiting' /\ Waking'
  BY <1>1, <1>2, <1>3 DEF HeaderFacts, FutureInv, Waiting, Waking, Kept
<1>6. Asked'
  BY <1>1, <1>2 DEF HeaderFacts, FutureInv, Asked, Kept
<1> QED
  BY <1>4, <1>5, <1>6 DEF FutureInv

\* A future or a handle is dropped.  A kept handle has nothing to cancel.
LEMMA FutureDrops ==
  ASSUME HeaderFacts, FutureInv, NEW h \in Handles,
         DropFuture(h) \/ (h \in Kept /\ DropHandle(h))
  PROVE  FutureInv'
<1>1. CASE DropFuture(h)
  <2>1. /\ pc' = [pc EXCEPT ![h] = "idle"] /\ mine' = [mine EXCEPT ![h] = FALSE]
        /\ abandoned' = abandoned \cup {h}
        /\ UNCHANGED <<lock, waker, woken, io, on, cancelled, bg, bgop>>
        /\ pending' >= 0 <=> pending >= 0
    BY <1>1 DEF DropFuture, Handle!DropFuture, Handle!EndFuture, Handle!Goto,
       Handle!ioVars, Handle!bgVars
  <2>2. Elsewhere(h)
    BY <2>1 DEF HeaderFacts, Elsewhere
  <2>3. \A x \in cancelled' : io'[x] # "free" /\ x \in cancelled /\ on'[x] = on[x]
    BY <2>1 DEF FutureInv, Asked
  <2> QED
    BY <2>1, <2>2, <2>3, FutureLost
<1>2. CASE h \in Kept /\ DropHandle(h)
  <2>1. /\ pc[h] = "idle" /\ pc' = [pc EXCEPT ![h] = "gone"]
        /\ UNCHANGED <<lock, waker, woken, mine, io, on, bg, bgop, abandoned>>
        /\ pending' >= 0 <=> pending >= 0
        /\ lock[h] > 0 \/ cancelled' = cancelled
    BY <1>2 DEF DropHandle, Handle!DropHandle, Handle!CancelIoEx, Handle!Goto,
       Handle!bgVars, madeVars
  <2>2. OwnWord' /\ Calm'
    BY <2>1 DEF HeaderFacts, FutureInv, OwnWord, Calm, Kept
  <2>3. Waiting' /\ Waking'
    BY <2>1 DEF HeaderFacts, FutureInv, Waiting, Waking, Kept
  <2>4. ~ (lock[h] > 0)
    BY <1>2, <2>1 DEF HeaderFacts, FutureInv, Calm
  <2>5. Asked'
    BY <2>1, <2>4 DEF FutureInv, Asked
  <2> QED
    BY <2>2, <2>3, <2>5 DEF FutureInv
<1> QED
  BY <1>1, <1>2

\* The completion of a future that was not dropped is released, never only
\* unlocked: nobody has cancelled it.
LEMMA FutureUnlocked ==
  ASSUME HeaderFacts, FutureInv, Unlock, Handle!UnlockCAS
  PROVE  FutureInv'
<1> DEFINE h == on[bgop]
<1>1. /\ bgop \in Ops /\ h \in Handles /\ lock[h] \in Int /\ lock[h] > 0
      /\ lock' = [lock EXCEPT ![h] = -lock[h]]
      /\ bg = "cas" /\ bg' = IF bgop \in cancelled /\ pending >= 0 THEN "drop" ELSE "wake"
      /\ UNCHANGED <<waker, woken, pc, mine, io, on, cancelled, bgop, abandoned>>
      /\ pending' >= 0 <=> pending >= 0
  BY DEF HeaderFacts, Handle!UnlockCAS, Handle!Aborted, Handle!taskVars, Handle!ioVars,
     Unlock, ownVars, madeVars
<1>2. h \in Kept => /\ pc[h] = "wait" /\ waker[h] /\ ~woken[h] /\ bg' = "wake"
  BY <1>1 DEF HeaderFacts, FutureInv, Calm, Waiting, Asked, Kept
<1>3. /\ lock'[h] = -lock[h] /\ -lock[h] \in Int /\ -lock[h] < 0
      /\ \A g \in Handles \ {h} : lock'[g] = lock[g]
  BY <1>1 DEF HeaderFacts
<1>4. OwnWord' /\ Calm'
  BY <1>1, <1>2, <1>3 DEF HeaderFacts, FutureInv, OwnWord, Calm, Kept
<1>5. Waiting' /\ Waking'
  BY <1>1, <1>2, <1>3 DEF HeaderFacts, FutureInv, Waiting, Waking, Kept
<1>6. Asked'
  BY <1>1 DEF FutureInv, Asked
<1> QED
  BY <1>4, <1>5, <1>6 DEF FutureInv

LEMMA FutureWoken ==
  ASSUME HeaderFacts, FutureInv, Unlock, Handle!Wake
  PROVE  FutureInv'
<1> DEFINE h == on[bgop]
<1>1. /\ bgop \in Ops /\ h \in Handles /\ bg = "wake" /\ bg' = "drop"
      /\ woken' = [woken EXCEPT ![h] = @ \/ waker[h]]
      /\ waker' = [waker EXCEPT ![h] = FALSE]
      /\ UNCHANGED <<lock, pc, mine, io, on, cancelled, bgop, abandoned>>
      /\ pending' >= 0 <=> pending >= 0
  BY DEF HeaderFacts, Handle!Wake, Handle!ioVars, Unlock, ownVars, madeVars
<1>2. h \in Kept => pc[h] = "wait" /\ lock[h] < 0 /\ ~woken[h] /\ waker[h]
  BY <1>1 DEF HeaderFacts, FutureInv, Waiting, Waking
<1>3. /\ woken'[h] <=> woken[h] \/ waker[h]
      /\ \A g \in Handles \ {h} : woken'[g] = woken[g] /\ waker'[g] = waker[g]
  BY <1>1, Zenon DEF HeaderFacts
<1>4. OwnWord' /\ Calm'
  BY <1>1, <1>2, <1>3 DEF FutureInv, OwnWord, Calm, Kept
<1>5. Waiting'
  BY <1>1, <1>2, <1>3 DEF FutureInv, Waiting, Kept
<1>6. Waking' /\ Asked'
  BY <1>1 DEF FutureInv, Waking, Asked
<1> QED
  BY <1>4, <1>5, <1>6 DEF FutureInv

\* The other steps of kernel, thread and owners.
LEMMA FutureOthers ==
  ASSUME PortProofs!PInv, SignKept, HeaderFacts, FutureInv,
         \/ \E h \in Handles : Register(h) \/ \E d \in Handles : Duplicate(h, d)
         \/ \E o \in Ops : Complete(o)
         \/ Shutdown \/ DropArc("user") \/ ThreadReturns
         \/ Dequeue \/ DequeueShutdown \/ Account \/ Close \/ DropStatus
         \/ Unlock /\ (Handle!UnlockLoad \/ Handle!UnlockRetry)
         \/ UNCHANGED vars
  PROVE  FutureInv'
<1>1. CASE \/ \E h \in Handles : Register(h) \/ \E d \in Handles : Duplicate(h, d)
           \/ Shutdown \/ DropArc("user") \/ ThreadReturns \/ DequeueShutdown \/ Account
           \/ UNCHANGED vars
  <2>1. UNCHANGED io /\ UNCHANGED handleVars /\ UNCHANGED abandoned
        /\ (pending' >= 0 => pending >= 0)
    BY <1>1, AccountQuiet, DequeueQuiet DEF Register, Duplicate, Shutdown, DropArc,
       ThreadReturns, Account, DequeueShutdown, Port!Shutdown, portVars, ownVars, madeVars,
       vars
  <2> QED
    BY <2>1, FutureQuiet DEF handleVars, FutureInv, Asked
<1>2. CASE \E o \in Ops : Complete(o)
  <2> PICK o \in Ops : Complete(o)
    BY <1>2
  <2>1. /\ UNCHANGED <<lock, waker, woken, pc, mine, abandoned, bg, bgop, on>>
        /\ io' = [io EXCEPT ![o] = "queued"] /\ cancelled' \subseteq cancelled
        /\ pending' >= 0 => pending >= 0
    BY DEF Complete, Handle!Complete, Handle!taskVars, Handle!bgVars, ownVars, madeVars
  <2>2. \A x \in cancelled' : x \in cancelled /\ io'[x] # "free" /\ on'[x] = on[x]
    BY <2>1 DEF HeaderFacts, FutureInv, Asked
  <2> QED
    BY <2>1, <2>2, FutureQuiet
<1>3. CASE Dequeue
  <2>1. /\ UNCHANGED <<lock, waker, woken, pc, mine, abandoned, on, cancelled>>
        /\ Head(queue) \in Ops /\ io' = [io EXCEPT ![Head(queue)] = "taken"]
        /\ bg = "idle" /\ bg' = "load"
        /\ pending' >= 0 => pending >= 0
    BY <1>3 DEF Dequeue, Handle!Dequeue, Handle!taskVars, ownVars, madeVars
  <2>2. \A x \in cancelled' : x \in cancelled /\ io'[x] # "free" /\ on'[x] = on[x]
    BY <2>1 DEF HeaderFacts, FutureInv, Asked
  <2> QED
    BY <2>1, <2>2, FutureQuiet
<1>4. CASE Close
  BY <1>4, FutureQuiet DEF Close, Handle!Close, Handle!taskVars, Handle!ioVars,
     Handle!bgVars, ownVars, madeVars, FutureInv, Asked
<1>5. CASE DropStatus
  <2>1. /\ UNCHANGED <<lock, waker, woken, pc, mine, abandoned>>
        /\ io' = [io EXCEPT ![bgop] = "free"] /\ on' = [on EXCEPT ![bgop] = "none"]
        /\ cancelled' = cancelled \ {bgop}
        /\ bg = "drop" /\ bg' = "idle"
        /\ pending' >= 0 => pending >= 0
    BY <1>5 DEF DropStatus, Handle!DropStatus, Handle!taskVars, ownVars, madeVars
  <2>2. \A x \in cancelled' : x \in cancelled /\ io'[x] # "free" /\ on'[x] = on[x]
    BY <2>1 DEF HeaderFacts, FutureInv, Asked
  <2> QED
    BY <2>1, <2>2, FutureQuiet
<1>6. CASE Unlock /\ (Handle!UnlockLoad \/ Handle!UnlockRetry)
  <2>1. /\ UNCHANGED <<lock, waker, woken, pc, mine, abandoned, io, on, cancelled>>
        /\ bg # "wake" /\ bg' # "wake"
        /\ pending' >= 0 => pending >= 0
    BY <1>6 DEF Unlock, Handle!UnlockLoad, Handle!UnlockRetry, Handle!taskVars,
       Handle!ioVars, ownVars, madeVars
  <2> QED
    BY <2>1, FutureQuiet DEF FutureInv, Asked
<1> QED
  BY <1>1, <1>2, <1>3, <1>4, <1>5, <1>6

LEMMA FutureNext ==
  ASSUME PortProofs!PInv, SignKept, StrongLock, KeptInv, FutureInv, [Next]_vars
  PROVE  FutureInv'
<1>1. HeaderFacts
  BY HeaderFactsHold
<1>2. ASSUME NEW h \in Handles,
             \/ Poll(h) \/ DropFuture(h) \/ DropHandle(h)
             \/ \E c \in Codes : NewFuture(h, c)
      PROVE  FutureInv'
  <2>1. CASE h \in Kept
    BY <1>1, <1>2, <2>1, FuturePolls, FutureSubmits, FutureDrops DEF Poll
  <2>2. CASE h \in abandoned
    BY <1>1, <1>2, <2>2, LostPolls, FutureDrops DEF Poll
  <2> QED
    BY <2>1, <2>2 DEF Kept
<1>3. CASE Unlock
  BY <1>1, <1>3, FutureUnlocked, FutureWoken, FutureOthers DEF Unlock
<1> QED
  BY <1>1, <1>2, <1>3, FutureOthers DEF Next, Thread

-----------------------------------------------------------------------------
(* What HandleProofs assumes of the callers. *)

\* A handle, once it has lost a future, is never taken for a kept one again.
LEMMA LostForGood ==
  ASSUME abandoned \subseteq Handles, [Next]_vars
  PROVE  abandoned \subseteq abandoned' /\ abandoned' \subseteq Handles
BY DEF Next, vars, ownVars, madeVars, Register, Duplicate, DropHandle, NewFuture, Poll,
   LockStep, Permit, Refused, EndGuard, Submit, DropFuture, Complete, Shutdown, DropArc,
   Thread, Dequeue, DequeueShutdown, Account, Close, Unlock, DropStatus, ThreadReturns

\* A new future on a kept handle finds an open word: what another kind of
\* operation left there was collected.
LEMMA FutureFits ==
  ASSUME FutureInv, NEW h \in Kept
  PROVE  HandleProofs!Fits(h)
BY DEF HandleProofs!Fits, HandleProofs!NewFuture, FutureInv, Calm

LEMMA FutureInvariant ==
  ASSUME StrongLock
  PROVE  Spec => [](KeptInv /\ FutureInv)
<1> DEFINE Both == KeptInv /\ FutureInv
<1>1. Init => Both
  <2> SUFFICES ASSUME Init
               PROVE  Both
    OBVIOUS
  <2>1. HandleProofs!Init
    BY SameHandle DEF Init
  <2>2. /\ lock = [h \in Handles |-> 0] /\ pc = [h \in Handles |-> "idle"]
        /\ woken = [h \in Handles |-> FALSE] /\ cancelled = {} /\ bg = "idle"
        /\ abandoned = {}
    BY DEF Init, Handle!Init
  <2>3. FutureInv
    BY <2>2 DEF FutureInv, OwnWord, Calm, Waiting, Waking, Asked, Kept
  <2>4. HandleProofs!Inv
    BY <2>1, HandleAssumed, HandleProofs!InvInit
  <2>5. KeptInv
    BY <2>2, <2>4 DEF KeptInv, Kept, HandleProofs!Inv, HandleProofs!LockHeld
  <2> QED
    BY <2>3, <2>5
<1>2. PortProofs!PInv /\ SignKept /\ Both /\ [Next]_vars => Both'
  <2> SUFFICES ASSUME PortProofs!PInv, SignKept, KeptInv, FutureInv, [Next]_vars
               PROVE  Both'
    OBVIOUS
  <2>1. /\ HandleProofs!TypeOK /\ HandleProofs!InUse /\ HandleProofs!LockHeld
        /\ abandoned \subseteq Handles
    BY DEF KeptInv
  <2>2. [HandleProofs!Next]_(HandleProofs!vars)
    BY HandleNext, SameHandle
  <2>3. HandleProofs!StrongLock
    BY DEF HandleProofs!StrongLock, StrongLock
  <2>4. HandleProofs!TypeOK' /\ HandleProofs!InUse' /\ HandleProofs!LockHeld'
    BY <2>1, <2>2, HandleAssumed, HandleProofs!TypeNext, HandleProofs!LockHeldNext
  <2>5. ASSUME NEW h \in Kept
        PROVE  HandleProofs!InOrder(h)'
    <3>1. h \in Handles /\ HandleProofs!InOrder(h)
      BY DEF KeptInv, Kept
    <3>2. HandleProofs!Fits(h)
      BY FutureFits
    <3> QED
      BY <2>1, <2>2, <2>3, <3>1, <3>2, HandleAssumed, HandleProofs!OrderNext
  <2>6. Kept' \subseteq Kept /\ abandoned' \subseteq Handles
    BY <2>1, LostForGood DEF Kept
  <2>7. KeptInv'
    BY <2>4, <2>5, <2>6 DEF KeptInv
  <2> QED
    BY <2>7, FutureNext
<1> HIDE DEF Both
<1>3. Spec => []Both
  BY <1>1, <1>2, PortInvariant, SignKeptHolds, PTL DEF Spec
<1>4. Both => KeptInv /\ FutureInv
  BY DEF Both
<1> QED
  BY <1>3, <1>4, PTL

-----------------------------------------------------------------------------
(* Where a task is, and what the port knows of it. *)

\* The labels between lock()'s permit and the end of the guard.
Guarded == {"register", "cas", "store", "busy", "submit", "collect"}

\* A task holds a permit, or a refusal, exactly while its poll is at a label
\* that has one.
Linked ==
  /\ pc \in [Handles -> Labels]
  /\ \A h \in Handles : /\ client[h] = "permit" <=> pc[h] \in Guarded
                        /\ client[h] = "refused" <=> pc[h] = "refused"

LEMMA LinkedNext ==
  ASSUME PortProofs!PInv, SignKept, Linked, [Next]_vars
  PROVE  Linked'
<1>1. client \in [Handles -> {"idle", "refused", "permit"}]
  BY DEF PortProofs!PInv, PortProofs!TypeOK
<1> USE <1>1 DEF Linked, Labels, Guarded
<1>2. ASSUME NEW h \in Handles, LockStep(h)
      PROVE  Linked'
  <2>1. client' = client
    BY <1>2 DEF LockStep, portVars
  <2> QED
    BY <1>2, <2>1 DEF LockStep, Handle!PollAgain, Handle!Register, Handle!HeaderLock,
       Handle!HeaderLockFails, Handle!HeaderLockStore, Handle!Goto
<1>3. ASSUME NEW h \in Handles, Permit(h) \/ Refused(h) \/ EndGuard(h)
      PROVE  Linked'
  BY <1>3 DEF Permit, Refused, EndGuard, Port!Permit, Port!UndoPermit, Port!DropPermit,
     Handle!Permit, Handle!Refused, Handle!Busy, Handle!SubmitFails, Handle!Collect,
     Handle!EndFuture, Handle!Goto
<1>4. ASSUME NEW h \in Handles, NEW o \in Ops, Submit(h, o)
      PROVE  Linked'
  BY <1>4 DEF Submit, Port!Submit, Handle!Submit, Handle!Goto
<1>5. ASSUME NEW h \in Handles,
             DropHandle(h) \/ (\E c \in Codes : NewFuture(h, c)) \/ DropFuture(h)
      PROVE  Linked'
  <2>1. client' = client
    BY <1>5 DEF DropHandle, NewFuture, DropFuture, portVars
  <2> QED
    BY <1>5, <2>1 DEF DropHandle, NewFuture, DropFuture, Handle!DropHandle,
       Handle!NewFuture, Handle!DropFuture, Handle!EndFuture, Handle!Goto
<1>6. ASSUME NEW h \in Handles, Register(h) \/ \E d \in Handles : Duplicate(h, d)
      PROVE  Linked'
  BY <1>6 DEF Register, Duplicate, portVars, handleVars
<1>7. CASE (\E o \in Ops : Complete(o)) \/ Thread \/ Shutdown \/ DropArc("user")
           \/ UNCHANGED vars
  <2>1. pc' = pc
    BY <1>7 DEF Complete, Shutdown, DropArc, Thread, Dequeue,
       DequeueShutdown, Account, Close, Unlock, DropStatus, ThreadReturns, vars,
       handleVars, Handle!Complete, Handle!Dequeue, Handle!Close, Handle!UnlockLoad,
       Handle!UnlockCAS, Handle!UnlockRetry, Handle!Wake, Handle!DropStatus,
       Handle!taskVars
  <2>2. client' = client
    BY <1>7 DEF Complete, Shutdown, DropArc, Thread, Dequeue,
       DequeueShutdown, Account, Close, Unlock, DropStatus, ThreadReturns, vars,
       portVars, Port!Complete, Port!Shutdown, Port!Poll, Port!PollDuringShutdown,
       Port!PollDuringShutdownReserved, Port!AccountStatus, Port!AccountShutdown,
       Port!Deliver, Port!Release
  <2> QED
    BY <2>1, <2>2
<1> QED
  BY <1>2, <1>3, <1>4, <1>5, <1>6, <1>7 DEF Next, Poll

LEMMA LinkedAlways == Spec => []Linked
<1>1. Init => Linked
  BY DEF Init, Port!Init, Handle!Init, Linked, Labels, Guarded
<1>2. PortProofs!PInv /\ SignKept /\ Linked /\ [Next]_vars => Linked'
  BY LinkedNext
<1> QED
  BY <1>1, <1>2, PortInvariant, SignKeptHolds, PTL DEF Spec

-----------------------------------------------------------------------------
(* What the futures are promised. *)

\* On a handle that lost no future, a future returns the result of the operation
\* it submitted: whatever kinds of operation follow each other there, whichever
\* futures are dropped on other handles, and whether or not the port is closing.
THEOREM CollectsOwnHolds == ASSUME StrongLock PROVE Spec => []CollectsOwn
<1>1. FutureInv => CollectsOwn
  BY DEF FutureInv, OwnWord, CollectsOwn
<1> QED
  BY <1>1, FutureInvariant, PTL

\* A header of a kept handle that is idle or gone is not locked.
LEMMA KeptFree ==
  ASSUME KeptInv, FutureInv, NEW o \in Ops, io[o] = "flight", on[o] \in Kept
  PROVE  pc[on[o]] # "gone"
<1>1. on[o] \in Handles /\ o \in HandleProofs!Pending(on[o])
  BY DEF Kept, HandleProofs!Pending, HandleProofs!Unfinished
<1>2. lock[on[o]] \in Int /\ lock[on[o]] > 0
  BY <1>1, HandleAssumed, HandleProofs!PendingPositive DEF KeptInv, HandleProofs!InOrder
<1> QED
  BY <1>2 DEF FutureInv, Calm

\* No handle frees the buffers of an operation the kernel still has, unless a
\* future of that handle was dropped while it waited.
THEOREM PoolOutlivesIOHolds == ASSUME StrongLock PROVE Spec => []PoolOutlivesIO
<1>1. KeptInv /\ FutureInv => PoolOutlivesIO
  <2> SUFFICES ASSUME KeptInv, FutureInv, NEW o \in Ops,
                      io[o] = "flight", pc[on[o]] = "gone"
               PROVE  on[o] \in abandoned
    BY DEF PoolOutlivesIO
  <2>1. on[o] \in Handles
    BY DEF KeptInv, HandleProofs!InUse
  <2> QED
    BY <2>1, KeptFree DEF Kept
<1> QED
  BY <1>1, FutureInvariant, PTL

\* When the background thread has returned there is nothing left to complete:
\* no header stays locked, kept or not, and no future of a kept handle waits for
\* a wake that nobody will send.
THEOREM NoneStrandedHolds == ASSUME StrongLock PROVE Spec => []NoneStranded
<1>1. PortProofs!PInv /\ Linked /\ KeptInv /\ FutureInv => NoneStranded
  <2> SUFFICES ASSUME PortProofs!PInv, Linked, KeptInv, FutureInv,
                      thread = "done", NEW h \in Handles
               PROVE  lock[h] <= 0 /\ (h \in Kept /\ pc[h] = "wait" => woken[h])
    BY DEF NoneStranded, Kept
  <2>1. PortProofs!Permits = 0 /\ PortProofs!InKernel = 0
    BY DEF PortProofs!PInv, PortProofs!Counted, PortProofs!Covered
  <2>2. PortProofs!Permitted = {} /\ PortProofs!Outstanding = {}
    BY <2>1, PortAssumed, PortProofs!Sizes
  <2>3. pc[h] # "submit"
    BY <2>2 DEF PortProofs!Permitted, Linked, Guarded
  <2>4. \A o \in Ops : io[o] = "free"
    BY <2>2 DEF PortProofs!Outstanding
  <2>5. HeaderFacts
    BY HeaderFactsHold
  <2>6. bg = "idle" /\ HandleProofs!Pending(h) = {}
    BY <2>4, <2>5 DEF HeaderFacts, HandleProofs!Pending, HandleProofs!Unfinished
  <2>7. ~ (lock[h] > 0) /\ lock[h] \in Int
    BY <2>3, <2>5, <2>6 DEF KeptInv, HandleProofs!LockHeld, HeaderFacts
  <2>8. ASSUME h \in Kept, pc[h] = "wait"
        PROVE  woken[h]
    BY <2>6, <2>7, <2>8 DEF FutureInv, Waiting
  <2> QED
    BY <2>7, <2>8
<1> QED
  BY <1>1, FutureInvariant, LinkedAlways, PortInvariant, PTL

-----------------------------------------------------------------------------
(* What Handle promises of its headers, for any number of kinds.           *)
(* HandleProofs has it for one kind where futures are dropped.  A kept     *)
(* handle needs no such assumption: the header of a handle is put out of   *)
(* order by the futures dropped on that handle and by nothing else.        *)

\* On a kept handle no two operations share the header, no guard exists beside
\* one, the lock word is the code of what is pending, a result is read when it is
\* final, and a task that waits for nothing is woken.
HeadersKept ==
  \A h \in Kept :
    /\ \A o1, o2 \in Handle!Pending(h) : o1 = o2
    /\ pc[h] \in {"submit", "collect"} => Handle!Pending(h) = {}
    /\ \A o \in Handle!Pending(h) : lock[h] = kind[o]
    /\ pc[h] = "collect" => ovl[h] \in Handle!Results
    /\ pc[h] = "wait" /\ lock[h] <= 0 => woken[h] \/ (bg = "wake" /\ on[bgop] = h)

\* The header of a handle that lost no future is in order for any number of
\* kinds, whatever is dropped, cancelled or discarded on the other handles, and
\* while header, waker and port are used by task and thread at once.
THEOREM HeadersKeptHolds == ASSUME StrongLock PROVE Spec => []HeadersKept
<1>1. KeptInv /\ FutureInv => HeadersKept
  <2> SUFFICES ASSUME KeptInv, FutureInv, NEW h \in Kept
               PROVE  HeadersKept!(h)
    BY DEF HeadersKept
  <2>1. Handle!Pending(h) = HandleProofs!Pending(h) /\ Handle!Results = HandleProofs!Results
    BY DEF Handle!Pending, Handle!Unfinished, Handle!Results, HandleProofs!Pending,
       HandleProofs!Unfinished, HandleProofs!Results
  <2>2. HandleProofs!Held(h) /\ HandleProofs!Word(h)
    BY DEF KeptInv, HandleProofs!InOrder
  <2>3. lock[h] \in Int
    BY HeaderFactsHold DEF HeaderFacts, Kept
  <2> QED
    BY <2>1, <2>2, <2>3 DEF HandleProofs!Held, HandleProofs!Word, FutureInv, Waiting
<1> QED
  BY <1>1, FutureInvariant, PTL
=============================================================================
