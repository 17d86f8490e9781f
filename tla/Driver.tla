------------------------------- MODULE Driver -------------------------------
(***************************************************************************)
(* The driver as a whole: the tasks of Handle.tla over the counter, queue  *)
(* and background thread of CompletionPort.tla.  A client of the port is a *)
(* task that polls the future of a handle or a socket, and a permit is     *)
(* held from the task's call of lock() to the end of its guard.            *)
(*                                                                         *)
(* An action is a step of one component joined with what the other does in *)
(* the same step, or with its standing still.  What is new here is who     *)
(* owns the port: `setup` puts it in an Arc that the user and the thread   *)
(* share, register_handle, register_socket and duplicate put a clone in    *)
(* every wrapper, and the last one closes the system's handle.             *)
(***************************************************************************)
EXTENDS Integers, Sequences, FiniteSets

CONSTANTS
  Handles, Ops, Codes, WeakCAS,  \* as in Handle
  Half, Builds, MaxShutdowns,    \* as in CompletionPort
  Outcomes,                      \* how the kernel may end an operation, of Handle's Results
  MaxFutures                     \* bound: how many futures are made

\* What CompletionPort and Handle assume, with room in the counter for every
\* task's permit and refusal and for every operation.
ASSUME DriverAssumption ==
  /\ IsFiniteSet(Handles) /\ IsFiniteSet(Ops) /\ Handles # {}
  /\ Ops \cap {"shutdown", "message", "reserved", "none"} = {}
  /\ "none" \notin Ops \cup Handles
  /\ Codes \subseteq Nat \ {0} /\ Codes # {}
  /\ WeakCAS \subseteq {"lock", "unlock"}
  /\ Half \in Nat /\ Half > 2 * Cardinality(Handles) + Cardinality(Ops)
  /\ Builds \subseteq BOOLEAN /\ Builds # {}
  /\ MaxShutdowns \in Nat /\ MaxFutures \in Nat
  /\ Outcomes \subseteq {"ok", "eof", "aborted", "error"}

VARIABLES
  pending, client, queue, thread, got, left, shutdowns,  \* CompletionPort
  io,                                                    \* shared by both
  lock, waker, woken, pc, fut, seen, mine,               \* Handle: the tasks
  on, kind, ovl, cancelled, refs,                        \* its operations
  bg, bgop, old,                                         \* its thread
  abandoned,  \* history: the handles that lost a future while it waited
  made,       \* how many futures were made
  wrapped,    \* the resources that are, or were, in a Handle or a Socket
  owners,     \* who holds the Arc<CompletionPort> that setup returned
  inner       \* the reference count of Arc<Inner>

portVars == <<pending, client, queue, thread, got, left, shutdowns>>
handleVars == <<lock, waker, woken, pc, fut, seen, mine, on, kind, ovl,
                cancelled, refs, bg, bgop, old>>
arcVars == <<wrapped, owners, inner>>
madeVars == <<abandoned, made>>
ownVars == <<madeVars, arcVars>>
vars == <<io, portVars, handleVars, ownVars>>

\* The port: its clients are the tasks, and nobody posts.
Port == INSTANCE CompletionPort WITH
          Clients <- Handles, MaxPosts <- 0,
          bg <- thread, posts <- 0, stray <- 0

\* The handles: the port is open as long as its counter is not negative.
Handle == INSTANCE Handle WITH
            Cancels <- TRUE, Siblings <- FALSE, open <- pending >= 0

\* The wrappers that exist; each has a clone of the port.
Live == {h \in wrapped : pc[h] # "gone"}

\* Inner's Drop closes the system's handle.
Closed == inner = 0

TypeOK ==
  /\ Port!TypeOK /\ Handle!TypeOK
  /\ abandoned \subseteq Handles /\ made \in 0..MaxFutures /\ wrapped \subseteq Handles
  /\ owners \subseteq {"user", "thread"}
  /\ inner \in Nat

\* setup(): one CompletionPort, which the caller and the thread share.
Init ==
  /\ Port!Init /\ Handle!Init
  /\ abandoned = {} /\ made = 0 /\ wrapped = {}
  /\ owners = {"user", "thread"}
  /\ inner = 1

-----------------------------------------------------------------------------
(* Ownership. *)

\* register_handle, register_socket: the resource is associated with the port
\* and wrapped with a clone of it.  (A reserved key, or a failure of the call,
\* is returned as an error and leaves nothing behind.)
Register(h) ==
  /\ "user" \in owners
  /\ h \notin wrapped
  /\ wrapped' = wrapped \cup {h}
  /\ inner' = inner + 1
  /\ UNCHANGED <<io, portVars, handleVars, madeVars, owners>>

\* Fault: the port is borrowed, not cloned.
DuplicateBorrows(h, d) ==
  /\ h \in Live /\ pc[h] = "idle"
  /\ d \notin wrapped
  /\ wrapped' = wrapped \cup {d}
  /\ UNCHANGED <<io, portVars, handleVars, madeVars, owners, inner>>

\* duplicate(): a second wrapper with a header and a pool of its own.
Duplicate(h, d) ==
  /\ h \in Live /\ pc[h] = "idle"
  /\ d \notin wrapped
  /\ wrapped' = wrapped \cup {d}
  /\ inner' = inner + 1
  /\ UNCHANGED <<io, portVars, handleVars, madeVars, owners>>

\* A wrapper is dropped, and its clone of the port with it.
DropHandle(h) ==
  /\ h \in Live
  /\ UNCHANGED <<portVars, madeVars, wrapped, owners>>
  /\ Handle!DropHandle(h)
  /\ inner' = inner - 1

\* One of the two holders of setup's Arc lets go of it.
DropArc(x) ==
  /\ x \in owners
  /\ owners' = owners \ {x}
  /\ inner' = IF owners = {x} THEN inner - 1 ELSE inner
  /\ UNCHANGED <<io, portVars, handleVars, madeVars, wrapped>>

\* The thread's closure ends, and drops what it has captured.
ThreadReturns == thread \in {"done", "failed", "panicked"} /\ DropArc("thread")

-----------------------------------------------------------------------------
(* The tasks. *)

\* A future is made, and polled at once, on any wrapper: also on one whose last
\* future was dropped and has left its operation in the kernel.
NewFuture(h, c) ==
  /\ h \in Live
  /\ made < MaxFutures
  /\ UNCHANGED <<portVars, abandoned, arcVars>>
  /\ Handle!NewFuture(h, c)
  /\ made' = made + 1

\* A future is dropped while it waits; its operation stays where it is.
DropFuture(h) ==
  /\ UNCHANGED <<portVars, arcVars>>
  /\ Handle!DropFuture(h)
  /\ abandoned' = abandoned \cup {h}
  /\ UNCHANGED made

\* The executor polls a woken task; lock() registers its waker and looks at the
\* lock word.  The permit is held all the while.
LockStep(h) ==
  /\ UNCHANGED <<portVars, ownVars>>
  /\ \/ Handle!PollAgain(h) \/ Handle!Register(h) \/ Handle!HeaderLock(h)
     \/ Handle!HeaderLockFails(h) \/ Handle!HeaderLockStore(h)

\* lock(): permit() grants or refuses.
Permit(h) ==
  /\ Port!Permit(h)
  /\ Handle!Permit(h)
  /\ UNCHANGED ownVars

Refused(h) ==
  /\ Port!UndoPermit(h)
  /\ Handle!Refused(h)
  /\ UNCHANGED ownVars

\* The header was busy, the submission failed or the result was collected:
\* the guard opens the header, and its permit is dropped with it.
EndGuard(h) ==
  /\ Port!DropPermit(h)
  /\ Handle!Busy(h) \/ Handle!SubmitFails(h) \/ Handle!Collect(h)
  /\ UNCHANGED ownVars

\* Fault: the permit is not forgotten with the guard.
SubmitDropsPermit(h, o) ==
  /\ Port!SubmitDropsPermit(h, o)
  /\ Handle!Submit(h, o)
  /\ UNCHANGED ownVars

\* The operation is submitted: guard, permit and OVERLAPPED are forgotten.
Submit(h, o) ==
  /\ Port!Submit(h, o)
  /\ Handle!Submit(h, o)
  /\ UNCHANGED ownVars

Poll(h) ==
  \/ LockStep(h) \/ Permit(h) \/ Refused(h) \/ EndGuard(h) \/ \E o \in Ops : Submit(h, o)

-----------------------------------------------------------------------------
(* The kernel, and the user's call of shutdown. *)

Complete(o) ==
  /\ Port!Complete(o)
  /\ \E r \in Outcomes : Handle!Complete(o, r)
  /\ UNCHANGED ownVars

Shutdown ==
  /\ "user" \in owners
  /\ Port!Shutdown
  /\ UNCHANGED <<io, handleVars, ownVars>>

-----------------------------------------------------------------------------
(* The background thread. *)

\* A status is dequeued by poll or by poll_during_shutdown.
Dequeue ==
  /\ queue # <<>> /\ Head(queue) \in Ops
  /\ Port!Poll \/ Port!PollDuringShutdown
  /\ Handle!Dequeue(Head(queue))
  /\ UNCHANGED ownVars

\* A shutdown message is dequeued, for the first time or again.
DequeueShutdown ==
  /\ queue # <<>> /\ Head(queue) \notin Ops
  /\ Port!Poll \/ Port!PollDuringShutdownReserved
  /\ UNCHANGED <<handleVars, ownVars>>

\* poll() takes a status off the counter before it returns it.
Account ==
  /\ Port!AccountStatus
  /\ UNCHANGED <<io, handleVars, ownVars>>

\* poll() returns Shutdown.
Close ==
  /\ Port!AccountShutdown
  /\ Handle!Close
  /\ UNCHANGED ownVars

\* The loops unlock or release the header...
Unlock ==
  /\ thread \in {"deliver", "release"}
  /\ UNCHANGED <<portVars, ownVars>>
  /\ Handle!UnlockLoad \/ Handle!UnlockCAS \/ Handle!UnlockRetry \/ Handle!Wake

\* ... and drop the status.
DropStatus ==
  /\ Port!Deliver \/ Port!Release
  /\ Handle!DropStatus
  /\ UNCHANGED ownVars

Thread ==
  \/ Dequeue \/ DequeueShutdown \/ Account \/ Close \/ Unlock \/ DropStatus
  \/ ThreadReturns

Next ==
  \/ \E h \in Handles :
       \/ Register(h) \/ \E d \in Handles : Duplicate(h, d)
       \/ DropHandle(h) \/ \E c \in Codes : NewFuture(h, c)
       \/ Poll(h) \/ DropFuture(h)
  \/ \E o \in Ops : Complete(o)
  \/ Shutdown \/ DropArc("user")
  \/ Thread

Spec == Init /\ [][Next]_vars

\* The executor polls woken tasks and ends the polls it has begun, the thread
\* runs, and the kernel completes what it accepted.
FairSpec ==
  /\ Spec
  /\ \A h \in Handles : WF_vars(Poll(h))
  /\ \A o \in Ops : WF_vars(Complete(o))
  /\ WF_vars(Thread)

-----------------------------------------------------------------------------
(* Properties. *)

\* The system's handle of the port is closed when nobody can use it any more,
\* neither earlier nor never.
ClosedWhenUnused == Closed <=> owners = {} /\ Live = {}

\* No operation is in the kernel or on its way back when the port is closed:
\* its packet, and the header the packet owns, would be lost.
DrainedAtClose == Closed => Port!Outstanding = {}

\* The counter is on the open side of zero until poll returns Shutdown and on
\* the other side from then on: no permit that is taken, refused or given back
\* and no status that is taken off moves it across.  (An action of Driver joins
\* a step of the port with one of a handle that finds `open` unchanged: this is
\* what makes the two agree whenever the port has such a step.)
SignKept ==
  LET Same(n) == Port!Wrap(n) >= 0 <=> pending >= 0 IN
  /\ \A h \in Handles : IF client[h] = "idle" THEN Same(pending + 1)
                                             ELSE Same(pending - 1)
  /\ thread = "account" =>
       IF got = "shutdown" THEN pending >= 0 /\ Port!Wrap(pending - Half) < 0
                           ELSE Same(pending - 1)

\* The handles none of whose futures was dropped while it waited.  A dropped
\* future leaves its operation in the kernel, and then its completion in the
\* header; the next future on that handle finds the one or the other.
Kept == Handles \ abandoned

\* When the background thread has returned no header is left locked, whatever was
\* dropped, and no future of a kept handle waits for a wake that nobody sends.
NoneStranded ==
  thread = "done" =>
    /\ \A h \in Handles : lock[h] <= 0
    /\ \A h \in Kept : pc[h] = "wait" => woken[h]

\* On a kept handle the result a future returns is that of the operation it
\* submitted.  (On any other it may be what the dropped future left: header_lock
\* tells operations apart by their code only.)
CollectsOwn == \A h \in Kept : pc[h] = "collect" => mine[h]

\* The buffers of a handle are freed while the kernel may use them only when a
\* future of that handle was dropped in mid-operation.
PoolOutlivesIO ==
  \A o \in Ops : io[o] = "flight" /\ pc[on[o]] = "gone" => on[o] \in abandoned

\* The port is to the handles what Handle takes it to be: a flag that is lowered
\* once.
ImplementsHandle == Handle!Spec

\* Every operation the kernel accepted comes back to the thread, which drops its
\* status: before, during and after the call of shutdown, and whether or not the
\* future and the handle it was made for still exist.
CompletionsArrive == \A o \in Ops : io[o] = "flight" ~> io[o] = "free"

\* A future of a kept handle that waits is finished sooner or later, with a
\* result or because the port is shutting down, whenever shutdown is called.
\* (A future that finds the operation of a dropped one cancels it, and the
\* aborted completion wakes nobody: that one may wait for ever.)
FutureResolves ==
  \A h \in Handles : pc[h] = "wait" ~> (fut[h] = 0 \/ h \in abandoned)

\* shutdown() makes the background thread return, so that join() does, if no
\* future is polled once it has been called.
JoinReturns ==
  [](shutdowns > 0 => \A h \in Handles : client[h] = "idle")
    => (shutdowns > 0 ~> thread = "done")
=============================================================================
