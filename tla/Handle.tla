------------------------------- MODULE Handle -------------------------------
(***************************************************************************)
(* An overlapped resource: the lock word and waker of its header (task.rs),*)
(* the poll functions of the handle and its futures (handle.rs; socket.rs  *)
(* has the same structure), the kernel, and the background thread's        *)
(* delivery of a completion (background.rs).                               *)
(*                                                                         *)
(* Every access to the lock word is a step of its own, so the task that    *)
(* polls and the background thread that delivers interleave at all of      *)
(* them.  The waker cell is atomic here (AtomicWaker.tla has its steps),   *)
(* and the port is the Boolean `open` (CompletionPort.tla has its counter).*)
(***************************************************************************)
EXTENDS Integers, FiniteSets

CONSTANTS
  Handles,   \* the resources
  Ops,       \* identities for the operations in the kernel or on their way back
  Codes,     \* the lock codes in use, as header_lock stores them (Code + 1)
  WeakCAS,   \* the functions ("lock", "unlock") whose compare_exchange_weak may
             \* fail although the word matches
  Cancels,   \* futures may be dropped before they are finished
  Siblings   \* the task also polls its future when something else wakes it,
             \* as join! and select! do

ASSUME HandleAssumption ==
  /\ Codes \subseteq Nat \ {0} /\ Codes # {}
  /\ IsFiniteSet(Ops) /\ Handles # {}
  /\ "none" \notin Ops \cup Handles
  /\ WeakCAS \subseteq {"lock", "unlock"}
  /\ {Cancels, Siblings} \subseteq BOOLEAN

VARIABLES
  lock,       \* lock[h]: Header::lock: 0 open, n submitted, -n completed
  waker,      \* waker[h]: the header's cell holds the task's waker
  woken,      \* woken[h]: the executor has been told to poll h's task again
  pc,         \* pc[h]: where the task is in the poll of h's future
  fut,        \* fut[h]: the code of that future's operation, 0 without one
  seen,       \* seen[h]: the value the failed compare-exchange returned, 0
              \* when header_lock is not looking at one
  mine,       \* mine[h]: the last operation was submitted by this future
  io,         \* io[o]: where operation o is, as in CompletionPort
  on, kind,   \* on[o], kind[o]: the handle and code o was submitted with
              \* ("none" and 0 for an identity that is not in use)
  ovl,        \* ovl[h]: the status the kernel has put in h's OVERLAPPED
  cancelled,  \* operations CancelIoEx has been called for
  refs,       \* refs[h]: the reference count of h's Arc<Header>
  open,       \* the port grants permits; from then on it drains
  bg,         \* where the background thread is in the delivery of an operation
  bgop, old   \* that operation, and the lock word `unlock` has read

taskVars == <<waker, woken, pc, fut, seen, mine>>
ioVars == <<io, on, kind, ovl, cancelled>>
bgVars == <<bg, bgop, old>>
vars == <<lock, taskVars, ioVars, refs, open, bgVars>>

\* What GetOverlappedResult and the completion packet can report: success,
\* end of file or a broken pipe, cancellation, any other error.
Results == {"ok", "eof", "aborted", "error"}

LockWords == {0} \cup Codes \cup {-c : c \in Codes}

TypeOK ==
  /\ lock \in [Handles -> LockWords]
  /\ waker \in [Handles -> BOOLEAN]
  /\ woken \in [Handles -> BOOLEAN]
  /\ pc \in [Handles -> {"idle", "poll", "refused", "register", "cas", "store",
                         "busy", "submit", "collect", "wait", "gone"}]
  /\ fut \in [Handles -> Codes \cup {0}]
  /\ seen \in [Handles -> LockWords]
  /\ mine \in [Handles -> BOOLEAN]
  /\ io \in [Ops -> {"free", "flight", "queued", "taken"}]
  /\ on \in [Ops -> Handles \cup {"none"}]
  /\ kind \in [Ops -> Codes \cup {0}]
  /\ ovl \in [Handles -> Results \cup {"none", "pending"}]
  /\ cancelled \subseteq Ops
  /\ refs \in [Handles -> Int]
  /\ open \in BOOLEAN
  /\ bg \in {"idle", "load", "cas", "wake", "drop"}
  /\ bgop \in Ops \cup {"none"}
  /\ old \in LockWords

Init ==
  /\ lock = [h \in Handles |-> 0]
  /\ waker = [h \in Handles |-> FALSE]
  /\ woken = [h \in Handles |-> FALSE]
  /\ pc = [h \in Handles |-> "idle"]
  /\ fut = [h \in Handles |-> 0]
  /\ seen = [h \in Handles |-> 0]
  /\ mine = [h \in Handles |-> FALSE]
  /\ io = [o \in Ops |-> "free"]
  /\ on = [o \in Ops |-> "none"]
  /\ kind = [o \in Ops |-> 0]
  /\ ovl = [h \in Handles |-> "none"]
  /\ cancelled = {}
  /\ refs = [h \in Handles |-> 1]
  /\ open = TRUE
  /\ bg = "idle" /\ bgop = "none" /\ old = 0

-----------------------------------------------------------------------------
(* The task. *)

Goto(h, label) == pc' = [pc EXCEPT ![h] = label]

\* The future is finished (or dropped): the handle is free for the next one.
EndFuture(h) ==
  /\ Goto(h, "idle")
  /\ fut' = [fut EXCEPT ![h] = 0]
  /\ mine' = [mine EXCEPT ![h] = FALSE]

\* Operations of h that are still in the kernel: CancelIoEx marks them.
CancelIoEx(h) ==
  cancelled' = cancelled \cup {o \in Ops : io[o] = "flight" /\ on[o] = h}

\* run_operation, read, write, ... on h; the new future is polled at once.
NewFuture(h, c) ==
  /\ pc[h] = "idle"
  /\ Goto(h, "poll")
  /\ fut' = [fut EXCEPT ![h] = c]
  /\ mine' = [mine EXCEPT ![h] = FALSE]
  /\ UNCHANGED <<lock, waker, woken, seen, ioVars, refs, open, bgVars>>

\* lock(): the port grants a permit, or the poll fails.
Permit(h) ==
  /\ pc[h] = "poll"
  /\ Goto(h, IF open THEN "register" ELSE "refused")
  /\ UNCHANGED <<lock, waker, woken, fut, seen, mine, ioVars, refs, open, bgVars>>

\* The poll returns "port is shutting down"; the header is left as it is.
Refused(h) ==
  /\ pc[h] = "refused"
  /\ EndFuture(h)
  /\ UNCHANGED <<lock, waker, woken, seen, ioVars, refs, open, bgVars>>

\* Fault: the waker is not registered.
RegisterSkipped(h) ==
  /\ pc[h] = "register"
  /\ Goto(h, "cas")
  /\ UNCHANGED <<lock, waker, woken, fut, seen, mine, ioVars, refs, open, bgVars>>

\* lock(): register_by_ref, before the lock word is looked at.
Register(h) ==
  /\ pc[h] = "register"
  /\ waker' = [waker EXCEPT ![h] = TRUE]
  /\ Goto(h, "cas")
  /\ UNCHANGED <<lock, woken, fut, seen, mine, ioVars, refs, open, bgVars>>

\* header_lock(): the compare-exchange of 0 by the operation's code succeeds.
HeaderLock(h) ==
  /\ pc[h] = "cas"
  /\ lock[h] = 0
  /\ lock' = [lock EXCEPT ![h] = fut[h]]
  /\ Goto(h, "submit")
  /\ UNCHANGED <<waker, woken, fut, seen, mine, ioVars, refs, open, bgVars>>

\* Fault: a positive word is not recognised as busy.
HeaderLockFailsNotBusy(h) ==
  /\ pc[h] = "cas"
  /\ lock[h] # 0 \/ "lock" \in WeakCAS
  /\ seen' = [seen EXCEPT ![h] = lock[h]]
  /\ Goto(h, "store")
  /\ UNCHANGED <<lock, waker, woken, fut, mine, ioVars, refs, open, bgVars>>

\* header_lock(): the compare-exchange fails and returns the word it found.
HeaderLockFails(h) ==
  /\ pc[h] = "cas"
  /\ lock[h] # 0 \/ "lock" \in WeakCAS
  /\ seen' = [seen EXCEPT ![h] = lock[h]]
  /\ Goto(h, IF lock[h] > 0 THEN "busy" ELSE "store")
  /\ UNCHANGED <<lock, waker, woken, fut, mine, ioVars, refs, open, bgVars>>

\* header_lock(): the word was not positive.  It is set to 0, and the guard is
\* Pending if it was the completion of this kind of operation, else Idle.
HeaderLockStore(h) ==
  /\ pc[h] = "store"
  /\ lock' = [lock EXCEPT ![h] = 0]
  /\ Goto(h, IF fut[h] = -seen[h] THEN "collect" ELSE "submit")
  /\ seen' = [seen EXCEPT ![h] = 0]
  /\ UNCHANGED <<waker, woken, fut, mine, ioVars, refs, open, bgVars>>

\* lock(): the header is busy.  header_lock compares the code with the
\* negated word; on a mismatch the operation is cancelled.
Busy(h) ==
  /\ pc[h] = "busy"
  /\ IF fut[h] # -seen[h] THEN CancelIoEx(h) ELSE UNCHANGED cancelled
  /\ Goto(h, "wait")
  /\ seen' = [seen EXCEPT ![h] = 0]
  /\ UNCHANGED <<lock, waker, woken, fut, mine, io, on, kind, ovl, refs, open,
                 bgVars>>

\* The system call hands the OVERLAPPED of h to the kernel, as operation o.
KernelAccepts(h, o) ==
  /\ io[o] = "free"
  /\ io' = [io EXCEPT ![o] = "flight"]
  /\ on' = [on EXCEPT ![o] = h]
  /\ kind' = [kind EXCEPT ![o] = fut[h]]
  /\ ovl' = [ovl EXCEPT ![h] = "pending"]

\* Fault: the guard is dropped, not forgotten, and opens the lock.
SubmitDropsGuard(h, o) ==
  /\ pc[h] = "submit"
  /\ KernelAccepts(h, o)
  /\ refs' = [refs EXCEPT ![h] = @ + 1]
  /\ mine' = [mine EXCEPT ![h] = TRUE]
  /\ lock' = [lock EXCEPT ![h] = 0]
  /\ Goto(h, "wait")
  /\ UNCHANGED <<waker, woken, fut, seen, cancelled, open, bgVars>>

\* Fault: the OVERLAPPED pointer is dropped, not forgotten.
SubmitDropsOverlapped(h, o) ==
  /\ pc[h] = "submit"
  /\ KernelAccepts(h, o)
  /\ mine' = [mine EXCEPT ![h] = TRUE]
  /\ Goto(h, "wait")
  /\ UNCHANGED <<lock, waker, woken, fut, seen, cancelled, refs, open, bgVars>>

\* Fault: ERROR_IO_PENDING is returned to the caller like any other error.
SubmitPendingIsError(h, o) ==
  /\ pc[h] = "submit"
  /\ KernelAccepts(h, o)
  /\ lock' = [lock EXCEPT ![h] = 0]
  /\ EndFuture(h)
  /\ UNCHANGED <<waker, woken, seen, cancelled, refs, open, bgVars>>

\* Idle guard: prepare() clones the header's Arc into the OVERLAPPED pointer,
\* the kernel accepts the operation, and guard and pointer are forgotten.
Submit(h, o) ==
  /\ pc[h] = "submit"
  /\ KernelAccepts(h, o)
  /\ refs' = [refs EXCEPT ![h] = @ + 1]
  /\ mine' = [mine EXCEPT ![h] = TRUE]
  /\ Goto(h, "wait")
  /\ UNCHANGED <<lock, waker, woken, fut, seen, cancelled, open, bgVars>>

\* Fault: the error path leaves the header locked.
SubmitFailsLocked(h) ==
  /\ pc[h] = "submit"
  /\ EndFuture(h)
  /\ UNCHANGED <<lock, waker, woken, seen, ioVars, refs, open, bgVars>>

\* Fault: the guard's Drop calls unlock in place of unlock_to_open.
SubmitFailsUnlocks(h) ==
  /\ pc[h] = "submit"
  /\ lock' = [lock EXCEPT ![h] = -@]
  /\ EndFuture(h)
  /\ UNCHANGED <<waker, woken, seen, ioVars, refs, open, bgVars>>

\* Idle guard: the system call fails at once.  The pointer is dropped, which
\* takes the clone back, then the guard, which opens the lock.
SubmitFails(h) ==
  /\ pc[h] = "submit"
  /\ lock' = [lock EXCEPT ![h] = 0]
  /\ EndFuture(h)
  /\ UNCHANGED <<waker, woken, seen, ioVars, refs, open, bgVars>>

\* Pending guard: the result is read from the OVERLAPPED and returned, as a
\* value or as an error; dropping the guard opens the lock.
Collect(h) ==
  /\ pc[h] = "collect"
  /\ lock' = [lock EXCEPT ![h] = 0]
  /\ EndFuture(h)
  /\ UNCHANGED <<waker, woken, seen, ioVars, refs, open, bgVars>>

\* The executor polls a future that returned Pending and was woken since.
PollAgain(h) ==
  /\ pc[h] = "wait" /\ woken[h]
  /\ woken' = [woken EXCEPT ![h] = FALSE]
  /\ Goto(h, "poll")
  /\ UNCHANGED <<lock, waker, fut, seen, mine, ioVars, refs, open, bgVars>>

\* A sibling future in the same task is ready: the whole task is polled.
SiblingWakes(h) ==
  /\ Siblings
  /\ pc[h] = "wait" /\ ~ woken[h]
  /\ woken' = [woken EXCEPT ![h] = TRUE]
  /\ UNCHANGED <<lock, waker, pc, fut, seen, mine, ioVars, refs, open, bgVars>>

\* A future is dropped while it waits.  RunOperation has no Drop of its own.
DropFuture(h) ==
  /\ Cancels
  /\ pc[h] = "wait"
  /\ EndFuture(h)
  /\ UNCHANGED <<lock, waker, woken, seen, ioVars, refs, open, bgVars>>

\* Fault: state() takes a positive word for idle.
DropHandleNoCancel(h) ==
  /\ pc[h] = "idle"
  /\ refs' = [refs EXCEPT ![h] = @ - 1]
  /\ Goto(h, "gone")
  /\ UNCHANGED <<lock, waker, woken, fut, seen, mine, ioVars, open, bgVars>>

\* The handle's Drop: cancel_if_pending, then its fields are dropped: the
\* buffers of its pool, the system handle, its reference to the header.
DropHandle(h) ==
  /\ pc[h] = "idle"
  /\ IF lock[h] > 0 THEN CancelIoEx(h) ELSE UNCHANGED cancelled
  /\ refs' = [refs EXCEPT ![h] = @ - 1]
  /\ Goto(h, "gone")
  /\ UNCHANGED <<lock, waker, woken, fut, seen, mine, io, on, kind, ovl, open,
                 bgVars>>

Task(h) ==
  \/ Permit(h) \/ Refused(h) \/ Register(h)
  \/ HeaderLock(h) \/ HeaderLockFails(h) \/ HeaderLockStore(h) \/ Busy(h)
  \/ \E o \in Ops : Submit(h, o)
  \/ SubmitFails(h) \/ Collect(h) \/ PollAgain(h)

-----------------------------------------------------------------------------
(* The kernel. *)

\* An operation ends.  Its status is written to the OVERLAPPED before its
\* packet is queued; it can be cancelled only if that was asked for.
Complete(o, r) ==
  /\ io[o] = "flight"
  /\ r = "aborted" => o \in cancelled
  /\ io' = [io EXCEPT ![o] = "queued"]
  /\ ovl' = [ovl EXCEPT ![on[o]] = r]
  /\ cancelled' = IF r = "aborted" THEN cancelled ELSE cancelled \ {o}
  /\ UNCHANGED <<lock, taskVars, on, kind, refs, open, bgVars>>

\* The outcome of the packet of o, once it has left the kernel.
Aborted(o) == o \in cancelled

-----------------------------------------------------------------------------
(* The background thread. *)

\* poll returned Shutdown: permits are refused from now on.
Close ==
  /\ bg = "idle" /\ open
  /\ open' = FALSE
  /\ UNCHANGED <<lock, taskVars, ioVars, refs, bgVars>>

\* A completion status is dequeued; it owns the reference of the OVERLAPPED.
Dequeue(o) ==
  /\ bg = "idle" /\ io[o] = "queued"
  /\ io' = [io EXCEPT ![o] = "taken"]
  /\ bgop' = o
  /\ bg' = "load"
  /\ UNCHANGED <<lock, taskVars, on, kind, ovl, cancelled, refs, open, old>>

\* unlock(): the load; a word that is not positive is left alone.
UnlockLoad ==
  /\ bg = "load"
  /\ old' = lock[on[bgop]]
  /\ bg' = IF lock[on[bgop]] > 0 THEN "cas" ELSE "drop"
  /\ UNCHANGED <<lock, taskVars, ioVars, refs, open, bgop>>

\* Fault: the word is complemented, not negated.
UnlockCASComplement ==
  /\ bg = "cas"
  /\ lock[on[bgop]] = old
  /\ lock' = [lock EXCEPT ![on[bgop]] = -old - 1]
  /\ bg' = IF Aborted(bgop) /\ open THEN "drop" ELSE "wake"
  /\ UNCHANGED <<taskVars, ioVars, refs, open, bgop, old>>

\* Fault: the word is opened, so the completion is lost.
UnlockCASOpens ==
  /\ bg = "cas"
  /\ lock[on[bgop]] = old
  /\ lock' = [lock EXCEPT ![on[bgop]] = 0]
  /\ bg' = IF Aborted(bgop) /\ open THEN "drop" ELSE "wake"
  /\ UNCHANGED <<taskVars, ioVars, refs, open, bgop, old>>

\* unlock(): the compare-exchange of the loaded word by its negation.  During
\* the drain every status is released, before it an aborted one only unlocked.
UnlockCAS ==
  /\ bg = "cas"
  /\ lock[on[bgop]] = old
  /\ lock' = [lock EXCEPT ![on[bgop]] = -old]
  /\ bg' = IF Aborted(bgop) /\ open THEN "drop" ELSE "wake"
  /\ UNCHANGED <<taskVars, ioVars, refs, open, bgop, old>>

\* unlock(): the compare-exchange fails and the loop looks at the word again.
UnlockRetry ==
  /\ bg = "cas"
  /\ lock[on[bgop]] # old \/ "unlock" \in WeakCAS
  /\ old' = lock[on[bgop]]
  /\ bg' = IF lock[on[bgop]] > 0 THEN "cas" ELSE "drop"
  /\ UNCHANGED <<lock, taskVars, ioVars, refs, open, bgop>>

\* release(): wake the task whose waker is registered.
Wake ==
  /\ bg = "wake"
  /\ LET h == on[bgop] IN
       /\ woken' = [woken EXCEPT ![h] = @ \/ waker[h]]
       /\ waker' = [waker EXCEPT ![h] = FALSE]
  /\ bg' = "drop"
  /\ UNCHANGED <<lock, pc, fut, seen, mine, ioVars, refs, open, bgop, old>>

\* The status is dropped, and with it its reference to the header.
DropStatus ==
  /\ bg = "drop"
  /\ io' = [io EXCEPT ![bgop] = "free"]
  /\ cancelled' = cancelled \ {bgop}
  /\ refs' = [refs EXCEPT ![on[bgop]] = @ - 1]
  /\ on' = [on EXCEPT ![bgop] = "none"]
  /\ kind' = [kind EXCEPT ![bgop] = 0]
  /\ bg' = "idle" /\ bgop' = "none" /\ old' = 0
  /\ UNCHANGED <<lock, taskVars, ovl, open>>

Delivery ==
  \/ \E o \in Ops : Dequeue(o)
  \/ UnlockLoad \/ UnlockCAS \/ UnlockRetry \/ Wake \/ DropStatus

Next ==
  \/ \E h \in Handles :
       \/ Task(h) \/ \E c \in Codes : NewFuture(h, c)
       \/ SiblingWakes(h) \/ DropFuture(h) \/ DropHandle(h)
  \/ \E o \in Ops, r \in Results : Complete(o, r)
  \/ Close
  \/ Delivery

Spec == Init /\ [][Next]_vars

\* The executor polls woken tasks, a poll that was begun ends, and the
\* background thread runs.  The kernel owes no completion.
FairSpec ==
  /\ Spec
  /\ \A h \in Handles : WF_vars(Task(h))
  /\ WF_vars(Delivery)

-----------------------------------------------------------------------------
(* Properties. *)

\* o was submitted, and its completion has not yet unlocked its header.
Unfinished(o) ==
  \/ io[o] \in {"flight", "queued"}
  \/ io[o] = "taken" /\ bg \in {"load", "cas"}

Pending(h) == {o \in Ops : on[o] = h /\ Unfinished(o)}

\* "Each wrapped resource can only have one pending I/O operation at a time":
\* no two operations ever share a header and its OVERLAPPED.
OnePending == \A h \in Handles : \A o1, o2 \in Pending(h) : o1 = o2

\* A task that holds the guard, and with it the buffers and the OVERLAPPED,
\* never shares them with the kernel or with a completion on its way.
GuardExclusive ==
  \A h \in Handles : pc[h] \in {"submit", "collect"} => Pending(h) = {}

\* The lock word is what its comment says: the code of the operation while one
\* is pending, and positive for no other reason than that or an Idle guard.
LockWordMeaning ==
  \A h \in Handles :
    /\ \A o \in Pending(h) : lock[h] = kind[o]
    /\ lock[h] > 0 => Pending(h) # {} \/ pc[h] = "submit"

\* A Pending guard finds the final status of an operation in the OVERLAPPED:
\* GetOverlappedResult never reports that the operation is incomplete.
CollectsFinished ==
  \A h \in Handles : pc[h] = "collect" => ovl[h] \in Results

\* The result a future returns is that of the operation it submitted, not of
\* one a dropped future left behind.
CollectsOwn == \A h \in Handles : pc[h] = "collect" => mine[h]

\* A handle that is gone has asked for the cancellation of whatever it left in
\* the kernel.
DropCancels ==
  \A o \in Ops : io[o] = "flight" /\ pc[on[o]] = "gone" => o \in cancelled

\* The header's count is one for the handle and one for each operation whose
\* status has not been dropped: it is freed neither early nor never.
RefsBalance ==
  \A h \in Handles :
    refs[h] = Cardinality({o \in Ops : io[o] # "free" /\ on[o] = h})
                + (IF pc[h] = "gone" THEN 0 ELSE 1)

\* A future that waits without a pending operation has been woken, or the
\* background thread is about to wake it.
NoLostWake ==
  \A h \in Handles :
    pc[h] = "wait" /\ lock[h] <= 0 =>
      woken[h] \/ (bg = "wake" /\ on[bgop] = h)

\* The phase a header is in, in the terms of OverlappedResource.
PhaseOf(h) ==
  IF Pending(h) # {} THEN <<"submitted", lock[h]>>
  ELSE IF lock[h] < 0 THEN <<"completed", -lock[h]>>
  ELSE IF pc[h] = "collect" THEN <<"completed", fut[h]>>
  ELSE <<"open", 0>>

Phase == [h \in Handles |-> PhaseOf(h)]

Resource == INSTANCE OverlappedResource WITH phase <- Phase

\* The interleaved steps of task, kernel and background thread implement the
\* header's promise: submitted, completed, taken or discarded, one at a time.
ImplementsResource == Resource!Spec

\* "The returned future will complete once the operation has completed".
FutureCompletes ==
  \A h \in Handles : pc[h] = "wait" /\ Pending(h) = {} ~> fut[h] = 0
=============================================================================
