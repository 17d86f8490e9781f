# A TLA+ model of iocp

`iocp` is an asynchronous driver for Windows I/O completion ports: it wraps
file handles, named pipes and sockets so that overlapped operations on them can
be awaited. These modules model the parts of it that run concurrently or keep
state over several calls. TLC checks them on small instances and TLAPS proves
the most important properties for every value of the constants.

## 1. The system

| Component | State | Operations | Correct when |
|---|---|---|---|
| Completion port (`completion_port.rs`) | `pending`: an `isize` that counts permits and operations, moved to its negative range at shutdown; the kernel's queue; the reference count of the system's handle | `permit` and its `Drop`, `post`, `shutdown`, `poll`, `poll_during_shutdown`; `register_handle`, `register_socket`, the clones and the last `Drop` | no unit of the counter is gained or lost; I/O is refused exactly after shutdown; the drain leaves nothing behind, and ends; the handle is closed by its last owner, with nothing outstanding |
| Background thread (`background.rs`) | the packet in hand, the number still to drain | `setup`, the poll loop, the drain loop | every completion is delivered; no future is stranded by a shutdown; `join` returns |
| Header (`task.rs`) | the lock word (0 open, `n` submitted, `-n` completed), the `OVERLAPPED`, the waker, a reference count | `header_lock`, `unlock`, `unlock_to_open`, `release`, `state` | one operation at a time; a result is taken by its own kind of operation; freed neither early nor never |
| Handle and futures (`handle.rs`, `io.rs`) | the header, the port, the buffer pool | `lock`, `RunOperation::poll`, `poll_read`, `poll_write`, cancellation, `duplicate`, the `Drop`s | a future completes once its operation has; the buffers belong to one side at a time |
| Operations (`handle/operation.rs`) | the caller's buffer | `prepare`, `collect` | what the kernel transferred is what the caller gets, and what the caller wrote is what the kernel is told of; the cursor follows |
| Buffer pool (`pool/buffer_pool.rs`) | buffers, `taken`, `released` | `take`, `release`, `clear` | a slice lies within its buffer; release matches take |
| Atomic waker (`atomic_waker.rs`) | two bits and a cell | `register_by_ref`, `wake`, `take_waker` | the cell is accessed by one at a time; no wake-up is lost |
| Socket (`socket.rs`, `socket/operation.rs`) | as a handle, and a socket pool | as a handle, and `accept` | an accepted socket belongs to its caller |
| Socket pool (`pool/socket_pool.rs`) | sockets, `taken`, `released` | `take`, `release`, `clear` | each socket is closed once |
| Named pipes (`pipe.rs`) | the builder's two flag words, its limit and its custom flags; the pipes created from it | the setters, `create`, `Drop` (a pipe is registered and connected as any handle) | the system is told what the setters were told, in whatever order they were called |
| System-call wrappers (`handle/ext.rs`, `socket/ext.rs`, `ioctl.rs`) | none | one system call each | a buffer is not made longer or shorter than the caller knows |
| `ArcHandle`, flags, errors, macros | none | - | - |

A task polls a future; the future asks the port for a permit, registers its
waker and locks the header. An open header gives an *Idle* guard, under which an
operation is prepared and handed to the kernel: guard and permit are forgotten,
so header and counter stay taken. The kernel queues a packet on the port. The
background thread dequeues it, takes one off the counter, negates the lock word
and wakes the task, whose next poll finds the negative word and gets a *Pending*
guard under which the result is collected. Shared between threads are the
counter, the lock word, the waker, the `OVERLAPPED` and the buffers.

What is hard here: the counter serves as a count, a gate and a shutdown flag at
once; the lock word is read and written in separate steps by task and background
thread; futures and handles can be dropped at any point while the kernel owns
their memory; aborted completions are delivered differently from the others; and
ownership of buffers, permits and references is passed on by `mem::forget`.
`PROJECT.json` lists these hazards line by line.

## 2. The modules

| Module | Models | Notes |
|---|---|---|
| `CompletionPort` | the counter, the queue, the background thread's control | every access to the counter is a step |
| `Handle` | header, futures, kernel, delivery of one completion | every access to the lock word is a step |
| `OverlappedResource` | what the comment on `Header::lock` promises | abstract; `Handle` implements it under a condition (`Regular`, see below) |
| `AtomicWaker` | the waker | every access to the word and the cell is a step |
| `Driver` | `Handle` over `CompletionPort`, and who owns the port | a step of one component joined with the other's |
| `Transfer` | buffer pool, operations, cursor | one step per poll that gets a guard |
| `Accept` | socket pool, `accept` | one step per poll that gets a guard |
| `Pipe` | the pipe builder and the pipes created from it | one step per call |
| `MC*` | model values, symmetry | one per module that TLC runs |
| `CompletionPortProofs`, `HandleProofs`, `HandleAwaited`, `AtomicWakerProofs`, `AcceptProofs`, `TransferProofs`, `DriverProofs`, `PipeProofs` | theorems | see section 4 |

The modules meet at their interfaces. For `CompletionPort` a client either
submits an operation or drops its permit; for `Handle` the port is a Boolean,
`open`. `Driver` puts the two together: its steps are steps of the port by
construction, a permit is held by a particular poll, and that the Boolean is the
sign of the counter is a property of it (`SignKept`, `ImplementsHandle`). For both
the waker is atomic, which `AtomicWaker` justifies.

`Handle` implements `OverlappedResource` only if it is used *regularly* (`Regular`
in `HandleProofs`): `header_lock`'s compare-exchange does not fail spuriously, and
either one kind of operation is used or no future is dropped in mid-operation.
`Accept` relies on it, which is sound because a socket has one kind of operation.
`Transfer`, whose operations are of several kinds, does not: it has the lock word
itself, and a poll that discards the completion of another kind leaves the word open
under its guard, as `header_lock` does. What is submitted under such a guard is not
protected from the next poll. `Transfer` goes on from there, with two operations on
one buffer and one `OVERLAPPED`; the history variable `bare` remembers it, and the
properties that are promises of the lock are stated as long as it is false.

**CompletionPort.** `pending` is an integer in `-Half .. Half-1` with wrap-around,
so that adding `isize::MIN` is what it is in the code. `permit` is two steps
(`Permit`, and `UndoPermit` when refused). `poll` is `Poll`, which dequeues, then
one of `AccountStatus`, `AccountShutdown`, `AccountReserved`, then `Deliver`. The
drain is `PollDuringShutdown`, `PollDuringShutdownReserved` and `Release`. `Builds`
says which builds are looked at: those with the debug assertion on the counter,
those without, or both.

**Handle.** `pc[h]` follows one poll of `h`'s future through `lock`, `header_lock`
and the guard's two branches; `bg` follows the background thread through `unlock`,
`wake` and the drop of the status. A failed compare-exchange leaves the value it saw
in `seen`, and the store of 0 that follows is a step of its own. `WeakCAS` names the
functions whose compare-exchange fails spuriously, as `compare_exchange_weak` may on
some targets (the runs take `unlock`, which retries); `Cancels` lets futures be
dropped; `Siblings` lets a waiting future be polled because something else woke its
task (`join!`, `select!`). The lock, the futures and the guard of `socket.rs` have
the same structure.

**Driver.** Its actions are conjunctions: `Permit(h)` is `CompletionPort`'s `Permit`
of a client and `Handle`'s `Permit` of the same task, `Submit`, `EndGuard`,
`Dequeue`, `DropStatus` likewise, and an action that only one component takes part
in leaves the variables of the other as they are. A conjunct of a `Handle` action says
that `open` does not change, which is a statement about the counter; `SignKept` says
that it is true of every step the port can take, so that no step is ruled out by it.
`Driver`'s own variables are the wrappers there are, the two
holders of the `Arc` that `setup` makes, the reference count of `Inner`, the number
of futures made, and the handles that lost a future while it waited (`abandoned`).
A future may be made on any wrapper, on an abandoned one too. There the code makes
no promise: the new future may be given the dropped one's result, or find its
operation in the kernel, cancel it and wait for ever, because the aborted completion
wakes nobody. `CollectsOwn`, `PoolOutlivesIO`, `FutureResolves` and the second part of
`NoneStranded` are therefore about the other handles (`Kept`), and they are violated
in this run without the exception. `EndGuard` is one step for the store that opens the
header and the `fetch_sub` of the permit, which the code does one after the other.

**AtomicWaker.** Tasks register and then look at a result; threads produce one
and then wake, which is the order of `Handle::lock` and `Header::release`.

**Transfer.** A buffer is its length, its capacity and what its first bytes are:
the caller's, the kernel's or unknown. `take` grows it as `Vec::reserve` does. Several
operations can be in the kernel (`io`, `ops`), each with the part of the buffer it was
handed and the capacity of the allocation then; they share the `result` in the
`OVERLAPPED`. `connect_named_pipe` is one of the kinds, without a buffer.
`outcome` is what a poll ended in, every panic included; after a panic the guard
is dropped by the unwinding. `moved` counts the bytes reported to the caller.
`Handed` is the clamp to 32 bits in `read_overlapped` and `write_overlapped`;
`device_io_control_overlapped` has none and panics (`oob`).

**Accept.** A socket is the number the system knows it by. `open` is the system's
view of which are open, `accepted` what callers of `accept` believe to own, and
`Held(l)` what the next `clear` of `l`'s pool will close. A number is given out again
once its socket is closed, while pools and callers may still have it. `AcceptEx`
refuses closed and connected sockets, and any other at will. An accept that ends with
`ERROR_HANDLE_EOF` or `ERROR_BROKEN_PIPE` is collected like a successful one, as in
`LockGuard::result`.

**Pipe.** A flag word is the set of its flags. `asked` remembers what each setter was
last told, or what its documentation says it starts as; `passed` and `wanted` are, for
each pipe, the arguments of its `CreateNamedPipeW` and what was asked at that time.

Interleavings are those of sequential consistency: the accesses that matter are
`SeqCst` or `AcqRel`, and the relaxed load in `unlock` only supplies a value that
the following compare-exchange verifies. That no weaker ordering changes the
result is not shown.

## 3. The runs

Seven runs show what holds.

| Run | Instance | Shows |
|---|---|---|
| `port_races` | 2 clients, 3 operations, 2 posts, 2 shutdowns, either build | `TypeOK`; `PendingBalance`: the counter is what permits, operations and counted messages add up to; `NegativeIffShutDown`: it is negative exactly after shutdown; `DrainedAtExit`: nothing is in the kernel or queued when the thread exits; `NoPermitAfterShutdown` |
| `handle_one_kind` | 2 handles, 2 operations, 1 code, futures and handles dropped, siblings | `TypeOK`, `OnePending`, `GuardExclusive`, `LockWordMeaning`, `CollectsFinished`, `DropCancels`, `RefsBalance`, and that `Handle` implements `OverlappedResource` (`ImplementsResource`) |
| `driver` | 2 handles, 2 operations, 2 futures, 1 code, 2 shutdowns, either build, futures and handles dropped | `SignKept`: only the shutdown takes the counter across zero; `ClosedWhenUnused`, `DrainedAtClose`: the port is closed by its last owner and with nothing outstanding; `NoneStranded`: when the thread has returned no header is locked and every waiting future of a kept handle has been woken; `CollectsOwn`: a future of a kept handle returns the result of its own operation; `PoolOutlivesIO`: buffers are freed under the kernel only after a future of their handle was dropped; `ImplementsHandle`; `CompletionsArrive`: every operation the kernel accepts comes back to the thread; `FutureResolves`: a waiting future of a kept handle ends with a result or with the shutdown; `JoinReturns` |
| `waker` | 1 task, 3 threads | `TypeOK`, `CellExclusive`, `AssertionsHold`, `NoLostWake`, `ResultSeen` |
| `transfer` | every operation but `Handle::write`, two at a time in the kernel; sizes below, at and above the capacity and the maximum | `TypeOK`; while nothing was submitted over a discarded completion, `KernelInBounds`, `ReadsWhatArrived` and `SendsWhole` (a write is not shortened unnoticed); in any case `ReleaseHolds` and `CursorExact` |
| `accept` | 3 listeners, 3 socket numbers | `TypeOK`, `PoolIndices`, `LeaksOnlyAtDrop`: a socket loses its last holder only by the drop of a listener that has taken it |
| `pipe` | 1 pipe created again and again, limits 0, 254, 255 and 256, custom flags | `TypeOK`, `ServedAsAsked`: `CreateNamedPipeW` gets what each setter was last told |

*Bounds.* `Half` = 8 leaves room for every permit and operation at once and is small
enough for the counter to wrap in a few steps. Two clients are the fewest that can
hold a permit and be refused one at the same time; three operations let one be in
flight, one queued and one in the thread's hands. One code is one kind of operation;
two are needed to mismatch. The number of operation identities in `Handle` bounds
what is in the kernel or on its way back at one time, not how many operations are
ever run. In `Transfer`, 64 is the code's own initial length, the sizes are chosen
around it and its doublings, the maximum of 200 stands for `1 << 16`, and the words
of the cursor are 16 instead of 2^32, so that carries and the overflow of the 64-bit
sum happen. `MaxDword` = 180 stands for `u32::MAX` and lies below the maximum, so
that both limits cut. In `driver` an operation ends well or is cancelled, the two
ways that are delivered differently; with two handles one can be dropped, refused or
drained while the other waits, and two shutdowns let the second be met by the drain.
Two futures (`MaxFutures`) are one on each handle, or one that is dropped and the next
on the same handle, whose operations may both be in the kernel's or the thread's hands.
The limits in `pipe` are an end of the documented range and what lies just beyond; its
pipes do not interact, so one is enough. `MaxPosts`, `MaxShutdowns` and `MaxMoved` bound
counters that only a user could drive further; `MaxMoved` lies above what the cursor
can count, so that the code's own overflow check is the limit that is met. Three
listeners and as many numbers let a number pass from one pool to a caller, back to
the system and to another pool. The waker runs with one task, the use a handle makes
of it; that its cell is exclusive with several is proved (section 4).

*Deadlock* is checked in `port_races`, `waker`, `transfer` and `pipe`. In the others
it is not an error to stop: a user may drop every handle or listener, or call
`shutdown` and nothing afterwards.

*Fairness.* The background thread runs, a call that was begun ends, and the executor
polls tasks that were woken. `CompletionPort` also assumes that the kernel completes
every operation it accepted (`WF(Complete)`), without which no drain could end, and so
does `Driver` (an accept without a client, or a read of a pipe nobody writes to, does
not end by itself: of these its liveness properties say nothing); `Handle` does not,
and its liveness property starts from a completed operation. `Driver`'s `JoinReturns`
has a premise instead of a fairness condition: that no future is polled once shutdown
was called, which is what the examples do (await every future, call `shutdown`, then
`join`). No result need be produced in `AtomicWaker`.

### Where the code departs from its documentation

Five runs state what a comment or a document of the repository says, and TLC finds
it violated; `PROJECT.json` quotes the lines.

| Run | Property | What happens |
|---|---|---|
| `handle_switch` | `OnePending` | a completion of another kind is discarded by storing 0, and the operation submitted next is not locked: a third can share its `OVERLAPPED` |
| `handle_sibling` | `FutureCompletes` | a poll of a busy header cancels its operation, the cancellation is delivered without a wake-up, and the future waits for ever |
| `port_join_race` | `JoinReturns` | permits that submit nothing are counted as operations to drain |
| `transfer_take` | `TakeHolds` | a read of 100 bytes and then of 150 panics in `take` |
| `accept_reuse` | `AcceptedStaysOpen` | a second `accept` takes the socket the first one returned, and closes it when `AcceptEx` refuses it |

Others were met while modelling. Each is in the modules, and is reached by
changing one constant of a configuration where one is named:

* `WeakCAS = {"lock"}` in `handle_one_kind`: a spurious failure of the
  compare-exchange in `header_lock` on an open lock takes the path of
  `handle_switch` (`LockWordMeaning` fails, then `OnePending`).
* `task.rs:98`: `id != -n` is true of every busy word, so that a poll of a busy
  header cancels an operation of its own kind as well (`HeaderLockFails`; the cause
  of `handle_sibling`).
* `CollectsOwn` as an invariant of `handle_one_kind`, or of `driver` without its
  exception: a future collects the result of a dropped one of its kind.
* `FutureResolves` of `driver` without its exception: drop a read in mid-flight, then
  read again. The poll finds the header busy and cancels the operation (`task.rs:98`,
  `handle.rs:132-137`), the aborted completion is unlocked without a wake
  (`background.rs:33-35`), and the second read hangs. It is `handle_sibling` with one
  task.
* A handle that is dropped after its future frees its buffers before the kernel is
  done with them: `PoolOutlivesIO` of `Driver` has to except the abandoned handles.
* `KernelInBounds`, `ReadsWhatArrived` and `SendsWhole` of `transfer` without their
  premise `~ bare`: after a discarded completion two operations share the buffer, `take`
  may replace the allocation the kernel has, a read may collect a write's count and
  bytes, and a write may overwrite what another is sending.
* A posted message is taken off a counter it was never added to: `stray` counts
  them, and without their condition on it `NegativeIffShutDown` and
  `NoPermitAfterShutdown` fail in `port_races`. `DrainedAtExit` asks for no posts at
  all, because the drain takes them for completions.
* A listener that is dropped with an accept pending leaves the socket it has taken
  open: `SocketPool` has no `Drop` (`DropSocket`; the exception in `LeaksOnlyAtDrop`).
* `Kinds <- Everything` in `transfer`: `Handle::write` does not move the cursor
  (`CursorExact`).
* The outcomes `put_slice`, `oob` and `copy` of `Transfer` are reached: a write above
  the maximum buffer size, a control request above 32 bits, and a read collected with
  a smaller buffer than it was started with, panic.
* `pipe.rs:125-128`: `pipe_mode()` assigns the whole word and so drops the rejection
  of remote clients, which `pipe.rs:342-343` documents as "enabled by default", and
  also one that was asked for before. Whether they are rejected depends on the order
  of the calls, so that `ServedAsAsked` says nothing about that flag.
  `access_inbound(true)` leaves a pipe duplex that is documented to flow from client
  to server only; `max_instances()` is documented for 1 to 254 and admits 0.
* A client that opens a pipe before `connect_named_pipe` makes it return an error:
  `ERROR_PIPE_CONNECTED` is handled like any other (`io.rs:78-86`), and is one of the
  ways of `SubmitFails` and `StartRefused`.
* The socket an `accept` returns is wrapped without having been registered with the
  port.

The counterparts of `OnePending`, `FutureCompletes` and `JoinReturns` hold in the passing
runs, which leave the cause out: `OnePending` in `handle_one_kind` with one kind of
operation, `FutureResolves` in `driver` with futures polled by their own wake-ups
only, and `JoinReturns` there with no poll after shutdown.

## 4. The proofs

The theorems hold for every value of the constants that satisfies the modules'
`ASSUME`s: finite sets of clients and operations, positive codes, and a counter
wide enough for twice the clients plus the operations.

* **CompletionPortProofs.** Any number of clients, operations, messages and
  shutdowns. The inductive invariant `PInv` adds to `TypeOK`: `Draining`, that a
  thread in its drain loop has something left to drain; `Queued`, that each
  operation's packet is queued or in the thread's hands once; `Unposted`, that
  without posts nothing but completions and shutdown messages is in the queue; and
  `Counted`. The last says that before shutdown the counter is exactly the permits
  and the operations not yet accounted for, less the stray messages, in the
  arithmetic of its width (`Exact`; messages can take it below zero and round the
  word, so the proof goes through `WrapAdd`: wrapping a sum may be done in any
  order); that afterwards, if there was no stray message, it is `-Half` plus at
  least what is held and not enough to become positive again (`Offset`); and that,
  if nothing was posted, the thread's own count covers every permit and every
  outstanding operation (`Covered`), which is what makes the drain complete although
  the counter also counts permits. From these follow `PendingBalanceHolds`,
  `NegativeIffShutDownHolds`, `DrainedAtExitHolds`, `NoPermitAfterShutdownHolds` and
  `ShutdownAssertionHolds`; what they except after a post is in the properties
  themselves.
* **DriverProofs.** `PortNext` and `HandleNext` map every step to a step of the
  component or to a stutter. The first makes `PInv` an invariant of the composition,
  by an instance of `CompletionPortProofs`. From it follows `SignKeptHolds` (the lemma
  `CounterSide`: the counter is at least what is held before shutdown, and afterwards
  far enough below zero for every client to be refused at once), and the second,
  `ImplementsHandleHolds`, rests on that: a handle sees the port close once. `Owned`
  says that the reference count of `Inner` is one for `setup`'s `Arc` while that has
  an owner and one per wrapper, and that the thread lets go only after it has
  returned; with `PInv` it gives `ClosedWhenUnusedHolds` and `DrainedAtCloseHolds`.
  `TypeCorrect` joins the type theorems of the two.

  The second half is about the futures, and assumes `StrongLock` (no spurious
  failures in `header_lock`) but neither one kind of operation nor that no future is
  dropped. It speaks of the handles that lost no future (`Kept`), whatever is dropped,
  polled again, cancelled or discarded on the others. `FutureInv` says of every such
  handle that what is in its header was submitted by the future that polls it
  (`OwnWord`), that it is never found busy and is open when idle (`Calm`; an
  uncollected completion can stay behind only once the port is closed, where the next
  poll is refused), and that a task that waits is registered or woken (`Waiting`,
  `Waking`); and that only operations of abandoned handles are cancelled (`Asked`). It
  and `KeptInv`, the part of `HandleProofs`' invariant about these handles, are
  preserved together: `FutureInv` shows that a new future finds an open word, which is
  all `KeptInv` needs of the callers (`Fits`); a step of another handle leaves both
  alone (`Elsewhere`), and a handle that has lost a future never counts as kept again
  (`LostForGood`). `Linked` ties the permits to the labels of the tasks.
  `CollectsOwnHolds` and `PoolOutlivesIOHolds` follow from `FutureInv`;
  `NoneStrandedHolds` also from `PInv` and, for the abandoned handles, `LockHeld` (a
  locked header has an Idle guard or a pending operation, whatever the constants allow):
  a port that has drained has neither permits nor operations, so no word is positive
  and no wake is left to do. `HeadersKeptHolds` gives each kept handle, for any number
  of kinds, what `HandleProofs` shows of one kind.
* **HandleProofs.** `TypeCorrect` and `RefsBalanced` hold whatever the constants
  allow. The rest assume `Regular`: no spurious failures in `header_lock`
  (`StrongLock`), and either one code or no dropped futures, which `handle_switch` and
  the first item of the list above show to be needed. The inductive invariant `Inv`
  says of the operations which are in use and by whom (`InUse`), and of each handle
  that it is in order (`InOrder`): `Held` (an unfinished operation is alone on its
  header, its code is the lock word and no guard exists), `Word` (what the word says
  about guard and status), `Match` (the word belongs to the future that is being
  polled) and `Copy` (the word `unlock` has loaded is still current), `Gone` (what a
  dropped handle left was cancelled), each needed because the word is read in one step
  and written in another. It is preserved for each handle by itself by every step that
  makes a future there only where the word is open or of its kind (`Fits`), which
  follows from `Regular` with `Settled`: without dropped futures the word of an idle
  handle of an open port is 0. It gives `OnePendingHolds`, `GuardExclusiveHolds`,
  `LockWordMeaningHolds`, `CollectsFinishedHolds` and `DropCancelsHolds`, and with
  them `Refinement`: every step is a step of `OverlappedResource` or leaves its phase
  alone. The mapping (`PhaseOf`) is *submitted* while an operation is pending,
  *completed* while the word is negative or a Pending guard is held, *open* otherwise.
* **HandleAwaited.** If no future is dropped while it waits (`Awaiting`), the
  completion a poll finds is that of its own operation (`Own`), whatever the codes;
  this gives `CollectsOwnHolds`. If moreover a future is polled by its own wake-ups
  only, nothing is ever cancelled (`Uncancelled`), a task that waits has its
  operation pending or its wake-up on the way (`Waiting`, `Waking`), and
  `NoLostWakeHolds`. `handle_sibling` shows that the second condition is needed.
* **AtomicWakerProofs.** `WInv` ties the state word to who is between locking and
  releasing the cell (`Locked`) and says what the owner knows about it (`Owned`). It
  gives `TypeCorrect`, `CellExclusiveHolds` and `AssertionsHoldAlways` for any
  number of tasks and threads. `NInv` adds that a registered task is woken, or its
  waker is in the cell or in the hand of a thread (`Alerted`), and that a thread is
  on its way when there is a result (`Underway`); with one task it gives
  `NoLostWakeHolds`.
* **AcceptProofs.** `AInv`, that is `TypeOK` and `PoolIndices`, is inductive for any
  sets of listeners and numbers. One lemma (`DropGuardKeeps`) says that dropping a guard
  keeps it and orphans nothing when every socket that stays open was not its pool's or
  is the caller's now; each way a poll can end is an instance of it, which leaves the
  drop of a listener as the only step that orphans a socket (`LeaksOnlyAtDropHolds`).
* **TransferProofs.** `TInv` adds to the properties `Shape`, that the pool has one
  buffer, which is taken while the lock is held for an operation that needs one, and
  that the kernel was handed part of its capacity and reports no more than that;
  `Exclusive`, that while nothing was submitted over an open word an operation in the
  kernel is the only one, holds the lock and has its buffer in place; and `Arrived`,
  that then the bytes a read has reported stay in the buffer until they are collected.
  Most polls end by dropping the guard (`DropKeeps`). It gives `TypeCorrect` and
  `ReleaseHoldsAlways`, whatever is discarded; `KernelInBoundsHolds`,
  `ReadsWhatArrivedHolds` and `SendsWholeHolds` with their premise; all for any sizes and
  limits; and, for a caller that does not use `Handle::write`, `CursorExactHolds`, by the
  arithmetic of quotient and remainder.
* **PipeProofs.** `TypeCorrect`; `Told`, that the builder holds what its setters were
  told, apart from the rejection of remote clients, is inductive and gives
  `ServedAsAskedHolds` whatever custom flags are put on top. The assumption on the
  limits is that `PIPE_UNLIMITED_INSTANCES` is no less than the 254 that
  `max_instances()` admits.

TLC checked the inductive invariants on small instances before they were proved,
that of the futures with two kinds of operation, for which the `driver` run with its
temporal properties has no room.

Every invariant and action property of the passing runs and the two refinements are
thus proved. Only model-checked: what is temporal under fairness (`JoinReturns`,
`FutureResolves`, `CompletionsArrive`, `ResultSeen`), which is out of the prover's
reach. Only proved: `Driver`'s `TypeOK` and `HeadersKept`, `ShutdownAssertion`, and
`CollectsOwn` and `NoLostWake` of `Handle` under the conditions of `HandleAwaited`.

## 5. Not modelled

`ArcHandle`, a newtype over `Arc`; constants, macros and re-exports; the buffer sizes
of a pipe, which are handed through to the system; the examples, whose pattern of use
is the premise of `JoinReturns` in `Driver`. The outcomes of system calls are inputs
of the models, with one exception: that `GetQueuedCompletionStatus` fails without a
packet (`completion_port.rs:257-274`), which `poll` takes for a completion without a
header and counts like a posted message, is left out of `CompletionPort`. `Accept`
leaves out the receive length that `AcceptEx` is given, which is the whole output
buffer in addition to the two address lengths (`socket/operation.rs:95-96`,
`socket/ext.rs:40-57`). Of a named pipe nothing is modelled that is the system's
alone: when a further instance of a name is refused, and when a client may open it. A
completion port polled by several threads of the user's instead of `background.rs` is
modelled for the waker only, and an operation of the user's that takes several buffers
from the pool not at all.

## 6. Plan

1. Several polling threads on one port (`CompletionPort::poll` is public).
2. Operations of the user's that take several buffers; the FIFO order of `release`.
3. `Transfer` over `Handle`, in place of a lock word of its own.
4. Proofs: `NoLostWake` of `AtomicWaker` for several tasks, of which the last to register
   is woken.
