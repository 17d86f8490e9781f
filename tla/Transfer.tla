------------------------------ MODULE Transfer ------------------------------
(***************************************************************************)
(* What the operations of one handle do with its buffers and its cursor:   *)
(* the buffer pool (pool/buffer_pool.rs), the operations that take from it *)
(* and release to it (handle/operation.rs, and poll_read and poll_write in *)
(* handle.rs), what they hand to the system (handle/ext.rs), and the file  *)
(* cursor in the OVERLAPPED (LockGuard::advance).                          *)
(*                                                                         *)
(* The lock word is that of Header (task.rs).  A poll that finds it        *)
(* submitted changes nothing here, any other poll is one step: it has a    *)
(* guard.  The guard of a poll that discards the completion of another     *)
(* kind of operation is over an open word, so what it submits is not       *)
(* protected from the next poll; `bare` records that this has happened.    *)
(***************************************************************************)
EXTENDS Integers, Sequences, FiniteSetsExt

CONSTANTS
  Ops,            \* identities of operations in the kernel
  Kinds,          \* the operations the caller uses, of AllKinds
  Sizes,          \* the lengths of the caller's buffers
  Counts,         \* the byte counts the kernel may report
  Initial,        \* the length of the pool's first buffer (64)
  MaxBufferSize,  \* BufferPool::max_buffer_size (1 << 16 by default)
  MaxDword,       \* u32::MAX, the longest buffer the system can be told of
  Word,           \* the range of OVERLAPPED.Offset and OffsetHigh (2^32)
  MaxMoved        \* bound: the bytes reported to the caller

AllKinds == {"poll_read", "read", "poll_write", "write", "ioctl", "connect"}

ASSUME TransferAssumption ==
  /\ Kinds \subseteq AllKinds
  /\ Sizes \subseteq Nat \ {0} /\ Counts \subseteq Nat /\ MaxMoved \in Nat
  /\ {Initial, MaxBufferSize, MaxDword, Word} \subseteq Nat \ {0}

VARIABLES
  buffers,          \* BufferPool::buffers
  taken, released,  \* BufferPool::taken and released
  lock, code,       \* Header::lock: 0, +code or -code
  io, ops,          \* the operations in the kernel, and of each: its code, the
                    \* length the caller asked for, how much of the buffer the
                    \* kernel was handed, and the capacity of that allocation
  result,           \* what the OVERLAPPED says of the last operation
  cursor,           \* OVERLAPPED.Offset and OffsetHigh
  moved,            \* the bytes reads and writes have reported to the caller
  outcome,          \* what the last poll ended in
  given,            \* the content of the buffer the last poll released, and
                    \* the length it was released with
  bare              \* history: an operation was submitted over an open word

poolVars == <<buffers, taken, released>>
lockVars == <<lock, code>>
kernelVars == <<io, ops, result>>
vars == <<poolVars, lockVars, kernelVars, cursor, moved, outcome, given, bare>>

\* The lock code of each kind of operation; the ones whose buffer the kernel
\* fills, and the ones that fill it before it is submitted.
CodeOf(k) ==
  CASE k \in {"poll_read", "read"}   -> "READ"
    [] k \in {"poll_write", "write"} -> "WRITE"
    [] k = "ioctl"                   -> "IO_CTL"
    [] k = "connect"                 -> "CONNECT_NAMED_PIPE"

Reads(k) == k \in {"poll_read", "read"}
Fills(k) == k \in {"poll_write", "write", "ioctl"}

\* A Vec<u8>.  Its first `filled` bytes came from the caller ("out") or from
\* the kernel ("in"); what is in the others is not known.
NewVec(len, cap) == [len |-> len, cap |-> cap, data |-> "stale", filled |-> 0]

NoOp == [code |-> "none", asked |-> 0, size |-> 0, cap |-> 0]
Nothing == [data |-> "in", filled |-> 0, len |-> 0]

TypeOK ==
  /\ buffers \in Seq([len : Nat, cap : Nat, data : {"stale", "out", "in"},
                      filled : Nat])
  /\ taken \in Nat /\ released \in Nat
  /\ lock \in {"open", "submitted", "completed"}
  /\ code \in {CodeOf(k) : k \in AllKinds} \cup {"none"}
  /\ io \in [Ops -> {"free", "flight", "queued"}]
  /\ ops \in [Ops -> [code : {CodeOf(k) : k \in AllKinds} \cup {"none"},
                      asked : Nat, size : Nat, cap : Nat]]
  /\ result \in [status : {"pending", "ok", "eof", "error"}, bytes : Nat]
  /\ cursor \in [low : 0 .. Word - 1, high : 0 .. Word - 1]
  /\ moved \in Nat
  /\ outcome \in {"none", "pending", "ok", "error",
                  "slice", "put_slice", "oob", "assert", "copy", "advance"}
  /\ given \in [data : {"stale", "out", "in"}, filled : Nat, len : Nat]
  /\ bare \in BOOLEAN

Init ==
  /\ buffers = <<NewVec(Initial, Initial)>> /\ taken = 0 /\ released = 0
  /\ lock = "open" /\ code = "none"
  /\ io = [o \in Ops |-> "free"] /\ ops = [o \in Ops |-> NoOp]
  /\ result = [status |-> "ok", bytes |-> 0]    \* the zeroed OVERLAPPED
  /\ cursor = [low |-> 0, high |-> 0]
  /\ moved = 0 /\ outcome = "none" /\ given = Nothing /\ bare = FALSE

-----------------------------------------------------------------------------
(* BufferPool. *)

\* Vec::reserve: room for `additional` bytes after the first len, by doubling.
Reserve(b, additional) ==
  IF additional <= b.cap - b.len THEN b
  ELSE [b EXCEPT !.cap = Max({2 * b.cap, b.len + additional, 8})]

\* take(n), with i buffers taken before: the buffers it leaves.  One is pushed
\* if there is none left, or the next one is grown if it is too small.
SizeOf(n) == Min({n, MaxBufferSize})

Take(i, n) ==
  IF i >= Len(buffers) THEN Append(buffers, NewVec(0, SizeOf(n)))
  ELSE LET b == buffers[i + 1] IN
       IF b.cap >= SizeOf(n) THEN buffers
       ELSE [buffers EXCEPT ![i + 1] = Reserve(b, SizeOf(n) - b.cap)]

\* Fault: the slice is made without a look at the capacity.
SliceUnchecked(i, n) == TRUE

\* take(n): the slice [..size] that is returned lies within the capacity.
SliceFits(i, n) == SizeOf(n) <= Take(i, n)[i + 1].cap

\* clear.
Clear == taken' = 0 /\ released' = 0

-----------------------------------------------------------------------------
(* The cursor. *)

Offset == cursor.low + cursor.high * Word

\* Fault: the high word is not written.
AdvanceLow(n) == cursor' = [cursor EXCEPT !.low = (Offset + n) % Word]

\* advance(n): the 64-bit sum is split into its words again.
Advance(n) ==
  cursor' = [low |-> (Offset + n) % Word, high |-> (Offset + n) \div Word]

\* Fault: the sum wraps.
OverflowsNever(n) == FALSE

\* advance(n): checked_add.
Overflows(n) == Offset + n >= Word * Word

-----------------------------------------------------------------------------
(* A poll that finds the resource idle. *)

\* Fault: a completion is taken for that of any kind of operation.
IdleIfOpen(k) == lock = "open"

\* header_lock returns Idle: the word is open, or holds the completion of
\* another kind of operation, which is thrown away.
Idle(k) == lock = "open" \/ (lock = "completed" /\ code # CodeOf(k))

\* What header_lock leaves in the word then: the caller's code in an open one,
\* but 0 in place of the completion.
LockIdle(k) ==
  IF lock = "open" THEN lock' = "submitted" /\ code' = CodeOf(k)
                   ELSE lock' = "open" /\ code' = "none"

\* What is left of a guard that is dropped: the pool is cleared, the lock open.
DropGuard == Clear /\ lock' = "open" /\ code' = "none"

\* read_overlapped and write_overlapped: what of a slice the system is told of.
\* (It makes no difference whether it says that the operation is pending or that
\* it is done: the completion is queued either way.)
Handed(len) == Min({len, MaxDword})

\* device_io_control_overlapped does not shorten what it is given.
IoctlFits(len) == len <= MaxDword

\* Fault: bytes that do not fit are cut off.
PreparePanicTruncates(k, n) ==
  IF k # "connect" /\ ~ SliceFits(0, n) THEN "slice" ELSE "none"

\* The operation panics before it is submitted: in take, because the slice is
\* out of range; in put_slice, because the caller's bytes do not fit in it; or
\* because they are more than the system can be told of.
PreparePanic(k, n) ==
  CASE k = "connect"                   -> "none"
    [] ~ SliceFits(0, n)               -> "slice"
    [] Fills(k) /\ n > SizeOf(n)       -> "put_slice"
    [] k = "ioctl" /\ ~ IoctlFits(n)   -> "oob"
    [] OTHER                           -> "none"

StartPanics(k, n) ==
  /\ Idle(k) /\ PreparePanic(k, n) # "none"
  /\ buffers' = Take(0, n)
  /\ DropGuard
  /\ outcome' = PreparePanic(k, n)
  /\ given' = Nothing
  /\ UNCHANGED <<kernelVars, cursor, moved, bare>>

\* The buffers after prepare: a write has put its bytes in the first.
Prepared(k, n) ==
  CASE k = "connect" -> buffers
    [] Reads(k)      -> Take(0, n)
    [] Fills(k)      -> [Take(0, n) EXCEPT
                           ![1] = [@ EXCEPT !.data = "out", !.filled = SizeOf(n)]]

\* The kernel refuses the operation at once.
StartRefused(k, n) ==
  /\ Idle(k) /\ PreparePanic(k, n) = "none"
  /\ buffers' = Prepared(k, n)
  /\ DropGuard
  /\ outcome' = "error"
  /\ given' = Nothing
  /\ UNCHANGED <<kernelVars, cursor, moved, bare>>

\* The kernel is handed the slice that prepare took, and marks the OVERLAPPED
\* as pending; connect_overlapped hands over the OVERLAPPED alone.
KernelAccepts(k, n, o) ==
  /\ io[o] = "free"
  /\ io' = [io EXCEPT ![o] = "flight"]
  /\ ops' = [ops EXCEPT ![o] =
       [code |-> CodeOf(k), asked |-> n,
        size |-> IF k = "connect" THEN 0 ELSE Handed(SizeOf(n)),
        cap |-> IF k = "connect" THEN 0 ELSE Take(0, n)[1].cap]]
  /\ result' = [status |-> "pending", bytes |-> 0]

\* Fault: the guard is dropped, not forgotten, and clears the pool.
StartClears(k, n, o) ==
  /\ Idle(k) /\ PreparePanic(k, n) = "none"
  /\ buffers' = Prepared(k, n)
  /\ taken' = 0 /\ released' = 0
  /\ KernelAccepts(k, n, o) /\ LockIdle(k)
  /\ outcome' = "pending"
  /\ given' = Nothing
  /\ bare' = (bare \/ lock # "open")
  /\ UNCHANGED <<cursor, moved>>

\* prepare clears the pool and takes one buffer, and the kernel accepts it.
\* The guard is forgotten, so the buffer stays taken and the word as it is.
Start(k, n, o) ==
  /\ Idle(k) /\ PreparePanic(k, n) = "none"
  /\ buffers' = Prepared(k, n)
  /\ taken' = (IF k = "connect" THEN 0 ELSE 1) /\ released' = 0
  /\ KernelAccepts(k, n, o) /\ LockIdle(k)
  /\ outcome' = "pending"
  /\ given' = Nothing
  /\ bare' = (bare \/ lock # "open")
  /\ UNCHANGED <<cursor, moved>>

-----------------------------------------------------------------------------
(* The kernel and the background thread. *)

\* The operation ends: its result is in the OVERLAPPED, and a read that did not
\* fail has put that many bytes in the memory it was handed.  (Vec::reserve
\* only ever grows a buffer: it is that memory if its capacity is the same.)
Complete(o, status, n) ==
  /\ io[o] = "flight"
  /\ n <= ops[o].size /\ (status = "ok" \/ n = 0)
  /\ io' = [io EXCEPT ![o] = "queued"]
  /\ result' = [status |-> status, bytes |-> n]
  /\ buffers' =
       IF ops[o].code = "READ" /\ buffers[1].cap = ops[o].cap
       THEN [buffers EXCEPT
               ![1] = [@ EXCEPT !.filled = n,
                         !.data = IF status = "error" THEN "stale" ELSE "in"]]
       ELSE buffers
  /\ UNCHANGED <<taken, released, lockVars, ops, cursor, moved, outcome, given, bare>>

\* The thread takes the packet and unlocks the header.
Release(o) ==
  /\ io[o] = "queued"
  /\ io' = [io EXCEPT ![o] = "free"] /\ ops' = [ops EXCEPT ![o] = NoOp]
  /\ lock' = IF lock = "submitted" THEN "completed" ELSE lock
  /\ UNCHANGED <<poolVars, code, result, cursor, moved, outcome, given, bare>>

-----------------------------------------------------------------------------
(* A poll that finds a completion of its own kind of operation. *)

Pending(k) == lock = "completed" /\ ~ Idle(k)

\* GetOverlappedResult reports an error other than the end of the file, or that
\* the operation is not complete.
Failed == result.status \in {"error", "pending"}

CollectError(k) ==
  /\ Pending(k) /\ Failed
  /\ DropGuard
  /\ outcome' = "error"
  /\ given' = Nothing
  /\ UNCHANGED <<buffers, kernelVars, cursor, moved, bare>>

\* A read releases the oldest buffer, with the length the kernel reported:
\* release's assertions, then the copy to the caller's n bytes.
ReleaseAsserts ==
  released < taken /\ result.bytes <= buffers[released + 1].cap

Advances(k) == k \in {"poll_read", "read", "poll_write"}

CollectPanic(k, n) ==
  CASE Reads(k) /\ ~ ReleaseAsserts              -> "assert"
    [] Reads(k) /\ result.bytes > n              -> "copy"
    [] Advances(k) /\ Overflows(result.bytes)    -> "advance"
    [] OTHER                                     -> "none"

CollectPanics(k, n) ==
  /\ Pending(k) /\ ~ Failed
  /\ CollectPanic(k, n) # "none"
  /\ DropGuard
  /\ outcome' = CollectPanic(k, n)
  /\ given' = Nothing
  /\ UNCHANGED <<buffers, kernelVars, cursor, moved, bare>>

\* The operation's output is returned; reads and poll_write move the cursor.
\* (MaxMoved is the model's bound, not the code's.)
Collect(k, n) ==
  /\ Pending(k) /\ ~ Failed
  /\ CollectPanic(k, n) = "none"
  /\ moved + result.bytes <= MaxMoved
  /\ given' = IF Reads(k)
              THEN [data |-> buffers[released + 1].data,
                    filled |-> buffers[released + 1].filled, len |-> result.bytes]
              ELSE Nothing
  /\ IF Advances(k) THEN Advance(result.bytes) ELSE UNCHANGED cursor
  /\ moved' = IF CodeOf(k) \in {"READ", "WRITE"} THEN moved + result.bytes ELSE moved
  /\ DropGuard
  /\ outcome' = "ok"
  /\ UNCHANGED <<buffers, kernelVars, bare>>

Next ==
  \/ \E k \in Kinds, n \in Sizes :
       \/ StartPanics(k, n) \/ StartRefused(k, n)
       \/ \E o \in Ops : Start(k, n, o)
       \/ CollectPanics(k, n) \/ Collect(k, n)
  \/ \E k \in Kinds : CollectError(k)
  \/ \E o \in Ops :
       \/ \E status \in {"ok", "eof", "error"}, n \in Counts : Complete(o, status, n)
       \/ Release(o)

Spec == Init /\ [][Next]_vars

-----------------------------------------------------------------------------
(* Properties. *)
(* The first three are promises of the lock: they are made as long as      *)
(* header_lock has discarded no completion under a guard that went on to   *)
(* submit (task.rs:104-119), and they fail after it has.                   *)

\* The memory the kernel has been handed is within the allocation it was taken
\* from, and that allocation has not been replaced.
KernelInBounds ==
  ~ bare => \A o \in Ops : io[o] = "flight" /\ ops[o].code # "CONNECT_NAMED_PIPE" =>
              ops[o].size <= ops[o].cap /\ buffers[1].cap = ops[o].cap

\* A read returns exactly the bytes the kernel has put in its buffer: never
\* what a write left there, nor memory that was not initialised.
ReadsWhatArrived == ~ bare => given.data = "in" /\ given.len = given.filled

\* A write is never shortened behind the caller's back: while the kernel sends
\* it, all of the caller's bytes are in the buffer, and the kernel was told of
\* all of them or of as many as it can be told of.
SendsWhole ==
  ~ bare => \A o \in Ops : io[o] = "flight" /\ ops[o].code \in {"WRITE", "IO_CTL"} =>
    /\ buffers[1].data = "out" /\ buffers[1].filled = ops[o].asked
    /\ ops[o].size = ops[o].asked \/ (ops[o].code = "WRITE" /\ ops[o].size = MaxDword)

\* The assertions in release never fail, whatever completions are discarded: a
\* read that collects has its buffer, and any result there is fits in it.
ReleaseHolds == outcome # "assert"

\* "This is used by read or write operations to move the read or write cursor
\* forward": the cursor is where the bytes reported to the caller end, whatever
\* completions are discarded.
CursorExact == Offset = moved

\* take "ensures that the returned buffer can hold at least size bytes".
TakeHolds == outcome # "slice"
=============================================================================
