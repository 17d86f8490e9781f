--------------------------- MODULE CompletionPort ---------------------------
(***************************************************************************)
(* The completion port: the `pending` counter that hands out permits       *)
(* (completion_port.rs), the kernel's queue of completion packets, and the *)
(* background thread that polls it until it is told to shut down and then  *)
(* drains what is left (background.rs).                                    *)
(*                                                                         *)
(* Every access to the atomic counter is a step of its own.  What a client *)
(* does between taking a permit and giving it back is Handle.tla's matter; *)
(* here it either submits an operation (and forgets the permit) or drops   *)
(* the permit.                                                             *)
(***************************************************************************)
EXTENDS Integers, Sequences, FiniteSets

CONSTANTS
  Clients,       \* the threads that call Handle::lock or Socket::lock
  Ops,           \* the overlapped operations that can be outstanding at once
  Half,          \* -isize::MIN, i.e. 2^(BITS-1): `pending` is in -Half..Half-1
  Builds,        \* with debug assertions (TRUE), without (FALSE), or either
  MaxShutdowns,  \* bound: calls of shutdown
  MaxPosts       \* bound: calls of post by the user of the crate

ASSUME PortAssumption ==
  /\ IsFiniteSet(Clients) /\ IsFiniteSet(Ops)
  /\ Ops \cap {"shutdown", "message", "reserved", "none"} = {}
  /\ Half \in Nat /\ Half > 2 * Cardinality(Clients) + Cardinality(Ops)
  /\ Builds \subseteq BOOLEAN /\ Builds # {}
  /\ MaxShutdowns \in Nat /\ MaxPosts \in Nat

VARIABLES
  pending,    \* Inner::pending
  client,     \* client[c]: where c is between permit() and the end of its call
  io,         \* io[o]: where operation o is on its way to the kernel and back
  queue,      \* packets the kernel has queued on the port, in FIFO order
  bg,         \* what the background thread does next
  got,        \* the packet it has dequeued, or "none"
  left,       \* its local `pending`: packets still to drain
  shutdowns,  \* number of calls of shutdown so far
  posts,      \* number of calls of post so far
  stray       \* posted messages that poll has counted as completions

vars == <<pending, client, io, queue, bg, got, left, shutdowns, posts, stray>>

\* Messages the user can post: with an ordinary key, or with a reserved one.
Messages == {"message", "reserved"}

Packets == Ops \cup Messages \cup {"shutdown"}

TypeOK ==
  /\ pending \in -Half .. Half - 1
  /\ client \in [Clients -> {"idle", "refused", "permit"}]
  /\ io \in [Ops -> {"free", "flight", "queued", "taken"}]
  /\ queue \in Seq(Packets)
  /\ bg \in {"poll", "account", "deliver", "drain", "release",
             "done", "failed", "panicked"}
  /\ got \in Packets \cup {"none"}
  /\ left \in Nat
  /\ shutdowns \in Nat /\ posts \in Nat /\ stray \in Nat

-----------------------------------------------------------------------------
\* Fault: the counter is not a machine integer.
WrapUnbounded(n) == n

\* isize arithmetic of fetch_add and fetch_sub, which wrap around.
Wrap(n) == ((n + Half) % (2 * Half)) - Half

\* `pending as usize`
AsUsize(n) == IF n >= 0 THEN n ELSE n + 2 * Half

Init ==
  /\ pending = 0
  /\ client = [c \in Clients |-> "idle"]
  /\ io = [o \in Ops |-> "free"]
  /\ queue = <<>>
  /\ bg = "poll"
  /\ got = "none"
  /\ left = 0
  /\ shutdowns = 0 /\ posts = 0 /\ stray = 0

-----------------------------------------------------------------------------
(* The clients: CompletionPort::permit and CompletionPortPermit. *)

Counters == <<shutdowns, posts, stray>>
BackgroundVars == <<bg, got, left>>

\* Fault: the old value of the counter is not looked at.
PermitUnchecked(c) ==
  /\ client[c] = "idle"
  /\ pending' = Wrap(pending + 1)
  /\ client' = [client EXCEPT ![c] = "permit"]
  /\ UNCHANGED <<io, queue, BackgroundVars, Counters>>

\* permit(): the first fetch_add decides; a negative counter is a refusal.
Permit(c) ==
  /\ client[c] = "idle"
  /\ pending' = Wrap(pending + 1)
  /\ client' = [client EXCEPT ![c] = IF pending >= 0 THEN "permit" ELSE "refused"]
  /\ UNCHANGED <<io, queue, BackgroundVars, Counters>>

\* permit(): a refused caller takes its increment back and returns the error.
UndoPermit(c) ==
  /\ client[c] = "refused"
  /\ pending' = Wrap(pending - 1)
  /\ client' = [client EXCEPT ![c] = "idle"]
  /\ UNCHANGED <<io, queue, BackgroundVars, Counters>>

\* Fault: the permit is forgotten on a path that submits nothing.
DropPermitForgotten(c) ==
  /\ client[c] = "permit"
  /\ client' = [client EXCEPT ![c] = "idle"]
  /\ UNCHANGED <<pending, io, queue, BackgroundVars, Counters>>

\* The permit's Drop: the call was busy, collected a result or failed.
DropPermit(c) ==
  /\ client[c] = "permit"
  /\ pending' = Wrap(pending - 1)
  /\ client' = [client EXCEPT ![c] = "idle"]
  /\ UNCHANGED <<io, queue, BackgroundVars, Counters>>

\* Fault: the guard is not forgotten, and its Drop gives the permit back.
SubmitDropsPermit(c, o) ==
  /\ client[c] = "permit"
  /\ io[o] = "free"
  /\ io' = [io EXCEPT ![o] = "flight"]
  /\ pending' = Wrap(pending - 1)
  /\ client' = [client EXCEPT ![c] = "idle"]
  /\ UNCHANGED <<queue, BackgroundVars, Counters>>

\* The call submitted an operation: the guard and its permit are forgotten.
Submit(c, o) ==
  /\ client[c] = "permit"
  /\ io[o] = "free"
  /\ io' = [io EXCEPT ![o] = "flight"]
  /\ client' = [client EXCEPT ![c] = "idle"]
  /\ UNCHANGED <<pending, queue, BackgroundVars, Counters>>

\* The kernel finishes an operation and queues its packet.
Complete(o) ==
  /\ io[o] = "flight"
  /\ io' = [io EXCEPT ![o] = "queued"]
  /\ queue' = Append(queue, o)
  /\ UNCHANGED <<pending, client, BackgroundVars, Counters>>

\* shutdown(): post(SHUTDOWN_PORT, null).
Shutdown ==
  /\ shutdowns < MaxShutdowns
  /\ queue' = Append(queue, "shutdown")
  /\ shutdowns' = shutdowns + 1
  /\ UNCHANGED <<pending, client, io, BackgroundVars, posts, stray>>

\* post(key, null) called by the user of the crate.
Post(m) ==
  /\ posts < MaxPosts
  /\ queue' = Append(queue, m)
  /\ posts' = posts + 1
  /\ UNCHANGED <<pending, client, io, BackgroundVars, shutdowns, stray>>

-----------------------------------------------------------------------------
(* The background thread. *)

\* GetQueuedCompletionStatus returns the packet at the head of the queue.
GetQueuedCompletionStatus(next) ==
  /\ queue # <<>>
  /\ got' = Head(queue)
  /\ queue' = Tail(queue)
  /\ io' = [o \in Ops |-> IF o = Head(queue) THEN "taken" ELSE io[o]]
  /\ bg' = next

\* The status is dropped: an operation's header may be used again.
DropStatus ==
  /\ io' = [o \in Ops |-> IF o = got THEN "free" ELSE io[o]]
  /\ got' = "none"

\* poll(), up to the return of the system call.
Poll ==
  /\ bg = "poll"
  /\ GetQueuedCompletionStatus("account")
  /\ UNCHANGED <<pending, client, left, Counters>>

\* poll() returns a status: an operation's, or that of a message posted with
\* an ordinary key.  Both give one unit of the counter back.
AccountStatus ==
  /\ bg = "account" /\ got \in Ops \cup {"message"}
  /\ pending' = Wrap(pending - 1)
  /\ stray' = IF got = "message" THEN stray + 1 ELSE stray
  /\ bg' = "deliver"
  /\ UNCHANGED <<client, io, queue, got, left, shutdowns, posts>>

\* The loop unlocks or releases the header and drops the status.
Deliver ==
  /\ bg = "deliver"
  /\ DropStatus
  /\ bg' = "poll"
  /\ UNCHANGED <<pending, client, queue, left, Counters>>

\* Fault: the counter is only read, so permits are still granted.
AccountShutdownReads ==
  /\ bg = "account" /\ got = "shutdown"
  /\ got' = "none"
  /\ left' = AsUsize(pending)
  /\ bg' = IF pending = 0 THEN "done" ELSE "drain"
  /\ UNCHANGED <<pending, client, io, queue, Counters>>

\* Fault: the thread returns without draining.
AccountShutdownReturns ==
  /\ bg = "account" /\ got = "shutdown"
  /\ pending' = Wrap(pending - Half)
  /\ got' = "none"
  /\ left' = 0
  /\ bg' = "done"
  /\ UNCHANGED <<client, io, queue, Counters>>

\* poll() returns Shutdown with the counter's old value, after adding
\* isize::MIN to it.
AccountShutdown ==
  /\ bg = "account" /\ got = "shutdown"
  /\ pending' = Wrap(pending - Half)
  /\ got' = "none"
  /\ \E debug \in Builds :
       IF debug /\ pending < 0
       THEN /\ bg' = "panicked"
            /\ left' = left
       ELSE /\ left' = AsUsize(pending)
            /\ bg' = IF pending = 0 THEN "done" ELSE "drain"
  /\ UNCHANGED <<client, io, queue, Counters>>

\* poll() fails on any other reserved key, and the thread returns the error.
AccountReserved ==
  /\ bg = "account" /\ got = "reserved"
  /\ got' = "none"
  /\ bg' = "failed"
  /\ UNCHANGED <<pending, client, io, queue, left, Counters>>

\* poll_during_shutdown() returns a status.
PollDuringShutdown ==
  /\ bg = "drain"
  /\ queue # <<>> /\ Head(queue) \in Ops \cup {"message"}
  /\ GetQueuedCompletionStatus("release")
  /\ UNCHANGED <<pending, client, left, Counters>>

\* Fault: a repeated shutdown is an error like any other reserved key.
RepeatedShutdownFails ==
  /\ bg = "drain"
  /\ queue # <<>> /\ Head(queue) \notin Ops \cup {"message"}
  /\ queue' = Tail(queue)
  /\ bg' = "failed"
  /\ UNCHANGED <<pending, client, io, got, left, Counters>>

\* poll_during_shutdown() skips a repeated shutdown and fails on any other
\* reserved key.
PollDuringShutdownReserved ==
  /\ bg = "drain"
  /\ queue # <<>> /\ Head(queue) \notin Ops \cup {"message"}
  /\ queue' = Tail(queue)
  /\ bg' = IF Head(queue) = "shutdown" THEN "drain" ELSE "failed"
  /\ UNCHANGED <<pending, client, io, got, left, Counters>>

\* Fault: the loop ends one packet early.
ReleaseOneEarly ==
  /\ bg = "release"
  /\ DropStatus
  /\ left' = left - 1
  /\ bg' = IF left <= 2 THEN "done" ELSE "drain"
  /\ UNCHANGED <<pending, client, queue, Counters>>

\* The drain loop releases the header; the counter itself is left alone.
Release ==
  /\ bg = "release"
  /\ DropStatus
  /\ left' = left - 1
  /\ bg' = IF left = 1 THEN "done" ELSE "drain"
  /\ UNCHANGED <<pending, client, queue, Counters>>

Background ==
  \/ Poll \/ AccountStatus \/ Deliver \/ AccountShutdown \/ AccountReserved
  \/ PollDuringShutdown \/ PollDuringShutdownReserved \/ Release

Next ==
  \/ \E c \in Clients : Permit(c) \/ UndoPermit(c) \/ DropPermit(c)
  \/ \E c \in Clients, o \in Ops : Submit(c, o)
  \/ \E o \in Ops : Complete(o)
  \/ Shutdown
  \/ \E m \in Messages : Post(m)
  \/ Background

Spec == Init /\ [][Next]_vars

\* The background thread runs, a call that was begun ends, and the kernel
\* completes the operations it was given.
Fairness ==
  /\ WF_vars(Background)
  /\ \A c \in Clients :
       WF_vars(UndoPermit(c) \/ DropPermit(c) \/ \E o \in Ops : Submit(c, o))
  /\ \A o \in Ops : WF_vars(Complete(o))

FairSpec == Spec /\ Fairness

-----------------------------------------------------------------------------
(* What the states of clients, operations and the thread stand for. *)

\* Clients whose increment of the counter has not been taken back.
Holders == {c \in Clients : client[c] # "idle"}
Permitted == {c \in Clients : client[c] = "permit"}
Refused == {c \in Clients : client[c] = "refused"}

\* Operations the kernel has accepted and whose status has not been dropped.
Outstanding == {o \in Ops : io[o] # "free"}

\* Outstanding operations that poll has not yet taken off the counter.
Uncounted == {o \in Outstanding : ~ (bg = "deliver" /\ got = o)}

\* The counter has been moved to its shutting-down range.
ShutDown == bg \in {"drain", "release", "done"}

-----------------------------------------------------------------------------
(* Properties. *)

\* While the port is open, `pending` is the number of permits held plus the
\* number of operations poll has not accounted for, less the posted messages
\* that poll took for completions: no path of permit(), its Drop, the submit
\* paths or poll() gains or loses a unit.
PendingBalance ==
  bg \in {"poll", "account", "deliver"} =>
    pending = Wrap(Cardinality(Holders) + Cardinality(Uncounted) - stray)

\* "Is negative if the port is shutting down" (Inner::pending), and only then:
\* permit() refuses I/O exactly when poll has seen the shutdown message, as
\* long as it has taken no posted message for a completion.
NegativeIffShutDown ==
  bg # "failed" /\ stray = 0 => (pending < 0 <=> ShutDown)

\* poll's debug assertion on the counter it reads at shutdown fails only when
\* a message posted by the user has been counted as a completion.
ShutdownAssertion == bg = "panicked" => stray > 0

\* When the background thread returns from its drain loop no operation is in
\* the kernel or in the queue, and no client still holds a permit with which
\* it could submit one: nothing completes into a port nobody polls.  (Posted
\* messages are drained in place of completions.)
DrainedAtExit ==
  bg = "done" /\ posts = 0 => Outstanding = {} /\ Permitted = {}

\* Once poll has returned Shutdown, no call of permit() succeeds any more,
\* unless a posted message was taken for a completion.
NoPermitAfterShutdown ==
  [][ShutDown /\ stray = 0 => \A c \in Clients : client[c] = "idle" => client'[c] # "permit"]_vars

\* shutdown() makes the background thread return, so that join() does.
JoinReturns == shutdowns > 0 ~> bg = "done"
=============================================================================
