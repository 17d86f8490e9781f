------------------------------- MODULE Accept -------------------------------
(***************************************************************************)
(* Accepting connections: the sockets that accept hands to the kernel and  *)
(* then to its caller (socket.rs, socket/operation.rs), and the pool that  *)
(* they are taken from and released to (pool/socket_pool.rs).              *)
(*                                                                         *)
(* A socket is the number the system knows it by, which it gives out again *)
(* once the socket is closed.  ACCEPT is the only code of a Socket, so its *)
(* lock is the OverlappedResource of one code; a poll that finds it        *)
(* submitted only asks for a cancellation, which is among what Complete    *)
(* may do, and any other poll is one step, under its guard.                *)
(***************************************************************************)
EXTENDS Integers, Sequences

CONSTANTS
  Listeners,   \* the Sockets that accept: one, and its duplicates
  Numbers      \* the numbers the system can give to the sockets of the pools

VARIABLES
  sockets,           \* sockets[l]: SocketPool::sockets
  taken, released,   \* SocketPool::taken and released
  phase,             \* the phase of l's lock; "none" before it is made
  result,            \* what the kernel reported for the accept completed
  outcome,           \* what the last poll of l's accept ended in
  open,              \* the numbers of sockets that are open
  connected,         \* those the kernel has connected to a client
  accepted           \* those accept has returned and the caller has not dropped

poolVars == <<sockets, taken, released>>
systemVars == <<open, connected>>
vars == <<poolVars, phase, result, outcome, systemVars, accepted>>

TypeOK ==
  /\ sockets \in [Listeners -> Seq(Numbers)]
  /\ taken \in [Listeners -> Nat]
  /\ released \in [Listeners -> Nat]
  /\ phase \in [Listeners ->
                  {"none", "open", "submitted", "completed", "dropped"}]
  /\ result \in [Listeners -> {"none", "ok", "error"}]
  /\ outcome \in [Listeners -> {"none", "pending", "ok", "error"}]
  /\ open \subseteq Numbers /\ connected \subseteq Numbers
  /\ accepted \subseteq Numbers

\* Socket::new: the listener, with an empty pool.
Init ==
  /\ sockets = [l \in Listeners |-> <<>>]
  /\ taken = [l \in Listeners |-> 0]
  /\ released = [l \in Listeners |-> 0]
  /\ \E l \in Listeners :
       phase = [m \in Listeners |-> IF m = l THEN "open" ELSE "none"]
  /\ result = [l \in Listeners |-> "none"]
  /\ outcome = [l \in Listeners |-> "none"]
  /\ open = {} /\ connected = {} /\ accepted = {}

Ends(l, how) == outcome' = [outcome EXCEPT ![l] = how]

-----------------------------------------------------------------------------
(* SocketPool. *)

\* take() has no socket left and makes one.
Makes(l) == Len(sockets[l]) <= taken[l]

\* take() can return s: a new socket, or the next of the vector, whatever has
\* become of it since.
Takes(l, s) ==
  IF Makes(l) THEN s \notin open ELSE s = sockets[l][taken[l] + 1]

\* The vector and the open sockets after take() has returned s.
Grown(l, s) ==
  [sockets EXCEPT ![l] = IF Makes(l) THEN Append(@, s) ELSE @]
OpenWith(l, s) == IF Makes(l) THEN open \cup {s} ELSE open

\* The sockets taken and not released, which clear() closes.
Held(l) == {sockets[l][i] : i \in released[l] + 1 .. taken[l]}

\* closesocket on each number of S, whoever it belongs to by now.
Close(from, S) == open' = from \ S /\ connected' = connected \ S

\* clear(), where the sockets S are taken and not released.
Clear(l, from, S) ==
  /\ Close(from, S)
  /\ taken' = [taken EXCEPT ![l] = 0]
  /\ released' = [released EXCEPT ![l] = 0]

\* The guard's Drop: the pool is cleared, and the lock is open.
DropGuard(l, from, S) ==
  /\ Clear(l, from, S)
  /\ phase' = [phase EXCEPT ![l] = "open"]
  /\ result' = [result EXCEPT ![l] = "none"]

-----------------------------------------------------------------------------
(* A poll of accept that finds the lock open. *)

\* Fault: the counter is taken back, though nothing has been taken.
TakeFailsUntakes(l) ==
  /\ phase[l] = "open" /\ Makes(l)
  /\ taken' = [taken EXCEPT ![l] = @ - 1]
  /\ Ends(l, "error")
  /\ UNCHANGED <<sockets, released, phase, result, systemVars, accepted>>

\* WSASocketW fails, and with it take().
TakeFails(l) ==
  /\ phase[l] = "open" /\ Makes(l)
  /\ DropGuard(l, open, Held(l))
  /\ Ends(l, "error")
  /\ UNCHANGED <<sockets, accepted>>

\* AcceptEx can accept s: an open socket that is neither connected nor handed
\* to it already.
AcceptEx(l, s) ==
  /\ s \in OpenWith(l, s) \ connected
  /\ \A m \in Listeners : phase[m] = "submitted" => s \notin Held(m)

\* AcceptEx refuses the socket, as it may for other reasons too.
StartRefused(l, s) ==
  /\ phase[l] = "open" /\ Takes(l, s)
  /\ sockets' = Grown(l, s)
  /\ DropGuard(l, OpenWith(l, s), Held(l) \cup {s})
  /\ Ends(l, "error")
  /\ UNCHANGED accepted

\* Fault: the guard is not forgotten; its counters are reset.
StartClears(l, s) ==
  /\ phase[l] = "open" /\ Takes(l, s) /\ AcceptEx(l, s)
  /\ sockets' = Grown(l, s)
  /\ open' = OpenWith(l, s)
  /\ phase' = [phase EXCEPT ![l] = "submitted"]
  /\ Ends(l, "pending")
  /\ UNCHANGED <<taken, released, result, connected, accepted>>

\* The kernel has the socket; the guard is forgotten, so it stays taken.
Start(l, s) ==
  /\ phase[l] = "open" /\ Takes(l, s) /\ AcceptEx(l, s)
  /\ sockets' = Grown(l, s)
  /\ open' = OpenWith(l, s)
  /\ taken' = [taken EXCEPT ![l] = @ + 1]
  /\ phase' = [phase EXCEPT ![l] = "submitted"]
  /\ Ends(l, "pending")
  /\ UNCHANGED <<released, result, connected, accepted>>

\* The kernel: a client connects to the socket, if it is still there, or the
\* accept fails or is cancelled.  Of the failures, end of file and broken pipe
\* are collected as a result of no bytes.
Complete(l) ==
  /\ phase[l] = "submitted"
  /\ phase' = [phase EXCEPT ![l] = "completed"]
  /\ \/ /\ Held(l) \subseteq open
        /\ connected' = connected \cup Held(l)
        /\ result' = [result EXCEPT ![l] = "ok"]
     \/ /\ connected' = connected
        /\ \E r \in {"ok", "error"} : result' = [result EXCEPT ![l] = r]
  /\ UNCHANGED <<poolVars, outcome, open, accepted>>

-----------------------------------------------------------------------------
(* A poll of accept that finds its completion. *)

\* GetOverlappedResult reports an error.
CollectError(l) ==
  /\ phase[l] = "completed" /\ result[l] = "error"
  /\ DropGuard(l, open, Held(l))
  /\ Ends(l, "error")
  /\ UNCHANGED <<sockets, accepted>>

\* release(): the socket is no longer clear()'s to close.
Released(l) == sockets[l][released[l] + 1]
StillHeld(l) == {sockets[l][i] : i \in released[l] + 2 .. taken[l]}

\* Fault: only the pool's counters know of the socket.
CollectFailsLeaks(l) ==
  /\ phase[l] = "completed" /\ result[l] = "ok"
  /\ DropGuard(l, open, StillHeld(l))
  /\ Ends(l, "error")
  /\ UNCHANGED <<sockets, accepted>>

\* Socket::new fails on the released socket and drops it, which closes it.
CollectFails(l) ==
  /\ phase[l] = "completed" /\ result[l] = "ok"
  /\ DropGuard(l, open, StillHeld(l) \cup {Released(l)})
  /\ Ends(l, "error")
  /\ UNCHANGED <<sockets, accepted>>

\* The released socket is returned to the caller.
Collect(l) ==
  /\ phase[l] = "completed" /\ result[l] = "ok"
  /\ accepted' = accepted \cup {Released(l)}
  /\ DropGuard(l, open, StillHeld(l))
  /\ Ends(l, "ok")
  /\ UNCHANGED sockets

-----------------------------------------------------------------------------
(* The caller. *)

\* An accepted socket is dropped, which closes it.
DropAccepted(s) ==
  /\ s \in accepted
  /\ accepted' = accepted \ {s}
  /\ Close(open, {s})
  /\ UNCHANGED <<poolVars, phase, result, outcome>>

\* duplicate(): a Socket with a pool and a lock of its own.
Duplicate(l) ==
  /\ phase[l] = "none"
  /\ \E m \in Listeners : phase[m] \in {"open", "submitted", "completed"}
  /\ phase' = [phase EXCEPT ![l] = "open"]
  /\ UNCHANGED <<poolVars, result, outcome, systemVars, accepted>>

\* The Drop of a Socket asks for a cancellation; SocketPool has no Drop, so
\* what it has taken stays open.
DropSocket(l) ==
  /\ phase[l] \in {"open", "submitted", "completed"}
  /\ phase' = [phase EXCEPT ![l] = "dropped"]
  /\ UNCHANGED <<poolVars, result, outcome, systemVars, accepted>>

Next ==
  \/ \E l \in Listeners :
       \/ TakeFails(l) \/ Complete(l) \/ CollectError(l) \/ CollectFails(l)
       \/ Collect(l) \/ Duplicate(l) \/ DropSocket(l)
  \/ \E l \in Listeners, s \in Numbers : StartRefused(l, s) \/ Start(l, s)
  \/ \E s \in Numbers : DropAccepted(s)

Spec == Init /\ [][Next]_vars

-----------------------------------------------------------------------------
(* Properties. *)

\* While the kernel has an accept or its completion waits, exactly one socket
\* is taken: release()'s index and clear()'s slice are within the vector.
\* Under an open lock none is, so that take() begins at the first.
PoolIndices ==
  \A l \in Listeners :
    /\ released[l] = 0
    /\ phase[l] \in {"submitted", "completed"} => taken[l] = 1
    /\ phase[l] \in {"none", "open"} => taken[l] = 0
    /\ taken[l] <= Len(sockets[l])

\* The open sockets that nobody will close: neither the caller of accept nor the
\* clear() of a pool that still exists.
Orphans ==
  open \ (accepted \cup UNION {Held(l) : l \in {m \in Listeners : phase[m] # "dropped"}})

\* No socket leaks through an accept, whichever way and as often as it fails: the
\* last holder of an open socket goes away in one step only, the drop of a Socket
\* whose accept has taken it and has not been collected.  (There it does leak.)
LeaksOnlyAtDrop ==
  [][\A s \in Orphans' \ Orphans :
       \E l \in Listeners : DropSocket(l) /\ s \in Held(l)]_vars

\* release() gives a socket to the caller "without freeing it": it stays open
\* until the caller drops it.
AcceptedStaysOpen == accepted \subseteq open
=============================================================================
