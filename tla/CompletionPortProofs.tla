------------------------ MODULE CompletionPortProofs ------------------------
(***************************************************************************)
(* Proofs about CompletionPort, for any sets of clients and operations and *)
(* any word size that is large enough to count them.                       *)
(***************************************************************************)
EXTENDS CompletionPort, FiniteSetTheorems, TLAPS

USE PortAssumption

\* isize arithmetic stays in the range of isize, and is exact inside it.
LEMMA WrapType == ASSUME NEW n \in Int PROVE Wrap(n) \in -Half .. Half - 1
<1>0. Half \in Int /\ Half > 0
  <2>1. Cardinality(Clients) \in Nat /\ Cardinality(Ops) \in Nat
    BY FS_CardinalityType
  <2> QED
    BY <2>1
<1>1. ASSUME NEW a \in Int, NEW b \in Int, b > 0
      PROVE  a % b \in Int /\ 0 <= a % b /\ a % b < b
  BY <1>1, SMT
<1>2. /\ (n + Half) % (2 * Half) \in Int
      /\ 0 <= (n + Half) % (2 * Half) /\ (n + Half) % (2 * Half) < 2 * Half
  BY <1>0, <1>1
<1> QED
  BY <1>0, <1>2 DEF Wrap

LEMMA WrapExact == ASSUME NEW n \in Int, -Half <= n, n < Half PROVE Wrap(n) = n
BY DEF Wrap

\* Euclidean division by b, and that quotient and remainder are unique.
LEMMA DivMod ==
  ASSUME NEW a \in Int, NEW b \in Int, b > 0
  PROVE  a \div b \in Int /\ a % b \in 0 .. b - 1 /\ a = b * (a \div b) + (a % b)
BY SMT

LEMMA DivModUnique ==
  ASSUME NEW b \in Int, b > 0, NEW q \in Int, NEW p \in Int,
         NEW r \in 0 .. b - 1, NEW s \in 0 .. b - 1, b * q + r = b * p + s
  PROVE  r = s
<1>1. ASSUME NEW x \in Int, NEW y \in Int, x < y
      PROVE  b * y >= b * x + b
  <2>1. b * (y - x - 1) >= 0
    BY <1>1
  <2> QED
    BY <2>1
<1>2. CASE q < p
  BY <1>1, <1>2
<1>3. CASE p < q
  BY <1>1, <1>3
<1> QED
  BY <1>2, <1>3

LEMMA ModAdd ==
  ASSUME NEW a \in Int, NEW k \in Int, NEW b \in Int, b > 0
  PROVE  ((a % b) + k) % b = (a + k) % b
<1> DEFINE q == a \div b
           m == a % b
           p == (m + k) \div b
           s == (m + k) % b
           t == (a + k) \div b
           u == (a + k) % b
           v == q + p
<1>1. q \in Int /\ m \in 0 .. b - 1 /\ a = b * q + m
  BY DivMod
<1>2. m + k \in Int /\ a + k \in Int
  BY <1>1
<1>3. p \in Int /\ s \in 0 .. b - 1 /\ m + k = b * p + s
  BY <1>2, DivMod
<1>4. t \in Int /\ u \in 0 .. b - 1 /\ a + k = b * t + u
  BY <1>2, DivMod
<1> HIDE DEF q, m, p, s, t, u
<1>5. v \in Int /\ b * t + u = b * v + s
  <2>1. b * (q + p) = b * q + b * p
    BY <1>1, <1>3
  <2> QED
    BY <1>1, <1>3, <1>4, <2>1
<1> HIDE DEF v
<1>6. u = s
  BY <1>3, <1>4, <1>5, DivModUnique
<1> QED
  BY <1>6 DEF u, s, m

\* Wrapping the steps of a sum is wrapping the sum.
LEMMA WrapAdd ==
  ASSUME NEW n \in Int, NEW k \in Int
  PROVE  Wrap(Wrap(n) + k) = Wrap(n + k)
<1> DEFINE a == n + Half
           b == 2 * Half
<1>1. a \in Int /\ b \in Int /\ b > 0
  <2>1. Cardinality(Clients) \in Nat /\ Cardinality(Ops) \in Nat
    BY FS_CardinalityType
  <2> QED
    BY <2>1
<1>2. a % b \in Int
  BY <1>1, DivMod
<1>3. Wrap(n) + k + Half = (a % b) + k /\ n + k + Half = a + k
  BY <1>1, <1>2 DEF Wrap
<1>4. ((a % b) + k) % b = (a + k) % b
  <2> HIDE DEF a, b
  <2> QED
    BY <1>1, ModAdd
<1> QED
  BY <1>3, <1>4 DEF Wrap

-----------------------------------------------------------------------------
(* Type correctness.  The thread's local count is positive while it drains. *)

Draining == bg \in {"drain", "release"} => left >= 1

LEMMA TypeInit == Init => TypeOK /\ Draining
<1>1. Cardinality(Clients) \in Nat /\ Cardinality(Ops) \in Nat
  BY FS_CardinalityType
<1> QED
  BY <1>1 DEF Init, TypeOK, Draining

LEMMA TypeNext == TypeOK /\ Draining /\ [Next]_vars => TypeOK' /\ Draining'
<1> SUFFICES ASSUME TypeOK, Draining, [Next]_vars PROVE TypeOK' /\ Draining'
  OBVIOUS
<1> USE DEF TypeOK, Draining, BackgroundVars, Counters, Packets, Messages
<1>1. ASSUME NEW c \in Clients, Permit(c) \/ UndoPermit(c) \/ DropPermit(c)
      PROVE  TypeOK' /\ Draining'
  <2>1. pending + 1 \in Int /\ pending - 1 \in Int
    OBVIOUS
  <2>2. Wrap(pending + 1) \in -Half .. Half - 1 /\ Wrap(pending - 1) \in -Half .. Half - 1
    BY <2>1, WrapType
  <2> QED
    BY <1>1, <2>2 DEF Permit, UndoPermit, DropPermit
<1>2. ASSUME NEW c \in Clients, NEW o \in Ops, Submit(c, o)
      PROVE  TypeOK' /\ Draining'
  BY <1>2 DEF Submit
<1>3. ASSUME NEW o \in Ops, Complete(o)
      PROVE  TypeOK' /\ Draining'
  BY <1>3 DEF Complete
<1>4. CASE Shutdown
  BY <1>4 DEF Shutdown
<1>5. ASSUME NEW m \in Messages, Post(m)
      PROVE  TypeOK' /\ Draining'
  BY <1>5 DEF Post
<1>6. CASE Poll
  BY <1>6 DEF Poll, GetQueuedCompletionStatus
<1>7. CASE AccountStatus
  <2>0. pending - 1 \in Int
    OBVIOUS
  <2>1. Wrap(pending - 1) \in -Half .. Half - 1
    BY <2>0, WrapType
  <2> QED
    BY <1>7, <2>1 DEF AccountStatus
<1>8. CASE Deliver
  BY <1>8 DEF Deliver, DropStatus
<1>9. CASE AccountShutdown
  <2>0. pending - Half \in Int
    OBVIOUS
  <2>1. Wrap(pending - Half) \in -Half .. Half - 1
    BY <2>0, WrapType
  <2>2. AsUsize(pending) \in Nat /\ (pending # 0 => AsUsize(pending) >= 1)
    BY DEF AsUsize
  <2> QED
    BY <1>9, <2>1, <2>2 DEF AccountShutdown
<1>10. CASE AccountReserved
  BY <1>10 DEF AccountReserved
<1>11. CASE PollDuringShutdown
  BY <1>11 DEF PollDuringShutdown, GetQueuedCompletionStatus
<1>12. CASE PollDuringShutdownReserved
  BY <1>12 DEF PollDuringShutdownReserved
<1>13. CASE Release
  BY <1>13 DEF Release, DropStatus
<1>14. CASE UNCHANGED vars
  BY <1>14 DEF vars
<1> QED
  BY <1>1, <1>2, <1>3, <1>4, <1>5, <1>6, <1>7, <1>8, <1>9, <1>10, <1>11,
     <1>12, <1>13, <1>14 DEF Next, Background

\* Every variable keeps its type: the counter is a machine integer and the
\* thread's count of packets to drain never underflows, whatever is posted.
THEOREM TypeCorrect == Spec => []TypeOK
<1>1. Spec => [](TypeOK /\ Draining)
  BY TypeInit, TypeNext, PTL DEF Spec
<1> QED
  BY <1>1, PTL
-----------------------------------------------------------------------------
(* The counter.  A message that the user of the crate posts with an        *)
(* ordinary key is taken for a completion (`stray` counts them), so that   *)
(* the counter is exact up to these before shutdown, and nothing is known  *)
(* of it afterwards unless there were none.                                *)

\* A queued operation is in the queue once, and the thread holds the taken one.
Queued ==
  /\ \A i \in 1 .. Len(queue) : queue[i] \in Ops => io[queue[i]] = "queued"
  /\ \A i, j \in 1 .. Len(queue) : queue[i] \in Ops /\ queue[i] = queue[j] => i = j
  /\ \A o \in Ops : io[o] = "taken" <=> got = o
  /\ bg \in {"deliver", "release"} => got \in Ops \cup {"message"}
  /\ bg = "account" => got # "none"
  /\ bg \in {"poll", "drain", "done", "failed", "panicked"} => got = "none"

\* Without posts nothing but completions and shutdown messages is queued or
\* dequeued, and poll does not fail.
Unposted ==
  posts = 0 =>
    /\ stray = 0
    /\ \A i \in 1 .. Len(queue) : queue[i] \in Ops \cup {"shutdown"}
    /\ got \notin Messages
    /\ bg # "failed"

\* poll has neither returned Shutdown nor failed.
Running == bg \in {"poll", "account", "deliver"}

Holding == Cardinality(Holders)
Permits == Cardinality(Permitted)
Refusals == Cardinality(Refused)
InKernel == Cardinality(Outstanding)
Owed == Cardinality(Uncounted)

\* Before the shutdown message is polled the counter is exact, up to the posted
\* messages it was taken down for; without them nobody is refused.
Exact ==
  Running => /\ pending = Wrap(Holding + Owed - stray)
             /\ stray = 0 => Refusals = 0

\* Afterwards it is isize::MIN plus at least what is still held, and at most
\* what clients and operations can add up to.
Offset ==
  ShutDown /\ stray = 0 =>
    /\ Holding <= pending + Half
    /\ pending + Half <= Cardinality(Clients) + Cardinality(Ops) + Refusals

\* The thread's own count covers every operation that is outstanding and every
\* permit that may still become one.
Covered ==
  posts = 0 =>
    /\ bg \in {"drain", "release"} => Permits + InKernel <= left
    /\ bg = "done" => Permits = 0 /\ InKernel = 0

Counted == Exact /\ Offset /\ Covered

PInv == TypeOK /\ Draining /\ Queued /\ Unposted /\ ShutdownAssertion /\ Counted

\* The sets that are counted are finite, and bounded by clients and operations.
LEMMA Sizes ==
  /\ IsFiniteSet(Holders) /\ IsFiniteSet(Permitted) /\ IsFiniteSet(Refused)
  /\ IsFiniteSet(Outstanding) /\ IsFiniteSet(Uncounted)
  /\ Holding \in Nat /\ Permits \in Nat /\ Refusals \in Nat
  /\ InKernel \in Nat /\ Owed \in Nat
  /\ Cardinality(Clients) \in Nat /\ Cardinality(Ops) \in Nat
  /\ Holding <= Cardinality(Clients) /\ Refusals <= Cardinality(Clients)
  /\ Owed <= Cardinality(Ops)
  /\ Holding = 0 <=> Holders = {}
  /\ Permits = 0 <=> Permitted = {}
  /\ Refusals = 0 <=> Refused = {}
  /\ InKernel = 0 <=> Outstanding = {}
<1>1. /\ Holders \subseteq Clients /\ Permitted \subseteq Clients
      /\ Refused \subseteq Clients /\ Outstanding \subseteq Ops
      /\ Uncounted \subseteq Ops
  BY DEF Holders, Permitted, Refused, Outstanding, Uncounted
<1>2. \A S, T : IsFiniteSet(T) /\ S \subseteq T =>
        /\ IsFiniteSet(S) /\ Cardinality(S) \in Nat
        /\ Cardinality(S) <= Cardinality(T)
        /\ Cardinality(S) = 0 <=> S = {}
  BY FS_Subset, FS_CardinalityType, FS_EmptySet
<1>3. Cardinality(Clients) \in Nat /\ Cardinality(Ops) \in Nat
  BY FS_CardinalityType
<1> QED
  BY <1>1, <1>2, <1>3 DEF Holding, Permits, Refusals, InKernel, Owed

LEMMA OneMore ==
  ASSUME NEW S, NEW T, NEW x, IsFiniteSet(S), T = S \cup {x}, x \notin S
  PROVE  Cardinality(T) = Cardinality(S) + 1
BY FS_AddElement

LEMMA OneLess ==
  ASSUME NEW S, NEW T, NEW x, IsFiniteSet(S), T = S \ {x}, x \in S
  PROVE  Cardinality(T) = Cardinality(S) - 1
BY FS_RemoveElement

\* Without stray messages the counter is in 0 .. |Clients| + |Ops| before
\* shutdown; afterwards it is negative, with room for every client to be refused.
LEMMA CounterRange ==
  ASSUME PInv, stray = 0
  PROVE  /\ Running => /\ pending = Holding + Owed
                       /\ 0 <= pending /\ pending <= Cardinality(Clients) + Cardinality(Ops)
         /\ ShutDown => -Half <= pending /\ pending < 0
<1>1. pending \in Int
  BY DEF PInv, TypeOK
<1>2. Half \in Int /\ Half > 2 * Cardinality(Clients) + Cardinality(Ops)
  OBVIOUS
<1>3. CASE Running
  <2>1. pending = Wrap(Holding + Owed - 0)
    BY <1>3 DEF PInv, Counted, Exact
  <2>2. Holding + Owed - 0 \in Int /\ -Half <= Holding + Owed - 0 /\ Holding + Owed - 0 < Half
    BY <1>2, Sizes
  <2>3. pending = Holding + Owed
    BY <2>1, <2>2, WrapExact, Sizes
  <2> QED
    BY <1>3, <2>3, Sizes DEF Running, ShutDown
<1>4. CASE ShutDown
  <2>1. /\ Holding <= pending + Half
        /\ pending + Half <= Cardinality(Clients) + Cardinality(Ops) + Refusals
    BY <1>4 DEF PInv, Counted, Offset
  <2> QED
    BY <1>1, <1>2, <1>4, <2>1, Sizes DEF Running, ShutDown
<1> QED
  BY <1>3, <1>4

LEMMA PInvInit == Init => PInv
<1> SUFFICES ASSUME Init PROVE PInv
  OBVIOUS
<1>1. Holders = {} /\ Permitted = {} /\ Refused = {} /\ Outstanding = {} /\ Uncounted = {}
  BY DEF Init, Holders, Permitted, Refused, Outstanding, Uncounted
<1>2. Holding = 0 /\ Permits = 0 /\ Refusals = 0 /\ InKernel = 0 /\ Owed = 0
  BY <1>1, FS_EmptySet DEF Holding, Permits, Refusals, InKernel, Owed
<1>3. Wrap(0) = 0
  BY WrapExact, Sizes
<1>4. Counted
  BY <1>2, <1>3 DEF Init, Counted, Exact, Offset, Covered, ShutDown
<1>5. Queued /\ Unposted /\ ShutdownAssertion
  BY DEF Init, Queued, Unposted, Messages, ShutdownAssertion
<1> QED
  BY <1>4, <1>5, TypeInit DEF PInv

-----------------------------------------------------------------------------
(* The queue. *)

LEMMA QueuedNext ==
  ASSUME PInv, [Next]_vars
  PROVE  Queued' /\ Unposted' /\ ShutdownAssertion'
<1>0. bg = "account" /\ stray = 0 => 0 <= pending
  BY CounterRange DEF Running
<1> USE DEF PInv, TypeOK, Queued, Unposted, ShutdownAssertion, BackgroundVars, Counters,
        Packets, Messages
<1>1. ASSUME NEW c \in Clients, Permit(c) \/ UndoPermit(c) \/ DropPermit(c)
      PROVE  Queued' /\ Unposted' /\ ShutdownAssertion'
  BY <1>1 DEF Permit, UndoPermit, DropPermit
<1>2. ASSUME NEW c \in Clients, NEW o \in Ops, Submit(c, o)
      PROVE  Queued' /\ Unposted' /\ ShutdownAssertion'
  BY <1>2 DEF Submit
<1>3. ASSUME NEW o \in Ops, Complete(o)
      PROVE  Queued' /\ Unposted' /\ ShutdownAssertion'
  BY <1>3 DEF Complete
<1>4. CASE Shutdown
  BY <1>4 DEF Shutdown
<1>5. ASSUME NEW m \in Messages, Post(m)
      PROVE  Queued' /\ Unposted' /\ ShutdownAssertion'
  BY <1>5 DEF Post
<1>6. CASE Poll
  BY <1>6 DEF Poll, GetQueuedCompletionStatus
<1>7. CASE AccountStatus
  BY <1>7 DEF AccountStatus
<1>8. CASE Deliver
  BY <1>8 DEF Deliver, DropStatus
<1>9. CASE AccountShutdown
  <2>1. stray = 0 => ~ (pending < 0)
    BY <1>0, <1>9 DEF AccountShutdown
  <2> QED
    BY <1>9, <2>1 DEF AccountShutdown
<1>10. CASE AccountReserved
  BY <1>10 DEF AccountReserved
<1>11. CASE PollDuringShutdown
  BY <1>11 DEF PollDuringShutdown, GetQueuedCompletionStatus
<1>12. CASE PollDuringShutdownReserved
  BY <1>12 DEF PollDuringShutdownReserved
<1>13. CASE Release
  BY <1>13 DEF Release, DropStatus
<1>14. CASE UNCHANGED vars
  BY <1>14 DEF vars
<1> QED
  BY <1>1, <1>2, <1>3, <1>4, <1>5, <1>6, <1>7, <1>8, <1>9, <1>10, <1>11,
     <1>12, <1>13, <1>14 DEF Next, Background

-----------------------------------------------------------------------------
(* The counter, action by action. *)

\* Sets of clients and of operations depend on these variables only.
LEMMA SameClients ==
  ASSUME client' = client
  PROVE  Holding' = Holding /\ Permits' = Permits /\ Refusals' = Refusals
BY DEF Holding, Permits, Refusals, Holders, Permitted, Refused

LEMMA SameOps ==
  ASSUME io' = io, bg' = bg, got' = got
  PROVE  InKernel' = InKernel /\ Owed' = Owed
BY DEF InKernel, Owed, Outstanding, Uncounted

\* What the counter holds for its holders and operations goes up and down by
\* one with them, whatever it has been taken down for.
LEMMA ExactMoves ==
  ASSUME PInv, Running, NEW k \in Int, pending' = Wrap(pending + k),
         Holding' + Owed' - stray' = Holding + Owed - stray + k
  PROVE  pending' = Wrap(Holding' + Owed' - stray')
<1> DEFINE n == Holding + Owed - stray
<1>1. n \in Int /\ pending = Wrap(n)
  BY Sizes DEF PInv, TypeOK, Counted, Exact
<1>2. Holding' + Owed' - stray' = n + k
  OBVIOUS
<1> HIDE DEF n
<1>3. Wrap(Wrap(n) + k) = Wrap(n + k)
  BY <1>1, WrapAdd
<1> QED
  BY <1>1, <1>2, <1>3

\* After a stray message, or once poll has failed, there is nothing to show.
LEMMA CountedLost ==
  ASSUME PInv, bg' = bg, stray' = stray, posts' = posts,
         ~ Running, ~ (ShutDown /\ stray = 0)
  PROVE  Counted'
BY DEF PInv, Unposted, Counted, Exact, Offset, Covered, Running, ShutDown

LEMMA CountedPermit ==
  ASSUME PInv, NEW c \in Clients, Permit(c)
  PROVE  Counted'
<1>1. InKernel' = InKernel /\ Owed' = Owed
  BY SameOps DEF Permit, BackgroundVars
<1>2. Holding' = Holding + 1
  <2>1. Holders' = Holders \cup {c} /\ c \notin Holders
    BY DEF PInv, TypeOK, Permit, Holders
  <2> QED
    BY <2>1, Sizes, OneMore DEF Holding
<1>3. /\ bg' = bg /\ stray' = stray /\ posts' = posts /\ left' = left
      /\ pending' = Wrap(pending + 1)
  BY DEF Permit, BackgroundVars, Counters
<1>t. pending \in Int /\ Half \in Int /\ stray \in Int
  BY DEF PInv, TypeOK
<1>4. CASE Running
  <2>1. pending' = Wrap(Holding' + Owed' - stray')
    <3>1. Holding' + Owed' - stray' = Holding + Owed - stray + 1
      BY <1>1, <1>2, <1>3, <1>t, Sizes
    <3> QED
      BY <1>3, <1>4, <3>1, ExactMoves
  <2>2. stray = 0 => Refused' = Refused
    BY <1>4, CounterRange DEF PInv, TypeOK, Permit, Refused
  <2>3. stray = 0 => Refusals' = Refusals
    BY <2>2 DEF Refusals
  <2>4. Exact'
    BY <1>3, <1>4, <2>1, <2>3 DEF PInv, Counted, Exact, Running
  <2> QED
    BY <1>3, <1>4, <2>4 DEF Counted, Offset, Covered, Running, ShutDown
<1>5. CASE ShutDown /\ stray = 0
  <2>1. pending' = pending + 1
    <3>1. pending + 1 \in Int /\ -Half <= pending + 1 /\ pending + 1 < Half
      BY <1>5, <1>t, CounterRange
    <3> QED
      BY <1>3, <3>1, WrapExact
  <2>2. Refused' = Refused \cup {c} /\ c \notin Refused /\ Permitted' = Permitted
    BY <1>5, CounterRange DEF PInv, TypeOK, Permit, Refused, Permitted
  <2>3. Refusals' = Refusals + 1 /\ Permits' = Permits
    BY <2>2, Sizes, OneMore DEF Refusals, Permits
  <2>4. Offset'
    BY <1>2, <1>3, <1>5, <1>t, <2>1, <2>3, Sizes DEF PInv, Counted, Offset, ShutDown
  <2> QED
    BY <1>1, <1>3, <1>5, <2>3, <2>4
       DEF PInv, Counted, Exact, Covered, ShutDown, Running
<1> QED
  BY <1>3, <1>4, <1>5, CountedLost

LEMMA CountedUndo ==
  ASSUME PInv, NEW c \in Clients, UndoPermit(c)
  PROVE  Counted'
<1>1. InKernel' = InKernel /\ Owed' = Owed
  BY SameOps DEF UndoPermit, BackgroundVars
<1>2. /\ Holders' = Holders \ {c} /\ c \in Holders
      /\ Refused' = Refused \ {c} /\ c \in Refused
      /\ Permitted' = Permitted
  BY DEF PInv, TypeOK, UndoPermit, Holders, Refused, Permitted
<1>3. /\ Holding' = Holding - 1 /\ Refusals' = Refusals - 1 /\ Permits' = Permits
      /\ Holding >= 1 /\ Refusals >= 1
  BY <1>2, Sizes, OneLess DEF Holding, Refusals, Permits
<1>4. /\ bg' = bg /\ stray' = stray /\ posts' = posts /\ left' = left
      /\ pending' = Wrap(pending - 1)
  BY DEF UndoPermit, BackgroundVars, Counters
<1>t. pending \in Int /\ Half \in Int /\ stray \in Int
  BY DEF PInv, TypeOK
<1>5. CASE Running
  <2>1. stray # 0
    BY <1>3, <1>5 DEF PInv, Counted, Exact
  <2>2. pending' = Wrap(Holding' + Owed' - stray')
    <3>1. /\ Holding' + Owed' - stray' = Holding + Owed - stray + (-1)
          /\ pending - 1 = pending + (-1)
      BY <1>1, <1>3, <1>4, <1>t, Sizes
    <3> QED
      BY <1>4, <1>5, <3>1, ExactMoves
  <2> QED
    BY <1>4, <1>5, <2>1, <2>2 DEF Counted, Exact, Offset, Covered, Running, ShutDown
<1>6. CASE ShutDown /\ stray = 0
  <2>1. pending' = pending - 1
    <3>1. pending - 1 \in Int /\ -Half <= pending - 1 /\ pending - 1 < Half
      BY <1>3, <1>6, <1>t, Sizes, CounterRange DEF PInv, Counted, Offset
    <3> QED
      BY <1>4, <3>1, WrapExact
  <2>2. Offset'
    BY <1>3, <1>4, <1>6, <1>t, <2>1, Sizes DEF PInv, Counted, Offset, ShutDown
  <2> QED
    BY <1>1, <1>3, <1>4, <1>6, <2>2
       DEF PInv, Counted, Exact, Covered, ShutDown, Running
<1> QED
  BY <1>4, <1>5, <1>6, CountedLost

LEMMA CountedDrop ==
  ASSUME PInv, NEW c \in Clients, DropPermit(c)
  PROVE  Counted'
<1>1. InKernel' = InKernel /\ Owed' = Owed
  BY SameOps DEF DropPermit, BackgroundVars
<1>2. /\ Holders' = Holders \ {c} /\ c \in Holders
      /\ Permitted' = Permitted \ {c} /\ c \in Permitted
      /\ Refused' = Refused
  BY DEF PInv, TypeOK, DropPermit, Holders, Refused, Permitted
<1>3. /\ Holding' = Holding - 1 /\ Permits' = Permits - 1 /\ Refusals' = Refusals
      /\ Holding >= 1 /\ Permits >= 1
  BY <1>2, Sizes, OneLess DEF Holding, Refusals, Permits
<1>4. /\ bg' = bg /\ stray' = stray /\ posts' = posts /\ left' = left
      /\ pending' = Wrap(pending - 1)
  BY DEF DropPermit, BackgroundVars, Counters
<1>t. pending \in Int /\ Half \in Int /\ stray \in Int /\ left \in Int
  BY DEF PInv, TypeOK
<1>5. CASE Running
  <2>1. pending' = Wrap(Holding' + Owed' - stray')
    <3>1. /\ Holding' + Owed' - stray' = Holding + Owed - stray + (-1)
          /\ pending - 1 = pending + (-1)
      BY <1>1, <1>3, <1>4, <1>t, Sizes
    <3> QED
      BY <1>4, <1>5, <3>1, ExactMoves
  <2>2. Exact'
    BY <1>3, <1>4, <1>5, <2>1 DEF PInv, Counted, Exact, Running
  <2> QED
    BY <1>4, <1>5, <2>2 DEF Counted, Offset, Covered, Running, ShutDown
<1>6. CASE ShutDown /\ stray = 0
  <2>1. pending' = pending - 1
    <3>1. pending - 1 \in Int /\ -Half <= pending - 1 /\ pending - 1 < Half
      BY <1>3, <1>6, <1>t, Sizes, CounterRange DEF PInv, Counted, Offset
    <3> QED
      BY <1>4, <3>1, WrapExact
  <2>2. Offset'
    BY <1>3, <1>4, <1>6, <1>t, <2>1, Sizes DEF PInv, Counted, Offset, ShutDown
  <2>3. Covered'
    BY <1>1, <1>3, <1>4, <1>t, Sizes DEF PInv, Counted, Covered
  <2> QED
    BY <1>4, <1>6, <2>2, <2>3 DEF Counted, Exact, ShutDown, Running
<1> QED
  BY <1>4, <1>5, <1>6, CountedLost

LEMMA CountedSubmit ==
  ASSUME PInv, NEW c \in Clients, NEW o \in Ops, Submit(c, o)
  PROVE  Counted'
<1>1. /\ Holders' = Holders \ {c} /\ c \in Holders
      /\ Permitted' = Permitted \ {c} /\ c \in Permitted
      /\ Refused' = Refused
  BY DEF PInv, TypeOK, Submit, Holders, Refused, Permitted
<1>2. /\ Outstanding' = Outstanding \cup {o} /\ o \notin Outstanding
      /\ Uncounted' = Uncounted \cup {o} /\ o \notin Uncounted
  BY DEF PInv, TypeOK, Queued, Submit, Outstanding, Uncounted, BackgroundVars
<1>3. /\ Holding' = Holding - 1 /\ Permits' = Permits - 1 /\ Refusals' = Refusals
      /\ Holding >= 1 /\ Permits >= 1
  BY <1>1, Sizes, OneLess DEF Holding, Refusals, Permits
<1>4. InKernel' = InKernel + 1 /\ Owed' = Owed + 1
  BY <1>2, Sizes, OneMore DEF InKernel, Owed
<1>5. /\ pending \in Int /\ Half \in Int /\ left \in Int /\ stray \in Int
      /\ UNCHANGED <<pending, left, bg, posts, stray>>
  BY DEF PInv, TypeOK, Submit, BackgroundVars, Counters
<1>6. Holding' + Owed' - stray' = Holding + Owed - stray
  BY <1>3, <1>4, <1>5, Sizes
<1>7. Exact'
  BY <1>3, <1>5, <1>6 DEF PInv, Counted, Exact, Running
<1>8. Offset'
  BY <1>3, <1>5, Sizes DEF PInv, Counted, Offset, ShutDown
<1>9. Covered'
  BY <1>3, <1>4, <1>5, Sizes DEF PInv, Counted, Covered
<1> QED
  BY <1>7, <1>8, <1>9 DEF Counted

\* Steps that move a packet, or add one to the queue, change no count.
LEMMA CountedMoves ==
  ASSUME PInv,
         \/ \E o \in Ops : Complete(o)
         \/ Shutdown \/ \E m \in Messages : Post(m)
         \/ Poll \/ PollDuringShutdown \/ PollDuringShutdownReserved
  PROVE  Counted'
<1>1. client' = client /\ pending' = pending /\ left' = left /\ stray' = stray
  BY DEF Complete, Shutdown, Post, Poll, PollDuringShutdown,
     PollDuringShutdownReserved, GetQueuedCompletionStatus, BackgroundVars, Counters
<1>2. Outstanding' = Outstanding /\ Uncounted' = Uncounted
  <2> USE DEF PInv, TypeOK, Outstanding, Uncounted
  <2>1. CASE Shutdown \/ (\E m \in Messages : Post(m)) \/ PollDuringShutdownReserved
    BY <2>1 DEF Shutdown, Post, PollDuringShutdownReserved, BackgroundVars
  <2>2. CASE \E o \in Ops : Complete(o)
    BY <2>2 DEF Complete, BackgroundVars
  <2>3. CASE Poll \/ PollDuringShutdown
    <3>1. Head(queue) \in Ops => io[Head(queue)] = "queued"
      <4>1. queue # <<>> /\ queue \in Seq(Packets)
        BY <2>3 DEF Poll, PollDuringShutdown, GetQueuedCompletionStatus
      <4>2. Head(queue) = queue[1] /\ 1 \in 1 .. Len(queue)
        BY <4>1
      <4> QED
        BY <4>2 DEF Queued
    <3> QED
      BY <2>3, <3>1 DEF Poll, PollDuringShutdown, GetQueuedCompletionStatus
  <2> QED
    BY <2>1, <2>2, <2>3
<1>3. InKernel' = InKernel /\ Owed' = Owed
  BY <1>2 DEF InKernel, Owed
<1>4. \/ bg' = bg
      \/ bg = "poll" /\ bg' = "account"
      \/ bg = "drain" /\ bg' \in {"release", "failed"}
  BY DEF Complete, Shutdown, Post, Poll, PollDuringShutdown,
     PollDuringShutdownReserved, GetQueuedCompletionStatus, BackgroundVars
<1>5. posts' = 0 => posts = 0
  BY DEF PInv, TypeOK, Complete, Shutdown, Post, Poll, PollDuringShutdown,
     PollDuringShutdownReserved, Counters
<1>6. Exact' /\ Offset'
  BY <1>1, <1>3, <1>4, SameClients DEF PInv, Counted, Exact, Offset, ShutDown, Running
<1>7. Covered'
  BY <1>1, <1>3, <1>4, <1>5, SameClients DEF PInv, Counted, Covered
<1> QED
  BY <1>6, <1>7 DEF Counted

\* A completion is taken off the counter with its operation; a posted message is
\* taken off, too, and nothing stands against it.
LEMMA CountedAccount ==
  ASSUME PInv, AccountStatus
  PROVE  Counted'
<1>1. Holding' = Holding /\ Permits' = Permits /\ Refusals' = Refusals
  BY SameClients DEF AccountStatus
<1>2. /\ Running /\ bg' = "deliver" /\ got' = got /\ io' = io
      /\ pending' = Wrap(pending - 1)
      /\ stray' = IF got = "message" THEN stray + 1 ELSE stray
  BY DEF AccountStatus, Running
<1>t. pending \in Int /\ stray \in Int /\ stray >= 0
  BY DEF PInv, TypeOK
<1>3. Holding' + Owed' - stray' = Holding + Owed - stray + (-1)
  <2>1. CASE got \in Ops
    <3>1. io[got] = "taken" /\ got # "message"
      BY <2>1 DEF PInv, Queued
    <3>2. Uncounted' = Uncounted \ {got} /\ got \in Uncounted
      BY <2>1, <3>1 DEF PInv, TypeOK, AccountStatus, Outstanding, Uncounted
    <3>3. Owed' = Owed - 1
      BY <3>2, Sizes, OneLess DEF Owed
    <3> QED
      BY <1>1, <1>2, <1>t, <3>1, <3>3, Sizes
  <2>2. CASE got = "message"
    <3>1. got \notin Ops
      BY <2>2
    <3>2. Uncounted' = Uncounted
      BY <3>1, <1>2 DEF Outstanding, Uncounted
    <3>3. Owed' = Owed
      BY <3>2 DEF Owed
    <3> QED
      BY <1>1, <1>2, <1>t, <2>2, <3>3, Sizes
  <2> QED
    BY <2>1, <2>2 DEF AccountStatus
<1>4. pending' = Wrap(Holding' + Owed' - stray')
  <2>1. pending - 1 = pending + (-1)
    BY <1>t
  <2> QED
    BY <1>2, <1>3, <2>1, ExactMoves
<1>5. stray' = 0 => stray = 0
  BY <1>2, <1>t
<1>6. Exact'
  BY <1>1, <1>2, <1>4, <1>5 DEF PInv, Counted, Exact
<1> QED
  BY <1>2, <1>6 DEF Counted, Offset, Covered, ShutDown

LEMMA CountedDeliver ==
  ASSUME PInv, Deliver
  PROVE  Counted'
<1>1. Uncounted' = Uncounted
  BY DEF PInv, TypeOK, Queued, Deliver, DropStatus, Outstanding, Uncounted
<1>2. Owed' = Owed
  BY <1>1 DEF Owed
<1>3. /\ bg = "deliver" /\ bg' = "poll"
      /\ UNCHANGED <<client, pending, stray>>
  BY DEF Deliver, Counters
<1> QED
  BY <1>2, <1>3, SameClients DEF PInv, Counted, Exact, Offset, Covered, ShutDown, Running

LEMMA CountedShutdown ==
  ASSUME PInv, AccountShutdown
  PROVE  Counted'
<1>0. /\ bg = "account" /\ bg' \in {"panicked", "done", "drain"}
      /\ stray' = stray /\ posts' = posts /\ io' = io
  BY DEF AccountShutdown, Counters
<1>e. Exact'
  BY <1>0 DEF Exact, Running
<1>1. CASE stray # 0
  <2>1. posts # 0
    BY <1>1 DEF PInv, Unposted
  <2> QED
    BY <1>0, <1>1, <1>e, <2>1 DEF Counted, Offset, Covered
<1>2. CASE stray = 0
  <2>1. Holding' = Holding /\ Permits' = Permits /\ Refusals' = Refusals
    BY SameClients DEF AccountShutdown
  <2>2. InKernel' = InKernel
    BY <1>0 DEF InKernel, Outstanding
  <2>3. pending = Holding + Owed /\ Refusals = 0
    BY <1>0, <1>2, CounterRange DEF PInv, Counted, Exact, Running
  <2>4. Owed = InKernel
    BY <1>0 DEF Owed, InKernel, Uncounted
  <2>5. Permits = Holding
    <3>1. Refused = {}
      BY <2>3, Sizes
    <3>2. Permitted = Holders
      BY <3>1 DEF PInv, TypeOK, Permitted, Holders, Refused
    <3> QED
      BY <3>2 DEF Permits, Holding
  <2>6. 0 <= pending /\ pending <= Cardinality(Clients) + Cardinality(Ops) /\ pending \in Int
    BY <1>0, <1>2, CounterRange DEF PInv, TypeOK, Running
  <2>7. pending' = pending - Half
    <3>1. pending - Half \in Int /\ -Half <= pending - Half /\ pending - Half < Half
      BY <2>6, Sizes
    <3> QED
      BY <3>1, WrapExact DEF AccountShutdown
  <2>8. left' = pending /\ bg' = IF pending = 0 THEN "done" ELSE "drain"
    BY <2>6 DEF AccountShutdown, AsUsize
  <2> QED
    BY <1>e, <2>1, <2>2, <2>3, <2>4, <2>5, <2>6, <2>7, <2>8, Sizes
       DEF Counted, Offset, Covered, ShutDown
<1> QED
  BY <1>1, <1>2

LEMMA CountedRelease ==
  ASSUME PInv, Release
  PROVE  Counted'
<1>1. Holding' = Holding /\ Permits' = Permits /\ Refusals' = Refusals
  BY SameClients DEF Release
<1>2. /\ bg = "release" /\ left' = left - 1
      /\ bg' = IF left = 1 THEN "done" ELSE "drain"
      /\ UNCHANGED <<pending, stray, posts>>
  BY DEF Release, Counters
<1>3. Exact' /\ Offset'
  BY <1>1, <1>2 DEF PInv, Counted, Exact, Offset, ShutDown, Running
<1>4. CASE posts = 0
  <2>1. got \in Ops /\ io[got] = "taken"
    BY <1>2, <1>4 DEF PInv, Queued, Unposted, Messages
  <2>2. Outstanding' = Outstanding \ {got} /\ got \in Outstanding
    BY <2>1 DEF PInv, TypeOK, Release, DropStatus, Outstanding
  <2>3. InKernel' = InKernel - 1 /\ InKernel >= 1
    BY <2>2, Sizes, OneLess DEF InKernel
  <2>4. Permits + InKernel <= left /\ left \in Nat
    BY <1>2, <1>4 DEF PInv, TypeOK, Counted, Covered
  <2>5. Covered'
    BY <1>1, <1>2, <2>3, <2>4, Sizes DEF Covered
  <2> QED
    BY <1>3, <2>5 DEF Counted
<1>5. CASE posts # 0
  BY <1>2, <1>3, <1>5 DEF Counted, Covered
<1> QED
  BY <1>4, <1>5

LEMMA PInvNext == PInv /\ [Next]_vars => PInv'
<1> SUFFICES ASSUME PInv, [Next]_vars PROVE PInv'
  OBVIOUS
<1>1. TypeOK' /\ Draining'
  BY TypeNext DEF PInv
<1>2. Queued' /\ Unposted' /\ ShutdownAssertion'
  BY QueuedNext
<1>3. Counted'
  <2>1. CASE UNCHANGED vars
    BY <2>1, SameClients, SameOps
       DEF vars, PInv, Counted, Exact, Offset, Covered, ShutDown, Running
  <2>2. CASE AccountReserved
    BY <1>2, <2>2
       DEF AccountReserved, Unposted, Counted, Exact, Offset, Covered, ShutDown, Running
  <2>3. CASE Next
    BY <2>2, <2>3, CountedPermit, CountedUndo, CountedDrop, CountedSubmit,
       CountedMoves, CountedAccount, CountedDeliver, CountedShutdown,
       CountedRelease
       DEF Next, Background
  <2> QED
    BY <2>1, <2>3
<1> QED
  BY <1>1, <1>2, <1>3 DEF PInv

\* Without posts nothing but poll's Shutdown takes the counter across zero.
LEMMA CounterSide ==
  ASSUME PInv, posts = 0
  PROVE  /\ \A c \in Clients :
              IF client[c] = "idle" THEN Wrap(pending + 1) >= 0 <=> pending >= 0
                                    ELSE Wrap(pending - 1) >= 0 <=> pending >= 0
         /\ bg = "account" =>
              IF got = "shutdown" THEN pending >= 0 /\ Wrap(pending - Half) < 0
                                  ELSE Wrap(pending - 1) >= 0 <=> pending >= 0
<1>0. stray = 0 /\ (Running \/ ShutDown) /\ ~ (Running /\ ShutDown)
  BY DEF PInv, TypeOK, Unposted, ShutdownAssertion, Running, ShutDown
<1>1. pending \in Int /\ Half \in Int /\ Half > 2 * Cardinality(Clients) + Cardinality(Ops)
  BY DEF PInv, TypeOK
<1>2. /\ Running => pending = Holding + Owed
      /\ ShutDown => /\ Holding <= pending + Half
                     /\ pending + Half <= Cardinality(Clients) + Cardinality(Ops) + Refusals
  BY <1>0, CounterRange DEF PInv, Counted, Offset
<1>3. ASSUME NEW c \in Clients, client[c] = "idle"
      PROVE  Wrap(pending + 1) >= 0 <=> pending >= 0
  <2>1. Refusals + 1 <= Cardinality(Clients)
    <3>1. Refused \subseteq Clients \ {c}
      BY <1>3 DEF Refused
    <3>2. IsFiniteSet(Clients \ {c}) /\ Cardinality(Clients \ {c}) = Cardinality(Clients) - 1
      BY FS_RemoveElement
    <3>3. Cardinality(Refused) <= Cardinality(Clients \ {c})
      BY <3>1, <3>2, FS_Subset
    <3> QED
      BY <3>2, <3>3, Sizes DEF Refusals
  <2>2. CASE Running
    <3>1. pending >= 0 /\ pending + 1 < Half
      BY <1>0, <1>1, <2>1, <2>2, CounterRange, Sizes
    <3>2. Wrap(pending + 1) = pending + 1
      BY <1>1, <3>1, WrapExact
    <3> QED
      BY <1>1, <3>1, <3>2
  <2>3. CASE ShutDown
    <3>1. -Half <= pending /\ pending + 1 < 0
      BY <1>1, <1>2, <2>1, <2>3, Sizes
    <3>2. Wrap(pending + 1) = pending + 1
      BY <1>1, <3>1, WrapExact
    <3> QED
      BY <1>1, <3>1, <3>2
  <2> QED
    BY <1>0, <2>2, <2>3
<1>4. ASSUME Holding >= 1 \/ (Running /\ Owed >= 1)
      PROVE  Wrap(pending - 1) >= 0 <=> pending >= 0
  <2>1. CASE Running
    <3>1. pending >= 1 /\ pending < Half
      BY <1>0, <1>1, <1>2, <1>4, <2>1, CounterRange, Sizes
    <3>2. Wrap(pending - 1) = pending - 1
      BY <1>1, <3>1, WrapExact
    <3> QED
      BY <1>1, <3>1, <3>2
  <2>2. CASE ShutDown
    <3>1. -Half <= pending - 1 /\ pending < 0
      BY <1>0, <1>1, <1>2, <1>4, <2>2, CounterRange, Sizes
    <3>2. Wrap(pending - 1) = pending - 1
      BY <1>1, <3>1, WrapExact
    <3> QED
      BY <1>1, <3>1, <3>2
  <2> QED
    BY <1>0, <2>1, <2>2
<1>5. ASSUME NEW c \in Clients, client[c] # "idle"
      PROVE  Wrap(pending - 1) >= 0 <=> pending >= 0
  <2>1. Holders # {}
    BY <1>5 DEF Holders
  <2> QED
    BY <1>4, <2>1, Sizes
<1>6. CASE bg = "account" /\ got = "shutdown"
  <2>1. pending >= 0 /\ pending < Half
    BY <1>0, <1>1, <1>6, CounterRange, Sizes DEF Running
  <2>2. Wrap(pending - Half) = pending - Half
    BY <1>1, <2>1, WrapExact
  <2> QED
    BY <1>1, <1>3, <1>5, <1>6, <2>1, <2>2
<1>7. CASE bg = "account" /\ got # "shutdown"
  <2>1. Running /\ got \in Ops /\ io[got] = "taken"
    BY <1>7 DEF Running, PInv, TypeOK, Queued, Unposted, Packets
  <2>2. Uncounted # {}
    BY <1>7, <2>1 DEF Uncounted, Outstanding
  <2>3. Owed >= 1
    BY <2>2, Sizes, FS_EmptySet DEF Owed
  <2> QED
    BY <1>3, <1>4, <1>5, <1>7, <2>1, <2>3
<1> QED
  BY <1>3, <1>5, <1>6, <1>7

LEMMA PInvHolds == Spec => []PInv
BY PInvInit, PInvNext, PTL DEF Spec

-----------------------------------------------------------------------------
(* The results. *)

\* Until the shutdown message is polled, the counter is the number of permits
\* held plus the operations poll has not accounted for, less the posted messages
\* it took for completions, modulo the word size: no path gains or loses a unit,
\* whatever is posted and however the steps interleave.
THEOREM PendingBalanceHolds == Spec => []PendingBalance
<1>1. PInv => PendingBalance
  BY DEF PInv, Counted, Exact, Running, Holding, Owed, PendingBalance
<1> QED
  BY <1>1, PInvHolds, PTL

\* The counter is negative from the moment poll returns Shutdown and at no
\* other time, however permits, refusals and submissions interleave with it, as
\* long as poll has taken no posted message for a completion.
THEOREM NegativeIffShutDownHolds == Spec => []NegativeIffShutDown
<1>1. PInv => NegativeIffShutDown
  <2> SUFFICES ASSUME PInv, bg # "failed", stray = 0
               PROVE  pending < 0 <=> ShutDown
    BY DEF NegativeIffShutDown
  <2>1. pending \in Int /\ (Running \/ ShutDown) /\ ~ (Running /\ ShutDown)
    BY DEF PInv, TypeOK, ShutdownAssertion, Running, ShutDown
  <2> QED
    BY <2>1, CounterRange
<1> QED
  BY <1>1, PInvHolds, PTL

\* When the background thread returns and nothing was posted, no operation is
\* outstanding and no permit is left that could become one.
THEOREM DrainedAtExitHolds == Spec => []DrainedAtExit
<1>1. PInv => DrainedAtExit
  BY Sizes DEF PInv, Counted, Covered, DrainedAtExit
<1> QED
  BY <1>1, PInvHolds, PTL

\* After poll has returned Shutdown every call of permit() is refused, as long
\* as poll has taken no posted message for a completion.
THEOREM NoPermitAfterShutdownHolds == Spec => NoPermitAfterShutdown
<1> DEFINE Refusing ==
      ShutDown /\ stray = 0 =>
        \A c \in Clients : client[c] = "idle" => client'[c] # "permit"
<1>1. ASSUME PInv, [Next]_vars PROVE [Refusing]_vars
  <2> SUFFICES ASSUME ShutDown, stray = 0, Next, NEW c \in Clients, client[c] = "idle"
               PROVE  client'[c] # "permit"
    BY <1>1
  <2>1. ~ (pending >= 0)
    BY <1>1, CounterRange DEF PInv, TypeOK
  <2>2. client \in [Clients -> {"idle", "refused", "permit"}]
    BY <1>1 DEF PInv, TypeOK
  <2>3. CASE \E d \in Clients : Permit(d) \/ UndoPermit(d) \/ DropPermit(d)
    BY <2>1, <2>2, <2>3 DEF Permit, UndoPermit, DropPermit
  <2>4. CASE \E d \in Clients, o \in Ops : Submit(d, o)
    BY <2>2, <2>4 DEF Submit
  <2>5. CASE \/ \E o \in Ops : Complete(o)
             \/ Shutdown \/ (\E m \in Messages : Post(m)) \/ Background
    BY <2>5 DEF Complete, Shutdown, Post, Background, Poll, AccountStatus,
       Deliver, AccountShutdown, AccountReserved, PollDuringShutdown,
       PollDuringShutdownReserved, Release
  <2> QED
    BY <2>3, <2>4, <2>5 DEF Next
<1>2. PInv /\ [Next]_vars => [Refusing]_vars
  BY <1>1
<1> QED
  BY <1>2, PInvHolds, PTL DEF Spec, NoPermitAfterShutdown

\* poll's debug assertion fails only after a posted message was taken for a
\* completion, at any word size that can count clients and operations.
THEOREM ShutdownAssertionHolds == Spec => []ShutdownAssertion
<1>1. PInv => ShutdownAssertion
  BY DEF PInv
<1> QED
  BY <1>1, PInvHolds, PTL
=============================================================================
