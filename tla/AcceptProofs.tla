---------------------------- MODULE AcceptProofs ----------------------------
(***************************************************************************)
(* Theorems about Accept, for any set of listeners and of socket numbers.  *)
(***************************************************************************)
EXTENDS Accept, TLAPS

\* The inductive invariant: a socket is taken while the kernel has it and no
\* longer.
AInv == TypeOK /\ PoolIndices

\* The pools that will close what they hold.
Pools == {m \in Listeners : phase[m] # "dropped"}

\* What a pool with one socket taken holds is the first of its vector, and
\* nothing once that is released.
LEMMA HeldFirst ==
  ASSUME TypeOK, PoolIndices, NEW l \in Listeners
  PROVE  /\ taken[l] = 0 => Held(l) = {}
         /\ taken[l] = 1 => Held(l) = {sockets[l][1]}
         /\ taken[l] \in {0, 1} => StillHeld(l) = {}
         /\ Held(l) \subseteq Numbers
  BY DEF TypeOK, PoolIndices, Held, StillHeld

LEMMA AInvInit == Init => AInv
<1> SUFFICES ASSUME Init PROVE AInv
  OBVIOUS
<1>1. TypeOK
  BY DEF Init, TypeOK
<1>2. PoolIndices
  <2>1. \A l \in Listeners : taken[l] = 0 /\ released[l] = 0 /\ Len(sockets[l]) = 0
    BY DEF Init
  <2>2. \A l \in Listeners : taken[l] <= Len(sockets[l])
    <3>1. \A m, n : m = 0 /\ n = 0 => m <= n
      BY SMT
    <3> QED
      BY <2>1, <3>1, Zenon
  <2>3. \A l \in Listeners : phase[l] \notin {"submitted", "completed"}
    BY DEF Init
  <2> QED
    BY <2>1, <2>2, <2>3 DEF PoolIndices
<1> QED
  BY <1>1, <1>2 DEF AInv

\* What take() returns is a socket number, and the first of the vector once it
\* has been taken from an open pool.
LEMMA TakeFirst ==
  ASSUME TypeOK, PoolIndices, NEW l \in Listeners, phase[l] = "open",
         NEW s \in Numbers, Takes(l, s)
  PROVE  /\ Grown(l, s) \in [Listeners -> Seq(Numbers)]
         /\ Len(Grown(l, s)[l]) >= 1 /\ Grown(l, s)[l][1] = s
         /\ \A m \in Listeners \ {l} : Grown(l, s)[m] = sockets[m]
         /\ OpenWith(l, s) \subseteq Numbers
         /\ OpenWith(l, s) \subseteq open \cup {s}
<1> USE DEF TypeOK
<1>1. taken[l] = 0
  BY DEF PoolIndices
<1>2. CASE Makes(l)
  <2>1. sockets[l] = <<>>
    BY <1>1, <1>2 DEF Makes
  <2>2. Append(sockets[l], s) = <<s>>
    BY <2>1
  <2> QED
    BY <1>2, <2>2 DEF Grown, OpenWith
<1>3. CASE ~ Makes(l)
  <2>1. Grown(l, s) = sockets
    BY <1>3 DEF Grown
  <2> QED
    BY <1>1, <1>3, <2>1 DEF Makes, Takes, OpenWith
<1> QED
  BY <1>2, <1>3

\* A step after which each open socket was open before it, or belongs to the
\* caller or to a pool, and was taken from none, orphans nothing.
LEMMA NoneOrphaned ==
  ASSUME \A s \in open' : s \in accepted' \/ (\E m \in Pools' : s \in Held(m)')
                          \/ (/\ s \in open /\ s \notin accepted
                              /\ \A m \in Pools : s \notin Held(m))
  PROVE  Orphans' \subseteq Orphans
BY DEF Orphans, Pools

\* Every way a guard is dropped keeps the invariant and orphans nothing, provided
\* each socket that stays open did not belong to its pool, or does to the caller.
LEMMA DropGuardKeeps ==
  ASSUME AInv, NEW l \in Listeners, phase[l] # "dropped",
         NEW from, from \subseteq Numbers, NEW S,
         DropGuard(l, from, S),
         sockets' \in [Listeners -> Seq(Numbers)],
         \A m \in Listeners \ {l} : sockets'[m] = sockets[m],
         outcome' \in [Listeners -> {"none", "pending", "ok", "error"}],
         accepted' \subseteq Numbers, accepted \subseteq accepted',
         from \ S \subseteq accepted' \cup (open \ (Held(l) \ accepted'))
  PROVE  AInv' /\ Orphans' \subseteq Orphans
<1> USE DEF AInv
<1>1. TypeOK'
  BY DEF TypeOK, DropGuard, Clear, Close
<1>2. PoolIndices'
  BY DEF TypeOK, PoolIndices, DropGuard, Clear
<1>3. ASSUME NEW m \in Pools \ {l} PROVE m \in Pools' /\ Held(m)' = Held(m)
  BY <1>3 DEF TypeOK, Held, Pools, DropGuard, Clear
<1>4. open' = from \ S
  BY DEF DropGuard, Clear, Close
<1>5. Orphans' \subseteq Orphans
  <2> SUFFICES ASSUME NEW s \in open', s \notin accepted',
                      \A m \in Pools' : s \notin Held(m)'
               PROVE  s \in open /\ s \notin accepted /\ \A m \in Pools : s \notin Held(m)
    BY NoneOrphaned
  <2>1. s \in open /\ s \notin Held(l) /\ s \notin accepted
    BY <1>4
  <2> QED
    BY <1>3, <2>1
<1> QED
  BY <1>1, <1>2, <1>5

\* The steps other than the drop of a Socket.
LEMMA AInvStep ==
  ASSUME AInv, [Next]_vars
  PROVE  /\ AInv'
         /\ (\A l \in Listeners : ~ DropSocket(l)) => Orphans' \subseteq Orphans
<1> USE DEF AInv
<1>0. \A l \in Listeners : Held(l) \subseteq Numbers
  BY HeldFirst
<1>1. ASSUME NEW l \in Listeners, TakeFails(l) PROVE AInv' /\ Orphans' \subseteq Orphans
  BY <1>1, DropGuardKeeps DEF TakeFails, Ends, TypeOK
<1>2. ASSUME NEW l \in Listeners, NEW s \in Numbers, StartRefused(l, s)
      PROVE  AInv' /\ Orphans' \subseteq Orphans
  <2>1. phase[l] = "open" /\ Takes(l, s)
    BY <1>2 DEF StartRefused
  <2> DEFINE from == OpenWith(l, s)
             S == Held(l) \cup {s}
  <2>2. from \subseteq Numbers /\ from \ S \subseteq open \ Held(l)
    BY <2>1, TakeFirst
  <2>3. DropGuard(l, from, S) /\ accepted' = accepted
    BY <1>2 DEF StartRefused
  <2>4. /\ sockets' \in [Listeners -> Seq(Numbers)]
        /\ \A m \in Listeners \ {l} : sockets'[m] = sockets[m]
    BY <1>2, <2>1, TakeFirst DEF StartRefused
  <2>5. outcome' \in [Listeners -> {"none", "pending", "ok", "error"}]
    BY <1>2 DEF StartRefused, Ends, TypeOK
  <2>6. from \ S \subseteq accepted' \cup (open \ (Held(l) \ accepted'))
    BY <2>2
  <2>7. accepted' \subseteq Numbers
    BY <2>3 DEF TypeOK
  <2> HIDE DEF from, S
  <2> QED
    BY <2>1, <2>2, <2>3, <2>4, <2>5, <2>6, <2>7, DropGuardKeeps
<1>3. ASSUME NEW l \in Listeners, NEW s \in Numbers, Start(l, s)
      PROVE  AInv' /\ Orphans' \subseteq Orphans
  <2>1. phase[l] = "open" /\ Takes(l, s) /\ sockets' = Grown(l, s)
    BY <1>3 DEF Start
  <2>2. TypeOK'
    BY <1>3, <2>1, TakeFirst DEF Start, Ends, TypeOK
  <2>3. PoolIndices'
    BY <1>3, <2>1, TakeFirst DEF Start, PoolIndices, TypeOK
  <2>4. s \in Held(l)' /\ l \in Pools'
    <3>1. released'[l] = 0 /\ taken'[l] = 1 /\ phase'[l] = "submitted"
      BY <1>3, <2>1 DEF Start, PoolIndices, TypeOK
    <3>2. sockets'[l][1] = s
      BY <2>1, TakeFirst
    <3> QED
      BY <3>1, <3>2 DEF Held, Pools
  <2>5. \A m \in Pools \ {l} : Held(m)' = Held(m) /\ m \in Pools'
    BY <1>3, <2>1, TakeFirst DEF Start, TypeOK, Held, Pools
  <2>6. Held(l) = {}
    BY <2>1, HeldFirst DEF PoolIndices
  <2>7. open' \subseteq open \cup {s} /\ accepted' = accepted
    BY <1>3, <2>1, TakeFirst DEF Start
  <2>8. Orphans' \subseteq Orphans
    BY <2>4, <2>5, <2>6, <2>7, NoneOrphaned
  <2> QED
    BY <2>2, <2>3, <2>8
<1>4. ASSUME NEW l \in Listeners, Complete(l) PROVE AInv' /\ Orphans' \subseteq Orphans
  <2>1. TypeOK' /\ PoolIndices'
    BY <1>0, <1>4 DEF Complete, TypeOK, PoolIndices, poolVars
  <2>2. Pools' = Pools
    BY <1>4 DEF Complete, Pools, TypeOK
  <2>3. open' = open /\ accepted' = accepted /\ \A m \in Listeners : Held(m)' = Held(m)
    BY <1>4 DEF Complete, Held, poolVars
  <2> QED
    BY <2>1, <2>2, <2>3, NoneOrphaned DEF Pools
<1>5. ASSUME NEW l \in Listeners, CollectError(l) PROVE AInv' /\ Orphans' \subseteq Orphans
  BY <1>5, DropGuardKeeps DEF CollectError, Ends, TypeOK
<1>6. ASSUME NEW l \in Listeners, phase[l] = "completed"
      PROVE  Held(l) = {Released(l)} /\ Released(l) \in Numbers
  BY <1>0, <1>6, HeldFirst DEF PoolIndices, Released
<1>7. ASSUME NEW l \in Listeners, CollectFails(l) PROVE AInv' /\ Orphans' \subseteq Orphans
  BY <1>6, <1>7, DropGuardKeeps DEF CollectFails, Ends, TypeOK
<1>8. ASSUME NEW l \in Listeners, Collect(l) PROVE AInv' /\ Orphans' \subseteq Orphans
  BY <1>6, <1>8, DropGuardKeeps DEF Collect, Ends, TypeOK
<1>9. ASSUME NEW s \in Numbers, DropAccepted(s) PROVE AInv' /\ Orphans' \subseteq Orphans
  <2>1. TypeOK' /\ PoolIndices'
    BY <1>9 DEF DropAccepted, Close, TypeOK, PoolIndices, poolVars
  <2>2. Orphans' \subseteq Orphans
    BY <1>9 DEF DropAccepted, Close, Orphans, Held, poolVars
  <2> QED
    BY <2>1, <2>2
<1>10. ASSUME NEW l \in Listeners, Duplicate(l) PROVE AInv' /\ Orphans' \subseteq Orphans
  <2>1. TypeOK' /\ PoolIndices'
    BY <1>10 DEF Duplicate, TypeOK, PoolIndices, poolVars, systemVars
  <2>2. Pools' = Pools
    BY <1>10 DEF Duplicate, Pools, TypeOK
  <2>3. open' = open /\ accepted' = accepted /\ \A m \in Listeners : Held(m)' = Held(m)
    BY <1>10 DEF Duplicate, Held, poolVars, systemVars
  <2> QED
    BY <2>1, <2>2, <2>3, NoneOrphaned DEF Pools
<1>11. ASSUME NEW l \in Listeners, DropSocket(l) PROVE AInv'
  BY <1>11 DEF DropSocket, TypeOK, PoolIndices, poolVars, systemVars
<1>12. CASE UNCHANGED vars
  BY <1>12 DEF vars, poolVars, systemVars, TypeOK, PoolIndices, Orphans, Held
<1> QED
  BY <1>1, <1>2, <1>3, <1>4, <1>5, <1>7, <1>8, <1>9, <1>10, <1>11, <1>12 DEF Next

LEMMA AInvNext == AInv /\ [Next]_vars => AInv'
BY AInvStep

\* Type correctness.
THEOREM TypeCorrect == Spec => []TypeOK
<1> QED
  BY AInvInit, AInvNext, PTL DEF Spec, AInv

\* release() and clear() index the vector within its bounds, and every accept
\* begins at its first socket.
THEOREM PoolIndicesHold == Spec => []PoolIndices
<1> QED
  BY AInvInit, AInvNext, PTL DEF Spec, AInv

\* However accepts fail, a socket is left open with nobody to close it in one
\* step only: the drop of a Socket while its pool has the socket taken.
THEOREM LeaksOnlyAtDropHolds == Spec => LeaksOnlyAtDrop
<1> DEFINE Step == \A s \in Orphans' \ Orphans :
                     \E l \in Listeners : DropSocket(l) /\ s \in Held(l)
<1>1. AInv /\ [Next]_vars => [Step]_vars
  <2> SUFFICES ASSUME AInv, [Next]_vars, NEW s \in Orphans' \ Orphans
               PROVE  \E l \in Listeners : DropSocket(l) /\ s \in Held(l)
    OBVIOUS
  <2>1. PICK l \in Listeners : DropSocket(l)
    BY AInvStep
  <2>2. /\ open' = open /\ accepted' = accepted /\ \A m \in Listeners : Held(m)' = Held(m)
        /\ phase' = [phase EXCEPT ![l] = "dropped"]
    BY <2>1 DEF DropSocket, Held, poolVars, systemVars
  <2>3. s \in Held(l)
    BY <2>2 DEF AInv, TypeOK, Orphans
  <2> QED
    BY <2>1, <2>3
<1> QED
  BY <1>1, AInvInit, AInvNext, PTL DEF Spec, LeaksOnlyAtDrop
=============================================================================
