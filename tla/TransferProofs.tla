--------------------------- MODULE TransferProofs ---------------------------
(***************************************************************************)
(* Theorems about Transfer, for any sizes, counts and limits.              *)
(***************************************************************************)
EXTENDS Transfer, SequenceTheorems, TLAPS

USE TransferAssumption

Buffer == [len : Nat, cap : Nat, data : {"stale", "out", "in"}, filled : Nat]

OpType == [code : {CodeOf(k) : k \in AllKinds} \cup {"none"},
           asked : Nat, size : Nat, cap : Nat]

\* One buffer is ever in the pool, and it only grows.  It is taken while the
\* lock is held for an operation that needs one; what the kernel was handed of
\* it is within it, and the kernel reports no more than that.
Shape ==
  /\ Len(buffers) = 1 /\ released = 0
  /\ lock # "open" => code # "none"
  /\ lock # "open" /\ code # "CONNECT_NAMED_PIPE" => taken = 1
  /\ \A o \in Ops : ops[o].size <= ops[o].cap /\ ops[o].cap <= buffers[1].cap
  /\ result.bytes <= buffers[1].cap

\* Where nothing was submitted over an open word, an operation in the kernel is
\* the only one, the lock is held for it, and its buffer is in place.
Exclusive ==
  /\ \A o, p \in Ops : io[o] # "free" /\ io[p] # "free" => o = p
  /\ \A o \in Ops : io[o] # "free" =>
       /\ lock = "submitted" /\ code = ops[o].code
       /\ ops[o].code # "CONNECT_NAMED_PIPE" => buffers[1].cap = ops[o].cap

\* Then the bytes a read has reported are in its buffer until it is collected.
InBuffer == ~ Failed => buffers[1].data = "in" /\ buffers[1].filled = result.bytes

Arrived ==
  /\ \A o \in Ops : io[o] = "queued" /\ ops[o].code = "READ" => InBuffer
  /\ lock = "completed" /\ code = "READ" => InBuffer

TInv ==
  /\ TypeOK /\ Shape /\ ReleaseHolds
  /\ ~ bare => Exclusive /\ Arrived
  /\ ReadsWhatArrived /\ SendsWhole

-----------------------------------------------------------------------------
(* What the operators compute. *)

LEMMA MinOfTwo ==
  ASSUME NEW a \in Nat, NEW b \in Nat
  PROVE  Min({a, b}) = IF a <= b THEN a ELSE b
BY DEF Min

LEMMA MaxOfThree ==
  ASSUME NEW a \in Nat, NEW b \in Nat, NEW c \in Nat
  PROVE  Max({a, b, c}) \in Nat /\ Max({a, b, c}) >= a
<1>1. \E x \in {a, b, c} : \A y \in {a, b, c} : x >= y
  OBVIOUS
<1> QED
  BY <1>1 DEF Max

LEMMA SizeFacts ==
  ASSUME NEW n \in Nat
  PROVE  /\ SizeOf(n) \in Nat /\ SizeOf(n) <= n
         /\ Handed(n) \in Nat /\ Handed(n) <= n /\ (Handed(n) = n \/ Handed(n) = MaxDword)
         /\ IoctlFits(n) => Handed(n) = n
BY MinOfTwo DEF SizeOf, Handed, IoctlFits

LEMMA CodeFacts ==
  ASSUME NEW k \in Kinds
  PROVE  /\ CodeOf(k) \in {CodeOf(j) : j \in AllKinds} /\ CodeOf(k) # "none"
         /\ CodeOf(k) = "CONNECT_NAMED_PIPE" <=> k = "connect"
         /\ CodeOf(k) = "READ" <=> Reads(k)
         /\ CodeOf(k) \in {"WRITE", "IO_CTL"} <=> Fills(k)
         /\ CodeOf(k) = "IO_CTL" <=> k = "ioctl"
         /\ k = "connect" \/ Reads(k) \/ Fills(k)
         /\ ~ (Reads(k) /\ Fills(k)) /\ k # "connect" <=> Reads(k) \/ Fills(k)
BY DEF CodeOf, Reads, Fills, AllKinds

LEMMA ReserveFacts ==
  ASSUME NEW b \in Buffer, NEW m \in Nat
  PROVE  Reserve(b, m) \in Buffer /\ Reserve(b, m).cap >= b.cap
<1> DEFINE x == Max({2 * b.cap, b.len + m, 8})
<1>1. x \in Nat /\ x >= 2 * b.cap
  BY MaxOfThree DEF Buffer
<1>2. Reserve(b, m) = IF m <= b.cap - b.len THEN b ELSE [b EXCEPT !.cap = x]
  BY DEF Reserve
<1> HIDE DEF x
<1> QED
  BY <1>1, <1>2 DEF Buffer

\* The one buffer of the pool is replaced.
LEMMA ExceptFirst ==
  ASSUME NEW S, NEW seq \in Seq(S), Len(seq) = 1, NEW e \in S
  PROVE  /\ [seq EXCEPT ![1] = e] \in Seq(S)
         /\ Len([seq EXCEPT ![1] = e]) = 1
         /\ [seq EXCEPT ![1] = e][1] = e
<1>1. 1 \in 1 .. Len(seq)
  OBVIOUS
<1>2. /\ [seq EXCEPT ![1] = e] \in Seq(S)
      /\ Len([seq EXCEPT ![1] = e]) = Len(seq)
      /\ \A j \in 1 .. Len(seq) : [seq EXCEPT ![1] = e][j] = IF j = 1 THEN e ELSE seq[j]
  BY <1>1, ExceptSeq
<1> QED
  BY <1>1, <1>2

LEMMA FirstOfSeq ==
  ASSUME NEW S, NEW seq \in Seq(S), Len(seq) = 1
  PROVE  seq[1] \in S
<1>1. 1 \in 1 .. Len(seq)
  OBVIOUS
<1> QED
  BY <1>1, ElementOfSeq

LEMMA TakeFacts ==
  ASSUME TypeOK, Len(buffers) = 1, NEW n \in Sizes
  PROVE  /\ Take(0, n) \in Seq(Buffer) /\ Len(Take(0, n)) = 1
         /\ Take(0, n)[1].cap >= buffers[1].cap
<1>1. buffers \in Seq(Buffer) /\ buffers[1] \in Buffer
  <2>1. buffers \in Seq(Buffer)
    BY Zenon DEF TypeOK, Buffer
  <2> QED
    BY <2>1, FirstOfSeq
<1>2. SizeOf(n) \in Nat
  BY SizeFacts
<1>3. CASE buffers[1].cap >= SizeOf(n)
  BY <1>1, <1>3 DEF Take, Buffer
<1>4. CASE ~ (buffers[1].cap >= SizeOf(n))
  <2>1. SizeOf(n) - buffers[1].cap \in Nat
    BY <1>1, <1>2, <1>4 DEF Buffer
  <2> DEFINE b == Reserve(buffers[1], SizeOf(n) - buffers[1].cap)
  <2>2. b \in Buffer /\ b.cap >= buffers[1].cap
    BY <1>1, <2>1, ReserveFacts
  <2> HIDE DEF b
  <2>3. /\ [buffers EXCEPT ![1] = b] \in Seq(Buffer)
        /\ Len([buffers EXCEPT ![1] = b]) = 1
        /\ [buffers EXCEPT ![1] = b][1] = b
    BY <1>1, <2>2, ExceptFirst
  <2>4. Take(0, n) = [buffers EXCEPT ![1] = b]
    BY <1>4 DEF Take, b
  <2> QED
    BY <2>2, <2>3, <2>4
<1> QED
  BY <1>3, <1>4

LEMMA PreparedFacts ==
  ASSUME TypeOK, Len(buffers) = 1, NEW k \in Kinds, NEW n \in Sizes
  PROVE  /\ Prepared(k, n) \in Seq(Buffer) /\ Len(Prepared(k, n)) = 1
         /\ Prepared(k, n)[1].cap >= buffers[1].cap
         /\ k # "connect" => Prepared(k, n)[1].cap = Take(0, n)[1].cap
         /\ Fills(k) => Prepared(k, n)[1].data = "out"
                         /\ Prepared(k, n)[1].filled = SizeOf(n)
<1>1. Take(0, n) \in Seq(Buffer) /\ Len(Take(0, n)) = 1
      /\ Take(0, n)[1].cap >= buffers[1].cap
  BY TakeFacts
<1>2. SizeOf(n) \in Nat
  BY SizeFacts
<1> DEFINE b == [Take(0, n)[1] EXCEPT !.data = "out", !.filled = SizeOf(n)]
           new == [Take(0, n) EXCEPT ![1] = b]
<1>3. /\ new \in Seq(Buffer) /\ Len(new) = 1
      /\ new[1].data = "out" /\ new[1].filled = SizeOf(n)
      /\ new[1].cap = Take(0, n)[1].cap
  <2>1. Take(0, n)[1] \in Buffer
    BY <1>1, FirstOfSeq, Zenon
  <2>2. /\ b \in Buffer /\ b.data = "out" /\ b.filled = SizeOf(n)
        /\ b.cap = Take(0, n)[1].cap
    BY <1>2, <2>1 DEF Buffer
  <2> HIDE DEF b
  <2>3. new \in Seq(Buffer) /\ Len(new) = 1 /\ new[1] = b
    BY <1>1, <2>2, ExceptFirst
  <2> HIDE DEF new
  <2> QED
    BY <2>2, <2>3
<1>4. buffers \in Seq(Buffer) /\ buffers[1].cap >= buffers[1].cap
  <2>1. buffers \in Seq(Buffer)
    BY Zenon DEF TypeOK, Buffer
  <2>2. buffers[1] \in Buffer
    BY <2>1, FirstOfSeq
  <2> QED
    BY <2>1, <2>2 DEF Buffer
<1>5. /\ k = "connect" => Prepared(k, n) = buffers
      /\ Reads(k) => Prepared(k, n) = Take(0, n)
      /\ Fills(k) => Prepared(k, n) = new
  BY CodeFacts DEF Prepared, Reads, Fills
<1> HIDE DEF new
<1> QED
  BY <1>1, <1>3, <1>4, <1>5, CodeFacts

-----------------------------------------------------------------------------
(* The steps. *)

LEMMA TInvInit ==
  ASSUME Init
  PROVE  TInv
<1> DEFINE b == NewVec(Initial, Initial)
<1>1. b \in Buffer
  BY DEF NewVec, Buffer
<1> HIDE DEF b
<1>2. <<b>> \in Seq(Buffer) /\ Len(<<b>>) = 1
  BY <1>1
<1>3. buffers \in Seq(Buffer) /\ Len(buffers) = 1
  BY <1>2 DEF Init, b
<1>4. TypeOK
  <2>1. cursor \in [low : 0 .. Word - 1, high : 0 .. Word - 1]
    BY DEF Init
  <2>2. /\ NoOp \in OpType /\ io \in [Ops -> {"free", "flight", "queued"}]
        /\ result \in [status : {"pending", "ok", "eof", "error"}, bytes : Nat]
    BY DEF Init, NoOp, OpType
  <2>5. ops \in [Ops -> OpType]
    BY <2>2 DEF Init
  <2>3. given \in [data : {"stale", "out", "in"}, filled : Nat, len : Nat]
    BY DEF Init, Nothing
  <2>4. taken \in Nat /\ released \in Nat /\ moved \in Nat
    BY DEF Init
  <2> QED
    BY <1>3, <2>1, <2>2, <2>3, <2>4, <2>5, Zenon DEF TypeOK, Buffer, OpType, Init
<1>5. Shape /\ Exclusive /\ Arrived /\ SendsWhole /\ ReleaseHolds
  <2>1. buffers[1].cap \in Nat
    BY <1>3, FirstOfSeq DEF Buffer
  <2> QED
    BY <1>3, <2>1 DEF Init, NoOp, Shape, Exclusive, Arrived, SendsWhole, ReleaseHolds
<1>6. ReadsWhatArrived
  BY DEF Init, Nothing, ReadsWhatArrived
<1> QED
  BY <1>4, <1>5, <1>6 DEF TInv

\* What TInv says of the types, with the names used here.
LEMMA Types ==
  ASSUME TInv
  PROVE  /\ buffers \in Seq(Buffer) /\ Len(buffers) = 1 /\ buffers[1] \in Buffer
         /\ cursor \in [low : 0 .. Word - 1, high : 0 .. Word - 1] /\ moved \in Nat
         /\ io \in [Ops -> {"free", "flight", "queued"}] /\ ops \in [Ops -> OpType]
         /\ result \in [status : {"pending", "ok", "eof", "error"}, bytes : Nat]
         /\ bare \in BOOLEAN
<1>1. /\ buffers \in Seq(Buffer) /\ moved \in Nat
      /\ cursor \in [low : 0 .. Word - 1, high : 0 .. Word - 1]
      /\ io \in [Ops -> {"free", "flight", "queued"}] /\ ops \in [Ops -> OpType]
      /\ result \in [status : {"pending", "ok", "eof", "error"}, bytes : Nat]
      /\ bare \in BOOLEAN
  BY Zenon DEF TInv, TypeOK, Buffer, OpType
<1>2. Len(buffers) = 1
  BY DEF TInv, Shape
<1> QED
  BY <1>1, <1>2, FirstOfSeq

\* Dropping the guard leaves the resource open, whatever the poll ended in.
LEMMA DropKeeps ==
  ASSUME TInv, DropGuard, lock # "submitted",
         UNCHANGED <<io, ops, result, bare>>,
         buffers' \in Seq(Buffer), Len(buffers') = 1, buffers'[1].cap >= buffers[1].cap,
         cursor' \in [low : 0 .. Word - 1, high : 0 .. Word - 1], moved' \in Nat,
         outcome' \in {"none", "pending", "ok", "error",
                       "slice", "put_slice", "oob", "copy", "advance"},
         given' \in [data : {"stale", "out", "in"}, filled : Nat, len : Nat],
         ~ bare => given'.data = "in" /\ given'.len = given'.filled
  PROVE  TInv'
<1>1. TypeOK'
  <2>1. taken' \in Nat /\ released' \in Nat /\ lock' = "open" /\ code' = "none"
    BY DEF DropGuard, Clear
  <2> QED
    BY <2>1, Types, Zenon DEF TypeOK, Buffer, OpType
<1>2. Shape'
  <2>1. buffers[1].cap \in Nat /\ buffers'[1].cap \in Nat
    BY Types, FirstOfSeq DEF Buffer
  <2>2. /\ \A o \in Ops : ops[o].size \in Nat /\ ops[o].cap \in Nat
        /\ result.bytes \in Nat
    BY Types DEF OpType
  <2>3. Shape
    BY DEF TInv
  <2> QED
    BY <2>1, <2>2, <2>3 DEF Shape, DropGuard, Clear
<1>3. ~ bare => \A o \in Ops : io[o] = "free"
  BY DEF TInv, Exclusive
<1>4. ~ bare' => Exclusive' /\ Arrived' /\ SendsWhole'
  BY <1>3 DEF DropGuard, Exclusive, Arrived, SendsWhole
<1>5. SendsWhole' /\ ReadsWhatArrived' /\ ReleaseHolds'
  BY <1>4 DEF SendsWhole, ReadsWhatArrived, ReleaseHolds
<1> QED
  BY <1>1, <1>2, <1>4, <1>5 DEF TInv

\* Nothing, which most polls release, is in order.
LEMMA NothingFacts ==
  /\ Nothing \in [data : {"stale", "out", "in"}, filled : Nat, len : Nat]
  /\ Nothing.data = "in" /\ Nothing.len = Nothing.filled
BY DEF Nothing

LEMMA StartPanicsStep ==
  ASSUME TInv, NEW k \in Kinds, NEW n \in Sizes, StartPanics(k, n)
  PROVE  TInv'
<1>1. buffers' \in Seq(Buffer) /\ Len(buffers') = 1 /\ buffers'[1].cap >= buffers[1].cap
  BY TakeFacts, Types DEF StartPanics, TInv
<1>2. outcome' \in {"slice", "put_slice", "oob"} /\ lock # "submitted"
  BY DEF StartPanics, PreparePanic, Idle
<1> QED
  BY <1>1, <1>2, Types, NothingFacts, DropKeeps, Zenon DEF StartPanics, kernelVars

LEMMA StartRefusedStep ==
  ASSUME TInv, NEW k \in Kinds, NEW n \in Sizes, StartRefused(k, n)
  PROVE  TInv'
<1>1. buffers' \in Seq(Buffer) /\ Len(buffers') = 1 /\ buffers'[1].cap >= buffers[1].cap
  BY PreparedFacts, Types DEF StartRefused, TInv
<1>2. outcome' = "error" /\ lock # "submitted"
  BY DEF StartRefused, Idle
<1> QED
  BY <1>1, <1>2, Types, NothingFacts, DropKeeps, Zenon DEF StartRefused, kernelVars

\* A poll that collects leaves the buffers as they are.
LEMMA SameBuffers ==
  ASSUME TInv, UNCHANGED buffers
  PROVE  buffers' \in Seq(Buffer) /\ Len(buffers') = 1 /\ buffers'[1].cap >= buffers[1].cap
BY Types DEF Buffer

LEMMA CollectErrorStep ==
  ASSUME TInv, NEW k \in Kinds, CollectError(k)
  PROVE  TInv'
<1>1. outcome' = "error" /\ lock # "submitted" /\ UNCHANGED buffers
  BY DEF CollectError, Pending
<1> QED
  BY <1>1, Types, SameBuffers, NothingFacts, DropKeeps, Zenon DEF CollectError, kernelVars

\* release's assertions hold for a read that collects, whatever the result is;
\* it is that of the read unless an operation was submitted over an open word.
LEMMA CollectReleases ==
  ASSUME TInv, NEW k \in Kinds, Pending(k), ~ Failed, Reads(k)
  PROVE  /\ ReleaseAsserts
         /\ ~ bare => /\ buffers[released + 1].data = "in"
                      /\ buffers[released + 1].filled = result.bytes
<1>1. code = "READ" /\ lock = "completed"
  BY CodeFacts DEF Pending, Idle
<1>2. released = 0 /\ taken = 1 /\ result.bytes <= buffers[1].cap
  BY <1>1 DEF TInv, Shape
<1>3. ~ bare => buffers[1].data = "in" /\ buffers[1].filled = result.bytes
  BY <1>1 DEF TInv, Arrived, InBuffer
<1> QED
  BY <1>2, <1>3 DEF ReleaseAsserts

LEMMA CollectPanicsStep ==
  ASSUME TInv, NEW k \in Kinds, NEW n \in Sizes, CollectPanics(k, n)
  PROVE  TInv'
<1>1. outcome' \in {"copy", "advance"}
  BY CollectReleases DEF CollectPanics, CollectPanic
<1>2. lock # "submitted" /\ UNCHANGED buffers
  BY DEF CollectPanics, Pending
<1> QED
  BY <1>1, <1>2, Types, SameBuffers, NothingFacts, DropKeeps, Zenon
     DEF CollectPanics, kernelVars

-----------------------------------------------------------------------------
(* The cursor. *)

LEMMA DivMod ==
  ASSUME NEW x \in Nat, NEW w \in Nat \ {0}
  PROVE  /\ x \div w \in Nat /\ x % w \in 0 .. w - 1
         /\ x = (x % w) + (x \div w) * w
BY SMT

LEMMA DivBound ==
  ASSUME NEW x \in Nat, NEW w \in Nat \ {0}, x < w * w
  PROVE  x \div w \in 0 .. w - 1
<1> DEFINE q == x \div w
           r == x % w
<1>0. q \in Nat /\ r \in 0 .. w - 1 /\ x = r + q * w
  BY DivMod, Zenon
<1> HIDE DEF q, r
<1>1. q \in Nat /\ x >= q * w
  BY <1>0
<1>2. \A a, b, c \in Nat : a >= b => a * c >= b * c
  BY SMT
<1>3. q >= w => q * w >= w * w
  BY <1>1, <1>2
<1>4. w * w \in Nat /\ q * w \in Nat
  BY <1>1
<1>5. q \in 0 .. w - 1
  BY <1>1, <1>3, <1>4
<1> QED
  BY <1>5 DEF q

LEMMA OffsetType ==
  ASSUME TInv
  PROVE  Offset \in Nat
BY Types DEF Offset

\* Where no overflow was found, the words that are written are in range and
\* make up the sum.
LEMMA AdvanceFacts ==
  ASSUME TInv, NEW n \in Nat, ~ Overflows(n), Advance(n)
  PROVE  /\ cursor' \in [low : 0 .. Word - 1, high : 0 .. Word - 1]
         /\ Offset' = Offset + n
<1> DEFINE x == Offset + n
<1>1. x \in Nat /\ Word \in Nat \ {0}
  BY OffsetType
<1>2. Word * Word \in Nat
  BY <1>1
<1>3. x < Word * Word
  BY <1>1, <1>2 DEF Overflows
<1>4. cursor' = [low |-> x % Word, high |-> x \div Word]
  BY DEF Advance
<1> HIDE DEF x
<1>5. x % Word \in 0 .. Word - 1 /\ x = (x % Word) + (x \div Word) * Word
  BY <1>1, DivMod
<1>6. x \div Word \in 0 .. Word - 1
  BY <1>1, <1>3, DivBound
<1>7. Offset' = x
  BY <1>4, <1>5 DEF Offset
<1> QED
  BY <1>4, <1>5, <1>6, <1>7 DEF x

LEMMA CollectStep ==
  ASSUME TInv, NEW k \in Kinds, NEW n \in Sizes, Collect(k, n)
  PROVE  TInv'
<1>1. result.bytes \in Nat /\ moved \in Nat
  BY Types
<1>2. /\ given' \in [data : {"stale", "out", "in"}, filled : Nat, len : Nat]
      /\ ~ bare => given'.data = "in" /\ given'.len = given'.filled
  <2>1. CASE Reads(k)
    <3>1. released = 0
      BY DEF TInv, Shape
    <3>2. given' = [data |-> buffers[1].data, filled |-> buffers[1].filled,
                    len |-> result.bytes]
      BY <2>1, <3>1 DEF Collect
    <3>3. buffers[1] \in Buffer
      BY Types
    <3>4. ~ bare => buffers[1].data = "in" /\ buffers[1].filled = result.bytes
      BY <2>1, <3>1, CollectReleases DEF Collect
    <3> QED
      BY <1>1, <3>2, <3>3, <3>4 DEF Buffer
  <2>2. CASE ~ Reads(k)
    BY <2>2, NothingFacts DEF Collect
  <2> QED
    BY <2>1, <2>2
<1>3. cursor' \in [low : 0 .. Word - 1, high : 0 .. Word - 1]
  <2>1. CASE Advances(k)
    <3>1. ~ Overflows(result.bytes) /\ Advance(result.bytes)
      BY <2>1 DEF Collect, CollectPanic
    <3> QED
      BY <1>1, <3>1, AdvanceFacts
  <2>2. CASE ~ Advances(k)
    BY <2>2, Types DEF Collect
  <2> QED
    BY <2>1, <2>2
<1>4. moved' \in Nat
  BY <1>1 DEF Collect
<1>5. /\ DropGuard /\ outcome' = "ok" /\ UNCHANGED buffers
      /\ lock # "submitted" /\ UNCHANGED <<io, ops, result, bare>>
  BY DEF Collect, Pending, kernelVars
<1> QED
  BY <1>2, <1>3, <1>4, <1>5, SameBuffers, DropKeeps, Zenon

-----------------------------------------------------------------------------
(* The steps that leave an operation submitted or completed. *)

LEMMA StartStep ==
  ASSUME TInv, NEW k \in Kinds, NEW n \in Sizes, NEW o \in Ops, Start(k, n, o)
  PROVE  TInv'
<1> DEFINE size == SizeOf(n)
<1>1. size \in Nat /\ size <= n /\ n \in Nat
  BY SizeFacts
<1>2. /\ Handed(size) \in Nat /\ Handed(size) <= size
      /\ Handed(size) = size \/ Handed(size) = MaxDword
      /\ IoctlFits(size) => Handed(size) = size
  BY <1>1, SizeFacts
<1>3. /\ buffers' \in Seq(Buffer) /\ Len(buffers') = 1
      /\ buffers'[1].cap >= buffers[1].cap
      /\ k # "connect" => buffers'[1].cap = Take(0, n)[1].cap
      /\ Fills(k) => buffers'[1].data = "out" /\ buffers'[1].filled = size
  BY PreparedFacts, Types DEF Start, TInv
<1>4. k # "connect" => Take(0, n)[1].cap \in Nat /\ size <= Take(0, n)[1].cap
  <2>1. Take(0, n)[1] \in Buffer
    BY TakeFacts, Types, FirstOfSeq, Zenon DEF TInv
  <2>2. k # "connect" => SliceFits(0, n)
    BY DEF Start, PreparePanic
  <2> QED
    BY <2>1, <2>2 DEF SliceFits, Buffer
<1>5. /\ Fills(k) => size = n
      /\ k = "ioctl" => IoctlFits(size)
  <2>1. Fills(k) => k # "connect" /\ ~ (n > size)
    BY CodeFacts DEF Start, PreparePanic
  <2>2. k = "ioctl" => Fills(k) /\ IoctlFits(n)
    BY DEF Start, PreparePanic, Fills
  <2> QED
    BY <1>1, <2>1, <2>2
<1> DEFINE cap == Take(0, n)[1].cap
           new == [code |-> CodeOf(k), asked |-> n,
                   size |-> IF k = "connect" THEN 0 ELSE Handed(size),
                   cap |-> IF k = "connect" THEN 0 ELSE cap]
<1>6. /\ ops' = [ops EXCEPT ![o] = new] /\ io[o] = "free"
      /\ io' = [io EXCEPT ![o] = "flight"] /\ result' = [status |-> "pending", bytes |-> 0]
  BY DEF Start, KernelAccepts
<1>7. /\ taken' = (IF k = "connect" THEN 0 ELSE 1) /\ released' = 0
      /\ outcome' = "pending" /\ given' = Nothing /\ cursor' = cursor /\ moved' = moved
      /\ bare' \in BOOLEAN /\ (bare' <=> bare \/ lock # "open")
  BY Types, Zenon DEF Start
<1>8. /\ lock = "open" => lock' = "submitted" /\ code' = CodeOf(k)
      /\ lock # "open" => lock' = "open" /\ code' = "none"
  BY DEF Start, LockIdle
<1>9. /\ new \in OpType /\ new.size <= new.cap /\ new.code = CodeOf(k) /\ new.asked = n
      /\ k # "connect" => new.cap = buffers'[1].cap /\ new.size = Handed(size)
      /\ k = "connect" => new.cap = 0
  BY <1>1, <1>2, <1>3, <1>4, CodeFacts DEF OpType, cap
<1> HIDE DEF size, cap, new
<1>10. /\ io' \in [Ops -> {"free", "flight", "queued"}] /\ ops' \in [Ops -> OpType]
       /\ ops'[o] = new /\ io'[o] = "flight"
       /\ \A p \in Ops : p # o => ops'[p] = ops[p] /\ io'[p] = io[p]
  BY <1>6, <1>9, Types
<1>11. TypeOK'
  <2>1. taken' \in Nat /\ released' \in Nat
        /\ result' \in [status : {"pending", "ok", "eof", "error"}, bytes : Nat]
    BY <1>6, <1>7
  <2>2. lock' \in {"open", "submitted", "completed"}
        /\ code' \in {CodeOf(j) : j \in AllKinds} \cup {"none"}
    BY <1>8, CodeFacts
  <2> QED
    BY <1>3, <1>7, <1>10, <2>1, <2>2, Types, NothingFacts, Zenon DEF TypeOK, Buffer, OpType
<1>12. Shape'
  <2>1. buffers[1].cap \in Nat /\ buffers'[1].cap \in Nat
    BY <1>3, Types, FirstOfSeq DEF Buffer
  <2>2. \A p \in Ops : ops[p].size \in Nat /\ ops[p].cap \in Nat
    BY Types DEF OpType
  <2>3. new.size \in Nat /\ new.cap \in Nat
    BY <1>9 DEF OpType
  <2>4. \A p \in Ops : ops[p].size <= ops[p].cap /\ ops[p].cap <= buffers[1].cap
    BY DEF TInv, Shape
  <2>5. \A p \in Ops : ops'[p].size <= ops'[p].cap /\ ops'[p].cap <= buffers'[1].cap
    BY <1>3, <1>9, <1>10, <2>1, <2>2, <2>3, <2>4
  <2>6. result'.bytes <= buffers'[1].cap
    BY <1>6, <2>1
  <2> QED
    BY <1>3, <1>7, <1>8, <2>5, <2>6, CodeFacts DEF Shape
<1>13. ~ bare' => Exclusive' /\ Arrived' /\ SendsWhole'
  <2> SUFFICES ASSUME ~ bare'
               PROVE  Exclusive' /\ Arrived' /\ SendsWhole'
    OBVIOUS
  <2>1. ~ bare /\ lock = "open" /\ lock' = "submitted" /\ code' = CodeOf(k)
    BY <1>7, <1>8
  <2>2. \A p \in Ops : p # o => io'[p] = "free"
    BY <1>10, <2>1 DEF TInv, Exclusive
  <2>3. Exclusive'
    BY <1>9, <1>10, <2>1, <2>2, CodeFacts DEF Exclusive
  <2>4. Arrived'
    BY <1>10, <2>1, <2>2 DEF Arrived
  <2>5. SendsWhole'
    BY <1>2, <1>3, <1>5, <1>9, <1>10, <2>2, CodeFacts DEF SendsWhole
  <2> QED
    BY <2>3, <2>4, <2>5
<1>14. SendsWhole' /\ ReadsWhatArrived' /\ ReleaseHolds'
  BY <1>7, <1>13, NothingFacts DEF SendsWhole, ReadsWhatArrived, ReleaseHolds
<1> QED
  BY <1>11, <1>12, <1>13, <1>14 DEF TInv

LEMMA CompleteStep ==
  ASSUME TInv, NEW o \in Ops, NEW status \in {"ok", "eof", "error"}, NEW n \in Counts,
         Complete(o, status, n)
  PROVE  TInv'
<1>1. /\ io[o] = "flight" /\ n \in Nat /\ n <= ops[o].size
      /\ UNCHANGED <<taken, released, lock, code, ops, cursor, moved, outcome, given, bare>>
      /\ result' = [status |-> status, bytes |-> n]
      /\ io' = [io EXCEPT ![o] = "queued"]
  BY DEF Complete, lockVars
<1>2. /\ io' \in [Ops -> {"free", "flight", "queued"}] /\ io'[o] = "queued"
      /\ \A p \in Ops : p # o => io'[p] = io[p]
      /\ \A p \in Ops : io'[p] = "free" <=> io[p] = "free"
  BY <1>1, Types
<1> DEFINE d == IF status = "error" THEN "stale" ELSE "in"
           b == [buffers[1] EXCEPT !.data = d, !.filled = n]
           new == [buffers EXCEPT ![1] = b]
           fits == ops[o].code = "READ" /\ buffers[1].cap = ops[o].cap
<1>3. /\ new \in Seq(Buffer) /\ Len(new) = 1
      /\ new[1].data = d /\ new[1].filled = n /\ new[1].cap = buffers[1].cap
  <2>1. b \in Buffer /\ b.data = d /\ b.filled = n /\ b.cap = buffers[1].cap
    BY <1>1, Types DEF Buffer
  <2> HIDE DEF b
  <2>2. new \in Seq(Buffer) /\ Len(new) = 1 /\ new[1] = b
    BY <2>1, Types, ExceptFirst
  <2> HIDE DEF new
  <2> QED
    BY <2>1, <2>2
<1>4. buffers' = IF fits THEN new ELSE buffers
  BY DEF Complete
<1> HIDE DEF new, fits
<1>5. /\ buffers' \in Seq(Buffer) /\ Len(buffers') = 1
      /\ buffers'[1].cap = buffers[1].cap
      /\ fits => buffers'[1].data = d /\ buffers'[1].filled = n
      /\ ~ fits => buffers' = buffers
  BY <1>3, <1>4, Types
<1>6. TypeOK'
  <2>1. TypeOK
    BY DEF TInv
  <2>2. result' \in [status : {"pending", "ok", "eof", "error"}, bytes : Nat]
    BY <1>1
  <2> QED
    BY <1>1, <1>2, <1>5, <2>1, <2>2, Zenon DEF TypeOK, Buffer
<1>7. Shape'
  <2>1. /\ buffers[1].cap \in Nat /\ ops[o].size \in Nat /\ ops[o].cap \in Nat
    BY Types DEF Buffer, OpType
  <2>2. Shape
    BY DEF TInv
  <2>3. result'.bytes <= buffers[1].cap
    BY <1>1, <2>1, <2>2 DEF Shape
  <2> QED
    BY <1>1, <1>5, <2>2, <2>3 DEF Shape
<1>8. ~ bare' => Exclusive' /\ Arrived' /\ SendsWhole'
  <2> SUFFICES ASSUME ~ bare
               PROVE  Exclusive' /\ Arrived' /\ SendsWhole'
    BY <1>1
  <2>1. Exclusive
    BY DEF TInv
  <2>2. /\ lock = "submitted" /\ code = ops[o].code
        /\ \A p \in Ops : p # o => io[p] = "free"
        /\ ops[o].code = "READ" => fits
    BY <1>1, <2>1 DEF Exclusive, fits
  <2>3. Exclusive'
    BY <1>1, <1>2, <1>5, <2>1 DEF Exclusive
  <2>4. ops[o].code = "READ" => InBuffer'
    BY <1>1, <1>5, <2>2 DEF InBuffer, Failed
  <2>5. Arrived'
    BY <1>1, <1>2, <2>2, <2>4 DEF Arrived
  <2>6. SendsWhole'
    BY <1>2, <2>2 DEF SendsWhole
  <2> QED
    BY <2>3, <2>5, <2>6
<1>9. SendsWhole' /\ ReadsWhatArrived' /\ ReleaseHolds'
  BY <1>1, <1>8 DEF TInv, SendsWhole, ReadsWhatArrived, ReleaseHolds
<1> QED
  BY <1>6, <1>7, <1>8, <1>9 DEF TInv

LEMMA ReleaseStep ==
  ASSUME TInv, NEW o \in Ops, Release(o)
  PROVE  TInv'
<1>1. /\ io[o] = "queued" /\ io' = [io EXCEPT ![o] = "free"]
      /\ ops' = [ops EXCEPT ![o] = NoOp]
      /\ lock' = (IF lock = "submitted" THEN "completed" ELSE lock)
      /\ UNCHANGED <<buffers, taken, released, code, result, cursor, moved,
                     outcome, given, bare>>
  BY DEF Release, poolVars
<1>2. NoOp \in OpType /\ NoOp.size = 0 /\ NoOp.cap = 0
  BY DEF NoOp, OpType
<1>3. /\ io' \in [Ops -> {"free", "flight", "queued"}] /\ ops' \in [Ops -> OpType]
      /\ io'[o] = "free" /\ ops'[o] = NoOp
      /\ \A p \in Ops : p # o => io'[p] = io[p] /\ ops'[p] = ops[p]
  BY <1>1, <1>2, Types
<1>4. TypeOK'
  <2>1. TypeOK
    BY DEF TInv
  <2>2. lock' \in {"open", "submitted", "completed"}
    BY <1>1, <2>1 DEF TypeOK
  <2> QED
    BY <1>1, <1>3, <2>1, <2>2, Zenon DEF TypeOK, OpType
<1>5. Shape'
  <2>1. Shape /\ buffers[1].cap \in Nat
    BY Types DEF TInv, Buffer
  <2> QED
    BY <1>1, <1>2, <1>3, <2>1 DEF Shape
<1>6. ~ bare' => Exclusive' /\ Arrived' /\ SendsWhole'
  <2> SUFFICES ASSUME ~ bare
               PROVE  Exclusive' /\ Arrived' /\ SendsWhole'
    BY <1>1
  <2>1. /\ lock = "submitted" /\ code = ops[o].code
        /\ \A p \in Ops : p # o => io[p] = "free"
    BY <1>1 DEF TInv, Exclusive
  <2>2. \A p \in Ops : io'[p] = "free"
    BY <1>3, <2>1
  <2>3. ops[o].code = "READ" => InBuffer
    BY <1>1 DEF TInv, Arrived
  <2>4. code' = "READ" => InBuffer'
    BY <1>1, <2>1, <2>3 DEF InBuffer, Failed
  <2> QED
    BY <2>2, <2>4 DEF Exclusive, Arrived, SendsWhole
<1>7. SendsWhole' /\ ReadsWhatArrived' /\ ReleaseHolds'
  BY <1>1, <1>6 DEF TInv, SendsWhole, ReadsWhatArrived, ReleaseHolds
<1> QED
  BY <1>4, <1>5, <1>6, <1>7 DEF TInv

LEMMA TInvNext ==
  ASSUME TInv, [Next]_vars
  PROVE  TInv'
<1>1. ASSUME NEW k \in Kinds, NEW n \in Sizes,
             \/ StartPanics(k, n) \/ StartRefused(k, n)
             \/ \E o \in Ops : Start(k, n, o)
             \/ CollectPanics(k, n) \/ Collect(k, n)
      PROVE  TInv'
  BY <1>1, StartPanicsStep, StartRefusedStep, StartStep, CollectPanicsStep, CollectStep
<1>2. ASSUME NEW k \in Kinds, CollectError(k)
      PROVE  TInv'
  BY <1>2, CollectErrorStep
<1>3. ASSUME NEW o \in Ops,
             \/ \E status \in {"ok", "eof", "error"}, n \in Counts : Complete(o, status, n)
             \/ Release(o)
      PROVE  TInv'
  BY <1>3, CompleteStep, ReleaseStep
<1>4. CASE UNCHANGED vars
  BY <1>4 DEF vars, poolVars, lockVars, kernelVars, TInv, TypeOK, Shape, Exclusive,
              Arrived, InBuffer, Failed, ReadsWhatArrived, SendsWhole, ReleaseHolds
<1> QED
  BY <1>1, <1>2, <1>3, <1>4 DEF Next

-----------------------------------------------------------------------------
(* The theorems. *)

LEMMA TInvAlways == Spec => []TInv
<1>1. Init => TInv
  BY TInvInit
<1>2. TInv /\ [Next]_vars => TInv'
  BY TInvNext
<1> QED
  BY <1>1, <1>2, PTL DEF Spec

\* The state is always of its type.
THEOREM TypeCorrect == Spec => []TypeOK
<1>1. TInv => TypeOK
  BY DEF TInv
<1> QED
  BY <1>1, TInvAlways, PTL

\* Whatever sizes the caller asks for, the kernel is handed memory within one
\* allocation, which stays in place until the operation has completed: a take
\* whose Vec grew too little panics before anything is submitted.  (This, and
\* the next two, until an operation is submitted over an open word.)
THEOREM KernelInBoundsHolds == Spec => []KernelInBounds
<1>1. TInv => KernelInBounds
  BY DEF TInv, Shape, Exclusive, KernelInBounds
<1> QED
  BY <1>1, TInvAlways, PTL

\* A read returns exactly the bytes the kernel has put in its buffer, whatever
\* operations used the buffer before it and however they ended.
THEOREM ReadsWhatArrivedHolds == Spec => []ReadsWhatArrived
<1>1. TInv => ReadsWhatArrived
  BY DEF TInv
<1> QED
  BY <1>1, TInvAlways, PTL

\* A write or an ioctl that is submitted has all of the caller's bytes in its
\* buffer, whatever the maximum buffer size: take's cut ends in a panic of
\* put_slice, never in a shortened write.
THEOREM SendsWholeHolds == Spec => []SendsWhole
<1>1. TInv => SendsWhole
  BY DEF TInv
<1> QED
  BY <1>1, TInvAlways, PTL

\* No sequence of operations, refusals, panics and discarded completions makes
\* release's assertions fail, even where two operations share the buffer.
THEOREM ReleaseHoldsAlways == Spec => []ReleaseHolds
<1>1. TInv => ReleaseHolds
  BY DEF TInv
<1> QED
  BY <1>1, TInvAlways, PTL

\* A caller that does not use Handle::write finds the cursor where the bytes
\* reported to it end, over carries into the high word and up to the overflow
\* that advance refuses.
THEOREM CursorExactHolds ==
  ASSUME "write" \notin Kinds
  PROVE  Spec => []CursorExact
<1>1. Init => CursorExact
  BY DEF Init, CursorExact, Offset
<1>2. TInv /\ CursorExact /\ [Next]_vars => CursorExact'
  <2> SUFFICES ASSUME TInv, CursorExact, [Next]_vars
               PROVE  CursorExact'
    OBVIOUS
  <2>1. ASSUME NEW k \in Kinds, NEW n \in Sizes, Collect(k, n)
        PROVE  CursorExact'
    <3>1. result.bytes \in Nat /\ moved \in Nat
      BY Types
    <3>2. CASE Advances(k)
      <4>1. ~ Overflows(result.bytes) /\ Advance(result.bytes)
        BY <2>1, <3>2 DEF Collect, CollectPanic
      <4>2. Offset' = Offset + result.bytes
        BY <3>1, <4>1, AdvanceFacts
      <4>3. moved' = moved + result.bytes
        BY <2>1, <3>2, CodeFacts DEF Collect, Advances, CodeOf
      <4> QED
        BY <4>2, <4>3 DEF CursorExact
    <3>3. CASE ~ Advances(k)
      <4>1. CodeOf(k) \notin {"READ", "WRITE"}
        BY <3>3 DEF Advances, CodeOf, AllKinds
      <4> QED
        BY <2>1, <3>3, <4>1 DEF Collect, CursorExact, Offset
    <3> QED
      BY <3>2, <3>3
  <2>2. CASE cursor' = cursor /\ moved' = moved
    BY <2>2 DEF CursorExact, Offset
  <2> QED
    BY <2>1, <2>2 DEF Next, StartPanics, StartRefused, Start, CollectPanics,
                      CollectError, Complete, Release, vars
<1> QED
  BY <1>1, <1>2, TInvAlways, PTL DEF Spec
=============================================================================
