----------------------------- MODULE PipeProofs -----------------------------
(***************************************************************************)
(* Proofs about Pipe, for any number of pipes, any flags and limits the    *)
(* setters are called with and any order of their calls.                   *)
(***************************************************************************)
EXTENDS Pipe, TLAPS

USE PipeAssumption

LEMMA BoolFlagType ==
  ASSUME NEW All, NEW word \in SUBSET All, NEW flag \in All, NEW b \in BOOLEAN
  PROVE  BoolFlag(word, b, flag) \in SUBSET All
BY DEF BoolFlag

\* bool_flag! sets or clears the one flag it is given.
LEMMA BoolFlagSets ==
  ASSUME NEW word, NEW flag, NEW b \in BOOLEAN
  PROVE  /\ flag \in BoolFlag(word, b, flag) <=> b
         /\ \A other : other # flag =>
              (other \in BoolFlag(word, b, flag) <=> other \in word)
BY DEF BoolFlag

-----------------------------------------------------------------------------
(* Type correctness. *)

LEMMA TypeInit == Init => TypeOK
BY DEF Init, TypeOK, Default, NothingAsked, OpenFlags, ModeFlags, Arguments, Wishes

\* The setters leave the pipes alone.
LEMMA TypeSetters ==
  ASSUME TypeOK,
         \/ \E b \in BOOLEAN :
              \/ access_inbound(b) \/ access_outbound(b) \/ first_pipe_instance(b)
              \/ reject_remote_clients(b) \/ SetPipeMode(b)
         \/ \E n \in Limits : SetMaxInstances(n)
         \/ \E f \in CustomFlags : SetCustomFlags(f)
  PROVE  TypeOK'
<1> USE DEF TypeOK, pipes
<1>1. ASSUME NEW b \in BOOLEAN, access_inbound(b)
      PROVE  TypeOK'
  <2>1. BoolFlag(open_mode, b, "INBOUND") \in SUBSET OpenFlags
    BY BoolFlagType DEF OpenFlags
  <2>2. asked' \in Wishes
    BY <1>1 DEF access_inbound, Wishes
  <2> QED
    BY <1>1, <2>1, <2>2 DEF access_inbound
<1>2. ASSUME NEW b \in BOOLEAN, access_outbound(b)
      PROVE  TypeOK'
  <2>1. BoolFlag(open_mode, b, "OUTBOUND") \in SUBSET OpenFlags
    BY BoolFlagType DEF OpenFlags
  <2>2. asked' \in Wishes
    BY <1>2 DEF access_outbound, Wishes
  <2> QED
    BY <1>2, <2>1, <2>2 DEF access_outbound
<1>3. ASSUME NEW b \in BOOLEAN, first_pipe_instance(b)
      PROVE  TypeOK'
  <2>1. BoolFlag(open_mode, b, "FIRST_PIPE_INSTANCE") \in SUBSET OpenFlags
    BY BoolFlagType DEF OpenFlags
  <2>2. asked' \in Wishes
    BY <1>3 DEF first_pipe_instance, Wishes
  <2> QED
    BY <1>3, <2>1, <2>2 DEF first_pipe_instance
<1>4. ASSUME NEW b \in BOOLEAN, reject_remote_clients(b)
      PROVE  TypeOK'
  BY <1>4, BoolFlagType DEF reject_remote_clients, ModeFlags
<1>5. ASSUME NEW b \in BOOLEAN, SetPipeMode(b)
      PROVE  TypeOK'
  <2>1. asked' \in Wishes
    BY <1>5 DEF SetPipeMode, Wishes
  <2> QED
    BY <1>5, <2>1 DEF SetPipeMode, ModeFlags
<1>6. ASSUME NEW n \in Limits, SetMaxInstances(n)
      PROVE  TypeOK'
  <2>1. n \in 0..Unlimited
    BY <1>6 DEF SetMaxInstances
  <2>2. asked' \in Wishes
    BY <1>6, <2>1 DEF SetMaxInstances, Wishes
  <2> QED
    BY <1>6, <2>1, <2>2 DEF SetMaxInstances
<1>7. ASSUME NEW f \in CustomFlags, SetCustomFlags(f)
      PROVE  TypeOK'
  <2>1. asked' \in Wishes
    BY <1>7 DEF SetCustomFlags, Wishes
  <2> QED
    BY <1>7, <2>1 DEF SetCustomFlags
<1> QED
  BY <1>1, <1>2, <1>3, <1>4, <1>5, <1>6, <1>7

\* What happens to a pipe leaves the builder alone.
LEMMA TypePipe ==
  ASSUME TypeOK, NEW p \in Pipes, Create(p) \/ Drop(p)
  PROVE  TypeOK'
<1> USE DEF TypeOK, builder
<1>1. CASE Create(p)
  <2>1. [open |-> custom_flags \cup open_mode, mode |-> pipe_mode,
         instances |-> max_instances] \in Arguments
    BY DEF Arguments
  <2> QED
    BY <1>1, <2>1 DEF Create
<1>2. CASE Drop(p)
  BY <1>2 DEF Drop
<1> QED
  BY <1>1, <1>2

LEMMA TypeNext == TypeOK /\ [Next]_vars => TypeOK'
<1> SUFFICES ASSUME TypeOK, [Next]_vars PROVE TypeOK'
  OBVIOUS
<1>1. CASE UNCHANGED vars
  BY <1>1 DEF TypeOK, vars, builder, pipes
<1>2. CASE Next
  BY <1>2, TypeSetters, TypePipe DEF Next
<1> QED
  BY <1>1, <1>2

\* The two flag words hold no flag but their own, and the number of instances
\* passed to the system never exceeds PIPE_UNLIMITED_INSTANCES: the assertion of
\* max_instances() is what keeps a larger one out.
THEOREM TypeCorrect == Spec => []TypeOK
BY TypeInit, TypeNext, PTL DEF Spec

-----------------------------------------------------------------------------
(* What the setters were told. *)

\* What has been said of each flag and of the limit is what the builder holds.
\* A custom flag is not in the word that the other setters edit, so that one of
\* them can neither withdraw it nor be taken for it.
Told ==
  /\ "INBOUND" \in open_mode <=> asked.inbound
  /\ "OUTBOUND" \in open_mode <=> asked.outbound
  /\ "FIRST_PIPE_INSTANCE" \in open_mode <=> asked.first
  /\ "OVERLAPPED" \notin open_mode
  /\ "MESSAGE" \in pipe_mode <=> asked.message
  /\ max_instances = asked.instances
  /\ custom_flags = asked.custom

LEMMA ToldNext ==
  ASSUME TypeOK, Told, [Next]_vars
  PROVE  Told'
<1>t. asked \in Wishes
  BY DEF TypeOK
<1>1. ASSUME NEW b \in BOOLEAN, access_inbound(b)
      PROVE  Told'
  BY <1>t, <1>1, BoolFlagSets DEF access_inbound, Told, Wishes
<1>2. ASSUME NEW b \in BOOLEAN, access_outbound(b)
      PROVE  Told'
  BY <1>t, <1>2, BoolFlagSets DEF access_outbound, Told, Wishes
<1>3. ASSUME NEW b \in BOOLEAN, first_pipe_instance(b)
      PROVE  Told'
  BY <1>t, <1>3, BoolFlagSets DEF first_pipe_instance, Told, Wishes
<1>4. ASSUME NEW b \in BOOLEAN, reject_remote_clients(b)
      PROVE  Told'
  BY <1>t, <1>4, BoolFlagSets DEF reject_remote_clients, Told, Wishes
<1>5. ASSUME NEW b \in BOOLEAN, SetPipeMode(b)
      PROVE  Told'
  BY <1>t, <1>5 DEF SetPipeMode, Told, Wishes
<1>6. ASSUME NEW n \in Limits, SetMaxInstances(n)
      PROVE  Told'
  BY <1>t, <1>6 DEF SetMaxInstances, Told, Wishes
<1>7. ASSUME NEW f \in CustomFlags, SetCustomFlags(f)
      PROVE  Told'
  BY <1>t, <1>7 DEF SetCustomFlags, Told, Wishes
<1>8. CASE (\E p \in Pipes : Create(p) \/ Drop(p)) \/ UNCHANGED vars
  <2>1. UNCHANGED <<builder, asked>>
    BY <1>8 DEF Create, Drop, vars
  <2> QED
    BY <2>1 DEF Told, builder
<1> QED
  BY <1>1, <1>2, <1>3, <1>4, <1>5, <1>6, <1>7, <1>8 DEF Next

\* create() makes of a builder that holds what was said the call that was meant,
\* and no later setter changes what a pipe was created with.
LEMMA ServedNext ==
  ASSUME TypeOK, Told, ServedAsAsked, [Next]_vars
  PROVE  ServedAsAsked'
<1>1. ASSUME NEW p \in Pipes, Create(p)
      PROVE  ServedAsAsked'
  <2> DEFINE a == [open |-> custom_flags \cup open_mode, mode |-> pipe_mode,
                   instances |-> max_instances]
  <2>1. /\ passed' = [passed EXCEPT ![p] = a]
        /\ wanted' = [wanted EXCEPT ![p] = asked]
    BY <1>1 DEF Create
  <2>2. /\ a.open = custom_flags \cup open_mode
        /\ a.mode = pipe_mode /\ a.instances = max_instances
    OBVIOUS
  <2> HIDE DEF a
  <2>3. ASSUME NEW q \in Pipes, q # p
        PROVE  passed'[q] = passed[q] /\ wanted'[q] = wanted[q]
    BY <2>1, <2>3 DEF TypeOK
  <2>4. passed'[p] = a /\ wanted'[p] = asked
    BY <2>1 DEF TypeOK
  <2> QED
    BY <2>2, <2>3, <2>4 DEF ServedAsAsked, Told
<1>2. CASE ~ \E p \in Pipes : Create(p)
  <2>1. UNCHANGED <<passed, wanted>>
    BY <1>2 DEF Next, Drop, access_inbound, access_outbound, first_pipe_instance,
       reject_remote_clients, SetPipeMode, SetMaxInstances, SetCustomFlags, vars, pipes
  <2> QED
    BY <2>1 DEF ServedAsAsked
<1> QED
  BY <1>1, <1>2

\* In whatever order the setters and custom_flags() are called, and however
\* often, CreateNamedPipeW is told what each setter was last told.
THEOREM ServedAsAskedHolds == Spec => []ServedAsAsked
<1>1. Init => Told /\ ServedAsAsked
  BY DEF Init, Told, ServedAsAsked, Default, NothingAsked
<1>2. TypeOK /\ Told /\ [Next]_vars => Told'
  BY ToldNext
<1>3. TypeOK /\ Told /\ ServedAsAsked /\ [Next]_vars => ServedAsAsked'
  BY ServedNext
<1> QED
  BY <1>1, <1>2, <1>3, TypeCorrect, PTL DEF Spec
=============================================================================
