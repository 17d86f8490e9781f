-------------------------------- MODULE Pipe --------------------------------
(***************************************************************************)
(* Named pipes (pipe.rs): the builder, whose setters edit two flag words   *)
(* that several of them share, and the pipes that are created from it, one *)
(* after the other or at the same time, while it is changed.               *)
(*                                                                         *)
(* A flag word is the set of its flags.  The buffer sizes and the timeout  *)
(* are handed through to the system and are left out.  What happens to a   *)
(* pipe that was registered is the same as to any handle: its registration *)
(* is in Driver, its I/O and connect_named_pipe are in Handle and Transfer.*)
(***************************************************************************)
EXTENDS Naturals

CONSTANTS
  Pipes,        \* identities for the pipes
  CustomFlags,  \* the arguments custom_flags is called with
  Limits,       \* the arguments max_instances is called with
  Unlimited     \* PIPE_UNLIMITED_INSTANCES (255)

\* PIPE_ACCESS_DUPLEX is both of the first two; PIPE_TYPE_BYTE is no flag.
OpenFlags == {"INBOUND", "OUTBOUND", "FIRST_PIPE_INSTANCE", "OVERLAPPED"}
ModeFlags == {"MESSAGE", "REJECT_REMOTE_CLIENTS"}

ASSUME PipeAssumption ==
  /\ CustomFlags \subseteq SUBSET OpenFlags
  /\ Limits \subseteq Nat /\ Unlimited \in Nat /\ Unlimited >= 254

VARIABLES
  open_mode, pipe_mode, max_instances, custom_flags,  \* CreatePipeOptions
  asked,     \* history: what each setter was last told, or its default
  live,      \* the NamedPipes that exist
  passed,    \* passed[p]: what CreateNamedPipeW was called with for p
  wanted     \* history: `asked` at the time of that call

builder == <<open_mode, pipe_mode, max_instances, custom_flags>>
pipes == <<live, passed, wanted>>
vars == <<builder, asked, pipes>>

\* The arguments of CreateNamedPipeW, and what the setters can be told.
Arguments == [open : SUBSET OpenFlags, mode : SUBSET ModeFlags,
              instances : 0..Unlimited]
Wishes == [inbound : BOOLEAN, outbound : BOOLEAN, first : BOOLEAN,
           message : BOOLEAN, instances : 0..Unlimited,
           custom : SUBSET OpenFlags]

TypeOK ==
  /\ open_mode \subseteq OpenFlags /\ pipe_mode \subseteq ModeFlags
  /\ max_instances \in 0..Unlimited /\ custom_flags \subseteq OpenFlags
  /\ asked \in Wishes
  /\ live \subseteq Pipes
  /\ passed \in [Pipes -> Arguments] /\ wanted \in [Pipes -> Wishes]

\* A builder has just been made, and has served for nothing yet.
Default == [open |-> {"INBOUND", "OUTBOUND"}, mode |-> {"REJECT_REMOTE_CLIENTS"},
            instances |-> Unlimited]
NothingAsked == [inbound |-> TRUE, outbound |-> TRUE, first |-> FALSE,
                 message |-> FALSE, instances |-> Unlimited, custom |-> {}]

\* CreatePipeOptions::new.
Init ==
  /\ open_mode = Default.open
  /\ pipe_mode = Default.mode
  /\ max_instances = Default.instances
  /\ custom_flags = {}
  /\ asked = NothingAsked
  /\ live = {}
  /\ passed = [p \in Pipes |-> Default]
  /\ wanted = [p \in Pipes |-> NothingAsked]

-----------------------------------------------------------------------------
(* The setters. *)

\* Fault: a flag is only ever added.
BoolFlagAdds(word, allowed, flag) == IF allowed THEN word \cup {flag} ELSE word

\* bool_flag!: the word with the flag set or cleared.
BoolFlag(word, allowed, flag) ==
  IF allowed THEN word \cup {flag} ELSE word \ {flag}

access_inbound(b) ==
  /\ open_mode' = BoolFlag(open_mode, b, "INBOUND")
  /\ asked' = [asked EXCEPT !.inbound = b]
  /\ UNCHANGED <<pipe_mode, max_instances, custom_flags, pipes>>

access_outbound(b) ==
  /\ open_mode' = BoolFlag(open_mode, b, "OUTBOUND")
  /\ asked' = [asked EXCEPT !.outbound = b]
  /\ UNCHANGED <<pipe_mode, max_instances, custom_flags, pipes>>

first_pipe_instance(b) ==
  /\ open_mode' = BoolFlag(open_mode, b, "FIRST_PIPE_INSTANCE")
  /\ asked' = [asked EXCEPT !.first = b]
  /\ UNCHANGED <<pipe_mode, max_instances, custom_flags, pipes>>

reject_remote_clients(b) ==
  /\ pipe_mode' = BoolFlag(pipe_mode, b, "REJECT_REMOTE_CLIENTS")
  /\ UNCHANGED <<open_mode, max_instances, custom_flags, asked, pipes>>

\* pipe_mode(): the whole word is assigned, the rejection of remote clients
\* with it, not only the type.
SetPipeMode(message) ==
  /\ pipe_mode' = IF message THEN {"MESSAGE"} ELSE {}
  /\ asked' = [asked EXCEPT !.message = message]
  /\ UNCHANGED <<open_mode, max_instances, custom_flags, pipes>>

\* Fault: the number is not looked at.
SetMaxInstancesUnchecked(n) ==
  /\ max_instances' = n
  /\ asked' = [asked EXCEPT !.instances = n]
  /\ UNCHANGED <<open_mode, pipe_mode, custom_flags, pipes>>

\* max_instances(): the assertion admits 0, too; above 254 the call panics.
SetMaxInstances(n) ==
  /\ n < 255
  /\ max_instances' = n
  /\ asked' = [asked EXCEPT !.instances = n]
  /\ UNCHANGED <<open_mode, pipe_mode, custom_flags, pipes>>

\* custom_flags(): replaces what an earlier call has set.
SetCustomFlags(f) ==
  /\ custom_flags' = f
  /\ asked' = [asked EXCEPT !.custom = f]
  /\ UNCHANGED <<open_mode, pipe_mode, max_instances, pipes>>

-----------------------------------------------------------------------------
(* The pipes. *)

\* create(): CreateNamedPipeW gets the custom flags on top of the open mode.
\* (A failure is returned as an error and leaves nothing behind.)
Create(p) ==
  /\ p \notin live
  /\ live' = live \cup {p}
  /\ passed' = [passed EXCEPT ![p] = [open |-> custom_flags \cup open_mode,
                                      mode |-> pipe_mode,
                                      instances |-> max_instances]]
  /\ wanted' = [wanted EXCEPT ![p] = asked]
  /\ UNCHANGED <<builder, asked>>

\* NamedPipe's Drop closes its handle.
Drop(p) ==
  /\ p \in live
  /\ live' = live \ {p}
  /\ UNCHANGED <<builder, asked, passed, wanted>>

Next ==
  \/ \E b \in BOOLEAN :
       \/ access_inbound(b) \/ access_outbound(b) \/ first_pipe_instance(b)
       \/ reject_remote_clients(b) \/ SetPipeMode(b)
  \/ \E n \in Limits : SetMaxInstances(n)
  \/ \E f \in CustomFlags : SetCustomFlags(f)
  \/ \E p \in Pipes : Create(p) \/ Drop(p)

Spec == Init /\ [][Next]_vars

-----------------------------------------------------------------------------
(* Properties. *)

\* Whatever the order of the setters that share a word, CreateNamedPipeW is told
\* of the direction, the first instance, the type and the limit just what each
\* setter was last told, or the default of one that was not called.  Custom flags
\* come on top of the open mode.  (Of the rejection of remote clients this cannot
\* be said: pipe_mode() withdraws it.)
ServedAsAsked ==
  \A p \in Pipes :
    LET a == passed[p]
        w == wanted[p]
    IN  /\ "INBOUND" \in a.open <=> w.inbound \/ "INBOUND" \in w.custom
        /\ "OUTBOUND" \in a.open <=> w.outbound \/ "OUTBOUND" \in w.custom
        /\ "FIRST_PIPE_INSTANCE" \in a.open
             <=> w.first \/ "FIRST_PIPE_INSTANCE" \in w.custom
        /\ "OVERLAPPED" \in a.open <=> "OVERLAPPED" \in w.custom
        /\ "MESSAGE" \in a.mode <=> w.message
        /\ a.instances = w.instances
=============================================================================
