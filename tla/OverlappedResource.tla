-------------------------- MODULE OverlappedResource ------------------------
(***************************************************************************)
(* What a header promises, as the comment on Header::lock (task.rs) has    *)
(* it: a resource is open, or has one operation submitted under a code, or *)
(* holds the completion of one; a completion is taken by its own kind of   *)
(* operation or discarded, and only then can the next one be submitted.    *)
(***************************************************************************)
CONSTANTS Handles, Codes

VARIABLE phase   \* phase[h]: the phase of resource h and the code it is about

Phases == {<<"open", 0>>} \cup ({"submitted", "completed"} \X Codes)

Init == phase = [h \in Handles |-> <<"open", 0>>]

Move(h, from, to) ==
  /\ phase[h] = from
  /\ phase' = [phase EXCEPT ![h] = to]

\* An operation is given to the kernel.
Submit(h, c) == Move(h, <<"open", 0>>, <<"submitted", c>>)

\* Its completion has arrived.
Finish(h, c) == Move(h, <<"submitted", c>>, <<"completed", c>>)

\* The completion is turned into a result, or thrown away.
Take(h, c) == Move(h, <<"completed", c>>, <<"open", 0>>)

Next == \E h \in Handles, c \in Codes : Submit(h, c) \/ Finish(h, c) \/ Take(h, c)

Spec == Init /\ [][Next]_phase
=============================================================================
