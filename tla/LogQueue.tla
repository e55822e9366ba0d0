------------------------------ MODULE LogQueue ------------------------------
(***************************************************************************)
(* What the real-time logger promises: a first-in first-out queue of whole *)
(* entries, of bounded capacity, whose consumer never stops before it is   *)
(* closed.  An entry that finds no room leaves no trace.                   *)
(***************************************************************************)
EXTENDS Naturals, Sequences

CONSTANTS Capacity, Texts
VARIABLES
  queue,     \* the entries accepted and not yet handled
  handled,   \* the entries handed to the consumer, in order
  closed     \* TRUE when the service is shut down

vars == <<queue, handled, closed>>

Init == queue = <<>> /\ handled = <<>> /\ closed = FALSE

Accept ==
  /\ ~closed
  /\ Len(queue) < Capacity
  /\ \E t \in Texts : queue' = Append(queue, t)
  /\ UNCHANGED <<handled, closed>>

Handle ==
  /\ ~closed
  /\ queue # <<>>
  /\ handled' = Append(handled, Head(queue))
  /\ queue' = Tail(queue)
  /\ UNCHANGED closed

Close == ~closed /\ closed' = TRUE /\ UNCHANGED <<queue, handled>>

Next == Accept \/ Handle \/ Close

SafeSpec == Init /\ [][Next]_vars
Spec == SafeSpec /\ WF_vars(Handle)
=============================================================================
