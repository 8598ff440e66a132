---------------------------- MODULE BoundedRetry ----------------------------
(***************************************************************************)
(* What a work queue promises: an item that was submitted is waiting,      *)
(* being worked on, done or parked, it is taken at most Limit times, and   *)
(* once it is done or parked it stays so.  The event queue and the deploy  *)
(* jobs of policy-service are shown to implement it.                       *)
(***************************************************************************)
EXTENDS Naturals

CONSTANTS Items,     \* every item that may ever be submitted
          Limit      \* how often an item may be taken

VARIABLES stage,     \* "absent", "waiting", "working", "done" or "parked"
          tries      \* how often it has been taken

Init ==
  /\ stage = [i \in Items |-> "absent"]
  /\ tries = [i \in Items |-> 0]

Move(i, from, to) == stage[i] = from /\ stage' = [stage EXCEPT ![i] = to]

Submit(i) == Move(i, "absent", "waiting") /\ UNCHANGED tries

Take(i) ==
  /\ tries[i] < Limit
  /\ Move(i, "waiting", "working")
  /\ tries' = [tries EXCEPT ![i] = @ + 1]

Finish(i) == Move(i, "working", "done") /\ UNCHANGED tries

\* Back to the queue, while another attempt is still allowed.
Retry(i) == tries[i] < Limit /\ Move(i, "working", "waiting") /\ UNCHANGED tries

Park(i) == Move(i, "working", "parked") /\ UNCHANGED tries

Next == \E i \in Items : Submit(i) \/ Take(i) \/ Finish(i) \/ Retry(i) \/ Park(i)

Spec == Init /\ [][Next]_<<stage, tries>>

\* A submitted item is done or parked in the end.
Settled == \A i \in Items : stage[i] # "absent" ~> stage[i] \in {"done", "parked"}
=============================================================================
