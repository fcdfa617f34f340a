--------------------------- MODULE AbstractCalls ---------------------------
(***************************************************************************)
(* What AvA promises of a forwarded API call, whatever threads, queues and  *)
(* channels carry it: the caller issues it once, the other endpoint starts  *)
(* it at most once, finishes only what it started, and the caller sees it   *)
(* complete only after the remote work has finished.  RemoteCalls is shown  *)
(* to implement this specification.                                         *)
(***************************************************************************)
EXTENDS Integers

CONSTANTS Endpoints, MaxCalls

CallIds == 0 .. MaxCalls - 1
Statuses == {"none", "issued", "running", "finished", "done"}

VARIABLE status    \* status[e][n]: the life of call n issued by endpoint e

Init == status = [e \in Endpoints |-> [n \in CallIds |-> "none"]]

Move(e, n, from, to) ==
    /\ status[e][n] = from
    /\ status' = [status EXCEPT ![e][n] = to]

Issue(e, n)    == Move(e, n, "none", "issued")
Start(e, n)    == Move(e, n, "issued", "running")
Finish(e, n)   == Move(e, n, "running", "finished")
Complete(e, n) == Move(e, n, "finished", "done")

Next == \E e \in Endpoints, n \in CallIds :
           \/ Issue(e, n)
           \/ Start(e, n)
           \/ Finish(e, n)
           \/ Complete(e, n)

Spec == Init /\ [][Next]_status
=============================================================================
