------------------------------- MODULE MCReview -------------------------------
(* An item of the review queue in three parts of the run: two executors    *)
(* that stop and come back, what users do around one of them, and history  *)
(* that is uploaded again.                                                 *)
EXTENDS ReviewQueue

CONSTANTS p1, p2,   \* processes
          v,        \* another Device
          one, two  \* payloads

VARIABLE part

MCVars == <<part, item, out, slot, view, reread, calls, exec, wake, world, allowed, changes,
            restarts, approvals, effects>>

\* Two processes on one store, which stop and lose it.
Executors == INSTANCE ReviewQueue WITH
    Payloads <- {one}, MaxCalls <- 2, Occurs <- {"world", "lost"}

\* One process and a Device that lags: three calls around the executor, and a change of what was
\* reviewed.
Edits == INSTANCE ReviewQueue WITH
    Processes <- {p1}, MaxRestarts <- 0, Occurs <- {"world", "access", "edit"}

\* The same, with the history uploaded again.
Reupload == INSTANCE ReviewQueue WITH
    Processes <- {p1}, MaxCalls <- 2, MaxRestarts <- 0, Occurs <- {"edit", "reupload"}

InExecutors == part = "executors"

MCInit ==
    \/ InExecutors /\ Executors!Init
    \/ part = "edits" /\ Edits!Init
    \/ part = "reupload" /\ Reupload!Init

MCNext ==
    /\ part' = part
    /\ InExecutors => Executors!Next
    /\ part = "edits" => Edits!Next
    /\ part = "reupload" => Reupload!Next

MCSpec == MCInit /\ [][MCNext]_MCVars

\* The fairness of ReviewQueue, in the part whose liveness is checked.
MCFairness ==
    /\ \A p \in {p1, p2} : /\ WF_vars(InExecutors /\ Executors!Wake(p))
                           /\ WF_vars(InExecutors /\ Executors!ExecStep(p))
    /\ WF_vars(InExecutors /\ TakeBack) /\ WF_vars(InExecutors /\ Upload)
    /\ WF_vars(InExecutors /\ Requeue) /\ WF_vars(InExecutors /\ Apply(v))

MCFairSpec == MCSpec /\ MCFairness

\* With fair executors an item does not stay approved or claimed, also when a process stops
\* (EveryApprovalEnds and EveryClaimEnds of ReviewQueue).
Acting == InExecutors /\ item.state \in {"approved", "executing"}

ApprovalsEnd == Acting ~> ~Acting
=============================================================================
