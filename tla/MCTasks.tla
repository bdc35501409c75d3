------------------------------- MODULE MCTasks -------------------------------
(* A task between two Devices, in four parts of the run: runs whose Runner  *)
(* or whose authority restarts, and calls of another Device whose answers   *)
(* and blobs come late.                                                    *)
EXTENDS Tasks

CONSTANTS a, b  \* Runners

VARIABLE part

MCVars == <<part, task, receipts, settled, journal, finish, asked, reply, out, slot, page,
            assigned, job, stop, todo, turn, token, restarts, log, ran>>

\* Two runs, whose Runner restarts.
TwoRuns == INSTANCE Tasks WITH
    Callers <- {a}, Edits <- {"queued"}, Occurs <- {"unclaimed", "expire"}

\* One run, whose authority restarts, and calls of that Device's own.
Stops == INSTANCE Tasks WITH
    Callers <- {a}, Edits <- {"cancelled"}, Restarting <- {a}, Occurs <- {}

\* Bound: one run, and no call that takes the task back from b.
Once == Len(assigned') <= 1 /\ \A q \in DOMAIN asked' : asked'[q].to # a

\* Calls from another Device than the authority, which reads late uploads.
Calls == INSTANCE Tasks WITH
    Callers <- {b}, Edits <- {"cancelled"}, Occurs <- {"reupload", "expire"}

\* The same, while that Device asks for the record.
Reads == INSTANCE Tasks WITH
    Callers <- {b}, Edits <- {"cancelled"}, Occurs <- {"refresh", "expire"}

\* Bound: three calls, of which none takes the task back from b.
Away == Len(asked') <= 3 /\ \A q \in DOMAIN asked' : asked'[q].to # a

MCInit ==
    \/ part = "runs" /\ TwoRuns!Init
    \/ part = "stops" /\ Stops!Init
    \/ part = "calls" /\ Calls!Init
    \/ part = "reads" /\ Reads!Init

MCNext ==
    /\ part' = part
    /\ part = "runs" => TwoRuns!Next
    /\ part = "stops" => Stops!Next /\ Once
    /\ part = "calls" => Calls!Next /\ Away
    /\ part = "reads" => Reads!Next /\ Away

MCSpec == MCInit /\ [][MCNext]_MCVars
=============================================================================
