----------------------------- MODULE MCHandoffs ------------------------------
(* A delegation between two Runners, in four parts of the run: it is       *)
(* resumed and followed up; a Runner restarts; uploads lose their answers; *)
(* its turn ends in every way, and its bots move.                          *)
EXTENDS Handoffs

CONSTANTS s, t  \* Devices

VARIABLE part

MCVars == <<part, rec, outbox, sent, inbox, read, opened, calledOff, opening, turn, token,
            limited, routing, cont, admitting, minted, moved, restarts, ran, woke>>

\* The requester's attempts and the recipient's jobs are made again.
Resumed == INSTANCE Handoffs WITH
    MaxRestarts <- 0, Restarting <- {}, Claims <- {}, Endings <- {},
    Occurs <- {"relay", "limit"}

\* One job, whose envelope may expire, while the requester's Runner restarts.
Crash == INSTANCE Handoffs WITH
    MaxRestarts <- 1, Restarting <- {s}, Claims <- {}, Endings <- {"sent"},
    Occurs <- {"relay", "expire"}

\* The same with uploads whose answer is lost, while the recipient's does.
Lost == INSTANCE Handoffs WITH
    MaxRestarts <- 1, Restarting <- {t}, Claims <- {}, Endings <- {"sent"},
    Occurs <- {"relay", "answer", "expire"}

\* A turn that reports, passes, is stopped by the user or its limits, and bots that move.
Ends == INSTANCE Handoffs WITH
    MaxRestarts <- 0, Restarting <- {}, Claims <- {"completed", "cancelled"},
    Endings <- {"sent", "pass"}, Occurs <- {"relay", "stop", "limit", "move"}

\* Bound: the other parts make one job.
OneJob == minted' \subseteq {<<1, 1>>}

\* Bound: the first part keeps up to three blobs in an outbox or a Device's inbox.
Backlog == \A d \in Devices : Len(outbox'[d]) <= 3 /\ Len(inbox'[d]) <= 3

MCInit ==
    \/ part = "resumed" /\ Resumed!Init
    \/ part = "crash" /\ Crash!Init
    \/ part = "lost" /\ Lost!Init
    \/ part = "ends" /\ Ends!Init

MCNext ==
    /\ part' = part
    /\ part = "resumed" => Resumed!Next /\ Backlog
    /\ part = "crash" => Crash!Next /\ OneJob
    /\ part = "lost" => Lost!Next /\ OneJob
    /\ part = "ends" => Ends!Next /\ OneJob

MCSpec == MCInit /\ [][MCNext]_MCVars
=============================================================================
