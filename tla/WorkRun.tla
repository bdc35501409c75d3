------------------------------ MODULE WorkRun ------------------------------
(***************************************************************************)
(* What a durable task promises: its runs come one after another, a run    *)
(* works at most once and only while it is the active one, and it is       *)
(* settled only when it has stopped working for good.  A state recorded    *)
(* while it worked stays; otherwise the run itself leaves the task blocked *)
(* or, only if it worked, awaiting review.                                 *)
(***************************************************************************)
EXTENDS Naturals

CONSTANT MaxRuns  \* bound: runs started

Runs   == 1..MaxRuns
NoRun  == 0
States == {"queued", "working", "blocked", "awaiting_review", "completed", "cancelled"}

VARIABLES state,    \* the task's state
          active,   \* the active run
          started,  \* runs started so far
          working,  \* runs at work
          worked    \* runs that work or may not work any more

Init ==
    /\ state = "queued"
    /\ active = NoRun
    /\ started = 0
    /\ working = {}
    /\ worked = {}

Start ==
    /\ active = NoRun
    /\ started < MaxRuns
    /\ state \notin {"awaiting_review", "completed", "cancelled"}
    /\ state' = "working"
    /\ active' = started + 1
    /\ started' = started + 1
    /\ UNCHANGED <<working, worked>>

Work(k) ==
    /\ active = k
    /\ k \notin worked
    /\ working' = working \cup {k}
    /\ worked' = worked \cup {k}
    /\ UNCHANGED <<state, active, started>>

\* The turn ends, or its Runner stops.
Rest(ks) ==
    /\ working' = working \ ks
    /\ UNCHANGED <<state, active, started, worked>>

Record(s) ==
    /\ s = "working" => state = "working"
    /\ state' = s
    /\ UNCHANGED <<active, started, working, worked>>

Settle(k) ==
    /\ active = k
    /\ k \notin working
    /\ active' = NoRun
    /\ worked' = worked \cup {k}
    /\ IF state = "working"
         THEN \/ state' = "blocked"
              \/ state' = "awaiting_review" /\ k \in worked
         ELSE state' = state
    /\ UNCHANGED <<started, working>>

Next ==
    \/ Start
    \/ \E k \in Runs : Work(k) \/ Settle(k)
    \/ \E ks \in SUBSET Runs : Rest(ks)
    \/ \E s \in States : Record(s)

Spec == Init /\ [][Next]_<<state, active, started, working, worked>>
=============================================================================
