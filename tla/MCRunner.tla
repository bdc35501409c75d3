------------------------------ MODULE MCRunner ------------------------------
(* A Runner's components that share no state, side by side: in each part of *)
(* the run one instance of one of them takes steps.                        *)
EXTENDS EventInbox, Integers, Sequences

CONSTANTS d1, d2,   \* deliveries
          v, w,     \* accounts
          a, b,     \* Runners
          x, y, z,  \* tasks
          c1, c2, c3, m1, m2,  \* calls
          j1, j2, t1, t2, r1, k1, h1, q1  \* turns, attempts, a run, a check, a hold, a request

VARIABLES part,
          \* TaskGraph
          edits, held, behind,
          \* ConnectorLimits
          limits, starts, active, until, stored, request, began, guided,
          \* Budgets
          rec, receipts, unwritten, resumed, work, keys, deadline, permit, spent, ran, renewed,
          \* Routines
          routine, published, copy, sent, tick, look, checking, jobs, run, hand, stamps, own,
          signedOut,
          \* the last three
          clock, sets, reboots

graphVars   == <<edits, held, behind>>
limitVars   == <<limits, starts, active, until, stored, request, began, guided>>
budgetVars  == <<rec, receipts, unwritten, resumed, work, keys, deadline, permit, spent, ran,
                 renewed>>
routineVars == <<routine, published, copy, sent, tick, look, checking, jobs, run, hand, stamps,
                 own, signedOut>>
counters    == <<clock, sets, reboots>>

MCVars == <<part, vars, graphVars, limitVars, budgetVars, routineVars, counters>>

Ds == {d1, d2}

\* Two deliveries, paused, stopped and restarted.
Inbox == INSTANCE EventInbox WITH
    Matching <- Ds, Sent <- Ds, MaxGeneration <- 1, MaxTime <- 1,
    Retention <- 2, MaxCalls <- 2, MaxRestarts <- 1, Occurs <- {"pause", "stop"}

\* One delivery and late jobs of it, behind other turns.
Late == INSTANCE EventInbox WITH
    Matching <- Ds, Sent <- {d1}, MaxGeneration <- 1, MaxTime <- 1,
    Retention <- 2, MaxCalls <- 4, MaxRestarts <- 0, Occurs <- {"pause", "busy", "moves", "away"}

\* Two deliveries under either policy, and a channel.
Chats == INSTANCE EventInbox WITH
    Matching <- Ds, Sent <- Ds, MaxGeneration <- 1, MaxTime <- 1,
    Retention <- 2, MaxCalls <- 2, MaxRestarts <- 0, Occurs <- {"policy", "stop", "busy", "drop"}

\* One delivery, its copies, routes and marks over time.
Marks == INSTANCE EventInbox WITH
    Matching <- {d1}, Sent <- {d1}, MaxGeneration <- 2, MaxTime <- 3,
    Retention <- 1, MaxCalls <- 1, MaxRestarts <- 0, Occurs <- {"reconnect"}

\* One that matches and one that does not, over time.
Filters == INSTANCE EventInbox WITH
    Matching <- {d1}, Sent <- Ds, MaxGeneration <- 1, MaxTime <- 2,
    Retention <- 1, MaxCalls <- 1, MaxRestarts <- 0, Occurs <- {}

\* Three tasks of two authorities, each with replicas of the other's.
Graph == INSTANCE TaskGraph WITH
    Tasks <- {x, y, z}, Runners <- {a, b},
    AuthorityOf <- [t \in {x, y, z} |-> IF t = z THEN b ELSE a], MaxRevisions <- 2

\* Three calls of two accounts, over a restart.
Admits == INSTANCE ConnectorLimits WITH
    Accounts <- {v, w}, Service <- "service", Calls <- {c1, c2, c3},
    AccountOf <- [c \in {c1, c2, c3} |-> IF c = c3 THEN w ELSE v], Window <- 2,
    Settings <- {[calls |-> 1, atOnce |-> 2], [calls |-> 2, atOnce |-> 1]},
    MaxTime <- 3, MaxSets <- 1, MaxRestarts <- 1, Occurs <- {"unsaved"},
    call <- request, now <- clock, restarts <- reboots

NoneOf == [tokens |-> -1, time |-> -1, calls |-> -1]

\* The time of a turn, of a check inside it, of an agent that stays and of a run.
Timed == INSTANCE Budgets WITH
    Jobs <- {j1}, Chat <- "chat", Routine <- "routine", Turns <- {t1}, Runs <- {r1},
    Checks <- {k1}, Holds <- {h1}, ModelCalls <- {}, Output <- 2,
    Limits <- {[NoneOf EXCEPT !.time = 2]}, Requests <- {q1}, MaxTime <- 3, MaxPlugin <- 0,
    MaxSets <- 0, MaxRestarts <- 1, Occurs <- {}, call <- permit, now <- clock,
    restarts <- reboots

\* Plugin calls of a turn, a check and a run, while the limits change.
Called == INSTANCE Budgets WITH
    Jobs <- {j1}, Chat <- "chat", Routine <- "routine", Turns <- {t1, t2}, Runs <- {r1},
    Checks <- {k1}, Holds <- {}, ModelCalls <- {}, Output <- 2,
    Limits <- {NoneOf, [NoneOf EXCEPT !.calls = 1]}, Requests <- {q1}, MaxTime <- 0,
    MaxPlugin <- 2, MaxSets <- 1, MaxRestarts <- 0, Occurs <- {}, call <- permit, now <- clock,
    restarts <- reboots

\* Model calls at once of a turn, a check and a run that share a scope.
Shared == INSTANCE Budgets WITH
    Jobs <- {j1}, Chat <- "chat", Routine <- "routine", Turns <- {t1}, Runs <- {r1},
    Checks <- {k1}, Holds <- {}, ModelCalls <- {m1, m2}, Output <- 2,
    Limits <- {[NoneOf EXCEPT !.tokens = 3]}, Requests <- {}, MaxTime <- 0, MaxPlugin <- 0,
    MaxSets <- 0, MaxRestarts <- 0, Occurs <- {"unsaved"}, call <- permit, now <- clock,
    restarts <- reboots

\* Two turns, stopped and resumed, over a restart.
Granted == INSTANCE Budgets WITH
    Jobs <- {j1, j2}, Chat <- "chat", Routine <- "routine", Turns <- {t1, t2}, Runs <- {},
    Checks <- {}, Holds <- {}, ModelCalls <- {m1, m2}, Output <- 2,
    Limits <- {[NoneOf EXCEPT !.tokens = 3]}, Requests <- {q1}, MaxTime <- 0, MaxPlugin <- 0,
    MaxSets <- 0, MaxRestarts <- 1, Occurs <- {}, call <- permit, now <- clock,
    restarts <- reboots

Standing(c, p, f, n) == [check |-> c, policy |-> p, fails |-> f, misses |-> n]

\* A routine without a check over four times, while another Device sends rosters.
Ticks == INSTANCE Routines WITH
    Scripts <- {"a"}, NoCheck <- "no", Founded <- {Standing("no", "coalesce", 0, 1)},
    MaxTime <- 3, MaxCalls <- 1, MaxRestarts <- 0, Occurs <- {"roster", "away", "older"},
    out <- published, scan <- tick, turn <- run, now <- clock, requests <- sets

\* A check that has failed twice to sign in, and two calls on either Device.
Sign == INSTANCE Routines WITH
    Scripts <- {"a"}, NoCheck <- "no", Founded <- {Standing("a", "skip", 2, 0)},
    MaxTime <- 1, MaxCalls <- 2, MaxRestarts <- 0, Occurs <- {"roster", "older"},
    out <- published, scan <- tick, turn <- run, now <- clock, requests <- sets

\* One that has failed once to connect, over a restart and saves that fail.
Looks == INSTANCE Routines WITH
    Scripts <- {"a"}, NoCheck <- "no", Founded <- {Standing("a", "coalesce", 0, 1)},
    MaxTime <- 2, MaxCalls <- 0, MaxRestarts <- 1, Occurs <- {"unsaved"},
    out <- published, scan <- tick, turn <- run, now <- clock, requests <- sets

\* The same, while its check is changed.
Edits == INSTANCE Routines WITH
    Scripts <- {"a"}, NoCheck <- "no", Founded <- {Standing("a", "coalesce", 0, 1)},
    MaxTime <- 1, MaxCalls <- 1, MaxRestarts <- 0, Occurs <- {"unsaved", "edit"},
    out <- published, scan <- tick, turn <- run, now <- clock, requests <- sets

ASSUME RunnerConstants ==
    /\ Inbox!InboxConstants /\ Late!InboxConstants /\ Chats!InboxConstants
    /\ Marks!InboxConstants /\ Filters!InboxConstants
    /\ Graph!GraphConstants /\ Admits!LimitsConstants
    /\ Timed!BudgetConstants /\ Called!BudgetConstants /\ Shared!BudgetConstants
    /\ Granted!BudgetConstants
    /\ Ticks!RoutineConstants /\ Sign!RoutineConstants /\ Looks!RoutineConstants
    /\ Edits!RoutineConstants

InboxParts  == {"inbox", "late", "chats", "copies", "filters"}
BudgetParts == {"timed", "called", "shared", "granted"}
RoutineParts == {"ticks", "sign", "looks", "edits"}

MCInit ==
    /\ \/ part = "inbox" /\ Inbox!Init
       \/ part = "late" /\ Late!Init
       \/ part = "chats" /\ Chats!Init
       \/ part = "copies" /\ Marks!Init
       \/ part = "filters" /\ Filters!Init
       \/ part \in BudgetParts \cup RoutineParts \cup {"graph", "limits"}
          /\ Filters!Init
          /\ sub.policy = "fifo"
    /\ \/ part = "timed" /\ Timed!Init
       \/ part = "called" /\ Called!Init
       \/ part = "shared" /\ Shared!Init
       \/ part \notin {"timed", "called", "shared"} /\ Granted!Init
    /\ \A s \in {"chat", "routine"} : Timed!Present(rec[s]) /\ rec[s].limits # NoneOf
    /\ \/ part = "ticks" /\ Ticks!Init
       \/ part = "sign" /\ Sign!Init
       \/ part \notin {"ticks", "sign"} /\ Looks!Init
    /\ Admits!Init
    /\ limits[v] = limits[w]
    /\ part # "limits" => \A k \in DOMAIN limits : limits[k].calls = 1
    /\ Graph!Init

MCNext ==
    /\ part' = part
    /\ part = "inbox" => Inbox!Next
    /\ part = "late" => Late!Next
    /\ part = "chats" => Chats!Next
    /\ part = "copies" => Marks!Next
    /\ part = "filters" => Filters!Next
    /\ part = "graph" => Graph!Next
    /\ part = "limits" => Admits!Next
    /\ part = "timed" => Timed!Next
    /\ part = "called" => Called!Next
    /\ part = "shared" => Shared!Next
    /\ part = "granted" => Granted!Next
    /\ part = "ticks" => Ticks!Next
    /\ part = "sign" => Sign!Next
    /\ part = "looks" => Looks!Next
    /\ part = "edits" => Edits!Next
    /\ part \notin InboxParts => UNCHANGED vars
    /\ part # "graph" => UNCHANGED graphVars
    /\ part # "limits" => UNCHANGED limitVars
    /\ part \notin BudgetParts => UNCHANGED budgetVars
    /\ part \notin RoutineParts => UNCHANGED routineVars
    /\ part \notin {"limits"} \cup BudgetParts \cup RoutineParts => UNCHANGED counters

MCSpec == MCInit /\ [][MCNext]_MCVars

-----------------------------------------------------------------------------
(* The properties of the other components, each in its parts, with their    *)
(* types.                                                                  *)

\* TaskGraph.
TasksAcyclic == part = "graph" => Graph!TypeOK /\ Graph!Acyclic /\ Graph!OwnAcyclic

\* ConnectorLimits.
CallsWithinLimits == [](part = "limits" => Admits!TypeOK) /\ Admits!StaysWithinLimits

\* Budgets.  A write refused at the end of a work leaves it counted until the next start.
BudgetsCount ==
    /\ part = "timed" => Timed!TypeOK /\ Timed!CountsItsWork /\ Timed!TimeCounted
    /\ part = "called" => Called!TypeOK /\ Called!CountsItsWork
    /\ part = "granted" => Granted!TypeOK /\ Granted!CountsItsWork
BudgetsBound ==
    /\ part = "shared" => Shared!WithinGrants
    /\ part = "granted" => Granted!WithinGrants

\* Routines.
RoutineTakenOnce == [](part \in RoutineParts => Ticks!TypeOK) /\ Looks!TakenOnce
=============================================================================
