-------------------------------- MODULE MCLive --------------------------------
(* What must happen in the end: the turns of a direct chat, the delegations *)
(* between bots and the runs of a task, one of them in each part of the    *)
(* run, under the fairness its own module states.                          *)
EXTENDS ChatTurns, Sequences

CONSTANTS r1, r2   \* Runners

VARIABLES part,
          \* Handoffs
          rec, outbox, sent, inbox, read, opened, calledOff, opening, hop, limited, routing,
          cont, admitting, minted, moved, woke,
          \* Tasks
          task, receipts, settled, journal, finish, asked, reply, out, slot, page, assigned,
          sealed, halt, todo, work, log,
          \* both
          token, restarts, ran

handoffVars == <<rec, outbox, sent, inbox, read, opened, calledOff, opening, hop, limited,
                 routing, cont, admitting, minted, moved, woke>>
taskVars == <<task, receipts, settled, journal, finish, asked, reply, out, slot, page,
              assigned, sealed, halt, todo, work, log>>
runVars == <<token, restarts, ran>>

MCVars == <<part, vars, handoffVars, taskVars, runVars>>

\* Three messages, questions nobody answers, failures, and a Stop.
Chat == INSTANCE ChatTurns WITH
    MaxCalls <- 1, MaxReplies <- 1, MaxStops <- 1, Occurs <- {"question", "fail"}

\* Two calls in each reply, two Stops, and calls that ignore them.
Stuck == INSTANCE ChatTurns WITH
    MaxCalls <- 2, MaxReplies <- 2, MaxStops <- 2,
    Occurs <- {"question", "refuse", "stuck", "fail"}

\* Bound: two messages.
TwoMessages == said' <= 2

\* One attempt on another Runner, which restarts...
Sent == INSTANCE Handoffs WITH
    Devices <- {r1, r2}, Source <- r1, Target <- r2, MaxAttempts <- 1, MaxMints <- 1,
    MaxRestarts <- 1, Restarting <- {r2}, Claims <- {}, Endings <- {"sent"},
    Occurs <- {"relay"}, turn <- hop

\* ... and one whose requester restarts while it is away.
Away == INSTANCE Handoffs WITH
    Devices <- {r1, r2}, Source <- r1, Target <- r2, MaxAttempts <- 1, MaxMints <- 1,
    MaxRestarts <- 1, Restarting <- {r1}, Claims <- {}, Endings <- {"sent"},
    Occurs <- {"relay"}, turn <- hop

\* One on the requester's own, which reports and restarts.
Local == INSTANCE Handoffs WITH
    Devices <- {r1, r2}, Source <- r1, Target <- r1, MaxAttempts <- 1, MaxMints <- 1,
    MaxRestarts <- 1, Restarting <- {r1}, Claims <- {"completed"},
    Endings <- {"sent", "pass"}, Occurs <- {"stop"}, turn <- hop

\* A run, which either Runner restarts under.
Work == INSTANCE Tasks WITH
    Devices <- {r1, r2}, Authority <- r1, Runners <- {r1, r2}, Callers <- {r1},
    Edits <- {"cancelled"}, MaxRequests <- 3, MaxRuns <- 1, Restarting <- {r1, r2},
    MaxRestarts <- 1, Occurs <- {}, job <- sealed, stop <- halt, turn <- work

InChat  == part = "chat"
InStuck == part = "stuck"
InSent  == part = "sent"
InAway  == part = "away"
InLocal == part = "local"
InWork  == part = "work"

MCInit ==
    /\ part \in {"chat", "stuck", "sent", "away", "local", "work"}
    /\ IF InStuck THEN Stuck!Init ELSE Chat!Init
    /\ IF InLocal THEN Local!Init ELSE Sent!Init
    /\ Work!Init

MCNext ==
    /\ part' = part
    /\ InChat => Chat!Next
    /\ InStuck => Stuck!Next /\ TwoMessages
    /\ InSent => Sent!Next
    /\ InAway => Away!Next
    /\ InLocal => Local!Next
    /\ InWork => Work!Next
    /\ ~InChat /\ ~InStuck => UNCHANGED vars
    /\ part \notin {"sent", "away", "local"} => UNCHANGED handoffVars
    /\ ~InWork => UNCHANGED taskVars
    /\ InChat \/ InStuck => UNCHANGED runVars

MCSpec == MCInit /\ [][MCNext]_MCVars

-----------------------------------------------------------------------------
(* Each part under its module's fairness, which says nothing of the others. *)

ChatFairness ==
    /\ \A m \in Messages : /\ WF_vars(InChat /\ Chat!Hear(m))
                           /\ WF_vars(InChat /\ (Chat!Skip(m) \/ Chat!Begin(m)))
                           /\ WF_vars(InStuck /\ Stuck!Hear(m))
                           /\ WF_vars(InStuck /\ (Stuck!Skip(m) \/ Stuck!Begin(m)))
    /\ WF_vars(InChat /\ Chat!Works)
    /\ WF_vars(InChat /\ (Chat!Checks \/ Chat!ToolEnds))
    /\ WF_vars(InStuck /\ Stuck!Works)

Job == <<1, 1>>

HandoffFairness ==
    /\ \A d \in {r1, r2} : /\ WF_handoffVars(InSent /\ Sent!Drain(d, TRUE))
                         /\ WF_handoffVars(InSent /\ Sent!Apply(d))
                         /\ WF_handoffVars(InAway /\ Away!Drain(d, TRUE))
                         /\ WF_handoffVars(InAway /\ Away!Apply(d))
    /\ WF_handoffVars(InSent /\ \E s \in admitting : Sent!Admit(s))
    /\ WF_handoffVars(InSent /\ Sent!TurnStep(Job))
    /\ WF_handoffVars(InSent /\ Sent!ContinuationStep(Job))
    /\ WF_handoffVars(InAway /\ \E s \in admitting : Away!Admit(s))
    /\ WF_handoffVars(InAway /\ Away!TurnStep(Job))
    /\ WF_handoffVars(InAway /\ Away!ContinuationStep(Job))
    /\ WF_handoffVars(InLocal /\ Local!TurnStep(Job))
    /\ WF_handoffVars(InLocal /\ Local!ContinuationStep(Job))

TaskFairness ==
    /\ WF_taskVars(InWork /\ Work!UploadTask) /\ WF_taskVars(InWork /\ Work!Requeue)
    /\ \A d \in {r1, r2} : /\ WF_taskVars(InWork /\ Work!Pull(d))
                         /\ WF_taskVars(InWork /\ Work!ApplyPage(d))
    /\ \A k \in Work!Runs :
          /\ WF_taskVars(InWork /\ k \in Work!Minted /\ (Work!UploadJob(k) \/ Work!OpenJob(k)))
          /\ WF_taskVars(InWork /\ k \in Work!Minted
                           /\ (Work!StartLocal(k) \/ Work!StartSealed(k)))
          /\ WF_taskVars(InWork /\ k \in Work!Minted
                           /\ (Work!Validate(k) \/ Work!Refuse(k) \/ Work!Begin(k)))
          /\ WF_taskVars(InWork /\ k \in Work!Minted
                           /\ (Work!EndTurn(k) \/ Work!SaveFinish(k)))
          /\ WF_taskVars(InWork /\ k \in Work!Minted
                           /\ (Work!FinishHere(k) \/ Work!FinishDelivered(k)))

MCFairSpec == MCSpec /\ ChatFairness /\ HandoffFairness /\ TaskFairness

-----------------------------------------------------------------------------
(* The liveness of each part; StopEnds is ChatTurns'.                      *)

\* EveryMessageCarried of ChatTurns: what a stuck call holds back comes only with a Stop.
MessagesCarried == InChat /\ Unread # {} ~> Unread = {}

\* Handoffs, on either side of the relay: every attempt ends at its requester, and wakes it.
AttemptsEnd == Sent!EveryAttemptEnds

\* Tasks: the active run ends.
RunsSettle == Work!EveryRunSettles
=============================================================================
