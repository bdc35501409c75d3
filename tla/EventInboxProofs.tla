-------------------------- MODULE EventInboxProofs --------------------------
(***************************************************************************)
(* What holds of an event subscription for any deliveries, any retention   *)
(* no shorter than the window in which a copy is accepted, and whatever    *)
(* the user, other turns and restarts do: one delivery holds the rest, a   *)
(* turn never runs unasked, and a turn that ended well is recorded.        *)
(***************************************************************************)
EXTENDS EventInbox, TLAPS

-----------------------------------------------------------------------------
(* Types.                                                                  *)

\* An admission and a turn are of a delivery.
OfDelivery ==
    /\ scan.at = "admitted" => scan.of \in Deliveries
    /\ turn.at # "idle" => turn.of \in Deliveries

Typed == TypeOK /\ OfDelivery

SubTypes ==
    [enabled : BOOLEAN, policy : {"fifo", "latest"}, generation : 1..MaxGeneration,
     problem : Problems, channel : BOOLEAN]

\* What the steps write has its type.
LEMMA ValueTypes ==
    /\ NoScan \in Scans /\ NoScan.at = "idle"
    /\ NoTurn \in Turns /\ NoTurn.at = "idle" /\ ~NoTurn.ok
BY DEF NoScan, Scans, Problems, NoTurn, Turns, States, Settled

LEMMA TypedInit ==
    ASSUME InboxConstants PROVE Init => Typed
<1> SUFFICES ASSUME Init PROVE Typed
  OBVIOUS
<1>1. sub \in SubTypes
  <2>1. 1 \in 1..MaxGeneration /\ "none" \in Problems
    BY DEF InboxConstants, Problems
  <2>2. /\ sub.enabled = TRUE /\ sub.policy \in {"fifo", "latest"} /\ sub.generation = 1
        /\ sub.problem = "none" /\ sub.channel \in BOOLEAN
        /\ sub = [enabled |-> sub.enabled, policy |-> sub.policy,
                  generation |-> sub.generation, problem |-> sub.problem,
                  channel |-> sub.channel]
    BY DEF Init
  <2> QED BY <2>1, <2>2 DEF SubTypes
<1>2. state \in [Deliveries -> States]
  BY DEF Init, States
<1>3. scan \in Scans /\ turn \in Turns /\ OfDelivery
  BY ValueTypes DEF Init, OfDelivery
<1> QED BY <1>1, <1>2, <1>3 DEF Init, Typed, TypeOK, InboxConstants, SubTypes

\* A gateway, the relay and the inbox.
LEMMA TypedArrivals ==
    ASSUME InboxConstants, Typed,
           \/ \E d \in Deliveries : Forward(d) \/ Retry(d) \/ Discard(d)
           \/ \E copy \in Copies : Receive(copy) \/ Sweep(copy)
           \/ TakeRoute \/ Purge
    PROVE  Typed'
<1> USE DEF Typed, TypeOK, OfDelivery, inboxVars, relayVars, jobVars, envVars, history
<1>1. ASSUME NEW d \in Deliveries, Forward(d) PROVE Typed'
  BY <1>1 DEF Forward, Copies
<1>2. ASSUME NEW d \in Deliveries, Retry(d) PROVE Typed'
  BY <1>2 DEF Retry, Call, Cleared, States, Problems
<1>3. ASSUME NEW d \in Deliveries, Discard(d) PROVE Typed'
  BY <1>3 DEF Discard, Call, Cleared, States, Settled, Problems
<1>4. ASSUME NEW copy \in Copies, Receive(copy) PROVE Typed'
  <2>1. copy.of \in Deliveries
    BY DEF Copies
  <2>2. (state' \in [Deliveries -> States] /\ position' \in [Deliveries -> Nat]
         /\ received' \in [Deliveries -> Nat] /\ arrivals' \in Nat)
    BY <1>4, <2>1 DEF Receive, Enqueue, Coalesced, States, Settled
  <2>3. sub' \in [enabled : BOOLEAN, policy : {"fifo", "latest"},
                  generation : 1..MaxGeneration, problem : Problems, channel : BOOLEAN]
    BY <1>4 DEF Receive, Problems
  <2> QED BY <1>4, <2>2, <2>3 DEF Receive
<1>5. ASSUME NEW copy \in Copies, Sweep(copy) PROVE Typed'
  BY <1>5 DEF Sweep
<1>6. ASSUME TakeRoute PROVE Typed'
  BY <1>6 DEF TakeRoute
<1>7. ASSUME Purge PROVE Typed'
  BY <1>7 DEF Purge, States
<1> QED BY <1>1, <1>2, <1>3, <1>4, <1>5, <1>6, <1>7

\* The loop, the jobs and their turns.
LEMMA TypedWork ==
    ASSUME InboxConstants, Typed,
           \/ \E d \in Deliveries : Lock(d)
           \/ ScanRead \/ ScanHold \/ ScanCommit \/ ScanStart \/ OtherTurn
           \/ ReadTask \/ CheckTask \/ WorkEnds \/ Unregister \/ Settle
    PROVE  Typed'
<1> USE ValueTypes DEF Typed, TypeOK, OfDelivery, inboxVars, relayVars, jobVars, envVars, history
<1>1. ASSUME NEW d \in Deliveries, Lock(d) PROVE Typed'
  <2>1. turn' \in Turns /\ turn'.of = d
    <3> DEFINE c == d \in stopping
    <3>1. c \in BOOLEAN
      OBVIOUS
    <3>2. turn' = [NoTurn EXCEPT !.of = d, !.at = "locked", !.cancelled = c]
      BY <1>1 DEF Lock
    <3> HIDE DEF c
    <3>3. turn' = [of |-> d, at |-> "locked", cancelled |-> c,
                   state |-> "absent", enabled |-> FALSE, ok |-> FALSE]
      BY <3>2 DEF NoTurn
    <3> QED BY <3>1, <3>3 DEF Turns, States
  <2> QED BY <1>1, <2>1 DEF Lock
<1>2. ASSUME ScanRead PROVE Typed'
  BY <1>2 DEF ScanRead, Config, Scans
<1>3. ASSUME ScanHold PROVE Typed'
  BY <1>3 DEF ScanHold, Held, Scans, Problems
<1>4. ASSUME ScanCommit PROVE Typed'
  BY <1>4 DEF ScanCommit, Scans, States, Settled
<1>5. ASSUME ScanStart PROVE Typed'
  BY <1>5 DEF ScanStart
<1>6. ASSUME OtherTurn PROVE Typed'
  BY <1>6 DEF OtherTurn
<1>7. ASSUME ReadTask PROVE Typed'
  BY <1>7 DEF ReadTask, Turns
<1>8. ASSUME CheckTask PROVE Typed'
  BY <1>8 DEF CheckTask, Turns, States
<1>9. ASSUME WorkEnds PROVE Typed'
  BY <1>9 DEF WorkEnds, Turns
<1>10. ASSUME Unregister PROVE Typed'
  BY <1>10 DEF Unregister, Turns
<1>11. ASSUME Settle PROVE Typed'
  BY <1>11 DEF Settle, States, Settled, Problems
<1> QED BY <1>1, <1>2, <1>3, <1>4, <1>5, <1>6, <1>7, <1>8, <1>9, <1>10, <1>11

\* The user, time and a restart.
LEMMA TypedCalls ==
    ASSUME InboxConstants, Typed,
           \/ PauseOrResume \/ Update \/ Reconnect \/ Stop \/ Surroundings \/ Pass
           \/ Restart
    PROVE  Typed'
<1> USE ValueTypes DEF Typed, TypeOK, OfDelivery, inboxVars, relayVars, jobVars, envVars, history
<1>1. ASSUME PauseOrResume PROVE Typed'
  <2>1. sub' \in SubTypes
    BY <1>1 DEF PauseOrResume, SubTypes, Problems
  <2>2. away' \in BOOLEAN
    BY <1>1 DEF PauseOrResume
  <2> QED BY <1>1, <2>1, <2>2 DEF PauseOrResume, Call, SubTypes
<1>2. ASSUME Update PROVE Typed'
  BY <1>2 DEF Update, Call
<1>3. ASSUME Reconnect PROVE Typed'
  <2>1. sub.generation + 1 \in 1..MaxGeneration
    BY <1>3 DEF Reconnect, InboxConstants
  <2>2. sub' \in SubTypes
    BY <1>3, <2>1 DEF Reconnect, SubTypes, Problems
  <2> QED BY <1>3, <2>2 DEF Reconnect, Call, SubTypes
<1>4. ASSUME Stop PROVE Typed'
  <2>1. /\ turn' \in Turns
        /\ turn'.at = turn.at /\ turn'.of = turn.of
    BY <1>4 DEF Stop, Turns
  <2>2. calls' \in Nat
    BY <1>4 DEF Stop, Call
  <2>3. queued' = queued /\ stopping' = queued /\ busy' \in BOOLEAN
    BY <1>4 DEF Stop, KeptByStop
  <2>4. UNCHANGED <<sub, inboxVars, relayVars, scan, now, here, away, restarts, history>>
    BY <1>4 DEF Stop
  <2> QED BY <2>1, <2>2, <2>3, <2>4, Zenon
<1>5. ASSUME Surroundings PROVE Typed'
  <2>1. here' \in BOOLEAN /\ away' \in BOOLEAN
    BY <1>5, Zenon DEF Surroundings
  <2> QED BY <1>5, <2>1 DEF Surroundings, Call
<1>6. ASSUME Pass PROVE Typed'
  BY <1>6 DEF Pass
<1>7. ASSUME Restart PROVE Typed'
  <2>1. state' \in [Deliveries -> States]
    BY <1>7 DEF Restart, Recovered, States
  <2>2. /\ turn' = NoTurn /\ scan' = NoScan /\ queued' = {} /\ stopping' = {}
        /\ busy' = FALSE /\ restarts' = restarts + 1
        /\ UNCHANGED <<sub, position, arrivals, received, relayVars, now, here, away, calls,
                       history>>
    BY <1>7 DEF Restart
  <2>3. restarts' \in Nat
    BY <2>2
  <2>7. busy' \in BOOLEAN
    BY <2>2, Zenon
  <2>4. queued' \subseteq Deliveries /\ stopping' \subseteq queued'
    BY <2>2
  <2>5. (scan \in Scans /\ turn \in Turns /\ OfDelivery)'
    BY <2>2
  <2>6. (/\ sub \in SubTypes /\ position \in [Deliveries -> Nat] /\ arrivals \in Nat
         /\ received \in [Deliveries -> Nat] /\ now \in Nat /\ occurred \in [Deliveries -> Nat]
         /\ route \in 1..MaxGeneration /\ relay \subseteq Copies
         /\ here \in BOOLEAN /\ away \in BOOLEAN /\ calls \in Nat
         /\ runs \in [Deliveries -> Nat] /\ asked \in [Deliveries -> Nat])'
    BY <2>2 DEF SubTypes
  <2> QED BY <2>1, <2>3, <2>4, <2>5, <2>6, <2>7, Zenon DEF SubTypes
<1> QED BY <1>1, <1>2, <1>3, <1>4, <1>5, <1>6, <1>7

LEMMA TypedStep ==
    ASSUME InboxConstants, Typed, [Next]_vars PROVE Typed'
<1>1. CASE UNCHANGED vars
  BY <1>1 DEF vars, inboxVars, relayVars, jobVars, envVars, history, Typed, TypeOK, OfDelivery
<1> QED BY <1>1, TypedArrivals, TypedWork, TypedCalls DEF Next

-----------------------------------------------------------------------------
(* One delivery holds the rest.                                            *)

LEMMA HeldStep ==
    ASSUME InboxConstants, Typed, OneHeld, [Next]_vars PROVE OneHeld'
<1> USE DEF Typed, TypeOK, OfDelivery, inboxVars, relayVars, jobVars, envVars, history
<1> SUFFICES Blocking' \subseteq Blocking \/ \E d \in Deliveries : Blocking' = {d}
  BY DEF OneHeld
<1>1. ASSUME UNCHANGED state PROVE Blocking' \subseteq Blocking
  BY <1>1 DEF Blocking
<1>2. ASSUME NEW d \in Deliveries, Retry(d) \/ Discard(d) PROVE Blocking' \subseteq Blocking
  BY <1>2 DEF Retry, Discard, Blocking
<1>3. ASSUME NEW copy \in Copies, Receive(copy) PROVE Blocking' \subseteq Blocking
  BY <1>3 DEF Receive, Enqueue, Coalesced, Blocking, Copies
<1>4. ASSUME Purge PROVE Blocking' \subseteq Blocking
  BY <1>4 DEF Purge, Blocking
<1>5. ASSUME ScanCommit
      PROVE  Blocking' \subseteq Blocking \/ \E d \in Deliveries : Blocking' = {d}
  <2>1. ASSUME NEW d \in Deliveries, Free, state' = [state EXCEPT ![d] = "running"]
        PROVE  Blocking' = {d}
    BY <2>1 DEF Blocking, Free
  <2>2. ASSUME NEW d \in Deliveries, state' = [state EXCEPT ![d] = "done"]
        PROVE  Blocking' \subseteq Blocking
    BY <2>2 DEF Blocking
  <2> QED BY <1>1, <1>5, <2>1, <2>2 DEF ScanCommit
<1>6. ASSUME CheckTask PROVE Blocking' \subseteq Blocking
  BY <1>6 DEF CheckTask, Blocking
<1>7. ASSUME Settle PROVE Blocking' \subseteq Blocking
  BY <1>7 DEF Settle, Settles, Blocking
<1>8. ASSUME Restart PROVE Blocking' \subseteq Blocking
  BY <1>8 DEF Restart, Recovered, Blocking
<1>9. CASE UNCHANGED vars
  BY <1>1, <1>9 DEF vars
<1>10. CASE \E d \in Deliveries : Forward(d) \/ Lock(d)
  BY <1>1, <1>10 DEF Forward, Lock
<1>11. CASE (\E copy \in Copies : Sweep(copy)) \/ TakeRoute
  BY <1>1, <1>11 DEF Sweep, TakeRoute
<1>12. CASE ScanRead \/ ScanHold \/ ScanStart \/ OtherTurn \/ ReadTask \/ WorkEnds \/ Unregister
  BY <1>1, <1>12 DEF ScanRead, ScanHold, ScanStart, OtherTurn, ReadTask, WorkEnds, Unregister
<1>13. CASE PauseOrResume \/ Update \/ Reconnect \/ Stop \/ Surroundings \/ Pass
  BY <1>1, <1>13 DEF PauseOrResume, Update, Reconnect, Stop, Surroundings, Pass
<1> QED BY <1>2, <1>3, <1>4, <1>5, <1>6, <1>7, <1>8, <1>9, <1>10, <1>11, <1>12, <1>13 DEF Next

-----------------------------------------------------------------------------
(* What a turn works on stays as it was admitted.                          *)

AtWork ==
    /\ turn.at = "read" /\ turn.state = "running" => state[turn.of] = "running"
    /\ turn.at = "working" => state[turn.of] = "running"
    /\ turn.ok => turn.at \in {"ended", "settling"} /\ state[turn.of] = "running"

\* Only a job that reads a paused subscription, the settling of a turn and a restart
\* move a running delivery on.
LEMMA RunningStays ==
    ASSUME InboxConstants, Typed, [Next]_vars, NEW d \in Deliveries, state[d] = "running",
           ~Restart, ~(Settle /\ turn.of = d), ~(CheckTask /\ turn.of = d /\ ~turn.enabled)
    PROVE  state'[d] = "running"
<1> USE DEF Typed, TypeOK, OfDelivery, inboxVars, relayVars, jobVars, envVars, history
<1>2. ASSUME NEW e \in Deliveries, Retry(e) \/ Discard(e) PROVE state'[d] = "running"
  BY <1>2 DEF Retry, Discard, Retriable, Mistakable
<1>3. ASSUME NEW copy \in Copies, Receive(copy) PROVE state'[d] = "running"
  BY <1>3 DEF Receive, Enqueue, Coalesced, Known, Copies
<1>4. CASE Purge
  BY <1>4 DEF Purge, Purgeable, Settled
<1>5. CASE ScanCommit
  BY <1>5 DEF ScanCommit, FirstPending, Pending
<1>6. CASE CheckTask
  BY <1>6 DEF CheckTask
<1>7. CASE Settle
  BY <1>7 DEF Settle
<1>9. CASE UNCHANGED vars
  BY <1>9 DEF vars
<1>10. CASE \E e \in Deliveries : Forward(e) \/ Lock(e)
  BY <1>10 DEF Forward, Lock
<1>11. CASE (\E copy \in Copies : Sweep(copy)) \/ TakeRoute
  BY <1>11 DEF Sweep, TakeRoute
<1>12. CASE ScanRead \/ ScanHold \/ ScanStart \/ OtherTurn \/ ReadTask \/ WorkEnds \/ Unregister
  BY <1>12 DEF ScanRead, ScanHold, ScanStart, OtherTurn, ReadTask, WorkEnds, Unregister
<1>13. CASE PauseOrResume \/ Update \/ Reconnect \/ Stop \/ Surroundings \/ Pass
  BY <1>13 DEF PauseOrResume, Update, Reconnect, Stop, Surroundings, Pass
<1> QED BY <1>2, <1>3, <1>4, <1>5, <1>6, <1>7, <1>9, <1>10, <1>11, <1>12, <1>13 DEF Next

LEMMA AtWorkStep ==
    ASSUME InboxConstants, Typed, AtWork, [Next]_vars PROVE AtWork'
<1> USE DEF Typed, TypeOK, OfDelivery, inboxVars, relayVars, jobVars, envVars, history
<1>1. ASSUME NEW d \in Deliveries, Lock(d) PROVE AtWork'
  BY <1>1 DEF Lock, NoTurn, AtWork, Turns
<1>2. CASE ReadTask
  BY <1>2 DEF ReadTask, AtWork, Turns
<1>3. CASE CheckTask
  BY <1>3 DEF CheckTask, Owns, AtWork, Turns
<1>4. CASE WorkEnds
  BY <1>4 DEF WorkEnds, AtWork, Turns
<1>5. CASE Unregister
  BY <1>5 DEF Unregister, AtWork, Turns
<1>6. CASE Settle
  BY <1>6 DEF Settle, NoTurn, AtWork
<1>7. CASE Restart
  BY <1>7 DEF Restart, NoTurn, AtWork
<1>8. CASE Stop
  BY <1>8 DEF Stop, AtWork, Turns
<1>9. ASSUME UNCHANGED turn, ~CheckTask, ~Settle, ~Restart PROVE AtWork'
  BY <1>9, RunningStays DEF AtWork, Turns
<1>10. ASSUME NEW d \in Deliveries, Forward(d) \/ Retry(d) \/ Discard(d)
       PROVE  UNCHANGED turn
  BY <1>10 DEF Forward, Retry, Discard
<1>11. ASSUME NEW copy \in Copies, Receive(copy) \/ Sweep(copy) PROVE UNCHANGED turn
  BY <1>11 DEF Receive, Sweep
<1>12. ASSUME TakeRoute \/ Purge \/ ScanRead \/ ScanHold \/ ScanCommit \/ ScanStart \/ OtherTurn
       PROVE  UNCHANGED turn
  BY <1>12 DEF TakeRoute, Purge, ScanRead, ScanHold, ScanCommit, ScanStart, OtherTurn
<1>13. ASSUME PauseOrResume \/ Update \/ Reconnect \/ Surroundings \/ Pass
       PROVE  UNCHANGED turn
  BY <1>13 DEF PauseOrResume, Update, Reconnect, Surroundings, Pass
<1>14. UNCHANGED vars => UNCHANGED turn
  BY DEF vars
<1> QED BY <1>1, <1>2, <1>3, <1>4, <1>5, <1>6, <1>7, <1>8, <1>9, <1>10, <1>11, <1>12, <1>13,
           <1>14 DEF Next

-----------------------------------------------------------------------------
(* A turn begins with a ticket, and a ticket is not made unasked.          *)

\* Events, rows and marks are in the order of their times; a mark that is gone
\* outlived every copy of its delivery.
Marked ==
    /\ now > 0
    /\ \A copy \in relay : occurred[copy.of] > 0
    /\ \A d \in Deliveries :
          /\ occurred[d] <= now
          /\ received[d] > 0 => occurred[d] > 0 /\ occurred[d] <= received[d]
          /\ received[d] > 0 /\ state[d] = "absent" => received[d] + Retention < now

\* What the steps that concern a delivery's marks do to time.
LEMMA MarkedStep ==
    ASSUME InboxConstants, Typed, Marked, [Next]_vars PROVE Marked'
<1> USE DEF Typed, TypeOK, OfDelivery, InboxConstants,
            inboxVars, relayVars, jobVars, envVars, history
<1>1. ASSUME NEW d \in Deliveries, Forward(d) PROVE Marked'
  BY <1>1 DEF Forward, Marked
<1>2. ASSUME NEW copy \in Copies, Receive(copy) PROVE Marked'
  <2>1. copy \in relay /\ copy.of \in Deliveries
    BY <1>2 DEF Receive, Copies
  <2>2. CASE UNCHANGED inboxVars
    BY <1>2, <2>1, <2>2 DEF Receive, Marked
  <2>3. CASE Enqueue(copy.of)
    <3>1. received' = [received EXCEPT ![copy.of] = now]
      BY <2>3 DEF Enqueue
    <3>2. \A d \in Deliveries : state'[d] = "absent" => state[d] = "absent" /\ d # copy.of
      BY <2>1, <2>3 DEF Enqueue, Coalesced
    <3> QED BY <1>2, <2>1, <3>1, <3>2 DEF Receive, Marked
  <2> QED BY <1>2, <2>2, <2>3 DEF Receive
<1>3. CASE Purge
  BY <1>3 DEF Purge, Purgeable, Marked
<1>4. CASE Pass
  BY <1>4 DEF Pass, Marked
<1>5. ASSUME UNCHANGED <<now, occurred, received>>, relay' \subseteq relay,
             \A d \in Deliveries : state'[d] = "absent" => state[d] = "absent"
      PROVE  Marked'
  BY <1>5 DEF Marked
<1>6. ASSUME NEW d \in Deliveries, Lock(d) \/ Retry(d) \/ Discard(d) PROVE Marked'
  BY <1>5, <1>6 DEF Lock, Retry, Discard
<1>7. CASE (\E copy \in Copies : Sweep(copy)) \/ TakeRoute
  BY <1>5, <1>7 DEF Sweep, TakeRoute
<1>8. CASE ScanRead \/ ScanHold \/ ScanStart \/ OtherTurn \/ ReadTask \/ WorkEnds \/ Unregister
  BY <1>5, <1>8 DEF ScanRead, ScanHold, ScanStart, OtherTurn, ReadTask, WorkEnds, Unregister
<1>9. CASE PauseOrResume \/ Update \/ Reconnect \/ Stop \/ Surroundings
  BY <1>5, <1>9 DEF PauseOrResume, Update, Reconnect, Stop, Surroundings
<1>10. CASE ScanCommit
  BY <1>5, <1>10 DEF ScanCommit
<1>11. CASE CheckTask \/ Settle
  BY <1>5, <1>11 DEF CheckTask, Settle
<1>12. CASE Restart
  BY <1>5, <1>12 DEF Restart, Recovered
<1>13. CASE UNCHANGED vars
  BY <1>5, <1>13 DEF vars
<1> QED BY <1>1, <1>2, <1>3, <1>4, <1>6, <1>7, <1>8, <1>9, <1>10, <1>11, <1>12, <1>13 DEF Next

\* A copy the Runner still accepts is of a delivery it never had, if it has no mark.
LEMMA AcceptedIsNew ==
    ASSUME InboxConstants, Typed, Marked, NEW copy \in relay, Authentic(copy), ~Known(copy.of)
    PROVE  received[copy.of] = 0
BY DEF Typed, TypeOK, InboxConstants, Marked, Authentic, Known, Window, Copies

One(P) == IF P THEN 1 ELSE 0

\* The tickets of d: jobs of it that may still begin a turn, and its place in the queue.
Jobs(d) == One(d \in queued) + One(scan.at = "admitted" /\ scan.of = d)
           + One(turn.at \in {"locked", "read"} /\ turn.of = d)
Tickets(d) == Jobs(d) + One(state[d] = "pending")

\* A delivery never received has no ticket; any other has one for its arrival and
\* one for each retry of what may have run, less its turns.
Ledger ==
    \A d \in Deliveries :
        /\ runs[d] + Tickets(d) <= 1 + asked[d]
        /\ received[d] = 0 => /\ runs[d] = 0 /\ asked[d] = 0 /\ Jobs(d) = 0
                              /\ state[d] = "absent"

\* The ledger of one delivery, before and after a step that gives it no ticket.
LEMMA LedgerSame ==
    ASSUME Typed, Typed', Ledger, NEW d \in Deliveries,
           runs'[d] + Tickets(d)' <= runs[d] + Tickets(d), asked'[d] = asked[d],
           received'[d] = received[d],
           received[d] = 0 => runs'[d] = 0 /\ Jobs(d)' = 0 /\ state'[d] = "absent"
    PROVE  /\ runs'[d] + Tickets(d)' <= 1 + asked'[d]
           /\ received'[d] = 0 => /\ runs'[d] = 0 /\ asked'[d] = 0 /\ Jobs(d)' = 0
                                  /\ state'[d] = "absent"
<1>1. /\ Tickets(d) \in Nat /\ Tickets(d)' \in Nat
      /\ runs[d] \in Nat /\ runs'[d] \in Nat /\ asked[d] \in Nat
  BY DEF Tickets, Jobs, One, Typed, TypeOK
<1> QED BY <1>1 DEF Ledger

LEMMA LedgerStep ==
    ASSUME InboxConstants, Typed, Typed', Marked, Ledger, [Next]_vars PROVE Ledger'
<1> USE DEF Typed, TypeOK, OfDelivery, inboxVars, relayVars, jobVars, envVars, history
<1> SUFFICES ASSUME NEW d \in Deliveries
             PROVE  /\ runs'[d] + Tickets(d)' <= 1 + asked'[d]
                    /\ received'[d] = 0 => /\ runs'[d] = 0 /\ asked'[d] = 0 /\ Jobs(d)' = 0
                                           /\ state'[d] = "absent"
  BY DEF Ledger
<1> DEFINE Less == /\ runs'[d] + Tickets(d)' <= runs[d] + Tickets(d)
                   /\ asked'[d] = asked[d] /\ received'[d] = received[d]
                   /\ received[d] = 0 => runs'[d] = 0 /\ Jobs(d)' = 0 /\ state'[d] = "absent"
<1>0. /\ runs[d] \in Nat /\ asked[d] \in Nat
      /\ runs[d] + Tickets(d) <= 1 + asked[d]
      /\ received[d] = 0 => runs[d] = 0 /\ asked[d] = 0 /\ Jobs(d) = 0 /\ state[d] = "absent"
  BY DEF Ledger
<1> SUFFICES ASSUME ~Less
             PROVE  /\ runs'[d] + Tickets(d)' <= 1 + asked'[d]
                    /\ received'[d] = 0 => /\ runs'[d] = 0 /\ asked'[d] = 0 /\ Jobs(d)' = 0
                                           /\ state'[d] = "absent"
  BY LedgerSame
\* The steps that leave every ticket where it is.
<1>1. ASSUME UNCHANGED <<queued, scan, turn, state, runs, asked, received>> PROVE FALSE
  BY <1>0, <1>1 DEF Tickets, Jobs, One
<1>2. ASSUME NEW e \in Deliveries, Forward(e) PROVE FALSE
  BY <1>1, <1>2 DEF Forward
<1>3. ASSUME (\E copy \in Copies : Sweep(copy)) \/ TakeRoute \/ OtherTurn PROVE FALSE
  BY <1>1, <1>3 DEF Sweep, TakeRoute, OtherTurn
<1>4. ASSUME PauseOrResume \/ Update \/ Reconnect \/ Surroundings \/ Pass PROVE FALSE
  BY <1>1, <1>4 DEF PauseOrResume, Update, Reconnect, Surroundings, Pass
<1>5. ~UNCHANGED vars
  BY <1>1 DEF vars
\* The steps that move a ticket on, or drop it.
<1>6. ASSUME NEW e \in Deliveries, Lock(e) PROVE FALSE
  <2>1. /\ queued' = queued \ {e} /\ turn' = [turn' EXCEPT !.of = e]
        /\ turn'.of = e /\ turn'.at = "locked" /\ e \in queued /\ turn = NoTurn
    BY <1>6 DEF Lock, NoTurn
  <2> QED BY <1>0, <1>6, <2>1 DEF Lock, NoTurn, Tickets, Jobs, One
<1>7. ASSUME NEW e \in Deliveries, Discard(e) PROVE FALSE
  BY <1>0, <1>7 DEF Discard, Retriable, Mistakable, Tickets, Jobs, One
<1>8. ASSUME Purge PROVE FALSE
  BY <1>0, <1>8 DEF Purge, Purgeable, Settled, Tickets, Jobs, One
<1>9. ASSUME ScanRead \/ ScanHold PROVE FALSE
  <2>1. scan.at # "admitted" /\ scan'.at # "admitted"
    <3>1. CASE ScanRead
      BY <3>1 DEF ScanRead, NoScan
    <3>2. CASE ScanHold
      BY <3>2, ValueTypes DEF ScanHold, Scans
    <3> QED BY <1>9, <3>1, <3>2
  <2> QED BY <1>0, <1>9, <2>1 DEF ScanRead, ScanHold, Tickets, Jobs, One
<1>10. ASSUME ScanCommit PROVE FALSE
  <2>1. scan.at # "admitted" /\ UNCHANGED <<queued, turn, runs, asked, received>>
    BY <1>10 DEF ScanCommit
  <2>2. CASE scan' = NoScan /\ UNCHANGED state
    <3>1. scan'.at # "admitted"
      BY <2>2, ValueTypes
    <3> QED BY <1>0, <2>1, <2>2, <3>1 DEF Tickets, Jobs, One
  <2>3. ASSUME NEW e \in Deliveries, FirstPending(e), state' = [state EXCEPT ![e] = "running"],
               scan' = [scan EXCEPT !.at = "admitted", !.of = e]
        PROVE  FALSE
    <3>1. scan'.at = "admitted" /\ scan'.of = e
      BY <2>3 DEF Scans
    <3>2. /\ state[e] = "pending" /\ state'[e] = "running"
          /\ d # e => state'[d] = state[d]
      BY <2>3 DEF FirstPending, Pending
    <3>3. CASE d = e
      BY <1>0, <2>1, <3>1, <3>2, <3>3 DEF Tickets, Jobs, One
    <3>4. CASE d # e
      BY <1>0, <2>1, <3>1, <3>2, <3>4 DEF Tickets, Jobs, One
    <3> QED BY <3>3, <3>4
  <2>4. ASSUME NEW e \in Deliveries, FirstPending(e), state' = [state EXCEPT ![e] = "done"],
               scan' = NoScan
        PROVE  FALSE
    <3>1. scan'.at # "admitted"
      BY <2>4, ValueTypes
    <3>2. /\ state[e] = "pending" /\ state'[e] = "done"
          /\ d # e => state'[d] = state[d]
      BY <2>4 DEF FirstPending, Pending
    <3> QED BY <1>0, <2>1, <3>1, <3>2 DEF Tickets, Jobs, One
  <2> QED BY <1>10, <2>2, <2>3, <2>4 DEF ScanCommit
<1>11. ASSUME ScanStart PROVE FALSE
  <2>1. scan.at = "admitted" /\ scan'.at = "idle"
    BY <1>11 DEF ScanStart, NoScan
  <2> QED BY <1>0, <1>11, <2>1 DEF ScanStart, Tickets, Jobs, One
<1>12. ASSUME ReadTask PROVE FALSE
  <2>1. turn.at = "locked" /\ turn'.of = turn.of /\ turn'.at \in {"ended", "read"}
    BY <1>12 DEF ReadTask, Turns
  <2> QED BY <1>0, <1>12, <2>1 DEF ReadTask, Tickets, Jobs, One
<1>13. ASSUME CheckTask PROVE FALSE
  <2>1. turn.at = "read" /\ turn'.at \notin {"locked", "read"}
    BY <1>13 DEF CheckTask, Turns
  <2>2. ASSUME state' = [state EXCEPT ![turn.of] = "pending"], UNCHANGED runs PROVE FALSE
    BY <1>0, <1>13, <2>1, <2>2 DEF CheckTask, Tickets, Jobs, One
  <2>3. ASSUME UNCHANGED state, runs' = [runs EXCEPT ![turn.of] = @ + 1] PROVE FALSE
    BY <1>0, <1>13, <2>1, <2>3 DEF CheckTask, Tickets, Jobs, One
  <2>4. ASSUME UNCHANGED <<state, runs>> PROVE FALSE
    BY <1>0, <1>13, <2>1, <2>4 DEF CheckTask, Tickets, Jobs, One
  <2> QED BY <1>13, <2>2, <2>3, <2>4 DEF CheckTask
<1>14. ASSUME WorkEnds \/ Unregister PROVE FALSE
  <2>1. turn.at \notin {"locked", "read"} /\ turn'.at \notin {"locked", "read"}
    BY <1>14 DEF WorkEnds, Unregister, Turns
  <2>2. UNCHANGED <<queued, scan, state, runs, asked, received>>
    BY <1>14 DEF WorkEnds, Unregister
  <2> QED BY <1>0, <2>1, <2>2 DEF Tickets, Jobs, One
<1>15. ASSUME Settle PROVE FALSE
  <2>1. turn.at = "settling" /\ turn'.at = "idle"
    BY <1>15 DEF Settle, NoTurn
  <2> QED BY <1>0, <1>15, <2>1 DEF Settle, Settles, Tickets, Jobs, One
<1>16. ASSUME Stop PROVE FALSE
  <2>1. turn'.at = turn.at /\ turn'.of = turn.of
    BY <1>16 DEF Stop, Turns
  <2> QED BY <1>0, <1>16, <2>1 DEF Stop, KeptByStop, Tickets, Jobs, One
<1>17. ASSUME Restart PROVE FALSE
  <2>1. turn'.at = "idle" /\ scan'.at = "idle"
    BY <1>17 DEF Restart, NoTurn, NoScan
  <2> QED BY <1>0, <1>17, <2>1 DEF Restart, Recovered, Tickets, Jobs, One
\* The two that make a ticket.
<1>18. ASSUME NEW copy \in Copies, Receive(copy)
       PROVE  /\ runs'[d] + Tickets(d)' <= 1 + asked'[d]
              /\ received'[d] = 0 => /\ runs'[d] = 0 /\ asked'[d] = 0 /\ Jobs(d)' = 0
                                     /\ state'[d] = "absent"
  <2>1. /\ copy \in relay /\ copy.of \in Deliveries
        /\ UNCHANGED <<queued, scan, turn, runs, asked>>
    BY <1>18 DEF Receive, Copies
  <2>2. Authentic(copy) /\ ~Known(copy.of) /\ Enqueue(copy.of)
    BY <1>1, <1>18, <2>1 DEF Receive
  <2>3. CASE d = copy.of
    <3>1. received[d] = 0 /\ now > 0 /\ received'[d] = now
      BY <2>1, <2>2, <2>3, AcceptedIsNew DEF Enqueue, Marked
    <3> QED BY <1>0, <2>1, <3>1 DEF Tickets, Jobs, One
  <2>4. CASE d # copy.of
    <3>1. /\ received'[d] = received[d]
          /\ state'[d] = state[d] \/ (state[d] = "pending" /\ state'[d] = "coalesced")
      BY <2>1, <2>2, <2>4 DEF Enqueue, Coalesced
    <3> QED BY <1>0, <2>1, <3>1 DEF Tickets, Jobs, One
  <2> QED BY <2>3, <2>4
<1>19. ASSUME NEW e \in Deliveries, Retry(e)
       PROVE  /\ runs'[d] + Tickets(d)' <= 1 + asked'[d]
              /\ received'[d] = 0 => /\ runs'[d] = 0 /\ asked'[d] = 0 /\ Jobs(d)' = 0
                                     /\ state'[d] = "absent"
  BY <1>0, <1>19 DEF Retry, Retriable, Mistakable, Tickets, Jobs, One
<1> QED BY <1>2, <1>3, <1>4, <1>5, <1>6, <1>7, <1>8, <1>9, <1>10, <1>11, <1>12, <1>13, <1>14,
           <1>15, <1>16, <1>17, <1>18, <1>19 DEF Next

-----------------------------------------------------------------------------
(* The inductive invariant, and what it is for.                            *)

IInv == Typed /\ OneHeld /\ AtWork /\ Marked /\ Ledger

LEMMA Invariant ==
    ASSUME InboxConstants PROVE Spec => []IInv
<1>1. Init => IInv
  <2> SUFFICES ASSUME Init PROVE IInv
    OBVIOUS
  <2>1. Typed
    BY TypedInit
  <2>2. OneHeld /\ AtWork
    BY DEF Init, OneHeld, Blocking, AtWork, NoTurn
  <2>3. Marked
    BY DEF Init, Marked
  <2>4. Ledger
    BY DEF Init, Ledger, Tickets, Jobs, One, NoScan, NoTurn
  <2> QED BY <2>1, <2>2, <2>3, <2>4 DEF IInv
<1>2. IInv /\ [Next]_vars => IInv'
  BY TypedStep, HeldStep, AtWorkStep, MarkedStep, LedgerStep DEF IInv
<1> QED BY <1>1, <1>2, PTL DEF Spec

\* Every variable of a subscription has its type, for any constants.
THEOREM TypeCorrect ==
    ASSUME InboxConstants PROVE Spec => []TypeOK
<1>1. IInv => TypeOK
  BY DEF IInv, Typed
<1> QED BY <1>1, Invariant, PTL

\* A delivery that runs, failed or was interrupted holds every other.
THEOREM OneHolds ==
    ASSUME InboxConstants PROVE Spec => []OneHeld
<1>1. IInv => OneHeld
  BY DEF IInv
<1> QED BY <1>1, Invariant, PTL

\* No repetition of a copy, late job, purged mark or restart begins a turn that was
\* neither due nor asked for.
THEOREM NoneUnasked ==
    ASSUME InboxConstants PROVE Spec => []NoUnaskedRun
<1>1. IInv => NoUnaskedRun
  <2> SUFFICES ASSUME IInv, NEW d \in Deliveries PROVE runs[d] <= 1 + asked[d]
    BY DEF NoUnaskedRun
  <2>1. runs[d] + Tickets(d) <= 1 + asked[d]
    BY DEF IInv, Ledger
  <2>2. Tickets(d) \in Nat /\ runs[d] \in Nat /\ asked[d] \in Nat
    BY DEF IInv, Typed, TypeOK, Tickets, Jobs, One
  <2> QED BY <2>1, <2>2
<1> QED BY <1>1, Invariant, PTL

\* A turn that ended well leaves its delivery done, if the Runner lives to say so.
THEOREM WorkIsRecorded ==
    ASSUME InboxConstants PROVE Spec => WorkRecorded
<1>1. IInv /\ [Next]_vars
         => [turn.at = "settling" /\ turn.ok /\ turn' = NoTurn /\ restarts' = restarts =>
                 state'[turn.of] = "done"]_vars
  <2> SUFFICES ASSUME IInv, [Next]_vars, turn.at = "settling", turn.ok, turn' = NoTurn,
                      restarts' = restarts
               PROVE  state'[turn.of] = "done"
    OBVIOUS
  <2>1. Settle
    <3> USE DEF IInv, Typed, TypeOK, OfDelivery, inboxVars, relayVars, jobVars, envVars, history
    <3>1. turn # NoTurn /\ restarts \in Nat /\ turn.at # "locked" /\ turn \in Turns
      BY DEF NoTurn
    <3>2. ~Restart
      BY <3>1 DEF Restart
    <3>3. turn'.at # turn.at /\ turn'.at = "idle"
      BY DEF NoTurn
    <3>4. \A d \in Deliveries : ~Forward(d) /\ ~Lock(d) /\ ~Retry(d) /\ ~Discard(d)
      BY <3>1 DEF Forward, Lock, Retry, Discard
    <3>5. \A copy \in Copies : ~Receive(copy) /\ ~Sweep(copy)
      BY <3>1 DEF Receive, Sweep
    <3>6. ~TakeRoute /\ ~Purge /\ ~ScanRead /\ ~ScanHold /\ ~ScanCommit /\ ~ScanStart /\ ~OtherTurn
      BY <3>1 DEF TakeRoute, Purge, ScanRead, ScanHold, ScanCommit, ScanStart, OtherTurn
    <3>7. ~ReadTask /\ ~CheckTask /\ ~WorkEnds /\ ~Unregister
      BY <3>1 DEF ReadTask, CheckTask, WorkEnds, Unregister
    <3>8. ~PauseOrResume /\ ~Update /\ ~Reconnect /\ ~Surroundings /\ ~Pass /\ ~UNCHANGED vars
      BY <3>1 DEF PauseOrResume, Update, Reconnect, Surroundings, Pass, vars
    <3>9. ~Stop
      BY <3>1, <3>3 DEF Stop
    <3> QED BY <3>2, <3>4, <3>5, <3>6, <3>7, <3>8, <3>9 DEF Next
  <2>2. state[turn.of] = "running" /\ turn.of \in Deliveries
    BY DEF IInv, AtWork, Typed, OfDelivery
  <2> QED BY <2>1, <2>2 DEF Settle, Settles, IInv, Typed, TypeOK
<1> QED BY <1>1, Invariant, PTL DEF Spec, WorkRecorded
=============================================================================
