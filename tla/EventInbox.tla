----------------------------- MODULE EventInbox -----------------------------
(***************************************************************************)
(* One event subscription of a Runner (crates/cli/src/event_triggers.rs):  *)
(* gateways sign and seal events, the relay hands each copy at least once, *)
(* the Runner commits a delivery before it lets the copy go, and a loop    *)
(* admits one delivery at a time as a turn of the bot's chat.  Jobs wait   *)
(* for the chat lock, which other turns hold too; a job checks its         *)
(* delivery once it has the lock and settles it after its turn.  The user  *)
(* pauses, edits, retries, discards and stops at any point, and the Runner *)
(* stops at any point.                                                     *)
(***************************************************************************)
EXTENDS Naturals, FiniteSets

CONSTANTS Deliveries,   \* provider delivery ids
          Matching,     \* those whose type and filters match
          Sent,         \* bound: those the service sends
          MaxGeneration,\* bound: routes exported
          MaxTime,      \* bound: coarse time, in delivery windows
          Retention,    \* how long a settled mark is kept (DEDUP_RETENTION_SECS)
          MaxCalls,     \* bound: calls of the user
          MaxRestarts,  \* bound: restarts
          Occurs        \* what else may happen: a subset of Events

\* "pause", "policy", "reconnect", "stop", "away": what the user does.
\* "moves": the bot moves to another Runner.  "busy": other turns take the chat.
\* "drop": the subscription may be a channel, whose conversation may be deleted.
Events == {"pause", "policy", "reconnect", "stop", "away", "moves",
           "busy", "drop"}

Window == 1  \* MAX_AGE_SECS, which is also how long the relay keeps a copy

InboxConstants ==
    /\ Matching \subseteq Deliveries /\ Sent \subseteq Deliveries
    /\ MaxGeneration \in Nat \ {0} /\ MaxTime \in Nat
    /\ MaxCalls \in Nat /\ MaxRestarts \in Nat
    /\ Retention \in Nat /\ Retention >= Window
    /\ Occurs \subseteq Events

Settled == {"done", "filtered", "coalesced"}
States  == Settled \cup {"absent", "pending", "running", "failed", "uncertain"}
Problems == {"none", "auth", "failed", "away", "target"}
Copies == [of : Deliveries, generation : 1..MaxGeneration]

VARIABLES
    sub,       \* the subscription: enabled, policy, generation, problem, channel
    state,     \* state[d]: the delivery's row, or "absent"
    position,  \* position[d]: its place in the inbox, 0 for none
    arrivals,  \* the last position given
    received,  \* received[d]: when its row was committed
    now,       \* the time, in delivery windows
    occurred,  \* occurred[d]: when the service's event happened
    route,     \* the generation of the route the gateway holds
    relay,     \* the sealed copies on the relay
    scan,      \* tick: where it is, and what it has read
    queued,    \* registered jobs that wait for the chat lock
    stopping,  \* those of them the user has stopped
    turn,      \* the job of the subscription that holds the chat lock
    busy,      \* another turn holds the chat lock
    here,      \* the target bot is this Runner's
    away,      \* nobody has written for a week
    calls,     \* calls of the user so far
    restarts,  \* restarts so far
    runs,      \* history: runs[d], turns of d that began
    asked      \* history: asked[d], retries of d after a turn may have run

inboxVars == <<state, position, arrivals, received>>
relayVars == <<occurred, route, relay>>
jobVars   == <<queued, stopping, turn, busy>>
envVars   == <<now, here, away, calls, restarts>>
history   == <<runs, asked>>
vars == <<sub, inboxVars, relayVars, scan, jobVars, envVars, history>>

NoScan == [at |-> "idle", config |-> <<FALSE, "fifo">>, problem |-> "none", of |-> "none"]
NoTurn == [of |-> "none", at |-> "idle", cancelled |-> FALSE, state |-> "absent",
           enabled |-> FALSE, ok |-> FALSE]

Init ==
    /\ sub \in [enabled : {TRUE}, policy : {"fifo", "latest"}, generation : {1},
                problem : {"none"},
                channel : IF "drop" \in Occurs THEN BOOLEAN ELSE {FALSE}]
    /\ state = [d \in Deliveries |-> "absent"]
    /\ position = [d \in Deliveries |-> 0]
    /\ arrivals = 0
    /\ received = [d \in Deliveries |-> 0]
    /\ now = 1
    /\ occurred = [d \in Deliveries |-> 0]
    /\ route = 1
    /\ relay = {}
    /\ scan = NoScan
    /\ queued = {}
    /\ stopping = {}
    /\ turn = NoTurn
    /\ busy = FALSE
    /\ here = TRUE
    /\ away = FALSE
    /\ calls = 0
    /\ restarts = 0
    /\ runs = [d \in Deliveries |-> 0]
    /\ asked = [d \in Deliveries |-> 0]

-----------------------------------------------------------------------------
(* The gateway and the relay.                                              *)

\* forward: a copy is sealed and uploaded; the service and the outbox repeat it.
Forward(d) ==
    LET copy == [of |-> d, generation |-> route]
    IN  /\ d \in Sent /\ copy \notin relay
        /\ occurred[d] = 0 \/ now <= occurred[d] + Window
        /\ occurred' = [occurred EXCEPT ![d] = IF @ = 0 THEN now ELSE @]
        /\ relay' = relay \cup {copy}
        /\ UNCHANGED <<sub, inboxVars, route, scan, jobVars, envVars, history>>

\* The exported route reaches the gateway.
TakeRoute ==
    /\ route # sub.generation
    /\ route' = sub.generation
    /\ UNCHANGED <<sub, inboxVars, occurred, relay, scan, jobVars, envVars, history>>

\* The relay lets an unconsumed copy go after its retention.
Sweep(copy) ==
    /\ copy \in relay /\ now > occurred[copy.of] + Window
    /\ relay' = relay \ {copy}
    /\ UNCHANGED <<sub, inboxVars, occurred, route, scan, jobVars, envVars, history>>

\* validate_envelope and the generation.
Authentic(copy) ==
    /\ copy.generation = sub.generation
    /\ now <= occurred[copy.of] + Window

\* The mark that makes a delivery one, whatever brings it.
Known(d) == state[d] # "absent"

\* `latest`: a new event leaves marks of the pending ones.
Coalesced(d) ==
    [e \in Deliveries |-> IF e = d THEN "pending"
                          ELSE IF state[e] = "pending" THEN "coalesced" ELSE state[e]]

\* A new row, with its place at the end of the inbox.
Enqueue(d) ==
    /\ state' = IF d \notin Matching THEN [state EXCEPT ![d] = "filtered"]
                ELSE IF sub.policy = "latest" THEN Coalesced(d)
                ELSE [state EXCEPT ![d] = "pending"]
    /\ arrivals' = arrivals + 1
    /\ position' = [position EXCEPT ![d] = arrivals + 1]
    /\ received' = [received EXCEPT ![d] = now]

\* receive, from receive_blob.  The cursor and blob_deletes are saved after it: a
\* stop in between, or a deletion that does not get through, has the copy handed
\* again.
Receive(copy) ==
    LET d == copy.of
    IN  /\ copy \in relay
        /\ relay' = relay \/ relay' = relay \ {copy}
        /\ \/ /\ ~Authentic(copy)
              /\ sub' = [sub EXCEPT !.problem = "auth"]
              /\ UNCHANGED inboxVars
           \/ /\ Authentic(copy) /\ Known(d)
              /\ UNCHANGED <<sub, inboxVars>>
           \/ /\ Authentic(copy) /\ ~Known(d)
              /\ Enqueue(d)
              /\ sub' = [sub EXCEPT !.problem = IF @ = "auth" THEN "none" ELSE @]
        /\ UNCHANGED <<occurred, route, scan, jobVars, envVars, history>>

Purgeable(d) == state[d] \in Settled /\ received[d] + Retention < now

\* purge: marks go after their retention.
Purge ==
    /\ \E d \in Deliveries : Purgeable(d)
    /\ state' = [d \in Deliveries |-> IF Purgeable(d) THEN "absent" ELSE state[d]]
    /\ position' = [d \in Deliveries |-> IF Purgeable(d) THEN 0 ELSE position[d]]
    /\ UNCHANGED <<sub, arrivals, received, relayVars, scan, jobVars, envVars, history>>

-----------------------------------------------------------------------------
(* tick.                                                                   *)

Config == <<sub.enabled, sub.policy>>

\* The subscriptions are read without holding the store further.
ScanRead ==
    /\ scan = NoScan
    /\ sub.enabled
    /\ scan' = [NoScan EXCEPT !.at = "read", !.config = Config, !.problem = sub.problem]
    /\ UNCHANGED <<sub, inboxVars, relayVars, jobVars, envVars, history>>

Held == IF away THEN "away" ELSE IF ~here THEN "target" ELSE "none"

\* hold writes the problem on the stored subscription, from the problem read.
ScanHold ==
    /\ scan.at = "read"
    /\ LET writes == /\ Held # scan.problem
                     /\ Held # "none" \/ scan.problem \in {"away", "target"}
       IN  sub' = IF writes THEN [sub EXCEPT !.problem = Held] ELSE sub
    /\ scan' = IF Held = "none" THEN [scan EXCEPT !.at = "resolved"] ELSE NoScan
    /\ UNCHANGED <<inboxVars, relayVars, jobVars, envVars, history>>

Pending == {d \in Deliveries : state[d] = "pending"}

Blocking == {d \in Deliveries : state[d] \in {"running", "failed", "uncertain"}}

\* Slip: only a running delivery holds the next.
FreeUnlessRunning == \A d \in Deliveries : state[d] # "running"

\* Failures and uncertain effects hold the rest until the user settles them.
Free == Blocking = {}

FirstPending(d) == d \in Pending /\ \A e \in Pending : position[d] <= position[e]

\* The transaction: config and queue are read again, and one delivery admitted.
ScanCommit ==
    /\ scan.at = "resolved"
    /\ \/ /\ Config = scan.config /\ Free
          /\ \E d \in Deliveries :
                /\ FirstPending(d)
                /\ \/ /\ state' = [state EXCEPT ![d] = "running"]
                      /\ scan' = [scan EXCEPT !.at = "admitted", !.of = d]
                   \/ /\ "drop" \in Occurs /\ sub.channel
                      /\ state' = [state EXCEPT ![d] = "done"]
                      /\ scan' = NoScan
       \/ /\ (Config # scan.config \/ ~Free \/ Pending = {})
          /\ scan' = NoScan
          /\ UNCHANGED state
    /\ UNCHANGED <<sub, position, arrivals, received, relayVars, jobVars, envVars, history>>

\* begin_job refuses a job id that is registered.
Registered(d) ==
    \/ d \in queued
    \/ turn.of = d /\ turn.at \in {"locked", "read", "working", "ended"}

\* start_turn; a bot that has just moved has its turn sent away, where an
\* event's job is dropped.
ScanStart ==
    /\ scan.at = "admitted"
    /\ queued' = IF here /\ ~Registered(scan.of) THEN queued \cup {scan.of} ELSE queued
    /\ scan' = NoScan
    /\ UNCHANGED <<sub, inboxVars, relayVars, stopping, turn, busy, envVars, history>>

-----------------------------------------------------------------------------
(* The turn.                                                               *)

\* Another turn takes the chat lock, and gives it back.
OtherTurn ==
    /\ turn = NoTurn
    /\ \/ busy /\ busy' = FALSE
       \/ "busy" \in Occurs /\ ~busy /\ busy' = TRUE
    /\ UNCHANGED <<sub, inboxVars, relayVars, scan, queued, stopping, turn, envVars, history>>

\* spawn_local_job has the lock.
Lock(d) ==
    /\ d \in queued /\ turn = NoTurn /\ ~busy
    /\ turn' = [NoTurn EXCEPT !.of = d, !.at = "locked", !.cancelled = d \in stopping]
    /\ queued' = queued \ {d}
    /\ stopping' = stopping \ {d}
    /\ UNCHANGED <<sub, inboxVars, relayVars, scan, busy, envVars, history>>

\* task_for_job reads the delivery and its subscription, and lets the store go.
ReadTask ==
    /\ turn.at = "locked"
    /\ turn' = IF turn.cancelled \/ state[turn.of] = "absent"
               THEN [turn EXCEPT !.at = "ended"]
               ELSE [turn EXCEPT !.at = "read", !.state = state[turn.of],
                                 !.enabled = sub.enabled]
    /\ UNCHANGED <<sub, inboxVars, relayVars, scan, queued, stopping, busy, envVars, history>>

\* Only the job of an admitted delivery works.
Owns == turn.state = "running"

\* A paused subscription has its delivery saved as pending, as it was read.
CheckTask ==
    /\ turn.at = "read"
    /\ \/ /\ here /\ ~turn.enabled
          /\ state' = [state EXCEPT ![turn.of] = "pending"]
          /\ turn' = [turn EXCEPT !.at = "ended"]
          /\ UNCHANGED runs
       \/ /\ here /\ turn.enabled /\ Owns
          /\ turn' = [turn EXCEPT !.at = "working"]
          /\ runs' = [runs EXCEPT ![turn.of] = @ + 1]
          /\ UNCHANGED state
       \/ /\ ~here \/ (turn.enabled /\ ~Owns)
          /\ turn' = [turn EXCEPT !.at = "ended"]
          /\ UNCHANGED <<state, runs>>
    /\ UNCHANGED <<sub, position, arrivals, received, relayVars, scan, queued, stopping,
                   busy, envVars, asked>>

\* The turn ends, with something done or skipped.
WorkEnds ==
    /\ turn.at = "working"
    /\ \E ok \in BOOLEAN :
          turn' = [turn EXCEPT !.at = "ended", !.ok = ok]
    /\ UNCHANGED <<sub, inboxVars, relayVars, scan, queued, stopping, busy, envVars, history>>

\* finish_job: the job is no longer registered, and cannot be stopped.
Unregister ==
    /\ turn.at = "ended"
    /\ turn' = [turn EXCEPT !.at = "settling"]
    /\ UNCHANGED <<sub, inboxVars, relayVars, scan, queued, stopping, busy, envVars, history>>

\* Only the delivery the job was admitted for, as it stands.
Settles(d) == state[d] = "running"

\* finished: a channel's message the user stopped is settled.
Settle ==
    LET d == turn.of
        stopped == turn.cancelled /\ sub.channel
        success == stopped \/ turn.ok
    IN  /\ turn.at = "settling"
        /\ \/ /\ Settles(d) /\ success
              /\ state' = [state EXCEPT ![d] = "done"]
              /\ UNCHANGED sub
           \/ /\ Settles(d) /\ ~success
              /\ state' = [state EXCEPT ![d] = "failed"]
              /\ sub' = [sub EXCEPT !.problem = "failed"]
           \/ /\ ~Settles(d)
              /\ UNCHANGED <<sub, state>>
        /\ turn' = NoTurn
        /\ UNCHANGED <<position, arrivals, received, relayVars, scan, queued, stopping,
                       busy, envVars, history>>

-----------------------------------------------------------------------------
(* The user, and the Runner's surroundings.                                *)

Call == calls < MaxCalls /\ calls' = calls + 1

\* events.pause and events.resume.
PauseOrResume ==
    /\ "pause" \in Occurs /\ Call
    /\ sub' = IF sub.enabled THEN [sub EXCEPT !.enabled = FALSE]
              ELSE [sub EXCEPT !.enabled = TRUE, !.problem = "none"]
    /\ away' = (away /\ sub.enabled)  \* enabled_at
    /\ UNCHANGED <<inboxVars, relayVars, scan, jobVars, now, here, restarts, history>>

\* events.update: the policy may change.
Update ==
    /\ "policy" \in Occurs /\ Call
    /\ sub' = [sub EXCEPT !.policy = IF @ = "fifo" THEN "latest" ELSE "fifo"]
    /\ UNCHANGED <<inboxVars, relayVars, scan, jobVars, now, here, away, restarts, history>>

\* events.reconnect: a new secret and generation.
Reconnect ==
    /\ "reconnect" \in Occurs /\ Call /\ sub.generation < MaxGeneration
    /\ sub' = [sub EXCEPT !.generation = @ + 1,
                          !.problem = IF @ = "auth" THEN "none" ELSE @]
    /\ UNCHANGED <<inboxVars, relayVars, scan, jobVars, now, here, away, restarts, history>>

Mistakable == {"failed", "uncertain", "pending"}

\* clear_problem(FAILED_PROBLEM).
Cleared == [sub EXCEPT !.problem = IF @ = "failed" THEN "none" ELSE @]

Retriable(d) == state[d] \in Mistakable

\* events.retry, and budgets.resume of an event's job.
Retry(d) ==
    /\ Call /\ Retriable(d)
    /\ state' = [state EXCEPT ![d] = "pending"]
    /\ asked' = [asked EXCEPT ![d] = IF state[d] \in {"failed", "uncertain"} THEN @ + 1 ELSE @]
    /\ sub' = Cleared
    /\ UNCHANGED <<position, arrivals, received, relayVars, scan, jobVars, now, here, away,
                   restarts, runs>>

\* events.discard: only the mark is kept.
Discard(d) ==
    /\ Call /\ Retriable(d)
    /\ state' = [state EXCEPT ![d] = "done"]
    /\ sub' = Cleared
    /\ UNCHANGED <<position, arrivals, received, relayVars, scan, jobVars, now, here, away,
                   restarts, history>>

\* It still takes its turn at the lock, to end.
KeptByStop == queued

\* Stop cancels the jobs of the chat, waiting ones too.
Stop ==
    /\ "stop" \in Occurs /\ Call
    /\ stopping' = queued
    /\ turn' = IF turn.at \in {"locked", "read", "working", "ended"}
               THEN [turn EXCEPT !.cancelled = TRUE] ELSE turn
    /\ queued' = KeptByStop
    /\ busy' = FALSE
    /\ UNCHANGED <<sub, inboxVars, relayVars, scan, now, here, away, restarts, history>>

\* The bot moves to another Runner or back; the user is away or writes again.
Surroundings ==
    /\ Call
    /\ \/ "moves" \in Occurs /\ here' = ~here /\ UNCHANGED away
       \/ "away" \in Occurs /\ away' = ~away /\ UNCHANGED here
    /\ UNCHANGED <<sub, inboxVars, relayVars, scan, jobVars, now, restarts, history>>

Pass ==
    /\ now < MaxTime
    /\ now' = now + 1
    /\ UNCHANGED <<sub, inboxVars, relayVars, scan, jobVars, here, away, calls, restarts,
                   history>>

\* Slip: a restart takes interrupted deliveries up again.
RecoveredPending ==
    [d \in Deliveries |-> IF state[d] = "running" THEN "pending" ELSE state[d]]

\* recover: a turn that may have acted does not run again by itself.
Recovered ==
    [d \in Deliveries |-> IF state[d] = "running" THEN "uncertain" ELSE state[d]]

\* The Runner stops and starts; recover comes before the first tick.
Restart ==
    /\ restarts < MaxRestarts
    /\ restarts' = restarts + 1
    /\ state' = Recovered
    /\ scan' = NoScan
    /\ queued' = {}
    /\ stopping' = {}
    /\ turn' = NoTurn
    /\ busy' = FALSE
    /\ UNCHANGED <<sub, position, arrivals, received, relayVars, now, here, away, calls,
                   history>>

Next ==
    \/ \E d \in Deliveries : Forward(d) \/ Lock(d) \/ Retry(d) \/ Discard(d)
    \/ \E copy \in Copies : Receive(copy) \/ Sweep(copy)
    \/ TakeRoute \/ Purge
    \/ ScanRead \/ ScanHold \/ ScanCommit \/ ScanStart
    \/ OtherTurn
    \/ ReadTask \/ CheckTask \/ WorkEnds \/ Unregister \/ Settle
    \/ PauseOrResume \/ Update \/ Reconnect \/ Stop \/ Surroundings \/ Pass
    \/ Restart

Spec == Init /\ [][Next]_vars

\* The executor's loop and the jobs' tasks run while the process does; the chat
\* lock is handed over in the order it was asked for; other turns end.
Fairness ==
    /\ WF_vars(ScanRead) /\ WF_vars(ScanHold) /\ WF_vars(ScanCommit) /\ WF_vars(ScanStart)
    /\ \A d \in Deliveries : SF_vars(Lock(d))
    /\ WF_vars(ReadTask) /\ WF_vars(CheckTask) /\ WF_vars(WorkEnds)
    /\ WF_vars(Unregister) /\ WF_vars(Settle)
    /\ WF_vars(busy /\ OtherTurn)

FairSpec == Spec /\ Fairness

-----------------------------------------------------------------------------
(* Properties.                                                             *)

Turns == [of : Deliveries \cup {"none"}, state : States, enabled : BOOLEAN,
          cancelled : BOOLEAN, ok : BOOLEAN,
          at : {"idle", "locked", "read", "working", "ended", "settling"}]

Scans == [at : {"idle", "read", "resolved", "admitted"},
          config : BOOLEAN \X {"fifo", "latest"}, problem : Problems,
          of : Deliveries \cup {"none"}]

\* Every variable has its type, and only waiting jobs are marked as stopped.
TypeOK ==
    /\ sub \in [enabled : BOOLEAN, policy : {"fifo", "latest"}, generation : 1..MaxGeneration,
                problem : Problems, channel : BOOLEAN]
    /\ state \in [Deliveries -> States]
    /\ position \in [Deliveries -> Nat] /\ arrivals \in Nat
    /\ received \in [Deliveries -> Nat] /\ now \in Nat
    /\ occurred \in [Deliveries -> Nat] /\ route \in 1..MaxGeneration
    /\ relay \subseteq Copies
    /\ scan \in Scans /\ turn \in Turns
    /\ queued \subseteq Deliveries /\ stopping \subseteq queued
    /\ busy \in BOOLEAN /\ here \in BOOLEAN /\ away \in BOOLEAN
    /\ calls \in Nat /\ restarts \in Nat
    /\ runs \in [Deliveries -> Nat] /\ asked \in [Deliveries -> Nat]

\* A delivery that runs, failed or was interrupted holds all the others of its
\* subscription, whatever the user retries or discards and whichever jobs of
\* earlier admissions are still about (event-triggers.md: one at a time).
OneHeld == \A d, e \in Blocking : d = e

\* Through repeated copies, new routes, purged marks, held turns and restarts, a
\* delivery's turn runs once, and once more for each time the user asks for it
\* after it failed or was interrupted.
NoUnaskedRun == \A d \in Deliveries : runs[d] <= 1 + asked[d]

\* A turn that ended well is recorded as done: nothing moved its delivery on
\* while it worked.
WorkRecorded ==
    [][turn.at = "settling" /\ turn.ok /\ turn' = NoTurn /\ restarts' = restarts =>
          state'[turn.of] = "done"]_vars
=============================================================================
