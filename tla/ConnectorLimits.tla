-------------------------- MODULE ConnectorLimits --------------------------
(***************************************************************************)
(* Calls of a service's accounts, admitted across every bot of a Runner    *)
(* (crates/cli/src/connector_limits.rs).  A call counts in the bucket of   *)
(* its account and in the one its service's accounts share: at most so     *)
(* many starts in a window, so many at once, and none before the moment    *)
(* the service asked to wait for.  What is counted is kept over a restart. *)
(***************************************************************************)
EXTENDS Integers, FiniteSets

CONSTANTS Accounts,     \* the installed accounts of one service
          Service,      \* the bucket they share
          Calls,        \* bound: calls made
          AccountOf,    \* AccountOf[c]: the account of call c
          Window,       \* window_secs, the same in every setting
          Settings,     \* the limits a user may set: [calls, atOnce]
          MaxTime,      \* bound: the time
          MaxSets,      \* bound: settings and waits asked for
          MaxRestarts,  \* bound: restarts
          Occurs        \* what else may happen: a subset of Events

\* "unsaved": the store refuses a write.  "forgotten": the identity is
\* forgotten while calls run, and another made.
Events == {"unsaved", "forgotten"}

LimitsConstants ==
    /\ Service \notin Accounts
    /\ AccountOf \in [Calls -> Accounts] /\ IsFiniteSet(Calls)
    /\ Window \in Nat \ {0} /\ Settings \subseteq [calls : Nat, atOnce : Nat]
    /\ {MaxTime, MaxSets, MaxRestarts} \subseteq Nat
    /\ Occurs \subseteq Events

Buckets == Accounts \cup {Service}
Keys(c) == {AccountOf[c], Service}

VARIABLES limits,   \* limits[k]: those of bucket k, in memory
          starts,   \* starts[k]: its calls that started, each with its time
          active,   \* active[k]: calls it counts as running; not stored
          until,    \* until[a]: the cooldown of an account
          stored,   \* what the store keeps of limits, starts and until
          call,     \* call[c]: "idle", "waiting", "running" or "done"
          now,
          sets,     \* settings and waits so far
          restarts, \* restarts so far
          began,    \* history: began[k], all calls of k that started
          guided    \* history: guided[a], the latest moment the service asked for

vars == <<limits, starts, active, until, stored, call, now, sets, restarts, began, guided>>

Kept == [limits |-> limits, starts |-> starts, until |-> until]

Init ==
    /\ limits \in [Buckets -> Settings]
    /\ starts = [k \in Buckets |-> {}]
    /\ active = [k \in Buckets |-> 0]
    /\ until = [a \in Accounts |-> 0]
    /\ stored = Kept
    /\ call = [c \in Calls |-> "idle"]
    /\ now = 0
    /\ sets = 0
    /\ restarts = 0
    /\ began = [k \in Buckets |-> {}]
    /\ guided = [a \in Accounts |-> 0]

\* save: of what is in memory after the step, or refused.
Saved   == stored' = Kept'
Refused == "unsaved" \in Occurs /\ UNCHANGED stored

-----------------------------------------------------------------------------
Ask(c) ==
    /\ call[c] = "idle"
    /\ call' = [call EXCEPT ![c] = "waiting"]
    /\ UNCHANGED <<limits, starts, active, until, stored, now, sets, restarts, began, guided>>

Start(c) == [of |-> c, at |-> now]
Since(bs) == {b \in bs : b.at + Window > now}

\* Starts that have left the window are let go.
InWindow(k) == Since(starts[k])

Paused(k) == limits[k].calls = 0 \/ limits[k].atOnce = 0

\* Slip: a bucket is free when the account's own is.
FreeAccount(c) ==
    /\ until[AccountOf[c]] <= now
    /\ Cardinality(InWindow(AccountOf[c])) < limits[AccountOf[c]].calls
    /\ active[AccountOf[c]] < limits[AccountOf[c]].atOnce

Free(c) ==
    /\ until[AccountOf[c]] <= now
    /\ \A k \in Keys(c) : Cardinality(InWindow(k)) < limits[k].calls /\ active[k] < limits[k].atOnce

\* acquire: both buckets count the call, and it starts once they are stored.
Admit(c) ==
    /\ call[c] = "waiting"
    /\ \A k \in Keys(c) : ~Paused(k)
    /\ Free(c)
    /\ starts' = [k \in Buckets |->
                     IF k \in Keys(c) THEN InWindow(k) \cup {Start(c)} ELSE starts[k]]
    /\ active' = [k \in Buckets |-> active[k] + (IF k \in Keys(c) THEN 1 ELSE 0)]
    /\ began' = [k \in Buckets |-> IF k \in Keys(c) THEN began[k] \cup {Start(c)} ELSE began[k]]
    /\ call' = [call EXCEPT ![c] = "running"]
    /\ UNCHANGED <<limits, until, now, sets, restarts, guided>>
    /\ Saved

TakenBack(c) ==
    /\ starts' = [k \in Buckets |-> IF k \in Keys(c) THEN InWindow(k) ELSE starts[k]]
    /\ UNCHANGED active

\* The write fails: the counts are taken back and the call is refused.
AdmitUnsaved(c) ==
    /\ call[c] = "waiting"
    /\ \A k \in Keys(c) : ~Paused(k)
    /\ Free(c)
    /\ TakenBack(c)
    /\ call' = [call EXCEPT ![c] = "done"]
    /\ UNCHANGED <<limits, until, now, sets, restarts, began, guided>>
    /\ Refused

\* A call that waits only lets old starts go; a paused bucket, looked at after
\* the account's own, refuses it.
Look(c) ==
    /\ call[c] = "waiting"
    /\ LET paused == {k \in Keys(c) : Paused(k)} IN
       /\ paused # {} \/ ~Free(c)
       /\ starts' = [k \in Buckets |->
                        IF k \in Keys(c) /\ AccountOf[c] \notin paused /\ k \notin paused
                        THEN InWindow(k) ELSE starts[k]]
       /\ call' = [call EXCEPT ![c] = IF paused # {} THEN "done" ELSE "waiting"]
    /\ UNCHANGED <<limits, active, until, stored, now, sets, restarts, began, guided>>

\* The turn stops while its call waits.
Stop(c) ==
    /\ call[c] = "waiting"
    /\ call' = [call EXCEPT ![c] = "done"]
    /\ UNCHANGED <<limits, starts, active, until, stored, now, sets, restarts, began, guided>>

\* CallPermit::drop: a call that ended, however it ended.
Finish(c) ==
    /\ call[c] = "running"
    /\ active' = [k \in Buckets |->
                     IF k \in Keys(c) /\ active[k] > 0 THEN active[k] - 1 ELSE active[k]]
    /\ call' = [call EXCEPT ![c] = "done"]
    /\ UNCHANGED <<limits, starts, until, stored, now, sets, restarts, began, guided>>

\* The longest wait the service asked for counts.
LongestAsked(a, t) == IF until[a] > t THEN until[a] ELSE t

\* cooldown: guidance in an answer.  It holds in memory when it cannot be kept.
Cooldown(a) ==
    /\ sets < MaxSets
    /\ \E t \in now + 1 .. MaxTime :
          /\ until' = [until EXCEPT ![a] = LongestAsked(a, t)]
          /\ guided' = [guided EXCEPT ![a] = IF t > @ THEN t ELSE @]
    /\ sets' = sets + 1
    /\ UNCHANGED <<limits, starts, active, call, now, restarts, began>>
    /\ Saved \/ Refused

\* connector_limits.set, of the account's bucket or its service's: it ends the
\* wait of the account it is set on.  Refused by the store, it changes nothing.
Set(a, k) ==
    /\ sets < MaxSets
    /\ k \in {a, Service}
    /\ \E s \in Settings : s # limits[k] /\ limits' = [limits EXCEPT ![k] = s]
    /\ until' = [until EXCEPT ![a] = 0]
    /\ guided' = [guided EXCEPT ![a] = 0]
    /\ sets' = sets + 1
    /\ UNCHANGED <<starts, active, call, now, restarts, began>>
    /\ Saved

\* load.
Read == stored

\* The process stops, its calls with it, and the next one reads what is stored.
Restart ==
    /\ restarts < MaxRestarts
    /\ limits' = Read.limits
    /\ starts' = Read.starts
    /\ until' = Read.until
    /\ active' = [k \in Buckets |-> 0]
    /\ call' = [c \in Calls |-> IF call[c] = "idle" THEN "idle" ELSE "done"]
    /\ guided' = Read.until
    /\ restarts' = restarts + 1
    /\ UNCHANGED <<stored, now, sets, began>>

\* forget_identity, and a new identity on the same Runner: its calls are
\* cancelled and end when they notice.
Forget ==
    /\ "forgotten" \in Occurs
    /\ restarts < MaxRestarts
    /\ limits' \in [Buckets -> Settings]
    /\ starts' = [k \in Buckets |-> {}]
    /\ active' = [k \in Buckets |-> 0]
    /\ until' = [a \in Accounts |-> 0]
    /\ guided' = [a \in Accounts |-> 0]
    /\ began' = [k \in Buckets |-> {}]
    /\ restarts' = restarts + 1
    /\ UNCHANGED <<call, now, sets>>
    /\ Saved

Pass ==
    /\ now < MaxTime
    /\ now' = now + 1
    /\ UNCHANGED <<limits, starts, active, until, stored, call, sets, restarts, began, guided>>

Next ==
    \/ \E c \in Calls : Ask(c) \/ Admit(c) \/ AdmitUnsaved(c) \/ Look(c) \/ Stop(c) \/ Finish(c)
    \/ \E a \in Accounts : Cooldown(a) \/ \E k \in Buckets : Set(a, k)
    \/ Restart \/ Forget \/ Pass

Spec == Init /\ [][Next]_vars

-----------------------------------------------------------------------------
(* Properties.                                                             *)

Starts == [of : Calls, at : 0..MaxTime]

TypeOK ==
    /\ limits \in [Buckets -> Settings]
    /\ \A k \in Buckets : {starts[k], stored.starts[k]} \subseteq SUBSET Starts
    /\ active \in [Buckets -> Nat]
    /\ until \in [Accounts -> 0..MaxTime]
    /\ call \in [Calls -> {"idle", "waiting", "running", "done"}]

Running(k) == {c \in Calls : call[c] = "running" /\ k \in Keys(c)}

Begins(c) == call[c] = "waiting" /\ call'[c] = "running"

\* The calls of k that started in the window ending now, this step's included.
Recent(k) == Cardinality(Since(began'[k]))

\* A service never sees more calls of its accounts in a window, or at once,
\* than the user set, not across a restart either.
WithinLimits ==
    \A c \in Calls : Begins(c) =>
        \A k \in Keys(c) :
            /\ Recent(k) <= limits[k].calls
            /\ Cardinality(Running(k)') <= limits[k].atOnce

\* No call starts before the moment the service asked for, whatever it said
\* since, unless the user changed the account's limits.
Waits == \A c \in Calls : Begins(c) => guided[AccountOf[c]] <= now

\* Both of every call that starts (connector_limits.rs, acquire).
StaysWithinLimits == [][WithinLimits /\ Waits]_vars
=============================================================================
