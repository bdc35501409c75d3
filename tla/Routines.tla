------------------------------ MODULE Routines ------------------------------
(***************************************************************************)
(* A recurring routine of a bot (crates/cli/src/routines.rs): its Runner    *)
(* takes a due time, looks with the routine's check where it has one, and   *)
(* runs; the user runs, stops, pauses, resumes and edits it, on the Runner  *)
(* and on another Device, which writes the whole roster from the copy it    *)
(* has.  The Runner keeps its own record of due times and checks over such  *)
(* a roster, and over a restart.                                           *)
(***************************************************************************)
EXTENDS Integers, Sequences, FiniteSetsExt

CONSTANTS Scripts,      \* checks a routine may have
          NoCheck,      \* a routine without one
          Founded,      \* how it stands at first: its check, policy and streak
          MaxTime,      \* bound: time, in units of the first retry and of the schedule
          MaxCalls,     \* bound: calls of the user
          MaxRestarts,  \* bound: restarts
          Occurs        \* what else may happen: a subset of Events

\* "unsaved": a save fails.  "away": nobody has written for a week.
\* "roster": another Device changes the routine.  "edit": its check is changed.
\* "older": such a roster was written before the Runner's routine was last armed.
Events == {"unsaved", "away", "roster", "edit", "older"}

RoutineConstants ==
    /\ NoCheck \notin Scripts /\ Occurs \subseteq Events
    /\ Founded \subseteq [check : Scripts \cup {NoCheck}, policy : {"skip", "coalesce"},
                          fails : 0..2, misses : Nat]
    /\ {MaxTime, MaxCalls, MaxRestarts} \subseteq Nat

VARIABLES
    routine,   \* the Runner's record of it, in memory and in its store
    out,       \* the roster of the Runner on its way: at most one
    copy,      \* the record another Device has
    sent,      \* the roster of that Device on its way: at most one
    scan,      \* tick: where it is, and the routine as it read it
    look,      \* the check of a due routine, and the routine it began with
    checking,  \* routine_checks: the routine's check is marked as running
    jobs,      \* registered runs that wait for the chat lock: with what a check found or plain
    turn,      \* the run that has the lock
    hand,      \* run_now saw that no run goes on
    now,       \* the time
    stamps,    \* the clock to compare edits and records by
    requests, reboots,  \* calls and restarts so far
    own,       \* history: what the Runner last wrote since the routine was armed
    signedOut  \* history: the arming under which the last third sign-in failed, or 0

rosterVars == <<routine, out, copy, sent>>
runVars    == <<scan, look, checking, jobs, turn, hand>>
boundVars  == <<requests, reboots>>
vars == <<rosterVars, runVars, now, stamps, boundVars, own, signedOut>>

NoScan == [at |-> "idle", check |-> NoCheck, armed |-> 0, late |-> FALSE, time |-> 0]
NoLook == [at |-> "idle", check |-> NoCheck, armed |-> 0, result |-> "none"]
NoTurn == [at |-> "idle", check |-> NoCheck, armed |-> 0, streak |-> [fails |-> 0, misses |-> 0, retry |-> 0]]

\* Streaks of failed sign-ins and connections, and the time of the next try.
NoStreak  == [fails |-> 0, misses |-> 0, retry |-> 0]
NoHealth  == [stamp |-> 0, at |-> 0, check |-> NoStreak, model |-> NoStreak]
NothingOwn == [taken |-> -1, check |-> 0, model |-> 0]

Init ==
    /\ \E f \in Founded :
         LET streak == [NoStreak EXCEPT !.fails = f.fails, !.misses = f.misses]
         IN routine = [on |-> TRUE, reason |-> "none", armed |-> 1, since |-> 0, taken |-> 0,
                       ran |-> 0, check |-> f.check, policy |-> f.policy,
                       health |-> IF f.check = NoCheck THEN [NoHealth EXCEPT !.model = streak]
                                  ELSE [NoHealth EXCEPT !.check = streak]]
    /\ copy = routine
    /\ out = <<>> /\ sent = <<>>
    /\ scan = NoScan /\ look = NoLook /\ checking = FALSE
    /\ jobs = <<>> /\ turn = NoTurn /\ hand = FALSE
    /\ now = 0 /\ stamps = 1
    /\ requests = 0 /\ reboots = 0
    /\ own = NothingOwn /\ signedOut = 0

-----------------------------------------------------------------------------
(* The record.                                                             *)

\* anchor: what the schedule counts from.
Anchor(r) == Max({r.taken, r.ran, r.health.at, r.since})

\* CheckHealth::retry_at
RetryAt(r) == Max({r.health.check.retry, r.health.model.retry})

\* next_run_at
NextRun(r) == Max({Anchor(r) + 1, RetryAt(r)})

\* Five minutes, doubled to six hours.
Backoff(n) == <<1, 2, 4, 8, 16, 32, 64, 72>>[Min({n, 8})]

Failures == {"authentication", "connection"}

\* CheckHealth::record
Recorded(s, result) ==
    CASE result = "authentication" ->
            [fails |-> s.fails + 1, misses |-> 0, retry |-> now + Backoff(s.fails + 1)]
      [] result = "connection" ->
            [fails |-> 0, misses |-> s.misses + 1, retry |-> now + Backoff(s.misses + 1)]
      [] OTHER -> NoStreak

\* Three failed sign-ins in a row pause it.
Paused(r, s) ==
    IF s.fails >= 3 THEN [r EXCEPT !.on = FALSE, !.reason = "authentication"] ELSE r

\* change_routine: saved, or taken back; update_routine publishes it.
Update(r)  == routine' = r /\ out' = <<r>>
Record(r)  == routine' = r /\ UNCHANGED out
Unsaved    == "unsaved" \in Occurs /\ UNCHANGED <<routine, out>>

\* The history of an arming begins anew with another.
Owned(o) == own' = IF routine'.armed # routine.armed THEN NothingOwn ELSE o
Answered ==
    signedOut' = IF \/ routine'.armed > signedOut
                    \/ ~routine'.on /\ routine'.reason # "authentication"
                 THEN 0 ELSE signedOut
SignedOut(r) == signedOut' = IF r.reason = "authentication" /\ routine.on THEN r.armed ELSE signedOut

-----------------------------------------------------------------------------
(* tick.                                                                   *)

Running == jobs # <<>> \/ turn.at # "idle"

\* What is due is read without holding it further.
TickRead ==
    /\ scan = NoScan
    /\ routine.on /\ NextRun(routine) <= now
    /\ ~Running /\ ~checking
    /\ scan' = [at |-> "due", check |-> routine.check, armed |-> routine.armed,
                late |-> routine.policy = "skip" /\ NextRun(routine) < now, time |-> now]
    /\ UNCHANGED <<rosterVars, look, checking, jobs, turn, hand, now, stamps, boundVars, own, signedOut>>

\* pause_while_away
TickAway ==
    /\ scan.at = "due" /\ "away" \in Occurs
    /\ Update([routine EXCEPT !.on = FALSE, !.reason = "away"])
    /\ scan' = NoScan
    /\ UNCHANGED <<copy, sent, look, checking, jobs, turn, hand, now, stamps, boundVars, own, signedOut>>

Taken(r) == [r EXCEPT !.taken = scan.time]

\* The due time is taken before any work starts.
TickTake ==
    /\ scan.at = "due"
    /\ \/ /\ Record(Taken(routine))
          /\ scan' = IF scan.late THEN NoScan ELSE [scan EXCEPT !.at = "taken"]
          /\ Owned([own EXCEPT !.taken = scan.time])
       \/ Unsaved /\ scan' = NoScan /\ UNCHANGED own
    /\ UNCHANGED <<copy, sent, look, checking, jobs, turn, hand, now, stamps, boundVars, signedOut>>

\* Checks::start
Free == ~checking

\* A routine with a check looks first; without one its run starts.
TickStart ==
    /\ scan.at = "taken"
    /\ scan' = NoScan
    /\ \/ /\ scan.check # NoCheck /\ Free
          /\ look' = [NoLook EXCEPT !.at = "running", !.check = scan.check, !.armed = scan.armed]
          /\ checking' = TRUE
          /\ UNCHANGED <<routine, out, jobs>>
       \/ scan.check # NoCheck /\ ~Free /\ UNCHANGED <<routine, out, look, checking, jobs>>
       \/ /\ scan.check = NoCheck
          /\ Update([routine EXCEPT !.ran = now]) \/ Unsaved
          /\ jobs' = Append(jobs, "plain")
          /\ UNCHANGED <<look, checking>>
    /\ UNCHANGED <<copy, sent, turn, hand, now, stamps, boundVars, own, signedOut>>

-----------------------------------------------------------------------------
(* Checks.                                                                 *)

\* "found": it found something, or its script failed.
Results == {"quiet", "found"} \cup Failures

\* same_target, of the record as a check began.
SameTarget(seen) == routine.check = seen.check

\* checked: the outcome counts unless the routine was changed or armed meanwhile; the roster
\* goes up when the check failed, or went another way than the one before.
Checked(seen, result) ==
    LET counts == SameTarget(seen) /\ routine.armed <= seen.armed
        health == [stamp |-> stamps + 1, at |-> now, model |-> routine.health.model,
                   check |-> Recorded(routine.health.check, result)]
        r      == Paused([routine EXCEPT !.health = health], health.check)
    IN /\ checking' = FALSE
       /\ IF counts
          THEN /\ routine' = r
               /\ out' \in {<<r>>} \cup (IF result \in Failures THEN {} ELSE {out})
               /\ stamps' = stamps + 1
               /\ Owned([own EXCEPT !.check = health.check.retry])
               /\ SignedOut(r)
          ELSE UNCHANGED <<routine, out, stamps, own, signedOut>>

\* check_then_run: a check ends; a save that fails drops what it found.
LookEnds ==
    /\ look.at = "running"
    /\ \E result \in Results :
         \/ Checked(look, result) /\ look' = [look EXCEPT !.at = "ended", !.result = result]
         \/ /\ Unsaved
            /\ checking' = FALSE /\ look' = NoLook
            /\ UNCHANGED <<stamps, own, signedOut>>
    /\ UNCHANGED <<copy, sent, scan, jobs, turn, hand, now, boundVars>>

\* What it found starts a run, of a routine that is still on and looks at the same.
LookRuns ==
    LET runs == routine.on /\ SameTarget(look) /\ look.result = "found"
    IN /\ look.at = "ended"
       /\ look' = NoLook
       /\ \/ runs /\ (Update([routine EXCEPT !.ran = now]) \/ Unsaved) /\ jobs' = Append(jobs, "found")
          \/ ~runs /\ UNCHANGED <<routine, out, jobs>>
       /\ UNCHANGED <<copy, sent, scan, checking, turn, hand, now, stamps, boundVars, own, signedOut>>

-----------------------------------------------------------------------------
(* Runs.                                                                   *)

Call == requests < MaxCalls /\ requests' = requests + 1

\* run_now sees that no run goes on, and starts one after.
RunNowAsked ==
    /\ Call /\ ~hand
    /\ routine.reason # "authentication" /\ ~Running
    /\ hand' = TRUE
    /\ UNCHANGED <<rosterVars, scan, look, checking, jobs, turn, now, stamps, reboots, own, signedOut>>

RunNowStarts ==
    /\ hand /\ hand' = FALSE
    /\ jobs' = Append(jobs, "plain")
    /\ UNCHANGED <<rosterVars, scan, look, checking, turn, now, stamps, boundVars, own, signedOut>>

\* Another Device's Run Now, sealed to the Runner, which its own copy allowed.
RunSent ==
    /\ "roster" \in Occurs /\ Call
    /\ copy.reason # "authentication"
    /\ jobs' = Append(jobs, "plain")
    /\ UNCHANGED <<rosterVars, scan, look, checking, turn, hand, now, stamps, reboots, own, signedOut>>

\* A routine paused for its sign-ins does not run.
SignedIn == routine.reason # "authentication"

\* The turn has the chat lock; one without a report looks first.
Begin ==
    /\ jobs # <<>> /\ turn = NoTurn
    /\ jobs' = Tail(jobs)
    /\ \/ ~SignedIn /\ UNCHANGED <<routine, out, turn>>
       \/ /\ SignedIn
          /\ Update([routine EXCEPT !.ran = now]) \/ Unsaved
          /\ turn' = [NoTurn EXCEPT !.check = routine.check, !.armed = routine.armed,
                         !.at = IF Head(jobs) = "plain" /\ routine.check # NoCheck
                                THEN "looking" ELSE "working"]
    /\ UNCHANGED <<copy, sent, scan, look, checking, hand, now, stamps, boundVars, own, signedOut>>

\* start_when_free
Waits == ~checking

TurnLooks ==
    /\ turn.at = "looking" /\ Waits
    /\ checking' = TRUE
    /\ turn' = [turn EXCEPT !.at = "checking"]
    /\ UNCHANGED <<rosterVars, scan, look, jobs, hand, now, stamps, boundVars, own, signedOut>>

\* Whatever it found, the turn goes on.
TurnLooked ==
    /\ turn.at = "checking"
    /\ turn' = [turn EXCEPT !.at = "working"]
    /\ \/ \E result \in Results : Checked(turn, result)
       \/ Unsaved /\ checking' = FALSE /\ UNCHANGED <<stamps, own, signedOut>>
    /\ UNCHANGED <<copy, sent, scan, look, jobs, hand, now, boundVars>>

\* model_result reads the runs' streak, and writes it from what it read.
TurnResult ==
    /\ turn.at = "working"
    /\ \E result \in {"well", "other"} \cup Failures :
         turn' = [turn EXCEPT !.at = "ended",
                     !.streak = IF result = "other" THEN routine.health.model
                                ELSE Recorded(routine.health.model, result)]
    /\ UNCHANGED <<rosterVars, scan, look, checking, jobs, hand, now, stamps, boundVars, own, signedOut>>

\* Its end, and finished, which publishes the outcome.
TurnEnds ==
    LET r == IF turn.streak = routine.health.model THEN routine
             ELSE Paused([routine EXCEPT !.health.model = turn.streak,
                                         !.health.stamp = stamps + 1], turn.streak)
    IN /\ turn.at = "ended"
       /\ turn' = NoTurn
       /\ \/ /\ Update(r)
             /\ stamps' = IF r = routine THEN stamps ELSE stamps + 1
             /\ Owned(IF r = routine THEN own ELSE [own EXCEPT !.model = turn.streak.retry])
             /\ SignedOut(r)
          \/ Unsaved /\ UNCHANGED <<stamps, own, signedOut>>
       /\ UNCHANGED <<copy, sent, scan, look, checking, jobs, hand, now, boundVars>>

\* Stop: a check that is stopped says nothing of the routine.
Stop ==
    /\ Call /\ turn.at \in {"looking", "checking", "working"}
    /\ turn' = NoTurn
    /\ checking' = (checking /\ turn.at # "checking")
    /\ Update(routine)
    /\ UNCHANGED <<copy, sent, scan, look, jobs, hand, now, stamps, reboots, own, signedOut>>

-----------------------------------------------------------------------------
(* The user's changes, here and on another Device.                         *)

\* set_enabled: a resume arms it, and counts from now.
Enabled(r, on) ==
    IF on /\ ~r.on
    THEN [r EXCEPT !.on = TRUE, !.reason = "none", !.armed = stamps + 1, !.since = now,
                   !.health = [r.health EXCEPT !.check = NoStreak, !.model = NoStreak]]
    ELSE [r EXCEPT !.on = on, !.reason = "none"]

\* edit_routine with another check: its health begins anew.
Edited(r, c) == [r EXCEPT !.check = c, !.health = NoHealth, !.armed = stamps + 1, !.since = now]

Changed(r) ==
    {Enabled(r, on) : on \in BOOLEAN} \cup
    (IF "edit" \in Occurs THEN {Edited(r, c) : c \in (Scripts \cup {NoCheck}) \ {r.check}} ELSE {})

ChangedHere ==
    /\ Call
    /\ \E r \in Changed(routine) : Update(r)
    /\ stamps' = stamps + 1
    /\ Owned(own) /\ Answered
    /\ UNCHANGED <<copy, sent, runVars, now, reboots>>

\* A change of something else sends the routine along as well.
ChangedThere ==
    /\ "roster" \in Occurs /\ Call
    /\ \E r \in Changed(copy) \cup {copy} : copy' = r /\ sent' = <<r>>
    /\ stamps' = stamps + 1
    /\ UNCHANGED <<routine, out, runVars, now, reboots, own, signedOut>>

\* The Device takes the Runner's roster, which may have superseded its own on the relay.
PulledThere ==
    /\ out # <<>>
    /\ copy' = out[1] /\ out' = <<>>
    /\ sent' \in {sent, <<>>}
    /\ UNCHANGED <<routine, runVars, now, stamps, boundVars, own, signedOut>>

\* Slip: an older roster brings back an older due time.
KeptTakenNot(held, r) == r

KeptTaken(held, r) == IF held.taken > r.taken THEN [r EXCEPT !.taken = held.taken] ELSE r

KeptHealth(held, r) ==
    IF held.health.stamp > r.health.stamp THEN [r EXCEPT !.health = held.health] ELSE r

KeptPause(held, r) ==
    IF held.reason = "authentication" /\ r.on THEN [r EXCEPT !.on = FALSE, !.reason = held.reason] ELSE r

\* keep_checks: unless the roster armed it anew, the Runner's newest record stays.
KeepChecks(held, r) ==
    IF r.armed <= held.armed THEN KeptPause(held, KeptHealth(held, KeptTaken(held, r))) ELSE r

\* apply_roster; one that left out what the Runner keeps is answered with its own, and it may
\* have superseded the Runner's last.
PulledHere ==
    LET r == KeepChecks(routine, sent[1])
    IN /\ sent # <<>> /\ sent' = <<>>
       /\ "older" \in Occurs \/ sent[1].armed >= routine.armed
       /\ routine' = r
       /\ IF r # sent[1] THEN out' = <<r>> ELSE out' \in {out, <<>>}
       /\ Owned(own) /\ Answered
       /\ UNCHANGED <<copy, runVars, now, stamps, boundVars>>

Pass ==
    /\ now < MaxTime /\ now' = now + 1
    /\ UNCHANGED <<rosterVars, runVars, stamps, boundVars, own, signedOut>>

\* The Runner stops and starts: a run cut short is not run again.
Restart ==
    /\ reboots < MaxRestarts /\ reboots' = reboots + 1
    /\ scan' = NoScan /\ look' = NoLook /\ checking' = FALSE
    /\ jobs' = <<>> /\ turn' = NoTurn /\ hand' = FALSE
    /\ UNCHANGED <<rosterVars, now, stamps, requests, own, signedOut>>

Next ==
    \/ TickRead \/ TickAway \/ TickTake \/ TickStart
    \/ LookEnds \/ LookRuns
    \/ RunNowAsked \/ RunNowStarts \/ RunSent
    \/ Begin \/ TurnLooks \/ TurnLooked \/ TurnResult \/ TurnEnds \/ Stop
    \/ ChangedHere \/ ChangedThere \/ PulledThere \/ PulledHere
    \/ Pass \/ Restart

Spec == Init /\ [][Next]_vars

-----------------------------------------------------------------------------
(* Properties.                                                             *)

Streaks  == [fails : Nat, misses : Nat, retry : Nat]
Routine == [on : BOOLEAN, reason : {"none", "away", "authentication"}, armed : Nat, since : Nat,
            taken : Nat, ran : Nat, check : Scripts \cup {NoCheck}, policy : {"skip", "coalesce"},
            health : [stamp : Nat, at : Nat, check : Streaks, model : Streaks]]

\* Every variable has its type.
TypeOK ==
    /\ routine \in Routine /\ copy \in Routine
    /\ out \in Seq(Routine) /\ sent \in Seq(Routine) /\ Len(out) <= 1 /\ Len(sent) <= 1
    /\ scan \in [at : {"idle", "due", "taken"}, check : Scripts \cup {NoCheck}, armed : Nat, late : BOOLEAN,
                 time : Nat]
    /\ look \in [at : {"idle", "running", "ended"}, check : Scripts \cup {NoCheck}, armed : Nat,
                 result : Results \cup {"none"}]
    /\ turn \in [at : {"idle", "looking", "checking", "working", "ended"},
                 check : Scripts \cup {NoCheck}, armed : Nat, streak : Streaks]
    /\ jobs \in Seq({"plain", "found"})
    /\ checking \in BOOLEAN /\ hand \in BOOLEAN
    /\ {now, stamps, requests, reboots, signedOut} \subseteq Nat
    /\ own \in [taken : Nat \cup {-1}, check : Nat, model : Nat]

\* A due time is taken once, a failed check or run is tried again no sooner than its retry, and
\* neither a restart nor a roster written from an older copy brings it forward.
TakenOnce ==
    [][scan.at = "idle" /\ scan'.at = "due" =>
          now > own.taken /\ now >= own.check /\ now >= own.model]_vars

\* After three failed sign-ins nothing but a resume or an edit turns the schedule on again,
\* whatever the rosters that are still on their way say of it.
SignedOutStays == signedOut # 0 => ~routine.on
=============================================================================
