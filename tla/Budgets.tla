------------------------------ MODULE Budgets ------------------------------
(***************************************************************************)
(* The ledger of limits on a Runner (crates/cli/src/budgets.rs,            *)
(* budgets/runtime.rs).  A turn counts toward its own limits, copied from  *)
(* its chat's when it starts; a run of a routine, and a check, toward the  *)
(* routine's, and a check inside a turn toward both.  A coding agent counts *)
(* its time, after its turn too, toward what the turn counted toward.      *)
(*                                                                         *)
(* Tokens are reserved before a model call and settled after it, as money  *)
(* is; plugin calls are counted before they are made, as retries are.      *)
(***************************************************************************)
EXTENDS Integers, Sequences, FiniteSets, FiniteSetsExt

CONSTANTS Jobs,        \* turns of one chat, by their Job
          Chat,        \* the scope of that chat's limits
          Routine,     \* the scope of a routine
          Turns,       \* bound: attempts to run a Job's turn
          Runs,        \* bound: runs of the routine, and its checks outside a turn
          Checks,      \* bound: checks of the routine inside a turn
          Holds,       \* bound: times a coding agent of a turn works
          ModelCalls,  \* bound: model calls
          Output,      \* the output a model call asks for
          Limits,      \* the limits a user may set
          Requests,    \* bound: requests to resume, each delivered any number of times
          MaxTime,     \* bound: the time
          MaxPlugin,   \* bound: plugin calls counted
          MaxSets,     \* bound: changes of limits
          MaxRestarts, \* bound: restarts
          Occurs       \* what else may happen: a subset of Events

\* "unsaved": the store refuses a write.
Events == {"unsaved"}

None   == -1    \* no limit, no time
Input  == 1     \* the tokens a model call sends
Past   == 1     \* bound: the tokens a model call uses past those it reserved
NoLimits == [tokens |-> None, time |-> None, calls |-> None]
Unused   == [tokens |-> 0, time |-> 0, calls |-> 0]

Works  == Turns \cup Runs \cup Checks \cup Holds
Scopes == Jobs \cup {Chat, Routine}

BudgetConstants ==
    /\ Chat # Routine /\ {Chat, Routine} \cap Jobs = {}
    /\ Limits \subseteq [{"tokens", "time", "calls"} -> Nat \cup {None}]
    /\ IsFiniteSet(ModelCalls)
    /\ Output \in Nat \ {0} /\ {MaxTime, MaxPlugin, MaxSets, MaxRestarts} \subseteq Nat
    /\ Occurs \subseteq Events

VARIABLES rec,       \* rec[s]: the ledger's record of s, or Absent
          receipts,  \* requests to resume that were granted
          unwritten, \* Jobs the user has yet to write
          resumed,   \* Jobs a resume started, that wait for the chat's lock
          work,      \* work[w]: "idle", "admitted", "running", "ended", or "over":
             \* refused, or cut off by a restart
          keys,      \* keys[w]: the scopes w counts toward
          deadline,  \* deadline[w]: when its time is used up
          call,      \* call[c]: "idle", "open" or "done"
          now,
          sets,      \* changes of limits so far
          restarts,  \* restarts so far
          spent,     \* history: the tokens calls of s have used, each up to what it reserved
          ran,       \* history: the time work of s has run since its limits were granted
          renewed    \* history: the requests that granted s its limits again

ledger == <<rec, receipts>>
works  == <<work, keys, deadline>>
counts == <<now, sets, restarts>>
vars   == <<ledger, unwritten, resumed, works, call, counts, spent, ran, renewed>>

Absent == [state |-> "absent"]
Fresh(l) == [limits |-> l, used |-> Unused, state |-> "ready", started |-> None,
             active |-> 0, pending |-> [c \in ModelCalls |-> 0]]

Present(r)   == r.state # "absent"
IsStopped(r) == r.state \in {"tokens", "time", "calls", "interrupted"}
IsActive(r)  == r.started # None \/ \E c \in ModelCalls : r.pending[c] > 0
Reserved(r)  == MapThenSumSet(LAMBDA c : r.pending[c], ModelCalls)
Elapsed(r)   == IF r.started = None THEN 0 ELSE now - r.started

Over(limit, n) == limit # None /\ n >= limit

\* check: what refuses work of r, or "none".
Refusal(r) ==
    CASE IsStopped(r) -> r.state
      [] ~IsStopped(r) /\ Over(r.limits.tokens, r.used.tokens) -> "tokens"
      [] OTHER -> IF Over(r.limits.time, r.used.time + Elapsed(r)) THEN "time"
                  ELSE IF r.limits.calls > 0 /\ Over(r.limits.calls, r.used.calls) THEN "calls"
                  ELSE "none"

\* The first refusal among scopes K, a turn's own limits before the routine's.
First(K, why) ==
    LET refusing == {k \in K : why[k] # "none"} IN
    CASE refusing = {} -> "none"
      [] refusing \cap Jobs # {} -> why[CHOOSE j \in refusing \cap Jobs : TRUE]
      [] OTHER -> why[Routine]

\* propagate_exhaustion: a stop in one scope stops all that the work counts toward.
Stopped(rs, K, why) ==
    [s \in Scopes |-> IF s \in K THEN [rs[s] EXCEPT !.state = why] ELSE rs[s]]

\* prune: limits the user set, turns that stopped or wait, and work in flight are kept.
Pruned(rs) ==
    [s \in Scopes |->
        IF Present(rs[s]) /\ ~IsActive(rs[s])
           /\ IF s \in Jobs THEN rs[s].state = "complete"
              ELSE ~IsStopped(rs[s]) /\ rs[s].limits = NoLimits
        THEN Absent ELSE rs[s]]

Init ==
    /\ rec \in [Scopes -> {Absent} \cup {Fresh(l) : l \in Limits}]
    /\ \A j \in Jobs : rec[j] = Absent
    /\ receipts = {}
    /\ unwritten = Jobs
    /\ resumed = {}
    /\ work = [w \in Works |-> "idle"]
    /\ keys = [w \in Works |-> {}]
    /\ deadline = [w \in Works |-> None]
    /\ call = [c \in ModelCalls |-> "idle"]
    /\ now = 0 /\ sets = 0 /\ restarts = 0
    /\ spent = [s \in Scopes |-> 0]
    /\ ran = [s \in Scopes |-> 0]
    /\ renewed = [s \in Scopes |-> {}]

-----------------------------------------------------------------------------
(* Work.                                                                   *)

\* A history of a record starts with it.
SinceMade(h) ==
    [s \in Scopes |-> IF Present(rec'[s]) /\ ~Present(rec[s]) THEN 0 ELSE h[s]]

\* check_scopes over the wanted scopes that are kept, and the context of w.
Admit(w, rs, wanted) ==
    LET K   == {k \in wanted : Present(rs[k])}
        why == First(K, [k \in K |-> Refusal(rs[k])])
    IN  /\ keys' = [keys EXCEPT ![w] = K]
        /\ rec' = IF why = "none" THEN rs ELSE Stopped(rs, K, why)
        /\ work' = [work EXCEPT ![w] = IF why = "none" THEN "admitted" ELSE "over"]
        /\ spent' = SinceMade(spent)
        /\ ran' = SinceMade(ran)
        /\ UNCHANGED <<receipts, deadline, call, counts, renewed>>

\* A new turn replaces those of its chat that stopped.
Replaced(j) ==
    IF Present(rec[j]) THEN rec
    ELSE [s \in Scopes |-> IF s \in Jobs /\ Present(rec[s]) /\ ~IsActive(rec[s])
                           THEN Absent ELSE rec[s]]

Limited(rs, j) ==
    IF ~Present(rs[j]) /\ Present(rs[Chat]) /\ rs[Chat].limits # NoLimits
    THEN [rs EXCEPT ![j] = Fresh(rs[Chat].limits)] ELSE rs

\* for_job: of a turn, once it has the chat's lock.
Turn(t, j) ==
    /\ work[t] = "idle"
    /\ \A u \in Turns : work[u] \notin {"admitted", "running"}
    /\ j \in unwritten \cup resumed
    /\ unwritten' = unwritten \ {j}
    /\ resumed' = resumed \ {j}
    /\ Admit(t, Pruned(Limited(Replaced(j), j)), {j})

\* for_job of a run, or for_routine of a check outside any turn.
Run(w) ==
    /\ work[w] = "idle"
    /\ \E rs \in {rec, Pruned(rec)} : Admit(w, rs, {Routine})
    /\ UNCHANGED <<unwritten, resumed>>

\* for_routine: a check of the routine inside a turn.
Check(w, t) ==
    /\ work[w] = "idle" /\ work[t] = "running"
    /\ Admit(w, rec, keys[t] \cup {Routine})
    /\ UNCHANGED <<unwritten, resumed>>

\* BudgetContext::hold: the agent works on for what is kept of its turn's scopes.
Hold(w, t) ==
    /\ work[w] = "idle" /\ work[t] \in {"running", "ended"} /\ keys[t] # {}
    /\ keys' = [keys EXCEPT ![w] = {k \in keys[t] : Present(rec[k])}]
    /\ work' = [work EXCEPT ![w] = "admitted"]
    /\ UNCHANGED <<ledger, unwritten, resumed, deadline, call, counts, spent, ran, renewed>>

\* Slip: work beside other work of the scope is not counted.
BegunOnce(r) == [r EXCEPT !.started = IF @ = None THEN now ELSE @, !.active = 1,
                          !.state = "running"]

Begun(r) == [r EXCEPT !.started = IF @ = None THEN now ELSE @, !.active = @ + 1,
                      !.state = "running"]

TimeLeft(K) == {rec[k].limits.time - rec[k].used.time - Elapsed(rec[k]) :
                   k \in {k \in K : rec[k].limits.time # None}}

\* start_runtime.  A scope that is no longer kept refuses the work, and stops nothing.
Start(w) ==
    LET K   == keys[w]
        why == First({k \in K : Present(rec[k])},
                     [k \in K |-> IF Present(rec[k]) THEN Refusal(rec[k]) ELSE "none"])
        gone == \E k \in K : ~Present(rec[k])
    IN  /\ work[w] = "admitted"
        /\ \/ /\ ~gone /\ why = "none"
              /\ rec' = [s \in Scopes |-> IF s \in K THEN Begun(rec[s]) ELSE rec[s]]
              /\ work' = [work EXCEPT ![w] = "running"]
              /\ deadline' = [deadline EXCEPT ![w] =
                                 IF TimeLeft(K) = {} THEN None ELSE now + Min(TimeLeft(K))]
           \/ /\ why # "none"
              /\ rec' = Stopped(rec, {k \in K : Present(rec[k])}, why)
              /\ work' = [work EXCEPT ![w] = "over"]
              /\ UNCHANGED deadline
           \/ /\ gone
              /\ work' = [work EXCEPT ![w] = "over"]
              /\ UNCHANGED <<rec, deadline>>
        /\ UNCHANGED <<receipts, unwritten, resumed, keys, call, counts, spent, ran, renewed>>

\* One work less; with the last the time is recorded.
Left(r) ==
    IF r.active = 1
    THEN [r EXCEPT !.active = 0, !.used.time = @ + Elapsed(r), !.started = None]
    ELSE [r EXCEPT !.active = @ - 1]

\* Of end_runtime for one scope s: timed, when the deadline ended the work.
Closed(s, r, timed) ==
    LET l == Left(r) IN
    CASE timed /\ Over(l.limits.time, l.used.time) -> [l EXCEPT !.state = "time"]
      [] ~(timed /\ Over(l.limits.time, l.used.time)) /\ l.state = "running" /\ l.active = 0 ->
             [l EXCEPT !.state = IF s \in Jobs THEN "complete" ELSE "ready"]
      [] OTHER -> l

\* end_runtime: a turn that ended on its own is let go.
Ended(K, timed) ==
    LET closed == [s \in Scopes |-> IF s \in K THEN Closed(s, rec[s], timed) ELSE rec[s]]
        spread == IF timed /\ \E k \in K : closed[k].state = "time"
                  THEN Stopped(closed, K, "time") ELSE closed
    IN  [s \in Scopes |-> IF s \in Jobs /\ Present(spread[s]) /\ spread[s].state = "complete"
                             /\ ~IsActive(spread[s]) THEN Absent ELSE spread[s]]

\* A check inside a turn ends before it; work is cut off at its deadline, and
\* ends in time of its own; a hold always ends as at a deadline.
MayEnd(w) ==
    /\ work[w] = "running"
    /\ w \in Turns => \A k \in Checks : work[k] \notin {"admitted", "running"}

Times(w) ==
    IF w \in Holds THEN {TRUE}
    ELSE {timed \in BOOLEAN : /\ timed => deadline[w] # None /\ now >= deadline[w]
                              /\ ~timed => deadline[w] = None \/ now <= deadline[w]}

End(w) ==
    /\ MayEnd(w)
    /\ \E timed \in Times(w) : rec' = Ended(keys[w], timed)
    /\ work' = [work EXCEPT ![w] = "ended"]
    /\ UNCHANGED <<receipts, unwritten, resumed, keys, deadline, call, counts, spent, ran, renewed>>

\* The store refuses what the end of a work, or its admission, would record:
\* the work does not start, or has ended, and the ledger stays as it was.
Unsaved(w) ==
    /\ "unsaved" \in Occurs
    /\ work[w] = "admitted" \/ MayEnd(w)
    /\ work' = [work EXCEPT ![w] = IF @ = "admitted" THEN "over" ELSE "ended"]
    /\ UNCHANGED <<ledger, unwritten, resumed, keys, deadline, call, counts, spent, ran, renewed>>

-----------------------------------------------------------------------------
(* Calls.                                                                  *)

\* Slip: what other calls have reserved is not looked at.
RoomUnreserved(r) == r.limits.tokens - r.used.tokens

Room(r) == r.limits.tokens - r.used.tokens - Reserved(r)

\* reserve: the output is cut to what every scope has room for.
Reserve(w, c) ==
    LET K == keys[w]
        capped == {k \in K : rec[k].limits.tokens # None}
        why == First(K, [k \in K |-> IF Refusal(rec[k]) = "none" /\ k \in capped
                                         /\ Room(rec[k]) <= Input
                                     THEN "tokens" ELSE Refusal(rec[k])])
        output == Min({Output} \cup {Room(rec[k]) - Input : k \in capped})
    IN  /\ work[w] = "running" /\ w \notin Holds /\ K # {}
        /\ call[c] = "idle"
        /\ IF why = "none"
           THEN /\ rec' = [s \in Scopes |-> IF s \in K
                              THEN [rec[s] EXCEPT !.pending[c] = Input + output] ELSE rec[s]]
                /\ call' = [call EXCEPT ![c] = "open"]
           ELSE rec' = Stopped(rec, K, why) /\ UNCHANGED call
        /\ UNCHANGED <<receipts, unwritten, resumed, works, counts, spent, ran, renewed>>

Charged(c) == {s \in Scopes : Present(rec[s]) /\ rec[s].pending[c] > 0}

SpentBy(c, n) ==
    [s \in Scopes |-> spent[s] + (IF s \in Charged(c) THEN Min({n, rec[s].pending[c]}) ELSE 0)]

\* settle: what the call used, or an estimate of it, also past what it reserved.
Settle(c) ==
    /\ call[c] = "open"
    /\ \E n \in 0..Output + Input + Past :
          /\ \A s \in Charged(c) : n <= rec[s].pending[c] + Past
          /\ rec' = [s \in Scopes |-> IF s \in Charged(c)
                        THEN [rec[s] EXCEPT !.pending[c] = 0, !.used.tokens = @ + n]
                        ELSE rec[s]]
          /\ spent' = SpentBy(c, n)
    /\ call' = [call EXCEPT ![c] = "done"]
    /\ UNCHANGED <<receipts, unwritten, resumed, works, counts, ran, renewed>>

\* The store refuses the settlement: the reservation stays.
SettleUnsaved(c) ==
    /\ "unsaved" \in Occurs /\ call[c] = "open"
    /\ \E n \in 0..Output + Input : spent' = SpentBy(c, n)
    /\ call' = [call EXCEPT ![c] = "done"]
    /\ UNCHANGED <<ledger, unwritten, resumed, works, counts, ran, renewed>>

\* connector_call, and a refusal of any other call (check).
ConnectorCall(w) ==
    LET K == keys[w]
        why == First(K, [k \in K |-> IF Refusal(rec[k]) = "none"
                                         /\ Over(rec[k].limits.calls, rec[k].used.calls)
                                     THEN "calls" ELSE Refusal(rec[k])])
    IN  /\ work[w] = "running" /\ w \notin Holds
        /\ \A k \in K : rec[k].used.calls < MaxPlugin
        /\ rec' = IF why = "none"
                  THEN [s \in Scopes |-> IF s \in K THEN [rec[s] EXCEPT !.used.calls = @ + 1]
                                         ELSE rec[s]]
                  ELSE Stopped(rec, K, why)
        /\ UNCHANGED <<receipts, unwritten, resumed, works, call, counts, spent, ran, renewed>>

\* admit: the scheduler and run_now look at the routine before they start it.
Look ==
    /\ Present(rec[Routine]) /\ Refusal(rec[Routine]) # "none"
    /\ rec' = [rec EXCEPT ![Routine].state = Refusal(rec[Routine])]
    /\ UNCHANGED <<receipts, unwritten, resumed, works, call, counts, spent, ran, renewed>>

-----------------------------------------------------------------------------
(* The user, and the process.                                              *)

\* budgets.set: it never resumes.  A turn has limits only if it started with some.
Set(s) ==
    /\ sets < MaxSets
    /\ s \in Jobs => Present(rec[s])
    /\ \E l \in Limits :
          /\ Present(rec[s]) => l # rec[s].limits
          /\ rec' = Pruned([rec EXCEPT ![s] = IF Present(@) THEN [@ EXCEPT !.limits = l]
                                              ELSE Fresh(l)])
    /\ sets' = sets + 1
    /\ spent' = SinceMade(spent)
    /\ ran' = SinceMade(ran)
    /\ UNCHANGED <<receipts, unwritten, resumed, works, call, now, restarts, renewed>>

\* A request whose receipt is kept is answered with it.
New(q) == q \notin receipts

\* budgets.resume with renew or without, and with run.
Resume(q, s, renew) ==
    LET r == [rec[s] EXCEPT !.used = IF renew THEN Unused ELSE @, !.state = "ready"] IN
    /\ New(q)
    /\ Present(rec[s]) /\ ~IsActive(rec[s])
    /\ rec' = [rec EXCEPT ![s] = IF Refusal(r) = "none" THEN r
                                 ELSE [r EXCEPT !.state = Refusal(r)]]
    /\ ran' = [ran EXCEPT ![s] = IF renew THEN 0 ELSE @]
    /\ renewed' = [renewed EXCEPT ![s] = IF renew THEN @ \cup {q} ELSE @]
    /\ IF Refusal(r) = "none"
       THEN /\ receipts' = receipts \cup {q}
            /\ resumed' = IF s \in Jobs THEN resumed \cup {s} ELSE resumed
       ELSE UNCHANGED <<receipts, resumed>>
    /\ UNCHANGED <<unwritten, works, call, counts, spent>>

Spent(r) == [r EXCEPT !.used.tokens = @ + Reserved(r), !.pending = [c \in ModelCalls |-> 0]]

\* load: of one record.
Loaded(s, r) ==
    LET l == Spent(r) IN
    IF l.started = None THEN l
    ELSE [l EXCEPT !.active = 0, !.used.time = @ + Elapsed(l), !.started = None,
                   !.state = IF s \in Jobs THEN "interrupted"
                             ELSE IF @ = "running" THEN "ready" ELSE @]

\* The process stops and the next one reads the ledger.  What calls in flight
\* have used is not known: at most what they reserved.
Restart ==
    /\ restarts < MaxRestarts
    /\ rec' = [s \in Scopes |-> IF Present(rec[s]) THEN Loaded(s, rec[s]) ELSE Absent]
    /\ spent' = [s \in Scopes |->
                    spent[s] + (IF Present(rec[s])
                                THEN MapThenSumSet(LAMBDA c : IF call[c] = "open"
                                                              THEN rec[s].pending[c] ELSE 0,
                                                   ModelCalls)
                                ELSE 0)]
    /\ work' = [w \in Works |-> IF work[w] = "idle" THEN "idle" ELSE "over"]
    /\ call' = [c \in ModelCalls |-> IF call[c] = "idle" THEN "idle" ELSE "done"]
    /\ resumed' = {}
    /\ restarts' = restarts + 1
    /\ UNCHANGED <<receipts, unwritten, keys, deadline, now, sets, ran, renewed>>

\* Time passes: it is run time of a scope while any work counts toward it.
Pass ==
    /\ now < MaxTime
    /\ now' = now + 1
    /\ ran' = [s \in Scopes |->
                  ran[s] + (IF \E w \in Works : work[w] = "running" /\ s \in keys[w] THEN 1 ELSE 0)]
    /\ UNCHANGED <<ledger, unwritten, resumed, works, call, sets, restarts, spent, renewed>>

Next ==
    \/ \E t \in Turns, j \in Jobs : Turn(t, j)
    \/ \E w \in Runs : Run(w)
    \/ \E t \in Turns : (\E w \in Checks : Check(w, t)) \/ (\E w \in Holds : Hold(w, t))
    \/ \E w \in Works : \/ Start(w) \/ End(w) \/ Unsaved(w) \/ ConnectorCall(w)
                        \/ \E c \in ModelCalls : Reserve(w, c)
    \/ \E c \in ModelCalls : Settle(c) \/ SettleUnsaved(c)
    \/ \E s \in Scopes : Set(s) \/ \E q \in Requests, renew \in BOOLEAN : Resume(q, s, renew)
    \/ Look \/ Restart \/ Pass

Spec == Init /\ [][Next]_vars

-----------------------------------------------------------------------------
(* Properties.                                                             *)

States == {"ready", "running", "complete", "tokens", "time", "calls", "interrupted"}

TypeOK ==
    /\ \A s \in Scopes : Present(rec[s]) =>
          /\ rec[s].state \in States
          /\ rec[s].active \in Nat /\ rec[s].started \in 0..now \cup {None}
          /\ rec[s].pending \in [ModelCalls -> 0..Input + Output]
    /\ work \in [Works -> {"idle", "admitted", "running", "ended", "over"}]
    /\ keys \in [Works -> SUBSET Scopes]

CountedIn(s) == {w \in Works : work[w] = "running" /\ s \in keys[w]}

\* However turns, runs, checks and holds begin, overlap, end or are cut off, a
\* scope counts exactly those at work: one too many would refuse its resume and
\* run its time down for good, and one too few let its record go under them.
CountsItsWork ==
    \A s \in Scopes :
        /\ CountedIn(s) # {} => Present(rec[s])
        /\ Present(rec[s]) => /\ rec[s].active = Cardinality(CountedIn(s))
                              /\ (rec[s].started # None) = (CountedIn(s) # {})

\* Run time is counted once, whatever overlaps, and none of it is lost.
TimeCounted ==
    \A s \in Scopes : Present(rec[s]) => rec[s].used.time + Elapsed(rec[s]) = ran[s]

\* What calls used of a scope never exceeds its limit, as often as it was
\* granted, but for what a call uses past its own reservation: not by calls at
\* once, not after a restart, and a request delivered again grants nothing.
\* While the user leaves the limits alone.
WithinGrants ==
    \A s \in Scopes :
        Present(rec[s]) /\ sets = 0 /\ rec[s].limits.tokens # None =>
            spent[s] <= rec[s].limits.tokens * (1 + Cardinality(renewed[s] \cap Requests))
=============================================================================
