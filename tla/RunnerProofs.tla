---------------------------- MODULE RunnerProofs ----------------------------
(***************************************************************************)
(* Proofs about a Runner's components that share no state: a routine, for  *)
(* any schedules, checks, rosters, calls and restarts; the connector       *)
(* limits, for any accounts, calls, settings and restarts and a store that *)
(* may refuse writes; and the ledger of limits, for any turns, runs,       *)
(* checks, holds, model calls, limits, requests to resume and restarts.    *)
(*                                                                         *)
(* A routine.  What makes its due times pass once is that the Runner's own *)
(* record keeps what it wrote of this arming, over every roster, for which *)
(* every copy of the same arming with no older health has to keep it too.  *)
(* What keeps it paused after its third failed sign-in is that no copy of  *)
(* the same arming turns it on over the Runner's own reason.               *)
(*                                                                         *)
(* The connector limits.  What a bucket keeps covers every start of the    *)
(* window, in memory and in the store alike; what it counts as running are *)
(* the calls that run; and no wait the service asked for is shortened.     *)
(*                                                                         *)
(* The ledger.  It sums what its calls have reserved, so the proofs rest   *)
(* on what a sum over a finite set is: by induction over the subsets,      *)
(* which the order of strict inclusion, being well founded, allows.  A     *)
(* scope counts exactly its work, with its time, as long as the store      *)
(* takes what the end of a work records.  What calls use stays within the  *)
(* limit, as often as it was granted, whatever the store refuses: what was *)
(* spent, and what open calls may spend, is within the grants, and all of  *)
(* it but what the record has as used or reserved is within those before   *)
(* the last one; a request without a receipt was refused for a limit of    *)
(* nothing, so that it granted nothing, and may be delivered again.        *)
(***************************************************************************)
EXTENDS Routines, FiniteSetTheorems, WellFoundedInduction, TLAPS

\* The connector limits.  The clock and the bounds have the names they have above.
CONSTANTS Accounts, Service, Calls, AccountOf, Window, Settings, MaxSets
VARIABLES limits, starts, active, until, stored, call, sets, restarts, began, guided

Admits == INSTANCE ConnectorLimits

\* The budgets, with the same clock, bounds and restarts.
CONSTANTS Jobs, Chat, Regular, Turns, Runs, Checks, Holds, ModelCalls, Output, Limits,
          Requests, MaxPlugin
VARIABLES rec, receipts, unwritten, resumed, work, keys, deadline, spent, ran, renewed

Ledger == INSTANCE Budgets WITH Routine <- Regular

-----------------------------------------------------------------------------
(* Helpers: the largest and smallest of a few numbers, and the back-off.     *)

LEMMA MaxOfFour ==
    ASSUME NEW a \in Int, NEW b \in Int, NEW c \in Int, NEW d \in Int
    PROVE  /\ Max({a, b, c, d}) \in {a, b, c, d}
           /\ Max({a, b, c, d}) >= a /\ Max({a, b, c, d}) >= b
           /\ Max({a, b, c, d}) >= c /\ Max({a, b, c, d}) >= d
<1>1. \E x \in {a, b, c, d} : \A y \in {a, b, c, d} : x >= y
  OBVIOUS
<1> QED BY <1>1 DEF Max

LEMMA MaxOfTwo ==
    ASSUME NEW a \in Int, NEW b \in Int
    PROVE  Max({a, b}) \in {a, b} /\ Max({a, b}) >= a /\ Max({a, b}) >= b
<1>1. \E x \in {a, b} : \A y \in {a, b} : x >= y
  OBVIOUS
<1> QED BY <1>1 DEF Max

LEMMA MinOfTwo ==
    ASSUME NEW a \in Int, NEW b \in Int
    PROVE  Min({a, b}) \in {a, b} /\ Min({a, b}) <= a /\ Min({a, b}) <= b
<1>1. \E x \in {a, b} : \A y \in {a, b} : x <= y
  OBVIOUS
<1> QED BY <1>1 DEF Min

LEMMA BackoffNat == ASSUME NEW n \in Nat, n > 0 PROVE Backoff(n) \in Nat
<1>1. Min({n, 8}) \in Int /\ Min({n, 8}) >= 1 /\ Min({n, 8}) <= 8
  BY MinOfTwo
<1>2. \A i \in Int : i >= 1 /\ i <= 8 => i \in {1, 2, 3, 4, 5, 6, 7, 8}
  OBVIOUS
<1>3. Min({n, 8}) \in {1, 2, 3, 4, 5, 6, 7, 8}
  BY <1>1, <1>2
<1> QED BY <1>3 DEF Backoff

\* A streak is one again whatever a try ended with.
LEMMA RecordedStreak ==
    ASSUME NEW s \in Streaks, NEW result, now \in Nat PROVE Recorded(s, result) \in Streaks
<1>1. s.fails + 1 \in Nat /\ s.misses + 1 \in Nat /\ s.fails + 1 > 0 /\ s.misses + 1 > 0
  BY DEF Streaks
<1>2. now + Backoff(s.fails + 1) \in Nat /\ now + Backoff(s.misses + 1) \in Nat
  BY <1>1, BackoffNat
<1> QED BY <1>1, <1>2 DEF Recorded, Streaks, NoStreak

-----------------------------------------------------------------------------
(* Types: what a change makes of a routine is a routine.                    *)

Health == [stamp : Nat, at : Nat, check : Streaks, model : Streaks]

LEMMA Parts ==
    ASSUME NEW r \in Routine
    PROVE  /\ r.on \in BOOLEAN /\ r.reason \in {"none", "away", "authentication"}
           /\ r.armed \in Nat /\ r.since \in Nat /\ r.taken \in Nat /\ r.ran \in Nat
           /\ r.check \in Scripts \cup {NoCheck} /\ r.health \in Health
           /\ r.health.check \in Streaks /\ r.health.model \in Streaks
           /\ r.health.stamp \in Nat /\ r.health.at \in Nat
           /\ r.health.check.retry \in Nat /\ r.health.model.retry \in Nat
BY DEF Routine, Health, Streaks

LEMMA Founds ==
    NoStreak \in Streaks /\ NoHealth \in Health /\ NoHealth.stamp = 0
BY DEF NoStreak, NoHealth, Streaks, Health

\* The changes a record goes through.
LEMMA Changes ==
    ASSUME NEW r \in Routine, stamps \in Nat, now \in Nat, scan.time \in Nat
    PROVE  /\ [r EXCEPT !.on = FALSE, !.reason = "away"] \in Routine
           /\ [r EXCEPT !.ran = now] \in Routine
           /\ Taken(r) \in Routine
           /\ \A h \in Health : [r EXCEPT !.health = h] \in Routine
           /\ \A s \in Streaks : Paused(r, s) \in Routine
           /\ \A on \in BOOLEAN : Enabled(r, on) \in Routine
           /\ \A c \in Scripts \cup {NoCheck} : Edited(r, c) \in Routine
<1> USE Parts, Founds
<1>1. /\ [r EXCEPT !.on = FALSE, !.reason = "away"] \in Routine
      /\ [r EXCEPT !.ran = now] \in Routine
      /\ Taken(r) \in Routine
  BY DEF Routine, Taken
<1>2. \A h \in Health : [r EXCEPT !.health = h] \in Routine
  BY DEF Routine, Health
<1>3. \A s \in Streaks : Paused(r, s) \in Routine
  BY DEF Routine, Paused
<1>4. ASSUME NEW on \in BOOLEAN PROVE Enabled(r, on) \in Routine
  <2>1. [r.health EXCEPT !.check = NoStreak, !.model = NoStreak] \in Health
    BY DEF Health
  <2>2. stamps + 1 \in Nat
    OBVIOUS
  <2> QED BY <2>1, <2>2 DEF Enabled, Routine, Health
<1>5. ASSUME NEW c \in Scripts \cup {NoCheck} PROVE Edited(r, c) \in Routine
  <2>1. stamps + 1 \in Nat /\ NoHealth \in [stamp : Nat, at : Nat, check : Streaks, model : Streaks]
    BY DEF Health
  <2> QED BY <2>1 DEF Edited, Routine
<1> QED BY <1>1, <1>2, <1>3, <1>4, <1>5

LEMMA KeptTypes ==
    ASSUME NEW held \in Routine, NEW r \in Routine PROVE KeepChecks(held, r) \in Routine
<1>1. KeptTaken(held, r) \in Routine
  BY Parts DEF KeptTaken, Routine
<1>2. \A x \in Routine : KeptHealth(held, x) \in Routine
  BY Parts DEF KeptHealth, Routine, Health
<1>3. \A x \in Routine : KeptPause(held, x) \in Routine
  BY Parts DEF KeptPause, Routine
<1> QED BY <1>1, <1>2, <1>3 DEF KeepChecks

\* A roster on its way is none or one.
AtMostOne(q) == q \in Seq(Routine) /\ Len(q) <= 1

LEMMA One == AtMostOne(<<>>) /\ \A r \in Routine : AtMostOne(<<r>>)
BY DEF AtMostOne

LEMMA First ==
    ASSUME NEW q, AtMostOne(q), q # <<>> PROVE q[1] \in Routine /\ DOMAIN q = {1} /\ Len(q) = 1
<1>1. q \in Seq(Routine) /\ Len(q) <= 1 /\ Len(q) \in Nat /\ Len(q) # 0
  BY DEF AtMostOne
<1>2. Len(q) = 1
  <2>1. \A n \in Nat : n <= 1 /\ n # 0 => n = 1
    OBVIOUS
  <2> QED BY <1>1, <2>1
<1>3. DOMAIN q = 1..1 /\ 1..1 = {1}
  BY <1>1, <1>2
<1>4. q[1] \in Routine
  BY <1>1, <1>2
<1> QED BY <1>2, <1>3, <1>4

RosterTyped ==
    /\ routine \in Routine /\ copy \in Routine
    /\ AtMostOne(out) /\ AtMostOne(sent)
Scans == [at : {"idle", "due", "taken"}, check : Scripts \cup {NoCheck}, armed : Nat,
          late : BOOLEAN, time : Nat]
Looks == [at : {"idle", "running", "ended"}, check : Scripts \cup {NoCheck}, armed : Nat,
          result : Results \cup {"none"}]
TurnStates == [at : {"idle", "looking", "checking", "working", "ended"},
          check : Scripts \cup {NoCheck}, armed : Nat, streak : Streaks]
JobSets  == Seq({"plain", "found"})

RunTyped ==
    /\ scan \in Scans /\ look \in Looks /\ turn \in TurnStates /\ jobs \in JobSets
    /\ checking \in BOOLEAN /\ hand \in BOOLEAN
BoundTyped ==
    /\ {now, stamps, requests, reboots, signedOut} \subseteq Nat
    /\ own \in [taken : Nat \cup {-1}, check : Nat, model : Nat]

LEMMA TypeParts == TypeOK <=> RosterTyped /\ RunTyped /\ BoundTyped
BY DEF TypeOK, RosterTyped, RunTyped, BoundTyped, AtMostOne, Scans, Looks, TurnStates, JobSets

LEMMA TypePartsNext == TypeOK' <=> RosterTyped' /\ RunTyped' /\ BoundTyped'
BY DEF TypeOK, RosterTyped, RunTyped, BoundTyped, AtMostOne, Scans, Looks, TurnStates, JobSets

LEMMA NoneTyped ==
    /\ NoScan \in Scans /\ NoLook \in Looks /\ NoTurn \in TurnStates /\ <<>> \in JobSets
    /\ NothingOwn \in [taken : Nat \cup {-1}, check : Nat, model : Nat]
BY DEF NoScan, NoLook, NoTurn, NothingOwn, Streaks, Scans, Looks, TurnStates, JobSets

\* What the steps make of the tick, of a check, of the turn and of the jobs.
LEMMA RunChanges ==
    ASSUME NEW c \in Scripts \cup {NoCheck}, NEW a \in Nat
    PROVE  /\ \A t \in Nat, l \in BOOLEAN :
                 [at |-> "due", check |-> c, armed |-> a, late |-> l, time |-> t] \in Scans
           /\ \A x \in Scans : [x EXCEPT !.at = "taken"] \in Scans
           /\ [NoLook EXCEPT !.at = "running", !.check = c, !.armed = a] \in Looks
           /\ \A x \in Looks, res \in Results : [x EXCEPT !.at = "ended", !.result = res] \in Looks
           /\ \A at \in {"looking", "working"} :
                 [NoTurn EXCEPT !.check = c, !.armed = a, !.at = at] \in TurnStates
           /\ \A x \in TurnStates : /\ [x EXCEPT !.at = "checking"] \in TurnStates
                               /\ [x EXCEPT !.at = "working"] \in TurnStates
                               /\ \A k \in Streaks : [x EXCEPT !.at = "ended", !.streak = k] \in TurnStates
           /\ \A x \in Scans : x.time \in Nat /\ x.check \in Scripts \cup {NoCheck} /\ x.armed \in Nat
           /\ \A x \in TurnStates : x.streak \in Streaks
<1>1. NoLook \in Looks /\ NoTurn \in TurnStates
  BY NoneTyped
<1>2. [NoLook EXCEPT !.at = "running", !.check = c, !.armed = a] \in Looks
  BY <1>1 DEF Looks
<1>3. \A at \in {"looking", "working"} : [NoTurn EXCEPT !.check = c, !.armed = a, !.at = at] \in TurnStates
  BY <1>1 DEF TurnStates
<1>4. \A x \in Scans : /\ [x EXCEPT !.at = "taken"] \in Scans
                     /\ x.time \in Nat /\ x.check \in Scripts \cup {NoCheck} /\ x.armed \in Nat
  BY DEF Scans
<1>5. \A x \in Looks, res \in Results : [x EXCEPT !.at = "ended", !.result = res] \in Looks
  BY DEF Looks
<1>6. \A x \in TurnStates : /\ [x EXCEPT !.at = "checking"] \in TurnStates
                     /\ [x EXCEPT !.at = "working"] \in TurnStates
                     /\ x.streak \in Streaks
                     /\ \A k \in Streaks : [x EXCEPT !.at = "ended", !.streak = k] \in TurnStates
  BY DEF TurnStates
<1>7. \A t \in Nat, l \in BOOLEAN :
         [at |-> "due", check |-> c, armed |-> a, late |-> l, time |-> t] \in Scans
  BY DEF Scans
<1> QED BY <1>2, <1>3, <1>4, <1>5, <1>6, <1>7

LEMMA JobChanges ==
    ASSUME NEW q \in JobSets
    PROVE  /\ Append(q, "plain") \in JobSets /\ Append(q, "found") \in JobSets
           /\ q # <<>> => Tail(q) \in JobSets
BY DEF JobSets

LEMMA TypeInit == ASSUME RoutineConstants, Init PROVE TypeOK
<1>1. RunTyped /\ BoundTyped
  <2>1. RunTyped
    BY NoneTyped DEF Init, RunTyped
  <2>2. BoundTyped
    BY NoneTyped DEF Init, BoundTyped
  <2> QED BY <2>1, <2>2
<1>2. PICK f \in Founded :
        LET streak == [NoStreak EXCEPT !.fails = f.fails, !.misses = f.misses]
        IN routine = [on |-> TRUE, reason |-> "none", armed |-> 1, since |-> 0, taken |-> 0,
                       ran |-> 0, check |-> f.check, policy |-> f.policy,
                       health |-> IF f.check = NoCheck THEN [NoHealth EXCEPT !.model = streak]
                                  ELSE [NoHealth EXCEPT !.check = streak]]
  BY DEF Init
<1>3. f.check \in Scripts \cup {NoCheck} /\ f.policy \in {"skip", "coalesce"}
      /\ f.fails \in Nat /\ f.misses \in Nat
  BY DEF RoutineConstants
<1> DEFINE streak == [NoStreak EXCEPT !.fails = f.fails, !.misses = f.misses]
<1>4. streak \in Streaks
  BY <1>3 DEF NoStreak, Streaks
<1>5. \A s \in Streaks : [NoHealth EXCEPT !.model = s] \in Health /\ [NoHealth EXCEPT !.check = s] \in Health
  BY Founds DEF NoHealth, Health
<1>6. routine \in Routine
  BY <1>2, <1>3, <1>4, <1>5 DEF Routine, Health
<1> QED BY <1>1, <1>6, One, TypeParts DEF Init, RosterTyped

-----------------------------------------------------------------------------
(* The inductive invariant.                                                *)

Members(q) == {q[i] : i \in DOMAIN q}

\* The records of the routine that may still reach its Runner.
Copies == {copy} \cup Members(out) \cup Members(sent)

\* The Runner's record keeps what the Runner wrote since it was armed.
OwnKept ==
    /\ own.taken <= routine.taken
    /\ own.check <= routine.health.check.retry
    /\ own.model <= routine.health.model.retry

\* No record is ahead of the clock of edits.
Timely(x) == x.armed <= stamps /\ x.health.stamp <= stamps
StampsKept == Timely(routine) /\ \A x \in Copies : Timely(x)

\* A record of the same arming with no older health keeps it as well.
AsGood(x) ==
    x.armed = routine.armed /\ x.health.stamp >= routine.health.stamp =>
        own.check <= x.health.check.retry /\ own.model <= x.health.model.retry
CopiesKept == \A x \in Copies : AsGood(x)

\* A routine that is on has no reason to be paused.
OnPlain(x) == x.on => x.reason = "none"
PlainKept == OnPlain(routine) /\ \A x \in Copies : OnPlain(x)

KeptInv == TypeOK /\ OwnKept /\ StampsKept /\ CopiesKept /\ PlainKept

LEMMA MembersOf ==
    /\ Members(<<>>) = {}
    /\ \A r : Members(<<r>>) = {r}
    /\ \A q : AtMostOne(q) /\ q # <<>> => Members(q) = {q[1]}
<1>1. \A q : AtMostOne(q) /\ q # <<>> => DOMAIN q = {1}
  BY First
<1> QED BY <1>1 DEF Members

LEMMA MembersTyped == ASSUME NEW q, AtMostOne(q) PROVE Members(q) \subseteq Routine
<1>1. CASE q = <<>>
  BY <1>1, MembersOf
<1>2. CASE q # <<>>
  BY <1>2, MembersOf, First
<1> QED BY <1>1, <1>2

LEMMA CopiesTyped == (RosterTyped => Copies \subseteq Routine) /\ (RosterTyped' => Copies' \subseteq Routine)
<1>1. RosterTyped => Copies \subseteq Routine
  BY MembersTyped DEF RosterTyped, Copies
<1>2. RosterTyped' => Copies' \subseteq Routine
  BY MembersTyped DEF RosterTyped, Copies
<1> QED BY <1>1, <1>2

\* What a step may make of the Runner's record and of the others.
Moves ==
    /\ stamps' >= stamps
    /\ Timely(routine)' /\ OwnKept' /\ OnPlain(routine)'
    /\ \/ own' = NothingOwn
       \/ routine'.armed = routine.armed /\ routine'.health.stamp > stamps
       \/ /\ routine'.armed = routine.armed /\ routine'.health.stamp >= routine.health.stamp
          /\ own'.check = own.check /\ own'.model = own.model
    /\ \A x \in Copies' :
          /\ OnPlain(x)
          /\ \/ \E y \in Copies \cup {routine'} : x.armed = y.armed /\ x.health = y.health
             \/ /\ x.armed = stamps' /\ x.health.stamp <= stamps /\ stamps' > stamps
                /\ routine' = routine

LEMMA MovesKeep == ASSUME KeptInv, TypeOK', Moves PROVE KeptInv'
<1>0. /\ RosterTyped /\ RosterTyped' /\ BoundTyped /\ BoundTyped'
  BY TypeParts, TypePartsNext DEF KeptInv
<1>1. \A x \in Copies \cup {routine} : x \in Routine
  BY <1>0, CopiesTyped DEF RosterTyped
<1>2. \A x \in Copies' \cup {routine'} : x \in Routine
  BY <1>0, CopiesTyped DEF RosterTyped
<1>3. stamps \in Nat /\ stamps' \in Nat
  BY <1>0 DEF BoundTyped
<1>4. /\ \A x \in Copies \cup {routine} : /\ x.armed \in Nat /\ x.health.stamp \in Nat
         /\ x.health.check.retry \in Nat /\ x.health.model.retry \in Nat
      /\ \A x \in Copies' \cup {routine'} : /\ x.armed \in Nat /\ x.health.stamp \in Nat
         /\ x.health.check.retry \in Nat /\ x.health.model.retry \in Nat
  BY <1>1, <1>2, Parts
<1>5. StampsKept'
  <2> SUFFICES ASSUME NEW x \in Copies' PROVE x.armed <= stamps' /\ x.health.stamp <= stamps'
    BY DEF Moves, StampsKept, Timely
  <2>1. ASSUME NEW y \in Copies \cup {routine'}, x.armed = y.armed /\ x.health = y.health
        PROVE  x.armed <= stamps' /\ x.health.stamp <= stamps'
    BY <2>1, <1>3, <1>4 DEF KeptInv, StampsKept, Timely, Moves
  <2> QED BY <2>1, <1>3, <1>4 DEF Moves
<1>6. CopiesKept'
  <2> SUFFICES ASSUME NEW x \in Copies', x.armed = routine'.armed,
                      x.health.stamp >= routine'.health.stamp
               PROVE  own'.check <= x.health.check.retry /\ own'.model <= x.health.model.retry
    BY DEF CopiesKept, AsGood
  <2>0. own'.check \in Nat /\ own'.model \in Nat
    BY <1>0 DEF BoundTyped
  <2>1. CASE own' = NothingOwn
    BY <2>1, <1>4 DEF NothingOwn
  <2>2. CASE /\ x.armed = stamps' /\ x.health.stamp <= stamps /\ stamps' > stamps
             /\ routine' = routine
    <3>1. routine.armed <= stamps /\ routine.armed \in Nat
      BY <1>4 DEF KeptInv, StampsKept, Timely
    <3>2. x.armed = routine.armed
      BY <2>2
    <3> QED BY <3>1, <3>2, <2>2, <1>3
  <2>3. ASSUME NEW y \in Copies \cup {routine'}, x.armed = y.armed, x.health = y.health
        PROVE  own'.check <= x.health.check.retry /\ own'.model <= x.health.model.retry
    <3>1. CASE y = routine'
      BY <2>3, <3>1 DEF Moves, OwnKept
    <3>2. CASE y \in Copies
      <4>1. y.health.stamp <= stamps /\ AsGood(y)
        BY <3>2 DEF KeptInv, StampsKept, CopiesKept, Timely
      <4>2. CASE routine'.armed = routine.armed /\ routine'.health.stamp > stamps
        BY <4>1, <4>2, <2>3, <1>3, <1>4
      <4>3. CASE /\ routine'.armed = routine.armed /\ routine'.health.stamp >= routine.health.stamp
                 /\ own'.check = own.check /\ own'.model = own.model
        <5>1. y.armed = routine.armed /\ y.health.stamp >= routine.health.stamp
          BY <4>3, <2>3, <1>4, <3>2
        <5> QED BY <5>1, <4>1, <4>3, <2>3 DEF AsGood
      <4> QED BY <4>2, <4>3, <2>1 DEF Moves
    <3> QED BY <3>1, <3>2
  <2> QED BY <2>1, <2>2, <2>3 DEF Moves
<1> QED BY <1>5, <1>6 DEF KeptInv, Moves, PlainKept

\* Steps that leave all records alone, and those that write the Runner's.
LEMMA StillMoves ==
    ASSUME KeptInv, UNCHANGED <<rosterVars, stamps, own>> PROVE Moves
<1>1. Copies' = Copies
  BY DEF rosterVars, Copies, Members
<1>2. stamps \in Nat /\ routine.health.stamp \in Nat
  BY TypeParts, Parts DEF KeptInv, BoundTyped, RosterTyped
<1>3. routine' = routine
  BY DEF rosterVars
<1> QED
  BY <1>1, <1>2, <1>3
     DEF KeptInv, OwnKept, StampsKept, Timely, PlainKept, OnPlain, Moves

OwnMoves ==
    \/ own' = NothingOwn
    \/ routine'.armed = routine.armed /\ routine'.health.stamp > stamps
    \/ /\ routine'.armed = routine.armed /\ routine'.health.stamp >= routine.health.stamp
       /\ own'.check = own.check /\ own'.model = own.model

LEMMA WrittenMoves ==
    ASSUME KeptInv, UNCHANGED <<copy, sent>>, out' = out \/ out' = <<routine'>>,
           stamps' >= stamps, Timely(routine)', OwnKept', OnPlain(routine)', OwnMoves
    PROVE  Moves
<1>1. Copies' \subseteq Copies \cup {routine'}
  BY MembersOf DEF Copies, Members
<1> QED BY <1>1 DEF KeptInv, PlainKept, OnPlain, Moves, OwnMoves

\* A change of what neither armings nor checks are about.
LEMMA TouchedMoves ==
    ASSUME KeptInv, UNCHANGED <<copy, sent, stamps, own>>, out' = out \/ out' = <<routine'>>,
           routine'.armed = routine.armed, routine'.health = routine.health,
           routine'.taken = routine.taken, OnPlain(routine)'
    PROVE  Moves
<1>1. stamps \in Nat /\ routine.health.stamp \in Nat
  BY TypeParts, Parts DEF KeptInv, BoundTyped, RosterTyped
<1> QED BY <1>1, WrittenMoves DEF KeptInv, StampsKept, Timely, OwnKept, OwnMoves

-----------------------------------------------------------------------------
(* Each action.                                                            *)

LEMMA StartTyped == ASSUME RunTyped, TickStart PROVE RunTyped'
<1>1. scan' = NoScan /\ turn' = turn /\ hand' = hand
  BY DEF TickStart
<1>2. /\ look' = look \/ look' = [NoLook EXCEPT !.at = "running", !.check = scan.check, !.armed = scan.armed]
      /\ checking' = checking \/ checking' = TRUE
      /\ jobs' = jobs \/ jobs' = Append(jobs, "plain")
  BY DEF TickStart
<1>3. scan.check \in Scripts \cup {NoCheck} /\ scan.armed \in Nat
  BY DEF RunTyped, Scans
<1>4. look' \in Looks
  <2>1. [NoLook EXCEPT !.at = "running", !.check = scan.check, !.armed = scan.armed] \in Looks
    BY <1>3, NoneTyped DEF Looks
  <2> QED BY <1>2, <2>1 DEF RunTyped
<1>5. jobs' \in JobSets
  BY <1>2, JobChanges DEF RunTyped
<1> QED BY <1>1, <1>2, <1>4, <1>5, NoneTyped DEF RunTyped

LEMMA LookTyped == ASSUME RunTyped, LookEnds \/ LookRuns PROVE RunTyped'
<1>1. CASE LookEnds
  <2>1. /\ look' = NoLook \/ \E res \in Results : look' = [look EXCEPT !.at = "ended", !.result = res]
        /\ checking' = FALSE /\ UNCHANGED <<scan, jobs, turn, hand>>
    BY <1>1 DEF LookEnds, Checked
  <2>2. \A x \in Looks, res \in Results : [x EXCEPT !.at = "ended", !.result = res] \in Looks
    BY DEF Looks
  <2>3. look \in Looks /\ NoLook \in Looks
    BY NoneTyped DEF RunTyped
  <2>4. look' \in Looks
    BY <2>1, <2>2, <2>3
  <2> QED BY <2>1, <2>4 DEF RunTyped
<1>2. CASE LookRuns
  <2>1. /\ look' = NoLook
        /\ jobs' = jobs \/ jobs' = Append(jobs, "found")
        /\ UNCHANGED <<scan, checking, turn, hand>>
    BY <1>2 DEF LookRuns
  <2>2. jobs' \in JobSets
    BY <2>1, JobChanges DEF RunTyped
  <2> QED BY <2>1, <2>2, NoneTyped DEF RunTyped
<1> QED BY <1>1, <1>2

LEMMA TurnTyped ==
    ASSUME RunTyped, routine \in Routine, Begin \/ TurnLooks \/ TurnLooked \/ TurnEnds \/ Stop
    PROVE  RunTyped'
<1>0. /\ \A x \in TurnStates : [x EXCEPT !.at = "checking"] \in TurnStates /\ [x EXCEPT !.at = "working"] \in TurnStates
      /\ routine.check \in Scripts \cup {NoCheck} /\ routine.armed \in Nat
  BY Parts DEF TurnStates
<1>1. CASE Begin
  <2>1. /\ jobs # <<>> /\ jobs' = Tail(jobs)
        /\ \/ turn' = turn
           \/ \E at \in {"looking", "working"} :
                 turn' = [NoTurn EXCEPT !.check = routine.check, !.armed = routine.armed, !.at = at]
        /\ UNCHANGED <<scan, look, checking, hand>>
    BY <1>1 DEF Begin
  <2>2. turn' \in TurnStates
    <3>1. \A at \in {"looking", "working"} :
             [NoTurn EXCEPT !.check = routine.check, !.armed = routine.armed, !.at = at] \in TurnStates
      BY <1>0, NoneTyped DEF TurnStates
    <3> QED BY <2>1, <3>1 DEF RunTyped
  <2>3. jobs' \in JobSets
    BY <2>1, JobChanges DEF RunTyped
  <2> QED BY <2>1, <2>2, <2>3 DEF RunTyped
<1>2. CASE TurnLooks
  BY <1>0, <1>2 DEF TurnLooks, RunTyped
<1>3. CASE TurnLooked
  <2>1. /\ turn' = [turn EXCEPT !.at = "working"] /\ checking' = FALSE
        /\ UNCHANGED <<scan, look, jobs, hand>>
    BY <1>3 DEF TurnLooked, Checked
  <2> QED BY <1>0, <2>1 DEF RunTyped
<1>4. CASE TurnEnds
  <2>1. turn' = NoTurn /\ UNCHANGED <<scan, look, checking, jobs, hand>>
    BY <1>4 DEF TurnEnds
  <2> QED BY <2>1, NoneTyped DEF RunTyped
<1>5. CASE Stop
  <2>1. /\ turn' = NoTurn /\ UNCHANGED <<scan, look, jobs, hand>>
        /\ checking' = (checking /\ turn.at # "checking")
    BY <1>5 DEF Stop
  <2> QED BY <2>1, NoneTyped DEF RunTyped
<1> QED BY <1>1, <1>2, <1>3, <1>4, <1>5

LEMMA TickSteps ==
    ASSUME KeptInv, TickRead \/ TickAway \/ TickTake \/ TickStart PROVE TypeOK' /\ Moves
<1>0. RosterTyped /\ RunTyped /\ BoundTyped /\ routine \in Routine /\ scan.time \in Nat
      /\ stamps \in Nat /\ now \in Nat
  BY TypeParts, RunChanges DEF KeptInv, RosterTyped, RunTyped, BoundTyped
<1>1. CASE TickRead
  <2>1. RunTyped'
    BY <1>0, <1>1, Parts, RunChanges DEF TickRead, RunTyped
  <2>2. RosterTyped' /\ BoundTyped' /\ Moves
    BY <1>0, <1>1, StillMoves DEF TickRead, RosterTyped, BoundTyped, rosterVars, boundVars, AtMostOne
  <2> QED BY <2>1, <2>2, TypePartsNext
<1>2. CASE TickAway
  <2> DEFINE r == [routine EXCEPT !.on = FALSE, !.reason = "away"]
  <2>1. r \in Routine /\ r.armed = routine.armed /\ r.health = routine.health
        /\ r.taken = routine.taken /\ ~r.on
    BY <1>0, Changes DEF Routine
  <2>2. routine' = r /\ out' = <<r>> /\ scan' = NoScan
    BY <1>2 DEF TickAway, Update
  <2> HIDE DEF r
  <2>3. RosterTyped' /\ RunTyped' /\ BoundTyped'
    BY <1>0, <1>2, <2>1, <2>2, One, NoneTyped
       DEF TickAway, RosterTyped, RunTyped, BoundTyped, boundVars, AtMostOne
  <2>4. Moves
    BY <1>2, <2>1, <2>2, TouchedMoves DEF TickAway, OnPlain
  <2> QED BY <2>3, <2>4, TypePartsNext
<1>3. CASE TickTake
  <2>1. CASE Unsaved /\ scan' = NoScan /\ UNCHANGED own
    <3>1. RosterTyped' /\ RunTyped' /\ BoundTyped'
      BY <1>0, <1>3, <2>1, NoneTyped
         DEF TickTake, Unsaved, RosterTyped, RunTyped, BoundTyped, boundVars, AtMostOne
    <3>2. Moves
      BY <1>3, <2>1, StillMoves DEF TickTake, Unsaved, rosterVars
    <3> QED BY <3>1, <3>2, TypePartsNext
  <2>2. CASE /\ Record(Taken(routine))
             /\ scan' = IF scan.late THEN NoScan ELSE [scan EXCEPT !.at = "taken"]
             /\ Owned([own EXCEPT !.taken = scan.time])
    <3>1. /\ routine' \in Routine /\ routine'.armed = routine.armed
          /\ routine'.health = routine.health /\ routine'.taken = scan.time
          /\ routine'.on = routine.on /\ routine'.reason = routine.reason /\ out' = out
      BY <1>0, <2>2, Changes DEF Record, Taken, Routine
    <3>2. own' = [own EXCEPT !.taken = scan.time]
      BY <2>2, <3>1 DEF Owned
    <3>3. own' \in [taken : Nat \cup {-1}, check : Nat, model : Nat] /\ own'.taken = scan.time
          /\ own'.check = own.check /\ own'.model = own.model
      BY <1>0, <3>2 DEF BoundTyped
    <3>4. RosterTyped' /\ RunTyped' /\ BoundTyped'
      <4>1. scan' \in Scans
        BY <1>0, <2>2, NoneTyped, RunChanges DEF RunTyped
      <4>2. RosterTyped' /\ RunTyped'
        BY <1>0, <1>3, <3>1, <4>1 DEF TickTake, RosterTyped, RunTyped, AtMostOne
      <4>3. BoundTyped'
        BY <1>0, <1>3, <3>3 DEF TickTake, BoundTyped, boundVars
      <4> QED BY <4>2, <4>3
    <3>5. Moves
      <4>1. OwnKept' /\ OnPlain(routine)' /\ Timely(routine)'
        BY <1>0, <1>3, <3>1, <3>3
           DEF KeptInv, OwnKept, PlainKept, OnPlain, StampsKept, Timely, TickTake
      <4>2. OwnMoves /\ stamps' >= stamps
        BY <1>0, <1>3, <3>1, <3>3, Parts DEF OwnMoves, TickTake
      <4> QED BY <1>3, <4>1, <4>2, <3>1, WrittenMoves DEF TickTake
    <3> QED BY <3>4, <3>5, TypePartsNext
  <2> QED BY <1>3, <2>1, <2>2 DEF TickTake
<1>4. CASE TickStart
  <2>1. CASE UNCHANGED <<routine, out>>
    <3>1. RosterTyped' /\ BoundTyped'
      BY <1>0, <1>4, <2>1 DEF TickStart, RosterTyped, BoundTyped, boundVars, AtMostOne
    <3>2. RunTyped'
      BY <1>0, <1>4, StartTyped
    <3>3. Moves
      BY <1>4, <2>1, StillMoves DEF TickStart, rosterVars
    <3> QED BY <3>1, <3>2, <3>3, TypePartsNext
  <2>2. CASE Update([routine EXCEPT !.ran = now])
    <3>1. /\ routine' \in Routine /\ routine'.armed = routine.armed
          /\ routine'.health = routine.health /\ routine'.taken = routine.taken
          /\ routine'.on = routine.on /\ routine'.reason = routine.reason /\ out' = <<routine'>>
      BY <1>0, <2>2, Changes DEF Update, Routine
    <3>2. RosterTyped' /\ BoundTyped'
      BY <1>0, <1>4, <3>1, One DEF TickStart, RosterTyped, BoundTyped, boundVars, AtMostOne
    <3>3. RunTyped'
      BY <1>0, <1>4, StartTyped
    <3>4. Moves
      BY <1>4, <3>1, TouchedMoves DEF TickStart, KeptInv, PlainKept, OnPlain
    <3> QED BY <3>2, <3>3, <3>4, TypePartsNext
  <2> QED BY <1>4, <2>1, <2>2 DEF TickStart, Unsaved
<1> QED BY <1>1, <1>2, <1>3, <1>4

OwnTyped(o) == o \in [taken : Nat \cup {-1}, check : Nat, model : Nat]

\* An outcome: the record's health is newer than any other's, and own says what it says.
FreshWrite ==
    /\ routine' \in Routine /\ AtMostOne(out') /\ stamps' = stamps + 1
    /\ OwnTyped(own') /\ signedOut' \in Nat
    /\ out' = out \/ out' = <<routine'>>
    /\ Timely(routine)' /\ OwnKept' /\ OnPlain(routine)' /\ OwnMoves

LEMMA PausedIs ==
    ASSUME NEW r \in Routine, OnPlain(r), NEW s \in Streaks
    PROVE  LET p == Paused(r, s)
           IN /\ p \in Routine /\ OnPlain(p) /\ p.armed = r.armed /\ p.health = r.health
              /\ p.taken = r.taken
<1>1. Paused(r, s) \in {r, [r EXCEPT !.on = FALSE, !.reason = "authentication"]}
  BY DEF Paused
<1>2. [r EXCEPT !.on = FALSE, !.reason = "authentication"] \in Routine
  BY DEF Routine
<1> QED BY <1>1, <1>2 DEF Routine, OnPlain

\* A newer health in the Runner's record.
LEMMA FreshIs ==
    ASSUME KeptInv, NEW h \in Health, h.stamp = stamps + 1, NEW s \in Streaks, NEW o,
           OwnTyped(o), o.taken = own.taken, o.check <= h.check.retry, o.model <= h.model.retry,
           routine' = Paused([routine EXCEPT !.health = h], s),
           out' = out \/ out' = <<routine'>>, stamps' = stamps + 1, Owned(o),
           SignedOut(Paused([routine EXCEPT !.health = h], s))
    PROVE  FreshWrite
<1>0. routine \in Routine /\ BoundTyped /\ RosterTyped /\ stamps \in Nat
  BY TypeParts DEF KeptInv, RosterTyped, BoundTyped
<1> DEFINE r == [routine EXCEPT !.health = h]
<1>1. /\ r \in Routine /\ OnPlain(r) /\ r.armed = routine.armed /\ r.health = h
      /\ r.taken = routine.taken
  BY <1>0 DEF Routine, Health, KeptInv, PlainKept, OnPlain
<1> HIDE DEF r
<1>2. /\ routine' \in Routine /\ OnPlain(routine') /\ routine'.armed = routine.armed
      /\ routine'.health = h /\ routine'.taken = routine.taken
  BY <1>1, PausedIs DEF r
<1>3. own' = o
  BY <1>2 DEF Owned
<1>4. signedOut' \in Nat
  BY <1>0, <1>2, Parts DEF SignedOut, BoundTyped, r
<1>5. Timely(routine)' /\ OnPlain(routine)'
  BY <1>0, <1>2, Parts DEF KeptInv, StampsKept, Timely, OnPlain
<1>6. OwnKept' /\ OwnMoves
  BY <1>0, <1>2, <1>3 DEF OwnKept, OwnMoves, KeptInv
<1>7. AtMostOne(out')
  BY <1>0, <1>2, One DEF RosterTyped
<1> QED BY <1>2, <1>3, <1>4, <1>5, <1>6, <1>7 DEF FreshWrite

LEMMA FreshTyped ==
    ASSUME RosterTyped, BoundTyped, FreshWrite \/ UNCHANGED <<routine, out, stamps, own, signedOut>>,
           UNCHANGED <<copy, sent, now, boundVars>>
    PROVE  RosterTyped' /\ BoundTyped'
<1>1. RosterTyped'
  BY DEF FreshWrite, RosterTyped, AtMostOne
<1>2. stamps' \in Nat /\ signedOut' \in Nat /\ OwnTyped(own')
  <2>1. stamps \in Nat /\ signedOut \in Nat /\ OwnTyped(own)
    BY DEF BoundTyped, OwnTyped
  <2> QED BY <2>1 DEF FreshWrite
<1>3. BoundTyped'
  BY <1>2 DEF BoundTyped, boundVars, OwnTyped
<1> QED BY <1>1, <1>3

LEMMA FreshMoves ==
    ASSUME KeptInv, FreshWrite, UNCHANGED <<copy, sent>> PROVE Moves
<1>1. stamps \in Nat
  BY TypeParts DEF KeptInv, BoundTyped
<1> QED BY <1>1, WrittenMoves DEF FreshWrite

\* What a check that ended writes, if it writes.
LEMMA CheckedIs ==
    ASSUME KeptInv, NEW seen, NEW result, Checked(seen, result)
    PROVE  FreshWrite \/ UNCHANGED <<routine, out, stamps, own, signedOut>>
<1>0. routine \in Routine /\ BoundTyped /\ stamps \in Nat /\ now \in Nat /\ OwnTyped(own)
  BY TypeParts DEF KeptInv, RosterTyped, BoundTyped, OwnTyped
<1> DEFINE streak == Recorded(routine.health.check, result)
           h == [stamp |-> stamps + 1, at |-> now, model |-> routine.health.model, check |-> streak]
           o == [own EXCEPT !.check = streak.retry]
<1>1. streak \in Streaks
  BY <1>0, Parts, RecordedStreak
<1>2. h \in Health /\ h.stamp = stamps + 1 /\ h.check = streak /\ h.model = routine.health.model
  BY <1>0, <1>1, Parts DEF Health
<1>3. OwnTyped(o) /\ o.taken = own.taken /\ o.check = streak.retry /\ o.model = own.model
  BY <1>0, <1>1 DEF OwnTyped, Streaks
<1>4. o.check <= h.check.retry /\ o.model <= h.model.retry
  BY <1>1, <1>2, <1>3 DEF Streaks, KeptInv, OwnKept
<1>5. CASE ~(SameTarget(seen) /\ routine.armed <= seen.armed)
  BY <1>5 DEF Checked
<1>6. CASE SameTarget(seen) /\ routine.armed <= seen.armed
  <2>1. /\ routine' = Paused([routine EXCEPT !.health = h], h.check)
        /\ out' = out \/ out' = <<routine'>>
        /\ stamps' = stamps + 1
        /\ Owned(o)
        /\ SignedOut(Paused([routine EXCEPT !.health = h], h.check))
    BY <1>6 DEF Checked
  <2> HIDE DEF h, o, streak
  <2> QED BY <1>1, <1>2, <1>3, <1>4, <2>1, FreshIs
<1> QED BY <1>5, <1>6

LEMMA LookSteps ==
    ASSUME KeptInv, LookEnds \/ LookRuns PROVE TypeOK' /\ Moves
<1>0. RosterTyped /\ RunTyped /\ BoundTyped /\ routine \in Routine /\ stamps \in Nat /\ now \in Nat
  BY TypeParts DEF KeptInv, RosterTyped, RunTyped, BoundTyped
<1>1. CASE LookEnds
  <2>1. RunTyped'
    BY <1>0, <1>1, LookTyped
  <2>2. \/ FreshWrite \/ UNCHANGED <<routine, out, stamps, own, signedOut>>
    BY <1>1, CheckedIs DEF LookEnds, Unsaved
  <2>3. RosterTyped' /\ BoundTyped'
    <3>1. UNCHANGED <<copy, sent, now, boundVars>>
      BY <1>1 DEF LookEnds
    <3> QED BY <1>0, <2>2, <3>1, FreshTyped
  <2>4. Moves
    BY <1>1, <2>2, FreshMoves, StillMoves DEF LookEnds, rosterVars
  <2> QED BY <2>1, <2>3, <2>4, TypePartsNext
<1>2. CASE LookRuns
  <2>1. RunTyped'
    BY <1>0, <1>2, LookTyped
  <2>2. CASE UNCHANGED <<routine, out>>
    <3>1. RosterTyped' /\ BoundTyped'
      BY <1>0, <1>2, <2>2 DEF LookRuns, RosterTyped, BoundTyped, boundVars, AtMostOne
    <3> QED BY <1>2, <2>1, <2>2, <3>1, TypePartsNext, StillMoves DEF LookRuns, rosterVars
  <2>3. CASE Update([routine EXCEPT !.ran = now])
    <3>1. /\ routine' \in Routine /\ routine'.armed = routine.armed
          /\ routine'.health = routine.health /\ routine'.taken = routine.taken
          /\ routine'.on = routine.on /\ routine'.reason = routine.reason /\ out' = <<routine'>>
      BY <1>0, <2>3, Changes DEF Update, Routine, RunTyped
    <3>2. RosterTyped' /\ BoundTyped'
      BY <1>0, <1>2, <3>1, One DEF LookRuns, RosterTyped, BoundTyped, boundVars, AtMostOne
    <3>3. Moves
      BY <1>2, <3>1, TouchedMoves DEF LookRuns, KeptInv, PlainKept, OnPlain
    <3> QED BY <2>1, <3>2, <3>3, TypePartsNext
  <2> QED BY <1>2, <2>2, <2>3 DEF LookRuns, Unsaved
<1> QED BY <1>1, <1>2

LEMMA RunSteps ==
    ASSUME KeptInv, RoutineConstants,
           RunNowAsked \/ RunNowStarts \/ RunSent \/ TurnLooks \/ TurnResult \/ Pass \/ Restart
    PROVE  TypeOK' /\ Moves
<1>0. RosterTyped /\ RunTyped /\ BoundTyped /\ routine \in Routine /\ now \in Nat
  BY TypeParts DEF KeptInv, RosterTyped, RunTyped, BoundTyped
<1>1. UNCHANGED <<rosterVars, stamps, own, signedOut>>
  BY DEF RunNowAsked, RunNowStarts, RunSent, TurnLooks, TurnResult, Pass, Restart
<1>2. RosterTyped' /\ Moves
  BY <1>0, <1>1, StillMoves DEF rosterVars, RosterTyped, AtMostOne
<1>3. BoundTyped'
  <2>1. now' \in Nat /\ requests' \in Nat /\ reboots' \in Nat
    <3>1. now \in Nat /\ requests \in Nat /\ reboots \in Nat
      BY <1>0 DEF BoundTyped
    <3>2. CASE RunNowAsked \/ RunSent
      BY <3>1, <3>2 DEF RunNowAsked, RunSent, Call
    <3>3. CASE RunNowStarts \/ TurnLooks \/ TurnResult
      BY <3>1, <3>3 DEF RunNowStarts, TurnLooks, TurnResult, boundVars
    <3>5. CASE Pass
      BY <3>1, <3>5 DEF Pass, boundVars
    <3>4. CASE Restart
      BY <3>1, <3>4 DEF Restart
    <3> QED BY <3>2, <3>3, <3>4, <3>5
  <2> QED BY <1>0, <1>1, <2>1 DEF BoundTyped
<1>4. ASSUME TurnResult PROVE RunTyped'
  <2>1. \A result : Recorded(routine.health.model, result) \in Streaks
    BY <1>0, Parts, RecordedStreak
  <2>2. routine.health.model \in Streaks
    BY <1>0, Parts
  <2>3. PICK s \in Streaks : turn' = [turn EXCEPT !.at = "ended", !.streak = s]
    BY <1>4, <2>1, <2>2 DEF TurnResult
  <2>4. \A x \in TurnStates, k \in Streaks : [x EXCEPT !.at = "ended", !.streak = k] \in TurnStates
    BY DEF TurnStates
  <2> QED BY <1>0, <1>4, <2>3, <2>4 DEF TurnResult, RunTyped
<1>5. ASSUME RunNowAsked \/ RunNowStarts \/ RunSent \/ TurnLooks \/ Pass \/ Restart PROVE RunTyped'
  <2>1. CASE RunNowAsked \/ RunNowStarts \/ RunSent
    <3>1. /\ jobs' = jobs \/ jobs' = Append(jobs, "plain")
          /\ hand' \in BOOLEAN /\ UNCHANGED <<scan, look, checking, turn>>
      BY <1>0, <2>1 DEF RunNowAsked, RunNowStarts, RunSent, RunTyped
    <3>2. jobs' \in JobSets
      BY <1>0, <3>1, JobChanges DEF RunTyped
    <3> QED BY <1>0, <3>1, <3>2 DEF RunTyped
  <2>2. CASE TurnLooks
    BY <1>0, <2>2, TurnTyped
  <2>3. CASE Pass
    BY <1>0, <2>3 DEF Pass, runVars, RunTyped
  <2>4. CASE Restart
    BY <2>4, NoneTyped DEF Restart, RunTyped
  <2> QED BY <1>5, <2>1, <2>2, <2>3, <2>4
<1> QED BY <1>2, <1>3, <1>4, <1>5, TypePartsNext

LEMMA TurnSteps ==
    ASSUME KeptInv, Begin \/ TurnLooked \/ TurnEnds \/ Stop PROVE TypeOK' /\ Moves
<1>0. RosterTyped /\ RunTyped /\ BoundTyped /\ routine \in Routine /\ stamps \in Nat /\ now \in Nat
      /\ OwnTyped(own)
  BY TypeParts DEF KeptInv, RosterTyped, RunTyped, BoundTyped, OwnTyped
<1>1. CASE Begin
  <2>1. RunTyped'
    BY <1>0, <1>1, TurnTyped
  <2>2. CASE UNCHANGED <<routine, out>>
    <3>1. RosterTyped' /\ BoundTyped'
      BY <1>0, <1>1, <2>2 DEF Begin, RosterTyped, BoundTyped, boundVars, AtMostOne
    <3> QED BY <1>1, <2>1, <2>2, <3>1, TypePartsNext, StillMoves DEF Begin, rosterVars
  <2>3. CASE Update([routine EXCEPT !.ran = now])
    <3>1. /\ routine' \in Routine /\ routine'.armed = routine.armed
          /\ routine'.health = routine.health /\ routine'.taken = routine.taken
          /\ routine'.on = routine.on /\ routine'.reason = routine.reason /\ out' = <<routine'>>
      BY <1>0, <2>3, Changes DEF Update, Routine, RunTyped
    <3>2. RosterTyped' /\ BoundTyped'
      BY <1>0, <1>1, <3>1, One DEF Begin, RosterTyped, BoundTyped, boundVars, AtMostOne
    <3>3. Moves
      BY <1>1, <3>1, TouchedMoves DEF Begin, KeptInv, PlainKept, OnPlain
    <3> QED BY <2>1, <3>2, <3>3, TypePartsNext
  <2> QED BY <1>1, <2>2, <2>3 DEF Begin, Unsaved
<1>2. CASE TurnLooked
  <2>1. RunTyped'
    BY <1>0, <1>2, TurnTyped
  <2>2. FreshWrite \/ UNCHANGED <<routine, out, stamps, own, signedOut>>
    BY <1>2, CheckedIs DEF TurnLooked, Unsaved
  <2>3. RosterTyped' /\ BoundTyped'
    <3>1. UNCHANGED <<copy, sent, now, boundVars>>
      BY <1>2 DEF TurnLooked
    <3> QED BY <1>0, <2>2, <3>1, FreshTyped
  <2>4. Moves
    BY <1>2, <2>2, FreshMoves, StillMoves DEF TurnLooked, rosterVars
  <2> QED BY <2>1, <2>3, <2>4, TypePartsNext
<1>3. CASE TurnEnds
  <2>1. RunTyped' /\ UNCHANGED <<copy, sent, now, boundVars>>
    BY <1>0, <1>3, TurnTyped DEF TurnEnds
  <2> DEFINE h == [routine.health EXCEPT !.model = turn.streak, !.stamp = stamps + 1]
             o == [own EXCEPT !.model = turn.streak.retry]
             r == Paused([routine EXCEPT !.health.model = turn.streak,
                                         !.health.stamp = stamps + 1], turn.streak)
  <2>2. turn.streak \in Streaks
    BY <1>0 DEF RunTyped, TurnStates
  <2>3. h \in Health /\ h.stamp = stamps + 1 /\ h.check = routine.health.check /\ h.model = turn.streak
    <3>1. routine.health \in Health /\ stamps + 1 \in Nat
      BY <1>0, Parts
    <3> QED BY <2>2, <3>1 DEF Health
  <2>4. OwnTyped(o) /\ o.taken = own.taken /\ o.check = own.check /\ o.model = turn.streak.retry
    BY <1>0, <2>2 DEF OwnTyped, Streaks
  <2>5. r = Paused([routine EXCEPT !.health = h], turn.streak)
    BY <1>0 DEF Routine, Health
  <2>6. /\ [routine EXCEPT !.health = h].health = h /\ [routine EXCEPT !.health = h] \in Routine
        /\ OnPlain([routine EXCEPT !.health = h])
    BY <1>0, <2>3 DEF Routine, Health, KeptInv, PlainKept, OnPlain
  <2>7. r.health.stamp = stamps + 1
    <3> HIDE DEF h, r
    <3> QED BY <2>2, <2>3, <2>5, <2>6, PausedIs
  <2>8. r # routine
    BY <1>0, <2>7, Parts DEF KeptInv, StampsKept, Timely
  <2>9. CASE Unsaved /\ UNCHANGED <<stamps, own, signedOut>>
    <3>1. RosterTyped' /\ BoundTyped'
      BY <1>0, <2>1, <2>9 DEF Unsaved, RosterTyped, BoundTyped, boundVars, AtMostOne
    <3> QED BY <2>1, <2>9, <3>1, StillMoves, TypePartsNext DEF Unsaved, rosterVars
  <2>10. CASE turn.streak = routine.health.model /\ Update(routine) /\ stamps' = stamps
              /\ Owned(own) /\ SignedOut(routine)
    <3>1. routine' = routine /\ out' = <<routine>> /\ own' = own
      BY <2>10 DEF Update, Owned
    <3>2. RosterTyped' /\ BoundTyped'
      BY <1>0, <2>1, <2>10, <3>1, One, Parts
         DEF SignedOut, RosterTyped, BoundTyped, boundVars, AtMostOne
    <3>3. Moves
      BY <2>1, <2>10, <3>1, TouchedMoves DEF KeptInv, PlainKept, OnPlain
    <3> QED BY <2>1, <3>2, <3>3, TypePartsNext
  <2>11. CASE Update(r) /\ stamps' = stamps + 1 /\ Owned(o) /\ SignedOut(r)
    <3>1. routine' = r /\ out' = <<routine'>>
      BY <2>11 DEF Update
    <3>2. o.check <= h.check.retry /\ o.model <= h.model.retry
      BY <2>2, <2>3, <2>4 DEF Streaks, KeptInv, OwnKept
    <3> HIDE DEF h, o, r
    <3>3. FreshWrite
      BY <2>2, <2>3, <2>4, <2>5, <2>11, <3>1, <3>2, FreshIs
    <3>4. RosterTyped' /\ BoundTyped'
      BY <1>0, <2>1, <3>3, FreshTyped
    <3> QED BY <2>1, <3>3, <3>4, FreshMoves, TypePartsNext
  <2> HIDE DEF h, o, r
  <2> QED BY <1>3, <2>8, <2>9, <2>10, <2>11 DEF TurnEnds, o, r
<1>4. CASE Stop
  <2>1. RunTyped'
    BY <1>0, <1>4, TurnTyped
  <2>2. RosterTyped' /\ BoundTyped'
    BY <1>0, <1>4, One DEF Stop, Update, Call, RosterTyped, BoundTyped, AtMostOne
  <2>3. Moves
    BY <1>4, TouchedMoves DEF Stop, Update, KeptInv, PlainKept, OnPlain
  <2> QED BY <2>1, <2>2, <2>3, TypePartsNext
<1> QED BY <1>1, <1>2, <1>3, <1>4

-----------------------------------------------------------------------------
(* Changes by the user, and rosters.                                       *)

\* A change arms the routine anew, or leaves its arming and health as they are.
LEMMA ChangedIs ==
    ASSUME RoutineConstants, stamps \in Nat, now \in Nat, scan.time \in Nat,
           NEW r \in Routine, OnPlain(r), NEW x \in Changed(r)
    PROVE  /\ x \in Routine /\ OnPlain(x)
           /\ \/ x.armed = r.armed /\ x.health = r.health /\ x.taken = r.taken /\ ~x.on /\ x.reason = "none"
              \/ x = r
              \/ x.armed = stamps + 1 /\ (x.health.stamp = r.health.stamp \/ x.health.stamp = 0)
<1>1. CASE \E on \in BOOLEAN : x = Enabled(r, on)
  <2>1. PICK on \in BOOLEAN : x = Enabled(r, on)
    BY <1>1
  <2>2. x \in Routine
    BY <2>1, Changes
  <2>3. CASE on /\ ~r.on
    <3>1. x = [r EXCEPT !.on = TRUE, !.reason = "none", !.armed = stamps + 1, !.since = now,
                   !.health = [r.health EXCEPT !.check = NoStreak, !.model = NoStreak]]
      BY <2>1, <2>3 DEF Enabled
    <3>2. x.armed = stamps + 1 /\ x.reason = "none"
          /\ x.health = [r.health EXCEPT !.check = NoStreak, !.model = NoStreak]
      BY <3>1 DEF Routine
    <3>3. x.health.stamp = r.health.stamp
      BY <3>2, Parts DEF Health
    <3> QED BY <2>2, <3>2, <3>3 DEF OnPlain
  <2>4. CASE ~(on /\ ~r.on)
    <3>1. x = [r EXCEPT !.on = on, !.reason = "none"]
      BY <2>1, <2>4 DEF Enabled
    <3>2. /\ x.armed = r.armed /\ x.health = r.health /\ x.taken = r.taken
          /\ x.on = on /\ x.reason = "none"
      BY <3>1 DEF Routine
    <3>3. CASE on
      <4>1. x = r
        BY <2>4, <3>1, <3>3 DEF Routine, OnPlain
      <4> QED BY <4>1
    <3> QED BY <2>2, <3>2, <3>3 DEF OnPlain
  <2> QED BY <2>3, <2>4
<1>2. CASE \E c \in Scripts \cup {NoCheck} : x = Edited(r, c)
  <2>1. PICK c \in Scripts \cup {NoCheck} : x = Edited(r, c)
    BY <1>2
  <2>2. /\ x \in Routine /\ x.armed = stamps + 1 /\ x.health = NoHealth
        /\ x.on = r.on /\ x.reason = r.reason
    <3>1. x \in Routine
      BY <2>1, Changes
    <3>2. x = [r EXCEPT !.check = c, !.health = NoHealth, !.armed = stamps + 1, !.since = now]
      BY <2>1 DEF Edited
    <3>3. /\ x.armed = stamps + 1 /\ x.health = NoHealth
          /\ x.on = r.on /\ x.reason = r.reason
      BY <3>2 DEF Routine
    <3> QED BY <3>1, <3>3
  <2> QED BY <2>2, Founds DEF OnPlain
<1> QED BY <1>1, <1>2 DEF Changed

LEMMA ChangedHereMoves == ASSUME RoutineConstants, KeptInv, ChangedHere PROVE TypeOK' /\ Moves
<1>0. RosterTyped /\ RunTyped /\ BoundTyped /\ routine \in Routine /\ scan.time \in Nat
      /\ stamps \in Nat /\ now \in Nat /\ OnPlain(routine) /\ OwnTyped(own)
  BY TypeParts DEF KeptInv, PlainKept, RosterTyped, RunTyped, BoundTyped, OwnTyped, Scans
<1>1. /\ routine' \in Changed(routine) /\ out' = <<routine'>> /\ stamps' = stamps + 1
      /\ Owned(own) /\ Answered /\ UNCHANGED <<copy, sent, runVars, now, reboots>> /\ Call
  BY DEF ChangedHere, Update
<1>2. /\ routine' \in Routine /\ OnPlain(routine')
      /\ \/ /\ routine'.armed = routine.armed /\ routine'.health = routine.health
            /\ routine'.taken = routine.taken
         \/ /\ routine'.armed = stamps + 1
            /\ routine'.health.stamp = routine.health.stamp \/ routine'.health.stamp = 0
  BY <1>0, <1>1, ChangedIs
<1>3. own' \in {own, NothingOwn} /\ OwnTyped(own')
  BY <1>0, <1>1, NoneTyped DEF Owned, OwnTyped
<1>4. RosterTyped' /\ RunTyped' /\ BoundTyped'
  BY <1>0, <1>1, <1>2, <1>3, One
     DEF Answered, Call, RosterTyped, RunTyped, BoundTyped, runVars, OwnTyped, AtMostOne
<1>5. routine.armed \in Nat /\ routine.armed <= stamps /\ routine.health.stamp <= stamps
      /\ routine.health.stamp \in Nat
  BY <1>0, Parts DEF KeptInv, StampsKept, Timely
<1>6. Timely(routine)' /\ OnPlain(routine)'
  BY <1>0, <1>1, <1>2, <1>5 DEF Timely, OnPlain
<1>7. CASE routine'.armed = stamps + 1
  <2>1. own' = NothingOwn
    BY <1>0, <1>1, <1>5, <1>7 DEF Owned
  <2>2. OwnKept'
    BY <1>2, <2>1, Parts DEF OwnKept, NothingOwn
  <2>3. OwnMoves /\ stamps' >= stamps
    BY <1>0, <1>1, <2>1 DEF OwnMoves
  <2> QED BY <1>1, <1>4, <1>6, <2>2, <2>3, WrittenMoves, TypePartsNext
<1>8. CASE /\ routine'.armed = routine.armed /\ routine'.health = routine.health
           /\ routine'.taken = routine.taken
  <2>1. own' = own
    BY <1>1, <1>8 DEF Owned
  <2>2. OwnKept' /\ OwnMoves /\ stamps' >= stamps
    BY <1>0, <1>1, <1>5, <1>8, <2>1 DEF KeptInv, OwnKept, OwnMoves
  <2> QED BY <1>1, <1>4, <1>6, <2>2, WrittenMoves, TypePartsNext
<1> QED BY <1>2, <1>7, <1>8

LEMMA ThereMoves ==
    ASSUME RoutineConstants, KeptInv, ChangedThere \/ PulledThere PROVE TypeOK' /\ Moves
<1>0. RosterTyped /\ RunTyped /\ BoundTyped /\ routine \in Routine /\ copy \in Routine
      /\ scan.time \in Nat /\ stamps \in Nat /\ now \in Nat
      /\ copy \in Copies /\ OnPlain(copy) /\ Timely(copy)
  BY TypeParts DEF KeptInv, PlainKept, StampsKept, RosterTyped, RunTyped, BoundTyped, Copies, Scans
<1>1. RunTyped'
  BY <1>0 DEF ChangedThere, PulledThere, runVars, RunTyped
<1>2. /\ routine' = routine /\ own' = own
      /\ routine.armed \in Nat /\ routine.health.stamp \in Nat
  BY <1>0, Parts DEF ChangedThere, PulledThere
<1>3. CASE ChangedThere
  <2>1. /\ copy' \in Changed(copy) \cup {copy} /\ sent' = <<copy'>> /\ out' = out
        /\ stamps' = stamps + 1
    BY <1>3 DEF ChangedThere
  <2>2. /\ copy' \in Routine /\ OnPlain(copy')
        /\ \/ copy'.armed = copy.armed /\ copy'.health = copy.health
           \/ /\ copy'.armed = stamps + 1
              /\ copy'.health.stamp = copy.health.stamp \/ copy'.health.stamp = 0
    BY <1>0, <2>1, ChangedIs
  <2>3. Copies' \subseteq Copies \cup {copy'}
    BY <2>1, MembersOf DEF Copies, Members
  <2>4. RosterTyped' /\ BoundTyped'
    BY <1>0, <1>2, <1>3, <2>1, <2>2, One DEF ChangedThere, Call, RosterTyped, BoundTyped, AtMostOne
  <2>5. Moves
    <3>1. Timely(routine)' /\ OwnKept' /\ OnPlain(routine)' /\ stamps' >= stamps
      BY <1>0, <1>2, <2>1 DEF KeptInv, StampsKept, Timely, OwnKept, PlainKept, OnPlain
    <3>2. ASSUME NEW x \in Copies'
          PROVE  /\ OnPlain(x)
                 /\ \/ \E y \in Copies \cup {routine'} : x.armed = y.armed /\ x.health = y.health
                    \/ /\ x.armed = stamps' /\ x.health.stamp <= stamps /\ stamps' > stamps
                       /\ routine' = routine
      <4>1. CASE x \in Copies
        BY <4>1 DEF KeptInv, PlainKept
      <4>2. CASE x = copy'
        BY <1>0, <1>2, <2>1, <2>2, <4>2 DEF Timely
      <4> QED BY <2>3, <4>1, <4>2
    <3> QED BY <1>2, <3>1, <3>2 DEF Moves
  <2> QED BY <1>1, <2>4, <2>5, TypePartsNext
<1>4. CASE PulledThere
  <2>1. copy' = out[1] /\ out # <<>> /\ out' = <<>> /\ sent' \in {sent, <<>>}
        /\ stamps' = stamps
    BY <1>4 DEF PulledThere
  <2>2. copy' \in Routine /\ Copies' \subseteq Copies
    BY <1>0, <2>1, MembersOf, First DEF Copies, RosterTyped, Members
  <2>3. RosterTyped' /\ BoundTyped'
    BY <1>0, <1>2, <1>4, <2>1, <2>2, One DEF PulledThere, RosterTyped, BoundTyped, boundVars, AtMostOne
  <2>4. Moves
    BY <1>0, <1>2, <2>1, <2>2
       DEF KeptInv, StampsKept, Timely, OwnKept, PlainKept, OnPlain, Moves
  <2> QED BY <1>1, <2>3, <2>4, TypePartsNext
<1> QED BY <1>3, <1>4

\* What a roster leaves of the Runner's own record.
LEMMA KeptIs ==
    ASSUME NEW held \in Routine, NEW x \in Routine, OnPlain(x)
    PROVE  LET r == KeepChecks(held, x)
           IN /\ r \in Routine /\ OnPlain(r) /\ r.armed = x.armed
              /\ \/ r.health = x.health
                 \/ r.health = held.health /\ x.armed <= held.armed
              /\ x.armed <= held.armed => /\ r.taken >= held.taken
                                          /\ r.health.stamp >= held.health.stamp
              /\ x.armed <= held.armed /\ held.reason = "authentication" => ~r.on
<1> DEFINE t == KeptTaken(held, x)
           h == KeptHealth(held, t)
           p == KeptPause(held, h)
<1>1. /\ t \in Routine /\ t.armed = x.armed /\ t.health = x.health /\ t.on = x.on
      /\ t.reason = x.reason /\ t.taken >= held.taken
  BY Parts DEF KeptTaken, Routine
<1>2. /\ h \in Routine /\ h.armed = t.armed /\ h.on = t.on /\ h.reason = t.reason
      /\ h.taken = t.taken /\ h.health \in {t.health, held.health}
      /\ h.health.stamp >= held.health.stamp
  <2> HIDE DEF t
  <2>1. held.health \in Health /\ held.health.stamp \in Nat /\ t.health.stamp \in Nat
    BY <1>1, Parts
  <2>2. CASE held.health.stamp > t.health.stamp
    BY <1>1, <2>1, <2>2 DEF KeptHealth, Routine, Health
  <2>3. CASE ~(held.health.stamp > t.health.stamp)
    BY <1>1, <2>1, <2>3 DEF KeptHealth
  <2> QED BY <2>2, <2>3
<1>3. /\ p \in Routine /\ OnPlain(p) /\ p.armed = h.armed /\ p.taken = h.taken /\ p.health = h.health
      /\ held.reason = "authentication" => ~p.on
  <2>1. OnPlain(h)
    BY <1>1, <1>2 DEF OnPlain
  <2> HIDE DEF h
  <2>2. CASE held.reason = "authentication" /\ h.on
    BY <1>2, <2>2 DEF KeptPause, Routine, OnPlain
  <2>3. CASE ~(held.reason = "authentication" /\ h.on)
    BY <1>2, <2>1, <2>3 DEF KeptPause, OnPlain
  <2> QED BY <2>2, <2>3
<1>4. CASE x.armed <= held.armed
  <2>1. KeepChecks(held, x) = p
    BY <1>4 DEF KeepChecks
  <2> HIDE DEF p, h, t
  <2> QED BY <1>1, <1>2, <1>3, <1>4, <2>1
<1>5. CASE ~(x.armed <= held.armed)
  <2>1. KeepChecks(held, x) = x
    BY <1>5 DEF KeepChecks
  <2> QED BY <1>5, <2>1
<1> QED BY <1>4, <1>5

LEMMA PulledHereMoves == ASSUME KeptInv, PulledHere PROVE TypeOK' /\ Moves
<1> DEFINE x == sent[1]
           r == KeepChecks(routine, x)
<1>0. RosterTyped /\ RunTyped /\ BoundTyped /\ routine \in Routine /\ copy \in Routine
      /\ AtMostOne(sent) /\ AtMostOne(out) /\ stamps \in Nat /\ OwnTyped(own) /\ signedOut \in Nat
  BY TypeParts DEF KeptInv, RosterTyped, BoundTyped, OwnTyped
<1>1. /\ sent # <<>> /\ sent' = <<>> /\ routine' = r
      /\ out' = <<r>> \/ out' = out \/ out' = <<>>
      /\ Owned(own) /\ Answered /\ UNCHANGED <<copy, runVars, now, stamps, boundVars>>
  BY DEF PulledHere
<1>2. x \in Routine /\ x \in Copies
  BY <1>0, <1>1, First, MembersOf DEF Copies
<1>3. OnPlain(x) /\ Timely(x) /\ AsGood(x) /\ Timely(routine)
  BY <1>2 DEF KeptInv, PlainKept, StampsKept, CopiesKept
<1> HIDE DEF x
<1>4. /\ r \in Routine /\ OnPlain(r) /\ r.armed = x.armed
      /\ r.health = x.health \/ (r.health = routine.health /\ x.armed <= routine.armed)
      /\ x.armed <= routine.armed => r.taken >= routine.taken /\ r.health.stamp >= routine.health.stamp
  BY <1>0, <1>2, <1>3, KeptIs, Parts
<1> HIDE DEF r
<1>5. own' \in {own, NothingOwn} /\ OwnTyped(own') /\ signedOut' \in Nat
  BY <1>0, <1>1, NoneTyped DEF Owned, Answered, OwnTyped
<1>6. RunTyped' /\ RosterTyped' /\ BoundTyped'
  <2>1. RunTyped'
    BY <1>0, <1>1 DEF RunTyped, runVars
  <2>2. RosterTyped'
    BY <1>0, <1>1, <1>4, One DEF RosterTyped
  <2>3. BoundTyped'
    BY <1>0, <1>1, <1>5 DEF BoundTyped, boundVars, OwnTyped
  <2> QED BY <2>1, <2>2, <2>3
<1>7. stamps' >= stamps /\ Timely(routine)' /\ OnPlain(routine)'
  BY <1>0, <1>1, <1>3, <1>4 DEF Timely, OnPlain
<1>8. OwnKept' /\ OwnMoves
  <2>1. CASE r.armed # routine.armed
    <3>1. own' = NothingOwn
      BY <1>1, <2>1 DEF Owned
    <3> QED BY <1>1, <1>4, <3>1, Parts DEF OwnKept, OwnMoves, NothingOwn
  <2>2. CASE r.armed = routine.armed
    <3>1. own' = own /\ x.armed <= routine.armed /\ x.armed = routine.armed
      BY <1>0, <1>1, <1>4, <2>2, Parts DEF Owned
    <3>2. own.check <= r.health.check.retry /\ own.model <= r.health.model.retry
      BY <1>3, <1>4, <3>1 DEF AsGood, KeptInv, OwnKept
    <3>3. own.taken <= r.taken
      <4>1. own.taken \in Int /\ routine.taken \in Int /\ r.taken \in Int
        BY <1>0, <1>4, Parts DEF OwnTyped
      <4> QED BY <1>4, <3>1, <4>1 DEF KeptInv, OwnKept
    <3> QED BY <1>1, <1>4, <2>2, <3>1, <3>2, <3>3 DEF OwnKept, OwnMoves
  <2> QED BY <2>1, <2>2
<1>9. Copies' \subseteq Copies \cup {routine'}
  BY <1>1, MembersOf DEF Copies, Members
<1> QED BY <1>6, <1>7, <1>8, <1>9, TypePartsNext DEF KeptInv, PlainKept, OnPlain, Moves, OwnMoves

-----------------------------------------------------------------------------
(* The invariant holds.                                                    *)

LEMMA InitKept == ASSUME RoutineConstants, Init PROVE KeptInv
<1>1. TypeOK /\ RosterTyped
  BY TypeInit, TypeParts
<1>2. /\ routine.taken = 0 /\ routine.armed = 1 /\ routine.health.stamp = 0
      /\ routine.on = TRUE /\ routine.reason = "none"
  BY DEF Init, NoHealth
<1>3. own = NothingOwn /\ stamps = 1 /\ copy = routine /\ out = <<>> /\ sent = <<>>
  BY DEF Init
<1>4. Copies = {routine}
  BY <1>3, MembersOf DEF Copies
<1>5. routine.health.check.retry \in Nat /\ routine.health.model.retry \in Nat
  BY <1>1, Parts DEF RosterTyped
<1>6. OwnKept /\ CopiesKept
  BY <1>2, <1>3, <1>4, <1>5 DEF OwnKept, CopiesKept, AsGood, NothingOwn
<1>7. StampsKept /\ PlainKept
  BY <1>2, <1>3, <1>4 DEF StampsKept, Timely, PlainKept, OnPlain
<1> QED BY <1>1, <1>6, <1>7 DEF KeptInv

LEMMA KeptStep == ASSUME RoutineConstants, KeptInv, [Next]_vars PROVE KeptInv'
<1>1. CASE TickRead \/ TickAway \/ TickTake \/ TickStart
  BY <1>1, TickSteps, MovesKeep
<1>2. CASE LookEnds \/ LookRuns
  BY <1>2, LookSteps, MovesKeep
<1>3. CASE RunNowAsked \/ RunNowStarts \/ RunSent \/ TurnLooks \/ TurnResult \/ Pass \/ Restart
  BY <1>3, RunSteps, MovesKeep
<1>4. CASE Begin \/ TurnLooked \/ TurnEnds \/ Stop
  BY <1>4, TurnSteps, MovesKeep
<1>5. CASE ChangedHere
  BY <1>5, ChangedHereMoves, MovesKeep
<1>6. CASE ChangedThere \/ PulledThere
  BY <1>6, ThereMoves, MovesKeep
<1>7. CASE PulledHere
  BY <1>7, PulledHereMoves, MovesKeep
<1>8. CASE UNCHANGED vars
  <2>1. UNCHANGED <<rosterVars, stamps, own>>
    BY <1>8 DEF vars
  <2>2. TypeOK'
    BY <1>8 DEF KeptInv, TypeOK, vars, rosterVars, runVars, boundVars
  <2> QED BY <2>1, <2>2, StillMoves, MovesKeep
<1> QED BY <1>1, <1>2, <1>3, <1>4, <1>5, <1>6, <1>7, <1>8 DEF Next

LEMMA KeptAlways == ASSUME RoutineConstants PROVE Spec => []KeptInv
<1>1. Init => KeptInv
  BY InitKept
<1>2. KeptInv /\ [Next]_vars => KeptInv'
  BY KeptStep
<1> QED BY <1>1, <1>2, PTL DEF Spec

-----------------------------------------------------------------------------
(* Due times.                                                              *)

\* What is due lies after the last due time taken, and after the times of the next try.
LEMMA DueLater ==
    ASSUME KeptInv, TickRead PROVE now > own.taken /\ now >= own.check /\ now >= own.model
<1>1. /\ routine \in Routine /\ now \in Nat /\ OwnTyped(own)
      /\ NextRun(routine) <= now /\ OwnKept
  BY TypeParts DEF KeptInv, RosterTyped, BoundTyped, OwnTyped, TickRead
<1>2. /\ routine.taken \in Int /\ routine.ran \in Int /\ routine.health.at \in Int /\ routine.since \in Int
      /\ routine.health.check.retry \in Int /\ routine.health.model.retry \in Int
  BY <1>1, Parts
<1>3. Anchor(routine) \in Int /\ Anchor(routine) >= routine.taken
  <2>1. /\ Max({routine.taken, routine.ran, routine.health.at, routine.since})
             \in {routine.taken, routine.ran, routine.health.at, routine.since}
        /\ Max({routine.taken, routine.ran, routine.health.at, routine.since}) >= routine.taken
    BY <1>2, MaxOfFour, Zenon
  <2> QED BY <1>2, <2>1 DEF Anchor
<1>4. /\ RetryAt(routine) \in Int /\ RetryAt(routine) >= routine.health.check.retry
      /\ RetryAt(routine) >= routine.health.model.retry
  <2>1. /\ Max({routine.health.check.retry, routine.health.model.retry})
             \in {routine.health.check.retry, routine.health.model.retry}
        /\ Max({routine.health.check.retry, routine.health.model.retry}) >= routine.health.check.retry
        /\ Max({routine.health.check.retry, routine.health.model.retry}) >= routine.health.model.retry
    BY <1>2, MaxOfTwo, Zenon
  <2> QED BY <1>2, <2>1 DEF RetryAt
<1>5. /\ NextRun(routine) \in Int /\ NextRun(routine) >= Anchor(routine) + 1
      /\ NextRun(routine) >= RetryAt(routine)
  <2>1. Anchor(routine) + 1 \in Int
    BY <1>3
  <2>2. /\ Max({Anchor(routine) + 1, RetryAt(routine)}) \in {Anchor(routine) + 1, RetryAt(routine)}
        /\ Max({Anchor(routine) + 1, RetryAt(routine)}) >= Anchor(routine) + 1
        /\ Max({Anchor(routine) + 1, RetryAt(routine)}) >= RetryAt(routine)
    BY <1>4, <2>1, MaxOfTwo, Zenon
  <2> QED BY <1>4, <2>1, <2>2 DEF NextRun
<1>6. own.taken \in Int /\ own.check \in Int /\ own.model \in Int
  BY <1>1 DEF OwnTyped
<1> QED BY <1>1, <1>2, <1>3, <1>4, <1>5, <1>6 DEF OwnKept

LEMMA DueStep ==
    ASSUME KeptInv, [Next]_vars
    PROVE  scan.at = "idle" /\ scan'.at = "due" =>
              now > own.taken /\ now >= own.check /\ now >= own.model
<1> SUFFICES ASSUME scan.at = "idle", scan'.at = "due", ~TickRead PROVE FALSE
  BY DueLater
<1>1. scan' # scan /\ scan' # NoScan
  BY DEF NoScan
<1>2. TickAway \/ TickTake \/ TickStart \/ Restart
  BY <1>1 DEF Next, vars, runVars, LookEnds, LookRuns, RunNowAsked, RunNowStarts, RunSent, Begin, TurnLooks,
              TurnLooked, TurnResult, TurnEnds, Stop, ChangedHere, ChangedThere, PulledThere, PulledHere, Pass
<1> QED BY <1>1, <1>2 DEF TickAway, TickTake, TickStart, Restart

-----------------------------------------------------------------------------
(* The theorems.                                                           *)

\* Every variable of a routine keeps its type.
THEOREM RoutineTyped == ASSUME RoutineConstants PROVE Spec => []TypeOK
<1>1. KeptInv => TypeOK
  BY DEF KeptInv
<1> QED BY <1>1, KeptAlways, PTL

\* For any schedule, check and number of calls and restarts: a due time is taken once, and a
\* failed check or run is tried again no sooner than its retry, whatever rosters arrive.
THEOREM RoutineDueOnce == ASSUME RoutineConstants PROVE Spec => TakenOnce
<1>1. KeptInv /\ [Next]_vars =>
         [scan.at = "idle" /\ scan'.at = "due" =>
            now > own.taken /\ now >= own.check /\ now >= own.model]_vars
  BY DueStep
<1> QED BY <1>1, KeptAlways, PTL DEF Spec, TakenOnce

-----------------------------------------------------------------------------
(* Connector limits: the inductive invariant.                              *)

\* Finite sets and their sizes are the same ones there.
LEMMA SameFinite == \A S : Admits!IsFiniteSet(S) <=> IsFiniteSet(S)
BY Zenon DEF Admits!IsFiniteSet, IsFiniteSet

LEMMA SameCardinality == \A S : Admits!Cardinality(S) = Cardinality(S)
BY Zenon DEF Admits!Cardinality, Cardinality

LimitsTyped ==
    /\ now \in Nat
    /\ limits \in [Admits!Buckets -> [calls : Nat, atOnce : Nat]]
    /\ stored.limits \in [Admits!Buckets -> [calls : Nat, atOnce : Nat]]
    /\ until \in [Accounts -> Nat] /\ guided \in [Accounts -> Nat]
    /\ stored.until \in [Accounts -> Nat]
    /\ call \in [Calls -> {"idle", "waiting", "running", "done"}]
    /\ active \in [Admits!Buckets -> Nat]

\* What a bucket keeps are finite sets of starts, and all of its calls that started in the
\* window are in them, in memory and in the store.
StartsKept ==
    \A k \in Admits!Buckets :
        /\ IsFiniteSet(starts[k]) /\ IsFiniteSet(stored.starts[k])
        /\ \A b \in starts[k] \cup stored.starts[k] \cup began[k] : b.at \in Nat
        /\ Admits!Since(began[k]) \subseteq starts[k] \cap stored.starts[k]

\* It counts the calls that run, and waits as it was asked to.
RunningCounted == \A k \in Admits!Buckets : active[k] = Cardinality(Admits!Running(k))
WaitsKept == \A a \in Accounts : guided[a] <= until[a]

LimitsInv == LimitsTyped /\ StartsKept /\ RunningCounted /\ WaitsKept

\* It holds of a Runner that has started.
LEMMA LimitsInit == ASSUME Admits!LimitsConstants, Admits!Init PROVE LimitsInv
<1>1. Service \in Admits!Buckets /\ \A a \in Accounts : a \in Admits!Buckets
  BY DEF Admits!Buckets
<1>2. Settings \subseteq [calls : Nat, atOnce : Nat]
  BY DEF Admits!LimitsConstants
<1>3. LimitsTyped
  BY <1>2 DEF Admits!Init, LimitsTyped, Admits!Kept
<1>4. StartsKept
  BY FS_EmptySet DEF Admits!Init, StartsKept, Admits!Kept, Admits!Since
<1>5. RunningCounted
  <2>1. \A k \in Admits!Buckets : Admits!Running(k) = {}
    BY DEF Admits!Init, Admits!Running
  <2> QED BY <2>1, FS_EmptySet DEF Admits!Init, RunningCounted
<1>6. WaitsKept
  BY DEF Admits!Init, WaitsKept
<1> QED BY <1>3, <1>4, <1>5, <1>6 DEF LimitsInv

\* The calls that run are as many as the bound allows.
LEMMA RunningFinite ==
    ASSUME Admits!LimitsConstants, NEW k
    PROVE  IsFiniteSet(Admits!Running(k)) /\ Cardinality(Admits!Running(k)) \in Nat
<1>1. Admits!Running(k) \subseteq Calls /\ IsFiniteSet(Calls)
  BY SameFinite DEF Admits!Running, Admits!LimitsConstants
<1> QED BY <1>1, FS_Subset, FS_CardinalityType

\* What is kept of the starts may shrink to those in the window.
LEMMA InWindowKeeps ==
    ASSUME StartsKept, NEW k \in Admits!Buckets
    PROVE  /\ Admits!InWindow(k) \subseteq starts[k] /\ IsFiniteSet(Admits!InWindow(k))
           /\ Admits!Since(began[k]) \subseteq Admits!InWindow(k)
<1>1. Admits!InWindow(k) \subseteq starts[k]
  BY DEF Admits!InWindow, Admits!Since
<1>2. Admits!Since(began[k]) \subseteq Admits!InWindow(k)
  BY DEF StartsKept, Admits!InWindow, Admits!Since
<1> QED BY <1>1, <1>2, FS_Subset DEF StartsKept

\* A step that stores nothing and leaves each bucket with starts of its own that are no fewer
\* than those in the window.
LEMMA StartsStay ==
    ASSUME StartsKept, now' = now, began' = began, stored' = stored,
           \A k \in Admits!Buckets : /\ starts'[k] \subseteq starts[k]
                              /\ Admits!Since(began[k]) \subseteq starts'[k]
    PROVE  StartsKept'
<1> SUFFICES ASSUME NEW k \in Admits!Buckets
             PROVE  /\ IsFiniteSet(starts'[k]) /\ IsFiniteSet(stored'.starts[k])
                    /\ \A b \in starts'[k] \cup stored'.starts[k] \cup began'[k] : b.at \in Nat
                    /\ Admits!Since(began[k])' \subseteq starts'[k] \cap stored'.starts[k]
  BY DEF StartsKept
<1>1. Admits!Since(began[k])' = Admits!Since(began[k])
  BY DEF Admits!Since
<1>2. IsFiniteSet(starts'[k])
  BY FS_Subset DEF StartsKept
<1> QED BY <1>1, <1>2 DEF StartsKept

\* Where the calls that run stay the same, so does their number.
LEMMA CountedStay ==
    ASSUME RunningCounted, active' = active,
           \A c \in Calls : call[c] = "running" <=> call'[c] = "running"
    PROVE  RunningCounted'
<1>1. \A k \in Admits!Buckets : Admits!Running(k)' = Admits!Running(k)
  BY DEF Admits!Running, Admits!Keys
<1> QED BY <1>1 DEF RunningCounted

-----------------------------------------------------------------------------
(* Each step keeps it.                                                     *)

LEMMA AdmitKeeps ==
    ASSUME Admits!LimitsConstants, LimitsInv, NEW c \in Calls, Admits!Admit(c)
    PROVE  LimitsInv'
<1>1. Admits!Keys(c) \subseteq Admits!Buckets
  BY DEF Admits!Keys, Admits!Buckets, Admits!LimitsConstants
<1>2. LimitsTyped'
  <2>1. active' \in [Admits!Buckets -> Nat]
    BY DEF Admits!Admit, LimitsInv, LimitsTyped
  <2>2. call' \in [Calls -> {"idle", "waiting", "running", "done"}]
    BY DEF Admits!Admit, LimitsInv, LimitsTyped
  <2>3. stored'.limits = limits /\ stored'.until = until
    BY DEF Admits!Admit, Admits!Saved, Admits!Kept
  <2> QED BY <2>1, <2>2, <2>3 DEF Admits!Admit, LimitsInv, LimitsTyped
<1>3. ASSUME NEW k \in Admits!Buckets
      PROVE  /\ starts'[k] = IF k \in Admits!Keys(c) THEN Admits!InWindow(k) \cup {Admits!Start(c)} ELSE starts[k]
             /\ began'[k] = IF k \in Admits!Keys(c) THEN began[k] \cup {Admits!Start(c)} ELSE began[k]
             /\ stored'.starts[k] = starts'[k]
  BY DEF Admits!Admit, Admits!Saved, Admits!Kept
<1>4. StartsKept'
  <2> SUFFICES ASSUME NEW k \in Admits!Buckets
               PROVE  /\ IsFiniteSet(starts'[k])
                      /\ \A b \in starts'[k] \cup began'[k] : b.at \in Nat
                      /\ Admits!Since(began[k])' \subseteq starts'[k]
    BY <1>3 DEF StartsKept
  <2>1. now' = now /\ now \in Nat /\ Admits!Start(c).at = now
    BY DEF Admits!Admit, LimitsInv, LimitsTyped, Admits!Start
  <2>2. /\ Admits!InWindow(k) \subseteq starts[k] /\ IsFiniteSet(Admits!InWindow(k))
        /\ Admits!Since(began[k]) \subseteq Admits!InWindow(k) /\ IsFiniteSet(starts[k])
        /\ \A b \in starts[k] \cup began[k] : b.at \in Nat
    BY InWindowKeeps DEF LimitsInv, StartsKept
  <2>3. IsFiniteSet(Admits!InWindow(k) \cup {Admits!Start(c)})
    BY <2>2, FS_AddElement
  <2>4. Admits!Since(began[k])' \subseteq Admits!Since(began[k]) \cup ({Admits!Start(c)} \cap began'[k])
    BY <1>3, <2>1 DEF Admits!Since
  <2>5. IF k \in Admits!Keys(c) THEN TRUE ELSE Admits!Since(began[k])' = Admits!Since(began[k])
    BY <1>3, <2>1 DEF Admits!Since
  <2>6. CASE k \in Admits!Keys(c)
    BY <2>1, <2>2, <2>3, <2>4, <2>6, <1>3
  <2>7. CASE k \notin Admits!Keys(c)
    BY <2>1, <2>2, <2>5, <2>7, <1>3
  <2> QED BY <2>6, <2>7
<1>5. RunningCounted'
  <2> SUFFICES ASSUME NEW k \in Admits!Buckets PROVE active'[k] = Cardinality(Admits!Running(k)')
    BY DEF RunningCounted
  <2>1. active'[k] = active[k] + (IF k \in Admits!Keys(c) THEN 1 ELSE 0)
    BY DEF Admits!Admit
  <2>2. Admits!Running(k)' = IF k \in Admits!Keys(c) THEN Admits!Running(k) \cup {c} ELSE Admits!Running(k)
    BY DEF Admits!Admit, Admits!Running, Admits!Keys, LimitsInv, LimitsTyped
  <2>3. c \notin Admits!Running(k)
    BY DEF Admits!Admit, Admits!Running
  <2>4. active[k] = Cardinality(Admits!Running(k)) /\ active[k] \in Nat
    BY DEF LimitsInv, RunningCounted, LimitsTyped
  <2>5. IsFiniteSet(Admits!Running(k))
    BY RunningFinite
  <2>6. Cardinality(Admits!Running(k) \cup {c}) = Cardinality(Admits!Running(k)) + 1
    BY <2>3, <2>5, FS_AddElement
  <2>7. CASE k \in Admits!Keys(c)
    BY <2>1, <2>2, <2>4, <2>6, <2>7
  <2>8. CASE k \notin Admits!Keys(c)
    BY <2>1, <2>2, <2>4, <2>8
  <2> QED BY <2>7, <2>8
<1>6. WaitsKept'
  BY DEF Admits!Admit, LimitsInv, WaitsKept
<1> QED BY <1>2, <1>4, <1>5, <1>6 DEF LimitsInv

LEMMA WaitingKeeps ==
    ASSUME Admits!LimitsConstants, LimitsInv, NEW c \in Calls,
           Admits!Ask(c) \/ Admits!AdmitUnsaved(c) \/ Admits!Look(c) \/ Admits!Stop(c)
    PROVE  LimitsInv'
<1>1. /\ UNCHANGED <<limits, until, active, stored, now, began, guided>>
      /\ call[c] \in {"idle", "waiting"}
      /\ \/ call' = [call EXCEPT ![c] = "waiting"]
         \/ call' = [call EXCEPT ![c] = "done"]
      /\ \A k \in Admits!Buckets : starts'[k] \in {starts[k], Admits!InWindow(k)}
  <2>1. CASE Admits!Ask(c)
    BY <2>1 DEF Admits!Ask, LimitsInv
  <2>2. CASE Admits!AdmitUnsaved(c)
    BY <2>2 DEF Admits!AdmitUnsaved, Admits!TakenBack, Admits!Refused
  <2>3. CASE Admits!Look(c)
    BY <2>3 DEF Admits!Look
  <2>4. CASE Admits!Stop(c)
    BY <2>4 DEF Admits!Stop
  <2> QED BY <2>1, <2>2, <2>3, <2>4
<1>2. LimitsTyped'
  BY <1>1 DEF LimitsInv, LimitsTyped
<1>3. StartsKept'
  <2>1. \A k \in Admits!Buckets : starts'[k] \subseteq starts[k] /\ Admits!Since(began[k]) \subseteq starts'[k]
    BY <1>1, InWindowKeeps DEF LimitsInv, StartsKept
  <2> QED BY <1>1, <2>1, StartsStay DEF LimitsInv
<1>4. RunningCounted'
  <2>1. \A x \in Calls : call[x] = "running" <=> call'[x] = "running"
    BY <1>1 DEF LimitsInv, LimitsTyped
  <2> QED BY <1>1, <2>1, CountedStay DEF LimitsInv
<1>5. WaitsKept'
  BY <1>1 DEF LimitsInv, WaitsKept
<1> QED BY <1>2, <1>3, <1>4, <1>5 DEF LimitsInv

LEMMA FinishKeeps ==
    ASSUME Admits!LimitsConstants, LimitsInv, NEW c \in Calls, Admits!Finish(c)
    PROVE  LimitsInv'
<1>1. LimitsTyped'
  <2>1. active' \in [Admits!Buckets -> Nat]
    BY DEF Admits!Finish, LimitsInv, LimitsTyped
  <2> QED BY <2>1 DEF Admits!Finish, LimitsInv, LimitsTyped
<1>2. StartsKept'
  <2>1. \A k \in Admits!Buckets : starts'[k] \subseteq starts[k] /\ Admits!Since(began[k]) \subseteq starts'[k]
    BY DEF Admits!Finish, LimitsInv, StartsKept
  <2> QED BY <2>1, StartsStay DEF Admits!Finish, LimitsInv
<1>3. RunningCounted'
  <2> SUFFICES ASSUME NEW k \in Admits!Buckets PROVE active'[k] = Cardinality(Admits!Running(k)')
    BY DEF RunningCounted
  <2>1. active'[k] = IF k \in Admits!Keys(c) /\ active[k] > 0 THEN active[k] - 1 ELSE active[k]
    BY DEF Admits!Finish
  <2>2. Admits!Running(k)' = IF k \in Admits!Keys(c) THEN Admits!Running(k) \ {c} ELSE Admits!Running(k)
    BY DEF Admits!Finish, Admits!Running, Admits!Keys, LimitsInv, LimitsTyped
  <2>3. k \in Admits!Keys(c) => c \in Admits!Running(k)
    BY DEF Admits!Finish, Admits!Running
  <2>4. active[k] = Cardinality(Admits!Running(k)) /\ active[k] \in Nat /\ IsFiniteSet(Admits!Running(k))
    BY RunningFinite DEF LimitsInv, RunningCounted, LimitsTyped
  <2>5. k \in Admits!Keys(c) => active[k] # 0
    BY <2>3, <2>4, FS_EmptySet
  <2>6. IF k \in Admits!Keys(c) THEN Cardinality(Admits!Running(k) \ {c}) = Cardinality(Admits!Running(k)) - 1 ELSE TRUE
    BY <2>3, <2>4, FS_RemoveElement
  <2> QED BY <2>1, <2>2, <2>4, <2>5, <2>6
<1>4. WaitsKept'
  BY DEF Admits!Finish, LimitsInv, WaitsKept
<1> QED BY <1>1, <1>2, <1>3, <1>4 DEF LimitsInv

\* Saving, or not, what is in memory.
LEMMA SavedStarts ==
    ASSUME StartsKept, now' = now, began' = began, starts' = starts,
           stored'.starts = starts' \/ stored' = stored
    PROVE  StartsKept'
<1> SUFFICES ASSUME NEW k \in Admits!Buckets
             PROVE  /\ IsFiniteSet(starts'[k]) /\ IsFiniteSet(stored'.starts[k])
                    /\ \A b \in starts'[k] \cup stored'.starts[k] \cup began'[k] : b.at \in Nat
                    /\ Admits!Since(began[k])' \subseteq starts'[k] \cap stored'.starts[k]
  BY DEF StartsKept
<1>1. Admits!Since(began[k])' = Admits!Since(began[k])
  BY DEF Admits!Since
<1> QED BY <1>1 DEF StartsKept

LEMMA SettingKeeps ==
    ASSUME Admits!LimitsConstants, LimitsInv, NEW a \in Accounts,
           Admits!Cooldown(a) \/ \E k \in Admits!Buckets : Admits!Set(a, k)
    PROVE  LimitsInv'
<1>1. /\ UNCHANGED <<starts, active, call, now, began>>
      /\ limits' \in [Admits!Buckets -> [calls : Nat, atOnce : Nat]]
      /\ until' \in [Accounts -> Nat] /\ guided' \in [Accounts -> Nat]
      /\ WaitsKept'
      /\ stored' = Admits!Kept' \/ stored' = stored
  <2>1. CASE Admits!Cooldown(a)
    <3>1. PICK t \in now + 1 .. MaxTime :
              /\ until' = [until EXCEPT ![a] = Admits!LongestAsked(a, t)]
              /\ guided' = [guided EXCEPT ![a] = IF t > @ THEN t ELSE @]
      BY <2>1 DEF Admits!Cooldown
    <3>2. t \in Nat /\ Admits!LongestAsked(a, t) \in Nat
      BY <3>1 DEF LimitsInv, LimitsTyped, Admits!LimitsConstants, Admits!LongestAsked
    <3>3. until' \in [Accounts -> Nat] /\ guided' \in [Accounts -> Nat]
      BY <3>1, <3>2 DEF LimitsInv, LimitsTyped
    <3>4. WaitsKept'
      BY <3>1, <3>2 DEF LimitsInv, LimitsTyped, WaitsKept, Admits!LongestAsked
    <3> QED BY <2>1, <3>3, <3>4 DEF Admits!Cooldown, Admits!Saved, Admits!Refused, LimitsInv, LimitsTyped
  <2>2. CASE \E k \in Admits!Buckets : Admits!Set(a, k)
    <3>1. PICK k \in Admits!Buckets : Admits!Set(a, k)
      BY <2>2
    <3>2. limits' \in [Admits!Buckets -> [calls : Nat, atOnce : Nat]]
      BY <3>1 DEF Admits!Set, LimitsInv, LimitsTyped, Admits!LimitsConstants
    <3>3. WaitsKept'
      BY <3>1 DEF Admits!Set, LimitsInv, LimitsTyped, WaitsKept
    <3>4. until' \in [Accounts -> Nat] /\ guided' \in [Accounts -> Nat]
      BY <3>1 DEF Admits!Set, LimitsInv, LimitsTyped
    <3>5. UNCHANGED <<starts, active, call, now, began>> /\ stored' = Admits!Kept'
      BY <3>1 DEF Admits!Set, Admits!Saved
    <3> QED BY <3>2, <3>3, <3>4, <3>5
  <2> QED BY <2>1, <2>2
<1>2. \/ stored' = stored
      \/ stored'.limits = limits' /\ stored'.until = until' /\ stored'.starts = starts'
  BY <1>1 DEF Admits!Kept
<1>3. LimitsTyped'
  BY <1>1, <1>2 DEF LimitsInv, LimitsTyped
<1>4. StartsKept'
  BY <1>1, <1>2, SavedStarts DEF LimitsInv
<1>5. RunningCounted'
  BY <1>1, CountedStay DEF LimitsInv
<1> QED BY <1>1, <1>3, <1>4, <1>5 DEF LimitsInv

LEMMA RestartKeeps ==
    ASSUME Admits!LimitsConstants, LimitsInv, Admits!Restart PROVE LimitsInv'
<1>1. LimitsTyped'
  BY DEF Admits!Restart, Admits!Read, LimitsInv, LimitsTyped
<1>2. StartsKept'
  <2>1. \A k \in Admits!Buckets : Admits!Since(began[k])' = Admits!Since(began[k])
    BY DEF Admits!Restart, Admits!Since
  <2> QED BY <2>1 DEF Admits!Restart, Admits!Read, LimitsInv, StartsKept
<1>3. RunningCounted'
  <2>1. \A k \in Admits!Buckets : Admits!Running(k)' = {}
    BY DEF Admits!Restart, Admits!Running
  <2> QED BY <2>1, FS_EmptySet DEF Admits!Restart, RunningCounted
<1>4. WaitsKept'
  BY DEF Admits!Restart, Admits!Read, LimitsInv, LimitsTyped, WaitsKept
<1> QED BY <1>1, <1>2, <1>3, <1>4 DEF LimitsInv

LEMMA PassKeeps ==
    ASSUME Admits!LimitsConstants, LimitsInv, Admits!Pass PROVE LimitsInv'
<1>1. LimitsTyped'
  BY DEF Admits!Pass, LimitsInv, LimitsTyped
<1>2. StartsKept'
  <2> SUFFICES ASSUME NEW k \in Admits!Buckets PROVE Admits!Since(began[k])' \subseteq Admits!Since(began[k])
    BY DEF Admits!Pass, LimitsInv, StartsKept
  <2>1. \A b \in began[k] : b.at \in Nat
    BY DEF LimitsInv, StartsKept
  <2>2. now' = now + 1 /\ began' = began /\ now \in Nat /\ Window \in Nat
    BY DEF Admits!Pass, LimitsInv, LimitsTyped, Admits!LimitsConstants
  <2> QED BY <2>1, <2>2 DEF Admits!Since
<1>3. RunningCounted'
  BY CountedStay DEF Admits!Pass, LimitsInv
<1>4. WaitsKept'
  BY DEF Admits!Pass, LimitsInv, WaitsKept
<1> QED BY <1>1, <1>2, <1>3, <1>4 DEF LimitsInv

\* A call that starts finds room in both buckets, and the wait over.
LEMMA AdmitWithin ==
    ASSUME Admits!LimitsConstants, LimitsInv, LimitsInv', NEW c \in Calls, Admits!Admit(c)
    PROVE  Admits!WithinLimits /\ Admits!Waits
<1>1. \A x \in Calls : Admits!Begins(x) => x = c
  BY DEF Admits!Begins, Admits!Admit, LimitsInv, LimitsTyped
<1>2. ASSUME NEW k \in Admits!Keys(c) PROVE Admits!Recent(k) <= limits[k].calls
  <2>1. k \in Admits!Buckets
    BY <1>2 DEF Admits!Keys, Admits!Buckets, Admits!LimitsConstants
  <2>2. /\ IsFiniteSet(Admits!InWindow(k)) /\ Admits!Since(began[k]) \subseteq Admits!InWindow(k)
    BY <2>1, InWindowKeeps DEF LimitsInv
  <2>3. Admits!Since(began'[k]) \subseteq Admits!Since(began[k]) \cup {Admits!Start(c)}
    BY <2>1, <1>2 DEF Admits!Admit, Admits!Since
  <2>4. Admits!Since(began'[k]) \subseteq Admits!InWindow(k) \cup {Admits!Start(c)}
    BY <2>2, <2>3
  <2>5. /\ IsFiniteSet(Admits!InWindow(k) \cup {Admits!Start(c)})
        /\ Cardinality(Admits!InWindow(k) \cup {Admits!Start(c)}) <= Cardinality(Admits!InWindow(k)) + 1
        /\ Cardinality(Admits!InWindow(k)) \in Nat
    BY <2>2, FS_AddElement, FS_CardinalityType
  <2>6. /\ Cardinality(Admits!Since(began'[k])) <= Cardinality(Admits!InWindow(k) \cup {Admits!Start(c)})
        /\ IsFiniteSet(Admits!Since(began'[k]))
    BY <2>4, <2>5, FS_Subset
  <2>7. Cardinality(Admits!InWindow(k)) < limits[k].calls /\ limits[k].calls \in Nat
    BY <2>1, <1>2, SameCardinality DEF Admits!Admit, Admits!Free, LimitsInv, LimitsTyped
  <2>8. /\ Cardinality(Admits!Since(began'[k])) \in Nat
        /\ Cardinality(Admits!InWindow(k) \cup {Admits!Start(c)}) \in Nat
    BY <2>5, <2>6, FS_CardinalityType
  <2>9. Admits!Recent(k) = Cardinality(Admits!Since(began'[k]))
    BY SameCardinality DEF Admits!Recent
  <2> QED BY <2>5, <2>6, <2>7, <2>8, <2>9
<1>3. ASSUME NEW k \in Admits!Keys(c) PROVE Cardinality(Admits!Running(k)') <= limits[k].atOnce
  <2>1. k \in Admits!Buckets
    BY <1>3 DEF Admits!Keys, Admits!Buckets, Admits!LimitsConstants
  <2>2. active'[k] = Cardinality(Admits!Running(k)')
    BY <2>1 DEF LimitsInv, RunningCounted
  <2>3. /\ active'[k] = active[k] + 1 /\ active[k] < limits[k].atOnce
        /\ active[k] \in Nat /\ limits[k].atOnce \in Nat
    BY <2>1, <1>3 DEF Admits!Admit, Admits!Free, LimitsInv, LimitsTyped
  <2> QED BY <2>2, <2>3
<1>4. Admits!WithinLimits
  BY <1>1, <1>2, <1>3, SameCardinality DEF Admits!WithinLimits
<1>5. AccountOf[c] \in Accounts
  BY DEF Admits!LimitsConstants
<1>6. guided[AccountOf[c]] <= now
  BY <1>5 DEF Admits!Admit, Admits!Free, LimitsInv, WaitsKept, LimitsTyped
<1>7. Admits!Waits
  BY <1>1, <1>6 DEF Admits!Waits
<1> QED BY <1>4, <1>7

-----------------------------------------------------------------------------
(* The theorem.                                                            *)

LEMMA LimitsStep ==
    ASSUME Admits!LimitsConstants, "forgotten" \notin Occurs, LimitsInv, [Admits!Next]_Admits!vars
    PROVE  LimitsInv' /\ Admits!WithinLimits /\ Admits!Waits
<1> DEFINE Quiet == \A c \in Calls : ~Admits!Begins(c)
<1>1. Quiet => Admits!WithinLimits /\ Admits!Waits
  BY DEF Admits!WithinLimits, Admits!Waits
<1>2. ASSUME NEW c \in Calls, Admits!Admit(c) PROVE LimitsInv' /\ Admits!WithinLimits /\ Admits!Waits
  BY <1>2, AdmitKeeps, AdmitWithin
<1>3. ASSUME NEW c \in Calls, Admits!Ask(c) \/ Admits!AdmitUnsaved(c) \/ Admits!Look(c) \/ Admits!Stop(c)
      PROVE  LimitsInv' /\ Quiet
  BY <1>3, WaitingKeeps DEF Admits!Ask, Admits!AdmitUnsaved, Admits!Look, Admits!Stop, Admits!Begins, LimitsInv, LimitsTyped
<1>4. ASSUME NEW c \in Calls, Admits!Finish(c) PROVE LimitsInv' /\ Quiet
  BY <1>4, FinishKeeps DEF Admits!Finish, Admits!Begins, LimitsInv, LimitsTyped
<1>5. ASSUME NEW a \in Accounts, Admits!Cooldown(a) \/ \E k \in Admits!Buckets : Admits!Set(a, k)
      PROVE  LimitsInv' /\ Quiet
  BY <1>5, SettingKeeps DEF Admits!Cooldown, Admits!Set, Admits!Begins
<1>6. CASE Admits!Restart
  <2>1. Quiet
    BY <1>6 DEF Admits!Restart, Admits!Begins
  <2> QED BY <1>6, <2>1, <1>1, RestartKeeps
<1>7. CASE Admits!Forget
  BY <1>7 DEF Admits!Forget
<1>8. CASE Admits!Pass
  <2>1. Quiet
    BY <1>8 DEF Admits!Pass, Admits!Begins
  <2> QED BY <1>8, <2>1, <1>1, PassKeeps
<1>9. CASE UNCHANGED Admits!vars
  <2>1. Quiet
    BY <1>9 DEF Admits!vars, Admits!Begins
  <2>2. LimitsTyped' /\ WaitsKept'
    BY <1>9 DEF Admits!vars, LimitsInv, LimitsTyped, WaitsKept
  <2>3. StartsKept'
    BY <1>9, SavedStarts DEF Admits!vars, LimitsInv
  <2>4. RunningCounted'
    BY <1>9, CountedStay DEF Admits!vars, LimitsInv
  <2> QED BY <2>1, <2>2, <2>3, <2>4, <1>1 DEF LimitsInv
<1> QED BY <1>1, <1>2, <1>3, <1>4, <1>5, <1>6, <1>7, <1>8, <1>9 DEF Admits!Next

\* A service never sees more calls of its accounts in a window, or at once, than the user set,
\* and none before the moment it asked for, across restarts and writes that failed, unless the
\* Runner forgets its identity while calls run (connector_limits.rs, acquire).
THEOREM CallsStayWithin ==
    ASSUME Admits!LimitsConstants, "forgotten" \notin Occurs PROVE Admits!Spec => Admits!StaysWithinLimits
<1>1. Admits!Init => LimitsInv
  BY LimitsInit
<1>2. LimitsInv /\ [Admits!Next]_Admits!vars => LimitsInv'
  BY LimitsStep
<1>3. LimitsInv /\ [Admits!Next]_Admits!vars => [Admits!WithinLimits /\ Admits!Waits]_Admits!vars
  BY LimitsStep
<1> QED BY <1>1, <1>2, <1>3, PTL DEF Admits!Spec, Admits!StaysWithinLimits

-----------------------------------------------------------------------------
(* Budgets: sums over model calls.                                         *)

LEMMA SameCount == \A S : Ledger!Cardinality(S) = Cardinality(S)
BY Zenon DEF Ledger!Cardinality, Cardinality

LEMMA CallsFinite == ASSUME Ledger!BudgetConstants PROVE IsFiniteSet(ModelCalls)
<1>1. Ledger!IsFiniteSet(ModelCalls)
  BY DEF Ledger!BudgetConstants
<1> QED BY <1>1, Zenon DEF Ledger!IsFiniteSet, IsFiniteSet

\* Induction over the subsets of a finite set: a set G of them that holds each
\* one whose proper subsets it holds, holds them all.
LEMMA EverySubset ==
    ASSUME NEW S, IsFiniteSet(S), NEW G \in SUBSET SUBSET S,
           \A t \in SUBSET S : (\A u \in SUBSET t : u # t => u \in G) => t \in G
    PROVE  G = SUBSET S
<1> SUFFICES ASSUME (SUBSET S) \ G # {} PROVE FALSE
  OBVIOUS
<1> DEFINE R == StrictSubsetOrdering(S)
           Z == SUBSET S
           T == Z \ G
<1>1. IsWellFoundedOn(R, Z)
  <2>1. IsWellFoundedOn(StrictSubsetOrdering(S), FiniteSubsetsOf(S))
    BY FS_StrictSubsetOrderingWellFounded, Zenon
  <2>2. FiniteSubsetsOf(S) = SUBSET S
    BY FS_FiniteSubsetsOfFinite, Zenon
  <2> QED BY <2>1, <2>2, Zenon
<1>2. T \subseteq Z /\ T # {}
  OBVIOUS
<1>3. \A t, u \in Z : (<<u, t>> \in R) = (u \subseteq t /\ u # t)
  BY DEF StrictSubsetOrdering
<1>4. \E t \in T : \A u \in T : ~(<<u, t>> \in R)
  <2> HIDE DEF R, T, Z
  <2> QED BY <1>1, <1>2, WFMin
<1>5. PICK t \in T : \A u \in T : ~(<<u, t>> \in R)
  BY <1>4
<1> HIDE DEF R
<1>6. \A u \in SUBSET t : u # t => u \in G
  BY <1>3, <1>5
<1> QED BY <1>5, <1>6

\* A finite set of integers has a least one.
LEMMA LeastOf ==
    ASSUME NEW S \in SUBSET Int, IsFiniteSet(S), S # {}
    PROVE  Ledger!Min(S) \in S /\ \A x \in S : Ledger!Min(S) <= x
<1> DEFINE G == {t \in SUBSET S : t # {} => \E x \in t : \A y \in t : x <= y}
<1>1. ASSUME NEW t \in SUBSET S, \A u \in SUBSET t : u # t => u \in G PROVE t \in G
  <2>1. SUFFICES ASSUME t # {} PROVE \E x \in t : \A y \in t : x <= y
    OBVIOUS
  <2>2. PICK z \in t : TRUE
    BY <2>1
  <2>3. t \ {z} \in G
    BY <1>1
  <2>4. CASE t \ {z} = {}
    BY <2>2, <2>4
  <2>5. CASE t \ {z} # {}
    <3>1. PICK x \in t \ {z} : \A y \in t \ {z} : x <= y
      BY <2>3, <2>5
    <3>2. CASE x <= z
      BY <3>1, <3>2
    <3>3. CASE ~(x <= z)
      BY <2>2, <3>1, <3>3
    <3> QED BY <3>2, <3>3
  <2> QED BY <2>4, <2>5
<1> HIDE DEF G
<1>2. G = SUBSET S
  <2>1. G \in SUBSET SUBSET S
    BY DEF G
  <2> QED BY <1>1, <2>1, EverySubset
<1>3. \E x \in S : \A y \in S : x <= y
  BY <1>2 DEF G
<1> QED BY <1>3 DEF Ledger!Min

\* The values of f over a finite set are finitely many.
LEMMA FiniteImage ==
    ASSUME NEW S, IsFiniteSet(S), NEW f PROVE IsFiniteSet({f[x] : x \in S})
<1> DEFINE Image(t) == {f[x] : x \in t}
           G == {t \in SUBSET S : IsFiniteSet(Image(t))}
<1>1. ASSUME NEW t \in SUBSET S, \A u \in SUBSET t : u # t => u \in G PROVE t \in G
  <2>1. CASE t = {}
    <3>1. Image(t) = {}
      BY <2>1
    <3> QED BY <3>1, FS_EmptySet
  <2>2. CASE t # {}
    <3>1. PICK z \in t : TRUE
      BY <2>2
    <3>2. IsFiniteSet(Image(t \ {z}))
      BY <1>1, <3>1
    <3>3. Image(t) = Image(t \ {z}) \cup {f[z]}
      BY <3>1
    <3> HIDE DEF Image
    <3>4. IsFiniteSet(Image(t \ {z}) \cup {f[z]})
      BY <3>2, FS_AddElement, Zenon
    <3>5. IsFiniteSet(Image(t))
      BY <3>3, <3>4
    <3> QED BY <3>5
  <2> QED BY <2>1, <2>2
<1> HIDE DEF G
<1>2. G = SUBSET S
  <2>1. G \in SUBSET SUBSET S
    BY DEF G
  <2> QED BY <1>1, <2>1, EverySubset
<1>3. S \in G
  BY <1>2
<1> QED BY <1>3 DEF G

\* What h[s] is, when h sums f.
Adds(h, f, s) ==
    h[s] = IF s = {} THEN 0 ELSE f[CHOOSE c \in s : TRUE] + h[s \ {CHOOSE c \in s : TRUE}]

\* h sums f over the sets of model calls.
IsTotal(h, f) ==
    h = [s \in SUBSET ModelCalls |->
            IF s = {} THEN 0 ELSE f[CHOOSE c \in s : TRUE] + h[s \ {CHOOSE c \in s : TRUE}]]

Total(f) == (CHOOSE h : IsTotal(h, f))[ModelCalls]

\* Two sums of f over the subsets of t agree on it.
LEMMA OneSum ==
    ASSUME NEW t, IsFiniteSet(t), NEW f, NEW g, NEW h,
           \A s \in SUBSET t : Adds(g, f, s), \A s \in SUBSET t : Adds(h, f, s)
    PROVE  g[t] = h[t]
<1> DEFINE G == {s \in SUBSET t : g[s] = h[s]}
<1>1. ASSUME NEW s \in SUBSET t, \A u \in SUBSET s : u # s => u \in G PROVE s \in G
  <2>1. CASE s = {}
    BY <2>1 DEF Adds
  <2>2. CASE s # {}
    <3> DEFINE c == CHOOSE c \in s : TRUE
    <3>1. c \in s
      BY <2>2
    <3>2. s \ {c} \in G
      BY <1>1, <3>1
    <3> QED BY <2>2, <3>2 DEF Adds
  <2> QED BY <2>1, <2>2
<1> HIDE DEF G
<1>2. G = SUBSET t
  <2>1. G \in SUBSET SUBSET t
    BY DEF G
  <2> QED BY <1>1, <2>1, EverySubset
<1> QED BY <1>2 DEF G

\* There is a sum of f over the subsets of S.
LEMMA SomeSum ==
    ASSUME NEW S, IsFiniteSet(S), NEW f
    PROVE  \E h : \A s \in SUBSET S : Adds(h, f, s)
<1> DEFINE Sums(h, t) == \A s \in SUBSET t : Adds(h, f, s)
           k == [t \in SUBSET S |-> (CHOOSE z : Sums(z, t))[t]]
           G == {t \in SUBSET S : \E h : Sums(h, t)}
<1>1. ASSUME NEW t \in G PROVE Adds(k, f, t)
  <2>1. PICK h : h = (CHOOSE z : Sums(z, t)) /\ Sums(h, t)
    OBVIOUS
  <2>2. k[t] = h[t] /\ Adds(h, f, t) /\ t \in SUBSET S
    BY <2>1
  <2>3. CASE t = {}
    BY <2>2, <2>3 DEF Adds
  <2>4. CASE t # {}
    <3> DEFINE c == CHOOSE c \in t : TRUE
               u == t \ {c}
    <3>1. u \in SUBSET t /\ u \in SUBSET S /\ h[t] = f[c] + h[u]
      BY <2>2, <2>4 DEF Adds
    <3> HIDE DEF u
    <3>2. Sums(h, u)
      BY <2>1, <3>1
    <3>3. PICK g : g = (CHOOSE z : Sums(z, u)) /\ Sums(g, u)
      BY <3>2
    <3>4. k[u] = g[u]
      BY <3>1, <3>3
    <3>5. IsFiniteSet(u)
      BY <3>1, FS_Subset
    <3> HIDE DEF k
    <3>6. g[u] = h[u]
      BY <3>2, <3>3, <3>5, OneSum
    <3> QED BY <2>2, <2>4, <3>1, <3>4, <3>6 DEF Adds, u
  <2> QED BY <2>3, <2>4
<1>2. DOMAIN k = SUBSET S
  OBVIOUS
<1> HIDE DEF k
<1>3. ASSUME NEW t \in SUBSET S, \A u \in SUBSET t : u # t => u \in G PROVE t \in G
  <2> DEFINE v == IF t = {} THEN 0 ELSE f[CHOOSE c \in t : TRUE] + k[t \ {CHOOSE c \in t : TRUE}]
             h == [k EXCEPT ![t] = v]
  <2>1. ASSUME NEW s \in SUBSET t, s # t PROVE Adds(h, f, s)
    <3>1. Adds(k, f, s) /\ s \in SUBSET S
      BY <1>1, <1>3, <2>1
    <3>2. h[s] = k[s]
      BY <1>2, <2>1, <3>1
    <3>3. h[s \ {CHOOSE c \in s : TRUE}] = k[s \ {CHOOSE c \in s : TRUE}]
      BY <1>2, <2>1, <3>1
    <3> HIDE DEF h
    <3> QED BY <3>1, <3>2, <3>3 DEF Adds
  <2>2. Adds(h, f, t)
    <3>1. h[t] = v
      BY <1>2
    <3>2. ASSUME t # {} PROVE h[t \ {CHOOSE c \in t : TRUE}] = k[t \ {CHOOSE c \in t : TRUE}]
      <4>1. (CHOOSE c \in t : TRUE) \in t
        BY <3>2
      <4>2. t \ {CHOOSE c \in t : TRUE} # t
        BY <4>1
      <4> QED BY <1>2, <4>2
    <3> HIDE DEF h
    <3> QED BY <3>1, <3>2 DEF Adds
  <2> HIDE DEF h
  <2>3. Sums(h, t)
    BY <2>1, <2>2
  <2> QED BY <2>3
<1>4. S \in G
  <2> HIDE DEF G
  <2>1. G \in SUBSET SUBSET S
    BY DEF G
  <2>2. G = SUBSET S
    BY <1>3, <2>1, EverySubset
  <2> QED BY <2>2
<1> QED BY <1>4

\* The sum of f over all model calls.
LEMMA TotalAdds ==
    ASSUME IsFiniteSet(ModelCalls), NEW f
    PROVE  \E h : Total(f) = h[ModelCalls] /\ \A s \in SUBSET ModelCalls : Adds(h, f, s)
<1>1. PICK g : \A s \in SUBSET ModelCalls : Adds(g, f, s)
  BY SomeSum
<1> DEFINE h == [s \in SUBSET ModelCalls |-> g[s]]
<1>2. IsTotal(h, f)
  <2>1. ASSUME NEW s \in SUBSET ModelCalls
        PROVE  g[s] = IF s = {} THEN 0
                      ELSE f[CHOOSE c \in s : TRUE] + h[s \ {CHOOSE c \in s : TRUE}]
    <3>1. s \ {CHOOSE c \in s : TRUE} \in SUBSET ModelCalls
      OBVIOUS
    <3>2. h[s \ {CHOOSE c \in s : TRUE}] = g[s \ {CHOOSE c \in s : TRUE}]
      BY <3>1
    <3> QED BY <1>1, <3>2 DEF Adds
  <2>2. h = [s \in SUBSET ModelCalls |->
                IF s = {} THEN 0
                ELSE f[CHOOSE c \in s : TRUE] + h[s \ {CHOOSE c \in s : TRUE}]]
    BY <2>1
  <2> QED BY <2>2 DEF IsTotal
<1> HIDE DEF h
<1>3. PICK k : k = (CHOOSE z : IsTotal(z, f)) /\ IsTotal(k, f)
  BY <1>2
<1>4. \A s \in SUBSET ModelCalls : Adds(k, f, s)
  BY <1>3 DEF IsTotal, Adds
<1> QED BY <1>3, <1>4 DEF Total

\* Sums of integers are integers, and what one term gains the sum gains.
LEMMA TotalIs ==
    ASSUME IsFiniteSet(ModelCalls), NEW f \in [ModelCalls -> Int]
    PROVE  /\ Total(f) \in Int
           /\ (\A c \in ModelCalls : f[c] = 0) => Total(f) = 0
           /\ (\A c \in ModelCalls : f[c] >= 0) => Total(f) >= 0
<1>1. PICK h : Total(f) = h[ModelCalls] /\ \A s \in SUBSET ModelCalls : Adds(h, f, s)
  BY TotalAdds
<1> DEFINE G == {s \in SUBSET ModelCalls :
                    /\ h[s] \in Int
                    /\ (\A c \in ModelCalls : f[c] = 0) => h[s] = 0
                    /\ (\A c \in ModelCalls : f[c] >= 0) => h[s] >= 0}
<1>2. ASSUME NEW s \in SUBSET ModelCalls, \A u \in SUBSET s : u # s => u \in G PROVE s \in G
  <2>1. CASE s = {}
    <3>1. h[s] = 0
      BY <1>1, <2>1 DEF Adds
    <3> QED BY <2>1, <3>1
  <2>2. CASE s # {}
    <3> DEFINE c == CHOOSE c \in s : TRUE
    <3>1. c \in s /\ c \in ModelCalls
      BY <2>2
    <3>2. s \ {c} \in G
      BY <1>2, <3>1
    <3>3. h[s] = f[c] + h[s \ {c}]
      BY <1>1, <2>2 DEF Adds
    <3> HIDE DEF c
    <3> QED BY <3>1, <3>2, <3>3
  <2> QED BY <2>1, <2>2
<1> HIDE DEF G
<1>3. G = SUBSET ModelCalls
  <2>1. G \in SUBSET SUBSET ModelCalls
    BY DEF G
  <2> QED BY <1>2, <2>1, EverySubset
<1>4. ModelCalls \in G
  BY <1>3
<1> QED BY <1>1, <1>4 DEF G

LEMMA TotalChange ==
    ASSUME IsFiniteSet(ModelCalls), NEW f \in [ModelCalls -> Int], NEW x \in ModelCalls,
           NEW v \in Int
    PROVE  Total([f EXCEPT ![x] = v]) = Total(f) + v - f[x]
<1> DEFINE g == [f EXCEPT ![x] = v]
<1>0. g[x] = v /\ \A c \in ModelCalls : g[c] \in Int /\ (c # x => g[c] = f[c])
  OBVIOUS
<1> HIDE DEF g
<1>1. PICK h : Total(f) = h[ModelCalls] /\ \A s \in SUBSET ModelCalls : Adds(h, f, s)
  BY TotalAdds
<1>2. PICK k : Total(g) = k[ModelCalls] /\ \A s \in SUBSET ModelCalls : Adds(k, g, s)
  BY TotalAdds
<1> DEFINE G == {s \in SUBSET ModelCalls :
                    h[s] \in Int /\ k[s] = h[s] + (IF x \in s THEN v - f[x] ELSE 0)}
<1>3. ASSUME NEW s \in SUBSET ModelCalls, \A u \in SUBSET s : u # s => u \in G PROVE s \in G
  <2>1. CASE s = {}
    <3>1. h[s] = 0 /\ k[s] = 0
      BY <1>1, <1>2, <2>1 DEF Adds
    <3> QED BY <2>1, <3>1
  <2>2. CASE s # {}
    <3> DEFINE c == CHOOSE c \in s : TRUE
    <3>1. c \in s /\ c \in ModelCalls
      BY <2>2
    <3>2. s \ {c} \in G
      BY <1>3, <3>1
    <3>3. h[s] = f[c] + h[s \ {c}] /\ k[s] = g[c] + k[s \ {c}]
      BY <1>1, <1>2, <2>2 DEF Adds
    <3> HIDE DEF c
    <3>4. CASE c = x
      BY <1>0, <3>1, <3>2, <3>3, <3>4
    <3>5. CASE c # x
      BY <1>0, <3>1, <3>2, <3>3, <3>5
    <3> QED BY <3>4, <3>5
  <2> QED BY <2>1, <2>2
<1> HIDE DEF G
<1>4. G = SUBSET ModelCalls
  <2>1. G \in SUBSET SUBSET ModelCalls
    BY DEF G
  <2> QED BY <1>3, <2>1, EverySubset
<1>5. ModelCalls \in G
  BY <1>4
<1>6. Total(g) = Total(f) + (v - f[x]) /\ Total(f) \in Int
  BY <1>1, <1>2, <1>5 DEF G
<1>7. Total(g) = Total(f) + v - f[x]
  BY <1>6
<1> QED BY <1>7 DEF g

\* The sums that the ledger's operators are.
LEMMA ReservedIs == ASSUME NEW r PROVE Ledger!Reserved(r) = Total(r.pending)
BY DEF Ledger!Reserved, Ledger!MapThenSumSet, Ledger!MapThenFoldSet, IsTotal, Total

\* What the calls that are open have reserved of r.
OpenIn(cs, r) == Total([c \in ModelCalls |-> IF cs[c] = "open" THEN r.pending[c] ELSE 0])

LEMMA OpenIs ==
    ASSUME IsFiniteSet(ModelCalls), NEW cs, NEW r
    PROVE  Ledger!MapThenSumSet(LAMBDA c : IF cs[c] = "open" THEN r.pending[c] ELSE 0, ModelCalls)
                    = OpenIn(cs, r)
<1> DEFINE g == [c \in ModelCalls |-> IF cs[c] = "open" THEN r.pending[c] ELSE 0]
           Sums(h) == h = [s \in SUBSET ModelCalls |->
              IF s = {} THEN 0
              ELSE (IF cs[CHOOSE c \in s : TRUE] = "open"
                    THEN r.pending[CHOOSE c \in s : TRUE] ELSE 0)
                     + h[s \ {CHOOSE c \in s : TRUE}]]
<1>1. Ledger!MapThenSumSet(LAMBDA c : IF cs[c] = "open" THEN r.pending[c] ELSE 0, ModelCalls)
               = (CHOOSE h : Sums(h))[ModelCalls]
  BY DEF Ledger!MapThenSumSet, Ledger!MapThenFoldSet
<1>2. ASSUME NEW h PROVE Sums(h) = IsTotal(h, g)
  <2>1. \A s \in SUBSET ModelCalls : s # {} => (CHOOSE c \in s : TRUE) \in ModelCalls
    OBVIOUS
  <2>2. \A s \in SUBSET ModelCalls : s # {} =>
           g[CHOOSE c \in s : TRUE] = IF cs[CHOOSE c \in s : TRUE] = "open"
                                      THEN r.pending[CHOOSE c \in s : TRUE] ELSE 0
    BY <2>1
  <2> HIDE DEF g
  <2> QED BY <2>2 DEF IsTotal
<1> HIDE DEF Sums, g
<1>3. (CHOOSE h : Sums(h)) = (CHOOSE h : IsTotal(h, g))
  BY <1>2, Zenon
<1> QED BY <1>1, <1>3 DEF Total, OpenIn, g

-----------------------------------------------------------------------------
(* Budgets: records.                                                       *)

\* Reasons for a stop.
Stops == {"tokens", "time", "calls", "interrupted"}

IsLimit(l) == /\ l.tokens \in Nat \cup {Ledger!None} /\ l.time \in Nat \cup {Ledger!None}
              /\ l.calls \in Nat \cup {Ledger!None}

IsRec(r) ==
    /\ DOMAIN r = {"limits", "used", "state", "started", "active", "pending"}
    /\ IsLimit(r.limits)
    /\ DOMAIN r.used = {"tokens", "time", "calls"}
    /\ r.used.tokens \in Nat /\ r.used.time \in Nat /\ r.used.calls \in Nat
    /\ r.state \in Ledger!States /\ r.active \in Nat /\ r.started \in Nat \cup {Ledger!None}
    /\ r.pending \in [ModelCalls -> 0..Ledger!Input + Output]

\* q counts the same work and time as r.
Alike(r, q) ==
    IsRec(q) /\ q.active = r.active /\ q.started = r.started /\ q.used.time = r.used.time

\* q has the same tokens to use as r.
Level(r, q) ==
    q.limits = r.limits /\ q.used.tokens = r.used.tokens /\ q.pending = r.pending

LEMMA RecPresent == ASSUME NEW r, IsRec(r) PROVE Ledger!Present(r)
BY DEF IsRec, Ledger!Present, Ledger!States

\* What changes a record but not its work and time.
LEMMA StateChanges ==
    ASSUME NEW r, IsRec(r), NEW v \in Ledger!States
    PROVE  Alike(r, [r EXCEPT !.state = v]) /\ Level(r, [r EXCEPT !.state = v])
BY DEF Alike, IsRec, Level

LEMMA LimitsChange ==
    ASSUME NEW r, IsRec(r), NEW l, IsLimit(l) PROVE Alike(r, [r EXCEPT !.limits = l])
BY DEF Alike, IsRec

LEMMA PendingChanges ==
    ASSUME NEW r, IsRec(r), NEW p \in [ModelCalls -> 0..Ledger!Input + Output]
    PROVE  /\ Alike(r, [r EXCEPT !.pending = p]) /\ [r EXCEPT !.pending = p].pending = p
           /\ [r EXCEPT !.pending = p].limits = r.limits
           /\ [r EXCEPT !.pending = p].used = r.used
BY DEF Alike, IsRec

LEMMA TokensChange ==
    ASSUME NEW r, IsRec(r), NEW n \in Nat
    PROVE  /\ Alike(r, [r EXCEPT !.used.tokens = n])
           /\ [r EXCEPT !.used.tokens = n].limits = r.limits
           /\ [r EXCEPT !.used.tokens = n].pending = r.pending
           /\ [r EXCEPT !.used.tokens = n].used.tokens = n
BY DEF Alike, IsRec

LEMMA CallsChange ==
    ASSUME NEW r, IsRec(r), NEW n \in Nat
    PROVE  Alike(r, [r EXCEPT !.used.calls = n]) /\ Level(r, [r EXCEPT !.used.calls = n])
BY DEF Alike, IsRec, Level

LEMMA LimitsAre == ASSUME Ledger!BudgetConstants, NEW l \in Limits PROVE IsLimit(l)
<1>1. l \in [{"tokens", "time", "calls"} -> Nat \cup {Ledger!None}]
  BY DEF Ledger!BudgetConstants
<1> QED BY <1>1 DEF IsLimit

LEMMA FreshRec ==
    ASSUME Ledger!BudgetConstants, NEW l, IsLimit(l)
    PROVE  /\ IsRec(Ledger!Fresh(l)) /\ Ledger!Fresh(l).active = 0 /\ Ledger!Fresh(l).started = Ledger!None
           /\ Ledger!Fresh(l).used.time = 0 /\ Ledger!Fresh(l).used.tokens = 0 /\ Ledger!Fresh(l).limits = l
           /\ \A c \in ModelCalls : Ledger!Fresh(l).pending[c] = 0
<1>1. 0 \in 0..Ledger!Input + Output
  BY DEF Ledger!BudgetConstants, Ledger!Input
<1>2. [c \in ModelCalls |-> 0] \in [ModelCalls -> 0..Ledger!Input + Output]
  BY <1>1
<1> QED BY <1>2 DEF IsRec, Ledger!Fresh, Ledger!Unused, Ledger!None, Ledger!States

LEMMA NotPresent == ~Ledger!Present(Ledger!Absent)
BY DEF Ledger!Present, Ledger!Absent

LEMMA RefusalIs ==
    ASSUME NEW r, IsRec(r) PROVE Ledger!Refusal(r) \in Stops \cup {"none"}
BY DEF Ledger!Refusal, Ledger!IsStopped, Stops

LEMMA FirstIs ==
    ASSUME NEW K \in SUBSET (Jobs \cup {Regular}), NEW why,
           \A k \in K : why[k] \in Stops \cup {"none"}
    PROVE  /\ Ledger!First(K, why) \in Stops \cup {"none"}
           /\ Ledger!First(K, why) = "none" => \A k \in K : why[k] = "none"
<1> DEFINE refusing == {k \in K : why[k] # "none"}
<1>1. CASE refusing = {}
  BY <1>1 DEF Ledger!First
<1>2. CASE refusing # {} /\ refusing \cap Jobs # {}
  <2>1. (CHOOSE j \in refusing \cap Jobs : TRUE) \in refusing
    BY <1>2
  <2>2. Ledger!First(K, why) = why[CHOOSE j \in refusing \cap Jobs : TRUE]
    BY <1>2 DEF Ledger!First
  <2> QED BY <2>1, <2>2
<1>3. CASE refusing # {} /\ refusing \cap Jobs = {}
  <2>1. Regular \in refusing
    BY <1>3
  <2>2. Ledger!First(K, why) = why[Regular]
    BY <1>3 DEF Ledger!First
  <2> QED BY <2>1, <2>2
<1> QED BY <1>1, <1>2, <1>3

LEMMA StopsAre == Stops \subseteq Ledger!States
BY DEF Stops, Ledger!States

-----------------------------------------------------------------------------
(* Budgets: the work and the time of each scope.                           *)

BudgetTyped ==
    /\ now \in Nat /\ DOMAIN rec = Ledger!Scopes /\ DOMAIN ran = Ledger!Scopes
    /\ \A s \in Ledger!Scopes : Ledger!Present(rec[s]) => IsRec(rec[s]) /\ rec[s].started <= now
    /\ work \in [Ledger!Works -> {"idle", "admitted", "running", "ended", "over"}]
    /\ keys \in [Ledger!Works -> SUBSET (Jobs \cup {Regular})]
    /\ \A w \in Ledger!Works : IsFiniteSet(keys[w])
    /\ \A s \in Ledger!Scopes : IsFiniteSet(Ledger!CountedIn(s))

\* A scope counts its work and the time of it; a write that the store refused
\* leaves work that has ended counted, never the other way round.
Counts(s) ==
    /\ Ledger!CountedIn(s) # {} => Ledger!Present(rec[s])
    /\ Ledger!Present(rec[s]) =>
                 /\ Cardinality(Ledger!CountedIn(s)) <= rec[s].active
                 /\ (rec[s].started = Ledger!None) = (rec[s].active = 0)
                 /\ "unsaved" \notin Occurs => /\ rec[s].active = Cardinality(Ledger!CountedIn(s))
                                               /\ rec[s].used.time + Ledger!Elapsed(rec[s]) = ran[s]

BudgetInv == BudgetTyped /\ \A s \in Ledger!Scopes : Counts(s)

\* What the invariant says of one record; nothing works for one at rest.
LEMMA AtRest ==
    ASSUME BudgetInv, NEW s \in Ledger!Scopes
    PROVE  /\ IsFiniteSet(Ledger!CountedIn(s)) /\ Cardinality(Ledger!CountedIn(s)) \in Nat /\ now \in Nat
           /\ Ledger!Present(rec[s]) => /\ IsRec(rec[s]) /\ rec[s].started <= now
                                        /\ Ledger!Elapsed(rec[s]) \in Nat
           /\ Ledger!Present(rec[s]) /\ rec[s].started = Ledger!None =>
                        rec[s].active = 0 /\ Ledger!CountedIn(s) = {} /\ Ledger!Elapsed(rec[s]) = 0
<1>1. IsFiniteSet(Ledger!CountedIn(s)) /\ Cardinality(Ledger!CountedIn(s)) \in Nat
  BY FS_CardinalityType DEF BudgetInv, BudgetTyped
<1>2. (Ledger!CountedIn(s) = {}) = (Cardinality(Ledger!CountedIn(s)) = 0)
  BY <1>1, FS_EmptySet
<1>3. now \in Nat /\ (Ledger!Present(rec[s]) => IsRec(rec[s]) /\ rec[s].started <= now)
  BY DEF BudgetInv, BudgetTyped
<1>4. Ledger!Present(rec[s]) => Ledger!Elapsed(rec[s]) \in Nat
  BY <1>3 DEF Ledger!Elapsed, IsRec
<1>5. Counts(s)
  BY DEF BudgetInv
<1>6. Ledger!Present(rec[s]) /\ rec[s].started = Ledger!None =>
                 rec[s].active = 0 /\ Ledger!CountedIn(s) = {} /\ Ledger!Elapsed(rec[s]) = 0
  BY <1>1, <1>2, <1>3, <1>5 DEF Counts, Ledger!Elapsed
<1> QED BY <1>1, <1>3, <1>4, <1>6

LEMMA InitBudget == ASSUME Ledger!BudgetConstants, Ledger!Init PROVE BudgetInv
<1>1. \A s \in Ledger!Scopes : rec[s] \in {Ledger!Absent} \cup {Ledger!Fresh(l) : l \in Limits}
  BY DEF Ledger!Init
<1>2. ASSUME NEW s \in Ledger!Scopes, Ledger!Present(rec[s])
      PROVE  /\ IsRec(rec[s]) /\ rec[s].active = 0 /\ rec[s].started = Ledger!None
             /\ rec[s].used.time = 0
  <2>1. PICK l \in Limits : rec[s] = Ledger!Fresh(l)
    BY <1>1, <1>2, NotPresent
  <2> QED BY <2>1, LimitsAre, FreshRec
<1>3. \A s \in Ledger!Scopes : Ledger!CountedIn(s) = {}
  BY DEF Ledger!Init, Ledger!CountedIn
<1>4. now = 0 /\ ran = [s \in Ledger!Scopes |-> 0]
  BY DEF Ledger!Init
<1>5. IsFiniteSet({}) /\ Cardinality({}) = 0
  BY FS_EmptySet
<1>6. BudgetTyped
  <2>1. \A s \in Ledger!Scopes : Ledger!Present(rec[s]) => IsRec(rec[s]) /\ rec[s].started <= now
    BY <1>2, <1>4 DEF Ledger!None
  <2>2. /\ DOMAIN rec = Ledger!Scopes /\ keys = [w \in Ledger!Works |-> {}]
        /\ work = [w \in Ledger!Works |-> "idle"]
    BY DEF Ledger!Init
  <2> QED BY <1>3, <1>4, <1>5, <2>1, <2>2 DEF BudgetTyped
<1>7. ASSUME NEW s \in Ledger!Scopes PROVE Counts(s)
  <2>1. Cardinality(Ledger!CountedIn(s)) = 0 /\ Ledger!CountedIn(s) = {} /\ ran[s] = 0
    BY <1>3, <1>4, <1>5
  <2>2. Ledger!Present(rec[s]) => Ledger!Elapsed(rec[s]) = 0
    BY <1>2 DEF Ledger!Elapsed
  <2> QED BY <1>2, <2>1, <2>2 DEF Counts
<1> QED BY <1>6, <1>7 DEF BudgetInv

\* One record of a ledger, as a step that begins and ends no work may make it of r.
Same(r, q) == Ledger!Present(r) /\ Ledger!Present(q) /\ Alike(r, q)
Gone(r, q) == ~Ledger!Present(q) /\ (Ledger!Present(r) => r.started = Ledger!None)
Made(r, q) == /\ ~Ledger!Present(r) /\ Ledger!Present(q) /\ IsRec(q)
              /\ q.active = 0 /\ q.started = Ledger!None /\ q.used.time = 0

From(rs) == DOMAIN rs = Ledger!Scopes /\ \A s \in Ledger!Scopes :
               Same(rec[s], rs[s]) \/ Gone(rec[s], rs[s]) \/ Made(rec[s], rs[s])

LEMMA RecIs == ASSUME BudgetInv PROVE From(rec) /\ \A s \in Ledger!Scopes : Ledger!Present(rec[s]) => IsRec(rec[s])
<1>1. \A s \in Ledger!Scopes : Ledger!Present(rec[s]) => IsRec(rec[s])
  BY DEF BudgetInv, BudgetTyped
<1>2. DOMAIN rec = Ledger!Scopes
  BY DEF BudgetInv, BudgetTyped
<1> QED BY <1>1, <1>2 DEF From, Same, Gone, Alike

\* The records of a step that begins and ends no work keep the invariant.
LEMMA FromKeeps ==
    ASSUME BudgetInv, From(rec'), now' = now,
           work' \in [Ledger!Works -> {"idle", "admitted", "running", "ended", "over"}],
           keys' \in [Ledger!Works -> SUBSET (Jobs \cup {Regular})],
           \A w \in Ledger!Works : IsFiniteSet(keys'[w]),
           \A s \in Ledger!Scopes : Ledger!CountedIn(s)' = Ledger!CountedIn(s),
           DOMAIN ran' = Ledger!Scopes,
           \A s \in Ledger!Scopes : ran'[s] = IF Ledger!Present(rec'[s]) /\ ~Ledger!Present(rec[s]) THEN 0 ELSE ran[s]
    PROVE  BudgetInv'
<1>1. ASSUME NEW s \in Ledger!Scopes
      PROVE  Counts(s)' /\ (Ledger!Present(rec'[s]) => IsRec(rec'[s]) /\ rec'[s].started <= now')
  <2>1. CASE Same(rec[s], rec'[s])
    <3>1. Ledger!Elapsed(rec[s])' = Ledger!Elapsed(rec[s])
      BY <2>1 DEF Same, Alike, Ledger!Elapsed
    <3>2. Counts(s) /\ rec[s].started <= now
      BY <2>1, AtRest DEF BudgetInv, Same
    <3> QED BY <2>1, <3>1, <3>2 DEF Counts, Same, Alike
  <2>2. CASE Gone(rec[s], rec'[s])
    <3>1. Ledger!CountedIn(s) = {}
      BY <2>2, AtRest DEF BudgetInv, Counts, Gone
    <3> QED BY <2>2, <3>1 DEF Gone, Counts
  <2>3. CASE Made(rec[s], rec'[s])
    <3>1. Ledger!CountedIn(s)' = {}
      BY <2>3 DEF BudgetInv, Counts, Made
    <3>2. Ledger!Elapsed(rec[s])' = 0 /\ ran'[s] = 0
      BY <2>3 DEF Made, Ledger!Elapsed
    <3>3. rec'[s].started <= now'
      BY <2>3 DEF Made, Ledger!None, BudgetInv, BudgetTyped
    <3> QED BY <3>1, <3>2, <3>3, <2>3, FS_EmptySet DEF Made, Counts
  <2> QED BY <2>1, <2>2, <2>3 DEF From
<1>2. BudgetTyped'
  BY <1>1 DEF BudgetInv, BudgetTyped, From
<1> QED BY <1>1, <1>2 DEF BudgetInv

\* The records of a call's scopes change, but not what they count.
LEMMA CallKeeps ==
    ASSUME BudgetInv, UNCHANGED <<now, work, keys, ran>>, DOMAIN rec' = Ledger!Scopes,
           \A s \in Ledger!Scopes : rec'[s] = rec[s] \/ Same(rec[s], rec'[s])
    PROVE  BudgetInv'
<1>1. From(rec')
  BY RecIs DEF From
<1>2. \A s \in Ledger!Scopes : Ledger!Present(rec'[s]) => Ledger!Present(rec[s])
  BY DEF Same
<1>3. \A s \in Ledger!Scopes : Ledger!CountedIn(s)' = Ledger!CountedIn(s)
  BY DEF Ledger!CountedIn
<1> QED BY <1>1, <1>2, <1>3, FromKeeps DEF BudgetInv, BudgetTyped

-----------------------------------------------------------------------------
(* What the steps make of the ledger.                                      *)

LEMMA StoppedFrom ==
    ASSUME NEW rs, From(rs), NEW K, \A k \in K : k \in Ledger!Scopes => Ledger!Present(rs[k]), NEW why \in Stops
    PROVE  From(Ledger!Stopped(rs, K, why))
           /\ \A s \in Ledger!Scopes : Ledger!Present(Ledger!Stopped(rs, K, why)[s]) => Ledger!Present(rs[s])
<1> DEFINE q == Ledger!Stopped(rs, K, why)
<1>1. DOMAIN q = Ledger!Scopes /\ \A s \in Ledger!Scopes :
         q[s] = IF s \in K THEN [rs[s] EXCEPT !.state = why] ELSE rs[s]
  BY DEF Ledger!Stopped
<1> HIDE DEF q
<1>2. ASSUME NEW s \in Ledger!Scopes, s \in K
      PROVE  (Same(rec[s], q[s]) \/ Gone(rec[s], q[s]) \/ Made(rec[s], q[s])) /\ Ledger!Present(rs[s])
  <2>1. Ledger!Present(rs[s]) /\ (Same(rec[s], rs[s]) \/ Made(rec[s], rs[s]))
    BY <1>2 DEF From, Gone
  <2>2. IsRec(rs[s]) /\ why \in Ledger!States
    BY <2>1, StopsAre DEF Same, Made, Alike
  <2>3. Alike(rs[s], [rs[s] EXCEPT !.state = why])
    BY <2>2, StateChanges
  <2>4. Alike(rs[s], q[s])
    BY <1>1, <1>2, <2>3
  <2>5. Ledger!Present(q[s])
    BY <2>4, RecPresent DEF Alike
  <2> QED BY <2>1, <2>4, <2>5 DEF Same, Made, Alike
<1> QED BY <1>1, <1>2 DEF From, q

LEMMA PrunedFrom ==
    ASSUME NEW rs, From(rs)
    PROVE  From(Ledger!Pruned(rs)) /\ \A s \in Ledger!Scopes : Ledger!Present(Ledger!Pruned(rs)[s]) => Ledger!Present(rs[s])
<1> DEFINE q == Ledger!Pruned(rs)
<1>1. DOMAIN q = Ledger!Scopes /\ \A s \in Ledger!Scopes :
         q[s] = rs[s] \/ (q[s] = Ledger!Absent /\ Ledger!Present(rs[s]) /\ ~Ledger!IsActive(rs[s]))
  BY DEF Ledger!Pruned
<1> HIDE DEF q
<1>2. ASSUME NEW s \in Ledger!Scopes, q[s] = Ledger!Absent, Ledger!Present(rs[s]), ~Ledger!IsActive(rs[s])
      PROVE  Gone(rec[s], q[s])
  <2>1. rs[s].started = Ledger!None
    BY <1>2 DEF Ledger!IsActive
  <2>2. ~Ledger!Present(q[s])
    BY <1>2, NotPresent
  <2> QED BY <1>2, <2>1, <2>2 DEF From, Same, Gone, Made, Alike
<1>3. ASSUME NEW s \in Ledger!Scopes
      PROVE  /\ Same(rec[s], q[s]) \/ Gone(rec[s], q[s]) \/ Made(rec[s], q[s])
             /\ Ledger!Present(q[s]) => Ledger!Present(rs[s])
  <2>1. CASE q[s] = rs[s]
    BY <2>1 DEF From
  <2>2. CASE q[s] = Ledger!Absent /\ Ledger!Present(rs[s]) /\ ~Ledger!IsActive(rs[s])
    BY <1>2, <2>2
  <2> QED BY <1>1, <2>1, <2>2
<1> QED BY <1>1, <1>3 DEF From, q

\* A turn that is made a record has its chat's limits.
LEMMA ChatIs == ASSUME Ledger!BudgetConstants
                PROVE  /\ Chat \in Ledger!Scopes /\ Chat \notin Jobs /\ Regular \in Ledger!Scopes
                       /\ Regular \notin Jobs /\ Jobs \subseteq Ledger!Scopes
BY DEF Ledger!Scopes, Ledger!BudgetConstants

LEMMA ReplacedIs ==
    ASSUME BudgetInv, NEW j \in Jobs
    PROVE  /\ DOMAIN Ledger!Replaced(j) = Ledger!Scopes
           /\ \A s \in Ledger!Scopes : \/ Ledger!Replaced(j)[s] = rec[s]
                                       \/ /\ Ledger!Replaced(j)[s] = Ledger!Absent /\ s \in Jobs
                                          /\ Ledger!Present(rec[s]) /\ ~Ledger!IsActive(rec[s])
           /\ Ledger!Present(Ledger!Replaced(j)[j]) = Ledger!Present(rec[j])
<1>1. CASE Ledger!Present(rec[j])
  BY <1>1 DEF Ledger!Replaced, BudgetInv, BudgetTyped
<1>2. CASE ~Ledger!Present(rec[j])
  BY <1>2 DEF Ledger!Replaced, Ledger!Scopes
<1> QED BY <1>1, <1>2

\* A new turn's ledger.
LEMMA LimitedIs ==
    ASSUME Ledger!BudgetConstants, BudgetInv, NEW j \in Jobs
    PROVE  LET p == Ledger!Replaced(j)
               l == Ledger!Limited(p, j)
           IN  /\ DOMAIN l = Ledger!Scopes
               /\ \A s \in Ledger!Scopes : s # j => l[s] = p[s]
               /\ \/ l[j] = p[j]
                  \/ /\ ~Ledger!Present(rec[j]) /\ Ledger!Present(rec[Chat]) /\ rec[Chat].limits # Ledger!NoLimits
                     /\ IsLimit(rec[Chat].limits) /\ l[j] = Ledger!Fresh(rec[Chat].limits)
<1> DEFINE p == Ledger!Replaced(j)
           l == Ledger!Limited(p, j)
<1>1. DOMAIN p = Ledger!Scopes /\ p[Chat] = rec[Chat] /\ Ledger!Present(p[j]) = Ledger!Present(rec[j])
  BY ReplacedIs, ChatIs
<1> HIDE DEF p
<1>2. \/ l = p
      \/ ~Ledger!Present(p[j]) /\ Ledger!Present(p[Chat]) /\ p[Chat].limits # Ledger!NoLimits
         /\ l = [p EXCEPT ![j] = Ledger!Fresh(p[Chat].limits)]
  BY DEF Ledger!Limited
<1>3. Ledger!Present(rec[Chat]) => IsLimit(rec[Chat].limits)
  BY ChatIs, RecIs DEF IsRec
<1> HIDE DEF l
<1>4. j \in Ledger!Scopes
  BY ChatIs
<1> QED BY <1>1, <1>2, <1>3, <1>4 DEF l, p

LEMMA TurnFrom ==
    ASSUME Ledger!BudgetConstants, BudgetInv, NEW j \in Jobs
    PROVE  From(Ledger!Pruned(Ledger!Limited(Ledger!Replaced(j), j)))
<1> DEFINE p == Ledger!Replaced(j)
           l == Ledger!Limited(p, j)
<1>1. DOMAIN l = Ledger!Scopes
  BY LimitedIs
<1>2. ASSUME NEW s \in Ledger!Scopes, l[s] = p[s] PROVE Same(rec[s], l[s]) \/ Gone(rec[s], l[s])
  <2>1. p[s] = rec[s] \/ (p[s] = Ledger!Absent /\ ~Ledger!IsActive(rec[s]))
    BY ReplacedIs
  <2> HIDE DEF p, l
  <2>2. CASE p[s] = rec[s]
    BY <1>2, <2>2, RecIs DEF Same, Gone, Alike
  <2>3. CASE p[s] = Ledger!Absent /\ ~Ledger!IsActive(rec[s])
    BY <1>2, <2>3, NotPresent DEF Gone, Ledger!IsActive
  <2> QED BY <2>1, <2>2, <2>3
<1>3. ASSUME NEW s \in Ledger!Scopes PROVE Same(rec[s], l[s]) \/ Gone(rec[s], l[s]) \/ Made(rec[s], l[s])
  <2>1. CASE l[s] = p[s]
    BY <1>2, <2>1
  <2>2. CASE l[s] # p[s]
    <3>1. /\ s = j /\ ~Ledger!Present(rec[j]) /\ IsLimit(rec[Chat].limits)
          /\ l[j] = Ledger!Fresh(rec[Chat].limits)
      BY <2>2, LimitedIs
    <3> HIDE DEF l
    <3>2. /\ IsRec(l[j]) /\ l[j].active = 0 /\ l[j].started = Ledger!None /\ l[j].used.time = 0
      BY <3>1, FreshRec
    <3> QED BY <3>1, <3>2, RecPresent DEF Made
  <2> QED BY <2>1, <2>2
<1>4. From(l)
  BY <1>1, <1>3 DEF From
<1> QED BY <1>4, PrunedFrom

\* Admission: w neither worked nor works yet.
LEMMA AdmitCounts ==
    ASSUME BudgetInv, NEW w \in Ledger!Works, work[w] = "idle", NEW rs, From(rs),
           NEW wanted \in SUBSET (Jobs \cup {Regular}), IsFiniteSet(wanted), Ledger!Admit(w, rs, wanted)
    PROVE  BudgetInv'
<1> DEFINE K == {k \in wanted : Ledger!Present(rs[k])}
           whys == [k \in K |-> Ledger!Refusal(rs[k])]
           why == Ledger!First(K, whys)
<1>1. K \in SUBSET (Jobs \cup {Regular}) /\ K \subseteq Ledger!Scopes /\ IsFiniteSet(K)
  BY FS_Subset DEF Ledger!Scopes
<1>2. why \in Stops \cup {"none"}
  <2>1. ASSUME NEW k \in K PROVE whys[k] \in Stops \cup {"none"}
    <3>1. IsRec(rs[k])
      BY <1>1 DEF From, Same, Gone, Made, Alike
    <3> QED BY <3>1, RefusalIs
  <2> HIDE DEF whys, K
  <2> QED BY <1>1, <2>1, FirstIs
<1>3. /\ keys' = [keys EXCEPT ![w] = K]
      /\ rec' = IF why = "none" THEN rs ELSE Ledger!Stopped(rs, K, why)
      /\ work' = [work EXCEPT ![w] = IF why = "none" THEN "admitted" ELSE "over"]
      /\ ran' = Ledger!SinceMade(ran) /\ now' = now
  BY DEF Ledger!Admit, Ledger!counts
<1>4. \A k \in K : k \in Ledger!Scopes => Ledger!Present(rs[k])
  OBVIOUS
<1> HIDE DEF K, whys, why
<1>5. From(rec')
  BY <1>2, <1>3, <1>4, StoppedFrom
<1>6. /\ work' \in [Ledger!Works -> {"idle", "admitted", "running", "ended", "over"}]
      /\ keys' \in [Ledger!Works -> SUBSET (Jobs \cup {Regular})]
      /\ \A x \in Ledger!Works : IsFiniteSet(keys'[x])
  BY <1>1, <1>3 DEF BudgetInv, BudgetTyped
<1>7. \A s \in Ledger!Scopes : Ledger!CountedIn(s)' = Ledger!CountedIn(s)
  BY <1>3 DEF Ledger!CountedIn, BudgetInv, BudgetTyped
<1>8. /\ DOMAIN ran' = Ledger!Scopes
      /\ \A s \in Ledger!Scopes : ran'[s] = IF Ledger!Present(rec'[s]) /\ ~Ledger!Present(rec[s]) THEN 0 ELSE ran[s]
  BY <1>3 DEF Ledger!SinceMade
<1> QED BY <1>3, <1>5, <1>6, <1>7, <1>8, FromKeeps

LEMMA BeginKeeps ==
    ASSUME Ledger!BudgetConstants, BudgetInv,
           \/ \E t \in Turns, j \in Jobs : Ledger!Turn(t, j)
           \/ \E w \in Runs : Ledger!Run(w)
           \/ \E t \in Turns : (\E w \in Checks : Ledger!Check(w, t)) \/ (\E w \in Holds : Ledger!Hold(w, t))
    PROVE  BudgetInv'
<1>0. Turns \subseteq Ledger!Works /\ Runs \subseteq Ledger!Works /\ Checks \subseteq Ledger!Works /\ Holds \subseteq Ledger!Works
  BY DEF Ledger!Works
<1>1. ASSUME NEW t \in Turns, NEW j \in Jobs, Ledger!Turn(t, j) PROVE BudgetInv'
  <2>1. work[t] = "idle" /\ Ledger!Admit(t, Ledger!Pruned(Ledger!Limited(Ledger!Replaced(j), j)), {j})
    BY <1>1 DEF Ledger!Turn
  <2>2. IsFiniteSet({j}) /\ {j} \in SUBSET (Jobs \cup {Regular})
    BY FS_Singleton
  <2> QED BY <1>0, <2>1, <2>2, TurnFrom, AdmitCounts
<1>2. ASSUME NEW w \in Runs, Ledger!Run(w) PROVE BudgetInv'
  <2>1. PICK rs \in {rec, Ledger!Pruned(rec)} : Ledger!Admit(w, rs, {Regular}) /\ work[w] = "idle"
    BY <1>2 DEF Ledger!Run
  <2>2. From(rs)
    BY <2>1, RecIs, PrunedFrom
  <2>3. IsFiniteSet({Regular}) /\ {Regular} \in SUBSET (Jobs \cup {Regular})
    BY FS_Singleton
  <2> QED BY <1>0, <2>1, <2>2, <2>3, AdmitCounts
<1>3. ASSUME NEW t \in Turns, NEW w \in Checks, Ledger!Check(w, t) PROVE BudgetInv'
  <2>1. work[w] = "idle" /\ Ledger!Admit(w, rec, keys[t] \cup {Regular})
    BY <1>3 DEF Ledger!Check
  <2>2. keys[t] \cup {Regular} \in SUBSET (Jobs \cup {Regular}) /\ IsFiniteSet(keys[t])
    BY <1>0 DEF BudgetInv, BudgetTyped
  <2>3. IsFiniteSet(keys[t] \cup {Regular})
    BY <2>2, FS_AddElement
  <2> QED BY <1>0, <2>1, <2>2, <2>3, RecIs, AdmitCounts
<1>4. ASSUME NEW t \in Turns, NEW w \in Holds, Ledger!Hold(w, t) PROVE BudgetInv'
  <2>1. /\ work[w] = "idle" /\ work' = [work EXCEPT ![w] = "admitted"]
        /\ keys' = [keys EXCEPT ![w] = {k \in keys[t] : Ledger!Present(rec[k])}]
        /\ UNCHANGED <<rec, now, ran>>
    BY <1>4 DEF Ledger!Hold, Ledger!ledger, Ledger!counts
  <2>2. IsFiniteSet({k \in keys[t] : Ledger!Present(rec[k])})
    BY <1>0, FS_Subset DEF BudgetInv, BudgetTyped
  <2>3. /\ work' \in [Ledger!Works -> {"idle", "admitted", "running", "ended", "over"}]
        /\ keys' \in [Ledger!Works -> SUBSET (Jobs \cup {Regular})]
        /\ \A x \in Ledger!Works : IsFiniteSet(keys'[x])
    BY <1>0, <2>1, <2>2 DEF BudgetInv, BudgetTyped
  <2>4. \A s \in Ledger!Scopes : Ledger!CountedIn(s)' = Ledger!CountedIn(s)
    BY <2>1 DEF Ledger!CountedIn, BudgetInv, BudgetTyped
  <2>5. From(rec')
    BY <2>1, RecIs DEF From
  <2> QED BY <2>1, <2>3, <2>4, <2>5, FromKeeps DEF BudgetInv, BudgetTyped
<1> QED BY <1>1, <1>2, <1>3, <1>4

-----------------------------------------------------------------------------
(* Work begins and ends.                                                   *)

\* Each scope that w counts toward holds work, so its record is kept.
LEMMA KeysAre ==
    ASSUME BudgetInv, NEW w \in Ledger!Works
    PROVE  /\ keys[w] \in SUBSET (Jobs \cup {Regular}) /\ keys[w] \subseteq Ledger!Scopes
           /\ IsFiniteSet(keys[w])
           /\ work[w] = "running" => \A k \in keys[w] : w \in Ledger!CountedIn(k) /\ Ledger!Present(rec[k])
<1>1. keys[w] \in SUBSET (Jobs \cup {Regular}) /\ IsFiniteSet(keys[w])
  BY DEF BudgetInv, BudgetTyped
<1>2. keys[w] \subseteq Ledger!Scopes
  BY <1>1 DEF Ledger!Scopes
<1>3. ASSUME work[w] = "running", NEW k \in keys[w] PROVE w \in Ledger!CountedIn(k) /\ Ledger!Present(rec[k])
  BY <1>2, <1>3 DEF Ledger!CountedIn, BudgetInv, Counts
<1> QED BY <1>1, <1>2, <1>3

\* A refusal stops the scopes of the work.
LEMMA StoppedKeeps ==
    ASSUME BudgetInv, NEW K \in SUBSET (Jobs \cup {Regular}), \A k \in K : Ledger!Present(rec[k]),
           NEW why \in Stops, rec' = Ledger!Stopped(rec, K, why),
           UNCHANGED <<now, ran, keys>>,
           work' \in [Ledger!Works -> {"idle", "admitted", "running", "ended", "over"}],
           \A x \in Ledger!Works : (work'[x] = "running") = (work[x] = "running")
    PROVE  BudgetInv'
<1>2. From(rec') /\ \A s \in Ledger!Scopes : Ledger!Present(rec'[s]) => Ledger!Present(rec[s])
  <2>1. From(rec)
    BY RecIs
  <2> QED BY <2>1, StoppedFrom
<1>3. \A s \in Ledger!Scopes : Ledger!CountedIn(s)' = Ledger!CountedIn(s)
  BY DEF Ledger!CountedIn
<1> QED BY <1>2, <1>3, FromKeeps DEF BudgetInv, BudgetTyped

LEMMA BegunIs ==
    ASSUME NEW r, IsRec(r), now \in Nat
    PROVE  /\ IsRec(Ledger!Begun(r)) /\ Level(r, Ledger!Begun(r)) /\ Ledger!Begun(r).active = r.active + 1
           /\ r.started = Ledger!None => Ledger!Begun(r).started = now
           /\ r.started # Ledger!None => Ledger!Begun(r).started = r.started
           /\ Ledger!Begun(r).used.time = r.used.time
BY DEF IsRec, Ledger!Begun, Level, Ledger!States, Ledger!None

\* What start_runtime makes of the ledger.
LEMMA StartIs ==
    ASSUME BudgetInv, NEW w \in Ledger!Works, Ledger!Start(w)
    PROVE  /\ work[w] = "admitted"
           /\ \/ /\ \A k \in keys[w] : Ledger!Present(rec[k])
                 /\ rec' = [s \in Ledger!Scopes |-> IF s \in keys[w] THEN Ledger!Begun(rec[s]) ELSE rec[s]]
                 /\ work' = [work EXCEPT ![w] = "running"]
              \/ /\ work' = [work EXCEPT ![w] = "over"]
                 /\ \/ rec' = rec
                    \/ \E why \in Stops :
                          rec' = Ledger!Stopped(rec, {k \in keys[w] : Ledger!Present(rec[k])}, why)
<1> DEFINE K == keys[w]
           H == {k \in K : Ledger!Present(rec[k])}
           whys == [k \in K |-> IF Ledger!Present(rec[k]) THEN Ledger!Refusal(rec[k]) ELSE "none"]
           why == Ledger!First(H, whys)
<1>1. K \in SUBSET (Jobs \cup {Regular}) /\ K \subseteq Ledger!Scopes
  BY KeysAre
<1>2. work[w] = "admitted"
  BY DEF Ledger!Start
<1>3. \/ /\ \A k \in K : Ledger!Present(rec[k])
         /\ rec' = [s \in Ledger!Scopes |-> IF s \in K THEN Ledger!Begun(rec[s]) ELSE rec[s]]
         /\ work' = [work EXCEPT ![w] = "running"]
      \/ /\ rec' = rec \/ (why # "none" /\ rec' = Ledger!Stopped(rec, H, why))
         /\ work' = [work EXCEPT ![w] = "over"]
  BY DEF Ledger!Start
<1>4. why \in Stops \cup {"none"}
  <2>1. ASSUME NEW k \in H PROVE whys[k] \in Stops \cup {"none"}
    <3>1. IsRec(rec[k])
      BY <1>1, RecIs
    <3> QED BY <3>1, RefusalIs
  <2>2. H \in SUBSET (Jobs \cup {Regular})
    BY <1>1
  <2> HIDE DEF whys, H
  <2> QED BY <2>1, <2>2, FirstIs
<1> HIDE DEF whys, why
<1> QED BY <1>2, <1>3, <1>4

LEMMA StartKeeps ==
    ASSUME BudgetInv, NEW w \in Ledger!Works, Ledger!Start(w) PROVE BudgetInv'
<1> DEFINE K == keys[w]
           H == {k \in K : Ledger!Present(rec[k])}
<1>1. K \in SUBSET (Jobs \cup {Regular}) /\ K \subseteq Ledger!Scopes
  BY KeysAre
<1>2. work[w] = "admitted" /\ UNCHANGED <<keys, now, ran>>
  BY DEF Ledger!Start, Ledger!counts
<1>4. CASE /\ work' = [work EXCEPT ![w] = "over"]
           /\ rec' = rec \/ \E why \in Stops : rec' = Ledger!Stopped(rec, H, why)
  <2>1. /\ work' \in [Ledger!Works -> {"idle", "admitted", "running", "ended", "over"}]
        /\ \A x \in Ledger!Works : (work'[x] = "running") = (work[x] = "running")
    BY <1>2, <1>4 DEF BudgetInv, BudgetTyped
  <2>2. CASE rec' = rec
    <3>1. \A s \in Ledger!Scopes : Ledger!CountedIn(s)' = Ledger!CountedIn(s)
      BY <1>2, <2>1 DEF Ledger!CountedIn
    <3>2. From(rec')
      BY <2>2, RecIs DEF From
    <3> QED BY <1>2, <2>1, <2>2, <3>1, <3>2, FromKeeps DEF BudgetInv, BudgetTyped
  <2>3. ASSUME NEW why \in Stops, rec' = Ledger!Stopped(rec, H, why) PROVE BudgetInv'
    <3>1. H \in SUBSET (Jobs \cup {Regular}) /\ \A k \in H : Ledger!Present(rec[k])
      BY <1>1
    <3> HIDE DEF H
    <3> QED BY <1>2, <2>1, <2>3, <3>1, StoppedKeeps
  <2> QED BY <1>4, <2>2, <2>3
<1>5. CASE /\ \A k \in K : Ledger!Present(rec[k])
           /\ rec' = [s \in Ledger!Scopes |-> IF s \in K THEN Ledger!Begun(rec[s]) ELSE rec[s]]
           /\ work' = [work EXCEPT ![w] = "running"]
  <2> HIDE DEF H
  <2>1. ASSUME NEW s \in K
        PROVE  /\ IsFiniteSet(Ledger!CountedIn(s)') /\ Ledger!CountedIn(s)' # {}
               /\ Cardinality(Ledger!CountedIn(s)') = Cardinality(Ledger!CountedIn(s)) + 1
    <3>1. w \notin Ledger!CountedIn(s) /\ Ledger!CountedIn(s)' = Ledger!CountedIn(s) \cup {w}
      BY <1>2, <1>5, <2>1 DEF Ledger!CountedIn, BudgetInv, BudgetTyped
    <3>2. IsFiniteSet(Ledger!CountedIn(s))
      BY <1>1 DEF BudgetInv, BudgetTyped
    <3> QED BY <3>1, <3>2, FS_AddElement
  <2>2. ASSUME NEW s \in Ledger!Scopes, s \notin K
        PROVE  Ledger!CountedIn(s)' = Ledger!CountedIn(s)
    BY <1>2, <1>5, <2>2 DEF Ledger!CountedIn, BudgetInv, BudgetTyped
  <2>3. ASSUME NEW s \in K
        PROVE  IsRec(rec'[s]) /\ rec'[s].started <= now' /\ Counts(s)'
    <3>1. /\ Ledger!Present(rec[s]) /\ IsRec(rec[s]) /\ now \in Nat /\ rec[s].started <= now
          /\ s \in Ledger!Scopes /\ Cardinality(Ledger!CountedIn(s)) \in Nat
      BY <1>1, <1>5, AtRest
    <3>2. /\ Cardinality(Ledger!CountedIn(s)) <= rec[s].active
          /\ (rec[s].started = Ledger!None) = (rec[s].active = 0)
          /\ "unsaved" \notin Occurs => /\ rec[s].active = Cardinality(Ledger!CountedIn(s))
                                        /\ rec[s].used.time + Ledger!Elapsed(rec[s]) = ran[s]
      BY <3>1 DEF BudgetInv, Counts
    <3>3. rec'[s] = Ledger!Begun(rec[s])
      BY <1>1, <1>5
    <3>4. /\ IsRec(rec'[s]) /\ rec'[s].active = rec[s].active + 1
          /\ rec[s].started = Ledger!None => rec'[s].started = now
          /\ rec[s].started # Ledger!None => rec'[s].started = rec[s].started
          /\ rec'[s].used.time = rec[s].used.time
      BY <3>1, <3>3, BegunIs
    <3>5. rec'[s].started # Ledger!None /\ rec'[s].started <= now'
      BY <1>2, <3>1, <3>4 DEF Ledger!None
    <3>6. Ledger!Elapsed(rec[s])' = Ledger!Elapsed(rec[s])
      BY <1>2, <3>1, <3>4, <3>5 DEF Ledger!Elapsed
    <3>7. Ledger!Present(rec'[s])
      BY <3>4, RecPresent
    <3>8. rec[s].active \in Nat /\ rec'[s].active # 0
      BY <3>1, <3>4 DEF IsRec
    <3> QED BY <1>2, <2>1, <3>1, <3>2, <3>4, <3>5, <3>6, <3>7, <3>8 DEF Counts
  <2>4. ASSUME NEW s \in Ledger!Scopes, s \notin K
        PROVE  rec'[s] = rec[s] /\ Ledger!Elapsed(rec[s])' = Ledger!Elapsed(rec[s]) /\ Counts(s)'
    <3>1. rec'[s] = rec[s] /\ Ledger!Elapsed(rec[s])' = Ledger!Elapsed(rec[s])
      BY <1>2, <1>5, <2>4 DEF Ledger!Elapsed
    <3> QED BY <1>2, <2>2, <2>4, <3>1 DEF BudgetInv, Counts
  <2>5. BudgetTyped'
    <3>1. /\ now' \in Nat /\ DOMAIN rec' = Ledger!Scopes /\ DOMAIN ran' = Ledger!Scopes
          /\ work' \in [Ledger!Works -> {"idle", "admitted", "running", "ended", "over"}]
          /\ keys' \in [Ledger!Works -> SUBSET (Jobs \cup {Regular})]
          /\ \A x \in Ledger!Works : IsFiniteSet(keys'[x])
      BY <1>2, <1>5 DEF BudgetInv, BudgetTyped
    <3>2. \A s \in Ledger!Scopes : Ledger!Present(rec'[s]) => IsRec(rec'[s]) /\ rec'[s].started <= now'
      BY <1>2, <2>3, <2>4 DEF BudgetInv, BudgetTyped
    <3>3. \A s \in Ledger!Scopes : IsFiniteSet(Ledger!CountedIn(s)')
      BY <2>1, <2>2 DEF BudgetInv, BudgetTyped
    <3> QED BY <3>1, <3>2, <3>3 DEF BudgetTyped
  <2> QED BY <2>3, <2>4, <2>5 DEF BudgetInv
<1> QED BY <1>4, <1>5, StartIs

\* One work less of r.
Shed(r, q) ==
    /\ IsRec(q) /\ Level(r, q) /\ q.active = r.active - 1
    /\ \/ r.active = 1 /\ q.started = Ledger!None /\ q.used.time = r.used.time + Ledger!Elapsed(r)
       \/ r.active # 1 /\ q.started = r.started /\ q.used.time = r.used.time

LEMMA ClosedSheds ==
    ASSUME NEW s, NEW r, IsRec(r), r.active # 0, Ledger!Elapsed(r) \in Nat, NEW timed
    PROVE  /\ Shed(r, Ledger!Closed(s, r, timed))
           /\ \A why \in Ledger!States : Shed(r, [Ledger!Closed(s, r, timed) EXCEPT !.state = why])
<1> DEFINE l == Ledger!Left(r)
<1>2. Shed(r, l)
  <2>1. CASE r.active = 1
    <3>1. l = [r EXCEPT !.active = 0, !.used = [r.used EXCEPT !.time = r.used.time + Ledger!Elapsed(r)],
                        !.started = Ledger!None]
      BY <2>1 DEF Ledger!Left, IsRec
    <3> HIDE DEF l
    <3> QED BY <2>1, <3>1 DEF Shed, IsRec, Level
  <2>2. CASE r.active # 1
    <3>1. l = [r EXCEPT !.active = r.active - 1]
      BY <2>2 DEF Ledger!Left, IsRec
    <3>2. r.active - 1 \in Nat
      BY DEF IsRec
    <3> HIDE DEF l
    <3> QED BY <2>2, <3>1, <3>2 DEF Shed, IsRec, Level
  <2> QED BY <2>1, <2>2
<1>3. ASSUME NEW x, Shed(r, x), NEW why \in Ledger!States PROVE Shed(r, [x EXCEPT !.state = why])
  <2>1. Alike(x, [x EXCEPT !.state = why]) /\ Level(x, [x EXCEPT !.state = why])
    BY <1>3, StateChanges DEF Shed
  <2> QED BY <1>3, <2>1 DEF Shed, Alike, Level
<1>4. Ledger!Closed(s, r, timed) = l \/ \E why \in Ledger!States : Ledger!Closed(s, r, timed) = [l EXCEPT !.state = why]
  <2>1. "time" \in Ledger!States /\ "complete" \in Ledger!States /\ "ready" \in Ledger!States
    BY DEF Ledger!States
  <2> HIDE DEF l
  <2> QED BY <2>1 DEF Ledger!Closed, l
<1>5. Shed(r, Ledger!Closed(s, r, timed))
  BY <1>2, <1>3, <1>4
<1> QED BY <1>3, <1>5

\* What end_runtime makes of the ledger.
LEMMA EndedIs ==
    ASSUME BudgetInv, NEW K \in SUBSET Ledger!Scopes,
           \A k \in K : Ledger!Present(rec[k]) /\ rec[k].active # 0, NEW timed
    PROVE  LET e == Ledger!Ended(K, timed) IN
           /\ DOMAIN e = Ledger!Scopes
           /\ \A s \in Ledger!Scopes \ K :
                 e[s] = rec[s] \/ (~Ledger!Present(e[s]) /\ rec[s].started = Ledger!None /\ s \in Jobs)
           /\ \A s \in K : \/ Shed(rec[s], e[s])
                           \/ /\ ~Ledger!Present(e[s]) /\ s \in Jobs
                              /\ \E q : Shed(rec[s], q) /\ q.started = Ledger!None
<1> DEFINE closed == [s \in Ledger!Scopes |-> IF s \in K THEN Ledger!Closed(s, rec[s], timed) ELSE rec[s]]
           spread == IF timed /\ \E k \in K : closed[k].state = "time"
                     THEN Ledger!Stopped(closed, K, "time") ELSE closed
           e == Ledger!Ended(K, timed)
<1>1. /\ DOMAIN e = Ledger!Scopes
      /\ \A s \in Ledger!Scopes : \/ e[s] = spread[s]
                                  \/ ~Ledger!IsActive(spread[s]) /\ e[s] = Ledger!Absent /\ s \in Jobs
  BY DEF Ledger!Ended
<1>2. \A s \in Ledger!Scopes \ K : spread[s] = rec[s]
  BY DEF Ledger!Stopped
<1>3. ASSUME NEW s \in K PROVE Shed(rec[s], spread[s])
  <2>1. IsRec(rec[s]) /\ Ledger!Elapsed(rec[s]) \in Nat /\ rec[s].active # 0
    BY AtRest
  <2>2. closed[s] = Ledger!Closed(s, rec[s], timed)
    OBVIOUS
  <2>3. spread[s] = closed[s] \/ spread[s] = [closed[s] EXCEPT !.state = "time"]
    BY DEF Ledger!Stopped
  <2> HIDE DEF closed, spread
  <2>4. "time" \in Ledger!States
    BY DEF Ledger!States
  <2>5. /\ Shed(rec[s], Ledger!Closed(s, rec[s], timed))
        /\ Shed(rec[s], [Ledger!Closed(s, rec[s], timed) EXCEPT !.state = "time"])
    BY <2>1, <2>4, ClosedSheds
  <2> QED BY <2>2, <2>3, <2>5
<1> HIDE DEF closed, spread, e
<1>4. \A s \in Ledger!Scopes \ K : e[s] = rec[s] \/ (~Ledger!Present(e[s]) /\ rec[s].started = Ledger!None /\ s \in Jobs)
  BY <1>1, <1>2, NotPresent DEF Ledger!IsActive
<1>5. ASSUME NEW s \in K
      PROVE  \/ Shed(rec[s], e[s])
             \/ /\ ~Ledger!Present(e[s]) /\ s \in Jobs
                /\ \E q : Shed(rec[s], q) /\ q.started = Ledger!None
  <2>1. CASE e[s] = spread[s]
    BY <1>3, <2>1
  <2>2. CASE ~Ledger!IsActive(spread[s]) /\ e[s] = Ledger!Absent /\ s \in Jobs
    BY <1>3, <2>2, NotPresent DEF Ledger!IsActive
  <2> QED BY <1>1, <2>1, <2>2
<1> QED BY <1>1, <1>4, <1>5 DEF e

\* A scope that counts work counts some.
LEMMA HasWork ==
    ASSUME BudgetInv, NEW s \in Ledger!Scopes, Ledger!CountedIn(s) # {}
    PROVE  Ledger!Present(rec[s]) /\ rec[s].active # 0 /\ rec[s].started # Ledger!None
<1>1. /\ IsFiniteSet(Ledger!CountedIn(s)) /\ Cardinality(Ledger!CountedIn(s)) \in Nat
      /\ Ledger!Present(rec[s]) => IsRec(rec[s])
  BY AtRest
<1>2. Cardinality(Ledger!CountedIn(s)) # 0
  BY <1>1, FS_EmptySet
<1> QED BY <1>1, <1>2 DEF BudgetInv, Counts, IsRec

LEMMA EndIs ==
    ASSUME BudgetInv, NEW w \in Ledger!Works, Ledger!End(w)
    PROVE  /\ \A k \in keys[w] : w \in Ledger!CountedIn(k) /\ Ledger!Present(rec[k]) /\ rec[k].active # 0
           /\ work[w] = "running" /\ work' = [work EXCEPT ![w] = "ended"]
           /\ \E timed : rec' = Ledger!Ended(keys[w], timed)
<1>1. /\ work[w] = "running" /\ work' = [work EXCEPT ![w] = "ended"]
      /\ \E timed : rec' = Ledger!Ended(keys[w], timed)
  BY DEF Ledger!End, Ledger!MayEnd
<1>2. keys[w] \subseteq Ledger!Scopes /\ \A k \in keys[w] : w \in Ledger!CountedIn(k) /\ Ledger!Present(rec[k])
  BY <1>1, KeysAre
<1>3. \A k \in keys[w] : rec[k].active # 0
  BY <1>2, HasWork
<1> QED BY <1>1, <1>2, <1>3

LEMMA EndKeeps ==
    ASSUME BudgetInv, NEW w \in Ledger!Works, Ledger!End(w) PROVE BudgetInv'
<1> DEFINE K == keys[w]
<1>1. K \in SUBSET Ledger!Scopes
  BY KeysAre
<1>2. /\ work[w] = "running" /\ work' = [work EXCEPT ![w] = "ended"]
      /\ UNCHANGED <<keys, now, ran>>
      /\ \A k \in K : w \in Ledger!CountedIn(k) /\ Ledger!Present(rec[k]) /\ rec[k].active # 0
  BY EndIs DEF Ledger!End, Ledger!counts
<1>3. PICK timed : rec' = Ledger!Ended(K, timed)
  BY EndIs
<1> HIDE DEF K
<1>4. /\ DOMAIN rec' = Ledger!Scopes
      /\ \A s \in Ledger!Scopes \ K :
            rec'[s] = rec[s] \/ (~Ledger!Present(rec'[s]) /\ rec[s].started = Ledger!None /\ s \in Jobs)
      /\ \A s \in K : \/ Shed(rec[s], rec'[s])
                      \/ /\ ~Ledger!Present(rec'[s]) /\ s \in Jobs
                         /\ \E q : Shed(rec[s], q) /\ q.started = Ledger!None
  BY <1>1, <1>2, <1>3, EndedIs
<1>5. ASSUME NEW s \in K
      PROVE  /\ IsFiniteSet(Ledger!CountedIn(s)') /\ Cardinality(Ledger!CountedIn(s)') \in Nat
             /\ Cardinality(Ledger!CountedIn(s)') = Cardinality(Ledger!CountedIn(s)) - 1
             /\ (Ledger!CountedIn(s)' = {}) = (Cardinality(Ledger!CountedIn(s)') = 0)
  <2>1. Ledger!CountedIn(s)' = Ledger!CountedIn(s) \ {w}
    BY <1>2 DEF Ledger!CountedIn, BudgetInv, BudgetTyped
  <2>2. IsFiniteSet(Ledger!CountedIn(s))
    BY <1>1 DEF BudgetInv, BudgetTyped
  <2>3. w \in Ledger!CountedIn(s)
    BY <1>2
  <2>4. /\ IsFiniteSet(Ledger!CountedIn(s) \ {w})
        /\ Cardinality(Ledger!CountedIn(s) \ {w}) = Cardinality(Ledger!CountedIn(s)) - 1
    BY <2>2, <2>3, FS_RemoveElement
  <2>5. (Ledger!CountedIn(s)' = {}) = (Cardinality(Ledger!CountedIn(s)') = 0)
    BY <2>1, <2>4, FS_EmptySet
  <2>6. Cardinality(Ledger!CountedIn(s)') \in Nat
    BY <2>1, <2>4, FS_CardinalityType
  <2> QED BY <2>1, <2>4, <2>5, <2>6
<1>6. ASSUME NEW s \in Ledger!Scopes, s \notin K PROVE Ledger!CountedIn(s)' = Ledger!CountedIn(s)
  BY <1>2, <1>6 DEF Ledger!CountedIn, BudgetInv, BudgetTyped, K
<1>7. ASSUME NEW s \in K
      PROVE  Counts(s)' /\ (Ledger!Present(rec'[s]) => IsRec(rec'[s]) /\ rec'[s].started <= now')
  <2>1. /\ Ledger!Present(rec[s]) /\ IsRec(rec[s]) /\ now \in Nat /\ s \in Ledger!Scopes
        /\ rec[s].started <= now /\ rec[s].active # 0 /\ rec[s].active \in Nat
        /\ Cardinality(Ledger!CountedIn(s)) \in Nat
    <3>1. s \in Ledger!Scopes /\ Ledger!Present(rec[s]) /\ rec[s].active # 0
      BY <1>1, <1>2
    <3> QED BY <3>1, AtRest DEF IsRec
  <2>2. /\ Cardinality(Ledger!CountedIn(s)) <= rec[s].active
        /\ rec[s].started # Ledger!None
        /\ "unsaved" \notin Occurs => /\ rec[s].active = Cardinality(Ledger!CountedIn(s))
                                      /\ rec[s].used.time + Ledger!Elapsed(rec[s]) = ran[s]
    BY <2>1 DEF BudgetInv, Counts
  <2>3. CASE Shed(rec[s], rec'[s])
    <3>1. Ledger!Present(rec'[s]) /\ IsRec(rec'[s])
      BY <2>3, RecPresent DEF Shed
    <3>2. CASE rec[s].active = 1
      <4>1. /\ rec'[s].started = Ledger!None /\ Ledger!Elapsed(rec[s])' = 0 /\ rec'[s].active = 0
            /\ rec'[s].used.time = rec[s].used.time + Ledger!Elapsed(rec[s])
        BY <2>3, <3>2 DEF Shed, Ledger!Elapsed
      <4>2. rec'[s].started <= now' /\ rec'[s].used.time \in Nat
        BY <1>2, <2>1, <3>1, <4>1 DEF Ledger!None, IsRec
      <4> QED BY <1>2, <1>5, <2>1, <2>2, <3>1, <3>2, <4>1, <4>2 DEF Counts
    <3>3. CASE rec[s].active # 1
      <4>1. /\ rec'[s].started = rec[s].started /\ Ledger!Elapsed(rec[s])' = Ledger!Elapsed(rec[s])
            /\ rec'[s].active = rec[s].active - 1 /\ rec'[s].used.time = rec[s].used.time
        BY <1>2, <2>3, <3>3 DEF Shed, Ledger!Elapsed
      <4> QED BY <1>2, <1>5, <2>1, <2>2, <3>1, <3>3, <4>1 DEF Counts
    <3> QED BY <3>2, <3>3
  <2>4. CASE ~Ledger!Present(rec'[s]) /\ \E q : Shed(rec[s], q) /\ q.started = Ledger!None
    <3>1. rec[s].active = 1
      BY <2>2, <2>4 DEF Shed
    <3>2. Ledger!CountedIn(s)' = {}
      BY <1>5, <2>1, <2>2, <3>1, AtRest
    <3> QED BY <2>4, <3>2 DEF Counts
  <2> QED BY <1>4, <2>3, <2>4
<1>8. ASSUME NEW s \in Ledger!Scopes, s \notin K
      PROVE  Counts(s)' /\ (Ledger!Present(rec'[s]) => IsRec(rec'[s]) /\ rec'[s].started <= now')
  <2>1. CASE rec'[s] = rec[s]
    <3>1. Ledger!Elapsed(rec[s])' = Ledger!Elapsed(rec[s])
      BY <1>2, <2>1 DEF Ledger!Elapsed
    <3>2. Counts(s) /\ (Ledger!Present(rec[s]) => IsRec(rec[s]) /\ rec[s].started <= now)
      BY <1>8 DEF BudgetInv, BudgetTyped
    <3> QED BY <1>2, <1>6, <1>8, <2>1, <3>1, <3>2 DEF Counts
  <2>2. CASE ~Ledger!Present(rec'[s]) /\ rec[s].started = Ledger!None
    <3>1. Ledger!CountedIn(s) = {}
      BY <1>8, <2>2, HasWork
    <3> QED BY <1>6, <1>8, <2>2, <3>1 DEF Counts
  <2> QED BY <1>4, <1>8, <2>1, <2>2
<1>9. BudgetTyped'
  <2>1. /\ now' \in Nat /\ DOMAIN ran' = Ledger!Scopes
        /\ work' \in [Ledger!Works -> {"idle", "admitted", "running", "ended", "over"}]
        /\ keys' \in [Ledger!Works -> SUBSET (Jobs \cup {Regular})]
        /\ \A x \in Ledger!Works : IsFiniteSet(keys'[x])
    BY <1>2 DEF BudgetInv, BudgetTyped
  <2>2. \A s \in Ledger!Scopes : Ledger!Present(rec'[s]) => IsRec(rec'[s]) /\ rec'[s].started <= now'
    BY <1>7, <1>8
  <2>3. \A s \in Ledger!Scopes : IsFiniteSet(Ledger!CountedIn(s)')
    BY <1>5, <1>6 DEF BudgetInv, BudgetTyped
  <2> QED BY <1>4, <2>1, <2>2, <2>3 DEF BudgetTyped
<1>10. \A s \in Ledger!Scopes : Counts(s)'
  BY <1>7, <1>8
<1> QED BY <1>9, <1>10 DEF BudgetInv

\* A write refused leaves counted what has ended.
LEMMA UnsavedKeeps ==
    ASSUME BudgetInv, NEW w \in Ledger!Works, Ledger!Unsaved(w) PROVE BudgetInv'
<1>1. /\ "unsaved" \in Occurs /\ UNCHANGED <<rec, ran, now, keys>>
      /\ work' = [work EXCEPT ![w] = IF @ = "admitted" THEN "over" ELSE "ended"]
  BY DEF Ledger!Unsaved, Ledger!ledger, Ledger!counts
<1>2. work' \in [Ledger!Works -> {"idle", "admitted", "running", "ended", "over"}]
  BY <1>1 DEF BudgetInv, BudgetTyped
<1>3. ASSUME NEW s \in Ledger!Scopes
      PROVE  /\ Ledger!CountedIn(s)' \subseteq Ledger!CountedIn(s) /\ IsFiniteSet(Ledger!CountedIn(s)')
             /\ Cardinality(Ledger!CountedIn(s)') <= Cardinality(Ledger!CountedIn(s))
             /\ Cardinality(Ledger!CountedIn(s)') \in Nat
  <2>1. Ledger!CountedIn(s)' \subseteq Ledger!CountedIn(s)
    BY <1>1 DEF Ledger!CountedIn, BudgetInv, BudgetTyped
  <2> QED BY <2>1, AtRest, FS_Subset, FS_CardinalityType
<1>4. \A s \in Ledger!Scopes : Counts(s)'
  <2> TAKE s \in Ledger!Scopes
  <2>1. Counts(s) /\ (Ledger!Present(rec[s]) => rec[s].active \in Nat) /\ Cardinality(Ledger!CountedIn(s)) \in Nat
    BY AtRest DEF BudgetInv, IsRec
  <2> QED BY <1>1, <1>3, <2>1 DEF Counts
<1>5. BudgetTyped'
  BY <1>1, <1>2, <1>3 DEF BudgetInv, BudgetTyped
<1> QED BY <1>4, <1>5 DEF BudgetInv

-----------------------------------------------------------------------------
(* Calls, and the user.                                                    *)

\* What connector_call makes of the ledger.
LEMMA ConnectorCallIs ==
    ASSUME BudgetInv, NEW w \in Ledger!Works, Ledger!ConnectorCall(w)
    PROVE  /\ \A k \in keys[w] : Ledger!Present(rec[k])
           /\ \/ rec' = [s \in Ledger!Scopes |-> IF s \in keys[w] THEN [rec[s] EXCEPT !.used.calls = @ + 1]
                                                 ELSE rec[s]]
              \/ \E why \in Stops : rec' = Ledger!Stopped(rec, keys[w], why)
<1> DEFINE K == keys[w]
           whys == [k \in K |-> IF Ledger!Refusal(rec[k]) = "none"
                                   /\ Ledger!Over(rec[k].limits.calls, rec[k].used.calls)
                                THEN "calls" ELSE Ledger!Refusal(rec[k])]
<1>1. /\ work[w] = "running"
      /\ rec' = IF Ledger!First(K, whys) = "none"
                THEN [s \in Ledger!Scopes |-> IF s \in K THEN [rec[s] EXCEPT !.used.calls = @ + 1]
                                              ELSE rec[s]]
                ELSE Ledger!Stopped(rec, K, Ledger!First(K, whys))
  BY DEF Ledger!ConnectorCall
<1>2. K \in SUBSET (Jobs \cup {Regular}) /\ K \subseteq Ledger!Scopes /\ \A k \in K : Ledger!Present(rec[k])
  BY <1>1, KeysAre
<1>3. ASSUME NEW k \in K PROVE whys[k] \in Stops \cup {"none"}
  <2>1. IsRec(rec[k])
    BY <1>2, RecIs
  <2>2. Ledger!Refusal(rec[k]) \in Stops \cup {"none"} /\ "calls" \in Stops
    BY <2>1, RefusalIs DEF Stops
  <2> QED BY <2>2
<1> HIDE DEF K, whys
<1>4. Ledger!First(K, whys) \in Stops \cup {"none"}
  BY <1>2, <1>3, FirstIs
<1> QED BY <1>1, <1>2, <1>4 DEF K

LEMMA ConnectorCallKeeps ==
    ASSUME BudgetInv, NEW w \in Ledger!Works, Ledger!ConnectorCall(w) PROVE BudgetInv'
<1> DEFINE K == keys[w]
<1>1. UNCHANGED <<now, work, keys, ran>>
  BY DEF Ledger!ConnectorCall, Ledger!works, Ledger!counts
<1>2. K \in SUBSET (Jobs \cup {Regular}) /\ K \subseteq Ledger!Scopes
  BY KeysAre
<1>3. \A k \in K : Ledger!Present(rec[k])
  BY ConnectorCallIs
<1>4. CASE \E why \in Stops : rec' = Ledger!Stopped(rec, K, why)
  BY <1>1, <1>2, <1>3, <1>4, StoppedKeeps DEF BudgetInv, BudgetTyped
<1>5. CASE rec' = [s \in Ledger!Scopes |-> IF s \in K THEN [rec[s] EXCEPT !.used.calls = @ + 1]
                                           ELSE rec[s]]
  <2> HIDE DEF K
  <2>1. ASSUME NEW s \in K PROVE Same(rec[s], rec'[s])
    <3>1. IsRec(rec[s]) /\ rec[s].used.calls + 1 \in Nat
      BY <1>2, <1>3, RecIs DEF IsRec
    <3>2. rec'[s] = [rec[s] EXCEPT !.used.calls = rec[s].used.calls + 1]
      BY <1>2, <1>5, <3>1 DEF IsRec
    <3>3. Alike(rec[s], [rec[s] EXCEPT !.used.calls = rec[s].used.calls + 1])
      BY <3>1, CallsChange
    <3> QED BY <1>3, <3>2, <3>3, RecPresent DEF Same, Alike
  <2> QED BY <1>1, <1>5, <2>1, CallKeeps
<1> QED BY <1>4, <1>5, ConnectorCallIs

\* What a reservation finds and makes of the ledger: it asks no more of a scope
\* than it has room for.
LEMMA ReserveIs ==
    ASSUME Ledger!BudgetConstants, BudgetInv, NEW w \in Ledger!Works, NEW c \in ModelCalls, Ledger!Reserve(w, c)
    PROVE  /\ \A k \in keys[w] : Ledger!Present(rec[k])
           /\ \/ \E n \in 1..Output :
                    /\ rec' = [s \in Ledger!Scopes |-> IF s \in keys[w]
                                  THEN [rec[s] EXCEPT !.pending[c] = Ledger!Input + n] ELSE rec[s]]
                    /\ \A k \in keys[w] :
                          /\ Ledger!Refusal(rec[k]) = "none"
                          /\ rec[k].limits.tokens # Ledger!None => Ledger!Input + n <= Ledger!Room(rec[k])
                    /\ call' = [call EXCEPT ![c] = "open"]
              \/ /\ \E why \in Stops : rec' = Ledger!Stopped(rec, keys[w], why)
                 /\ call' = call
<1> DEFINE K == keys[w]
           capped == {k \in K : rec[k].limits.tokens # Ledger!None}
           whys == [k \in K |-> IF Ledger!Refusal(rec[k]) = "none" /\ k \in capped
                                   /\ Ledger!Room(rec[k]) <= Ledger!Input
                                THEN "tokens" ELSE Ledger!Refusal(rec[k])]
           room == [k \in capped |-> Ledger!Room(rec[k]) - Ledger!Input]
           rooms == {room[k] : k \in capped}
           output == Ledger!Min({Output} \cup {Ledger!Room(rec[k]) - Ledger!Input : k \in capped})
<1>1. /\ work[w] = "running"
      /\ IF Ledger!First(K, whys) = "none"
         THEN /\ rec' = [s \in Ledger!Scopes |-> IF s \in K
                            THEN [rec[s] EXCEPT !.pending[c] = Ledger!Input + output] ELSE rec[s]]
              /\ call' = [call EXCEPT ![c] = "open"]
         ELSE rec' = Ledger!Stopped(rec, K, Ledger!First(K, whys)) /\ call' = call
  BY DEF Ledger!Reserve
<1>2. /\ K \in SUBSET (Jobs \cup {Regular}) /\ K \subseteq Ledger!Scopes /\ \A k \in K : Ledger!Present(rec[k])
      /\ IsFiniteSet(K)
  BY <1>1, KeysAre
<1>3. ASSUME NEW k \in K PROVE whys[k] \in Stops \cup {"none"}
  <2>1. IsRec(rec[k])
    BY <1>2, RecIs
  <2>2. Ledger!Refusal(rec[k]) \in Stops \cup {"none"} /\ "tokens" \in Stops
    BY <2>1, RefusalIs DEF Stops
  <2> QED BY <2>2
<1>4. ASSUME NEW k \in K, k \in capped PROVE Ledger!Room(rec[k]) \in Int
  <2>1. IsRec(rec[k]) /\ rec[k].limits.tokens # Ledger!None
    BY <1>2, <1>4, RecIs
  <2>2. rec[k].pending \in [ModelCalls -> Int]
    BY <2>1 DEF IsRec
  <2>3. Ledger!Reserved(rec[k]) \in Int
    BY <2>2, ReservedIs, TotalIs, CallsFinite
  <2> QED BY <2>1, <2>3 DEF Ledger!Room, IsRec, IsLimit
<1>5. rooms \subseteq Int /\ IsFiniteSet(rooms)
  <2>1. IsFiniteSet(capped)
    BY <1>2, FS_Subset
  <2>2. ASSUME NEW k \in capped PROVE room[k] \in Int
    <3>1. Ledger!Room(rec[k]) \in Int
      BY <1>4
    <3> QED BY <3>1 DEF Ledger!Input
  <2> HIDE DEF room, capped
  <2>3. rooms \subseteq Int
    BY <2>2
  <2> QED BY <2>1, <2>3, FiniteImage
<1>6. output = Ledger!Min({Output} \cup rooms)
  <2>1. {Ledger!Room(rec[k]) - Ledger!Input : k \in capped} = rooms
    OBVIOUS
  <2> QED BY <2>1
<1>7. output \in {Output} \cup rooms /\ \A x \in {Output} \cup rooms : output <= x
  <2> HIDE DEF output, rooms
  <2>1. {Output} \cup rooms \in SUBSET Int /\ {Output} \cup rooms # {}
    <3>1. Output \in Int
      BY DEF Ledger!BudgetConstants
    <3> QED BY <1>5, <3>1
  <2>2. IsFiniteSet({Output} \cup rooms)
    <3>1. IsFiniteSet({Output})
      BY FS_Singleton
    <3> QED BY <1>5, <3>1, FS_Union
  <2> QED BY <1>6, <2>1, <2>2, LeastOf
<1>8. ASSUME Ledger!First(K, whys) = "none", NEW k \in K
      PROVE  /\ Ledger!Refusal(rec[k]) = "none"
             /\ rec[k].limits.tokens # Ledger!None =>
                   Ledger!Room(rec[k]) > Ledger!Input /\ room[k] \in rooms /\ room[k] = Ledger!Room(rec[k]) - Ledger!Input
  <2>1. whys[k] = "none"
    <3> HIDE DEF K, whys
    <3> QED BY <1>2, <1>3, <1>8, FirstIs
  <2> QED BY <1>4, <2>1 DEF Ledger!Input
<1>9. ASSUME Ledger!First(K, whys) = "none"
      PROVE  /\ output \in 1..Output
             /\ \A k \in K : rec[k].limits.tokens # Ledger!None => Ledger!Input + output <= Ledger!Room(rec[k])
  <2>1. Output \in Nat /\ Output >= 1
    BY DEF Ledger!BudgetConstants
  <2>2. ASSUME NEW k \in capped PROVE room[k] >= 1
    <3>1. Ledger!Room(rec[k]) \in Int /\ Ledger!Room(rec[k]) > Ledger!Input
      BY <1>4, <1>8, <1>9
    <3> QED BY <3>1 DEF Ledger!Input
  <2> HIDE DEF output
  <2>3. output \in 1..Output
    <3>1. \A x \in rooms : x >= 1
      BY <2>2
    <3> HIDE DEF rooms
    <3> QED BY <1>5, <1>7, <2>1, <3>1
  <2>4. ASSUME NEW k \in K, rec[k].limits.tokens # Ledger!None PROVE Ledger!Input + output <= Ledger!Room(rec[k])
    <3>1. output <= room[k] /\ room[k] = Ledger!Room(rec[k]) - Ledger!Input
      BY <1>7, <1>8, <1>9, <2>4
    <3>2. Ledger!Room(rec[k]) \in Int
      BY <1>4, <2>4
    <3> HIDE DEF room
    <3> QED BY <2>3, <3>1, <3>2 DEF Ledger!Input
  <2> QED BY <2>3, <2>4
<1> HIDE DEF K, whys, output, capped
<1>10. Ledger!First(K, whys) \in Stops \cup {"none"}
  BY <1>2, <1>3, FirstIs
<1>11. CASE Ledger!First(K, whys) = "none"
  BY <1>1, <1>2, <1>8, <1>9, <1>11 DEF K
<1>12. CASE Ledger!First(K, whys) # "none"
  BY <1>1, <1>2, <1>10, <1>12 DEF K
<1> QED BY <1>11, <1>12

LEMMA ReserveKeeps ==
    ASSUME Ledger!BudgetConstants, BudgetInv, NEW w \in Ledger!Works, NEW c \in ModelCalls, Ledger!Reserve(w, c)
    PROVE  BudgetInv'
<1> DEFINE K == keys[w]
<1>1. UNCHANGED <<now, work, keys, ran>>
  BY DEF Ledger!Reserve, Ledger!works, Ledger!counts
<1>2. K \in SUBSET (Jobs \cup {Regular}) /\ K \subseteq Ledger!Scopes
  BY KeysAre
<1>3. \A k \in K : Ledger!Present(rec[k])
  BY ReserveIs
<1>4. CASE \E why \in Stops : rec' = Ledger!Stopped(rec, K, why)
  BY <1>1, <1>2, <1>3, <1>4, StoppedKeeps DEF BudgetInv, BudgetTyped
<1>5. ASSUME NEW n \in 1..Output,
             rec' = [s \in Ledger!Scopes |-> IF s \in K
                        THEN [rec[s] EXCEPT !.pending[c] = Ledger!Input + n] ELSE rec[s]]
      PROVE  BudgetInv'
  <2> HIDE DEF K
  <2>1. ASSUME NEW s \in K PROVE Same(rec[s], rec'[s])
    <3> DEFINE v == [rec[s].pending EXCEPT ![c] = Ledger!Input + n]
    <3>1. IsRec(rec[s]) /\ s \in Ledger!Scopes
      BY <1>2, <1>3, RecIs
    <3>2. rec'[s] = [rec[s] EXCEPT !.pending = v]
      BY <1>5, <3>1 DEF IsRec
    <3>3. v \in [ModelCalls -> 0..Ledger!Input + Output]
      <4>1. Ledger!Input + n \in 0..Ledger!Input + Output
        BY DEF Ledger!BudgetConstants, Ledger!Input
      <4> QED BY <3>1, <4>1 DEF IsRec
    <3> HIDE DEF v
    <3>4. Alike(rec[s], [rec[s] EXCEPT !.pending = v])
      BY <3>1, <3>3, PendingChanges
    <3> QED BY <1>3, <3>2, <3>4, RecPresent DEF Same, Alike
  <2>2. DOMAIN rec' = Ledger!Scopes /\ \A s \in Ledger!Scopes \ K : rec'[s] = rec[s]
    BY <1>5
  <2> QED BY <1>1, <2>1, <2>2, CallKeeps
<1> QED BY <1>4, <1>5, ReserveIs

\* What a settlement of n for c makes of a record r that it charges.
Settled(c, n, r, q) ==
    /\ Alike(r, q) /\ q.pending = [r.pending EXCEPT ![c] = 0]
    /\ q.limits = r.limits /\ q.used.tokens = r.used.tokens + n

LEMMA SettledIs ==
    ASSUME Ledger!BudgetConstants, NEW c \in ModelCalls, NEW r, IsRec(r), NEW n \in Nat,
           NEW q, q = [r EXCEPT !.pending[c] = 0, !.used.tokens = @ + n]
    PROVE  Settled(c, n, r, q)
<1> DEFINE v == [r.pending EXCEPT ![c] = 0]
           p == [r EXCEPT !.pending = v]
           m == r.used.tokens + n
<1>1. q = [p EXCEPT !.used.tokens = m] /\ m \in Nat
  BY DEF IsRec
<1>2. v \in [ModelCalls -> 0..Ledger!Input + Output]
  <2>1. 0 \in 0..Ledger!Input + Output
    BY DEF Ledger!BudgetConstants, Ledger!Input
  <2> QED BY <2>1 DEF IsRec
<1> HIDE DEF v, m
<1>3. Alike(r, p) /\ p.pending = v /\ p.limits = r.limits
  BY <1>2, PendingChanges
<1> HIDE DEF p
<1>4. IsRec(p)
  BY <1>3 DEF Alike
<1>5. /\ Alike(p, [p EXCEPT !.used.tokens = m]) /\ [p EXCEPT !.used.tokens = m].pending = p.pending
      /\ [p EXCEPT !.used.tokens = m].limits = p.limits
      /\ [p EXCEPT !.used.tokens = m].used.tokens = m
  BY <1>1, <1>4, TokensChange
<1>6. Alike(r, q) /\ q.pending = v /\ q.limits = r.limits /\ q.used.tokens = m
  BY <1>1, <1>3, <1>5 DEF Alike
<1> QED BY <1>6 DEF v, m, Settled

LEMMA SettleKeeps ==
    ASSUME Ledger!BudgetConstants, BudgetInv, NEW c \in ModelCalls, Ledger!Settle(c) PROVE BudgetInv'
<1>1. PICK n \in 0..Output + Ledger!Input + Ledger!Past :
         rec' = [s \in Ledger!Scopes |-> IF s \in Ledger!Charged(c)
                    THEN [rec[s] EXCEPT !.pending[c] = 0, !.used.tokens = @ + n]
                    ELSE rec[s]]
  BY DEF Ledger!Settle
<1>2. UNCHANGED <<now, work, keys, ran>>
  BY DEF Ledger!Settle, Ledger!works, Ledger!counts
<1>3. ASSUME NEW s \in Ledger!Charged(c) PROVE Same(rec[s], rec'[s])
  <2>1. s \in Ledger!Scopes /\ Ledger!Present(rec[s]) /\ IsRec(rec[s]) /\ n \in Nat
    BY RecIs DEF Ledger!Charged
  <2>2. rec'[s] = [rec[s] EXCEPT !.pending[c] = 0, !.used.tokens = @ + n]
    BY <1>1, <2>1
  <2>3. Settled(c, n, rec[s], rec'[s])
    BY <2>1, <2>2, SettledIs
  <2> QED BY <2>1, <2>3, RecPresent DEF Same, Alike, Settled
<1> QED BY <1>1, <1>2, <1>3, CallKeeps

\* What admit makes of the routine's record.
LEMMA LookIs ==
    ASSUME Ledger!BudgetConstants, BudgetInv, Ledger!Look
    PROVE  /\ DOMAIN rec' = Ledger!Scopes /\ \A s \in Ledger!Scopes : s # Regular => rec'[s] = rec[s]
           /\ Same(rec[Regular], rec'[Regular]) /\ Level(rec[Regular], rec'[Regular])
<1>1. /\ Ledger!Present(rec[Regular]) /\ Ledger!Refusal(rec[Regular]) # "none"
      /\ rec' = [rec EXCEPT ![Regular].state = Ledger!Refusal(rec[Regular])]
  BY DEF Ledger!Look
<1>2. DOMAIN rec = Ledger!Scopes /\ Regular \in Ledger!Scopes /\ IsRec(rec[Regular])
  BY <1>1, ChatIs, RecIs DEF BudgetInv, BudgetTyped
<1>3. /\ DOMAIN rec' = Ledger!Scopes /\ \A s \in Ledger!Scopes : s # Regular => rec'[s] = rec[s]
      /\ rec'[Regular] = [rec[Regular] EXCEPT !.state = Ledger!Refusal(rec[Regular])]
  BY <1>1, <1>2
<1>4. Ledger!Refusal(rec[Regular]) \in Ledger!States
  BY <1>1, <1>2, RefusalIs, StopsAre
<1>5. /\ Alike(rec[Regular], [rec[Regular] EXCEPT !.state = Ledger!Refusal(rec[Regular])])
      /\ Level(rec[Regular], [rec[Regular] EXCEPT !.state = Ledger!Refusal(rec[Regular])])
  BY <1>2, <1>4, StateChanges
<1> QED BY <1>1, <1>3, <1>5, RecPresent DEF Same, Alike

LEMMA LookKeeps ==
    ASSUME Ledger!BudgetConstants, BudgetInv, Ledger!Look PROVE BudgetInv'
<1>1. UNCHANGED <<now, work, keys, ran>>
  BY DEF Ledger!Look, Ledger!works, Ledger!counts
<1> QED BY <1>1, LookIs, CallKeeps

\* What budgets.set makes of the record of s, before it prunes.
LEMMA SetIs ==
    ASSUME Ledger!BudgetConstants, BudgetInv, NEW s \in Ledger!Scopes, Ledger!Set(s)
    PROVE  \E v : /\ rec' = Ledger!Pruned([rec EXCEPT ![s] = v])
                  /\ \/ Same(rec[s], v) /\ v.pending = rec[s].pending
                     \/ Made(rec[s], v) /\ \A c \in ModelCalls : v.pending[c] = 0
<1>1. PICK l \in Limits :
         rec' = Ledger!Pruned([rec EXCEPT ![s] = IF Ledger!Present(@) THEN [@ EXCEPT !.limits = l] ELSE Ledger!Fresh(l)])
  BY DEF Ledger!Set
<1> DEFINE v == IF Ledger!Present(rec[s]) THEN [rec[s] EXCEPT !.limits = l] ELSE Ledger!Fresh(l)
<1>2. \/ Same(rec[s], v) /\ v.pending = rec[s].pending
      \/ Made(rec[s], v) /\ \A c \in ModelCalls : v.pending[c] = 0
  <2>1. CASE Ledger!Present(rec[s])
    <3>1. IsRec(rec[s]) /\ IsLimit(l)
      BY <2>1, RecIs, LimitsAre
    <3>2. Alike(rec[s], [rec[s] EXCEPT !.limits = l])
      BY <3>1, LimitsChange
    <3>3. [rec[s] EXCEPT !.limits = l].pending = rec[s].pending
      BY <3>1 DEF IsRec
    <3> QED BY <2>1, <3>2, <3>3, RecPresent DEF Same, Alike
  <2>2. CASE ~Ledger!Present(rec[s])
    <3>1. /\ IsRec(Ledger!Fresh(l)) /\ Ledger!Fresh(l).active = 0 /\ Ledger!Fresh(l).started = Ledger!None
          /\ Ledger!Fresh(l).used.time = 0 /\ \A c \in ModelCalls : Ledger!Fresh(l).pending[c] = 0
      BY LimitsAre, FreshRec
    <3> QED BY <2>2, <3>1, RecPresent DEF Made
  <2> QED BY <2>1, <2>2
<1>3. rec' = Ledger!Pruned([rec EXCEPT ![s] = v])
  BY <1>1
<1> QED BY <1>2, <1>3

LEMMA SetKeeps ==
    ASSUME Ledger!BudgetConstants, BudgetInv, NEW s \in Ledger!Scopes, Ledger!Set(s) PROVE BudgetInv'
<1>1. PICK v : /\ rec' = Ledger!Pruned([rec EXCEPT ![s] = v])
               /\ Same(rec[s], v) \/ Made(rec[s], v)
  BY SetIs
<1>2. UNCHANGED <<now, work, keys>> /\ ran' = Ledger!SinceMade(ran)
  BY DEF Ledger!Set, Ledger!works
<1> DEFINE p == [rec EXCEPT ![s] = v]
<1>3. From(p)
  BY <1>1, RecIs DEF From, BudgetInv, BudgetTyped
<1> HIDE DEF p
<1>4. From(rec')
  BY <1>1, <1>3, PrunedFrom DEF p
<1>5. \A k \in Ledger!Scopes : Ledger!CountedIn(k)' = Ledger!CountedIn(k)
  BY <1>2 DEF Ledger!CountedIn
<1>6. /\ DOMAIN ran' = Ledger!Scopes
      /\ \A k \in Ledger!Scopes : ran'[k] = IF Ledger!Present(rec'[k]) /\ ~Ledger!Present(rec[k]) THEN 0 ELSE ran[k]
  BY <1>2 DEF Ledger!SinceMade
<1> QED BY <1>2, <1>4, <1>5, <1>6, FromKeeps DEF BudgetInv, BudgetTyped

\* What budgets.resume makes of a record: with renew, all that was used is granted again,
\* and a refusal is for a limit of nothing.
LEMMA ResumeIs ==
    ASSUME Ledger!BudgetConstants, BudgetInv, NEW q, NEW s \in Ledger!Scopes, NEW renew \in BOOLEAN,
           Ledger!Resume(q, s, renew)
    PROVE  /\ Ledger!Present(rec[s]) /\ ~Ledger!IsActive(rec[s]) /\ IsRec(rec[s]) /\ q \notin receipts
           /\ DOMAIN rec' = Ledger!Scopes /\ \A k \in Ledger!Scopes : k # s => rec'[k] = rec[k]
           /\ IsRec(rec'[s]) /\ rec'[s].active = rec[s].active /\ rec'[s].started = Ledger!None
           /\ rec'[s].used = IF renew THEN Ledger!Unused ELSE rec[s].used
           /\ rec'[s].limits = rec[s].limits /\ rec'[s].pending = rec[s].pending
           /\ receipts' = receipts \cup {q} \/ receipts' = receipts
           /\ renew /\ receipts' # receipts \cup {q} =>
                 rec[s].limits.tokens = 0 \/ rec[s].limits.time = 0
<1> DEFINE r == [rec[s] EXCEPT !.used = IF renew THEN Ledger!Unused ELSE @, !.state = "ready"]
<1>1. /\ Ledger!Present(rec[s]) /\ ~Ledger!IsActive(rec[s]) /\ q \notin receipts
      /\ rec' = [rec EXCEPT ![s] = IF Ledger!Refusal(r) = "none" THEN r
                                   ELSE [r EXCEPT !.state = Ledger!Refusal(r)]]
      /\ receipts' = IF Ledger!Refusal(r) = "none" THEN receipts \cup {q} ELSE receipts
  BY DEF Ledger!Resume, Ledger!New
<1>2. DOMAIN rec = Ledger!Scopes /\ IsRec(rec[s]) /\ rec[s].started = Ledger!None
  <2>1. IsRec(rec[s])
    BY <1>1, RecIs
  <2> QED BY <1>1, <2>1 DEF Ledger!IsActive, BudgetInv, BudgetTyped
<1>3. /\ IsRec(r) /\ r.active = rec[s].active /\ r.started = Ledger!None /\ r.state = "ready"
      /\ r.used = IF renew THEN Ledger!Unused ELSE rec[s].used
      /\ r.limits = rec[s].limits /\ r.pending = rec[s].pending
  <2>1. r = [rec[s] EXCEPT !.used = IF renew THEN Ledger!Unused ELSE rec[s].used, !.state = "ready"]
    BY <1>2 DEF IsRec
  <2> HIDE DEF r
  <2> QED BY <1>2, <2>1 DEF IsRec, Ledger!Unused, Ledger!States
<1> HIDE DEF r
<1>4. Ledger!Refusal(r) \in Stops \cup {"none"}
  BY <1>3, RefusalIs
<1>5. rec'[s] = r \/ (rec'[s] = [r EXCEPT !.state = Ledger!Refusal(r)] /\ Ledger!Refusal(r) \in Ledger!States)
  BY <1>1, <1>2, <1>4, StopsAre
<1>6. /\ IsRec(rec'[s]) /\ rec'[s].active = r.active /\ rec'[s].started = r.started
      /\ rec'[s].used = r.used /\ rec'[s].limits = r.limits /\ rec'[s].pending = r.pending
  <2>1. CASE rec'[s] = r
    BY <1>3, <2>1
  <2>2. CASE rec'[s] = [r EXCEPT !.state = Ledger!Refusal(r)] /\ Ledger!Refusal(r) \in Ledger!States
    <3>1. Alike(r, rec'[s]) /\ Level(r, rec'[s])
      BY <1>3, <2>2, StateChanges
    <3>2. rec'[s].used = r.used
      BY <1>3, <2>2 DEF IsRec
    <3> QED BY <3>1, <3>2 DEF Alike, Level
  <2> QED BY <1>5, <2>1, <2>2
<1>7. ASSUME renew, Ledger!Refusal(r) # "none" PROVE rec[s].limits.tokens = 0 \/ rec[s].limits.time = 0
  <2>1. /\ ~Ledger!IsStopped(r) /\ Ledger!Elapsed(r) = 0 /\ r.used.tokens = 0 /\ r.used.time = 0
        /\ r.used.calls = 0
    BY <1>3, <1>7 DEF Ledger!IsStopped, Ledger!Elapsed, Ledger!Unused
  <2>2. \/ Ledger!Over(r.limits.tokens, 0)
        \/ Ledger!Over(r.limits.time, 0)
        \/ r.limits.calls > 0 /\ Ledger!Over(r.limits.calls, 0)
    BY <1>7, <2>1 DEF Ledger!Refusal
  <2> QED BY <1>3, <2>2 DEF Ledger!Over, IsRec, IsLimit, Ledger!None
<1>8. DOMAIN rec' = Ledger!Scopes /\ \A k \in Ledger!Scopes : k # s => rec'[k] = rec[k]
  BY <1>1, <1>2
<1> QED BY <1>1, <1>2, <1>3, <1>6, <1>7, <1>8

LEMMA ResumeKeeps ==
    ASSUME Ledger!BudgetConstants, BudgetInv, NEW q, NEW s \in Ledger!Scopes, NEW renew \in BOOLEAN,
           Ledger!Resume(q, s, renew)
    PROVE  BudgetInv'
<1>1. UNCHANGED <<now, work, keys>> /\ ran' = [ran EXCEPT ![s] = IF renew THEN 0 ELSE @]
  BY DEF Ledger!Resume, Ledger!works, Ledger!counts
<1>2. /\ Ledger!Present(rec[s]) /\ ~Ledger!IsActive(rec[s]) /\ IsRec(rec[s])
      /\ DOMAIN rec' = Ledger!Scopes /\ \A k \in Ledger!Scopes : k # s => rec'[k] = rec[k]
      /\ IsRec(rec'[s]) /\ rec'[s].active = rec[s].active /\ rec'[s].started = Ledger!None
      /\ rec'[s].used = IF renew THEN Ledger!Unused ELSE rec[s].used
  BY ResumeIs
<1>3. /\ DOMAIN ran = Ledger!Scopes /\ now \in Nat
      /\ rec[s].started = Ledger!None /\ Ledger!CountedIn(s) = {} /\ rec[s].active = 0 /\ Ledger!Elapsed(rec[s]) = 0
  <2>1. rec[s].started = Ledger!None
    BY <1>2 DEF Ledger!IsActive
  <2> QED BY <1>2, <2>1, AtRest DEF BudgetInv, BudgetTyped
<1>4. \A k \in Ledger!Scopes : Ledger!CountedIn(k)' = Ledger!CountedIn(k)
  BY <1>1 DEF Ledger!CountedIn
<1>5. Counts(s)' /\ rec'[s].started <= now'
  <2>1. Ledger!Elapsed(rec[s])' = 0 /\ Ledger!CountedIn(s)' = {} /\ Cardinality(Ledger!CountedIn(s)') = 0
    BY <1>2, <1>3, <1>4, FS_EmptySet DEF Ledger!Elapsed
  <2>2. ran'[s] = IF renew THEN 0 ELSE ran[s]
    BY <1>1, <1>3
  <2>3. rec'[s].used.time = IF renew THEN 0 ELSE rec[s].used.time
    BY <1>2 DEF Ledger!Unused
  <2>4. "unsaved" \notin Occurs => rec[s].used.time = ran[s]
    BY <1>2, <1>3 DEF BudgetInv, Counts, IsRec
  <2>5. rec'[s].used.time \in Nat
    BY <1>2 DEF IsRec
  <2> QED BY <1>1, <1>2, <1>3, <2>1, <2>2, <2>3, <2>4, <2>5, RecPresent DEF Counts, Ledger!None
<1>6. ASSUME NEW k \in Ledger!Scopes, k # s PROVE Counts(k)'
  <2>1. rec'[k] = rec[k] /\ ran'[k] = ran[k] /\ Ledger!Elapsed(rec[k])' = Ledger!Elapsed(rec[k])
    BY <1>1, <1>2, <1>3, <1>6 DEF Ledger!Elapsed
  <2> QED BY <1>4, <2>1 DEF BudgetInv, Counts
<1>7. BudgetTyped'
  <2>1. \A k \in Ledger!Scopes : Ledger!Present(rec'[k]) => IsRec(rec'[k]) /\ rec'[k].started <= now'
    BY <1>1, <1>2, <1>5 DEF BudgetInv, BudgetTyped
  <2> QED BY <1>1, <1>2, <1>4, <2>1 DEF BudgetInv, BudgetTyped
<1> QED BY <1>5, <1>6, <1>7 DEF BudgetInv

-----------------------------------------------------------------------------
(* A restart, and time.                                                    *)

\* load records what was reserved as used, and leaves nothing at work.
LEMMA LoadedIs ==
    ASSUME Ledger!BudgetConstants, NEW s, NEW r, IsRec(r), Ledger!Elapsed(r) \in Nat
    PROVE  LET q == Ledger!Loaded(s, r) IN
           /\ IsRec(q) /\ q.started = Ledger!None
           /\ q.active = IF r.started = Ledger!None THEN r.active ELSE 0
           /\ q.used.time = r.used.time + Ledger!Elapsed(r)
           /\ q.limits = r.limits /\ q.pending = [c \in ModelCalls |-> 0]
           /\ q.used.tokens = r.used.tokens + Ledger!Reserved(r) /\ Ledger!Reserved(r) \in Nat
<1> DEFINE l == Ledger!Spent(r)
           n == r.used.tokens + Ledger!Reserved(r)
           z == [c \in ModelCalls |-> 0]
           a == [r EXCEPT !.used.tokens = n]
<1>0. Ledger!Reserved(r) \in Nat /\ n \in Nat
  <2>1. r.pending \in [ModelCalls -> Int] /\ \A c \in ModelCalls : r.pending[c] >= 0
    BY DEF IsRec
  <2>2. Total(r.pending) \in Int /\ Total(r.pending) >= 0
    BY <2>1, TotalIs, CallsFinite
  <2> QED BY <2>2, ReservedIs DEF IsRec
<1>1. l = [a EXCEPT !.pending = z]
  <2> HIDE DEF z
  <2>1. l = [r EXCEPT !.used.tokens = @ + Ledger!Reserved(r), !.pending = z]
    BY DEF Ledger!Spent, z
  <2> QED BY <2>1 DEF IsRec
<1>2. z \in [ModelCalls -> 0..Ledger!Input + Output]
  <2>1. 0 \in 0..Ledger!Input + Output
    BY DEF Ledger!BudgetConstants, Ledger!Input
  <2> QED BY <2>1
<1> HIDE DEF n, z
<1>3. /\ Alike(r, a) /\ a.limits = r.limits /\ a.used.tokens = n
  BY <1>0, TokensChange
<1> HIDE DEF a
<1>4. /\ Alike(r, l) /\ l.limits = r.limits /\ l.pending = z /\ l.used.tokens = n
  <2>1. IsRec(a)
    BY <1>3 DEF Alike
  <2>2. /\ Alike(a, [a EXCEPT !.pending = z]) /\ [a EXCEPT !.pending = z].pending = z
        /\ [a EXCEPT !.pending = z].limits = a.limits /\ [a EXCEPT !.pending = z].used = a.used
    BY <1>2, <2>1, PendingChanges
  <2> QED BY <1>1, <1>3, <2>2 DEF Alike
<1>5. Ledger!Elapsed(l) = Ledger!Elapsed(r) /\ l.state \in Ledger!States
  BY <1>4 DEF Ledger!Elapsed, Alike, IsRec
<1> DEFINE st == IF s \in Jobs THEN "interrupted"
                 ELSE IF l.state = "running" THEN "ready" ELSE l.state
           u == [l.used EXCEPT !.time = l.used.time + Ledger!Elapsed(l)]
<1>6. Ledger!Loaded(s, r) = IF l.started = Ledger!None THEN l
                            ELSE [l EXCEPT !.active = 0, !.used = u, !.started = Ledger!None, !.state = st]
  <2>1. IsRec(l)
    BY <1>4 DEF Alike
  <2>2. Ledger!Loaded(s, r) = IF l.started = Ledger!None THEN l
                              ELSE [l EXCEPT !.active = 0, !.used.time = @ + Ledger!Elapsed(l), !.started = Ledger!None,
                                       !.state = IF s \in Jobs THEN "interrupted"
                                                 ELSE IF @ = "running" THEN "ready" ELSE @]
    BY DEF Ledger!Loaded
  <2> HIDE DEF l
  <2> QED BY <2>1, <2>2 DEF IsRec
<1>7. st \in Ledger!States
  BY <1>5 DEF Ledger!States
<1> HIDE DEF l, st
<1> SUFFICES /\ IsRec(Ledger!Loaded(s, r)) /\ Ledger!Loaded(s, r).started = Ledger!None
             /\ Ledger!Loaded(s, r).active = IF r.started = Ledger!None THEN r.active ELSE 0
             /\ Ledger!Loaded(s, r).used.time = r.used.time + Ledger!Elapsed(r)
             /\ Ledger!Loaded(s, r).limits = r.limits /\ Ledger!Loaded(s, r).pending = z
             /\ Ledger!Loaded(s, r).used.tokens = n
  BY <1>0 DEF n, z
<1>8. CASE l.started = Ledger!None
  <2>1. Ledger!Elapsed(r) = 0 /\ r.used.time \in Nat
    BY <1>4, <1>8 DEF Alike, Ledger!Elapsed, IsRec
  <2> QED BY <1>4, <1>6, <1>8, <2>1 DEF Alike
<1>9. CASE l.started # Ledger!None
  <2>1. Ledger!Loaded(s, r) = [l EXCEPT !.active = 0, !.used = u, !.started = Ledger!None, !.state = st]
    BY <1>6, <1>9
  <2>2. IsRec(l) /\ r.started # Ledger!None /\ l.used.time = r.used.time
    BY <1>4, <1>9 DEF Alike
  <2>3. /\ DOMAIN u = {"tokens", "time", "calls"} /\ u.time = r.used.time + Ledger!Elapsed(r)
        /\ u.tokens = n /\ u.calls = l.used.calls /\ u.time \in Nat
    BY <1>4, <1>5, <2>2 DEF IsRec
  <2> HIDE DEF u
  <2>4. /\ IsRec(Ledger!Loaded(s, r)) /\ Ledger!Loaded(s, r).active = 0 /\ Ledger!Loaded(s, r).limits = l.limits
        /\ Ledger!Loaded(s, r).started = Ledger!None /\ Ledger!Loaded(s, r).used = u
        /\ Ledger!Loaded(s, r).pending = l.pending
    BY <1>0, <1>7, <2>1, <2>2, <2>3 DEF IsRec
  <2> QED BY <1>4, <2>2, <2>3, <2>4
<1> QED BY <1>8, <1>9

LEMMA RestartCounts ==
    ASSUME Ledger!BudgetConstants, BudgetInv, Ledger!Restart PROVE BudgetInv'
<1>1. /\ rec' = [s \in Ledger!Scopes |-> IF Ledger!Present(rec[s]) THEN Ledger!Loaded(s, rec[s]) ELSE Ledger!Absent]
      /\ work' = [w \in Ledger!Works |-> IF work[w] = "idle" THEN "idle" ELSE "over"]
      /\ UNCHANGED <<keys, now, ran>>
  BY DEF Ledger!Restart
<1>2. \A s \in Ledger!Scopes : Ledger!CountedIn(s)' = {}
  BY <1>1 DEF Ledger!CountedIn
<1>3. IsFiniteSet({}) /\ Cardinality({}) = 0
  BY FS_EmptySet
<1>4. ASSUME NEW s \in Ledger!Scopes
      PROVE  Counts(s)' /\ (Ledger!Present(rec'[s]) => IsRec(rec'[s]) /\ rec'[s].started <= now')
  <2>1. CASE Ledger!Present(rec[s])
    <3>1. /\ IsRec(rec[s]) /\ now \in Nat /\ Ledger!Elapsed(rec[s]) \in Nat
          /\ rec[s].started = Ledger!None => rec[s].active = 0
          /\ "unsaved" \notin Occurs => rec[s].used.time + Ledger!Elapsed(rec[s]) = ran[s]
      BY <2>1, AtRest DEF BudgetInv, Counts
    <3>2. rec'[s] = Ledger!Loaded(s, rec[s])
      BY <1>1, <2>1
    <3>3. /\ IsRec(rec'[s]) /\ rec'[s].started = Ledger!None
          /\ rec'[s].active = IF rec[s].started = Ledger!None THEN rec[s].active ELSE 0
          /\ rec'[s].used.time = rec[s].used.time + Ledger!Elapsed(rec[s])
      BY <3>1, <3>2, LoadedIs
    <3>4. Ledger!Elapsed(rec[s])' = 0 /\ rec'[s].active = 0 /\ rec'[s].used.time \in Nat
      BY <3>1, <3>3 DEF Ledger!Elapsed, IsRec
    <3>5. rec'[s].started <= now'
      BY <1>1, <3>1, <3>3 DEF Ledger!None
    <3>6. /\ Ledger!CountedIn(s)' = {} /\ Cardinality(Ledger!CountedIn(s)') = 0
          /\ ran'[s] = ran[s]
      BY <1>1, <1>2, <1>3
    <3>7. "unsaved" \notin Occurs =>
             rec'[s].used.time + Ledger!Elapsed(rec[s])' = ran'[s]
      BY <3>1, <3>3, <3>4, <3>6
    <3> QED BY <3>3, <3>4, <3>5, <3>6, <3>7, RecPresent DEF Counts
  <2>2. CASE ~Ledger!Present(rec[s])
    BY <1>1, <1>2, <2>2, NotPresent DEF Counts
  <2> QED BY <2>1, <2>2
<1>5. /\ now' \in Nat /\ DOMAIN rec' = Ledger!Scopes /\ DOMAIN ran' = Ledger!Scopes
      /\ work' \in [Ledger!Works -> {"idle", "admitted", "running", "ended", "over"}]
  BY <1>1 DEF BudgetInv, BudgetTyped
<1>6. BudgetTyped'
  BY <1>1, <1>2, <1>3, <1>4, <1>5 DEF BudgetInv, BudgetTyped
<1> QED BY <1>4, <1>6 DEF BudgetInv

LEMMA PassCounts ==
    ASSUME BudgetInv, Ledger!Pass PROVE BudgetInv'
<1>1. /\ now' = now + 1 /\ UNCHANGED <<rec, work, keys>>
      /\ ran' = [s \in Ledger!Scopes |->
                    ran[s] + (IF \E w \in Ledger!Works : work[w] = "running" /\ s \in keys[w]
                              THEN 1 ELSE 0)]
  BY DEF Ledger!Pass, Ledger!ledger, Ledger!works
<1>2. \A s \in Ledger!Scopes : Ledger!CountedIn(s)' = Ledger!CountedIn(s)
  BY <1>1 DEF Ledger!CountedIn
<1>3. ASSUME NEW s \in Ledger!Scopes, Ledger!Present(rec[s])
      PROVE  rec'[s].started <= now' /\ Counts(s)'
  <2>1. /\ IsRec(rec[s]) /\ now \in Nat /\ rec[s].started <= now
        /\ Counts(s) /\ Cardinality(Ledger!CountedIn(s)) \in Nat
        /\ rec[s].started = Ledger!None => Ledger!CountedIn(s) = {}
    BY <1>3, AtRest DEF BudgetInv
  <2>2. (Ledger!CountedIn(s) # {}) = (\E w \in Ledger!Works : work[w] = "running" /\ s \in keys[w])
    BY DEF Ledger!CountedIn
  <2>3. rec[s].started \in Int /\ rec[s].used.time \in Int
    BY <2>1 DEF IsRec, Ledger!None
  <2>4. ASSUME "unsaved" \notin Occurs PROVE rec'[s].used.time + Ledger!Elapsed(rec[s])' = ran'[s]
    <3>1. /\ rec[s].active = Cardinality(Ledger!CountedIn(s))
          /\ rec[s].used.time + Ledger!Elapsed(rec[s]) = ran[s]
      BY <1>3, <2>1, <2>4 DEF Counts
    <3>2. (rec[s].started # Ledger!None) = (Ledger!CountedIn(s) # {})
      BY <1>3, <2>1, <3>1, FS_EmptySet DEF Counts
    <3>3. ran'[s] = ran[s] + (IF rec[s].started # Ledger!None THEN 1 ELSE 0)
      BY <1>1, <2>2, <3>2
    <3>4. Ledger!Elapsed(rec[s])' = Ledger!Elapsed(rec[s]) + (IF rec[s].started # Ledger!None THEN 1 ELSE 0)
      BY <1>1, <2>1, <2>3 DEF Ledger!Elapsed
    <3> QED BY <1>1, <2>1, <2>3, <3>1, <3>3, <3>4 DEF Ledger!Elapsed
  <2> QED BY <1>1, <1>2, <1>3, <2>1, <2>3, <2>4 DEF Counts
<1>4. \A s \in Ledger!Scopes : Counts(s)'
  BY <1>1, <1>2, <1>3 DEF BudgetInv, Counts
<1>5. BudgetTyped'
  BY <1>1, <1>2, <1>3 DEF BudgetInv, BudgetTyped
<1> QED BY <1>4, <1>5 DEF BudgetInv

-----------------------------------------------------------------------------

LEMMA BudgetNext ==
    ASSUME Ledger!BudgetConstants, BudgetInv, [Ledger!Next]_Ledger!vars PROVE BudgetInv'
<1>0. ASSUME UNCHANGED <<rec, ran, now, work, keys>> PROVE BudgetInv'
  <2>1. \A s \in Ledger!Scopes : Ledger!CountedIn(s)' = Ledger!CountedIn(s) /\ Ledger!Elapsed(rec[s])' = Ledger!Elapsed(rec[s])
    BY <1>0 DEF Ledger!CountedIn, Ledger!Elapsed
  <2> QED BY <1>0, <2>1 DEF BudgetInv, BudgetTyped, Counts
<1>1. ASSUME UNCHANGED Ledger!vars PROVE BudgetInv'
  BY <1>0, <1>1 DEF Ledger!vars, Ledger!ledger, Ledger!works, Ledger!counts
<1>2. CASE \E w \in Ledger!Works : \/ Ledger!Start(w) \/ Ledger!End(w) \/ Ledger!Unsaved(w) \/ Ledger!ConnectorCall(w)
                                   \/ \E c \in ModelCalls : Ledger!Reserve(w, c)
  BY <1>2, StartKeeps, EndKeeps, UnsavedKeeps, ConnectorCallKeeps, ReserveKeeps
<1>3. CASE \E c \in ModelCalls : Ledger!Settle(c) \/ Ledger!SettleUnsaved(c)
  BY <1>0, <1>3, SettleKeeps DEF Ledger!SettleUnsaved, Ledger!ledger, Ledger!works, Ledger!counts
<1>4. CASE \E s \in Ledger!Scopes : Ledger!Set(s) \/ \E q \in Requests, renew \in BOOLEAN : Ledger!Resume(q, s, renew)
  BY <1>4, SetKeeps, ResumeKeeps
<1>5. CASE Ledger!Look \/ Ledger!Restart \/ Ledger!Pass
  BY <1>5, LookKeeps, RestartCounts, PassCounts
<1>6. CASE Ledger!Next
  BY <1>2, <1>3, <1>4, <1>5, <1>6, BeginKeeps DEF Ledger!Next
<1> QED BY <1>1, <1>6

\* The invariant gives the types.
LEMMA BudgetTypes == ASSUME BudgetInv PROVE Ledger!TypeOK
<1>1. ASSUME NEW s \in Ledger!Scopes, Ledger!Present(rec[s])
      PROVE  /\ rec[s].state \in Ledger!States
             /\ rec[s].active \in Nat /\ rec[s].started \in 0..now \cup {Ledger!None}
             /\ rec[s].pending \in [ModelCalls -> 0..Ledger!Input + Output]
  BY <1>1, AtRest DEF IsRec
<1>2. keys \in [Ledger!Works -> SUBSET Ledger!Scopes]
  <2>1. SUBSET (Jobs \cup {Regular}) \subseteq SUBSET Ledger!Scopes
    BY DEF Ledger!Scopes
  <2> QED BY <2>1 DEF BudgetInv, BudgetTyped
<1> QED BY <1>1, <1>2 DEF Ledger!TypeOK, BudgetInv, BudgetTyped

\* And, when the store takes what it is told, what is counted.
LEMMA BudgetCounts ==
    ASSUME BudgetInv, "unsaved" \notin Occurs PROVE Ledger!CountsItsWork /\ Ledger!TimeCounted
<1>1. ASSUME NEW s \in Ledger!Scopes
      PROVE  /\ Ledger!CountedIn(s) # {} => Ledger!Present(rec[s])
             /\ Ledger!Present(rec[s]) => /\ rec[s].active = Cardinality(Ledger!CountedIn(s))
                                          /\ (rec[s].started # Ledger!None) = (Ledger!CountedIn(s) # {})
                                          /\ rec[s].used.time + Ledger!Elapsed(rec[s]) = ran[s]
  <2>1. (Ledger!CountedIn(s) = {}) = (Cardinality(Ledger!CountedIn(s)) = 0)
    BY AtRest, FS_EmptySet
  <2> QED BY <2>1 DEF BudgetInv, Counts
<1> QED BY <1>1, SameCount DEF Ledger!CountsItsWork, Ledger!TimeCounted

THEOREM BudgetsTyped ==
    ASSUME Ledger!BudgetConstants PROVE Ledger!Spec => []Ledger!TypeOK
<1>1. Ledger!Init => BudgetInv
  BY InitBudget
<1>2. BudgetInv /\ [Ledger!Next]_Ledger!vars => BudgetInv'
  BY BudgetNext
<1>3. BudgetInv => Ledger!TypeOK
  BY BudgetTypes
<1> QED BY <1>1, <1>2, <1>3, PTL DEF Ledger!Spec

\* However work begins, overlaps, ends, is refused or is cut off, a scope counts
\* the work in it and its time, as long as the store takes what they record.
THEOREM WorkCounted ==
    ASSUME Ledger!BudgetConstants, "unsaved" \notin Occurs
    PROVE  Ledger!Spec => [](Ledger!CountsItsWork /\ Ledger!TimeCounted)
<1>1. Ledger!Init => BudgetInv
  BY InitBudget
<1>2. BudgetInv /\ [Ledger!Next]_Ledger!vars => BudgetInv'
  BY BudgetNext
<1>3. BudgetInv => Ledger!CountsItsWork /\ Ledger!TimeCounted
  BY BudgetCounts
<1> QED BY <1>1, <1>2, <1>3, PTL DEF Ledger!Spec

-----------------------------------------------------------------------------
(* Budgets: what calls use of what was granted.                            *)

Barred(l) == l.tokens = 0 \/ l.time = 0

\* The histories, and the calls: one that has yet to start has reserved nothing.
GrantTyped ==
    /\ DOMAIN spent = Ledger!Scopes /\ \A s \in Ledger!Scopes : spent[s] \in Nat
    /\ DOMAIN renewed = Ledger!Scopes
    /\ \A s \in Ledger!Scopes : renewed[s] \in SUBSET Requests /\ IsFiniteSet(renewed[s])
    /\ call \in [ModelCalls -> {"idle", "open", "done"}] /\ sets \in Nat
    /\ \A s \in Ledger!Scopes, c \in ModelCalls :
          Ledger!Present(rec[s]) /\ call[c] = "idle" => rec[s].pending[c] = 0

\* While the limits stay, a turn has its chat's, and a request without a receipt
\* was refused for a limit of nothing.
Lent(s) ==
    /\ s \in Jobs /\ Ledger!Present(rec[s]) =>
          /\ Ledger!Present(rec[Chat]) /\ rec[Chat].limits # Ledger!NoLimits
          /\ rec[s].limits = rec[Chat].limits
    /\ ~(renewed[s] \subseteq receipts) =>
          IF s \in Jobs THEN Ledger!Present(rec[Chat]) /\ Barred(rec[Chat].limits)
          ELSE Ledger!Present(rec[s]) => Barred(rec[s].limits)

\* What was spent, and what open calls may spend, is within the grants; all but
\* what is recorded as used or reserved of the last one is within the others.
Grants(s) ==
    Ledger!Present(rec[s]) =>
               /\ Barred(rec[s].limits) =>
                     spent[s] = 0 /\ \A c \in ModelCalls : rec[s].pending[c] = 0
               /\ rec[s].limits.tokens # Ledger!None =>
                     /\ spent[s] + OpenIn(call, rec[s])
                          <= rec[s].limits.tokens * (1 + Cardinality(renewed[s]))
                     /\ spent[s] + OpenIn(call, rec[s])
                          <= rec[s].limits.tokens * Cardinality(renewed[s])
                               + rec[s].used.tokens + Ledger!Reserved(rec[s])

GrantInv == GrantTyped /\ (sets = 0 => \A s \in Ledger!Scopes : Lent(s) /\ Grants(s))

LEMMA Product ==
    ASSUME NEW t \in Nat, NEW g \in Nat
    PROVE  t * g \in Nat /\ t * (1 + g) = t * g + t /\ t * (g + 1) = t * (1 + g)
OBVIOUS

LEMMA SumsAre ==
    ASSUME Ledger!BudgetConstants, NEW r, IsRec(r), NEW cs
    PROVE  /\ Ledger!Reserved(r) \in Nat /\ OpenIn(cs, r) \in Nat
           /\ (\A c \in ModelCalls : r.pending[c] = 0) => Ledger!Reserved(r) = 0 /\ OpenIn(cs, r) = 0
<1> DEFINE f == [c \in ModelCalls |-> IF cs[c] = "open" THEN r.pending[c] ELSE 0]
<1>1. /\ r.pending \in [ModelCalls -> Int] /\ \A c \in ModelCalls : r.pending[c] >= 0
      /\ f \in [ModelCalls -> Int] /\ \A c \in ModelCalls : f[c] >= 0
      /\ (\A c \in ModelCalls : r.pending[c] = 0) => \A c \in ModelCalls : f[c] = 0
  BY DEF IsRec
<1>2. OpenIn(cs, r) = Total(f) /\ Ledger!Reserved(r) = Total(r.pending)
  BY ReservedIs DEF OpenIn
<1> HIDE DEF f
<1>3. /\ Total(f) \in Int /\ Total(f) >= 0
      /\ (\A c \in ModelCalls : f[c] = 0) => Total(f) = 0
  BY <1>1, TotalIs, CallsFinite
<1>4. /\ Total(r.pending) \in Int /\ Total(r.pending) >= 0
      /\ (\A c \in ModelCalls : r.pending[c] = 0) => Total(r.pending) = 0
  BY <1>1, TotalIs, CallsFinite
<1> QED BY <1>1, <1>2, <1>3, <1>4

\* What a call that opens or ends changes of the sums.
LEMMA PendingSums ==
    ASSUME Ledger!BudgetConstants, NEW r, IsRec(r), NEW q, NEW c \in ModelCalls, NEW n \in Nat,
           q.pending = [r.pending EXCEPT ![c] = n], NEW cs, NEW ds,
           \A x \in ModelCalls : x # c => ds[x] = cs[x]
    PROVE  /\ Ledger!Reserved(q) = Ledger!Reserved(r) + n - r.pending[c]
           /\ OpenIn(ds, q) = OpenIn(cs, r) + (IF ds[c] = "open" THEN n ELSE 0)
                                - (IF cs[c] = "open" THEN r.pending[c] ELSE 0)
<1> DEFINE f == [x \in ModelCalls |-> IF cs[x] = "open" THEN r.pending[x] ELSE 0]
           g == [x \in ModelCalls |-> IF ds[x] = "open" THEN q.pending[x] ELSE 0]
           v == IF ds[c] = "open" THEN n ELSE 0
<1>1. r.pending \in [ModelCalls -> Int] /\ f \in [ModelCalls -> Int] /\ n \in Int /\ v \in Int
  BY DEF IsRec
<1>2. g = [f EXCEPT ![c] = v] /\ f[c] = IF cs[c] = "open" THEN r.pending[c] ELSE 0
  BY <1>1
<1>3. OpenIn(cs, r) = Total(f) /\ OpenIn(ds, q) = Total(g)
  BY DEF OpenIn
<1> HIDE DEF f, g, v
<1>4. Total(g) = Total(f) + v - f[c]
  BY <1>1, <1>2, TotalChange, CallsFinite
<1>5. Total(q.pending) = Total(r.pending) + n - r.pending[c]
  BY <1>1, TotalChange, CallsFinite
<1> QED BY <1>2, <1>3, <1>4, <1>5, ReservedIs DEF v

LEMMA InitGrants == ASSUME Ledger!BudgetConstants, Ledger!Init PROVE GrantInv
<1>1. BudgetInv
  BY InitBudget
<1>2. /\ spent = [s \in Ledger!Scopes |-> 0] /\ renewed = [s \in Ledger!Scopes |-> {}] /\ sets = 0
      /\ call = [c \in ModelCalls |-> "idle"] /\ \A j \in Jobs : rec[j] = Ledger!Absent
  BY DEF Ledger!Init
<1>3. ASSUME NEW s \in Ledger!Scopes, Ledger!Present(rec[s])
      PROVE  \A c \in ModelCalls : rec[s].pending[c] = 0
  <2>1. PICK l \in Limits : rec[s] = Ledger!Fresh(l)
    BY <1>3, NotPresent DEF Ledger!Init
  <2> QED BY <2>1, LimitsAre, FreshRec
<1>4. IsFiniteSet({}) /\ Cardinality({}) = 0
  BY FS_EmptySet
<1>5. GrantTyped
  BY <1>2, <1>3, <1>4 DEF GrantTyped
<1>6. ASSUME NEW s \in Ledger!Scopes PROVE Grants(s)
  <2>1. SUFFICES ASSUME Ledger!Present(rec[s]) PROVE Grants(s)
    BY DEF Grants
  <2>2. IsRec(rec[s])
    BY <1>1, <2>1, RecIs
  <2>3. Ledger!Reserved(rec[s]) = 0 /\ OpenIn(call, rec[s]) = 0
    BY <1>3, <2>1, <2>2, SumsAre
  <2>4. spent[s] = 0 /\ Cardinality(renewed[s]) = 0
    BY <1>2, <1>4
  <2>5. rec[s].limits.tokens # Ledger!None => rec[s].limits.tokens \in Nat
    BY <2>2 DEF IsRec, IsLimit
  <2>6. rec[s].limits.tokens # Ledger!None =>
           rec[s].limits.tokens * (1 + 0) \in Nat /\ rec[s].limits.tokens * 0 \in Nat
    BY <2>5
  <2>7. rec[s].used.tokens \in Nat
    BY <2>2 DEF IsRec
  <2> QED BY <1>3, <2>1, <2>3, <2>4, <2>6, <2>7 DEF Grants
<1>7. \A s \in Ledger!Scopes : Lent(s)
  BY <1>2, NotPresent DEF Lent
<1> QED BY <1>5, <1>6, <1>7 DEF GrantInv

-----------------------------------------------------------------------------

\* The ledger rs has the tokens that the ledger has; a turn may end or begin
\* with what its chat grants, and what has no limits may be let go.
Begins(s, q) ==
    /\ s \in Jobs /\ ~Ledger!Present(rec[s]) /\ Ledger!Present(q)
    /\ Ledger!Present(rec[Chat]) /\ rec[Chat].limits # Ledger!NoLimits /\ q.limits = rec[Chat].limits
    /\ q.used.tokens = 0 /\ \A c \in ModelCalls : q.pending[c] = 0
Keeps(s, q)  == Ledger!Present(rec[s]) /\ Ledger!Present(q) /\ Level(rec[s], q)
LetsGo(s, q) == ~Ledger!Present(q) /\ (Ledger!Present(rec[s]) => s \in Jobs \/ rec[s].limits = Ledger!NoLimits)

LevelTo(rs) == \A s \in Ledger!Scopes : Keeps(s, rs[s]) \/ LetsGo(s, rs[s]) \/ Begins(s, rs[s])

LEMMA LevelKeeps ==
    ASSUME Ledger!BudgetConstants, BudgetInv, BudgetInv', GrantInv, LevelTo(rec'),
           UNCHANGED <<call, renewed, receipts, sets>>, DOMAIN spent' = Ledger!Scopes,
           \A s \in Ledger!Scopes :
               spent'[s] = IF Ledger!Present(rec'[s]) /\ ~Ledger!Present(rec[s]) THEN 0 ELSE spent[s]
    PROVE  GrantInv'
<1>1. GrantTyped'
  <2>1. \A s \in Ledger!Scopes, c \in ModelCalls :
           Ledger!Present(rec'[s]) /\ call'[c] = "idle" => rec'[s].pending[c] = 0
    BY DEF LevelTo, Keeps, LetsGo, Begins, Level, GrantInv, GrantTyped
  <2>2. \A s \in Ledger!Scopes : spent'[s] \in Nat
    BY DEF GrantInv, GrantTyped
  <2> QED BY <2>1, <2>2 DEF GrantInv, GrantTyped
<1>2. SUFFICES ASSUME sets = 0, NEW s \in Ledger!Scopes PROVE Lent(s)' /\ Grants(s)'
  BY <1>1 DEF GrantInv
<1>3. Lent(s) /\ Grants(s) /\ Lent(Chat)
  BY <1>2, ChatIs DEF GrantInv
<1>4. Ledger!Present(rec[Chat]) /\ rec[Chat].limits # Ledger!NoLimits =>
                Ledger!Present(rec'[Chat]) /\ rec'[Chat].limits = rec[Chat].limits
  BY ChatIs DEF LevelTo, Keeps, LetsGo, Begins, Level
<1>5. Ledger!Present(rec[Chat]) /\ Barred(rec[Chat].limits) => rec[Chat].limits # Ledger!NoLimits
  BY DEF Barred, Ledger!NoLimits, Ledger!None
<1>6. Keeps(s, rec'[s]) \/ LetsGo(s, rec'[s]) \/ Begins(s, rec'[s])
  BY DEF LevelTo
<1>7. Lent(s)'
  BY <1>3, <1>4, <1>5, <1>6 DEF Lent, Keeps, LetsGo, Begins, Level
<1>8. CASE Keeps(s, rec'[s])
  <2>1. OpenIn(call', rec'[s]) = OpenIn(call, rec[s]) /\ Ledger!Reserved(rec'[s]) = Ledger!Reserved(rec[s])
    <3>1. rec'[s].pending = rec[s].pending /\ call' = call
      BY <1>8 DEF Keeps, Level
    <3> QED BY <3>1, ReservedIs DEF OpenIn
  <2> QED BY <1>3, <1>7, <1>8, <2>1 DEF Grants, Keeps, Level
<1>9. CASE LetsGo(s, rec'[s])
  BY <1>7, <1>9 DEF Grants, LetsGo
<1>10. CASE Begins(s, rec'[s])
  <2>1. IsRec(rec'[s])
    BY <1>10 DEF Begins, BudgetInv, BudgetTyped
  <2>2. Ledger!Reserved(rec'[s]) = 0 /\ OpenIn(call', rec'[s]) = 0
    BY <1>10, <2>1, SumsAre DEF Begins
  <2>3. spent'[s] = 0 /\ rec'[s].used.tokens \in Nat
    BY <1>10 DEF Begins
  <2>4. Cardinality(renewed'[s]) \in Nat
    BY FS_CardinalityType DEF GrantInv, GrantTyped
  <2>5. rec'[s].limits.tokens # Ledger!None =>
           /\ rec'[s].limits.tokens * (1 + Cardinality(renewed'[s])) \in Nat
           /\ rec'[s].limits.tokens * Cardinality(renewed'[s]) \in Nat
    <3>1. rec'[s].limits.tokens # Ledger!None => rec'[s].limits.tokens \in Nat
      BY <2>1 DEF IsRec, IsLimit
    <3> QED BY <2>4, <3>1, Product
  <2> QED BY <1>7, <1>10, <2>2, <2>3, <2>5 DEF Grants, Begins
<1> QED BY <1>6, <1>8, <1>9, <1>10

\* As it is when nothing begins.
LEMMA KeptLevel ==
    ASSUME Ledger!BudgetConstants, BudgetInv, BudgetInv', GrantInv,
           \A s \in Ledger!Scopes : rec'[s] = rec[s] \/ Keeps(s, rec'[s]) \/ LetsGo(s, rec'[s]),
           UNCHANGED <<call, renewed, receipts, sets, spent>>
    PROVE  GrantInv'
<1>1. LevelTo(rec')
  BY DEF LevelTo, Keeps, LetsGo, Level
<1>2. \A s \in Ledger!Scopes : Ledger!Present(rec'[s]) => Ledger!Present(rec[s])
  BY DEF Keeps, LetsGo
<1> QED BY <1>1, <1>2, LevelKeeps DEF GrantInv, GrantTyped

LEMMA PrunedLevel == ASSUME NEW rs, LevelTo(rs) PROVE LevelTo(Ledger!Pruned(rs))
<1> DEFINE q == Ledger!Pruned(rs)
<1>1. \A s \in Ledger!Scopes :
         \/ q[s] = rs[s]
         \/ q[s] = Ledger!Absent /\ Ledger!Present(rs[s]) /\ (s \in Jobs \/ rs[s].limits = Ledger!NoLimits)
  BY DEF Ledger!Pruned
<1> HIDE DEF q
<1>2. ASSUME NEW s \in Ledger!Scopes, q[s] = Ledger!Absent, Ledger!Present(rs[s]), s \in Jobs \/ rs[s].limits = Ledger!NoLimits
      PROVE  LetsGo(s, q[s])
  BY <1>2, NotPresent DEF LevelTo, Keeps, LetsGo, Begins, Level
<1> QED BY <1>1, <1>2 DEF LevelTo, q

LEMMA StoppedLevel ==
    ASSUME NEW rs, From(rs), LevelTo(rs), NEW K, \A k \in K : k \in Ledger!Scopes => Ledger!Present(rs[k]),
           NEW why \in Stops
    PROVE  LevelTo(Ledger!Stopped(rs, K, why))
<1> DEFINE q == Ledger!Stopped(rs, K, why)
<1>1. \A s \in Ledger!Scopes : q[s] = IF s \in K THEN [rs[s] EXCEPT !.state = why] ELSE rs[s]
  BY DEF Ledger!Stopped
<1> HIDE DEF q
<1>2. ASSUME NEW s \in Ledger!Scopes, s \in K PROVE Keeps(s, q[s]) \/ Begins(s, q[s])
  <2>1. Ledger!Present(rs[s]) /\ IsRec(rs[s]) /\ why \in Ledger!States
    BY <1>2, StopsAre DEF From, Same, Gone, Made, Alike
  <2>2. Alike(rs[s], [rs[s] EXCEPT !.state = why]) /\ Level(rs[s], [rs[s] EXCEPT !.state = why])
    BY <2>1, StateChanges
  <2>3. Alike(rs[s], q[s]) /\ Level(rs[s], q[s])
    BY <1>1, <1>2, <2>2
  <2>4. Ledger!Present(q[s])
    BY <2>3, RecPresent DEF Alike
  <2> QED BY <2>1, <2>3, <2>4 DEF LevelTo, Keeps, LetsGo, Begins, Level
<1> QED BY <1>1, <1>2 DEF LevelTo, q

LEMMA SelfLevel == LevelTo(rec)
BY DEF LevelTo, Keeps, LetsGo, Level

LEMMA TurnLevel ==
    ASSUME Ledger!BudgetConstants, BudgetInv, NEW j \in Jobs
    PROVE  LevelTo(Ledger!Pruned(Ledger!Limited(Ledger!Replaced(j), j)))
<1> DEFINE p == Ledger!Replaced(j)
           l == Ledger!Limited(p, j)
<1>1. ASSUME NEW s \in Ledger!Scopes, l[s] = p[s] PROVE Keeps(s, l[s]) \/ LetsGo(s, l[s])
  <2>1. p[s] = rec[s] \/ (p[s] = Ledger!Absent /\ s \in Jobs)
    BY ReplacedIs
  <2> HIDE DEF p, l
  <2> QED BY <1>1, <2>1, NotPresent DEF Keeps, LetsGo, Level
<1>2. ASSUME NEW s \in Ledger!Scopes, l[s] # p[s] PROVE Begins(s, l[s])
  <2>1. /\ s = j /\ ~Ledger!Present(rec[j]) /\ Ledger!Present(rec[Chat]) /\ rec[Chat].limits # Ledger!NoLimits
        /\ IsLimit(rec[Chat].limits) /\ l[j] = Ledger!Fresh(rec[Chat].limits)
    BY <1>2, LimitedIs
  <2> HIDE DEF l
  <2>2. /\ IsRec(l[j]) /\ l[j].used.tokens = 0 /\ l[j].limits = rec[Chat].limits
        /\ \A c \in ModelCalls : l[j].pending[c] = 0
    BY <2>1, FreshRec
  <2> QED BY <2>1, <2>2, RecPresent DEF Begins
<1>3. LevelTo(l)
  <2> HIDE DEF l, p
  <2> QED BY <1>1, <1>2 DEF LevelTo
<1> QED BY <1>3, PrunedLevel

LEMMA AdmitLevel ==
    ASSUME Ledger!BudgetConstants, BudgetInv, BudgetInv', GrantInv, NEW w \in Ledger!Works, NEW rs, From(rs),
           LevelTo(rs), NEW wanted \in SUBSET (Jobs \cup {Regular}), Ledger!Admit(w, rs, wanted)
    PROVE  GrantInv'
<1> DEFINE K == {k \in wanted : Ledger!Present(rs[k])}
           whys == [k \in K |-> Ledger!Refusal(rs[k])]
           why == Ledger!First(K, whys)
<1>1. K \in SUBSET (Jobs \cup {Regular}) /\ K \subseteq Ledger!Scopes
  BY DEF Ledger!Scopes
<1>2. why \in Stops \cup {"none"}
  <2>1. ASSUME NEW k \in K PROVE whys[k] \in Stops \cup {"none"}
    <3>1. IsRec(rs[k])
      BY <1>1 DEF From, Same, Gone, Made, Alike
    <3> QED BY <3>1, RefusalIs
  <2> HIDE DEF whys, K
  <2> QED BY <1>1, <2>1, FirstIs
<1>3. /\ rec' = IF why = "none" THEN rs ELSE Ledger!Stopped(rs, K, why)
      /\ spent' = Ledger!SinceMade(spent) /\ UNCHANGED <<call, renewed, receipts, sets>>
  BY DEF Ledger!Admit, Ledger!counts
<1>4. \A k \in K : k \in Ledger!Scopes => Ledger!Present(rs[k])
  OBVIOUS
<1> HIDE DEF K, whys, why
<1>5. LevelTo(rec')
  BY <1>2, <1>3, <1>4, StoppedLevel
<1>6. /\ DOMAIN spent' = Ledger!Scopes
      /\ \A s \in Ledger!Scopes :
            spent'[s] = IF Ledger!Present(rec'[s]) /\ ~Ledger!Present(rec[s]) THEN 0 ELSE spent[s]
  BY <1>3 DEF Ledger!SinceMade
<1> QED BY <1>3, <1>5, <1>6, LevelKeeps

LEMMA BeginGrants ==
    ASSUME Ledger!BudgetConstants, BudgetInv, BudgetInv', GrantInv,
           \/ \E t \in Turns, j \in Jobs : Ledger!Turn(t, j)
           \/ \E w \in Runs : Ledger!Run(w)
           \/ \E t \in Turns : (\E w \in Checks : Ledger!Check(w, t)) \/ (\E w \in Holds : Ledger!Hold(w, t))
    PROVE  GrantInv'
<1>0. Turns \subseteq Ledger!Works /\ Runs \subseteq Ledger!Works /\ Checks \subseteq Ledger!Works /\ Holds \subseteq Ledger!Works
  BY DEF Ledger!Works
<1>1. ASSUME NEW t \in Turns, NEW j \in Jobs, Ledger!Turn(t, j) PROVE GrantInv'
  <2>1. Ledger!Admit(t, Ledger!Pruned(Ledger!Limited(Ledger!Replaced(j), j)), {j})
    BY <1>1 DEF Ledger!Turn
  <2>2. {j} \in SUBSET (Jobs \cup {Regular})
    OBVIOUS
  <2> QED BY <1>0, <2>1, <2>2, TurnFrom, TurnLevel, AdmitLevel
<1>2. ASSUME NEW w \in Runs, Ledger!Run(w) PROVE GrantInv'
  <2>1. PICK rs \in {rec, Ledger!Pruned(rec)} : Ledger!Admit(w, rs, {Regular})
    BY <1>2 DEF Ledger!Run
  <2>2. From(rs) /\ LevelTo(rs)
    BY <2>1, RecIs, PrunedFrom, SelfLevel, PrunedLevel
  <2>3. {Regular} \in SUBSET (Jobs \cup {Regular})
    OBVIOUS
  <2> QED BY <1>0, <2>1, <2>2, <2>3, AdmitLevel
<1>3. ASSUME NEW t \in Turns, NEW w \in Checks, Ledger!Check(w, t) PROVE GrantInv'
  <2>1. Ledger!Admit(w, rec, keys[t] \cup {Regular})
    BY <1>3 DEF Ledger!Check
  <2>2. keys[t] \cup {Regular} \in SUBSET (Jobs \cup {Regular})
    BY <1>0 DEF BudgetInv, BudgetTyped
  <2> QED BY <1>0, <2>1, <2>2, RecIs, SelfLevel, AdmitLevel
<1>4. ASSUME NEW t \in Turns, NEW w \in Holds, Ledger!Hold(w, t) PROVE GrantInv'
  <2>1. UNCHANGED <<rec, call, renewed, receipts, sets, spent>>
    BY <1>4 DEF Ledger!Hold, Ledger!ledger, Ledger!counts
  <2> QED BY <2>1, KeptLevel
<1> QED BY <1>1, <1>2, <1>3, <1>4

\* Stopped scopes have the tokens they had.
LEMMA StopLevel ==
    ASSUME Ledger!BudgetConstants, BudgetInv, BudgetInv', GrantInv,
           NEW K, \A k \in K : k \in Ledger!Scopes => Ledger!Present(rec[k]), NEW why \in Stops,
           rec' = Ledger!Stopped(rec, K, why), UNCHANGED <<call, renewed, receipts, sets, spent>>
    PROVE  GrantInv'
<1>1. From(rec)
  BY RecIs
<1>2. LevelTo(rec') /\ \A s \in Ledger!Scopes : Ledger!Present(rec'[s]) => Ledger!Present(rec[s])
  BY <1>1, SelfLevel, StoppedLevel, StoppedFrom
<1>3. /\ DOMAIN spent' = Ledger!Scopes
      /\ \A s \in Ledger!Scopes : spent'[s] = IF Ledger!Present(rec'[s]) /\ ~Ledger!Present(rec[s]) THEN 0 ELSE spent[s]
  BY <1>2 DEF GrantInv, GrantTyped
<1> QED BY <1>2, <1>3, LevelKeeps

\* Work that begins, ends, is refused or makes plugin calls leaves the tokens alone.
LEMMA WorkGrants ==
    ASSUME Ledger!BudgetConstants, BudgetInv, BudgetInv', GrantInv,
           NEW w \in Ledger!Works, Ledger!Start(w) \/ Ledger!End(w) \/ Ledger!Unsaved(w) \/ Ledger!ConnectorCall(w)
    PROVE  GrantInv'
<1> DEFINE K == keys[w]
<1>0. K \subseteq Ledger!Scopes
  BY KeysAre
<1>1. UNCHANGED <<call, renewed, receipts, sets, spent>>
  BY DEF Ledger!Start, Ledger!End, Ledger!Unsaved, Ledger!ConnectorCall, Ledger!ledger, Ledger!counts
<1>2. CASE Ledger!Start(w)
  <2>1. CASE /\ \A k \in K : Ledger!Present(rec[k])
             /\ rec' = [s \in Ledger!Scopes |-> IF s \in K THEN Ledger!Begun(rec[s]) ELSE rec[s]]
    <3>1. ASSUME NEW s \in K PROVE Keeps(s, rec'[s])
      <4>1. Ledger!Present(rec[s]) /\ IsRec(rec[s]) /\ now \in Nat /\ rec'[s] = Ledger!Begun(rec[s])
        BY <1>0, <2>1, RecIs, AtRest
      <4> QED BY <4>1, BegunIs, RecPresent DEF Keeps
    <3>2. \A s \in Ledger!Scopes \ K : rec'[s] = rec[s]
      BY <2>1
    <3> QED BY <1>1, <3>1, <3>2, KeptLevel
  <2>2. CASE rec' = rec
    BY <1>1, <2>2, KeptLevel
  <2>3. CASE \E why \in Stops : rec' = Ledger!Stopped(rec, {k \in K : Ledger!Present(rec[k])}, why)
    BY <1>1, <2>3, StopLevel
  <2> QED BY <1>2, <2>1, <2>2, <2>3, StartIs
<1>3. CASE Ledger!End(w)
  <2>1. \A k \in K : Ledger!Present(rec[k]) /\ rec[k].active # 0
    BY <1>3, EndIs
  <2>2. PICK timed : rec' = Ledger!Ended(K, timed)
    BY <1>3, EndIs
  <2>3. ASSUME NEW s \in Ledger!Scopes PROVE rec'[s] = rec[s] \/ Keeps(s, rec'[s]) \/ LetsGo(s, rec'[s])
    <3>1. \/ rec'[s] = rec[s]
          \/ s \in K /\ Shed(rec[s], rec'[s])
          \/ ~Ledger!Present(rec'[s]) /\ s \in Jobs
      BY <1>0, <2>1, <2>2, EndedIs
    <3> QED BY <2>1, <3>1, RecPresent DEF Keeps, LetsGo, Shed
  <2> QED BY <1>1, <2>3, KeptLevel
<1>4. CASE Ledger!Unsaved(w)
  <2>1. rec' = rec
    BY <1>4 DEF Ledger!Unsaved, Ledger!ledger
  <2> QED BY <1>1, <2>1, KeptLevel
<1>5. CASE Ledger!ConnectorCall(w)
  <2>1. \A k \in K : Ledger!Present(rec[k])
    BY <1>5, ConnectorCallIs
  <2>2. CASE \E why \in Stops : rec' = Ledger!Stopped(rec, K, why)
    BY <1>1, <2>1, <2>2, StopLevel
  <2>3. CASE rec' = [s \in Ledger!Scopes |-> IF s \in K THEN [rec[s] EXCEPT !.used.calls = @ + 1]
                                             ELSE rec[s]]
    <3>1. ASSUME NEW s \in K PROVE Keeps(s, rec'[s])
      <4>1. IsRec(rec[s]) /\ rec[s].used.calls + 1 \in Nat
        BY <1>0, <2>1, RecIs DEF IsRec
      <4>2. rec'[s] = [rec[s] EXCEPT !.used.calls = rec[s].used.calls + 1]
        BY <1>0, <2>3, <4>1 DEF IsRec
      <4>3. /\ Alike(rec[s], [rec[s] EXCEPT !.used.calls = rec[s].used.calls + 1])
            /\ Level(rec[s], [rec[s] EXCEPT !.used.calls = rec[s].used.calls + 1])
        BY <4>1, CallsChange
      <4> QED BY <2>1, <4>2, <4>3, RecPresent DEF Keeps, Alike
    <3>2. \A s \in Ledger!Scopes \ K : rec'[s] = rec[s]
      BY <2>3
    <3> QED BY <1>1, <3>1, <3>2, KeptLevel
  <2> QED BY <1>5, <2>2, <2>3, ConnectorCallIs
<1> QED BY <1>2, <1>3, <1>4, <1>5

LEMMA LookGrants ==
    ASSUME Ledger!BudgetConstants, BudgetInv, BudgetInv', GrantInv, Ledger!Look PROVE GrantInv'
<1>1. UNCHANGED <<call, renewed, receipts, sets, spent>>
  BY DEF Ledger!Look, Ledger!counts
<1>2. \A s \in Ledger!Scopes : rec'[s] = rec[s] \/ Keeps(s, rec'[s])
  BY LookIs DEF Keeps, Same
<1> QED BY <1>1, <1>2, KeptLevel

\* A limit of nothing refuses.
LEMMA NotBarred ==
    ASSUME NEW r, IsRec(r), Ledger!Elapsed(r) \in Nat, Ledger!Refusal(r) = "none" PROVE ~Barred(r.limits)
<1>1. ~Ledger!IsStopped(r)
  BY DEF Ledger!Refusal, Ledger!IsStopped
<1>2. ~Ledger!Over(r.limits.tokens, r.used.tokens) /\ ~Ledger!Over(r.limits.time, r.used.time + Ledger!Elapsed(r))
  BY <1>1 DEF Ledger!Refusal
<1> QED BY <1>2 DEF Ledger!Over, Barred, IsRec, IsLimit, Ledger!None

\* What the invariant says of a record: the sums are numbers.
LEMMA GrantIs ==
    ASSUME Ledger!BudgetConstants, BudgetInv, GrantInv, NEW s \in Ledger!Scopes
    PROVE  /\ spent[s] \in Nat /\ Cardinality(renewed[s]) \in Nat
           /\ Ledger!Present(rec[s]) =>
                        /\ IsRec(rec[s]) /\ Ledger!Reserved(rec[s]) \in Nat /\ OpenIn(call, rec[s]) \in Nat
                        /\ rec[s].used.tokens \in Nat /\ Ledger!Elapsed(rec[s]) \in Nat
                        /\ \A c \in ModelCalls : rec[s].pending[c] \in Nat
                        /\ rec[s].limits.tokens # Ledger!None =>
                              /\ rec[s].limits.tokens \in Nat
                              /\ rec[s].limits.tokens * Cardinality(renewed[s]) \in Nat
                              /\ rec[s].limits.tokens * (1 + Cardinality(renewed[s]))
                                   = rec[s].limits.tokens * Cardinality(renewed[s])
                                       + rec[s].limits.tokens
<1>1. spent[s] \in Nat /\ Cardinality(renewed[s]) \in Nat
  BY FS_CardinalityType DEF GrantInv, GrantTyped
<1>2. ASSUME Ledger!Present(rec[s])
      PROVE  /\ IsRec(rec[s]) /\ Ledger!Reserved(rec[s]) \in Nat /\ OpenIn(call, rec[s]) \in Nat
             /\ rec[s].used.tokens \in Nat /\ Ledger!Elapsed(rec[s]) \in Nat
             /\ \A c \in ModelCalls : rec[s].pending[c] \in Nat
             /\ rec[s].limits.tokens # Ledger!None => rec[s].limits.tokens \in Nat
  <2>1. IsRec(rec[s]) /\ Ledger!Elapsed(rec[s]) \in Nat
    BY <1>2, AtRest
  <2>2. Ledger!Reserved(rec[s]) \in Nat /\ OpenIn(call, rec[s]) \in Nat
    BY <2>1, SumsAre
  <2> QED BY <2>1, <2>2 DEF IsRec, IsLimit
<1> QED BY <1>1, <1>2, Product

\* What is left of the records when a call changes: Grants of s in one step.
GrantsAs(s, sp, op, used, res) ==
    /\ Barred(rec[s].limits) => sp = 0 /\ \A c \in ModelCalls : rec'[s].pending[c] = 0
    /\ rec[s].limits.tokens # Ledger!None =>
          /\ sp + op <= rec[s].limits.tokens * (1 + Cardinality(renewed[s]))
          /\ sp + op <= rec[s].limits.tokens * Cardinality(renewed[s]) + used + res

\* A step of a call leaves every record in place.
LEMMA CallGrants ==
    ASSUME Ledger!BudgetConstants, BudgetInv, GrantInv, UNCHANGED <<renewed, receipts, sets>>,
           call' \in [ModelCalls -> {"idle", "open", "done"}], DOMAIN spent' = Ledger!Scopes,
           \A s \in Ledger!Scopes : spent'[s] \in Nat,
           \A s \in Ledger!Scopes : /\ Ledger!Present(rec'[s]) = Ledger!Present(rec[s])
                                    /\ Ledger!Present(rec[s]) => rec'[s].limits = rec[s].limits,
           \A s \in Ledger!Scopes, c \in ModelCalls :
               Ledger!Present(rec[s]) /\ call'[c] = "idle" => rec'[s].pending[c] = 0,
           sets = 0 => \A s \in Ledger!Scopes : Ledger!Present(rec[s]) =>
               GrantsAs(s, spent'[s], OpenIn(call', rec'[s]), rec'[s].used.tokens,
                        Ledger!Reserved(rec'[s]))
    PROVE  GrantInv'
<1>1. GrantTyped'
  BY DEF GrantInv, GrantTyped
<1>2. ASSUME sets = 0, NEW s \in Ledger!Scopes PROVE Lent(s)' /\ Grants(s)'
  <2>1. Lent(s) /\ Chat \in Ledger!Scopes
    BY <1>2, ChatIs DEF GrantInv
  <2>2. Lent(s)'
    BY <2>1 DEF Lent
  <2>3. Grants(s)'
    <3>1. SUFFICES ASSUME Ledger!Present(rec'[s]) PROVE Grants(s)'
      BY DEF Grants
    <3>2. GrantsAs(s, spent'[s], OpenIn(call', rec'[s]), rec'[s].used.tokens, Ledger!Reserved(rec'[s]))
      BY <1>2, <3>1
    <3>3. rec'[s].limits = rec[s].limits /\ renewed' = renewed
      BY <3>1
    <3> QED BY <3>2, <3>3 DEF Grants, GrantsAs
  <2> QED BY <2>2, <2>3
<1> QED BY <1>1, <1>2 DEF GrantInv

LEMMA ReserveGrants ==
    ASSUME Ledger!BudgetConstants, BudgetInv, BudgetInv', GrantInv,
           NEW w \in Ledger!Works, NEW c \in ModelCalls, Ledger!Reserve(w, c)
    PROVE  GrantInv'
<1> DEFINE K == keys[w]
<1>1. UNCHANGED <<renewed, receipts, sets, spent>> /\ call[c] = "idle"
  BY DEF Ledger!Reserve, Ledger!counts
<1>2. K \subseteq Ledger!Scopes /\ \A k \in K : Ledger!Present(rec[k])
  BY KeysAre, ReserveIs
<1>3. CASE (\E why \in Stops : rec' = Ledger!Stopped(rec, K, why)) /\ call' = call
  BY <1>1, <1>2, <1>3, StopLevel
<1>4. ASSUME NEW n \in 1..Output,
             rec' = [s \in Ledger!Scopes |-> IF s \in K
                        THEN [rec[s] EXCEPT !.pending[c] = Ledger!Input + n] ELSE rec[s]],
             \A k \in K : /\ Ledger!Refusal(rec[k]) = "none"
                          /\ rec[k].limits.tokens # Ledger!None => Ledger!Input + n <= Ledger!Room(rec[k]),
             call' = [call EXCEPT ![c] = "open"]
      PROVE  GrantInv'
  <2> HIDE DEF K
  <2>0. n \in Nat /\ Ledger!Input + n \in Nat /\ Ledger!Input + n \in 0..Ledger!Input + Output
    BY DEF Ledger!BudgetConstants, Ledger!Input
  <2>1. call' \in [ModelCalls -> {"idle", "open", "done"}] /\ call'[c] = "open"
        /\ \A x \in ModelCalls : x # c => call'[x] = call[x]
    BY <1>4 DEF GrantInv, GrantTyped
  <2>2. ASSUME NEW s \in Ledger!Scopes, Ledger!Present(rec[s]) PROVE rec[s].pending[c] = 0
    BY <1>1, <2>2 DEF GrantInv, GrantTyped
  <2>3. ASSUME NEW s \in K
        PROVE  /\ Ledger!Present(rec'[s]) /\ rec'[s].limits = rec[s].limits
               /\ rec'[s].used = rec[s].used
               /\ rec'[s].pending = [rec[s].pending EXCEPT ![c] = Ledger!Input + n]
    <3> DEFINE v == [rec[s].pending EXCEPT ![c] = Ledger!Input + n]
    <3>1. IsRec(rec[s]) /\ s \in Ledger!Scopes
      BY <1>2, RecIs
    <3>2. rec'[s] = [rec[s] EXCEPT !.pending = v]
      BY <1>4, <3>1 DEF IsRec
    <3>3. v \in [ModelCalls -> 0..Ledger!Input + Output]
      BY <2>0, <3>1 DEF IsRec
    <3> HIDE DEF v
    <3>4. /\ Alike(rec[s], [rec[s] EXCEPT !.pending = v])
          /\ [rec[s] EXCEPT !.pending = v].pending = v
          /\ [rec[s] EXCEPT !.pending = v].limits = rec[s].limits
          /\ [rec[s] EXCEPT !.pending = v].used = rec[s].used
      BY <3>1, <3>3, PendingChanges
    <3>5. rec'[s].pending = v /\ rec'[s].limits = rec[s].limits /\ rec'[s].used = rec[s].used
          /\ IsRec(rec'[s])
      BY <3>2, <3>4 DEF Alike
    <3> QED BY <3>5, RecPresent DEF v
  <2>4. \A s \in Ledger!Scopes \ K : rec'[s] = rec[s]
    BY <1>4
  <2>5. ASSUME NEW s \in Ledger!Scopes, NEW x \in ModelCalls, Ledger!Present(rec[s]), call'[x] = "idle"
        PROVE  rec'[s].pending[x] = 0
    <3>1. x # c /\ call[x] = "idle" /\ rec[s].pending[x] = 0
      BY <2>1, <2>5 DEF GrantInv, GrantTyped
    <3>2. IsRec(rec[s])
      BY <2>5, RecIs
    <3>3. CASE s \in K
      BY <2>3, <3>1, <3>2, <3>3 DEF IsRec
    <3>4. CASE s \notin K
      BY <2>4, <3>1, <3>4
    <3> QED BY <3>3, <3>4
  <2>6. ASSUME sets = 0, NEW s \in Ledger!Scopes, Ledger!Present(rec[s])
        PROVE  GrantsAs(s, spent'[s], OpenIn(call', rec'[s]), rec'[s].used.tokens,
                        Ledger!Reserved(rec'[s]))
    <3>1. Grants(s) /\ IsRec(rec[s])
      BY <2>6, GrantIs DEF GrantInv
    <3>2. CASE s \in K
      <4>1. /\ Ledger!Reserved(rec'[s]) = Ledger!Reserved(rec[s]) + (Ledger!Input + n) - rec[s].pending[c]
            /\ OpenIn(call', rec'[s]) =
                  OpenIn(call, rec[s]) + (IF call'[c] = "open" THEN Ledger!Input + n ELSE 0)
                     - (IF call[c] = "open" THEN rec[s].pending[c] ELSE 0)
        <5>1. rec'[s].pending = [rec[s].pending EXCEPT ![c] = Ledger!Input + n]
          BY <2>3, <3>2
        <5> QED BY <2>0, <2>1, <3>1, <5>1, PendingSums
      <4>2. ~Barred(rec[s].limits)
        BY <1>4, <2>6, <3>1, <3>2, GrantIs, NotBarred
      <4>3. rec[s].limits.tokens # Ledger!None => Ledger!Input + n <= rec[s].limits.tokens
                                                           - rec[s].used.tokens - Ledger!Reserved(rec[s])
        BY <1>4, <3>2 DEF Ledger!Room
      <4>4. /\ Ledger!Reserved(rec'[s]) = Ledger!Reserved(rec[s]) + (Ledger!Input + n)
            /\ OpenIn(call', rec'[s]) = OpenIn(call, rec[s]) + (Ledger!Input + n)
        BY <1>1, <2>0, <2>1, <2>2, <2>6, <4>1, GrantIs
      <4>5. rec'[s].used.tokens = rec[s].used.tokens /\ spent'[s] = spent[s]
        BY <1>1, <2>3, <3>2
      <4> HIDE DEF GrantInv
      <4> QED BY <2>0, <2>6, <3>1, <4>2, <4>3, <4>4, <4>5, GrantIs DEF Grants, GrantsAs
    <3>3. CASE s \notin K
      <4>1. OpenIn(call', rec[s]) =
                  OpenIn(call, rec[s]) + (IF call'[c] = "open" THEN 0 ELSE 0)
                     - (IF call[c] = "open" THEN rec[s].pending[c] ELSE 0)
        <5>1. rec[s].pending = [rec[s].pending EXCEPT ![c] = 0]
          BY <2>2, <2>6, <3>1 DEF IsRec
        <5> QED BY <2>1, <3>1, <5>1, PendingSums
      <4>2. OpenIn(call', rec'[s]) = OpenIn(call, rec[s]) /\ rec'[s] = rec[s]
        BY <1>1, <2>4, <2>6, <3>3, <4>1, GrantIs
      <4> QED BY <1>1, <2>6, <3>1, <4>2 DEF Grants, GrantsAs
    <3> QED BY <3>2, <3>3
  <2>7. \A s \in Ledger!Scopes : /\ Ledger!Present(rec'[s]) = Ledger!Present(rec[s])
                                 /\ Ledger!Present(rec[s]) => rec'[s].limits = rec[s].limits
    BY <1>2, <2>3, <2>4 DEF Ledger!Present
  <2>8. DOMAIN spent' = Ledger!Scopes /\ \A s \in Ledger!Scopes : spent'[s] \in Nat
    BY <1>1 DEF GrantInv, GrantTyped
  <2> QED BY <1>1, <2>1, <2>5, <2>6, <2>7, <2>8, CallGrants
<1> QED BY <1>3, <1>4, ReserveIs

\* What a call of n is charged of a record.
LEMMA SpentIs ==
    ASSUME Ledger!BudgetConstants, BudgetInv, GrantInv, NEW c \in ModelCalls, NEW n \in Nat,
           spent' = Ledger!SpentBy(c, n)
    PROVE  /\ DOMAIN spent' = Ledger!Scopes /\ \A s \in Ledger!Scopes : spent'[s] \in Nat
           /\ \A s \in Ledger!Scopes \ Ledger!Charged(c) : spent'[s] = spent[s]
           /\ \A s \in Ledger!Charged(c) : \E m \in Nat :
                 spent'[s] = spent[s] + m /\ m <= n /\ m <= rec[s].pending[c]
<1>1. /\ DOMAIN spent' = Ledger!Scopes
      /\ \A s \in Ledger!Scopes : spent'[s] = spent[s] + (IF s \in Ledger!Charged(c)
                                                          THEN Ledger!Min({n, rec[s].pending[c]}) ELSE 0)
  BY DEF Ledger!SpentBy
<1>2. ASSUME NEW s \in Ledger!Charged(c)
      PROVE  \E m \in Nat : spent'[s] = spent[s] + m /\ m <= n /\ m <= rec[s].pending[c]
  <2> DEFINE S == {n, rec[s].pending[c]}
  <2>1. s \in Ledger!Scopes /\ rec[s].pending[c] \in Nat /\ spent'[s] = spent[s] + Ledger!Min(S)
    BY <1>1, GrantIs DEF Ledger!Charged
  <2>2. IsFiniteSet(S)
    <3> DEFINE p == rec[s].pending[c]
    <3> HIDE DEF p
    <3>1. IsFiniteSet({n})
      BY FS_Singleton
    <3>2. IsFiniteSet({n} \cup {p})
      BY <3>1, FS_AddElement
    <3>3. {n, p} = {n} \cup {p}
      OBVIOUS
    <3> QED BY <3>2, <3>3 DEF p
  <2>3. S \in SUBSET Int /\ S # {}
    BY <2>1
  <2>4. Ledger!Min(S) \in S /\ \A x \in S : Ledger!Min(S) <= x
    <3> HIDE DEF S
    <3> QED BY <2>2, <2>3, LeastOf
  <2>5. Ledger!Min(S) \in Nat /\ Ledger!Min(S) <= n /\ Ledger!Min(S) <= rec[s].pending[c]
    <3> DEFINE m == Ledger!Min(S)
    <3>1. m = n \/ m = rec[s].pending[c]
      BY <2>4
    <3>2. m <= n /\ m <= rec[s].pending[c]
      BY <2>4
    <3> HIDE DEF m, S
    <3>3. m \in Nat
      BY <2>1, <3>1
    <3> QED BY <3>2, <3>3 DEF m
  <2> HIDE DEF S
  <2> QED BY <2>1, <2>5
<1>3. ASSUME NEW s \in Ledger!Scopes, s \notin Ledger!Charged(c) PROVE spent'[s] = spent[s]
  <2>1. spent'[s] = spent[s] + 0 /\ spent[s] \in Nat
    BY <1>1, <1>3, GrantIs
  <2> QED BY <2>1
<1>4. \A s \in Ledger!Scopes : spent'[s] \in Nat
  BY <1>2, <1>3, GrantIs
<1> QED BY <1>1, <1>2, <1>3, <1>4

LEMMA SettleGrants ==
    ASSUME Ledger!BudgetConstants, BudgetInv, GrantInv, NEW c \in ModelCalls, Ledger!Settle(c)
    PROVE  GrantInv'
<1>1. PICK n \in 0..Output + Ledger!Input + Ledger!Past :
         /\ rec' = [s \in Ledger!Scopes |-> IF s \in Ledger!Charged(c)
                       THEN [rec[s] EXCEPT !.pending[c] = 0, !.used.tokens = @ + n]
                       ELSE rec[s]]
         /\ spent' = Ledger!SpentBy(c, n)
  BY DEF Ledger!Settle
<1>2. /\ UNCHANGED <<renewed, receipts, sets>> /\ call[c] = "open"
      /\ call' = [call EXCEPT ![c] = "done"]
  BY DEF Ledger!Settle, Ledger!counts
<1>3. call' \in [ModelCalls -> {"idle", "open", "done"}] /\ call'[c] = "done"
      /\ \A x \in ModelCalls : x # c => call'[x] = call[x]
  BY <1>2 DEF GrantInv, GrantTyped
<1>4. n \in Nat
  BY DEF Ledger!BudgetConstants, Ledger!Input, Ledger!Past
<1>5. ASSUME NEW s \in Ledger!Charged(c)
      PROVE  /\ s \in Ledger!Scopes /\ Ledger!Present(rec[s]) /\ Ledger!Present(rec'[s]) /\ IsRec(rec[s])
             /\ rec'[s].limits = rec[s].limits
             /\ rec'[s].used.tokens = rec[s].used.tokens + n
             /\ rec'[s].pending = [rec[s].pending EXCEPT ![c] = 0]
  <2>1. s \in Ledger!Scopes /\ Ledger!Present(rec[s]) /\ IsRec(rec[s])
    BY RecIs DEF Ledger!Charged
  <2>2. rec'[s] = [rec[s] EXCEPT !.pending[c] = 0, !.used.tokens = @ + n]
    BY <1>1, <2>1
  <2> DEFINE r == rec[s]
             v == rec'[s]
  <2>3. /\ Alike(r, v) /\ v.limits = r.limits /\ v.used.tokens = r.used.tokens + n
        /\ v.pending = [r.pending EXCEPT ![c] = 0]
    <3>1. IsRec(r) /\ v = [r EXCEPT !.pending[c] = 0, !.used.tokens = @ + n]
      BY <2>1, <2>2
    <3> HIDE DEF r, v
    <3>2. Settled(c, n, r, v)
      BY <1>4, <3>1, SettledIs
    <3> QED BY <3>2 DEF Settled
  <2> QED BY <2>1, <2>3, RecPresent DEF Alike
<1>6. ASSUME NEW s \in Ledger!Scopes, s \notin Ledger!Charged(c)
      PROVE  rec'[s] = rec[s] /\ (Ledger!Present(rec[s]) => rec[s].pending[c] = 0)
  <2>1. rec'[s] = rec[s]
    BY <1>1, <1>6
  <2>2. Ledger!Present(rec[s]) => rec[s].pending[c] \in Nat /\ ~(rec[s].pending[c] > 0)
    BY <1>6, GrantIs DEF Ledger!Charged
  <2> QED BY <2>1, <2>2
<1>7. ASSUME NEW s \in Ledger!Scopes, NEW x \in ModelCalls, Ledger!Present(rec[s]), call'[x] = "idle"
      PROVE  rec'[s].pending[x] = 0
  <2>1. x # c /\ rec[s].pending[x] = 0
    BY <1>3, <1>7 DEF GrantInv, GrantTyped
  <2>2. CASE s \in Ledger!Charged(c)
    BY <1>5, <2>1, <2>2 DEF IsRec
  <2>3. CASE s \notin Ledger!Charged(c)
    BY <1>6, <2>1, <2>3
  <2> QED BY <2>2, <2>3
<1>8. ASSUME sets = 0, NEW s \in Ledger!Scopes, Ledger!Present(rec[s])
      PROVE  GrantsAs(s, spent'[s], OpenIn(call', rec'[s]), rec'[s].used.tokens,
                      Ledger!Reserved(rec'[s]))
  <2>1. Grants(s) /\ IsRec(rec[s])
    BY <1>8, GrantIs DEF GrantInv
  <2>2. /\ Ledger!Reserved(rec'[s]) = Ledger!Reserved(rec[s]) + 0 - rec[s].pending[c]
        /\ OpenIn(call', rec'[s]) =
              OpenIn(call, rec[s]) + (IF call'[c] = "open" THEN 0 ELSE 0)
                 - (IF call[c] = "open" THEN rec[s].pending[c] ELSE 0)
    <3>1. rec'[s].pending = [rec[s].pending EXCEPT ![c] = 0]
      BY <1>5, <1>6, <1>8, <2>1 DEF IsRec
    <3> QED BY <1>3, <2>1, <3>1, PendingSums
  <2>3. /\ Ledger!Reserved(rec'[s]) = Ledger!Reserved(rec[s]) - rec[s].pending[c]
        /\ OpenIn(call', rec'[s]) = OpenIn(call, rec[s]) - rec[s].pending[c]
    BY <1>2, <1>8, <2>2, GrantIs
  <2>4. CASE s \in Ledger!Charged(c)
    <3>1. PICK m \in Nat : spent'[s] = spent[s] + m /\ m <= n /\ m <= rec[s].pending[c]
      BY <1>1, <1>4, <2>4, SpentIs
    <3>2. ~Barred(rec[s].limits)
      BY <1>8, <2>1, <2>4 DEF Grants, Ledger!Charged
    <3>3. rec'[s].used.tokens = rec[s].used.tokens + n
      BY <1>5, <2>4
    <3> QED BY <1>4, <1>8, <2>1, <2>3, <3>1, <3>2, <3>3, GrantIs DEF Grants, GrantsAs
  <2>5. CASE s \notin Ledger!Charged(c)
    <3>1. rec'[s] = rec[s] /\ rec[s].pending[c] = 0 /\ spent'[s] = spent[s]
      BY <1>1, <1>4, <1>6, <1>8, <2>5, SpentIs
    <3>2. OpenIn(call', rec'[s]) = OpenIn(call, rec[s])
      BY <1>8, <2>3, <3>1, GrantIs
    <3> QED BY <1>8, <2>1, <3>1, <3>2 DEF Grants, GrantsAs
  <2> QED BY <2>4, <2>5
<1>9. \A s \in Ledger!Scopes : /\ Ledger!Present(rec'[s]) = Ledger!Present(rec[s])
                               /\ Ledger!Present(rec[s]) => rec'[s].limits = rec[s].limits
  BY <1>5, <1>6 DEF Ledger!Present
<1>10. DOMAIN spent' = Ledger!Scopes /\ \A s \in Ledger!Scopes : spent'[s] \in Nat
  BY <1>1, <1>4, SpentIs
<1> QED BY <1>2, <1>3, <1>7, <1>8, <1>9, <1>10, CallGrants

LEMMA SettleUnsavedGrants ==
    ASSUME Ledger!BudgetConstants, BudgetInv, GrantInv, NEW c \in ModelCalls, Ledger!SettleUnsaved(c)
    PROVE  GrantInv'
<1>1. PICK n \in 0..Output + Ledger!Input : spent' = Ledger!SpentBy(c, n)
  BY DEF Ledger!SettleUnsaved
<1>2. /\ UNCHANGED <<rec, renewed, receipts, sets>> /\ call[c] = "open"
      /\ call' = [call EXCEPT ![c] = "done"]
  BY DEF Ledger!SettleUnsaved, Ledger!ledger, Ledger!counts
<1>3. call' \in [ModelCalls -> {"idle", "open", "done"}] /\ call'[c] = "done"
      /\ \A x \in ModelCalls : x # c => call'[x] = call[x]
  BY <1>2 DEF GrantInv, GrantTyped
<1>4. n \in Nat
  BY DEF Ledger!BudgetConstants, Ledger!Input, Ledger!Past
<1>5. \A s \in Ledger!Scopes, x \in ModelCalls :
         Ledger!Present(rec[s]) /\ call'[x] = "idle" => rec'[s].pending[x] = 0
  BY <1>2, <1>3 DEF GrantInv, GrantTyped
<1>6. ASSUME sets = 0, NEW s \in Ledger!Scopes, Ledger!Present(rec[s])
      PROVE  GrantsAs(s, spent'[s], OpenIn(call', rec'[s]), rec'[s].used.tokens,
                      Ledger!Reserved(rec'[s]))
  <2>1. Grants(s) /\ IsRec(rec[s]) /\ rec[s].pending[c] \in Nat
    BY <1>6, GrantIs DEF GrantInv
  <2>2. OpenIn(call', rec[s]) =
              OpenIn(call, rec[s]) + (IF call'[c] = "open" THEN rec[s].pending[c] ELSE 0)
                 - (IF call[c] = "open" THEN rec[s].pending[c] ELSE 0)
    <3>1. rec[s].pending = [rec[s].pending EXCEPT ![c] = rec[s].pending[c]]
      BY <2>1 DEF IsRec
    <3> QED BY <1>3, <2>1, <3>1, PendingSums
  <2>3. OpenIn(call', rec'[s]) = OpenIn(call, rec[s]) - rec[s].pending[c] /\ rec'[s] = rec[s]
    BY <1>2, <1>3, <1>6, <2>2, GrantIs
  <2>4. PICK m \in Nat : spent'[s] = spent[s] + m /\ m <= rec[s].pending[c]
                         /\ (s \notin Ledger!Charged(c) => m = 0)
    <3>1. CASE s \in Ledger!Charged(c)
      BY <1>1, <1>4, <3>1, SpentIs
    <3>2. CASE s \notin Ledger!Charged(c)
      <4>1. spent'[s] = spent[s] + 0
        BY <1>1, <1>4, <3>2, SpentIs, GrantIs
      <4> QED BY <2>1, <4>1
    <3> QED BY <3>1, <3>2
  <2>5. Barred(rec[s].limits) => s \notin Ledger!Charged(c)
    BY <1>6, <2>1 DEF Grants, Ledger!Charged
  <2> QED BY <1>6, <2>1, <2>3, <2>4, <2>5, GrantIs DEF Grants, GrantsAs
<1>7. DOMAIN spent' = Ledger!Scopes /\ \A s \in Ledger!Scopes : spent'[s] \in Nat
  BY <1>1, <1>4, SpentIs
<1> QED BY <1>2, <1>3, <1>5, <1>6, <1>7, CallGrants

\* What calls in flight were given at most counts as spent; load records it as used.
LEMMA RestartGrants ==
    ASSUME Ledger!BudgetConstants, BudgetInv, GrantInv, Ledger!Restart PROVE GrantInv'
<1>1. /\ rec' = [s \in Ledger!Scopes |-> IF Ledger!Present(rec[s]) THEN Ledger!Loaded(s, rec[s]) ELSE Ledger!Absent]
      /\ call' = [c \in ModelCalls |-> IF call[c] = "idle" THEN "idle" ELSE "done"]
      /\ UNCHANGED <<renewed, receipts, sets>>
  BY DEF Ledger!Restart
<1>2. ASSUME NEW s \in Ledger!Scopes
      PROVE  spent'[s] = spent[s] + (IF Ledger!Present(rec[s]) THEN OpenIn(call, rec[s]) ELSE 0)
  <2>1. spent'[s] = spent[s] + (IF Ledger!Present(rec[s])
                                THEN Ledger!MapThenSumSet(LAMBDA c : IF call[c] = "open"
                                                                     THEN rec[s].pending[c] ELSE 0,
                                                          ModelCalls)
                                ELSE 0)
    BY DEF Ledger!Restart
  <2>2. Ledger!MapThenSumSet(LAMBDA c : IF call[c] = "open" THEN rec[s].pending[c] ELSE 0, ModelCalls)
                 = OpenIn(call, rec[s])
    BY OpenIs, CallsFinite
  <2> QED BY <2>1, <2>2
<1>3. DOMAIN spent' = Ledger!Scopes /\ \A s \in Ledger!Scopes : spent'[s] \in Nat
  <2>1. DOMAIN spent' = Ledger!Scopes
    BY DEF Ledger!Restart
  <2> QED BY <1>2, <2>1, GrantIs
<1>4. ASSUME NEW s \in Ledger!Scopes, Ledger!Present(rec[s])
      PROVE  /\ Ledger!Present(rec'[s]) /\ IsRec(rec'[s]) /\ rec'[s].limits = rec[s].limits
             /\ \A c \in ModelCalls : rec'[s].pending[c] = 0
             /\ rec'[s].used.tokens = rec[s].used.tokens + Ledger!Reserved(rec[s])
             /\ Ledger!Reserved(rec'[s]) = 0 /\ OpenIn(call', rec'[s]) = 0
  <2>1. IsRec(rec[s]) /\ Ledger!Elapsed(rec[s]) \in Nat /\ rec'[s] = Ledger!Loaded(s, rec[s])
    BY <1>1, <1>4, GrantIs
  <2>2. /\ IsRec(rec'[s]) /\ rec'[s].limits = rec[s].limits
        /\ rec'[s].pending = [c \in ModelCalls |-> 0]
        /\ rec'[s].used.tokens = rec[s].used.tokens + Ledger!Reserved(rec[s])
    BY <2>1, LoadedIs
  <2>3. \A c \in ModelCalls : rec'[s].pending[c] = 0
    BY <2>2
  <2>4. Ledger!Reserved(rec'[s]) = 0 /\ OpenIn(call', rec'[s]) = 0
    BY <2>2, <2>3, SumsAre
  <2> QED BY <2>2, <2>3, <2>4, RecPresent
<1>5. ASSUME NEW s \in Ledger!Scopes, ~Ledger!Present(rec[s]) PROVE ~Ledger!Present(rec'[s])
  BY <1>1, <1>5, NotPresent
<1>6. call' \in [ModelCalls -> {"idle", "open", "done"}]
  BY <1>1
<1>7. ASSUME sets = 0, NEW s \in Ledger!Scopes, Ledger!Present(rec[s])
      PROVE  GrantsAs(s, spent'[s], OpenIn(call', rec'[s]), rec'[s].used.tokens,
                      Ledger!Reserved(rec'[s]))
  <2>1. Grants(s) /\ IsRec(rec[s])
    BY <1>7, GrantIs DEF GrantInv
  <2>2. spent'[s] = spent[s] + OpenIn(call, rec[s])
    BY <1>2, <1>7
  <2>3. Barred(rec[s].limits) => spent[s] = 0 /\ OpenIn(call, rec[s]) = 0
    BY <1>7, <2>1, SumsAre DEF Grants
  <2> QED BY <1>4, <1>7, <2>1, <2>2, <2>3, GrantIs DEF Grants, GrantsAs
<1>8. \A s \in Ledger!Scopes : /\ Ledger!Present(rec'[s]) = Ledger!Present(rec[s])
                               /\ Ledger!Present(rec[s]) => rec'[s].limits = rec[s].limits
  BY <1>4, <1>5 DEF Ledger!Present
<1>9. \A s \in Ledger!Scopes, c \in ModelCalls :
         Ledger!Present(rec[s]) /\ call'[c] = "idle" => rec'[s].pending[c] = 0
  BY <1>4
<1> QED BY <1>1, <1>3, <1>6, <1>7, <1>8, <1>9, CallGrants

\* A request that grants the limits again grants them once: the second time it
\* is answered with its receipt, or the limits are of nothing.
LEMMA ResumeGrants ==
    ASSUME Ledger!BudgetConstants, BudgetInv, GrantInv, NEW q \in Requests, NEW s \in Ledger!Scopes,
           NEW renew \in BOOLEAN, Ledger!Resume(q, s, renew)
    PROVE  GrantInv'
<1>1. /\ UNCHANGED <<call, sets, spent>>
      /\ renewed' = [renewed EXCEPT ![s] = IF renew THEN @ \cup {q} ELSE @]
  BY DEF Ledger!Resume, Ledger!counts
<1>2. /\ Ledger!Present(rec[s]) /\ ~Ledger!IsActive(rec[s]) /\ IsRec(rec[s]) /\ q \notin receipts
      /\ DOMAIN rec' = Ledger!Scopes /\ \A k \in Ledger!Scopes : k # s => rec'[k] = rec[k]
      /\ IsRec(rec'[s])
      /\ rec'[s].used = IF renew THEN Ledger!Unused ELSE rec[s].used
      /\ rec'[s].limits = rec[s].limits /\ rec'[s].pending = rec[s].pending
      /\ receipts' = receipts \cup {q} \/ receipts' = receipts
      /\ renew /\ receipts' # receipts \cup {q} =>
            rec[s].limits.tokens = 0 \/ rec[s].limits.time = 0
  BY ResumeIs
<1>3. Ledger!Present(rec'[s]) /\ \A c \in ModelCalls : rec[s].pending[c] = 0
  <2>1. \A c \in ModelCalls : rec[s].pending[c] = 0
    BY <1>2 DEF Ledger!IsActive, IsRec
  <2> QED BY <1>2, <2>1, RecPresent
<1>4. /\ DOMAIN renewed = Ledger!Scopes /\ DOMAIN renewed' = Ledger!Scopes
      /\ \A k \in Ledger!Scopes : k # s => renewed'[k] = renewed[k]
      /\ renewed'[s] = IF renew THEN renewed[s] \cup {q} ELSE renewed[s]
      /\ renewed[s] \in SUBSET Requests /\ IsFiniteSet(renewed[s])
  BY <1>1 DEF GrantInv, GrantTyped
<1>5. GrantTyped'
  <2>1. \A k \in Ledger!Scopes : renewed'[k] \in SUBSET Requests /\ IsFiniteSet(renewed'[k])
    <3>1. IsFiniteSet(renewed[s] \cup {q})
      BY <1>4, FS_AddElement
    <3> QED BY <1>4, <3>1 DEF GrantInv, GrantTyped
  <2>2. \A k \in Ledger!Scopes, c \in ModelCalls :
           Ledger!Present(rec'[k]) /\ call'[c] = "idle" => rec'[k].pending[c] = 0
    BY <1>1, <1>2, <1>3 DEF GrantInv, GrantTyped
  <2> QED BY <1>1, <1>4, <2>1, <2>2 DEF GrantInv, GrantTyped
<1>6. ASSUME sets = 0, NEW k \in Ledger!Scopes PROVE Lent(k)' /\ Grants(k)'
  <2>1. /\ Lent(k) /\ Grants(k) /\ Lent(s) /\ Grants(s) /\ Chat \in Ledger!Scopes /\ Chat \notin Jobs
    BY <1>6, ChatIs DEF GrantInv
  <2>2. \A x \in Ledger!Scopes : /\ Ledger!Present(rec[x]) = Ledger!Present(rec'[x])
                                 /\ Ledger!Present(rec[x]) => rec'[x].limits = rec[x].limits
    BY <1>2, <1>3 DEF Ledger!Present
  <2>3. ~(renewed'[k] \subseteq receipts') =>
           IF k \in Jobs THEN Ledger!Present(rec[Chat]) /\ Barred(rec[Chat].limits)
           ELSE Ledger!Present(rec[k]) => Barred(rec[k].limits)
    <3>1. CASE renewed'[k] = renewed[k]
      BY <1>2, <2>1, <3>1 DEF Lent
    <3>2. CASE renewed'[k] # renewed[k]
      <4>1. k = s /\ renew /\ renewed'[k] = renewed[k] \cup {q}
        BY <1>4, <3>2
      <4>2. CASE receipts' = receipts \cup {q}
        BY <2>1, <4>1, <4>2 DEF Lent
      <4>3. CASE receipts' # receipts \cup {q}
        BY <1>2, <2>1, <4>1, <4>3 DEF Lent, Barred
      <4> QED BY <4>2, <4>3
    <3> QED BY <3>1, <3>2
  <2>4. Lent(k)'
    BY <2>1, <2>2, <2>3 DEF Lent
  <2>5. CASE k # s
    <3>1. rec'[k] = rec[k] /\ renewed'[k] = renewed[k] /\ call' = call /\ spent' = spent
      BY <1>1, <1>2, <1>4, <2>5
    <3>2. Grants(k)'
      BY <2>1, <3>1 DEF Grants
    <3> QED BY <2>4, <3>2
  <2>6. CASE k = s
    <3>1. /\ Ledger!Reserved(rec[s]) = 0 /\ OpenIn(call, rec[s]) = 0
          /\ Ledger!Reserved(rec'[s]) = 0 /\ OpenIn(call', rec'[s]) = 0
      BY <1>2, <1>3, SumsAre
    <3>2. rec'[s].limits = rec[s].limits /\ spent'[s] = spent[s]
          /\ rec'[s].pending = rec[s].pending /\ rec'[s].used.tokens \in Nat
      BY <1>1, <1>2 DEF IsRec
    <3> DEFINE t == rec[s].limits.tokens
               g == Cardinality(renewed[s])
               h == Cardinality(renewed'[s])
    <3>3. g \in Nat /\ h \in Nat /\ (t # Ledger!None => t \in Nat) /\ spent[s] \in Nat
      <4>1. h \in Nat
        BY <1>5, FS_CardinalityType DEF GrantTyped
      <4> QED BY <1>2, <4>1, GrantIs
    <3>4. t # Ledger!None => /\ spent[s] <= t * (1 + g) /\ spent[s] <= t * g + rec[s].used.tokens
                             /\ rec[s].used.tokens \in Nat /\ t * g \in Nat
      BY <1>2, <2>1, <3>1, <3>3, GrantIs DEF Grants
    <3>5. Barred(rec[s].limits) => spent[s] = 0
      BY <1>2, <2>1 DEF Grants
    <3>6. t # Ledger!None => spent[s] <= t * (1 + h) /\ spent[s] <= t * h + rec'[s].used.tokens
      <4> HIDE DEF t, g, h
      <4>1. CASE Barred(rec[s].limits)
        <5>1. t # Ledger!None => t * h \in Nat /\ t * (1 + h) \in Nat
          BY <3>3, Product
        <5> QED BY <3>2, <3>5, <4>1, <5>1
      <4>2. CASE ~renew
        <5>1. g = h /\ rec'[s].used = rec[s].used
          BY <1>2, <1>4, <4>2 DEF g, h
        <5> QED BY <3>4, <5>1
      <4>3. CASE renew /\ ~Barred(rec[s].limits)
        <5>1. renewed[s] \subseteq receipts
          BY <1>2, <2>1, <4>3 DEF Lent
        <5>2. h = g + 1
          BY <1>2, <1>4, <4>3, <5>1, FS_AddElement DEF g, h
        <5>3. ASSUME t # Ledger!None PROVE spent[s] <= t * (1 + h) /\ spent[s] <= t * h + rec'[s].used.tokens
          <6>1. /\ t * g \in Nat /\ t * (1 + g) = t * g + t /\ t * (g + 1) = t * (1 + g)
                /\ t * h \in Nat /\ t * (1 + h) = t * h + t
            BY <3>3, <5>3, Product
          <6>2. t * h = t * (1 + g)
            BY <5>2, <6>1
          <6>3. spent[s] <= t * h
            BY <3>4, <5>3, <6>2
          <6> QED BY <3>2, <3>3, <5>3, <6>1, <6>3
        <5> QED BY <5>3
      <4> QED BY <4>1, <4>2, <4>3
    <3>7. Grants(s)'
      <4>1. Barred(rec'[s].limits) =>
               spent'[s] = 0 /\ \A c \in ModelCalls : rec'[s].pending[c] = 0
        BY <1>3, <3>2, <3>5
      <4>2. rec'[s].limits.tokens # Ledger!None =>
               /\ spent'[s] + OpenIn(call', rec'[s])
                    <= rec'[s].limits.tokens * (1 + Cardinality(renewed'[s]))
               /\ spent'[s] + OpenIn(call', rec'[s])
                    <= rec'[s].limits.tokens * Cardinality(renewed'[s])
                         + rec'[s].used.tokens + Ledger!Reserved(rec'[s])
        <5>1. spent'[s] + OpenIn(call', rec'[s]) = spent[s]
          BY <3>1, <3>2, <3>3
        <5>2. t # Ledger!None => t * h + rec'[s].used.tokens + Ledger!Reserved(rec'[s])
                                   = t * h + rec'[s].used.tokens
          <6>1. t # Ledger!None => t * h \in Nat
            BY <3>3, Product
          <6> HIDE DEF t, h
          <6> QED BY <3>1, <3>2, <6>1
        <5> QED BY <3>2, <3>6, <5>1, <5>2
      <4> QED BY <4>1, <4>2 DEF Grants
    <3> QED BY <2>4, <2>6, <3>7
  <2> QED BY <2>5, <2>6
<1> QED BY <1>1, <1>5, <1>6 DEF GrantInv

LEMMA SetGrants ==
    ASSUME Ledger!BudgetConstants, BudgetInv, GrantInv, NEW s \in Ledger!Scopes, Ledger!Set(s) PROVE GrantInv'
<1>1. PICK v : /\ rec' = Ledger!Pruned([rec EXCEPT ![s] = v])
               /\ \/ Same(rec[s], v) /\ v.pending = rec[s].pending
                  \/ Made(rec[s], v) /\ \A c \in ModelCalls : v.pending[c] = 0
  BY SetIs
<1>2. UNCHANGED <<call, renewed>> /\ sets' = sets + 1 /\ spent' = Ledger!SinceMade(spent)
  BY DEF Ledger!Set
<1>3. DOMAIN rec = Ledger!Scopes
  BY DEF BudgetInv, BudgetTyped
<1> DEFINE p == [rec EXCEPT ![s] = v]
<1>4. \A k \in Ledger!Scopes : rec'[k] = p[k] \/ ~Ledger!Present(rec'[k])
  BY <1>1, NotPresent DEF Ledger!Pruned
<1>5. ASSUME NEW k \in Ledger!Scopes, NEW c \in ModelCalls, Ledger!Present(rec'[k]), call'[c] = "idle"
      PROVE  rec'[k].pending[c] = 0
  <2>1. rec'[k] = p[k] /\ call[c] = "idle"
    BY <1>2, <1>4, <1>5
  <2>2. CASE k = s
    <3>1. rec'[k] = v
      BY <1>3, <2>1, <2>2
    <3> QED BY <1>1, <2>1, <2>2, <3>1 DEF Same, GrantInv, GrantTyped
  <2>3. CASE k # s
    <3>1. rec'[k] = rec[k]
      BY <1>3, <2>1, <2>3
    <3> QED BY <1>5, <2>1, <3>1 DEF GrantInv, GrantTyped
  <2> QED BY <2>2, <2>3
<1>6. DOMAIN spent' = Ledger!Scopes /\ \A k \in Ledger!Scopes : spent'[k] \in Nat
  BY <1>2, GrantIs DEF Ledger!SinceMade
<1>7. GrantTyped' /\ sets' # 0
  <2>1. sets \in Nat
    BY DEF GrantInv, GrantTyped
  <2> QED BY <1>2, <1>5, <1>6, <2>1 DEF GrantInv, GrantTyped
<1> QED BY <1>7 DEF GrantInv

LEMMA GrantsNext ==
    ASSUME Ledger!BudgetConstants, BudgetInv, BudgetInv', GrantInv, [Ledger!Next]_Ledger!vars PROVE GrantInv'
<1>1. ASSUME UNCHANGED <<rec, call, renewed, receipts, sets, spent>> PROVE GrantInv'
  BY <1>1, KeptLevel
<1>2. CASE UNCHANGED Ledger!vars
  BY <1>1, <1>2 DEF Ledger!vars, Ledger!ledger, Ledger!counts
<1>3. CASE \E w \in Ledger!Works : \/ Ledger!Start(w) \/ Ledger!End(w) \/ Ledger!Unsaved(w) \/ Ledger!ConnectorCall(w)
                                   \/ \E c \in ModelCalls : Ledger!Reserve(w, c)
  BY <1>3, WorkGrants, ReserveGrants
<1>4. CASE \E c \in ModelCalls : Ledger!Settle(c) \/ Ledger!SettleUnsaved(c)
  BY <1>4, SettleGrants, SettleUnsavedGrants
<1>5. CASE \E s \in Ledger!Scopes : Ledger!Set(s) \/ \E q \in Requests, renew \in BOOLEAN : Ledger!Resume(q, s, renew)
  BY <1>5, SetGrants, ResumeGrants
<1>6. CASE Ledger!Look \/ Ledger!Restart
  BY <1>6, LookGrants, RestartGrants
<1>7. CASE Ledger!Pass
  BY <1>1, <1>7 DEF Ledger!Pass, Ledger!ledger
<1>8. CASE Ledger!Next
  BY <1>3, <1>4, <1>5, <1>6, <1>7, <1>8, BeginGrants DEF Ledger!Next
<1> QED BY <1>2, <1>8

LEMMA GrantsBound ==
    ASSUME Ledger!BudgetConstants, BudgetInv, GrantInv PROVE Ledger!WithinGrants
<1>1. SUFFICES ASSUME NEW s \in Ledger!Scopes, Ledger!Present(rec[s]), sets = 0, rec[s].limits.tokens # Ledger!None
               PROVE  spent[s] <= rec[s].limits.tokens
                                    * (1 + Cardinality(renewed[s] \cap Requests))
  BY SameCount DEF Ledger!WithinGrants
<1>2. renewed[s] \cap Requests = renewed[s]
  BY DEF GrantInv, GrantTyped
<1>3. spent[s] + OpenIn(call, rec[s]) <= rec[s].limits.tokens * (1 + Cardinality(renewed[s]))
  BY <1>1 DEF GrantInv, Grants
<1>4. /\ spent[s] \in Nat /\ OpenIn(call, rec[s]) \in Nat
      /\ rec[s].limits.tokens * (1 + Cardinality(renewed[s])) \in Nat
  <2>1. rec[s].limits.tokens \in Nat /\ rec[s].limits.tokens * Cardinality(renewed[s]) \in Nat
        /\ rec[s].limits.tokens * (1 + Cardinality(renewed[s]))
             = rec[s].limits.tokens * Cardinality(renewed[s]) + rec[s].limits.tokens
    BY <1>1, GrantIs
  <2> QED BY <1>1, <2>1, GrantIs
<1> DEFINE b == rec[s].limits.tokens * (1 + Cardinality(renewed[s]))
<1>5. spent[s] <= b
  <2> HIDE DEF b
  <2>1. spent[s] + OpenIn(call, rec[s]) <= b /\ b \in Nat
    BY <1>3, <1>4 DEF b
  <2> QED BY <1>4, <2>1
<1> QED BY <1>2, <1>5

\* What calls use of a scope stays within its limit, as often as it was granted,
\* whatever runs at once, is cut off, is resumed twice or is not recorded.
THEOREM SpentWithinGrants ==
    ASSUME Ledger!BudgetConstants PROVE Ledger!Spec => []Ledger!WithinGrants
<1>1. Ledger!Init => BudgetInv /\ GrantInv
  BY InitBudget, InitGrants
<1>2. BudgetInv /\ GrantInv /\ [Ledger!Next]_Ledger!vars => BudgetInv' /\ GrantInv'
  <2>1. BudgetInv /\ [Ledger!Next]_Ledger!vars => BudgetInv'
    BY BudgetNext
  <2> QED BY <2>1, GrantsNext
<1>3. BudgetInv /\ GrantInv => Ledger!WithinGrants
  BY GrantsBound
<1> QED BY <1>1, <1>2, <1>3, PTL DEF Ledger!Spec

=============================================================================
