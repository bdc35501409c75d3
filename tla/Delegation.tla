----------------------------- MODULE Delegation -----------------------------
(***************************************************************************)
(* What a handoff promises the requesting bot, whatever happens between    *)
(* the Devices: its attempts come one after another, each gets one outcome *)
(* that never changes, and each report wakes the bot at most once.         *)
(***************************************************************************)
EXTENDS Naturals

CONSTANT MaxAttempts  \* bound: attempts of the handoff

Attempts == 1..MaxAttempts
Reported == {"completed", "failed", "blocked"}
Final    == Reported \cup {"cancelled"}

VARIABLES outcome,  \* outcome[n]: "absent", "outstanding" or how attempt n ended
          woken     \* attempts whose report has woken the requester

Init ==
    /\ outcome = [n \in Attempts |-> "absent"]
    /\ woken = {}

\* A new attempt follows only attempts that have ended.
Ask(n) ==
    /\ outcome[n] = "absent"
    /\ \A m \in 1..(n - 1) : outcome[m] \in Final
    /\ \A m \in (n + 1)..MaxAttempts : outcome[m] = "absent"
    /\ outcome' = [outcome EXCEPT ![n] = "outstanding"]
    /\ UNCHANGED woken

End(n) ==
    /\ outcome[n] = "outstanding"
    /\ \E status \in Final : outcome' = [outcome EXCEPT ![n] = status]
    /\ UNCHANGED woken

\* A cancelled attempt wakes nobody.
Wake(n) ==
    /\ outcome[n] \in Reported
    /\ n \notin woken
    /\ woken' = woken \cup {n}
    /\ UNCHANGED outcome

Next == \E n \in Attempts : Ask(n) \/ End(n) \/ Wake(n)

vars == <<outcome, woken>>

Spec == Init /\ [][Next]_vars
=============================================================================
