----------------------------- MODULE TaskGraph -----------------------------
(***************************************************************************)
(* The dependencies between durable tasks (crates/cli/src/tasks).  A task's *)
(* authority accepts new dependencies when each is known to it and none     *)
(* leads back to the task, following the records it holds: its own, and     *)
(* replicas of the others, which the relay brings later.                   *)
(***************************************************************************)
EXTENDS Naturals, Sequences

CONSTANTS Tasks,         \* task ids
          Runners,       \* the Devices that are some task's authority
          AuthorityOf,   \* AuthorityOf[t]: the authority of t
          MaxRevisions   \* bound: revisions of a task

GraphConstants ==
    /\ AuthorityOf \in [Tasks -> Runners]
    /\ MaxRevisions \in Nat

VARIABLES edits,  \* edits[t]: the dependencies of each revision of t
          held,   \* held[d][t]: the revision d holds of t, 0 for none
          behind  \* history: behind[t]: the tasks of which t's authority held an
                  \* older record when it accepted t's dependencies

vars == <<edits, held, behind>>

Init ==
    /\ edits = [t \in Tasks |-> <<>>]
    /\ held = [d \in Runners |-> [t \in Tasks |-> 0]]
    /\ behind = [t \in Tasks |-> {}]

\* The dependencies of t in the record d holds.
Seen(d, t) == IF held[d][t] = 0 THEN {} ELSE edits[t][held[d][t]]

\* Every task that can be reached from D by following the relation next.
Within(next, D) == {C \in SUBSET Tasks : D \subseteq C /\ \A t \in C : next[t] \subseteq C}

LeadsTo(next, D, t) == \A C \in Within(next, D) : t \in C

\* Slip: the walk stops at the dependencies of the dependencies.
NoCycleNear(d, t, D) == t \notin D /\ \A u \in D : t \notin Seen(d, u)

\* dependencies: the walk over the records d holds does not meet t.
NoCycle(d, t, D) == ~LeadsTo([x \in Tasks |-> Seen(d, x)], D, t)

\* Every task the walk meets has a record there.
Known(d, t, D) ==
    \A u \in Tasks \ {t} : LeadsTo([x \in Tasks |-> Seen(d, x)], D, u) => held[d][u] # 0

\* create and update at the authority.
Edit(t, D) ==
    LET d == AuthorityOf[t] IN
    /\ Len(edits[t]) < MaxRevisions
    /\ Known(d, t, D)
    /\ NoCycle(d, t, D)
    /\ edits' = [edits EXCEPT ![t] = Append(@, D)]
    /\ held' = [held EXCEPT ![d][t] = Len(edits[t]) + 1]
    /\ behind' = [behind EXCEPT ![t] = {u \in Tasks : held[d][u] # Len(edits[u])}]

\* apply: a newer revision, perhaps not the newest, reaches a replica.
Apply(d, t) ==
    /\ d # AuthorityOf[t]
    /\ \E n \in held[d][t] + 1 .. Len(edits[t]) : held' = [held EXCEPT ![d][t] = n]
    /\ UNCHANGED <<edits, behind>>

Next ==
    \/ \E t \in Tasks, D \in SUBSET Tasks : Edit(t, D)
    \/ \E d \in Runners, t \in Tasks : Apply(d, t)

Spec == Init /\ [][Next]_vars

-----------------------------------------------------------------------------
(* Properties.                                                             *)

TypeOK ==
    /\ edits \in [Tasks -> Seq(SUBSET Tasks)]
    /\ held \in [Runners -> [Tasks -> Nat]]
    /\ behind \in [Tasks -> SUBSET Tasks]

\* The dependencies the authorities hold.
Current(t) == Seen(AuthorityOf[t], t)

\* Some of the tasks of C wait for one another: none of those can run.
Loops(C) == C # {} /\ \A t \in C : Current(t) \cap C # {}

\* Dependencies form an acyclic graph, except that two authorities may each
\* accept their half of a cycle before they have the other's: in every cycle
\* some task's authority held an old record of another task of it.
Acyclic == \A C \in SUBSET Tasks : Loops(C) => \E t \in C : behind[t] \cap C # {}

\* So the tasks of one authority never wait for one another in a cycle.
OwnAcyclic ==
    \A C \in SUBSET Tasks : Loops(C) => \A d \in Runners : \E t \in C : AuthorityOf[t] # d
=============================================================================
