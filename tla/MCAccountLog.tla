---------------------------- MODULE MCAccountLog ----------------------------
(* An account's log in six parts of the run, each with its own bots,       *)
(* messages and mishaps.                                                   *)
EXTENDS AccountLog

CONSTANTS d, e,         \* Devices
          b1, b2,       \* bots
          c1, c2, g,    \* their direct chats, and a group
          m1, m2, m3, n, \* messages, n of the group
          Parts         \* the parts of the run

VARIABLE part

MCVars == <<part, log, head, gone, past, early, known, store, pos, before, last, applied, saved, outbox,
            deletes, unsent, sync, reading, pushes, made, changes, cuts, restarts>>

Both == {d, e}
Chs  == {c1, c2, g}
Dm   == [b \in {b1, b2} |-> IF b = b1 THEN c1 ELSE c2]
OneBot == [bots |-> {b1}, chats |-> {c1}, deleted |-> {},
           members |-> [c \in Chs |-> IF c = c1 THEN {b1} ELSE {}]]
TwoBots == [bots |-> {b1, b2}, chats |-> {c1, c2}, deleted |-> {},
            members |-> [c \in Chs |-> IF c = c1 THEN {b1} ELSE IF c = c2 THEN {b2} ELSE {}]]
NoMessage == [m \in {} |-> c1]
ChatsOf == [m \in {m1, m2, m3, n} |-> IF m = n THEN g ELSE c1]
NoPrior == <<>>
InC1(ms) == [m \in ms |-> c1]
By(ms, a) == [m \in ms |-> a]
AllByD == By({m1, m2, m3, n}, d)

\* Rosters alone: bots, direct chats and groups, made and deleted on both Devices.
Lists == INSTANCE AccountLog WITH
    Bots <- {b1, b2}, Messages <- {}, DmOf <- Dm,
    ChatOf <- NoMessage, Author <- NoMessage, Rows <- {}, Founded <- OneBot, Prior <- <<>>,
    Newcomers <- {}, MaxVersion <- 1, MaxChanges <- 3, MaxCuts <- 0, MaxRestarts <- 0,
    Failing <- {}, PageSize <- 2, OlderPage <- 1

\* The same, while answers are lost and a Device starts again.
Retries == INSTANCE AccountLog WITH
    Bots <- {b1, b2}, Messages <- {}, DmOf <- Dm,
    ChatOf <- NoMessage, Author <- NoMessage, Rows <- {}, Founded <- OneBot, Prior <- <<>>,
    Newcomers <- {}, MaxVersion <- 1, MaxChanges <- 2, MaxCuts <- 1, MaxRestarts <- 1,
    Failing <- {"sent"}, PageSize <- 2, OlderPage <- 1

\* A Device that joins an account of three messages while they are edited.
Joins == INSTANCE AccountLog WITH
    Bots <- {b1}, Messages <- {m1, m2, m3}, DmOf <- [b \in {b1} |-> c1],
    ChatOf <- InC1({m1, m2, m3}), Author <- By({m1, m2, m3}, d),
    Rows <- {m2}, Founded <- OneBot, Prior <- <<m1, m2, m3>>,
    Newcomers <- {e}, MaxVersion <- 2, MaxChanges <- 0, MaxCuts <- 0, MaxRestarts <- 0,
    Failing <- {}, PageSize <- 1, OlderPage <- 1

\* A Device that joins while messages are first sent and edited, and either starts again.
Meets == INSTANCE AccountLog WITH
    Bots <- {b1}, Messages <- {m1, m3}, DmOf <- [b \in {b1} |-> c1],
    ChatOf <- InC1({m1, m3}), Author <- By({m1, m3}, d),
    Rows <- {}, Founded <- OneBot, Prior <- <<m1>>,
    Newcomers <- {e}, MaxVersion <- 2, MaxChanges <- 0, MaxCuts <- 0, MaxRestarts <- 1,
    Failing <- {}, PageSize <- 1, OlderPage <- 1

\* A chat both write in while either deletes it.
Deletes == INSTANCE AccountLog WITH
    Bots <- {b1}, Messages <- {m1, m2}, DmOf <- [b \in {b1} |-> c1],
    ChatOf <- InC1({m1, m2}), Author <- [m \in {m1, m2} |-> IF m = m1 THEN d ELSE e],
    Rows <- {}, Founded <- OneBot, Prior <- <<>>,
    Newcomers <- {}, MaxVersion <- 1, MaxChanges <- 1, MaxCuts <- 1, MaxRestarts <- 1,
    Failing <- {"sent"}, PageSize <- 2, OlderPage <- 1

\* A group made and written in on one Device while the other changes the roster.
Groups == INSTANCE AccountLog WITH
    Bots <- {b1, b2}, Messages <- {n}, DmOf <- Dm,
    ChatOf <- [m \in {n} |-> g], Author <- By({n}, d),
    Rows <- {}, Founded <- OneBot, Prior <- <<>>,
    Newcomers <- {}, MaxVersion <- 1, MaxChanges <- 2, MaxCuts <- 0, MaxRestarts <- 0,
    Failing <- {}, PageSize <- 1, OlderPage <- 1

ASSUME LogConstants ==
    /\ Lists!AccountConstants /\ Retries!AccountConstants /\ Joins!AccountConstants /\ Meets!AccountConstants
    /\ Deletes!AccountConstants /\ Groups!AccountConstants

MCInit ==
    /\ part \in Parts
    /\ \/ part = "rosters" /\ Lists!Init
       \/ part = "retries" /\ Retries!Init
       \/ part = "joins" /\ Joins!Init
       \/ part = "meets" /\ Meets!Init
       \/ part = "deletes" /\ Deletes!Init
       \/ part = "groups" /\ Groups!Init

MCNext ==
    /\ part' = part
    /\ part = "rosters" => Lists!Next
    /\ part = "retries" => Retries!Next
    /\ part = "joins" => Joins!Next
    /\ part = "meets" => Meets!Next
    /\ part = "deletes" => Deletes!Next
    /\ part = "groups" => Groups!Next

MCSpec == MCInit /\ [][MCNext]_MCVars

\* HereWhole and InOrder of AccountLog, of the messages each part has, and its types.
CopiesAreWhole ==
    /\ part = "rosters" => Lists!TypeOK
    /\ part = "retries" => Retries!TypeOK
    /\ part = "joins" => Joins!TypeOK /\ Joins!HereWhole /\ Joins!InOrder
    /\ part = "meets" => Meets!TypeOK /\ Meets!HereWhole /\ Meets!InOrder
    /\ part = "deletes" => Deletes!TypeOK /\ Deletes!HereWhole /\ Deletes!InOrder
    /\ part = "groups" => Groups!TypeOK /\ Groups!HereWhole

\* A chat that no Device deleted stays (protocols.md:49): it does not hold of a group.
RostersKeepChats == [][part = "rosters" => \A a \in Both : DeletedGo(a)]_vars
=============================================================================
