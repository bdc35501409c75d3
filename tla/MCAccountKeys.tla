---------------------------- MODULE MCAccountKeys ----------------------------
(* The keys of an account in five parts of the run, each with the Devices   *)
(* it needs; the others are names that are never paired.                   *)
EXTENDS AccountKeys

CONSTANTS i, j,    \* identity devices
          p, x,    \* Devices without the identity; x is unpaired
          r,       \* a message
          Parts    \* the parts of the run

VARIABLE part

MCVars == <<part, log, head, listed, revoked, dev, unpairing, pairing, written, made, cuts,
            restarts, halfway>>

NoPairer == [n \in {} |-> i]
NoAuthor == [m \in {} |-> i]
UnpairsX(d) == [y \in {x} |-> d]
WrittenBy(d) == [m \in {r} |-> d]

\* The rotation reaches a Device that was away at first and writes.
Rotate == INSTANCE AccountKeys WITH
    Identity <- {i}, Founders <- {i, p, x}, Awake <- {i, p}, Away <- {p},
    Unpairer <- UnpairsX(i), Pairer <- NoPairer, Records <- {r}, Author <- WrittenBy(p),
    MaxCuts <- 0, MaxRestarts <- 0

\* One Device unpairs and the other rotates, with a failed session.
Cuts == INSTANCE AccountKeys WITH
    Identity <- {i}, Founders <- {i, p, x}, Awake <- {i, p}, Away <- {},
    Unpairer <- UnpairsX(p), Pairer <- NoPairer, Records <- {r}, Author <- WrittenBy(i),
    MaxCuts <- 1, MaxRestarts <- 0

\* Two identity devices rotate at once.
Makers == INSTANCE AccountKeys WITH
    Identity <- {i, j}, Founders <- {i, j, x}, Awake <- {i, j}, Away <- {},
    Unpairer <- UnpairsX(i), Pairer <- NoPairer, Records <- {}, Author <- NoAuthor,
    MaxCuts <- 0, MaxRestarts <- 0

\* A Device is paired while another is unpaired.
Joins == INSTANCE AccountKeys WITH
    Identity <- {i}, Founders <- {i, x}, Awake <- {i, p}, Away <- {},
    Unpairer <- UnpairsX(i), Pairer <- [n \in {p} |-> i], Records <- {}, Author <- NoAuthor,
    MaxCuts <- 0, MaxRestarts <- 0

\* Either restarts.
Restarts == INSTANCE AccountKeys WITH
    Identity <- {i}, Founders <- {i, p, x}, Awake <- {i, p}, Away <- {},
    Unpairer <- UnpairsX(i), Pairer <- NoPairer, Records <- {}, Author <- NoAuthor,
    MaxCuts <- 0, MaxRestarts <- 1

ASSUME PartConstants ==
    /\ Rotate!KeysConstants /\ Cuts!KeysConstants /\ Makers!KeysConstants
    /\ Joins!KeysConstants /\ Restarts!KeysConstants

MCInit ==
    /\ part \in Parts
    /\ \/ part = "rotate" /\ Rotate!Init
       \/ part = "cuts" /\ Cuts!Init
       \/ part = "makers" /\ Makers!Init
       \/ part = "joins" /\ Joins!Init
       \/ part = "restarts" /\ Restarts!Init

MCNext ==
    /\ part' = part
    /\ part = "rotate" => Rotate!Next
    /\ part = "cuts" => Cuts!Next
    /\ part = "makers" => Makers!Next
    /\ part = "joins" => Joins!Next
    /\ part = "restarts" => Restarts!Next

MCSpec == MCInit /\ [][MCNext]_MCVars

\* The sync loops go on: the weak fairness of each Device's session, which is enabled where the
\* Device is ready, and whose steps alone change what it keeps without end.
Goes(d)    == []<>~Ready(d) \/ []<><<Ready(d) /\ dev'[d] # dev[d]>>_MCVars
MCFairSpec == MCSpec /\ Goes(i) /\ Goes(j) /\ Goes(p)

\* KeysMeet of AccountKeys, and the types of each part.
KeysAgree ==
    /\ KeysMeet
    /\ part = "rotate" => Rotate!TypeOK
    /\ part = "cuts" => Cuts!TypeOK
    /\ part = "makers" => Makers!TypeOK
    /\ part = "joins" => Joins!TypeOK
    /\ part = "restarts" => Restarts!TypeOK

\* RecordsTaken of AccountKeys, where a message is written.
MessagesTaken ==
    /\ part = "rotate" => Rotate!RecordsTaken
    /\ part = "cuts" => Cuts!RecordsTaken
=============================================================================
