----------------------------- MODULE AccountKeys -----------------------------
(***************************************************************************)
(* The generations of an account's key, and how they and what they seal    *)
(* reach the Devices (crates/cli/src/sync.rs, identity.rs, keys.rs,        *)
(* pairing.rs).  A Device is unpaired; an identity device that has caught  *)
(* up makes a generation the unpaired one never gets, signs the keyring    *)
(* and hands it on, and every Device that gets a newer generation hands it *)
(* on again.  A Device takes nothing that an older key sealed, holds what  *)
(* a newer one did, and puts up again what it uploaded behind the keyring. *)
(***************************************************************************)
EXTENDS Integers, FiniteSets, FiniteSetsExt

CONSTANTS Devices,
          Identity,    \* the Devices that hold the identity's master secret
          Founders,    \* the Devices paired from the start
          Away,        \* the founders whose session is not open at the start
          Awake,       \* the Devices that run here; the others are only names
          Unpairer,    \* Unpairer[x]: the Device x is unpaired on
          Pairer,      \* Pairer[n]: the Device that pairs newcomer n
          Records,     \* messages
          Author,      \* Author[r]: the Device that writes r
          All,         \* the recipient of a blob that is for every Device
          None,        \* no Device
          MaxCuts,     \* bound: failed sessions
          MaxRestarts  \* bound: restarts

Newcomers  == DOMAIN Pairer
Unpairable == DOMAIN Unpairer
Stages == {"idle", "keys", "drain", "pull", "wait"}

KeysConstants ==
    /\ Identity \subseteq Devices /\ Founders \subseteq Devices /\ {Away, Awake} \subseteq SUBSET Devices
    /\ Unpairer \in [Unpairable -> Devices] /\ Pairer \in [Newcomers -> Devices]
    /\ Unpairable \subseteq Devices /\ Newcomers \subseteq Devices \ Founders
    /\ Author \in [Records -> Devices]
    /\ All \notin Devices /\ None \notin Devices
    /\ MaxCuts \in Nat /\ MaxRestarts \in Nat

VARIABLES
    log,       \* the relay's blobs, each with its seq and the Device that put it up
    head,      \* the last seq given
    listed,    \* the machines the relay knows
    revoked,   \* revoked_machines
    dev,       \* dev[d]: what d keeps, on disk and in memory
    unpairing, \* unpairing[d]: the Device d has revoked and not yet recorded as unpaired
    pairing,   \* pairing[d]: the Device d has answered and not yet recorded
    written,   \* the records written
    made,      \* the generations made
    cuts, restarts, \* so far
    halfway    \* history: the Devices a restart left half paired or half unpaired

relayVars == <<log, head>>
tasks     == <<unpairing, pairing>>
paired    == <<listed, revoked>>
counts    == <<cuts, restarts>>
vars == <<relayVars, paired, dev, tasks, written, made, counts, halfway>>

----------------------------------------------------------------------------
(* Generations and keyrings.  A keyring is a set of generations. *)

Gen0 == [n |-> 0, k |-> 0, out |-> {}]
Before(g, h) == g.n < h.n \/ (g.n = h.n /\ g.k <= h.k)
NewestOf(ring) == CHOOSE g \in ring : \A h \in ring : Before(h, g)
KeyOf(g)  == <<g.n, g.k>>
KeysOf(ring) == {KeyOf(g) : g \in ring}
Key(s) == KeyOf(NewestOf(s.ring))
LeftBy(ring) == UNION {g.out : g \in ring}

----------------------------------------------------------------------------
(* The outbox: rows of an item each, taken in the order of their places. *)

KeyItem(to, ring) == [kind |-> "key", to |-> to, of |-> None, ring |-> ring, out |-> {}, key |-> <<>>]
RosterItem(s)    == [kind |-> "roster", to |-> All, of |-> None, ring |-> {}, out |-> s.unpaired, key |-> Key(s)]
MachineItem(s, d) == [kind |-> "machine", to |-> All, of |-> d, ring |-> {}, out |-> {}, key |-> Key(s)]
RecordItem(s, r) == [kind |-> "chat", to |-> All, of |-> r, ring |-> {}, out |-> {}, key |-> Key(s)]

SameSlot(a, b) == a.kind = b.kind /\ a.to = b.to /\ a.of = b.of
Waiting(queue, item) == \E w \in queue : SameSlot(w.item, item)
Places(queue) == {w.at : w \in queue}
Front(queue)  == IF queue = {} THEN 0 ELSE Min(Places(queue)) - 1
Back(queue)   == IF queue = {} THEN 1 ELSE Max(Places(queue)) + 1

\* queue_outbox_tx, of an item that waits in place of its slot's or goes last...
Queued(queue, item) ==
    IF Waiting(queue, item)
    THEN {IF SameSlot(w.item, item) THEN [at |-> w.at, item |-> item] ELSE w : w \in queue}
    ELSE queue \cup {[at |-> Back(queue), item |-> item]}

\* ... and of keyrings, which go ahead of everything waiting, in any order of their own.
Ahead(queue, items) ==
    LET others == {w \in queue : \A k \in items : ~SameSlot(w.item, k)}
    IN others \cup {[at |-> Front(others), item |-> k] : k \in items}

PushRoster(s)     == [s EXCEPT !.outbox = Queued(@, RosterItem(s))]
PushMachine(s, d) == [s EXCEPT !.outbox = Queued(@, MachineItem(s, d))]
PublishKeyring(s, d) ==
    IF d \in Identity THEN [s EXCEPT !.outbox = Ahead(@, {KeyItem(All, s.ring)})] ELSE s

\* Slip: to the Devices that were unpaired as well.
ReachAll(s, d) == (s.peers \cup s.unpaired) \ {d}

\* The Devices it knows that were not unpaired.
Reach(s, d) == s.peers \ (s.unpaired \cup LeftBy(s.ring) \cup {d})

ForwardKeyrings(s, d) ==
    IF NewestOf(s.ring).n = 0 THEN s
    ELSE [s EXCEPT !.outbox = Ahead(@, {KeyItem(to, s.ring) : to \in Reach(s, d)})]

----------------------------------------------------------------------------
(* Taking blobs.  Each answers what the Device keeps afterwards. *)

\* Slip: a roster that names more Devices asks for no generation.
ApplyNoRotation(s, bs, history) ==
    LET taken == {b \in bs : b.key = Key(s)}
        gone  == s.unpaired \cup UNION {b.out : b \in taken}
    IN [s EXCEPT !.unpaired = gone,
                 !.peers = (@ \cup {b.of : b \in {m \in taken : m.kind = "machine"}}) \ gone,
                 !.store = @ \cup {b.of : b \in {m \in taken : m.kind = "chat"}},
                 !.held = @ \cup {b \in bs : b.key \notin KeysOf(s.ring)}]

\* What the newest key sealed is applied, what an older one did is left as it is but for a
\* first sync's messages, and what no key here opens is held.
ApplyAccount(s, bs, history) ==
    LET taken == {b \in bs : b.key = Key(s)}
        read  == {b \in bs : b.key \in KeysOf(s.ring) /\ history}
        gone  == s.unpaired \cup UNION {b.out : b \in taken}
        short == \E b \in taken : b.kind = "roster" /\ ~(s.unpaired \subseteq b.out)
        after == [s EXCEPT !.unpaired = gone,
                           !.peers = (@ \cup {b.of : b \in {m \in taken : m.kind = "machine"}}) \ gone,
                           !.store = @ \cup {b.of : b \in {m \in taken \cup read : m.kind = "chat"}},
                           !.held = @ \cup {b \in bs : b.key \notin KeysOf(s.ring)},
                           !.due = @ \/ gone # s.unpaired]
    IN IF short THEN PushRoster(after) ELSE after

ReleaseHeld(s) ==
    LET opened == {b \in s.held : b.key \in KeysOf(s.ring)}
    IN ApplyAccount([s EXCEPT !.held = @ \ opened], opened, FALSE)

\* Slip: what went up behind the keyring stays as it is.
UploadNothing(s, seq) == s

\* What d uploaded behind the keyring goes up again, the first of each slot, unless a newer
\* version waits.
UploadAgain(s, seq) ==
    LET behind == {u \in s.recent : u.seq > seq /\ u.item.key # Key(s) /\ ~Waiting(s.outbox, u.item)}
        again  == {u \in behind : \A v \in behind : SameSlot(u.item, v.item) => u.seq <= v.seq}
        row(u) == [at   |-> Back(s.outbox) + Cardinality({v \in again : v.seq < u.seq}),
                   item |-> [u.item EXCEPT !.key = Key(s)]]
    IN [s EXCEPT !.outbox = @ \cup {row(u) : u \in again}]

Forwarded(s, d) == ForwardKeyrings(PublishKeyring(s, d), d)

\* account_key_changed, of a keyring that reached d at seq, or of one d made.
KeyReached(s, d, seq) ==
    [PushMachine(UploadAgain(Forwarded(ReleaseHeld(s), d), seq), d) EXCEPT
        !.recent = {}, !.turned = seq]
KeyMade(s, d) ==
    [PushRoster(PushMachine(Forwarded(ReleaseHeld(s), d), d)) EXCEPT
        !.recent = {}, !.turned = head]

Opens(d, b) == b.to = d \/ (b.to = All /\ d \in Identity)

ReceiveKeyring(s, d, b) ==
    LET ring == s.ring \cup b.ring
        gone == s.unpaired \cup LeftBy(ring)
        kept == [s EXCEPT !.ring = ring, !.unpaired = gone, !.peers = @ \ gone,
                          !.due = @ \/ gone # s.unpaired]
    IN IF ~Opens(d, b) THEN s
       ELSE IF NewestOf(ring) = NewestOf(s.ring) THEN kept ELSE KeyReached(kept, d, b.seq)

\* Own blobs are remembered as applied.
Taken(s, d, b) ==
    IF b.by = d THEN s
    ELSE IF b.kind = "key" THEN ReceiveKeyring(s, d, b) ELSE ApplyAccount(s, {b}, b.seq <= s.first)

----------------------------------------------------------------------------
(* A Device's session with the relay. *)

Live(d)  == d \in Awake /\ d \in listed
For(d)   == {b \in log : b.to \in {d, All}}
Keyrings(d) == {b \in For(d) : b.kind = "key" /\ b.seq > dev[d].since}
Unread(d)   == {b \in For(d) : b.seq > dev[d].last}
FirstOf(bs) == {b \in bs : \A o \in bs : b.seq <= o.seq}
\* refresh_presence: a Device the relay no longer lists leaves.
Listed(s)   == [s EXCEPT !.peers = @ \cap listed]

Connect(d) ==
    /\ Live(d) /\ dev[d].at = "idle"
    /\ dev' = [dev EXCEPT ![d] = [@ EXCEPT !.at = "keys", !.since = 0, !.due = TRUE]]
    /\ UNCHANGED <<relayVars, paired, tasks, written, made, counts, halfway>>

\* pull_keyrings, before anything goes up.
PullKeyring(d) ==
    /\ Live(d) /\ dev[d].at = "keys"
    /\ \E b \in FirstOf(Keyrings(d)) :
          dev' = [dev EXCEPT ![d] = [ReceiveKeyring(@, d, b) EXCEPT !.since = b.seq]]
    /\ UNCHANGED <<relayVars, paired, tasks, written, made, counts, halfway>>

KeyringsRead(d) ==
    /\ Live(d) /\ dev[d].at = "keys" /\ Keyrings(d) = {}
    /\ dev' = [dev EXCEPT ![d] = [PushMachine(@, d) EXCEPT !.at = "drain"]]
    /\ UNCHANGED <<relayVars, paired, tasks, written, made, counts, halfway>>

UnderNewestKey(s, item) == IF item.kind = "key" THEN item ELSE [item EXCEPT !.key = Key(s)]

Stamped(d, item) == [kind |-> item.kind, to |-> item.to, of |-> item.of, ring |-> item.ring,
                     out |-> item.out, key |-> item.key, seq |-> head + 1, by |-> d]

First(queue) == {w \in queue : \A v \in queue : w.at <= v.at}

\* What a Device keeps once a row went up, as item.
Sent(s, w, item) ==
    [s EXCEPT !.at = "drain", !.outbox = @ \ {w},
              !.recent = IF item.kind = "key" THEN @ ELSE @ \cup {[item |-> item, seq |-> head + 1]}]

\* drain_outbox, woken by what was queued; the relay refuses a recipient it does not know.
Put(d) ==
    /\ Live(d) /\ dev[d].at \in {"wait", "drain"}
    /\ \E w \in First(dev[d].outbox) :
         LET item == UnderNewestKey(dev[d], w.item)
             sent == item.to \in listed \cup {All}
         IN /\ log' = IF sent THEN {b \in log : ~SameSlot(b, item)} \cup {Stamped(d, item)}
                      ELSE log
            /\ head' = IF sent THEN head + 1 ELSE head
            /\ dev' = [dev EXCEPT ![d] = Sent(@, w, item)]
    /\ UNCHANGED <<paired, tasks, written, made, counts, halfway>>

\* The session pulls once the outbox is empty, or at the relay's signal.
Pulling(d) ==
    \/ dev[d].at = "pull"
    \/ dev[d].at = "drain" /\ dev[d].outbox = {}
    \/ dev[d].at = "wait" /\ dev[d].outbox = {} /\ Unread(d) # {}
Started(s) == [Listed(s) EXCEPT !.at = "pull", !.first = IF @ < 0 THEN head ELSE @]

\* pull_blobs, a page of one.
Pull(d) ==
    /\ Live(d) /\ Pulling(d)
    /\ \E b \in FirstOf(Unread(d)) :
          dev' = [dev EXCEPT ![d] = [Taken(Started(@), d, b) EXCEPT !.last = b.seq]]
    /\ UNCHANGED <<relayVars, paired, tasks, written, made, counts, halfway>>

Gone(s) == s.unpaired \cup LeftBy(s.ring)
RotationDue(s, d) == s.due /\ d \in Identity /\ ~(Gone(s) \subseteq NewestOf(s.ring).out)

\* The pull caught up: rotate_if_due makes a generation that leaves out every unpaired Device.
CaughtUp(d) ==
    /\ Live(d) /\ Pulling(d) /\ Unread(d) = {}
    /\ LET s == [Started(dev[d]) EXCEPT !.at = "wait", !.due = FALSE]
       IN IF RotationDue(dev[d], d)
          THEN \E k \in 1..Cardinality(Identity) :
                 LET g == [n |-> NewestOf(s.ring).n + 1, k |-> k, out |-> Gone(s)]
                 IN /\ KeyOf(g) \notin KeysOf(made)
                    /\ made' = made \cup {g}
                    /\ dev' = [dev EXCEPT ![d] = KeyMade([s EXCEPT !.ring = @ \cup {g}], d)]
          ELSE dev' = [dev EXCEPT ![d] = s] /\ UNCHANGED made
    /\ UNCHANGED <<relayVars, paired, tasks, written, counts, halfway>>

Cut(d) ==
    /\ Live(d) /\ dev[d].at # "idle" /\ cuts < MaxCuts
    /\ cuts' = cuts + 1
    /\ dev' = [dev EXCEPT ![d] = [@ EXCEPT !.at = "idle"]]
    /\ UNCHANGED <<relayVars, paired, tasks, written, made, restarts, halfway>>

\* recent_uploads and rotation_due are in memory; an identity device publishes at its start.
Restarted(s, d) ==
    [PublishKeyring(s, d) EXCEPT
        !.at = "idle", !.due = FALSE, !.recent = {},
        !.lost = @ \cup {u.item.of : u \in {v \in s.recent : v.item.kind = "chat"}}]

\* What it had not recorded of a pairing or an unpairing is forgotten.
Restart(d) ==
    /\ Live(d) /\ restarts < MaxRestarts
    /\ restarts' = restarts + 1
    /\ dev' = [dev EXCEPT ![d] = Restarted(@, d)]
    /\ unpairing' = [unpairing EXCEPT ![d] = None] /\ pairing' = [pairing EXCEPT ![d] = None]
    /\ halfway' = halfway \cup ({unpairing[d], pairing[d]} \ {None})
    /\ UNCHANGED <<relayVars, paired, written, made, cuts>>

----------------------------------------------------------------------------
(* The user. *)

Writes(s, r) == [s EXCEPT !.store = @ \cup {r}, !.outbox = Queued(@, RecordItem(s, r))]

Write(d, r) ==
    /\ Live(d) /\ Author[r] = d /\ r \notin written
    /\ written' = written \cup {r}
    /\ dev' = [dev EXCEPT ![d] = Writes(@, r)]
    /\ UNCHANGED <<relayVars, paired, tasks, made, counts, halfway>>

\* unpair_device: the relay drops the machine and what is sealed to it.
Revoke(x) ==
    LET d == Unpairer[x] IN
    /\ Live(d) /\ unpairing[d] = None /\ x \in dev[d].peers
    /\ \A e \in Devices : pairing[e] # x
    /\ listed' = listed \ {x} /\ revoked' = revoked \cup {x}
    /\ log' = {b \in log : b.to # x}
    /\ unpairing' = [unpairing EXCEPT ![d] = x]
    /\ UNCHANGED <<head, dev, pairing, written, made, counts, halfway>>

\* Its answer: the Device leaves the roster.
Drops(s, x) ==
    PushRoster([s EXCEPT !.peers = @ \ {x}, !.unpaired = @ \cup {x}, !.due = TRUE])

Unpaired(d) ==
    /\ Live(d) /\ unpairing[d] # None
    /\ dev' = [dev EXCEPT ![d] = Drops(@, unpairing[d])]
    /\ unpairing' = [unpairing EXCEPT ![d] = None]
    /\ UNCHANGED <<relayVars, paired, pairing, written, made, counts, halfway>>

New(d, ring) == [ring |-> ring, unpaired |-> {}, peers |-> {}, store |-> {}, held |-> {}, outbox |-> {},
                 recent |-> {}, due |-> FALSE, last |-> 0, since |-> 0, first |-> -1, at |-> "idle",
                 turned |-> 0, lost |-> {}]

\* wait_for_request: the relay lists the newcomer and the reply hands it the keyrings.
Answer(n) ==
    LET d == Pairer[n]
    IN /\ Live(d) /\ pairing[d] = None /\ n \notin listed \cup revoked
       /\ listed' = listed \cup {n}
       /\ pairing' = [pairing EXCEPT ![d] = n]
       /\ dev' = [dev EXCEPT ![n] = PushMachine(New(n, dev[d].ring), n)]
       /\ UNCHANGED <<relayVars, revoked, unpairing, written, made, counts, halfway>>

\* Slip: no keyring newer than the reply's.
PairedQuietly(s, n, d) == PushRoster(PushMachine([s EXCEPT !.peers = @ \cup {n}], d))

PairedWith(s, n, d) == ForwardKeyrings(PushRoster(PushMachine([s EXCEPT !.peers = @ \cup {n}], d)), d)

\* The reply went through: the pairing Device records the newcomer.
Paired(d) ==
    /\ Live(d) /\ pairing[d] # None
    /\ dev' = [dev EXCEPT ![d] = PairedWith(@, pairing[d], d)]
    /\ pairing' = [pairing EXCEPT ![d] = None]
    /\ UNCHANGED <<relayVars, paired, unpairing, written, made, counts, halfway>>

----------------------------------------------------------------------------
Init ==
    /\ log = {} /\ head = 0 /\ listed = Founders /\ revoked = {}
    /\ dev = [d \in Devices |-> [New(d, {Gen0}) EXCEPT
            !.first = 0, !.at = IF d \in Awake \ (Away \cup Newcomers) THEN "wait" ELSE "idle", !.peers = IF d \in Founders THEN Founders \ {d} ELSE {}]]
    /\ unpairing = [d \in Devices |-> None] /\ pairing = [d \in Devices |-> None]
    /\ written = {} /\ made = {Gen0} /\ cuts = 0 /\ restarts = 0 /\ halfway = {}

Session(d) ==
    \/ Connect(d) \/ PullKeyring(d) \/ KeyringsRead(d) \/ Put(d)
    \/ Pull(d) \/ CaughtUp(d) \/ Unpaired(d) \/ Paired(d)

Next ==
    \/ \E d \in Devices : Session(d) \/ Cut(d) \/ Restart(d)
    \/ \E d \in Devices, r \in Records : Write(d, r)
    \/ \E x \in Unpairable : Revoke(x)
    \/ \E n \in Newcomers : Answer(n)

Spec == Init /\ [][Next]_vars

\* Where a Device's session goes on.
Ready(d) ==
    /\ Live(d)
    /\ \/ dev[d].at # "wait" \/ dev[d].outbox # {} \/ Unread(d) # {}
       \/ unpairing[d] # None \/ pairing[d] # None
\* The sync loop of a Device that runs goes on.
Fairness == \A d \in Awake : WF_vars(Session(d))
FairSpec == Spec /\ Fairness

----------------------------------------------------------------------------
Generations == [n : Nat, k : Nat, out : SUBSET Devices]
KeyIds      == Nat \X Nat
Items == [kind : {"key", "roster", "machine", "chat"}, to : Devices \cup {All},
          of : Devices \cup Records \cup {None}, ring : SUBSET Generations,
          out : SUBSET Devices, key : KeyIds \cup {<<>>}]
IsBlob(b) == b.seq \in 1..head /\ b.by \in Devices

\* The log's seqs are its own; what a Device keeps names Devices, records and generations.
TypeOK ==
    /\ \A b, c \in log : IsBlob(b) /\ (b.seq = c.seq => b = c)
    /\ listed \cap revoked = {} /\ listed \cup revoked \subseteq Devices
    /\ made \subseteq Generations /\ written \subseteq Records
    /\ \A d \in Devices :
        /\ dev[d].at \in Stages /\ dev[d].last <= head /\ dev[d].turned <= head
        /\ Gen0 \in dev[d].ring /\ dev[d].ring \subseteq made
        /\ dev[d].unpaired \cup dev[d].peers \subseteq Devices
        /\ dev[d].store \subseteq Records
        /\ {w.item : w \in dev[d].outbox} \subseteq Items
        /\ unpairing[d] \in Devices \cup {None} /\ pairing[d] \in Newcomers \cup {None}
    /\ halfway \subseteq Devices

\* The generations sealed to a Device: in its ring, in the log and in the outboxes.
SealedTo(x) ==
    UNION ({dev[x].ring} \cup {b.ring : b \in {c \in log : c.to = x}}
           \cup {w.item.ring : w \in {v \in UNION {dev[d].outbox : d \in Devices} : v.item.to = x}})

\* A Device unpaired when a generation was made never gets that generation: no keyring that
\* holds it reaches or waits for the Device, whoever forwards what and whomever it pairs.
LeftOut == \A x \in Devices \ Identity : \A g \in SealedTo(x) : x \notin g.out

Quiet ==
    /\ \A d \in Devices : unpairing[d] = None /\ pairing[d] = None
    /\ \A d \in Awake \cap listed : dev[d].at = "wait" /\ dev[d].outbox = {} /\ Unread(d) = {}

\* The Devices whose pairing no restart cut short.
Members == (Awake \cap listed) \ halfway

\* When all is delivered, every paired Device writes with the same key, and it leaves out every
\* Device that was unpaired: rotations made at once, keyrings that overwrite each other in a
\* slot, and a Device paired by one behind the rotation all end there.  A restart between the
\* relay's answer and the Device's record of it leaves only that one Device behind.
KeysMeet ==
    Quiet => \A d, e \in Members :
        /\ Key(dev[d]) = Key(dev[e]) /\ dev[d].unpaired = dev[e].unpaired
        /\ \A b \in dev[d].held : b.key # Key(dev[d])
        /\ revoked \ halfway \subseteq NewestOf(dev[d].ring).out

\* r went up under an older key than d has, before the keyring that reached its author.
LeftBehind(r, d) ==
    \E b \in log : /\ b.kind = "chat" /\ b.of = r /\ b.key # Key(dev[d])
                   /\ b.seq <= dev[Author[r]].turned

\* When all is delivered, a message is on every Device paired since before it, or it went up
\* before the rotation reached its author (docs/architecture/relay-trust.md:57-61): one behind
\* the keyring goes up again, one under a key that is still to come is held, and neither is lost.
RecordsTaken ==
    Quiet => \A r \in written, d \in Members \cap Founders :
        Live(Author[r]) => r \in dev[d].store \cup dev[Author[r]].lost \/ LeftBehind(r, d)

\* Rotations and what they set off come to an end, with one key on every Device.
Settles == <>[](Quiet /\ KeysMeet)
=============================================================================
