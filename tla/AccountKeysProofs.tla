-------------------------- MODULE AccountKeysProofs --------------------------
(***************************************************************************)
(* A Device without the identity's master secret gets no generation made   *)
(* after it was unpaired.  Every Device but it may be behind: what keeps   *)
(* the generation from it is that no item anywhere, in an outbox, among    *)
(* what may go up again, in the log or held, carries a generation to a     *)
(* Device it leaves out, and that only what was revoked is ever left out,  *)
(* so that a newcomer, which was not, takes the whole keyring safely.      *)
(***************************************************************************)
EXTENDS AccountKeys, TLAPS

-----------------------------------------------------------------------------
(* The inductive invariant.                                                *)

Fields == {"ring", "unpaired", "peers", "store", "held", "outbox", "recent", "due", "last",
           "since", "first", "at", "turned", "lost"}
ItemFields == {"kind", "to", "of", "ring", "out", "key"}

\* What an item says was unpaired, was; and it takes no generation to a Device it leaves out.
Clean(i, R) ==
    /\ ItemFields \subseteq DOMAIN i
    /\ i.out \subseteq R /\ LeftBy(i.ring) \subseteq R
    /\ i.to \in Devices => i.to \notin LeftBy(i.ring)

CleanQueue(queue, R) == \A w \in queue : Clean(w.item, R)

\* What a Device keeps.
Safe(s, d, R) ==
    /\ DOMAIN s = Fields
    /\ s.unpaired \subseteq R /\ LeftBy(s.ring) \subseteq R
    /\ d \notin Identity => d \notin LeftBy(s.ring)
    /\ CleanQueue(s.outbox, R) /\ CleanQueue(s.recent, R)
    /\ \A b \in s.held : Clean(b, R)

KeysInv ==
    /\ DOMAIN dev = Devices /\ \A d \in Devices : Safe(dev[d], d, revoked)
    /\ \A b \in log : Clean(b, revoked)
    /\ DOMAIN unpairing = Devices
    /\ \A d \in Devices : unpairing[d] \in revoked \cup {None}

-----------------------------------------------------------------------------
(* Items and queues.                                                       *)

LEMMA LeftByUnion ==
    ASSUME NEW A, NEW B PROVE LeftBy(A \cup B) = LeftBy(A) \cup LeftBy(B)
BY DEF LeftBy

LEMMA CleanOther ==
    ASSUME KeysConstants, NEW R, NEW i, ItemFields \subseteq DOMAIN i, i.out \subseteq R,
           i.to = All, LeftBy(i.ring) \subseteq R
    PROVE  Clean(i, R)
BY DEF KeysConstants, Clean

LEMMA NoneLeft == LeftBy({}) = {}
BY DEF LeftBy

\* A roster, a machine or a record, and a keyring for the identity devices.
LEMMA AccountItems ==
    ASSUME KeysConstants, NEW R, NEW s, NEW d, NEW r, Safe(s, d, R)
    PROVE  /\ Clean(RosterItem(s), R) /\ Clean(MachineItem(s, d), R)
           /\ Clean(RecordItem(s, r), R) /\ Clean(KeyItem(All, s.ring), R)
<1>1. s.unpaired \subseteq R /\ LeftBy(s.ring) \subseteq R
  BY DEF Safe
<1>2. Clean(RosterItem(s), R)
  BY <1>1, NoneLeft, CleanOther DEF RosterItem, ItemFields
<1>3. Clean(MachineItem(s, d), R)
  BY <1>1, NoneLeft, CleanOther DEF MachineItem, ItemFields
<1>4. Clean(RecordItem(s, r), R)
  BY <1>1, NoneLeft, CleanOther DEF RecordItem, ItemFields
<1>5. Clean(KeyItem(All, s.ring), R)
  BY <1>1, CleanOther DEF KeyItem, ItemFields
<1> QED BY <1>2, <1>3, <1>4, <1>5

LEMMA QueuedClean ==
    ASSUME NEW R, NEW queue, CleanQueue(queue, R), NEW item, Clean(item, R)
    PROVE  CleanQueue(Queued(queue, item), R)
<1> SUFFICES ASSUME NEW w \in Queued(queue, item) PROVE Clean(w.item, R)
  BY DEF CleanQueue
<1>1. CASE w.item = item
  BY <1>1
<1>2. CASE w \in queue
  BY <1>2 DEF CleanQueue
<1>3. w.item = item \/ w \in queue
  BY DEF Queued
<1> QED BY <1>1, <1>2, <1>3

LEMMA AheadClean ==
    ASSUME NEW R, NEW queue, CleanQueue(queue, R), NEW items, \A k \in items : Clean(k, R)
    PROVE  CleanQueue(Ahead(queue, items), R)
<1> SUFFICES ASSUME NEW w \in Ahead(queue, items) PROVE Clean(w.item, R)
  BY DEF CleanQueue
<1> DEFINE others == {v \in queue : \A k \in items : ~SameSlot(v.item, k)}
           front  == Front(others)
<1>0. w \in others \cup {[at |-> front, item |-> k] : k \in items}
  BY DEF Ahead
<1> HIDE DEF front
<1>1. w \in queue \/ \E k \in items : w.item = k
  BY <1>0
<1> QED BY <1>1 DEF CleanQueue

-----------------------------------------------------------------------------
(* What a Device keeps stays safe whatever it does with it.                *)

\* A Device that keeps what another one keeps, but for what is safe anyway.
LEMMA StaysSafe ==
    ASSUME NEW R, NEW d, NEW s, Safe(s, d, R), NEW t, DOMAIN t = Fields, t.ring = s.ring,
           t.unpaired \subseteq R, CleanQueue(t.outbox, R), CleanQueue(t.recent, R),
           \A b \in t.held : Clean(b, R)
    PROVE  Safe(t, d, R)
BY DEF Safe

LEMMA WithOutbox ==
    ASSUME NEW R, NEW d, NEW s, Safe(s, d, R), NEW queue, CleanQueue(queue, R)
    PROVE  Safe([s EXCEPT !.outbox = queue], d, R)
<1> DEFINE t == [s EXCEPT !.outbox = queue]
<1>1. DOMAIN t = Fields /\ t.ring = s.ring /\ t.unpaired = s.unpaired /\ t.outbox = queue
      /\ t.recent = s.recent /\ t.held = s.held
  BY DEF Safe, Fields
<1> HIDE DEF t
<1> QED BY <1>1, StaysSafe DEF Safe

LEMMA PushesSafe ==
    ASSUME KeysConstants, NEW R, NEW d, NEW s, Safe(s, d, R)
    PROVE  /\ Safe(PushRoster(s), d, R) /\ Safe(PushMachine(s, d), d, R)
           /\ Safe(PublishKeyring(s, d), d, R)
<1>1. CleanQueue(s.outbox, R)
  BY DEF Safe
<1>2. Safe(PushRoster(s), d, R)
  BY <1>1, AccountItems, QueuedClean, WithOutbox DEF PushRoster
<1>3. Safe(PushMachine(s, d), d, R)
  BY <1>1, AccountItems, QueuedClean, WithOutbox DEF PushMachine
<1>4. CleanQueue(Ahead(s.outbox, {KeyItem(All, s.ring)}), R)
  BY <1>1, AccountItems, AheadClean
<1>5. Safe(PublishKeyring(s, d), d, R)
  BY <1>4, WithOutbox DEF PublishKeyring
<1> QED BY <1>2, <1>3, <1>5

LEMMA ForwardSafe ==
    ASSUME NEW R, NEW d, NEW s, Safe(s, d, R)
    PROVE  Safe(ForwardKeyrings(s, d), d, R)
<1> DEFINE items == {KeyItem(to, s.ring) : to \in Reach(s, d)}
<1>1. \A k \in items : Clean(k, R)
  BY DEF Safe, KeyItem, Reach, Clean, ItemFields
<1>2. CleanQueue(Ahead(s.outbox, items), R)
  BY <1>1, AheadClean DEF Safe
<1>3. ForwardKeyrings(s, d) = s \/ ForwardKeyrings(s, d) = [s EXCEPT !.outbox = Ahead(s.outbox, items)]
  BY DEF ForwardKeyrings
<1> QED BY <1>2, <1>3, WithOutbox

LEMMA AppliesSafe ==
    ASSUME KeysConstants, NEW R, NEW d, NEW s, Safe(s, d, R), NEW bs, \A b \in bs : Clean(b, R),
           NEW history
    PROVE  Safe(ApplyAccount(s, bs, history), d, R)
<1> DEFINE taken == {b \in bs : b.key = Key(s)}
           read  == {b \in bs : b.key \in KeysOf(s.ring) /\ history}
           gone  == s.unpaired \cup UNION {b.out : b \in taken}
           short == \E b \in taken : b.kind = "roster" /\ ~(s.unpaired \subseteq b.out)
           after == [s EXCEPT !.unpaired = gone,
                              !.peers = (@ \cup {b.of : b \in {m \in taken : m.kind = "machine"}}) \ gone,
                              !.store = @ \cup {b.of : b \in {m \in taken \cup read : m.kind = "chat"}},
                              !.held = @ \cup {b \in bs : b.key \notin KeysOf(s.ring)},
                              !.due = @ \/ gone # s.unpaired]
<1>1. ApplyAccount(s, bs, history) = IF short THEN PushRoster(after) ELSE after
  BY DEF ApplyAccount
<1>2. gone \subseteq R
  BY DEF Safe, Clean
<1>3. /\ DOMAIN after = Fields /\ after.ring = s.ring /\ after.unpaired = gone
      /\ after.outbox = s.outbox /\ after.recent = s.recent
      /\ after.held = s.held \cup {b \in bs : b.key \notin KeysOf(s.ring)}
  BY DEF Safe, Fields
<1> HIDE DEF after, gone
<1>4. Safe(after, d, R)
  <2>1. \A b \in after.held : Clean(b, R)
    BY <1>3 DEF Safe
  <2> QED BY <1>2, <1>3, <2>1, StaysSafe DEF Safe
<1> QED BY <1>1, <1>4, PushesSafe

LEMMA ReleasesSafe ==
    ASSUME KeysConstants, NEW R, NEW d, NEW s, Safe(s, d, R)
    PROVE  Safe(ReleaseHeld(s), d, R)
<1> DEFINE opened == {b \in s.held : b.key \in KeysOf(s.ring)}
           t == [s EXCEPT !.held = @ \ opened]
<1>1. ReleaseHeld(s) = ApplyAccount(t, opened, FALSE)
  BY DEF ReleaseHeld
<1>2. /\ DOMAIN t = Fields /\ t.ring = s.ring /\ t.unpaired = s.unpaired
      /\ t.outbox = s.outbox /\ t.recent = s.recent /\ t.held = s.held \ opened
  BY DEF Safe, Fields
<1>3. \A b \in opened : Clean(b, R)
  BY DEF Safe
<1> HIDE DEF t, opened
<1>4. Safe(t, d, R)
  BY <1>2, StaysSafe DEF Safe
<1> QED BY <1>1, <1>3, <1>4, AppliesSafe

LEMMA AgainSafe ==
    ASSUME NEW R, NEW d, NEW s, Safe(s, d, R), NEW seq
    PROVE  Safe(UploadAgain(s, seq), d, R)
<1> DEFINE behind == {u \in s.recent : u.seq > seq /\ u.item.key # Key(s) /\ ~Waiting(s.outbox, u.item)}
           again  == {u \in behind : \A v \in behind : SameSlot(u.item, v.item) => u.seq <= v.seq}
           row(u) == [at   |-> Back(s.outbox) + Cardinality({v \in again : v.seq < u.seq}),
                      item |-> [u.item EXCEPT !.key = Key(s)]]
           queue == s.outbox \cup {row(u) : u \in again}
<1>1. UploadAgain(s, seq) = [s EXCEPT !.outbox = queue]
  BY DEF UploadAgain
<1>2. ASSUME NEW u \in again PROVE Clean(row(u).item, R)
  <2> DEFINE i == [u.item EXCEPT !.key = Key(s)]
  <2>1. Clean(u.item, R)
    BY DEF Safe, CleanQueue
  <2>2. /\ DOMAIN i = DOMAIN u.item /\ i.out = u.item.out /\ i.ring = u.item.ring
        /\ i.to = u.item.to
    BY <2>1 DEF Clean, ItemFields
  <2>3. row(u).item = i
    OBVIOUS
  <2> HIDE DEF i
  <2> QED BY <2>1, <2>2, <2>3 DEF Clean
<1> HIDE DEF row, again
<1>3. CleanQueue(queue, R)
  BY <1>2 DEF Safe, CleanQueue
<1> QED BY <1>1, <1>3, WithOutbox

LEMMA ForwardedSafe ==
    ASSUME KeysConstants, NEW R, NEW d, NEW s, Safe(s, d, R)
    PROVE  Safe(Forwarded(s, d), d, R)
BY PushesSafe, ForwardSafe DEF Forwarded

\* Nothing it uploaded, and another place it has read to.
Turned(s, seq) == [s EXCEPT !.recent = {}, !.turned = seq]

LEMMA TurnedSafe ==
    ASSUME NEW R, NEW d, NEW s, Safe(s, d, R), NEW seq
    PROVE  Safe(Turned(s, seq), d, R)
<1> DEFINE t == Turned(s, seq)
<1> SUFFICES Safe(t, d, R)
  OBVIOUS
<1>1. DOMAIN t = Fields /\ t.ring = s.ring /\ t.unpaired = s.unpaired /\ t.outbox = s.outbox
      /\ t.recent = {} /\ t.held = s.held
  BY DEF Safe, Fields, Turned
<1> HIDE DEF t
<1>2. CleanQueue(t.recent, R)
  BY <1>1 DEF CleanQueue
<1> QED BY <1>1, <1>2, StaysSafe DEF Safe

LEMMA KeyReachedSafe ==
    ASSUME KeysConstants, NEW R, NEW d, NEW s, Safe(s, d, R), NEW seq
    PROVE  Safe(KeyReached(s, d, seq), d, R)
<1> DEFINE a == Forwarded(ReleaseHeld(s), d)
           b == UploadAgain(a, seq)
           c == PushMachine(b, d)
<1>1. Safe(a, d, R)
  BY ReleasesSafe, ForwardedSafe
<1> HIDE DEF a
<1>2. Safe(b, d, R)
  BY <1>1, AgainSafe
<1> HIDE DEF b
<1>3. Safe(c, d, R)
  BY <1>2, PushesSafe
<1>4. KeyReached(s, d, seq) = Turned(c, seq)
  BY DEF KeyReached, a, b, Turned
<1> HIDE DEF c
<1> QED BY <1>3, <1>4, TurnedSafe

LEMMA KeyMadeSafe ==
    ASSUME KeysConstants, NEW R, NEW d, NEW s, Safe(s, d, R)
    PROVE  Safe(KeyMade(s, d), d, R)
<1> DEFINE a == Forwarded(ReleaseHeld(s), d)
           c == PushRoster(PushMachine(a, d))
<1>1. Safe(a, d, R)
  BY ReleasesSafe, ForwardedSafe
<1> HIDE DEF a
<1>2. Safe(c, d, R)
  BY <1>1, PushesSafe
<1>3. KeyMade(s, d) = Turned(c, head)
  BY DEF KeyMade, a, Turned
<1> HIDE DEF c
<1> QED BY <1>2, <1>3, TurnedSafe

\* A keyring for d, or for the identity devices, leaves out no Device that takes it.
LEMMA ReceivesSafe ==
    ASSUME KeysConstants, NEW R, NEW d \in Devices, NEW s, Safe(s, d, R), NEW b, Clean(b, R)
    PROVE  Safe(ReceiveKeyring(s, d, b), d, R)
<1> DEFINE ring == s.ring \cup b.ring
           gone == s.unpaired \cup LeftBy(ring)
           kept == [s EXCEPT !.ring = ring, !.unpaired = gone, !.peers = @ \ gone,
                             !.due = @ \/ gone # s.unpaired]
<1>1. CASE ~Opens(d, b)
  BY <1>1 DEF ReceiveKeyring
<1>2. CASE Opens(d, b)
  <2>1. LeftBy(ring) = LeftBy(s.ring) \cup LeftBy(b.ring)
    BY LeftByUnion
  <2>2. LeftBy(ring) \subseteq R /\ gone \subseteq R
    BY <2>1 DEF Safe, Clean
  <2>3. d \notin Identity => d \notin LeftBy(ring)
    BY <1>2, <2>1 DEF Safe, Clean, Opens
  <2>4. /\ DOMAIN kept = Fields /\ kept.ring = ring /\ kept.unpaired = gone
        /\ kept.outbox = s.outbox /\ kept.recent = s.recent /\ kept.held = s.held
    BY DEF Safe, Fields
  <2>5. \/ ReceiveKeyring(s, d, b) = kept
        \/ ReceiveKeyring(s, d, b) = KeyReached(kept, d, b.seq)
    BY <1>2 DEF ReceiveKeyring
  <2> HIDE DEF kept, gone, ring
  <2>6. Safe(kept, d, R)
    BY <2>2, <2>3, <2>4 DEF Safe
  <2> QED BY <2>5, <2>6, KeyReachedSafe
<1> QED BY <1>1, <1>2

LEMMA TakesSafe ==
    ASSUME KeysConstants, NEW R, NEW d \in Devices, NEW s, Safe(s, d, R), NEW b, Clean(b, R)
    PROVE  Safe(Taken(s, d, b), d, R)
<1>1. Safe(ApplyAccount(s, {b}, b.seq <= s.first), d, R)
  BY AppliesSafe
<1> QED BY <1>1, ReceivesSafe DEF Taken

-----------------------------------------------------------------------------
(* Each step keeps the invariant.                                          *)

LEMMA KeysInit == ASSUME KeysConstants, Init PROVE KeysInv
<1> SUFFICES ASSUME NEW d \in Devices PROVE Safe(dev[d], d, {})
  BY DEF Init, KeysInv
<1> DEFINE t == dev[d]
<1>1. /\ DOMAIN t = Fields /\ t.ring = {Gen0} /\ t.unpaired = {} /\ t.outbox = {}
      /\ t.recent = {} /\ t.held = {}
  BY DEF Init, New, Fields
<1>2. LeftBy({Gen0}) = {}
  BY DEF LeftBy, Gen0
<1> QED BY <1>1, <1>2 DEF Safe, CleanQueue

\* A step of one Device's own.
LEMMA DeviceStep ==
    ASSUME KeysInv, NEW d \in Devices, NEW t, Safe(t, d, revoked), dev' = [dev EXCEPT ![d] = t],
           UNCHANGED <<log, revoked, unpairing>>
    PROVE  KeysInv'
<1> SUFFICES ASSUME NEW e \in Devices PROVE Safe(dev'[e], e, revoked)
  BY DEF KeysInv
<1>1. CASE e = d
  BY <1>1 DEF KeysInv
<1>2. CASE e # d
  BY <1>2 DEF KeysInv
<1> QED BY <1>1, <1>2

\* What was safe stays so when more are unpaired.
LEMMA MoreRevoked ==
    ASSUME NEW R, NEW Q, R \subseteq Q
    PROVE  /\ \A i : Clean(i, R) => Clean(i, Q)
           /\ \A s, d : Safe(s, d, R) => Safe(s, d, Q)
<1>1. ASSUME NEW i, Clean(i, R) PROVE Clean(i, Q)
  BY <1>1 DEF Clean
<1>2. ASSUME NEW s, NEW d, Safe(s, d, R) PROVE Safe(s, d, Q)
  BY <1>1, <1>2 DEF Safe, CleanQueue
<1> QED BY <1>1, <1>2

\* Fields that say nothing of who was unpaired.
LEMMA OtherFields ==
    ASSUME NEW R, NEW d, NEW s, Safe(s, d, R), NEW t, DOMAIN t = Fields, t.ring = s.ring,
           t.unpaired = s.unpaired, t.outbox = s.outbox, t.recent = s.recent, t.held = s.held
    PROVE  Safe(t, d, R)
BY DEF Safe

LEMMA ConnectKeeps ==
    ASSUME KeysInv, NEW d \in Devices, Connect(d) \/ Cut(d) PROVE KeysInv'
<1>1. PICK t : /\ dev' = [dev EXCEPT ![d] = t]
               /\ \/ t = [dev[d] EXCEPT !.at = "keys", !.since = 0, !.due = TRUE]
                  \/ t = [dev[d] EXCEPT !.at = "idle"]
  BY DEF Connect, Cut
<1>2. Safe(dev[d], d, revoked)
  BY DEF KeysInv
<1>3. /\ DOMAIN t = Fields /\ t.ring = dev[d].ring /\ t.unpaired = dev[d].unpaired
      /\ t.outbox = dev[d].outbox /\ t.recent = dev[d].recent /\ t.held = dev[d].held
  BY <1>1, <1>2 DEF Safe, Fields
<1>4. Safe(t, d, revoked)
  BY <1>2, <1>3, OtherFields
<1> QED BY <1>1, <1>4, DeviceStep DEF Connect, Cut, relayVars, paired, tasks

LEMMA ReadKeeps ==
    ASSUME KeysConstants, KeysInv, NEW d \in Devices, PullKeyring(d) \/ Pull(d) PROVE KeysInv'
<1>1. Safe(dev[d], d, revoked)
  BY DEF KeysInv
<1>2. CASE PullKeyring(d)
  <2>1. PICK b \in log : dev' = [dev EXCEPT ![d] = [ReceiveKeyring(dev[d], d, b) EXCEPT !.since = b.seq]]
    BY <1>2 DEF PullKeyring, FirstOf, Keyrings, For
  <2> DEFINE s == ReceiveKeyring(dev[d], d, b)
             t == [s EXCEPT !.since = b.seq]
  <2>2. Safe(s, d, revoked)
    BY <1>1, ReceivesSafe DEF KeysInv
  <2> HIDE DEF s
  <2>3. /\ DOMAIN t = Fields /\ t.ring = s.ring /\ t.unpaired = s.unpaired
        /\ t.outbox = s.outbox /\ t.recent = s.recent /\ t.held = s.held
    BY <2>2 DEF Safe, Fields
  <2>4. dev' = [dev EXCEPT ![d] = t]
    BY <2>1 DEF s
  <2> HIDE DEF t
  <2>5. Safe(t, d, revoked)
    BY <2>2, <2>3, OtherFields
  <2> QED BY <1>2, <2>4, <2>5, DeviceStep DEF PullKeyring, relayVars, paired, tasks
<1>3. CASE Pull(d)
  <2>1. PICK b \in log : dev' = [dev EXCEPT ![d] = [Taken(Started(dev[d]), d, b) EXCEPT !.last = b.seq]]
    BY <1>3 DEF Pull, FirstOf, Unread, For
  <2> DEFINE q == Started(dev[d])
             s == Taken(q, d, b)
             t == [s EXCEPT !.last = b.seq]
  <2>2. Safe(q, d, revoked)
    <3>1. /\ DOMAIN q = Fields /\ q.ring = dev[d].ring /\ q.unpaired = dev[d].unpaired
          /\ q.outbox = dev[d].outbox /\ q.recent = dev[d].recent /\ q.held = dev[d].held
      BY <1>1 DEF Started, Listed, Safe, Fields
    <3> HIDE DEF q
    <3> QED BY <1>1, <3>1, OtherFields
  <2> HIDE DEF q
  <2>3. Safe(s, d, revoked)
    BY <2>2, TakesSafe DEF KeysInv
  <2>4. dev' = [dev EXCEPT ![d] = t]
    BY <2>1 DEF s, q
  <2> HIDE DEF s
  <2>5. /\ DOMAIN t = Fields /\ t.ring = s.ring /\ t.unpaired = s.unpaired
        /\ t.outbox = s.outbox /\ t.recent = s.recent /\ t.held = s.held
    BY <2>3 DEF Safe, Fields
  <2> HIDE DEF t
  <2>6. Safe(t, d, revoked)
    BY <2>3, <2>5, OtherFields
  <2> QED BY <1>3, <2>4, <2>6, DeviceStep DEF Pull, relayVars, paired, tasks
<1> QED BY <1>2, <1>3

LEMMA KeyringsReadKeeps ==
    ASSUME KeysConstants, KeysInv, NEW d \in Devices, KeyringsRead(d) PROVE KeysInv'
<1> DEFINE s == PushMachine(dev[d], d)
           t == [s EXCEPT !.at = "drain"]
<1>1. Safe(s, d, revoked)
  BY PushesSafe DEF KeysInv
<1>2. dev' = [dev EXCEPT ![d] = t]
  BY DEF KeyringsRead
<1> HIDE DEF s
<1>3. /\ DOMAIN t = Fields /\ t.ring = s.ring /\ t.unpaired = s.unpaired
      /\ t.outbox = s.outbox /\ t.recent = s.recent /\ t.held = s.held
  BY <1>1 DEF Safe, Fields
<1> HIDE DEF t
<1>4. Safe(t, d, revoked)
  BY <1>1, <1>3, OtherFields
<1> QED BY <1>2, <1>4, DeviceStep DEF KeyringsRead, relayVars, paired, tasks

LEMMA SentSafe ==
    ASSUME NEW R, NEW d, NEW s, Safe(s, d, R), NEW w, NEW item, Clean(item, R)
    PROVE  Safe(Sent(s, w, item), d, R)
<1> DEFINE t == Sent(s, w, item)
<1> SUFFICES Safe(t, d, R)
  OBVIOUS
<1>1. /\ DOMAIN t = Fields /\ t.ring = s.ring /\ t.unpaired = s.unpaired
      /\ t.outbox = s.outbox \ {w} /\ t.held = s.held
      /\ t.recent \subseteq s.recent \cup {[item |-> item, seq |-> head + 1]}
  BY DEF Safe, Fields, Sent
<1> HIDE DEF t
<1>2. CleanQueue(t.outbox, R)
  BY <1>1 DEF Safe, CleanQueue
<1>3. CleanQueue(t.recent, R)
  BY <1>1 DEF Safe, CleanQueue
<1> QED BY <1>1, <1>2, <1>3, StaysSafe DEF Safe

LEMMA NewestKeyClean ==
    ASSUME NEW R, NEW s, NEW item, Clean(item, R)
    PROVE  Clean(UnderNewestKey(s, item), R)
<1> DEFINE i == [item EXCEPT !.key = Key(s)]
<1>1. /\ DOMAIN i = DOMAIN item /\ i.out = item.out /\ i.ring = item.ring /\ i.to = item.to
  BY DEF Clean, ItemFields
<1>2. UnderNewestKey(s, item) = i \/ UnderNewestKey(s, item) = item
  BY DEF UnderNewestKey
<1> HIDE DEF i
<1> QED BY <1>1, <1>2 DEF Clean

LEMMA PutKeeps ==
    ASSUME KeysConstants, KeysInv, NEW d \in Devices, Put(d) PROVE KeysInv'
<1>1. PICK w \in First(dev[d].outbox) :
        LET item == UnderNewestKey(dev[d], w.item)
            sent == item.to \in listed \cup {All}
        IN /\ log' = IF sent THEN {b \in log : ~SameSlot(b, item)} \cup {Stamped(d, item)}
                     ELSE log
           /\ dev' = [dev EXCEPT ![d] = Sent(@, w, item)]
  BY DEF Put
<1> DEFINE item == UnderNewestKey(dev[d], w.item)
           t == Sent(dev[d], w, item)
<1>2. Safe(dev[d], d, revoked)
  BY DEF KeysInv
<1>3. Clean(item, revoked)
  BY <1>1, <1>2, NewestKeyClean DEF First, Safe, CleanQueue
<1>4. dev' = [dev EXCEPT ![d] = t]
  BY <1>1
<1>5. log' \subseteq log \cup {Stamped(d, item)}
  BY <1>1
<1>6. Clean(Stamped(d, item), revoked)
  <2>1. /\ ItemFields \subseteq DOMAIN Stamped(d, item)
        /\ Stamped(d, item).out = item.out /\ Stamped(d, item).ring = item.ring
        /\ Stamped(d, item).to = item.to
    BY DEF Stamped, ItemFields
  <2> HIDE DEF item
  <2> QED BY <1>3, <2>1 DEF Clean
<1>7. Safe(t, d, revoked)
  BY <1>2, <1>3, SentSafe
<1> HIDE DEF item, t
<1>8. \A e \in Devices : Safe(dev'[e], e, revoked)
  <2> SUFFICES ASSUME NEW e \in Devices PROVE Safe(dev'[e], e, revoked)
    OBVIOUS
  <2>1. CASE e = d
    BY <1>4, <1>7, <2>1 DEF KeysInv
  <2>2. CASE e # d
    BY <1>4, <2>2 DEF KeysInv
  <2> QED BY <2>1, <2>2
<1>9. DOMAIN dev' = Devices
  BY <1>4 DEF KeysInv
<1> QED BY <1>5, <1>6, <1>8, <1>9 DEF KeysInv, Put, paired, tasks

LEMMA CaughtUpKeeps ==
    ASSUME KeysConstants, KeysInv, NEW d \in Devices, CaughtUp(d) PROVE KeysInv'
<1> DEFINE s == [Started(dev[d]) EXCEPT !.at = "wait", !.due = FALSE]
           g(k) == [n |-> NewestOf(s.ring).n + 1, k |-> k, out |-> Gone(s)]
           u(k) == [s EXCEPT !.ring = @ \cup {g(k)}]
<1>1. Safe(dev[d], d, revoked)
  BY DEF KeysInv
<1>2. /\ DOMAIN s = Fields /\ s.ring = dev[d].ring /\ s.unpaired = dev[d].unpaired
      /\ s.outbox = dev[d].outbox /\ s.recent = dev[d].recent /\ s.held = dev[d].held
  BY <1>1 DEF Started, Listed, Safe, Fields
<1>3. \/ dev' = [dev EXCEPT ![d] = s]
      \/ /\ d \in Identity
         /\ \E k \in 1..Cardinality(Identity) : dev' = [dev EXCEPT ![d] = KeyMade(u(k), d)]
  BY DEF CaughtUp, RotationDue
<1> HIDE DEF s
<1>4. Safe(s, d, revoked)
  BY <1>1, <1>2, OtherFields
<1>5. ASSUME d \in Identity, NEW k PROVE Safe(KeyMade(u(k), d), d, revoked)
  <2>1. /\ DOMAIN u(k) = Fields /\ u(k).ring = s.ring \cup {g(k)} /\ u(k).unpaired = s.unpaired
        /\ u(k).outbox = s.outbox /\ u(k).recent = s.recent /\ u(k).held = s.held
    BY <1>4 DEF Safe, Fields
  <2>2. LeftBy(s.ring \cup {g(k)}) \subseteq revoked
    <3>1. g(k).out \subseteq revoked
      BY <1>4 DEF Gone, Safe
    <3>2. LeftBy({g(k)}) = g(k).out
      BY DEF LeftBy
    <3> HIDE DEF g
    <3> QED BY <1>4, <3>1, <3>2, LeftByUnion DEF Safe
  <2> HIDE DEF u, g
  <2>3. Safe(u(k), d, revoked)
    BY <1>4, <1>5, <2>1, <2>2 DEF Safe
  <2> QED BY <2>3, KeyMadeSafe
<1> HIDE DEF u
<1>6. CASE dev' = [dev EXCEPT ![d] = s]
  BY <1>4, <1>6, DeviceStep DEF CaughtUp, relayVars, paired, tasks
<1>7. CASE d \in Identity /\ \E k \in 1..Cardinality(Identity) :
              dev' = [dev EXCEPT ![d] = KeyMade(u(k), d)]
  <2>1. PICK k : dev' = [dev EXCEPT ![d] = KeyMade(u(k), d)]
    BY <1>7
  <2> QED BY <1>5, <1>7, <2>1, DeviceStep DEF CaughtUp, relayVars, paired, tasks
<1> QED BY <1>3, <1>6, <1>7

LEMMA RestartKeeps ==
    ASSUME KeysConstants, KeysInv, NEW d \in Devices, Restart(d) PROVE KeysInv'
<1> DEFINE s == PublishKeyring(dev[d], d)
           lost == {u.item.of : u \in {v \in dev[d].recent : v.item.kind = "chat"}}
           t == [s EXCEPT !.at = "idle", !.due = FALSE, !.recent = {}, !.lost = @ \cup lost]
<1>1. Safe(s, d, revoked)
  BY PushesSafe DEF KeysInv
<1>2. dev' = [dev EXCEPT ![d] = t]
  BY DEF Restart, Restarted
<1> HIDE DEF s, lost
<1>3. /\ DOMAIN t = Fields /\ t.ring = s.ring /\ t.unpaired = s.unpaired
      /\ t.outbox = s.outbox /\ t.recent = {} /\ t.held = s.held
  BY <1>1 DEF Safe, Fields
<1> HIDE DEF t
<1>4. CleanQueue(t.recent, revoked)
  BY <1>3 DEF CleanQueue
<1>5. Safe(t, d, revoked)
  BY <1>1, <1>3, <1>4 DEF Safe
<1>6. \A e \in Devices : Safe(dev'[e], e, revoked)
  BY <1>2, <1>5 DEF KeysInv
<1>7. DOMAIN unpairing' = Devices /\ \A e \in Devices : unpairing'[e] \in revoked \cup {None}
  BY DEF KeysInv, Restart
<1>8. log' = log /\ revoked' = revoked /\ DOMAIN dev' = Devices
  BY <1>2 DEF KeysInv, Restart, relayVars, paired
<1> QED BY <1>6, <1>7, <1>8 DEF KeysInv

LEMMA WriteKeeps ==
    ASSUME KeysConstants, KeysInv, NEW d \in Devices, NEW r \in Records, Write(d, r) PROVE KeysInv'
<1> DEFINE s == dev[d]
           queue == Queued(s.outbox, RecordItem(s, r))
           t == [s EXCEPT !.store = @ \cup {r}, !.outbox = queue]
<1>1. Safe(s, d, revoked)
  BY DEF KeysInv
<1>2. dev' = [dev EXCEPT ![d] = t]
  BY DEF Write, Writes
<1>3. CleanQueue(queue, revoked)
  BY <1>1, AccountItems, QueuedClean DEF Safe
<1> HIDE DEF s, queue
<1>4. /\ DOMAIN t = Fields /\ t.ring = s.ring /\ t.unpaired = s.unpaired
      /\ t.outbox = queue /\ t.recent = s.recent /\ t.held = s.held
  BY <1>1 DEF Safe, Fields
<1> HIDE DEF t
<1>5. Safe(t, d, revoked)
  BY <1>1, <1>3, <1>4 DEF Safe
<1> QED BY <1>2, <1>5, DeviceStep DEF Write, relayVars, paired, tasks

LEMMA RevokeKeeps ==
    ASSUME KeysConstants, KeysInv, NEW x \in Unpairable, Revoke(x) PROVE KeysInv'
<1> DEFINE d == Unpairer[x]
<1>1. /\ revoked' = revoked \cup {x} /\ log' \subseteq log /\ dev' = dev
      /\ unpairing' = [unpairing EXCEPT ![d] = x]
  BY DEF Revoke
<1>2. \A e \in Devices : Safe(dev'[e], e, revoked')
  BY <1>1, MoreRevoked DEF KeysInv
<1>3. \A b \in log' : Clean(b, revoked')
  BY <1>1, MoreRevoked DEF KeysInv
<1>4. DOMAIN unpairing' = Devices /\ \A e \in Devices : unpairing'[e] \in revoked' \cup {None}
  BY <1>1 DEF KeysInv
<1> QED BY <1>1, <1>2, <1>3, <1>4 DEF KeysInv

LEMMA UnpairedKeeps ==
    ASSUME KeysConstants, KeysInv, NEW d \in Devices, Unpaired(d) PROVE KeysInv'
<1> DEFINE x == unpairing[d]
           t == [dev[d] EXCEPT !.peers = @ \ {x}, !.unpaired = @ \cup {x}, !.due = TRUE]
<1>1. Safe(dev[d], d, revoked) /\ x \in revoked
  BY DEF KeysInv, Unpaired
<1>2. dev' = [dev EXCEPT ![d] = PushRoster(t)]
  BY DEF Unpaired, Drops
<1>3. /\ DOMAIN t = Fields /\ t.ring = dev[d].ring /\ t.unpaired = dev[d].unpaired \cup {x}
      /\ t.outbox = dev[d].outbox /\ t.recent = dev[d].recent /\ t.held = dev[d].held
  BY <1>1 DEF Safe, Fields
<1> HIDE DEF t
<1>4. Safe(t, d, revoked)
  BY <1>1, <1>3 DEF Safe
<1>5. Safe(PushRoster(t), d, revoked)
  BY <1>4, PushesSafe
<1>6. \A e \in Devices : Safe(dev'[e], e, revoked)
  BY <1>2, <1>5 DEF KeysInv
<1>7. DOMAIN unpairing' = Devices /\ \A e \in Devices : unpairing'[e] \in revoked \cup {None}
  BY DEF KeysInv, Unpaired
<1>8. log' = log /\ revoked' = revoked /\ DOMAIN dev' = Devices
  BY <1>2 DEF KeysInv, Unpaired, relayVars, paired
<1> QED BY <1>6, <1>7, <1>8 DEF KeysInv

LEMMA AnswerKeeps ==
    ASSUME KeysConstants, KeysInv, NEW n \in Newcomers, Answer(n) PROVE KeysInv'
<1> DEFINE d == Pairer[n]
           s == New(n, dev[d].ring)
<1>1. d \in Devices /\ n \in Devices /\ n \notin revoked
  BY DEF KeysConstants, Newcomers, Answer
<1>2. Safe(dev[d], d, revoked)
  BY <1>1 DEF KeysInv
<1>3. /\ DOMAIN s = Fields /\ s.ring = dev[d].ring /\ s.unpaired = {} /\ s.outbox = {}
      /\ s.recent = {} /\ s.held = {}
  BY DEF New, Fields
<1>4. dev' = [dev EXCEPT ![n] = PushMachine(s, n)]
  BY DEF Answer
<1> HIDE DEF s, d
<1>5. Safe(s, n, revoked)
  BY <1>1, <1>2, <1>3 DEF Safe, CleanQueue
<1>6. Safe(PushMachine(s, n), n, revoked)
  BY <1>5, PushesSafe
<1> QED BY <1>1, <1>4, <1>6, DeviceStep DEF Answer, relayVars

LEMMA PairedKeeps ==
    ASSUME KeysConstants, KeysInv, NEW d \in Devices, Paired(d) PROVE KeysInv'
<1> DEFINE t == [dev[d] EXCEPT !.peers = @ \cup {pairing[d]}]
<1>1. Safe(dev[d], d, revoked)
  BY DEF KeysInv
<1>2. dev' = [dev EXCEPT ![d] = ForwardKeyrings(PushRoster(PushMachine(t, d)), d)]
  BY DEF Paired, PairedWith
<1>3. /\ DOMAIN t = Fields /\ t.ring = dev[d].ring /\ t.unpaired = dev[d].unpaired
      /\ t.outbox = dev[d].outbox /\ t.recent = dev[d].recent /\ t.held = dev[d].held
  BY <1>1 DEF Safe, Fields
<1> HIDE DEF t
<1>4. Safe(t, d, revoked)
  BY <1>1, <1>3, OtherFields
<1>5. Safe(PushRoster(PushMachine(t, d)), d, revoked)
  BY <1>4, PushesSafe
<1>6. Safe(ForwardKeyrings(PushRoster(PushMachine(t, d)), d), d, revoked)
  BY <1>5, ForwardSafe
<1> QED BY <1>2, <1>6, DeviceStep DEF Paired, relayVars, paired

LEMMA KeysStep == ASSUME KeysConstants, KeysInv, [Next]_vars PROVE KeysInv'
<1>1. CASE \E d \in Devices : Session(d) \/ Cut(d) \/ Restart(d)
  <2>1. PICK d \in Devices : Session(d) \/ Cut(d) \/ Restart(d)
    BY <1>1
  <2> QED BY <2>1, ConnectKeeps, ReadKeeps, KeyringsReadKeeps, PutKeeps, CaughtUpKeeps, RestartKeeps,
             UnpairedKeeps, PairedKeeps DEF Session
<1>2. CASE \E d \in Devices, r \in Records : Write(d, r)
  BY <1>2, WriteKeeps
<1>3. CASE \E x \in Unpairable : Revoke(x)
  BY <1>3, RevokeKeeps
<1>4. CASE \E n \in Newcomers : Answer(n)
  BY <1>4, AnswerKeeps
<1>5. CASE UNCHANGED vars
  BY <1>5 DEF vars, relayVars, paired, tasks, KeysInv
<1> QED BY <1>1, <1>2, <1>3, <1>4, <1>5 DEF Next

LEMMA LeavesOut == ASSUME KeysConstants, KeysInv PROVE LeftOut
<1> SUFFICES ASSUME NEW x \in Devices \ Identity, NEW g \in SealedTo(x), x \in g.out PROVE FALSE
  BY DEF LeftOut
<1>1. CASE g \in dev[x].ring
  BY <1>1 DEF KeysInv, Safe, LeftBy
<1>2. CASE \E b \in log : b.to = x /\ g \in b.ring
  BY <1>2 DEF KeysInv, Clean, LeftBy
<1>3. CASE \E d \in Devices : \E v \in dev[d].outbox : v.item.to = x /\ g \in v.item.ring
  BY <1>3 DEF KeysInv, Safe, CleanQueue, Clean, LeftBy
<1> QED BY <1>1, <1>2, <1>3 DEF SealedTo

\* No Device without the identity's master secret is ever handed a generation made after it
\* was unpaired: not by the one that made it, nor by whoever hands it on or pairs it
\* (sync.rs forward_keyrings, identity.rs rotate, pairing.rs wait_for_request).
THEOREM UnpairedLeftOut == ASSUME KeysConstants PROVE Spec => []LeftOut
<1>1. Init => KeysInv
  BY KeysInit
<1>2. KeysInv /\ [Next]_vars => KeysInv'
  BY KeysStep
<1>3. KeysInv => LeftOut
  BY LeavesOut
<1> QED BY <1>1, <1>2, <1>3, PTL DEF Spec
=============================================================================
