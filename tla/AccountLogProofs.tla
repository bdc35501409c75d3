-------------------------- MODULE AccountLogProofs --------------------------
(***************************************************************************)
(* What is deleted from an account stays deleted, and nothing else goes,   *)
(* for any Devices, bots, chats and messages, any number of changes,       *)
(* restarts and failed sessions.  The induction follows every roster the   *)
(* system holds, in memory, on disk, queued, uploaded or in a page being   *)
(* applied: each is sound and names only what was made.                    *)
(***************************************************************************)
EXTENDS AccountLog, TLAPS, WellFoundedInduction

----------------------------------------------------------------------------
(* The invariant. *)

\* A roster, and an item or blob, of an account in which the ids of M were made.
Ours(r, M) == r \in Rosters /\ Sound(r) /\ r.bots \cup r.chats \cup r.deleted \subseteq M

OfChat(m, v, M) == m \in Messages /\ ChatOf[m] \in M /\ v \in 1..MaxVersion
IsItem(i, M) ==
    /\ i.kind \in {"chat", "roster"} /\ Ours(i.roster, M)
    /\ i.kind = "chat" => OfChat(i.m, i.v, M)

Each(f) == f = [d \in Devices |-> f[d]]
IsSaved(s) == s = [known |-> s.known, last |-> s.last, applied |-> s.applied]
IsSync(s)  == s = [at |-> s.at, id |-> s.id, page |-> s.page, todo |-> s.todo,
                   head |-> s.head, since |-> s.since]
IsReading(s) == s = [at |-> s.at, chat |-> s.chat, page |-> s.page, before |-> s.before]

\* A chat not on disk yet is a placeholder without bots.
Close(s, k) ==
    s.bots = k.bots /\ s.deleted = k.deleted /\ s.members = k.members /\ s.chats \subseteq k.chats

KnownInv == known \in [Devices -> Rosters] /\ \A d \in Devices : Ours(known[d], made)
SavedInv ==
    Each(saved) /\ \A d \in Devices :
        IsSaved(saved[d]) /\ Ours(saved[d].known, made) /\ Close(saved[d].known, known[d])
LogInv ==
    /\ head \in Nat
    /\ \A b \in log : /\ IsItem(b, made) /\ b.seq \in 1..head
                      /\ b.kind = "chat" => ChatOf[b.m] \notin gone
QueueInv == Each(outbox) /\ \A d \in Devices : \A p \in DOMAIN outbox[d] : IsItem(outbox[d][p], made)
UnsentInv ==
    Each(unsent) /\ \A d \in Devices : unsent[d] # <<>> => OfChat(unsent[d][1], unsent[d][2], made)
SyncInv ==
    Each(sync) /\ \A d \in Devices :
        /\ IsSync(sync[d]) /\ sync[d].todo \subseteq made \cap Chats
        /\ \A b \in sync[d].page : IsItem(b, made)
StoreInv == store \in [Devices -> [Messages -> 0..MaxVersion]]
ReadingInv ==
    Each(reading) /\ \A d \in Devices :
        IsReading(reading[d]) /\ \A m \in DOMAIN reading[d].page : reading[d].page[m].v \in 0..MaxVersion

IInv == KnownInv /\ SavedInv /\ LogInv /\ QueueInv /\ UnsentInv /\ SyncInv /\ StoreInv /\ ReadingInv

\* What a step may take from a roster, and from a store.
RosterKeeps(k, r) ==
    /\ k.bots \ r.bots \subseteq r.deleted
    /\ \A c \in Chats : (c \in k.chats /\ c \notin r.chats) =>
          c \in r.deleted \/ k.members[c] = {} \/ k.members[c] \cap r.deleted # {}
StoreKeeps(d) ==
    \A m \in Messages : (store[d][m] > 0 /\ store'[d][m] = 0) => ChatOf[m] \notin known'[d].chats
Keeps == \A d \in Devices : RosterKeeps(known[d], known'[d]) /\ StoreKeeps(d)

----------------------------------------------------------------------------
(* Helpers. *)

\* A set of naturals that is not empty has a least element.
LEMMA LeastNatural ==
    ASSUME NEW S, S \subseteq Nat, S # {}
    PROVE  \E n \in S : \A k \in S : n <= k
<1> DEFINE R == {ss \in Nat \X Nat : ss[1] < ss[2]}
<1>1. IsWellFoundedOn(R, Nat)
  BY NatLessThanWellFounded DEF OpToRel
<1>2. PICK x \in S : \A y \in S : ~(<<y, x>> \in R)
  <2> HIDE DEF R
  <2> QED BY <1>1, WFMin
<1>3. ASSUME NEW k \in S PROVE x <= k
  <2>1. <<k, x>> \notin R BY <1>2
  <2>2. <<k, x>> \in Nat \X Nat /\ <<k, x>>[1] = k /\ <<k, x>>[2] = x OBVIOUS
  <2> QED BY <2>1, <2>2
<1> QED BY <1>3

\* The newest blob of a slot that has one.
LEMMA NewestIsOfTheSlot ==
    ASSUME LogInv, NEW bs \in SUBSET log, bs # {}
    PROVE  Latest(bs) \in bs
<1>1. head \in Nat /\ \A b \in bs : b.seq \in 1..head
  BY DEF LogInv
<1> DEFINE S == {head - b.seq : b \in bs}
<1>2. S \subseteq Nat /\ S # {}
  BY <1>1
<1>3. PICK n \in S : \A k \in S : n <= k
  <2> HIDE DEF S
  <2> QED BY <1>2, LeastNatural
<1>4. PICK b \in bs : n = head - b.seq
  BY <1>3
<1>5. ASSUME NEW o \in bs PROVE b.seq >= o.seq
  <2>1. head - b.seq <= head - o.seq
    BY <1>3, <1>4
  <2> QED BY <1>1, <2>1
<1> QED BY <1>5 DEF Latest

LEMMA NewestVersion ==
    ASSUME LogInv, MaxVersion \in Nat, NEW m
    PROVE  Newest(m) \in Nat /\ Newest(m) <= MaxVersion /\ (SlotOf(m) # {} => Newest(m) \in 1..MaxVersion)
<1>1. CASE SlotOf(m) = {}
  BY <1>1 DEF Newest
<1>2. CASE SlotOf(m) # {}
  <2>1. Latest(SlotOf(m)) \in SlotOf(m)
    BY <1>2, NewestIsOfTheSlot DEF SlotOf
  <2>2. Latest(SlotOf(m)).v \in 1..MaxVersion
    BY <2>1 DEF SlotOf, LogInv, IsItem, OfChat
  <2> QED BY <1>2, <2>2 DEF Newest
<1> QED BY <1>1, <1>2

LEMMA OursGrows ==
    ASSUME NEW M, NEW N, M \subseteq N
    PROVE  /\ \A r : Ours(r, M) => Ours(r, N)
           /\ \A m, v : OfChat(m, v, M) => OfChat(m, v, N)
           /\ \A i : IsItem(i, M) => IsItem(i, N)
BY DEF Ours, OfChat, IsItem

LEMMA QueuedItems ==
    ASSUME NEW q, NEW i, NEW p \in DOMAIN Queued(q, i)
    PROVE  Queued(q, i)[p] = i \/ (p \in DOMAIN q /\ Queued(q, i)[p] = q[p])
BY DEF Queued

LEMMA WithoutItems ==
    ASSUME NEW q, NEW cs, NEW p \in DOMAIN WithoutChats(q, cs)
    PROVE  p \in DOMAIN q /\ WithoutChats(q, cs)[p] = q[p]
BY DEF WithoutChats

\* What a merge of two rosters gives.
LEMMA MergedIsOurs ==
    ASSUME NEW M, NEW k, NEW r, Ours(k, M), Ours(r, M)
    PROVE  Ours(Merged(k, r), M) /\ RosterKeeps(k, Merged(k, r))
<1> DEFINE out    == k.deleted \cup r.deleted
           listed == r.chats \ out
           keeps  == KeptChats(k, r)
           bots   == (r.bots \ out) \cup KeptBots(k, r)
           members == [c \in Chats |-> IF c \in listed THEN r.members[c] \ out
                                       ELSE IF c \in keeps THEN k.members[c] ELSE {}]
           g      == Merged(k, r)
<1>0. /\ k \in Rosters /\ r \in Rosters /\ Sound(k) /\ Sound(r)
      /\ k.bots \cup k.chats \cup k.deleted \cup r.bots \cup r.chats \cup r.deleted \subseteq M
  BY DEF Ours
<1>1. /\ g = [bots |-> bots, chats |-> listed \cup keeps, members |-> members, deleted |-> out]
      /\ g.bots = bots /\ g.chats = listed \cup keeps /\ g.members = members /\ g.deleted = out
  BY DEF Merged
<1>2. /\ bots \subseteq (k.bots \cup r.bots) \ out
      /\ \A b \in k.bots : b \in bots \/ b \in out
  BY DEF KeptBots
<1>3. \A c \in keeps : /\ c \in k.chats /\ c \notin out /\ c \notin r.chats /\ k.members[c] # {}
                       /\ k.members[c] \subseteq bots
  BY DEF KeptChats
<1>4. \A c \in k.chats : c \in out \/ c \in r.chats \/ c \in keeps \/ k.members[c] = {} \/ ~(k.members[c] \subseteq bots)
  BY DEF KeptChats
<1> HIDE DEF g, keeps, bots
<1>5. \A c \in Chats : /\ members[c] \subseteq bots
                       /\ c \in out \/ c \notin listed \cup keeps => members[c] = {}
  <2> SUFFICES ASSUME NEW c \in Chats
               PROVE  /\ members[c] \subseteq bots
                      /\ c \in out \/ c \notin listed \cup keeps => members[c] = {}
    OBVIOUS
  <2>1. CASE c \in listed
    <3>1. members[c] = r.members[c] \ out /\ r.members[c] \subseteq r.bots
      BY <1>0, <2>1 DEF Sound
    <3>2. r.bots \ out \subseteq bots
      BY DEF bots
    <3> QED BY <2>1, <3>1, <3>2
  <2>2. CASE c \notin listed /\ c \in keeps
    BY <1>3, <2>2
  <2>3. CASE c \notin listed /\ c \notin keeps
    BY <2>3
  <2> QED BY <2>1, <2>2, <2>3
<1>6. k.deleted \in SUBSET Entries /\ r.deleted \in SUBSET Entries /\ k.bots \in SUBSET Bots
      /\ r.bots \in SUBSET Bots /\ k.chats \in SUBSET Chats /\ r.chats \in SUBSET Chats
      /\ \A c \in Chats : k.members[c] \subseteq k.bots
  BY <1>0 DEF Rosters, Sound
<1>7. g \in Rosters
  <2>1. bots \in SUBSET Bots /\ out \in SUBSET Entries /\ listed \cup keeps \in SUBSET Chats
    BY <1>2, <1>3, <1>6
  <2>2. members \in [Chats -> SUBSET Bots]
    BY <1>5, <2>1
  <2> HIDE DEF members, out, listed
  <2> QED BY <1>1, <2>1, <2>2 DEF Rosters
<1>8. Sound(g)
  BY <1>1, <1>2, <1>5 DEF Sound
<1>9. g.bots \cup g.chats \cup g.deleted \subseteq M
  BY <1>0, <1>1, <1>2, <1>3
<1>10. k.bots \ g.bots \subseteq g.deleted
  BY <1>1, <1>2
<1>11. ASSUME NEW c \in Chats, c \in k.chats, c \notin g.chats, c \notin g.deleted, k.members[c] # {}
       PROVE  k.members[c] \cap g.deleted # {}
  <2>1. c \notin out /\ c \notin r.chats /\ c \notin keeps
    BY <1>1, <1>11
  <2>2. PICK b \in k.members[c] : b \notin bots
    BY <1>4, <1>11, <2>1
  <2>3. b \in k.bots
    BY <1>6
  <2> QED BY <1>1, <1>2, <2>2, <2>3
<1> QED BY <1>7, <1>8, <1>9, <1>10, <1>11 DEF Ours, RosterKeeps, g

\* A chat no roster lists yet.
LEMMA PlaceholderIsOurs ==
    ASSUME NEW M, NEW k, NEW s, Ours(k, M), Ours(s, M), Close(s, k), NEW c \in Chats \cap M
    PROVE  /\ Ours(WithChat(k, c), M) /\ RosterKeeps(k, WithChat(k, c))
           /\ Close(s, WithChat(k, c))
<1>1. /\ WithChat(k, c).bots = k.bots /\ WithChat(k, c).chats = k.chats \cup {c}
      /\ WithChat(k, c).members = k.members /\ WithChat(k, c).deleted = k.deleted
      /\ WithChat(k, c) \in Rosters
  BY DEF WithChat, Ours, Rosters
<1>2. Sound(WithChat(k, c))
  BY <1>1 DEF Sound, Ours
<1> QED BY <1>1, <1>2 DEF Ours, RosterKeeps, Close

\* What disk holds of a roster after a restart.
LEMMA SavedKeeps ==
    ASSUME NEW M, NEW k, NEW s, Ours(s, M), Close(s, k)
    PROVE  RosterKeeps(k, s)
BY DEF Ours, Sound, Close, RosterKeeps

----------------------------------------------------------------------------
(* One variable at a time. *)

Grown == made \subseteq made'
Others(f, g, d) == \A e \in Devices : e # d => g[e] = f[e]

LEMMA RostersStay ==
    ASSUME IInv, Grown, UNCHANGED <<known, saved>>
    PROVE  KnownInv' /\ SavedInv'
BY OursGrows DEF IInv, Grown, KnownInv, SavedInv, Each

LEMMA LogStays ==
    ASSUME IInv, Grown, UNCHANGED <<log, head, gone>>
    PROVE  LogInv'
BY OursGrows DEF IInv, Grown, LogInv

LEMMA QueueStays ==
    ASSUME IInv, Grown, outbox' = outbox
    PROVE  QueueInv'
BY OursGrows DEF IInv, Grown, QueueInv, Each

LEMMA UnsentStays ==
    ASSUME IInv, Grown, unsent' = unsent
    PROVE  UnsentInv'
BY OursGrows DEF IInv, Grown, UnsentInv, Each

LEMMA SyncStays ==
    ASSUME IInv, Grown, sync' = sync
    PROVE  SyncInv'
BY OursGrows DEF IInv, Grown, SyncInv, Each

LEMMA ReadingStays ==
    ASSUME IInv, reading' = reading
    PROVE  ReadingInv'
BY DEF IInv, ReadingInv, Each

LEMMA KnownTo ==
    ASSUME IInv, Grown, NEW d \in Devices, NEW r, Ours(r, made'), known' = [known EXCEPT ![d] = r]
    PROVE  KnownInv' /\ known'[d] = r /\ Others(known, known', d)
<1>1. known \in [Devices -> Rosters] /\ r \in Rosters
  BY DEF IInv, KnownInv, Ours
<1>2. known'[d] = r /\ Others(known, known', d) /\ known' \in [Devices -> Rosters]
  BY <1>1 DEF Others
<1>3. \A e \in Devices : Ours(known[e], made')
  BY OursGrows DEF IInv, KnownInv, Grown
<1> QED BY <1>2, <1>3 DEF KnownInv, Others

LEMMA SavedTo ==
    ASSUME IInv, Grown, NEW d \in Devices, NEW s, saved' = [saved EXCEPT ![d] = s],
           IsSaved(s), Ours(s.known, made'), Close(s.known, known'[d]), Others(known, known', d)
    PROVE  SavedInv' /\ saved'[d] = s
<1>1. saved'[d] = s /\ Each(saved') /\ \A e \in Devices : e # d => saved'[e] = saved[e]
  BY DEF IInv, SavedInv, Each
<1>2. \A e \in Devices : Ours(saved[e].known, made')
  BY OursGrows DEF IInv, SavedInv, Grown
<1>3. \A e \in Devices : IsSaved(saved[e]) /\ Close(saved[e].known, known[e])
  BY DEF IInv, SavedInv
<1> QED BY <1>1, <1>2, <1>3 DEF SavedInv, Others, Each

\* All of it, as the step leaves it.
LEMMA AllSaved ==
    ASSUME IInv, Grown, NEW d \in Devices, NEW l, NEW a, KnownInv', Others(known, known', d),
           saved' = [saved EXCEPT ![d] = [known |-> known'[d], last |-> l, applied |-> a]]
    PROVE  SavedInv'
<1> DEFINE s == [known |-> known'[d], last |-> l, applied |-> a]
<1>1. s.known = known'[d] /\ IsSaved(s)
  BY DEF IsSaved
<1>2. Ours(s.known, made') /\ Close(s.known, known'[d])
  BY <1>1 DEF KnownInv, Close
<1> QED BY <1>1, <1>2, SavedTo

\* None of it, when only a placeholder is new.
LEMMA SavedLags ==
    ASSUME IInv, Grown, NEW d \in Devices, saved' = saved,
           Close(saved[d].known, known'[d]), Others(known, known', d)
    PROVE  SavedInv'
<1>1. \A e \in Devices : Ours(saved[e].known, made')
  BY OursGrows DEF IInv, SavedInv, Grown
<1> QED BY <1>1 DEF IInv, SavedInv, Others, Each

LEMMA QueueTo ==
    ASSUME IInv, Grown, NEW d \in Devices, NEW q, outbox' = [outbox EXCEPT ![d] = q],
           \A p \in DOMAIN q : IsItem(q[p], made')
    PROVE  QueueInv'
<1>1. outbox'[d] = q /\ Each(outbox') /\ \A e \in Devices : e # d => outbox'[e] = outbox[e]
  BY DEF IInv, QueueInv, Each
<1>2. \A e \in Devices : \A p \in DOMAIN outbox[e] : IsItem(outbox[e][p], made')
  BY OursGrows DEF IInv, QueueInv, Grown
<1> QED BY <1>1, <1>2 DEF QueueInv, Each

LEMMA SyncTo ==
    ASSUME IInv, Grown, NEW d \in Devices, NEW s, sync' = [sync EXCEPT ![d] = s], IsSync(s),
           s.todo \subseteq made' \cap Chats, \A b \in s.page : IsItem(b, made')
    PROVE  SyncInv'
<1>1. sync'[d] = s /\ Each(sync') /\ \A e \in Devices : e # d => sync'[e] = sync[e]
  BY DEF IInv, SyncInv, Each
<1>2. \A e \in Devices : \A b \in sync[e].page : IsItem(b, made')
  BY OursGrows DEF IInv, SyncInv, Grown
<1>3. \A e \in Devices : IsSync(sync[e]) /\ sync[e].todo \subseteq made' \cap Chats
  BY DEF IInv, SyncInv, Grown
<1> QED BY <1>1, <1>2, <1>3 DEF SyncInv, Each

SyncFields == {"at", "id", "page", "todo", "head", "since"}

LEMMA SyncRecord ==
    ASSUME NEW s, s = [f \in SyncFields |-> s[f]]
    PROVE  IsSync(s)
BY DEF SyncFields, IsSync

LEMMA SessionFields ==
    ASSUME NEW k, IsSync(k)
    PROVE  /\ DOMAIN k = SyncFields /\ k = [f \in SyncFields |-> k[f]]
           /\ "at" \in SyncFields /\ "page" \in SyncFields /\ "todo" \in SyncFields
BY DEF IsSync, SyncFields

LEMMA IdleSession == /\ IsSync(Idle) /\ Idle.page = {} /\ Idle.todo = {}
                     /\ DOMAIN Idle = SyncFields /\ Idle = [f \in SyncFields |-> Idle[f]]
                     /\ "at" \in SyncFields /\ "page" \in SyncFields /\ "todo" \in SyncFields
<1>1. IsSync(Idle) /\ Idle.page = {} /\ Idle.todo = {}
  BY DEF Idle, IsSync
<1> QED BY <1>1, SessionFields

\* A session that holds no page and has no chat left to read.
LEMMA SyncEmpty ==
    ASSUME IInv, Grown, NEW d \in Devices, NEW s, sync' = [sync EXCEPT ![d] = s],
           IsSync(s), s.page = {}, s.todo = {}
    PROVE  SyncInv'
BY SyncTo

LEMMA UnsentTo ==
    ASSUME IInv, Grown, NEW d \in Devices, NEW u, unsent' = [unsent EXCEPT ![d] = u],
           u # <<>> => OfChat(u[1], u[2], made')
    PROVE  UnsentInv'
<1>1. unsent'[d] = u /\ Each(unsent') /\ \A e \in Devices : e # d => unsent'[e] = unsent[e]
  BY DEF IInv, UnsentInv, Each
<1>2. ASSUME NEW e \in Devices, unsent[e] # <<>>
      PROVE  OfChat(unsent[e][1], unsent[e][2], made')
  <2>1. OfChat(unsent[e][1], unsent[e][2], made) /\ made \subseteq made'
    BY <1>2 DEF IInv, UnsentInv, Grown
  <2> QED BY <2>1, OursGrows
<1> QED BY <1>1, <1>2 DEF UnsentInv, Each

LEMMA StoreTo ==
    ASSUME IInv, NEW d \in Devices, NEW s \in [Messages -> 0..MaxVersion],
           store' = [store EXCEPT ![d] = s]
    PROVE  StoreInv' /\ store'[d] = s /\ Others(store, store', d)
BY DEF IInv, StoreInv, Others

\* A step of one Device takes nothing from another one.
LEMMA KeepsTo ==
    ASSUME IInv, NEW d \in Devices, Others(known, known', d), Others(store, store', d),
           RosterKeeps(known[d], known'[d]), StoreKeeps(d)
    PROVE  Keeps
<1>1. \A e \in Devices \ {d} : known'[e] = known[e] /\ store'[e] = store[e]
  BY DEF Others
<1>2. \A k : RosterKeeps(k, k)
  BY DEF RosterKeeps
<1>3. \A e \in Devices \ {d} : StoreKeeps(e)
  BY <1>1 DEF StoreKeeps, IInv, StoreInv
<1> QED BY <1>1, <1>2, <1>3 DEF Keeps

LEMMA KeepsAll ==
    ASSUME IInv, UNCHANGED <<known, store>>
    PROVE  Keeps /\ \A d \in Devices : Others(known, known', d) /\ Others(store, store', d)
<1>1. \A k : RosterKeeps(k, k)
  BY DEF RosterKeeps
<1>2. \A e \in Devices : StoreKeeps(e)
  BY DEF StoreKeeps, IInv, StoreInv
<1> QED BY <1>1, <1>2 DEF Keeps, Others

----------------------------------------------------------------------------
(* What the actions share. *)

LEMMA Dropped ==
    ASSUME IInv, AccountConstants, NEW d \in Devices, NEW cs, cs \cap known'[d].chats = {},
           store' = [store EXCEPT ![d] = Kept(@, cs)]
    PROVE  StoreInv' /\ Others(store, store', d) /\ StoreKeeps(d)
<1>1. MaxVersion \in Nat /\ store[d] \in [Messages -> 0..MaxVersion]
  BY DEF IInv, StoreInv, AccountConstants
<1>2. Kept(store[d], cs) \in [Messages -> 0..MaxVersion]
  BY <1>1 DEF Kept
<1>3. store' = [store EXCEPT ![d] = Kept(store[d], cs)]
  OBVIOUS
<1>4. StoreInv' /\ store'[d] = Kept(store[d], cs) /\ Others(store, store', d)
  BY <1>2, <1>3, StoreTo
<1>5. ASSUME NEW m \in Messages, store[d][m] > 0, store'[d][m] = 0 PROVE ChatOf[m] \in cs
  <2>1. store'[d][m] = IF ChatOf[m] \in cs THEN 0 ELSE store[d][m]
    BY <1>4 DEF Kept
  <2> QED BY <1>1, <1>5, <2>1
<1> QED BY <1>4, <1>5 DEF StoreKeeps

LEMMA Upserted ==
    ASSUME IInv, AccountConstants, NEW d \in Devices, NEW c, NEW version, Upsert(d, c, version),
           \A m \in DOMAIN version : version[m] \in 1..MaxVersion
    PROVE  StoreInv' /\ Others(store, store', d) /\ StoreKeeps(d)
<1> DEFINE s == [m \in Messages |-> IF m \in DOMAIN version THEN version[m] ELSE store[d][m]]
<1>1. MaxVersion \in Nat /\ store[d] \in [Messages -> 0..MaxVersion]
  BY DEF IInv, StoreInv, AccountConstants
<1>2. s \in [Messages -> 0..MaxVersion]
  BY <1>1
<1>3. store' = [store EXCEPT ![d] = s]
  BY DEF Upsert
<1>4. StoreInv' /\ store'[d] = s /\ Others(store, store', d)
  <2> HIDE DEF s
  <2> QED BY <1>2, <1>3, StoreTo
<1>5. ASSUME NEW m \in Messages, store[d][m] > 0 PROVE store'[d][m] # 0
  BY <1>1, <1>4, <1>5
<1> QED BY <1>4, <1>5 DEF StoreKeeps

LEMMA Pushed ==
    ASSUME IInv, Grown, NEW d \in Devices, NEW q, NEW r, Ours(r, made'), PushRoster(d, q, r),
           \A p \in DOMAIN q : IsItem(q[p], made')
    PROVE  QueueInv'
<1> DEFINE i == RosterItem(d, pushes[d] + 1, r)
<1>1. IsItem(i, made')
  BY DEF RosterItem, IsItem
<1> HIDE DEF i
<1>2. \A p \in DOMAIN Queued(q, i) : IsItem(Queued(q, i)[p], made')
  BY <1>1, QueuedItems
<1>3. outbox' = [outbox EXCEPT ![d] = Queued(q, i)]
  BY DEF PushRoster, i
<1> QED BY <1>2, <1>3, QueueTo

LEMMA WithoutAreItems ==
    ASSUME IInv, Grown, NEW d \in Devices, NEW cs
    PROVE  \A p \in DOMAIN WithoutChats(outbox[d], cs) : IsItem(WithoutChats(outbox[d], cs)[p], made')
<1>1. \A p \in DOMAIN outbox[d] : IsItem(outbox[d][p], made')
  BY OursGrows DEF IInv, QueueInv, Grown
<1> QED BY <1>1, WithoutItems

\* A roster changed by the user.
LEMMA Changed ==
    ASSUME IInv, AccountConstants, NEW d \in Devices, NEW r, Grown, Change(d, r),
           Ours(r, made'), RosterKeeps(known[d], r)
    PROVE  IInv' /\ Keeps
<1> DEFINE out == known[d].chats \ r.chats
<1>1. KnownInv' /\ known'[d] = r /\ Others(known, known', d)
  BY KnownTo DEF Change
<1>2. SavedInv'
  <2>1. saved' = [saved EXCEPT ![d] = [known |-> known'[d], last |-> last'[d], applied |-> applied'[d]]]
    BY DEF Change, SaveAll
  <2> QED BY <1>1, <2>1, AllSaved
<1>3. LogInv'
  BY LogStays DEF Change, relayVars
<1>4. QueueInv'
  <2>1. PushRoster(d, WithoutChats(outbox[d], out), r)
    BY DEF Change
  <2> HIDE DEF out
  <2> QED BY <2>1, WithoutAreItems, Pushed
<1>5. UnsentInv' /\ SyncInv' /\ ReadingInv'
  BY UnsentStays, SyncStays, ReadingStays DEF Change
<1>6. StoreInv' /\ Others(store, store', d) /\ StoreKeeps(d)
  <2>1. store' = [store EXCEPT ![d] = Kept(@, out)]
    BY DEF Change, DropChats
  <2>2. out \cap known'[d].chats = {}
    BY <1>1
  <2> HIDE DEF out
  <2> QED BY <2>1, <2>2, Dropped
<1>7. Keeps
  BY <1>1, <1>6, KeepsTo
<1> QED BY <1>1, <1>2, <1>3, <1>4, <1>5, <1>6, <1>7 DEF IInv

\* A blob applied.
LEMMA RosterApplied ==
    ASSUME IInv, AccountConstants, NEW d \in Devices, Grown, NEW b, IsItem(b, made), ApplyRoster(d, b)
    PROVE  /\ KnownInv' /\ QueueInv' /\ StoreInv'
           /\ Others(known, known', d) /\ Others(store, store', d)
           /\ RosterKeeps(known[d], known'[d]) /\ StoreKeeps(d)
<1> DEFINE g   == Merged(known[d], b.roster)
           out == known[d].chats \ g.chats
           q   == WithoutChats(outbox[d], out)
<1>1. Ours(known[d], made) /\ Ours(b.roster, made)
  BY DEF IInv, KnownInv, IsItem
<1>2. Ours(g, made) /\ RosterKeeps(known[d], g)
  BY <1>1, MergedIsOurs
<1>3. Ours(g, made')
  BY <1>2, OursGrows DEF Grown
<1>4. known' = [known EXCEPT ![d] = g] /\ DropChats(d, out)
  BY DEF ApplyRoster
<1>5. PushRoster(d, q, g) \/ outbox' = [outbox EXCEPT ![d] = q]
  BY DEF ApplyRoster
<1> HIDE DEF g
<1>6. KnownInv' /\ known'[d] = g /\ Others(known, known', d)
  BY <1>3, <1>4, KnownTo
<1>7. \A p \in DOMAIN q : IsItem(q[p], made')
  BY WithoutAreItems
<1>8. out \cap known'[d].chats = {}
  BY <1>6
<1> HIDE DEF q, out
<1>9. QueueInv'
  BY <1>3, <1>5, <1>7, Pushed, QueueTo
<1>10. StoreInv' /\ Others(store, store', d) /\ StoreKeeps(d)
  BY <1>4, <1>8, Dropped DEF DropChats
<1> QED BY <1>2, <1>6, <1>9, <1>10

LEMMA ChatApplied ==
    ASSUME IInv, AccountConstants, NEW d \in Devices, Grown, NEW b, IsItem(b, made), b.kind = "chat",
           ApplyChat(d, b)
    PROVE  /\ KnownInv' /\ QueueInv' /\ StoreInv'
           /\ Others(known, known', d) /\ Others(store, store', d)
           /\ RosterKeeps(known[d], known'[d]) /\ StoreKeeps(d)
           /\ Close(saved[d].known, known'[d])
<1> DEFINE c == ChatOf[b.m]
           r == WithChat(known[d], c)
<1>1. b.m \in Messages /\ c \in Chats \cap made /\ b.v \in 1..MaxVersion
  BY DEF IsItem, OfChat, AccountConstants
<1>2. Ours(known[d], made) /\ Ours(saved[d].known, made) /\ Close(saved[d].known, known[d])
  BY DEF IInv, KnownInv, SavedInv
<1>3. known' = [known EXCEPT ![d] = r] /\ Upsert(d, c, [m \in {b.m} |-> b.v]) /\ outbox' = outbox
  BY DEF ApplyChat
<1> HIDE DEF c
<1>4. Ours(r, made) /\ RosterKeeps(known[d], r) /\ Close(saved[d].known, r)
  BY <1>1, <1>2, PlaceholderIsOurs
<1>5. Ours(r, made')
  BY <1>4, OursGrows DEF Grown
<1> HIDE DEF r
<1>6. KnownInv' /\ known'[d] = r /\ Others(known, known', d)
  BY <1>3, <1>5, KnownTo
<1>7. QueueInv'
  BY <1>3, QueueStays
<1>8. StoreInv' /\ Others(store, store', d) /\ StoreKeeps(d)
  <2>1. \A m \in DOMAIN [m \in {b.m} |-> b.v] : [n \in {b.m} |-> b.v][m] \in 1..MaxVersion
    BY <1>1
  <2> QED BY <1>3, <2>1, Upserted
<1> QED BY <1>4, <1>6, <1>7, <1>8

LEMMA BlobApplied ==
    ASSUME IInv, AccountConstants, NEW d \in Devices, Grown, NEW b, IsItem(b, made), ApplyBlob(d, b)
    PROVE  /\ KnownInv' /\ QueueInv' /\ StoreInv' /\ Keeps
           /\ Others(known, known', d)
           /\ Close(saved[d].known, known'[d]) \/ (b.kind = "roster" /\ b.id \notin applied[d])
<1>1. CASE b.id \in applied[d]
  <2>1. known' = known /\ store' = store /\ outbox' = outbox
    BY <1>1 DEF ApplyBlob, chatVars
  <2>2. KnownInv' /\ StoreInv'
    BY <2>1, OursGrows DEF IInv, Grown, KnownInv, StoreInv
  <2>3. Close(saved[d].known, known'[d])
    BY <2>1 DEF IInv, SavedInv
  <2> QED BY <2>1, <2>2, <2>3, QueueStays, KeepsAll
<1>2. CASE b.id \notin applied[d] /\ b.kind = "roster"
  <2>1. ApplyRoster(d, b)
    BY <1>2 DEF ApplyBlob
  <2> QED BY <1>2, <2>1, RosterApplied, KeepsTo
<1>3. CASE b.id \notin applied[d] /\ b.kind # "roster"
  <2>1. ApplyChat(d, b) /\ b.kind = "chat"
    BY <1>3 DEF ApplyBlob, IsItem
  <2> QED BY <2>1, ChatApplied, KeepsTo
<1> QED BY <1>1, <1>2, <1>3

----------------------------------------------------------------------------
(* The user's actions. *)

LEMMA RosterParts ==
    ASSUME NEW k, NEW M, Ours(k, M)
    PROVE  /\ k.bots \in SUBSET Bots /\ k.chats \in SUBSET Chats /\ k.deleted \in SUBSET Entries
           /\ k.members \in [Chats -> SUBSET Bots]
           /\ k = [bots |-> k.bots, chats |-> k.chats, members |-> k.members, deleted |-> k.deleted]
           /\ k.bots \subseteq M /\ k.chats \subseteq M /\ k.deleted \subseteq M
           /\ k.bots \cap k.deleted = {}
           /\ \A c \in Chats : /\ k.members[c] \subseteq k.bots
                               /\ c \notin k.chats \/ c \in k.deleted => k.members[c] = {}
BY DEF Ours, Rosters, Sound

LEMMA CreateBotSafe ==
    ASSUME IInv, AccountConstants, NEW d \in Devices, NEW b \in Bots, CreateBot(d, b)
    PROVE  IInv' /\ Keeps
<1> DEFINE k == known[d]
           c == DmOf[b]
           r == [k EXCEPT !.bots = @ \cup {b}, !.chats = @ \cup {DmOf[b]}, !.members[DmOf[b]] = {b}]
<1>1. Ours(k, made)
  BY DEF IInv, KnownInv
<1>2. c \in Chats /\ b \notin made /\ c \notin made /\ made' = made \cup {b, c} /\ Bots \cap Chats = {}
  BY DEF CreateBot, AccountConstants
<1>3. Grown
  BY <1>2 DEF Grown
<1>4. Change(d, r)
  BY DEF CreateBot
<1> HIDE DEF k
<1> DEFINE ms == [k.members EXCEPT ![c] = {b}]
<1>5. /\ r.bots = k.bots \cup {b} /\ r.chats = k.chats \cup {c} /\ r.deleted = k.deleted /\ r.members = ms
      /\ r = [bots |-> r.bots, chats |-> r.chats, members |-> r.members, deleted |-> r.deleted]
  <2>1. k = [bots |-> k.bots, chats |-> k.chats, members |-> k.members, deleted |-> k.deleted]
    BY <1>1, RosterParts
  <2>2. r.bots = k.bots \cup {b} /\ r.chats = k.chats \cup {c} /\ r.deleted = k.deleted /\ r.members = ms
    BY <2>1
  <2>3. DOMAIN k = {"bots", "chats", "members", "deleted"}
    BY <2>1
  <2>4. r = [x \in {"bots", "chats", "members", "deleted"} |-> r[x]]
    BY <2>3
  <2> HIDE DEF r, ms
  <2> QED BY <2>2, <2>4
<1> HIDE DEF r, c
<1>6. r \in Rosters
  BY <1>1, <1>2, <1>5, RosterParts DEF Rosters
<1>7. Sound(r)
  <2>1. r.bots \cap r.deleted = {}
    BY <1>1, <1>2, <1>5, RosterParts
  <2>2. \A e \in Chats : r.members[e] = IF e = c THEN {b} ELSE k.members[e]
    BY <1>1, <1>2, <1>5, RosterParts
  <2>3. c \in r.chats /\ c \notin r.deleted /\ {b} \subseteq r.bots /\ k.bots \subseteq r.bots /\ k.chats \subseteq r.chats
    BY <1>1, <1>2, <1>5, RosterParts
  <2> QED BY <1>1, <1>5, <2>1, <2>2, <2>3, RosterParts DEF Sound
<1>8. Ours(r, made')
  BY <1>1, <1>2, <1>5, <1>6, <1>7, RosterParts DEF Ours
<1>9. RosterKeeps(k, r)
  BY <1>5 DEF RosterKeeps
<1> QED BY <1>3, <1>4, <1>8, <1>9, Changed DEF k

LEMMA CreateGroupSafe ==
    ASSUME IInv, AccountConstants, NEW d \in Devices, NEW c \in Chats, NEW bs \in SUBSET Bots,
           CreateGroup(d, c, bs)
    PROVE  IInv' /\ Keeps
<1> DEFINE k == known[d]
           r == [k EXCEPT !.chats = @ \cup {c}, !.members[c] = bs]
<1>1. Ours(k, made)
  BY DEF IInv, KnownInv
<1>2. c \notin made /\ made' = made \cup {c} /\ bs \subseteq k.bots
  BY DEF CreateGroup
<1>3. Grown
  BY <1>2 DEF Grown
<1>4. Change(d, r)
  BY DEF CreateGroup
<1> HIDE DEF k
<1> DEFINE ms == [k.members EXCEPT ![c] = bs]
<1>5. /\ r.bots = k.bots /\ r.chats = k.chats \cup {c} /\ r.deleted = k.deleted /\ r.members = ms
      /\ r = [bots |-> r.bots, chats |-> r.chats, members |-> r.members, deleted |-> r.deleted]
  <2>1. k = [bots |-> k.bots, chats |-> k.chats, members |-> k.members, deleted |-> k.deleted]
    BY <1>1, RosterParts
  <2>2. r.bots = k.bots /\ r.chats = k.chats \cup {c} /\ r.deleted = k.deleted /\ r.members = ms
    BY <2>1
  <2>3. DOMAIN k = {"bots", "chats", "members", "deleted"}
    BY <2>1
  <2>4. r = [x \in {"bots", "chats", "members", "deleted"} |-> r[x]]
    BY <2>3
  <2> HIDE DEF r, ms
  <2> QED BY <2>2, <2>4
<1> HIDE DEF r
<1>6. r \in Rosters
  BY <1>1, <1>5, RosterParts DEF Rosters
<1>7. Sound(r)
  <2>1. \A e \in Chats : r.members[e] = IF e = c THEN bs ELSE k.members[e]
    BY <1>1, <1>5, RosterParts
  <2>2. c \in r.chats /\ c \notin r.deleted /\ k.chats \subseteq r.chats
    BY <1>1, <1>2, <1>5, RosterParts
  <2> QED BY <1>1, <1>2, <1>5, <2>1, <2>2, RosterParts DEF Sound
<1>8. Ours(r, made')
  BY <1>1, <1>2, <1>5, <1>6, <1>7, RosterParts DEF Ours
<1>9. RosterKeeps(k, r)
  BY <1>5 DEF RosterKeeps
<1> QED BY <1>3, <1>4, <1>8, <1>9, Changed DEF k

LEMMA DeleteChatSafe ==
    ASSUME IInv, AccountConstants, NEW d \in Devices, NEW c \in Chats, DeleteChat(d, c)
    PROVE  IInv' /\ Keeps
<1> DEFINE k == known[d]
           r == [k EXCEPT !.chats = @ \ {c}, !.members[c] = {}, !.deleted = @ \cup {c}]
<1>1. Ours(k, made)
  BY DEF IInv, KnownInv
<1>2. c \in k.chats /\ made' = made /\ Bots \cap Chats = {}
  BY DEF DeleteChat, AccountConstants
<1>3. Grown
  BY <1>2 DEF Grown
<1>4. Change(d, r)
  BY DEF DeleteChat
<1> HIDE DEF k
<1> DEFINE ms == [k.members EXCEPT ![c] = {}]
<1>5. /\ r.bots = k.bots /\ r.chats = k.chats \ {c} /\ r.deleted = k.deleted \cup {c} /\ r.members = ms
      /\ r = [bots |-> r.bots, chats |-> r.chats, members |-> r.members, deleted |-> r.deleted]
  <2>1. k = [bots |-> k.bots, chats |-> k.chats, members |-> k.members, deleted |-> k.deleted]
    BY <1>1, RosterParts
  <2>2. r.bots = k.bots /\ r.chats = k.chats \ {c} /\ r.deleted = k.deleted \cup {c} /\ r.members = ms
    BY <2>1
  <2>3. DOMAIN k = {"bots", "chats", "members", "deleted"}
    BY <2>1
  <2>4. r = [x \in {"bots", "chats", "members", "deleted"} |-> r[x]]
    BY <2>3
  <2> HIDE DEF r, ms
  <2> QED BY <2>2, <2>4
<1> HIDE DEF r
<1>6. r \in Rosters
  BY <1>1, <1>5, RosterParts DEF Rosters, Entries
<1>7. Sound(r)
  <2>1. \A e \in Chats : r.members[e] = IF e = c THEN {} ELSE k.members[e]
    BY <1>1, <1>5, RosterParts
  <2>2. r.bots \cap r.deleted = {}
    BY <1>1, <1>2, <1>5, RosterParts
  <2> QED BY <1>1, <1>2, <1>5, <2>1, <2>2, RosterParts DEF Sound
<1>8. Ours(r, made')
  BY <1>1, <1>2, <1>5, <1>6, <1>7, RosterParts DEF Ours
<1>9. RosterKeeps(k, r)
  BY <1>5 DEF RosterKeeps
<1> QED BY <1>3, <1>4, <1>8, <1>9, Changed DEF k

LEMMA DeleteBotSafe ==
    ASSUME IInv, AccountConstants, NEW d \in Devices, NEW b \in Bots, DeleteBot(d, b)
    PROVE  IInv' /\ Keeps
<1> DEFINE k   == known[d]
           its == {c \in known[d].chats : b \in known[d].members[c]}
           out == {c \in its : c = DmOf[b] \/ known[d].members[c] = {b}}
           r   == [bots    |-> known[d].bots \ {b},
                   chats   |-> known[d].chats \ out,
                   members |-> [c \in Chats |-> IF c \in out THEN {} ELSE known[d].members[c] \ {b}],
                   deleted |-> known[d].deleted \cup {b} \cup out]
<1>1. Ours(k, made)
  BY DEF IInv, KnownInv
<1>2. b \in k.bots /\ made' = made /\ Change(d, r)
  BY DEF DeleteBot
<1>3. Grown
  BY <1>2 DEF Grown
<1>4. out \subseteq k.chats /\ Bots \cap Chats = {}
  BY DEF AccountConstants
<1>5. /\ r.bots = k.bots \ {b} /\ r.chats = k.chats \ out /\ r.deleted = k.deleted \cup {b} \cup out
      /\ r.members = [c \in Chats |-> IF c \in out THEN {} ELSE k.members[c] \ {b}]
      /\ r = [bots |-> r.bots, chats |-> r.chats, members |-> r.members, deleted |-> r.deleted]
  OBVIOUS
<1> HIDE DEF r, out, k
<1>6. r \in Rosters
  BY <1>1, <1>4, <1>5, RosterParts DEF Rosters, Entries
<1>7. Sound(r)
  <2>1. \A e \in Chats : r.members[e] = IF e \in out THEN {} ELSE k.members[e] \ {b}
    BY <1>5
  <2>2. r.bots \cap r.deleted = {}
    BY <1>1, <1>4, <1>5, RosterParts
  <2>3. \A e \in Chats : e # b
    BY <1>4
  <2>4. \A e \in Chats : /\ k.members[e] \ {b} \subseteq r.bots
                         /\ (e \notin r.chats \/ e \in r.deleted) /\ e \notin out => k.members[e] = {}
    BY <1>1, <1>5, <2>3, RosterParts
  <2> QED BY <2>1, <2>2, <2>4 DEF Sound
<1>8. Ours(r, made')
  BY <1>1, <1>2, <1>4, <1>5, <1>6, <1>7, RosterParts DEF Ours
<1>9. RosterKeeps(k, r)
  BY <1>5 DEF RosterKeeps
<1> QED BY <1>2, <1>3, <1>8, <1>9, Changed DEF k

LEMMA WriteSafe ==
    ASSUME IInv, AccountConstants, NEW d \in Devices, NEW m \in Messages, Write(d, m)
    PROVE  IInv' /\ Keeps
<1> DEFINE u == <<m, store[d][m] + 1>>
<1>1. /\ made' = made \cup {m} /\ ChatOf[m] \in known[d].chats /\ store[d][m] < MaxVersion
      /\ known' = known /\ saved' = saved /\ outbox' = outbox /\ sync' = sync /\ reading' = reading
      /\ UNCHANGED <<log, head, gone>> /\ unsent' = [unsent EXCEPT ![d] = u]
  BY DEF Write, memoryVars, relayVars
<1>2. Grown
  BY <1>1 DEF Grown
<1>3. store[d][m] \in 0..MaxVersion /\ MaxVersion \in Nat
  BY DEF IInv, StoreInv, AccountConstants
<1>4. store[d][m] + 1 \in 1..MaxVersion
  BY <1>1, <1>3
<1>5. ChatOf[m] \in made'
  BY <1>1 DEF IInv, KnownInv, Ours
<1>6. UnsentInv'
  <2>1. OfChat(u[1], u[2], made')
    BY <1>4, <1>5 DEF OfChat
  <2> HIDE DEF u
  <2> QED BY <1>1, <1>2, <2>1, UnsentTo
<1>7. StoreInv' /\ Others(store, store', d) /\ StoreKeeps(d)
  <2> DEFINE v == [k \in {m} |-> store[d][k] + 1]
  <2>1. Upsert(d, ChatOf[m], v)
    BY DEF Write
  <2>2. \A k \in DOMAIN v : v[k] \in 1..MaxVersion
    BY <1>4
  <2> HIDE DEF v
  <2> QED BY <2>1, <2>2, Upserted
<1>8. Keeps
  <2>1. Others(known, known', d) /\ RosterKeeps(known[d], known'[d])
    BY <1>1 DEF Others, RosterKeeps
  <2> QED BY <1>7, <2>1, KeepsTo
<1> QED BY <1>1, <1>2, <1>6, <1>7, <1>8, RostersStay, LogStays, QueueStays, SyncStays, ReadingStays DEF IInv

----------------------------------------------------------------------------
(* The session's actions. *)

LEMMA QueueWriteSafe ==
    ASSUME IInv, AccountConstants, NEW d \in Devices, QueueWrite(d)
    PROVE  IInv' /\ Keeps
<1> DEFINE m == unsent[d][1]
           v == unsent[d][2]
           i == ChatItem(m, v)
<1>1. /\ unsent[d] # <<>> /\ unsent' = [unsent EXCEPT ![d] = <<>>] /\ made' = made
      /\ sync' = sync /\ reading' = reading /\ UNCHANGED <<log, head, gone>>
  BY DEF QueueWrite, boundVars, relayVars
<1>2. Grown
  BY <1>1 DEF Grown
<1>3. OfChat(m, v, made)
  BY <1>1 DEF IInv, UnsentInv
<1>4. UnsentInv'
  BY <1>1, <1>2, UnsentTo
<1>5. LogInv' /\ SyncInv' /\ ReadingInv'
  BY <1>1, <1>2, LogStays, SyncStays, ReadingStays
<1>6. CASE ChatOf[m] \in known[d].chats
  <2>1. /\ outbox' = [outbox EXCEPT ![d] = Queued(@, i)] /\ known' = known /\ store' = store
        /\ SaveQueueing(d, i.id)
    BY <1>6 DEF QueueWrite, chatVars
  <2>2. QueueInv'
    <3>1. IsItem(i, made')
      <4>1. Ours(NoRoster, made')
        BY DEF Ours, NoRoster, Rosters, Sound
      <4> QED BY <1>1, <1>3, <4>1 DEF IsItem, ChatItem
    <3>2. \A p \in DOMAIN outbox[d] : IsItem(outbox[d][p], made')
      BY <1>1 DEF IInv, QueueInv
    <3> HIDE DEF i
    <3>3. \A p \in DOMAIN Queued(outbox[d], i) : IsItem(Queued(outbox[d], i)[p], made')
      BY <3>1, <3>2, QueuedItems
    <3> QED BY <1>2, <2>1, <3>3, QueueTo
  <2>3. KnownInv' /\ StoreInv' /\ Keeps /\ Others(known, known', d)
    BY <1>1, <2>1, KeepsAll DEF IInv, KnownInv, StoreInv
  <2>4. SavedInv'
    <3>1. saved' = [saved EXCEPT ![d] = [known |-> known'[d], last |-> last'[d],
                                         applied |-> saved[d].applied \cup {i.id}]]
      BY <2>1 DEF SaveQueueing
    <3> HIDE DEF i
    <3> QED BY <1>2, <2>3, <3>1, AllSaved
  <2> QED BY <1>4, <1>5, <2>2, <2>3, <2>4 DEF IInv
<1>7. CASE ChatOf[m] \notin known[d].chats
  <2>1. /\ store' = [store EXCEPT ![d][m] = 0] /\ outbox' = outbox /\ known' = known /\ saved' = saved
    BY <1>7 DEF QueueWrite, memoryVars
  <2>2. KnownInv' /\ SavedInv' /\ QueueInv'
    BY <1>2, <2>1, RostersStay, QueueStays
  <2>3. StoreInv' /\ Others(store, store', d) /\ StoreKeeps(d)
    <3>1. store \in [Devices -> [Messages -> 0..MaxVersion]] /\ m \in Messages /\ MaxVersion \in Nat
      BY <1>3 DEF IInv, StoreInv, OfChat, AccountConstants
    <3>2. StoreInv' /\ Others(store, store', d)
      BY <2>1, <3>1 DEF StoreInv, Others
    <3>3. ASSUME NEW n \in Messages, store[d][n] > 0, store'[d][n] = 0 PROVE n = m
      BY <2>1, <3>1, <3>3
    <3> QED BY <1>7, <2>1, <3>2, <3>3 DEF StoreKeeps
  <2>4. Keeps
    <3>1. Others(known, known', d) /\ RosterKeeps(known[d], known'[d])
      BY <2>1 DEF Others, RosterKeeps
    <3> QED BY <2>3, <3>1, KeepsTo
  <2> QED BY <1>4, <1>5, <2>2, <2>3, <2>4 DEF IInv
<1> QED BY <1>6, <1>7

LEMMA PutSafe ==
    ASSUME IInv, AccountConstants, NEW d \in Devices, Put(d)
    PROVE  IInv' /\ Keeps
<1>1. PICK p \in DOMAIN outbox[d] :
         /\ InsertBlob(outbox[d][p])
         /\ sync' = [sync EXCEPT ![d] = [Idle EXCEPT !.at = "sent", !.id = outbox[d][p].id]]
  BY DEF Put
<1> DEFINE i == outbox[d][p]
<1>2. /\ made' = made /\ gone' = gone /\ known' = known /\ saved' = saved /\ outbox' = outbox
      /\ unsent' = unsent /\ store' = store /\ reading' = reading
  BY DEF Put, boundVars, memoryVars, chatVars
<1>3. Grown
  BY <1>2 DEF Grown
<1>4. IsItem(i, made)
  BY DEF IInv, QueueInv
<1>5. SyncInv'
  <2> DEFINE s == [Idle EXCEPT !.at = "sent", !.id = i.id]
  <2>1. sync' = [sync EXCEPT ![d] = s]
    BY <1>1
  <2>2. IsSync(s) /\ s.page = {} /\ s.todo = {}
    BY IdleSession, SyncRecord
  <2> HIDE DEF s
  <2> QED BY <1>3, <2>1, <2>2, SyncEmpty
<1> HIDE DEF i
<1>6. LogInv'
  <2>1. InsertBlob(i)
    BY <1>1 DEF i
  <2>2. CASE Stored(i) \/ Refused(i)
    BY <1>2, <1>3, <2>1, <2>2, LogStays DEF InsertBlob
  <2>3. CASE ~Stored(i) /\ ~Refused(i)
    <3>1. log' = (log \ Superseded(i)) \cup {Blob(i, head + 1)} /\ head' = head + 1
      BY <2>1, <2>3 DEF InsertBlob
    <3>2. i.kind = "chat" => ChatOf[i.m] \notin gone
      BY <2>3 DEF Refused
    <3>3. /\ IsItem(Blob(i, head + 1), made) /\ Blob(i, head + 1).seq = head + 1
          /\ Blob(i, head + 1).kind = i.kind /\ Blob(i, head + 1).m = i.m
      BY <1>4 DEF IsItem, Blob
    <3>4. head \in Nat /\ \A b \in log : IsItem(b, made) /\ b.seq \in 1..head
                                         /\ (b.kind = "chat" => ChatOf[b.m] \notin gone)
      BY DEF IInv, LogInv
    <3> HIDE DEF i
    <3>5. ASSUME NEW b \in log' PROVE /\ IsItem(b, made') /\ b.seq \in 1..head'
                                      /\ b.kind = "chat" => ChatOf[b.m] \notin gone'
      <4>1. CASE b \in log
        BY <1>2, <3>1, <3>4, <4>1
      <4>2. CASE b = Blob(i, head + 1)
        BY <1>2, <3>1, <3>2, <3>3, <3>4, <4>2
      <4> QED BY <3>1, <4>1, <4>2
    <3> QED BY <3>1, <3>4, <3>5 DEF LogInv
  <2> QED BY <2>2, <2>3
<1> QED BY <1>2, <1>3, <1>5, <1>6, RostersStay, QueueStays, UnsentStays, ReadingStays, KeepsAll
        DEF IInv, StoreInv

LEMMA AnsweredSafe ==
    ASSUME IInv, AccountConstants, NEW d \in Devices, Answered(d)
    PROVE  IInv' /\ Keeps
<1> DEFINE q == [p \in {q \in DOMAIN outbox[d] : outbox[d][q].id # sync[d].id} |-> outbox[d][p]]
<1>1. /\ made' = made /\ UNCHANGED <<log, head, gone>> /\ known' = known /\ store' = store
      /\ unsent' = unsent /\ reading' = reading /\ sync' = [sync EXCEPT ![d] = Idle]
      /\ saved' = [saved EXCEPT ![d].last = last[d]] /\ outbox' = [outbox EXCEPT ![d] = q]
  BY DEF Answered, boundVars, relayVars, chatVars
<1>2. Grown
  BY <1>1 DEF Grown
<1>3. SyncInv'
  BY <1>1, <1>2, IdleSession, SyncEmpty
<1>4. QueueInv'
  <2>1. \A p \in DOMAIN q : IsItem(q[p], made')
    BY <1>1 DEF IInv, QueueInv
  <2> HIDE DEF q
  <2> QED BY <1>1, <1>2, <2>1, QueueTo
<1>5. KnownInv' /\ StoreInv' /\ Keeps /\ Others(known, known', d)
  BY <1>1, KeepsAll DEF IInv, KnownInv, StoreInv
<1>6. SavedInv'
  <2> DEFINE s == [saved[d] EXCEPT !.last = last[d]]
  <2>1. IsSaved(saved[d]) /\ Ours(saved[d].known, made) /\ Close(saved[d].known, known[d])
    BY DEF IInv, SavedInv
  <2>2. s = [known |-> saved[d].known, last |-> last[d], applied |-> saved[d].applied]
    BY <2>1 DEF IsSaved
  <2>3. IsSaved(s) /\ s.known = saved[d].known
    BY <2>2 DEF IsSaved
  <2>4. saved' = [saved EXCEPT ![d] = s]
    BY <1>1
  <2> HIDE DEF s
  <2> QED BY <1>1, <1>2, <1>5, <2>1, <2>3, <2>4, SavedTo
<1> QED BY <1>1, <1>2, <1>3, <1>4, <1>5, <1>6, LogStays, UnsentStays, ReadingStays DEF IInv

LEMMA DeleteGroupSafe ==
    ASSUME IInv, AccountConstants, NEW d \in Devices, NEW c \in Chats, DeleteGroup(d, c)
    PROVE  IInv' /\ Keeps
<1>1. /\ made' = made /\ head' = head /\ known' = known /\ store' = store /\ outbox' = outbox
      /\ unsent' = unsent /\ reading' = reading /\ sync' = sync /\ gone' = gone \cup {c}
      /\ log' = {b \in log : b.kind = "roster" \/ ChatOf[b.m] # c}
  BY DEF DeleteGroup, chatVars, memoryVars
<1>2. Grown
  BY <1>1 DEF Grown
<1>3. SavedInv'
  <2>1. saved' = saved \/ saved' = [saved EXCEPT ![d] = [known |-> known'[d], last |-> last'[d], applied |-> applied'[d]]]
    BY DEF DeleteGroup, SaveAll, memoryVars
  <2>2. KnownInv' /\ Others(known, known', d)
    BY <1>1 DEF IInv, KnownInv, Others
  <2> QED BY <1>1, <1>2, <2>1, <2>2, AllSaved, RostersStay
<1>4. LogInv'
  <2>1. \A b \in log : IsItem(b, made) /\ b.seq \in 1..head /\ (b.kind = "chat" => ChatOf[b.m] \notin gone)
    BY DEF IInv, LogInv
  <2>2. head \in Nat
    BY DEF IInv, LogInv
  <2> QED BY <1>1, <2>1, <2>2 DEF LogInv
<1>5. KnownInv' /\ StoreInv' /\ Keeps
  BY <1>1, KeepsAll DEF IInv, KnownInv, StoreInv
<1> QED BY <1>1, <1>2, <1>3, <1>4, <1>5, QueueStays, SyncStays, UnsentStays, ReadingStays DEF IInv

LEMMA FetchSafe ==
    ASSUME IInv, AccountConstants, NEW d \in Devices, Fetch(d)
    PROVE  IInv' /\ Keeps
<1> DEFINE s == [Idle EXCEPT !.at = "page", !.page = Page(d)]
<1>1. /\ made' = made /\ UNCHANGED <<log, head, gone>> /\ known' = known /\ saved' = saved
      /\ store' = store /\ outbox' = outbox /\ unsent' = unsent /\ reading' = reading
      /\ sync' = [sync EXCEPT ![d] = s]
  BY DEF Fetch, boundVars, relayVars, chatVars, memoryVars
<1>2. Grown
  BY <1>1 DEF Grown
<1>3. IsSync(s) /\ s.todo = {} /\ s.page = Page(d)
  BY IdleSession, SyncRecord
<1> HIDE DEF s
<1>4. IsSync(s) /\ s.todo = {} /\ s.page \subseteq log
  BY <1>3 DEF Page, After
<1>5. \A b \in s.page : IsItem(b, made')
  BY <1>1, <1>4 DEF IInv, LogInv
<1>6. SyncInv'
  BY <1>1, <1>2, <1>4, <1>5, SyncTo
<1> QED BY <1>1, <1>2, <1>6, RostersStay, LogStays, QueueStays, UnsentStays, ReadingStays, KeepsAll
        DEF IInv, StoreInv

LEMMA ApplySafe ==
    ASSUME IInv, AccountConstants, NEW d \in Devices, Apply(d)
    PROVE  IInv' /\ Keeps
<1>1. PICK b \in sync[d].page :
        LET rest == sync[d].page \ {b}
        IN /\ ApplyBlob(d, b)
           /\ sync' = [sync EXCEPT ![d] = IF rest = {} THEN [Idle EXCEPT !.at = "pull"]
                                          ELSE [@ EXCEPT !.page = rest]]
           /\ IF rest = {} THEN SaveAll(d)
              ELSE IF b.kind = "roster" /\ b.id \notin applied[d]
              THEN saved' = [saved EXCEPT ![d] =
                               [known |-> known'[d], last |-> last[d], applied |-> applied'[d]]]
              ELSE UNCHANGED saved
  BY DEF Apply
<1> DEFINE rest == sync[d].page \ {b}
<1>2. made' = made /\ UNCHANGED <<log, head, gone>> /\ unsent' = unsent /\ reading' = reading
  BY DEF Apply, boundVars, relayVars
<1>3. Grown
  BY <1>2 DEF Grown
<1>4. /\ IsSync(sync[d]) /\ sync[d].todo \subseteq made \cap Chats
      /\ \A o \in sync[d].page : IsItem(o, made)
  BY DEF IInv, SyncInv
<1>5. /\ KnownInv' /\ QueueInv' /\ StoreInv' /\ Keeps /\ Others(known, known', d)
      /\ Close(saved[d].known, known'[d]) \/ (b.kind = "roster" /\ b.id \notin applied[d])
  BY <1>1, <1>3, <1>4, BlobApplied
<1>6. SavedInv'
  <2>1. \/ \E l : saved' = [saved EXCEPT ![d] = [known |-> known'[d], last |-> l, applied |-> applied'[d]]]
        \/ saved' = saved /\ ~(b.kind = "roster" /\ b.id \notin applied[d])
    BY <1>1 DEF SaveAll
  <2>2. CASE \E l : saved' = [saved EXCEPT ![d] = [known |-> known'[d], last |-> l, applied |-> applied'[d]]]
    BY <1>3, <1>5, <2>2, AllSaved
  <2>3. CASE saved' = saved /\ ~(b.kind = "roster" /\ b.id \notin applied[d])
    BY <1>3, <1>5, <2>3, SavedLags
  <2> QED BY <2>1, <2>2, <2>3
<1>7. SyncInv'
  <2>1. CASE rest = {}
    <3> DEFINE s == [Idle EXCEPT !.at = "pull"]
    <3>1. sync' = [sync EXCEPT ![d] = s]
      BY <1>1, <2>1
    <3>2. IsSync(s) /\ s.page = {} /\ s.todo = {}
      BY IdleSession, SyncRecord
    <3> HIDE DEF s
    <3> QED BY <1>3, <3>1, <3>2, SyncEmpty
  <2>2. CASE rest # {}
    <3> DEFINE s == [sync[d] EXCEPT !.page = rest]
    <3>1. sync' = [sync EXCEPT ![d] = s]
      BY <1>1, <2>2
    <3>3. IsSync(s) /\ s.todo = sync[d].todo /\ s.page = rest
      BY <1>4, SessionFields, SyncRecord
    <3> HIDE DEF s
    <3> QED BY <1>2, <1>3, <1>4, <3>1, <3>3, SyncTo
  <2> QED BY <2>1, <2>2
<1> QED BY <1>2, <1>3, <1>5, <1>6, <1>7, LogStays, UnsentStays, ReadingStays DEF IInv

LEMMA CaughtUpSafe ==
    ASSUME IInv, AccountConstants, NEW d \in Devices, CaughtUp(d) \/ Cut(d)
    PROVE  IInv' /\ Keeps
<1>1. /\ made' = made /\ UNCHANGED <<log, head, gone>> /\ known' = known /\ saved' = saved
      /\ store' = store /\ outbox' = outbox /\ unsent' = unsent /\ reading' = reading
      /\ sync' = [sync EXCEPT ![d] = Idle]
  BY DEF CaughtUp, Cut, boundVars, relayVars, chatVars, memoryVars
<1>2. Grown
  BY <1>1 DEF Grown
<1>3. SyncInv'
  BY <1>1, <1>2, IdleSession, SyncEmpty
<1> QED BY <1>1, <1>2, <1>3, RostersStay, LogStays, QueueStays, UnsentStays, ReadingStays, KeepsAll
        DEF IInv, StoreInv

LEMMA ReadRosterSafe ==
    ASSUME IInv, AccountConstants, NEW d \in Devices, ReadRoster(d)
    PROVE  IInv' /\ Keeps
<1> DEFINE from == IF sync[d].at = "first" THEN sync[d].since ELSE 0
           top  == IF sync[d].at = "first" THEN sync[d].head ELSE head
<1>1. made' = made /\ UNCHANGED <<log, head, gone>> /\ unsent' = unsent /\ reading' = reading
  BY DEF ReadRoster, boundVars, relayVars
<1>2. Grown
  BY <1>1 DEF Grown
<1>3. CASE RosterAfter(from) = {}
  <2> DEFINE s == [Idle EXCEPT !.at = "first", !.head = top]
  <2>1. /\ sync' = [sync EXCEPT ![d] = s]
        /\ known' = known /\ saved' = saved /\ store' = store /\ outbox' = outbox
    BY <1>3 DEF ReadRoster, chatVars
  <2>2. IsSync(s) /\ s.page = {} /\ s.todo = {}
    BY IdleSession, SyncRecord
  <2> HIDE DEF s
  <2>3. SyncInv'
    BY <1>2, <2>1, <2>2, SyncEmpty
  <2> QED BY <1>1, <1>2, <2>1, <2>3, RostersStay, LogStays, QueueStays, UnsentStays, ReadingStays, KeepsAll
          DEF IInv, StoreInv
<1>4. CASE RosterAfter(from) # {}
  <2>1. PICK b \in RosterAfter(from) :
           /\ ApplyBlob(d, b)
           /\ saved' = [saved EXCEPT ![d] = [known |-> known'[d], last |-> last[d], applied |-> applied'[d]]]
           /\ sync' = [sync EXCEPT ![d] = [Idle EXCEPT !.at = "first", !.head = top, !.since = b.seq]]
    BY <1>4 DEF ReadRoster
  <2>2. IsItem(b, made)
    BY DEF RosterAfter, After, IInv, LogInv
  <2>3. KnownInv' /\ QueueInv' /\ StoreInv' /\ Keeps /\ Others(known, known', d)
    BY <1>2, <2>1, <2>2, BlobApplied
  <2>4. SavedInv'
    BY <1>2, <2>1, <2>3, AllSaved
  <2> DEFINE s == [Idle EXCEPT !.at = "first", !.head = top, !.since = b.seq]
  <2>5. IsSync(s) /\ s.page = {} /\ s.todo = {}
    BY IdleSession, SyncRecord
  <2>6. sync' = [sync EXCEPT ![d] = s]
    BY <2>1
  <2> HIDE DEF s
  <2>7. SyncInv'
    BY <1>2, <2>5, <2>6, SyncEmpty
  <2> QED BY <1>1, <1>2, <2>3, <2>4, <2>7, LogStays, UnsentStays, ReadingStays DEF IInv
<1> QED BY <1>3, <1>4

LEMMA RosterReadSafe ==
    ASSUME IInv, AccountConstants, NEW d \in Devices, RosterRead(d)
    PROVE  IInv' /\ Keeps
<1> DEFINE s == [sync[d] EXCEPT !.at = "chats", !.todo = known[d].chats]
<1>1. /\ made' = made /\ UNCHANGED <<log, head, gone>> /\ known' = known /\ saved' = saved
      /\ store' = store /\ outbox' = outbox /\ unsent' = unsent /\ reading' = reading
      /\ sync' = [sync EXCEPT ![d].at = "chats", ![d].todo = known[d].chats]
  BY DEF RosterRead, boundVars, relayVars, chatVars, memoryVars
<1>2. Grown
  BY <1>1 DEF Grown
<1>3. Each(sync) /\ IsSync(sync[d]) /\ \A b \in sync[d].page : IsItem(b, made)
  BY DEF IInv, SyncInv
<1>4. sync' = [sync EXCEPT ![d] = s]
  <2>1. DOMAIN sync = Devices
    BY <1>3 DEF Each
  <2> QED BY <1>1, <2>1
<1>5. IsSync(s) /\ s.todo = known[d].chats /\ s.page = sync[d].page
  BY <1>3, SessionFields, SyncRecord
<1>6. known[d].chats \subseteq made' \cap Chats
  BY <1>1, RosterParts DEF IInv, KnownInv
<1> HIDE DEF s
<1>7. SyncInv'
  BY <1>1, <1>2, <1>3, <1>4, <1>5, <1>6, SyncTo
<1> QED BY <1>1, <1>2, <1>7, RostersStay, LogStays, QueueStays, UnsentStays, ReadingStays, KeepsAll
        DEF IInv, StoreInv

LEMMA ReadChatSafe ==
    ASSUME IInv, AccountConstants, NEW d \in Devices, NEW c \in Chats, ReadChat(d, c)
    PROVE  IInv' /\ Keeps
<1> DEFINE new == {m \in GroupPage(c, 0, PageSize) : Latest(SlotOf(m)).id \notin applied[d]}
           version == [m \in new |-> Newest(m)]
           r == IF new = {} THEN known[d] ELSE WithChat(known[d], c)
           s == [sync[d] EXCEPT !.todo = @ \ {c}]
<1>1. /\ made' = made /\ UNCHANGED <<log, head, gone>> /\ saved' = saved /\ outbox' = outbox
      /\ unsent' = unsent /\ reading' = reading /\ c \in sync[d].todo
      /\ sync' = [sync EXCEPT ![d].todo = @ \ {c}] /\ Upsert(d, c, version)
  BY DEF ReadChat, boundVars, relayVars
<1>2. known' = [known EXCEPT ![d] = r]
  BY DEF ReadChat
<1>3. Grown
  BY <1>1 DEF Grown
<1>4. /\ Each(sync) /\ IsSync(sync[d]) /\ sync[d].todo \subseteq made \cap Chats
      /\ \A b \in sync[d].page : IsItem(b, made)
  BY DEF IInv, SyncInv
<1>5. Ours(known[d], made) /\ Ours(saved[d].known, made) /\ Close(saved[d].known, known[d])
  BY DEF IInv, KnownInv, SavedInv
<1>6. Ours(r, made) /\ RosterKeeps(known[d], r) /\ Close(saved[d].known, r)
  <2>1. RosterKeeps(known[d], known[d])
    BY DEF RosterKeeps
  <2>2. c \in Chats \cap made
    BY <1>1, <1>4
  <2> QED BY <1>5, <2>1, <2>2, PlaceholderIsOurs
<1>7. Ours(r, made')
  BY <1>1, <1>6
<1>8. SyncInv'
  <2>1. sync' = [sync EXCEPT ![d] = s]
    <3>1. DOMAIN sync = Devices
      BY <1>4 DEF Each
    <3> QED BY <1>1, <3>1
  <2>2. IsSync(s) /\ s.todo = sync[d].todo \ {c} /\ s.page = sync[d].page
    BY <1>4, SessionFields, SyncRecord
  <2> HIDE DEF s
  <2> QED BY <1>1, <1>3, <1>4, <2>1, <2>2, SyncTo
<1>9. StoreInv' /\ Others(store, store', d) /\ StoreKeeps(d)
  <2>1. ASSUME NEW m \in new PROVE Newest(m) \in 1..MaxVersion
    <3>1. SlotOf(m) # {}
      BY DEF GroupPage, Below, Uploaded
    <3> QED BY <3>1, NewestVersion DEF IInv, AccountConstants
  <2>2. \A m \in DOMAIN version : version[m] \in 1..MaxVersion
    BY <2>1
  <2> HIDE DEF version
  <2> QED BY <1>1, <2>2, Upserted
<1> HIDE DEF r
<1>10. KnownInv' /\ known'[d] = r /\ Others(known, known', d)
  BY <1>2, <1>3, <1>7, KnownTo
<1>11. SavedInv'
  BY <1>1, <1>3, <1>6, <1>10, SavedLags
<1>12. Keeps
  BY <1>6, <1>9, <1>10, KeepsTo
<1> QED BY <1>1, <1>3, <1>8, <1>9, <1>10, <1>11, <1>12, LogStays, QueueStays, UnsentStays, ReadingStays DEF IInv

LEMMA FirstSyncedSafe ==
    ASSUME IInv, AccountConstants, NEW d \in Devices, FirstSynced(d)
    PROVE  IInv' /\ Keeps
<1> DEFINE s == [Idle EXCEPT !.at = "pull"]
<1>1. /\ made' = made /\ UNCHANGED <<log, head, gone>> /\ known' = known /\ store' = store
      /\ outbox' = outbox /\ unsent' = unsent /\ reading' = reading
      /\ sync' = [sync EXCEPT ![d] = s]
      /\ saved' = [saved EXCEPT ![d] = [known |-> known'[d], last |-> last'[d], applied |-> applied'[d]]]
  BY DEF FirstSynced, boundVars, relayVars, chatVars, SaveAll
<1>2. Grown
  BY <1>1 DEF Grown
<1>3. IsSync(s) /\ s.page = {} /\ s.todo = {}
  BY IdleSession, SyncRecord
<1> HIDE DEF s
<1>4. SyncInv'
  BY <1>1, <1>2, <1>3, SyncEmpty
<1>5. KnownInv' /\ StoreInv' /\ Keeps /\ Others(known, known', d)
  BY <1>1, KeepsAll DEF IInv, KnownInv, StoreInv
<1>6. SavedInv'
  BY <1>1, <1>2, <1>5, AllSaved
<1> QED BY <1>1, <1>2, <1>4, <1>5, <1>6, LogStays, QueueStays, UnsentStays, ReadingStays DEF IInv

LEMMA ReadStepSafe ==
    ASSUME IInv, AccountConstants, NEW d \in Devices, ReadStep(d)
    PROVE  IInv' /\ Keeps
<1>1. /\ made' = made /\ UNCHANGED <<log, head, gone>> /\ known' = known /\ saved' = saved
      /\ outbox' = outbox /\ unsent' = unsent /\ sync' = sync
  BY DEF ReadStep, AskOlder, InsertOlder, MoveBefore, boundVars, relayVars, memoryVars, chatVars
<1>2. Grown
  BY <1>1 DEF Grown
<1>3. MaxVersion \in Nat /\ store \in [Devices -> [Messages -> 0..MaxVersion]]
  BY DEF IInv, StoreInv, AccountConstants
<1>4. /\ Each(reading) /\ \A e \in Devices : IsReading(reading[e])
      /\ \A e \in Devices : \A m \in DOMAIN reading[e].page : reading[e].page[m].v \in 0..MaxVersion
  BY DEF IInv, ReadingInv
<1> DEFINE ReadTo(g) == /\ reading' = [reading EXCEPT ![d] = g] /\ IsReading(g)
                        /\ \A m \in DOMAIN g.page : g.page[m].v \in 0..MaxVersion
<1>5. ASSUME NEW g, ReadTo(g) PROVE ReadingInv'
  <2>1. reading'[d] = g /\ Each(reading') /\ \A e \in Devices : e # d => reading'[e] = reading[e]
    BY <1>4, <1>5 DEF Each
  <2> QED BY <1>4, <1>5, <2>1 DEF ReadingInv
<1>6. (\E g : ReadTo(g)) /\ StoreInv' /\ Keeps
  <2>1. CASE \E c \in Chats : AskOlder(d, c)
    <3>1. PICK c \in Chats : AskOlder(d, c)
      BY <2>1
    <3> DEFINE page == [m \in GroupPage(c, before[d][c], OlderPage) |-> [v |-> Newest(m), place |-> Place(m)]]
               g == [at |-> "fetched", chat |-> c, before |-> Begins(c, before[d][c], OlderPage), page |-> page]
    <3>2. reading' = [reading EXCEPT ![d] = g] /\ store' = store
      BY <3>1 DEF AskOlder, chatVars
    <3>3. \A m \in DOMAIN page : page[m].v \in 0..MaxVersion
      BY <1>3, NewestVersion DEF IInv
    <3> HIDE DEF page
    <3>4. IsReading(g) /\ g.page = page
      BY DEF IsReading
    <3> QED BY <1>1, <3>2, <3>3, <3>4, KeepsAll DEF IInv, StoreInv
  <2>2. CASE InsertOlder(d)
    <3> DEFINE g == [reading[d] EXCEPT !.at = "inserted"]
               page == reading[d].page
               t == [m \in Messages |-> IF m \in DOMAIN page /\ store[d][m] = 0 THEN page[m].v ELSE store[d][m]]
    <3>1. reading' = [reading EXCEPT ![d].at = "inserted"] /\ store' = [store EXCEPT ![d] = t]
      BY <2>2 DEF InsertOlder
    <3>2. reading' = [reading EXCEPT ![d] = g]
      <4>1. DOMAIN reading = Devices
        BY <1>4 DEF Each
      <4> QED BY <3>1, <4>1
    <3>3. g = [at |-> "inserted", chat |-> reading[d].chat, page |-> page, before |-> reading[d].before]
      <4>1. IsReading(reading[d])
        BY <1>4
      <4> QED BY <4>1 DEF IsReading
    <3>4. IsReading(g) /\ g.page = page
      BY <3>3 DEF IsReading
    <3>5. t \in [Messages -> 0..MaxVersion]
      BY <1>3, <1>4
    <3>6. \A m \in Messages : store[d][m] > 0 => t[m] = store[d][m]
      BY <1>3
    <3> HIDE DEF t, g
    <3>7. StoreInv' /\ store'[d] = t /\ Others(store, store', d)
      BY <3>1, <3>5, StoreTo
    <3>8. StoreKeeps(d)
      BY <1>3, <3>6, <3>7 DEF StoreKeeps
    <3>9. Keeps
      <4>1. Others(known, known', d) /\ RosterKeeps(known[d], known'[d])
        BY <1>1 DEF Others, RosterKeeps
      <4> QED BY <3>7, <3>8, <4>1, KeepsTo
    <3> QED BY <1>4, <3>2, <3>4, <3>7, <3>9
  <2>3. CASE MoveBefore(d)
    <3>1. reading' = [reading EXCEPT ![d] = NotReading] /\ store' = store
      BY <2>3 DEF MoveBefore
    <3>2. IsReading(NotReading) /\ DOMAIN NotReading.page = {}
      BY DEF NotReading, IsReading
    <3> QED BY <1>1, <3>1, <3>2, KeepsAll DEF IInv, StoreInv
  <2> QED BY <2>1, <2>2, <2>3 DEF ReadStep
<1>7. ReadingInv'
  <2>1. PICK g : ReadTo(g)
    BY <1>6
  <2> HIDE DEF ReadTo
  <2> QED BY <1>5, <2>1
<1> QED BY <1>1, <1>2, <1>6, <1>7, RostersStay, LogStays, QueueStays, UnsentStays, SyncStays DEF IInv

LEMMA RestartSafe ==
    ASSUME IInv, AccountConstants, NEW d \in Devices, Restart(d)
    PROVE  IInv' /\ Keeps
<1> DEFINE out == Chats \ saved[d].known.chats
<1>1. /\ made' = made /\ UNCHANGED <<log, head, gone>> /\ saved' = saved
      /\ known' = [known EXCEPT ![d] = saved[d].known]
      /\ store' = [store EXCEPT ![d] = Kept(@, out)]
      /\ outbox' = [outbox EXCEPT ![d] = WithoutChats(@, out)]
      /\ sync' = [sync EXCEPT ![d] = Idle] /\ reading' = [reading EXCEPT ![d] = NotReading]
      /\ unsent' = [unsent EXCEPT ![d] = <<>>]
  BY DEF Restart, relayVars
<1>2. Grown
  BY <1>1 DEF Grown
<1>3. Ours(saved[d].known, made) /\ Close(saved[d].known, known[d])
  BY DEF IInv, SavedInv
<1>4. KnownInv' /\ known'[d] = saved[d].known /\ Others(known, known', d)
  BY <1>1, <1>2, <1>3, KnownTo
<1>5. SavedInv'
  <2>1. Close(saved[d].known, known'[d])
    BY <1>4 DEF Close
  <2> QED BY <1>1, <1>2, <1>4, <2>1, SavedLags
<1>6. UnsentInv' /\ SyncInv'
  BY <1>1, <1>2, UnsentTo, SyncEmpty, IdleSession
<1>7. ReadingInv'
  <2>1. IsReading(NotReading) /\ DOMAIN NotReading.page = {}
    BY DEF NotReading, IsReading
  <2>2. reading'[d] = NotReading /\ Each(reading') /\ \A e \in Devices : e # d => reading'[e] = reading[e]
    BY <1>1 DEF IInv, ReadingInv, Each
  <2> QED BY <2>1, <2>2 DEF IInv, ReadingInv
<1>8. out \cap known'[d].chats = {}
  BY <1>4
<1> HIDE DEF out
<1>9. QueueInv'
  BY <1>1, <1>2, WithoutAreItems, QueueTo
<1>10. StoreInv' /\ Others(store, store', d) /\ StoreKeeps(d)
  BY <1>1, <1>8, Dropped
<1>11. RosterKeeps(known[d], known'[d])
  BY <1>3, <1>4, SavedKeeps
<1>12. Keeps
  BY <1>4, <1>10, <1>11, KeepsTo
<1> QED BY <1>1, <1>2, <1>4, <1>5, <1>6, <1>7, <1>9, <1>10, <1>12, LogStays DEF IInv

----------------------------------------------------------------------------
(* The invariant holds. *)

LEMMA InitSafe == ASSUME AccountConstants, Init PROVE IInv
<1> DEFINE old == ToSet(Prior)
           at(m) == CHOOSE i \in DOMAIN Prior : Prior[i] = m
           d0 == CHOOSE d \in Devices \ Newcomers : TRUE
           r0 == RosterItem(d0, 0, Founded)
<1>1. /\ log = {Blob(r0, 1)} \cup {Blob(ChatItem(m, 1), at(m) + 1) : m \in old}
      /\ head = Len(Prior) + 1 /\ gone = {}
      /\ known = [d \in Devices |-> IF d \in Newcomers THEN NoRoster ELSE Founded]
      /\ store = [d \in Devices |-> [m \in Messages |-> IF d \notin Newcomers /\ m \in old THEN 1 ELSE 0]]
      /\ saved = [d \in Devices |-> [known |-> known[d], last |-> last[d], applied |-> applied[d]]]
      /\ outbox = [d \in Devices |-> <<>>] /\ unsent = [d \in Devices |-> <<>>]
      /\ sync = [d \in Devices |-> Idle] /\ reading = [d \in Devices |-> NotReading]
      /\ made = Founded.bots \cup Founded.chats \cup Founded.deleted \cup old
  BY DEF Init
<1>2. /\ Founded \in Rosters /\ Sound(Founded) /\ Prior \in Seq(Messages) /\ MaxVersion \in Nat \ {0}
      /\ \A i \in DOMAIN Prior : ChatOf[Prior[i]] \in Founded.chats
  BY DEF AccountConstants
<1>3. Ours(Founded, made) /\ Ours(NoRoster, made)
  BY <1>1, <1>2 DEF Ours, NoRoster, Rosters, Sound
<1>4. \A m \in old : /\ m \in Messages /\ ChatOf[m] \in made /\ at(m) \in 1..Len(Prior)
  <2> SUFFICES ASSUME NEW m \in old PROVE m \in Messages /\ ChatOf[m] \in made /\ at(m) \in 1..Len(Prior)
    OBVIOUS
  <2>1. DOMAIN Prior = 1..Len(Prior) /\ \A i \in DOMAIN Prior : Prior[i] \in Messages
    BY <1>2
  <2>2. PICK i \in DOMAIN Prior : Prior[i] = m
    BY DEF ToSet
  <2>3. at(m) \in DOMAIN Prior
    BY <2>2
  <2> HIDE DEF at
  <2> QED BY <1>1, <1>2, <2>1, <2>2, <2>3
<1>5. KnownInv /\ SavedInv
  <2>1. \A d \in Devices : known[d] \in {NoRoster, Founded} /\ Ours(known[d], made)
    BY <1>1, <1>3
  <2>2. \A r : Close(r, r)
    BY DEF Close
  <2>3. known \in [Devices -> Rosters]
    BY <1>1, <1>2 DEF Rosters, NoRoster
  <2>4. \A d \in Devices : IsSaved(saved[d]) /\ saved[d].known = known[d]
    BY <1>1 DEF IsSaved
  <2>5. Each(saved)
    BY <1>1 DEF Each
  <2> QED BY <2>1, <2>2, <2>3, <2>4, <2>5 DEF KnownInv, SavedInv
<1>6. LogInv
  <2>1. Len(Prior) \in Nat /\ head \in Nat /\ head = Len(Prior) + 1
    BY <1>1, <1>2
  <2>2. IsItem(Blob(r0, 1), made) /\ Blob(r0, 1).seq = 1 /\ Blob(r0, 1).kind = "roster"
    BY <1>3 DEF Blob, RosterItem, IsItem
  <2>3. ASSUME NEW m \in old
        PROVE  /\ IsItem(Blob(ChatItem(m, 1), at(m) + 1), made)
               /\ Blob(ChatItem(m, 1), at(m) + 1).seq \in 1..head
    <3>1. 1 \in 1..MaxVersion /\ at(m) + 1 \in 1..head
      BY <1>2, <1>4, <2>1
    <3> HIDE DEF at
    <3> QED BY <1>3, <1>4, <3>1 DEF Blob, ChatItem, IsItem, OfChat
  <2> HIDE DEF at, r0, old
  <2>4. ASSUME NEW b \in log PROVE IsItem(b, made) /\ b.seq \in 1..head
    <3>1. b = Blob(r0, 1) \/ \E m \in old : b = Blob(ChatItem(m, 1), at(m) + 1)
      BY <1>1
    <3>2. 1 \in 1..head
      BY <2>1
    <3> QED BY <2>2, <2>3, <3>1, <3>2
  <2> QED BY <1>1, <2>1, <2>4 DEF LogInv
<1>7. QueueInv /\ UnsentInv
  BY <1>1 DEF QueueInv, UnsentInv, Each
<1>8. SyncInv
  BY <1>1, IdleSession DEF SyncInv, Each
<1>9. StoreInv
  BY <1>1, <1>2 DEF StoreInv
<1>10. ReadingInv
  <2>1. IsReading(NotReading) /\ DOMAIN NotReading.page = {}
    BY DEF NotReading, IsReading
  <2> QED BY <1>1, <2>1 DEF ReadingInv, Each
<1> QED BY <1>5, <1>6, <1>7, <1>8, <1>9, <1>10 DEF IInv

LEMMA StepSafe == ASSUME AccountConstants, IInv, [Next]_vars PROVE IInv' /\ Keeps
<1>1. CASE Next
  <2>1. PICK d \in Devices :
           SyncStep(d) \/ ReadStep(d) \/ UserStep(d) \/ QueueWrite(d) \/ Cut(d) \/ Restart(d)
    BY <1>1 DEF Next
  <2>2. CASE SyncStep(d)
    BY <2>2, PutSafe, AnsweredSafe, DeleteGroupSafe, FetchSafe, ApplySafe, CaughtUpSafe,
       ReadRosterSafe, RosterReadSafe, ReadChatSafe, FirstSyncedSafe DEF SyncStep
  <2>3. CASE UserStep(d)
    BY <2>3, CreateBotSafe, DeleteBotSafe, DeleteChatSafe, CreateGroupSafe, WriteSafe DEF UserStep
  <2> QED BY <2>1, <2>2, <2>3, ReadStepSafe, QueueWriteSafe, CaughtUpSafe, RestartSafe
<1>2. CASE UNCHANGED vars
  <2>1. /\ made' = made /\ UNCHANGED <<log, head, gone>> /\ known' = known /\ saved' = saved
        /\ store' = store /\ outbox' = outbox /\ unsent' = unsent /\ reading' = reading /\ sync' = sync
    BY <1>2 DEF vars, boundVars, relayVars, chatVars, memoryVars
  <2>2. Grown
    BY <2>1 DEF Grown
  <2> QED BY <2>1, <2>2, RostersStay, LogStays, QueueStays, UnsentStays, SyncStays, ReadingStays,
             KeepsAll DEF IInv, StoreInv
<1> QED BY <1>1, <1>2

LEMMA Invariant == ASSUME AccountConstants PROVE Spec => []IInv
<1>1. Init => IInv
  BY InitSafe
<1>2. IInv /\ [Next]_vars => IInv'
  BY StepSafe
<1> QED BY <1>1, <1>2, PTL DEF Spec

----------------------------------------------------------------------------
\* Whatever rosters are written, merged, lost, repeated or read again after a restart, no
\* Device shows a bot or a chat that it knows was deleted, and the relay holds no blob of a
\* chat whose deletion reached it (sync.rs merge_roster_entries, sqlite.rs insert_blob).
THEOREM DeletedStays == ASSUME AccountConstants PROVE Spec => []DeletedForGood
<1>1. IInv => DeletedForGood
  <2> SUFFICES ASSUME IInv PROVE DeletedForGood
    OBVIOUS
  <2>1. ASSUME NEW d \in Devices
        PROVE  /\ known[d].bots \cap known[d].deleted = {}
               /\ \A c \in known[d].chats \cap known[d].deleted : known[d].members[c] = {}
    <3>1. Ours(known[d], made)
      BY DEF IInv, KnownInv
    <3> QED BY <3>1, RosterParts
  <2> QED BY <2>1 DEF DeletedForGood, IInv, LogInv
<1> QED BY <1>1, Invariant, PTL

\* A step takes from a Device's roster and store only what some Device deleted, the bots of
\* which were deleted, or a placeholder; a restart takes no more, though it reads an older
\* copy of what the Device knew (sync.rs apply_roster, app.rs load, local_store.rs
\* retain_chats).
THEOREM NothingElseGoes == ASSUME AccountConstants PROVE Spec => KeptUnlessDeleted
<1>1. IInv /\ [Next]_vars => [\A d \in Devices : KeepsUndeleted(d)]_vars
  <2> SUFFICES ASSUME IInv, [Next]_vars PROVE \A d \in Devices : KeepsUndeleted(d)
    OBVIOUS
  <2>1. Keeps
    BY StepSafe
  <2>2. ASSUME NEW d \in Devices PROVE KeepsUndeleted(d)
    <3>1. RosterKeeps(known[d], known'[d]) /\ StoreKeeps(d) /\ DOMAIN store[d] = Messages
      BY <2>1 DEF Keeps, IInv, StoreInv
    <3> QED BY <3>1 DEF KeepsUndeleted, Loses, RosterKeeps, StoreKeeps
  <2> QED BY <2>2
<1> QED BY <1>1, Invariant, PTL DEF Spec, KeptUnlessDeleted
=============================================================================
