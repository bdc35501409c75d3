----------------------------- MODULE AccountLog -----------------------------
(***************************************************************************)
(* One account's log on the relay (crates/relay/src/db/sqlite.rs) and the  *)
(* Devices that write and read it (crates/cli/src/sync.rs, local_store.rs, *)
(* app.rs): the roster of bots and chats, which every Device writes whole  *)
(* and merges, and the chats' messages, each in a slot of its own.  A      *)
(* Device queues what it writes in an outbox, uploads it, and pulls pages  *)
(* of the log; one that joins reads the roster and the newest messages     *)
(* first, and reads a chat backwards when someone scrolls.                 *)
(***************************************************************************)
EXTENDS Integers, Sequences, FiniteSets, SequencesExt

CONSTANTS Devices, Bots, Chats, Messages,
          DmOf,        \* DmOf[b]: the direct chat made with bot b
          ChatOf,      \* ChatOf[m]: the chat of message m
          Author,      \* Author[m]: the Device that writes m
          Rows,        \* messages that are tool rows: their slot keeps no first blob
          Founded,     \* the roster every Device but the newcomers begins with
          Prior,       \* the messages these Devices begin with, in the log's order
          Newcomers,   \* Devices that have yet to sync for the first time
          MaxVersion,  \* bound: versions of a message
          MaxChanges,  \* bound: changes of the roster by the user
          MaxCuts,     \* bound: lost answers and failed sessions
          MaxRestarts, \* bound: restarts
          Failing,     \* the stages a session may fail in
          PageSize,    \* blobs to a page of the log (and of the first newest page)
          OlderPage    \* slots to a page of a chat

Entries == Bots \cup Chats
Rosters == [bots : SUBSET Bots, chats : SUBSET Chats,
            members : [Chats -> SUBSET Bots], deleted : SUBSET Entries]
NoRoster == [bots |-> {}, chats |-> {}, members |-> [c \in Chats |-> {}], deleted |-> {}]

\* An upload unanswered, a first sync under way, and the pull of a page.
Stages == {"sent", "first", "pull"}

\* A roster the program can have: of each chat it lists the bots in it, and nothing deleted.
Sound(r) ==
    /\ r.bots \cap r.deleted = {}
    /\ \A c \in Chats : /\ r.members[c] \subseteq r.bots
                        /\ c \notin r.chats \/ c \in r.deleted => r.members[c] = {}

AccountConstants ==
    /\ Bots \cap Chats = {} /\ Sound(Founded)
    /\ \A i \in DOMAIN Prior : ChatOf[Prior[i]] \in Founded.chats
    /\ DmOf \in [Bots -> Chats] /\ ChatOf \in [Messages -> Chats]
    /\ Author \in [Messages -> Devices] /\ Rows \subseteq Messages
    /\ Founded \in Rosters /\ Prior \in Seq(Messages)
    /\ Newcomers \subseteq Devices /\ Failing \subseteq Stages
    /\ {MaxVersion, PageSize, OlderPage} \subseteq Nat \ {0}
    /\ {MaxChanges, MaxCuts, MaxRestarts} \subseteq Nat

VARIABLES
    log,     \* the relay's blobs, each with its seq
    head,    \* the last seq given
    gone,    \* deleted_groups: chats whose blobs the relay refuses
    past,    \* history: ids of blobs the relay has superseded
    early,   \* history: early[d]: ids of versions d's first sync took of messages that
             \* were first sent after the head it began at
    known,   \* known[d]: the roster as d has it, in memory
    store,   \* store[d][m]: the version of m in d's store, 0 for none
    pos,     \* pos[d][m]: its position in the transcript
    before,  \* before[d][c]: the place d's copy of c begins at, 0 when whole
    last,    \* last[d]: last_seq, in memory
    applied, \* applied[d]: applied_blob_ids, in memory
    saved,   \* saved[d]: what of known, last and applied is on disk
    outbox,  \* outbox[d]: blobs to upload
    deletes, \* deletes[d]: group_deletes
    unsent,  \* unsent[d]: a message stored and not yet queued, or "none"
    sync,    \* sync[d]: where d's session is, and what it has read
    reading, \* reading[d]: a page of a chat being read backwards
    pushes,  \* pushes[d]: rosters d has queued
    made,    \* ids the user has made, which no other entry takes
    changes, cuts, restarts  \* so far

relayVars  == <<log, head, gone, past, early>>  \* with the history
chatVars   == <<store, pos, before>>
memoryVars == <<known, last, applied, saved>>
boundVars  == <<made, changes, cuts, restarts>>
vars == <<relayVars, chatVars, memoryVars, outbox, deletes, unsent, sync,
          reading, pushes, boundVars>>

Idle   == [at |-> "idle", id |-> <<>>, page |-> {}, todo |-> {}, head |-> 0, since |-> 0]
NotReading == [at |-> "idle", chat |-> "none", page |-> <<>>, before |-> 0]

\* An item to upload, of a chat's message or of the roster, and the blob it becomes.
ChatItem(m, v) == [id |-> <<m, v>>, kind |-> "chat", m |-> m, v |-> v, roster |-> NoRoster]
RosterItem(d, n, r) == [id |-> <<d, n>>, kind |-> "roster", m |-> "none", v |-> 0, roster |-> r]
Blob(i, seq) == [id |-> i.id, kind |-> i.kind, m |-> i.m, v |-> i.v, roster |-> i.roster, seq |-> seq]

----------------------------------------------------------------------------
(* The relay. *)

SameSlot(a, b) == a.kind = b.kind /\ a.m = b.m
Slot(item)  == {b \in log : SameSlot(b, item)}
First(bs)   == CHOOSE b \in bs : \A o \in bs : b.seq <= o.seq
Latest(bs)  == CHOOSE b \in bs : \A o \in bs : b.seq >= o.seq
KeepsFirst(item) == item.kind = "chat" /\ item.m \notin Rows

Superseded(item) ==
    IF KeepsFirst(item) /\ Slot(item) # {}
    THEN Slot(item) \ {First(Slot(item))} ELSE Slot(item)

Stored(item)  == \E b \in log : b.id = item.id
Refused(item) == ~Stored(item) /\ item.kind = "chat" /\ ChatOf[item.m] \in gone

\* insert_blob: an id the log has keeps its place; a deleted group is refused.
InsertBlob(item) ==
    IF Stored(item) \/ Refused(item) THEN UNCHANGED <<log, head, past>>
    ELSE /\ log' = (log \ Superseded(item)) \cup {Blob(item, head + 1)}
         /\ head' = head + 1
         /\ past' = past \cup {b.id : b \in Superseded(item)}

SlotOf(m)  == {b \in log : b.kind = "chat" /\ b.m = m}
Uploaded(c) == {m \in Messages : ChatOf[m] = c /\ SlotOf(m) # {}}
Place(m)   == First(SlotOf(m)).seq
Newest(m)  == IF SlotOf(m) = {} THEN 0 ELSE Latest(SlotOf(m)).v

\* group_page: the `count` newest slots placed before `place`, and whether there are more.
Below(c, place) == {m \in Uploaded(c) : place = 0 \/ Place(m) < place}
GroupPage(c, place, count) ==
    {m \in Below(c, place) :
        Cardinality({k \in Below(c, place) : Place(k) > Place(m)}) < count}
\* Slip: one off.
HasMoreBut(c, place, count) == Cardinality(Below(c, place)) > count + 1
HasMore(c, place, count) == GroupPage(c, place, count) # Below(c, place)
\* Where the copy begins after that page: its oldest slot, when there are more.
Begins(c, place, count) ==
    IF HasMore(c, place, count)
    THEN CHOOSE p \in {Place(m) : m \in GroupPage(c, place, count)} :
            \A m \in GroupPage(c, place, count) : p <= Place(m)
    ELSE 0

----------------------------------------------------------------------------
(* A Device's outbox and store. *)

MaxOver(S) == IF S = {} THEN 0 ELSE CHOOSE n \in S : \A k \in S : k <= n

\* queue_outbox_tx, the items by their position: a version of a waiting slot takes its row.
Queued(queue, item) ==
    LET waiting == {p \in DOMAIN queue : SameSlot(queue[p], item)}
        row == IF waiting = {} THEN {MaxOver(DOMAIN queue) + 1} ELSE waiting
    IN [p \in DOMAIN queue \cup row |-> IF p \in row THEN item ELSE queue[p]]

OfChats(item, cs) == item.kind = "chat" /\ ChatOf[item.m] \in cs
WithoutChats(queue, cs) ==
    [p \in {q \in DOMAIN queue : ~OfChats(queue[q], cs)} |-> queue[p]]

Here(d, c) == {m \in Messages : ChatOf[m] = c /\ store[d][m] > 0}
LowestOver(S) == IF S = {} THEN 1 ELSE CHOOSE n \in S : \A k \in S : n <= k
Positions(d, c) == {pos[d][m] : m \in Here(d, c)}

\* What a Device keeps of its store once the chats cs are gone from it.
Kept(stored, cs) == [m \in Messages |-> IF ChatOf[m] \in cs THEN 0 ELSE stored[m]]
DropChats(d, cs) ==
    /\ store' = [store EXCEPT ![d] = Kept(@, cs)]
    /\ pos' = [pos EXCEPT ![d] = Kept(@, cs)]
    /\ before' = [before EXCEPT ![d] = [c \in Chats |-> IF c \in cs THEN 0 ELSE @[c]]]

\* LocalStore::upsert, of messages in the order of their places.
Upsert(d, c, version) ==
    LET ms  == DOMAIN version
        new == {m \in ms : store[d][m] = 0}
        upto(m) == {k \in new : k = m \/ (SlotOf(k) # {} /\ SlotOf(m) # {} /\ Place(k) < Place(m))}
    IN /\ store' = [store EXCEPT ![d] = [m \in Messages |-> IF m \in ms THEN version[m] ELSE @[m]]]
       /\ pos' = [pos EXCEPT ![d] = [m \in Messages |->
              IF m \in new THEN MaxOver(Positions(d, c)) + Cardinality(upto(m)) ELSE @[m]]]

Remember(d, ids) == applied' = [applied EXCEPT ![d] = @ \cup ids]
\* save_state: all of it, as the action leaves it.
SaveAll(d) ==
    saved' = [saved EXCEPT ![d] = [known |-> known'[d], last |-> last'[d], applied |-> applied'[d]]]
\* queue_outbox_with_state: the metadata and the chats, and the item's own id.
SaveQueueing(d, id) ==
    saved' = [saved EXCEPT ![d] = [known |-> known'[d], last |-> last'[d],
                                   applied |-> @.applied \cup {id}]]

----------------------------------------------------------------------------
(* The roster. *)

\* Slip: deletions forgotten.
KeptBotsAll(mine, theirs) == mine.bots \ theirs.bots

KeptBots(mine, theirs) == mine.bots \ (mine.deleted \cup theirs.deleted \cup theirs.bots)

\* Slip: the incoming roster wins.
KeptNoChats(mine, theirs) == {}

KeptChats(mine, theirs) ==
    LET out  == mine.deleted \cup theirs.deleted
        bots == (theirs.bots \ out) \cup KeptBots(mine, theirs)
    IN {c \in mine.chats \ (out \cup theirs.chats) :
            mine.members[c] # {} /\ mine.members[c] \subseteq bots}

\* merge_roster_entries
Merged(mine, theirs) ==
    LET out    == mine.deleted \cup theirs.deleted
        listed == theirs.chats \ out
        keeps  == KeptChats(mine, theirs)
    IN [bots    |-> (theirs.bots \ out) \cup KeptBots(mine, theirs),
        chats   |-> listed \cup keeps,
        members |-> [c \in Chats |-> IF c \in listed THEN theirs.members[c] \ out
                                     ELSE IF c \in keeps THEN mine.members[c] ELSE {}],
        deleted |-> out]

\* Slip: a deletion alone does not go up again.
KeptEntries(mine, theirs) == KeptBots(mine, theirs) # {} \/ KeptChats(mine, theirs) # {}

KeptSome(mine, theirs) ==
    \/ ~(mine.deleted \subseteq theirs.deleted)
    \/ KeptBots(mine, theirs) # {} \/ KeptChats(mine, theirs) # {}

\* push_roster, queueing the roster r behind the items of `queue`.
PushRoster(d, queue, r) ==
    /\ outbox' = [outbox EXCEPT ![d] = Queued(queue, RosterItem(d, pushes[d] + 1, r))]
    /\ pushes' = [pushes EXCEPT ![d] = @ + 1]

\* A change of the roster by the user, which leaves it as r.
Change(d, r) ==
    /\ changes < MaxChanges /\ changes' = changes + 1
    /\ known' = [known EXCEPT ![d] = r]
    /\ PushRoster(d, WithoutChats(outbox[d], known[d].chats \ r.chats), r)
    /\ Remember(d, {<<d, pushes'[d]>>})
    /\ UNCHANGED <<relayVars, last, unsent, sync, reading, cuts, restarts>>
    /\ SaveAll(d)
    /\ DropChats(d, known[d].chats \ r.chats)
    /\ deletes' = [deletes EXCEPT ![d] = @ \cup ((known[d].chats \ r.chats) \cap r.deleted)]

\* create_bot_with_dm
CreateBot(d, b) ==
    /\ {b, DmOf[b]} \cap made = {}
    /\ made' = made \cup {b, DmOf[b]}
    /\ Change(d, [known[d] EXCEPT !.bots = @ \cup {b}, !.chats = @ \cup {DmOf[b]},
                                  !.members[DmOf[b]] = {b}])

CreateGroup(d, c, bs) ==
    /\ c \notin made /\ \A b \in Bots : DmOf[b] # c
    /\ bs # {} /\ bs \subseteq known[d].bots
    /\ made' = made \cup {c}
    /\ Change(d, [known[d] EXCEPT !.chats = @ \cup {c}, !.members[c] = bs])

DeleteChat(d, c) ==
    /\ c \in known[d].chats
    /\ Change(d, [known[d] EXCEPT !.chats = @ \ {c}, !.members[c] = {}, !.deleted = @ \cup {c}])
    /\ UNCHANGED made

\* delete_bot: its direct chat and the groups it was the last bot of go with it.
DeleteBot(d, b) ==
    LET its == {c \in known[d].chats : b \in known[d].members[c]}
        out == {c \in its : c = DmOf[b] \/ known[d].members[c] = {b}}
    IN /\ b \in known[d].bots
       /\ Change(d, [bots    |-> known[d].bots \ {b},
                     chats   |-> known[d].chats \ out,
                     members |-> [c \in Chats |-> IF c \in out THEN {} ELSE known[d].members[c] \ {b}],
                     deleted |-> known[d].deleted \cup {b} \cup out])
       /\ UNCHANGED made

----------------------------------------------------------------------------
(* Messages written here. *)

\* upsert_message, which holds the message order until the upload is queued.
Write(d, m) ==
    /\ Author[m] = d /\ unsent[d] = <<>>
    /\ ChatOf[m] \in known[d].chats
    /\ store[d][m] < MaxVersion
    /\ store[d][m] = 0 => m \notin made
    /\ made' = made \cup {m}
    /\ Upsert(d, ChatOf[m], [k \in {m} |-> store[d][k] + 1])
    /\ unsent' = [unsent EXCEPT ![d] = <<m, store[d][m] + 1>>]
    /\ UNCHANGED <<relayVars, memoryVars, before, outbox, deletes, sync, reading,
                   pushes, changes, cuts, restarts>>

QueueWrite(d) ==
    /\ unsent[d] # <<>>
    /\ unsent' = [unsent EXCEPT ![d] = <<>>]
    /\ LET m == unsent[d][1]
           item == ChatItem(m, unsent[d][2])
       IN \/ /\ ChatOf[m] \in known[d].chats
             /\ outbox' = [outbox EXCEPT ![d] = Queued(@, item)]
             /\ Remember(d, {item.id})
             /\ UNCHANGED <<known, last, chatVars>>
             /\ SaveQueueing(d, item.id)
          \/ /\ ChatOf[m] \notin known[d].chats   \* deleted meanwhile
             /\ store' = [store EXCEPT ![d][m] = 0]
             /\ pos' = [pos EXCEPT ![d][m] = 0]
             /\ UNCHANGED <<memoryVars, before, outbox>>
    /\ UNCHANGED <<relayVars, deletes, sync, reading, pushes, boundVars>>

----------------------------------------------------------------------------
(* The session: uploads first, then deletes, then a pull. *)

Put(d) ==
    /\ sync[d].at = "idle"
    /\ \E p \in DOMAIN outbox[d] :
          /\ \A q \in DOMAIN outbox[d] : p <= q
          /\ InsertBlob(outbox[d][p])
          /\ sync' = [sync EXCEPT ![d] = [Idle EXCEPT !.at = "sent", !.id = outbox[d][p].id]]
    /\ UNCHANGED <<gone, early, chatVars, memoryVars, outbox, deletes, unsent, reading, pushes, boundVars>>

\* The relay took the item or refused it for good; a newer version may have its row by now.
Answered(d) ==
    /\ sync[d].at = "sent"
    /\ sync' = [sync EXCEPT ![d] = Idle]
    /\ outbox' = [outbox EXCEPT ![d] =
         [p \in {q \in DOMAIN @ : @[q].id # sync[d].id} |-> @[p]]]
    /\ saved' = [saved EXCEPT ![d].last = last[d]]
    /\ UNCHANGED <<relayVars, chatVars, known, last, applied, deletes, unsent, reading, pushes, boundVars>>

\* delete_group and drain_group_deletes: asked again until an answer comes.
DeleteGroup(d, c) ==
    /\ sync[d].at = "idle" /\ outbox[d] = <<>> /\ c \in deletes[d]
    /\ gone' = gone \cup {c}
    /\ log' = {b \in log : b.kind = "roster" \/ ChatOf[b.m] # c}
    /\ \/ /\ deletes' = [deletes EXCEPT ![d] = @ \ {c}]
          /\ UNCHANGED <<known, last, applied, cuts>>
          /\ SaveAll(d)
       \/ cuts < MaxCuts /\ cuts' = cuts + 1 /\ UNCHANGED <<memoryVars, deletes>>
    /\ UNCHANGED <<head, past, early, chatVars, outbox, unsent, sync, reading, pushes, made,
                   changes, restarts>>

Ready(d) == sync[d].at = "idle" /\ outbox[d] = <<>> /\ deletes[d] = {}

\* apply_roster
ApplyRoster(d, b) ==
    LET merged == Merged(known[d], b.roster)
        out    == known[d].chats \ merged.chats
        queue  == WithoutChats(outbox[d], out)
    IN /\ known' = [known EXCEPT ![d] = merged]
       /\ DropChats(d, out)
       /\ IF KeptSome(known[d], b.roster)
          THEN /\ PushRoster(d, queue, merged)
               /\ Remember(d, {b.id, <<d, pushes'[d]>>})
          ELSE /\ outbox' = [outbox EXCEPT ![d] = queue]
               /\ Remember(d, {b.id})
               /\ UNCHANGED pushes

\* apply_chat_op: a chat the roster does not list yet gets a placeholder without bots.
WithChat(r, c) == [r EXCEPT !.chats = @ \cup {c}]

ApplyChat(d, b) ==
    /\ unsent[d] = <<>>
    /\ known' = [known EXCEPT ![d] = WithChat(@, ChatOf[b.m])]
    /\ Upsert(d, ChatOf[b.m], [m \in {b.m} |-> b.v])
    /\ Remember(d, {b.id})
    /\ UNCHANGED <<before, outbox, pushes>>

\* apply_blob: an id already applied changes nothing.
ApplyBlob(d, b) ==
    \/ /\ b.id \in applied[d]
       /\ UNCHANGED <<known, applied, chatVars, outbox, pushes>>
    \/ b.id \notin applied[d] /\ b.kind = "roster" /\ ApplyRoster(d, b)
    \/ b.id \notin applied[d] /\ b.kind = "chat" /\ ApplyChat(d, b)

After(seq) == {b \in log : b.seq > seq}
Page(d) == {b \in After(last[d]) :
               Cardinality({o \in After(last[d]) : o.seq < b.seq}) < PageSize}

\* pull_blobs
Fetch(d) ==
    /\ Ready(d) \/ sync[d].at = "pull"
    /\ last[d] > 0 /\ After(last[d]) # {}
    /\ sync' = [sync EXCEPT ![d] = [Idle EXCEPT !.at = "page", !.page = Page(d)]]
    /\ UNCHANGED <<relayVars, chatVars, memoryVars, outbox, deletes, unsent, reading, pushes, boundVars>>

Apply(d) ==
    /\ sync[d].at = "page"
    /\ \E b \in sync[d].page :
          LET rest == sync[d].page \ {b}
          IN /\ \A o \in rest : b.seq < o.seq
             /\ ApplyBlob(d, b)
             /\ last' = [last EXCEPT ![d] = MaxOver({@, b.seq})]
             /\ sync' = [sync EXCEPT ![d] = IF rest = {} THEN [Idle EXCEPT !.at = "pull"]
                                            ELSE [@ EXCEPT !.page = rest]]
             \* A roster is saved as it is applied, the rest once the page ends.
             /\ IF rest = {} THEN SaveAll(d)
                ELSE IF b.kind = "roster" /\ b.id \notin applied[d]
                THEN saved' = [saved EXCEPT ![d] =
                                 [known |-> known'[d], last |-> last[d], applied |-> applied'[d]]]
                ELSE UNCHANGED saved
    /\ UNCHANGED <<relayVars, deletes, unsent, reading, boundVars>>

CaughtUp(d) ==
    /\ sync[d].at = "pull" /\ last[d] > 0 /\ After(last[d]) = {}
    /\ sync' = [sync EXCEPT ![d] = Idle]
    /\ UNCHANGED <<relayVars, chatVars, memoryVars, outbox, deletes, unsent, reading, pushes, boundVars>>

\* first_sync_quietly: the log's head and the roster, then each chat's newest messages.
RosterAfter(seq) == {b \in After(seq) : b.kind = "roster"}

ReadRoster(d) ==
    /\ \/ Ready(d) /\ last[d] = 0 /\ head > 0
       \/ sync[d].at = "first" /\ RosterAfter(sync[d].since) # {}
    /\ LET from == IF sync[d].at = "first" THEN sync[d].since ELSE 0
           top  == IF sync[d].at = "first" THEN sync[d].head ELSE head
       IN IF RosterAfter(from) = {}
          THEN /\ sync' = [sync EXCEPT ![d] = [Idle EXCEPT !.at = "first", !.head = top]]
               /\ UNCHANGED <<known, applied, saved, chatVars, outbox, pushes>>
          ELSE \E b \in RosterAfter(from) :
               /\ ApplyBlob(d, b)
               /\ saved' = [saved EXCEPT ![d] = [known |-> known'[d], last |-> last[d], applied |-> applied'[d]]]
               /\ sync' = [sync EXCEPT ![d] = [Idle EXCEPT !.at = "first", !.head = top, !.since = b.seq]]
    /\ UNCHANGED <<relayVars, last, deletes, unsent, reading, boundVars>>

RosterRead(d) ==
    /\ sync[d].at = "first" /\ RosterAfter(sync[d].since) = {}
    /\ sync' = [sync EXCEPT ![d].at = "chats", ![d].todo = known[d].chats]
    /\ UNCHANGED <<relayVars, chatVars, memoryVars, outbox, deletes, unsent, reading, pushes, boundVars>>

ReadChat(d, c) ==
    /\ sync[d].at = "chats" /\ c \in sync[d].todo /\ unsent[d] = <<>>
    /\ LET new == {m \in GroupPage(c, 0, PageSize) : Latest(SlotOf(m)).id \notin applied[d]}
       IN /\ Upsert(d, c, [m \in new |-> Newest(m)])
          /\ Remember(d, {Latest(SlotOf(m)).id : m \in new})
          /\ known' = [known EXCEPT ![d] = IF new = {} THEN @ ELSE WithChat(@, c)]
          /\ early' = [early EXCEPT ![d] =
                @ \cup {Latest(SlotOf(m)).id : m \in {k \in new : Place(k) > sync[d].head}}]
    /\ before' = [before EXCEPT ![d][c] = Begins(c, 0, PageSize)]
    /\ sync' = [sync EXCEPT ![d].todo = @ \ {c}]
    /\ UNCHANGED <<log, head, gone, past, last, saved, outbox, deletes, unsent, reading, pushes,
                   boundVars>>

FirstSynced(d) ==
    /\ sync[d].at = "chats" /\ sync[d].todo = {}
    /\ last' = [last EXCEPT ![d] = sync[d].head]
    /\ sync' = [sync EXCEPT ![d] = [Idle EXCEPT !.at = "pull"]]
    /\ UNCHANGED <<known, applied>>
    /\ SaveAll(d)
    /\ UNCHANGED <<relayVars, chatVars, outbox, deletes, unsent, reading, pushes, boundVars>>

----------------------------------------------------------------------------
(* Reading a chat backwards, beside the session: older_messages_from. *)

AskOlder(d, c) ==
    /\ reading[d].at = "idle" /\ c \in known[d].chats /\ before[d][c] # 0
    /\ reading' = [reading EXCEPT ![d] =
        [at |-> "fetched", chat |-> c, before |-> Begins(c, before[d][c], OlderPage),
         page |-> [m \in GroupPage(c, before[d][c], OlderPage) |->
                     [v |-> Newest(m), place |-> Place(m)]]]]
    /\ UNCHANGED <<relayVars, chatVars, memoryVars, outbox, deletes, unsent, sync, pushes, boundVars>>

\* insert_older: newest first, each ahead of all there is; one that is here only moves.
InsertOlder(d) ==
    /\ reading[d].at = "fetched"
    /\ LET page == reading[d].page
           low  == LowestOver(Positions(d, reading[d].chat))
           nth(m) == Cardinality({k \in DOMAIN page : page[k].place >= page[m].place})
       IN /\ store' = [store EXCEPT ![d] = [m \in Messages |->
                IF m \in DOMAIN page /\ @[m] = 0 THEN page[m].v ELSE @[m]]]
          /\ pos' = [pos EXCEPT ![d] = [m \in Messages |->
                IF m \in DOMAIN page THEN low - nth(m) ELSE @[m]]]
    /\ reading' = [reading EXCEPT ![d].at = "inserted"]
    /\ UNCHANGED <<relayVars, before, memoryVars, outbox, deletes, unsent, sync, pushes, boundVars>>

MoveBefore(d) ==
    /\ reading[d].at = "inserted"
    /\ before' = [before EXCEPT ![d][reading[d].chat] = reading[d].before]
    /\ reading' = [reading EXCEPT ![d] = NotReading]
    /\ UNCHANGED <<relayVars, store, pos, memoryVars, outbox, deletes, unsent, sync, pushes, boundVars>>

----------------------------------------------------------------------------
(* Failures. *)

\* A request fails; the next session starts from the top, with the memory as it is.
Stage(d) == IF sync[d].at = "chats" THEN "first" ELSE sync[d].at

Cut(d) ==
    /\ Stage(d) \in Failing
    /\ cuts < MaxCuts /\ cuts' = cuts + 1
    /\ sync' = [sync EXCEPT ![d] = Idle]
    /\ UNCHANGED <<relayVars, chatVars, memoryVars, outbox, deletes, unsent, reading, pushes,
                   made, changes, restarts>>

\* App::load, which drops rows of chats it does not list (retain_chats).
Restart(d) ==
    /\ Stage(d) = "first" => "first" \in Failing
    /\ restarts < MaxRestarts /\ restarts' = restarts + 1
    /\ known' = [known EXCEPT ![d] = saved[d].known]
    /\ last' = [last EXCEPT ![d] = saved[d].last]
    /\ applied' = [applied EXCEPT ![d] = saved[d].applied]
    /\ LET out == Chats \ saved[d].known.chats
       IN /\ store' = [store EXCEPT ![d] = Kept(@, out)]
          /\ pos' = [pos EXCEPT ![d] = Kept(@, out)]
          /\ outbox' = [outbox EXCEPT ![d] = WithoutChats(@, out)]
    /\ sync' = [sync EXCEPT ![d] = Idle]
    /\ reading' = [reading EXCEPT ![d] = NotReading]
    /\ unsent' = [unsent EXCEPT ![d] = <<>>]
    /\ UNCHANGED <<relayVars, before, saved, deletes, pushes, made, changes, cuts>>

----------------------------------------------------------------------------
(* The Devices begin with one roster and the prior messages in it, all uploaded. *)
Init ==
    LET d0 == CHOOSE d \in Devices \ Newcomers : TRUE
        r0 == RosterItem(d0, 0, Founded)
        old == ToSet(Prior)
        at(m) == CHOOSE i \in DOMAIN Prior : Prior[i] = m
        ids == {r0.id} \cup {<<m, 1>> : m \in old}
        end == Len(Prior) + 1
        new == Newcomers
    IN /\ log = {Blob(r0, 1)} \cup {Blob(ChatItem(m, 1), at(m) + 1) : m \in old}
       /\ head = end
       /\ gone = {}
       /\ past = {}
       /\ early = [d \in Devices |-> {}]
       /\ known = [d \in Devices |-> IF d \in new THEN NoRoster ELSE Founded]
       /\ store = [d \in Devices |-> [m \in Messages |-> IF d \notin new /\ m \in old THEN 1 ELSE 0]]
       /\ pos = [d \in Devices |-> [m \in Messages |-> IF d \notin new /\ m \in old THEN at(m) ELSE 0]]
       /\ before = [d \in Devices |-> [c \in Chats |-> 0]]
       /\ last = [d \in Devices |-> IF d \in new THEN 0 ELSE end]
       /\ applied = [d \in Devices |-> IF d \in new THEN {} ELSE ids]
       /\ saved = [d \in Devices |-> [known |-> known[d], last |-> last[d], applied |-> applied[d]]]
       /\ outbox = [d \in Devices |-> <<>>]
       /\ deletes = [d \in Devices |-> {}]
       /\ unsent = [d \in Devices |-> <<>>]
       /\ sync = [d \in Devices |-> Idle]
       /\ reading = [d \in Devices |-> NotReading]
       /\ pushes = [d \in Devices |-> 0]
       /\ made = Founded.bots \cup Founded.chats \cup Founded.deleted \cup old
       /\ changes = 0 /\ cuts = 0 /\ restarts = 0

SyncStep(d) ==
    \/ Put(d) \/ Answered(d) \/ (\E c \in Chats : DeleteGroup(d, c))
    \/ Fetch(d) \/ Apply(d) \/ CaughtUp(d)
    \/ ReadRoster(d) \/ RosterRead(d) \/ (\E c \in Chats : ReadChat(d, c)) \/ FirstSynced(d)

ReadStep(d) == (\E c \in Chats : AskOlder(d, c)) \/ InsertOlder(d) \/ MoveBefore(d)

UserStep(d) ==
    \/ \E b \in Bots : CreateBot(d, b) \/ DeleteBot(d, b)
    \/ \E c \in Chats : DeleteChat(d, c) \/ (\E bs \in SUBSET Bots : CreateGroup(d, c, bs))
    \/ \E m \in Messages : Write(d, m)

Next == \E d \in Devices :
    SyncStep(d) \/ ReadStep(d) \/ UserStep(d) \/ QueueWrite(d) \/ Cut(d) \/ Restart(d)

Spec == Init /\ [][Next]_vars

\* sync::run asks again after every failure; a handler that began ends.
Fairness == \A d \in Devices : WF_vars(SyncStep(d)) /\ WF_vars(QueueWrite(d))

FairSpec == Spec /\ Fairness

----------------------------------------------------------------------------
TypeOK ==
    /\ known \in [Devices -> Rosters]
    /\ \A d \in Devices : saved[d].known \in Rosters /\ saved[d].applied \subseteq applied[d]
    /\ last \in [Devices -> 0..head] /\ \A d \in Devices : saved[d].last <= last[d]
    /\ store \in [Devices -> [Messages -> 0..MaxVersion]]
    /\ pos \in [Devices -> [Messages -> Int]]
    /\ before \in [Devices -> [Chats -> 0..head]]
    /\ \A a, b \in log : (a.id = b.id \/ a.seq = b.seq) => a = b

\* A Device that has applied all there is and runs nothing.
Quiet(d) == /\ sync[d].at = "idle" /\ outbox[d] = <<>> /\ deletes[d] = {} /\ unsent[d] = <<>>
            /\ last[d] > 0 /\ After(last[d]) = {}

\* What d's copy of chat c claims to hold: all, or what begins at `before`.
InScope(d, m) == before[d][ChatOf[m]] = 0 \/ Place(m) >= before[d][ChatOf[m]]

\* A version of m is in the log after the head d's first sync began at, and the first sync
\* took it before: the pull meets the message's first version later, and takes that.
TakenEarly(d, m) == m \notin Rows /\ Latest(SlotOf(m)).id \in early[d]

\* A Device that is caught up holds the newest version of every message its copy of a chat
\* claims to hold, whenever it joined, however far it scrolled, and whatever was edited
\* meanwhile (local_store.rs, history_before: None for a chat that is here whole).  A message
\* first sent and edited during its first sync is the exception: until it is edited again, the
\* Device holds its first version.
HereWhole ==
    \A d \in Devices : Quiet(d) =>
        \A m \in Messages :
            (known[d].members[ChatOf[m]] # {} /\ Newest(m) > 0 /\ InScope(d, m)) =>
                IF Author[m] = d THEN store[d][m] >= Newest(m)
                ELSE store[d][m] = IF TakenEarly(d, m) THEN First(SlotOf(m)).v ELSE Newest(m)

\* ...and shows the messages of others in the order of their places on the relay, an edit
\* from before its copy excepted until its page is read (relay.md, insert_older).
InOrder ==
    \A d \in Devices : (Quiet(d) /\ reading[d].at = "idle") =>
        \A m, k \in {n \in Messages \ Rows : Author[n] # d /\ Newest(n) > 0 /\ store[d][n] > 0} :
            (ChatOf[m] = ChatOf[k] /\ InScope(d, m) /\ InScope(d, k) /\ Place(m) < Place(k))
                => pos[d][m] < pos[d][k]

\* Once all are caught up they hold the same bots, chats and deletions, whichever uploads were
\* repeated and whatever started again, unless the roster that stands is one the relay had
\* superseded: its upload was repeated after its answer was lost, and the relay, which forgets
\* the ids of what it supersedes, took it for a new one (insert_blob).
Listed(d) == [bots |-> known[d].bots, deleted |-> known[d].deleted,
              chats |-> {c \in known[d].chats : known[d].members[c] # {}},
              members |-> known[d].members]
Revived == \E b \in log : b.kind = "roster" /\ b.id \in past
RostersAgree ==
    ((\A d \in Devices : Quiet(d)) /\ ~Revived) => \A d, e \in Devices : Listed(d) = Listed(e)

\* A deletion is for good: no roster brings a deleted bot or chat back, and the relay holds no
\* blob of a chat whose deletion reached it (merge_roster_entries, insert_blob).
DeletedForGood ==
    /\ \A d \in Devices :
          /\ known[d].bots \cap known[d].deleted = {}
          /\ \A c \in known[d].chats \cap known[d].deleted : known[d].members[c] = {}
    /\ \A b \in log : b.kind = "chat" => ChatOf[b.m] \notin gone

Loses(d, c) == c \in known[d].chats /\ c \notin known'[d].chats
KeepsUndeleted(d) ==
    /\ known[d].bots \ known'[d].bots \subseteq known'[d].deleted
    /\ \A c \in Chats : Loses(d, c) =>
          c \in known'[d].deleted \/ known[d].members[c] = {}
          \/ known[d].members[c] \cap known'[d].deleted # {}
    /\ \A m \in DOMAIN store[d] :
          (store[d][m] > 0 /\ store'[d][m] = 0) => ChatOf[m] \notin known'[d].chats

\* Nothing a Device lists goes from it, a chat that never had a bot on it excepted, unless some
\* Device deleted it or one of its bots, and no message of a chat it lists goes: a roster that
\* another Device wrote before it had pulled deletes nothing, and a restart brings back no
\* older roster (merge_roster_entries, apply_roster, App::load).
KeptUnlessDeleted == [][\A d \in Devices : KeepsUndeleted(d)]_vars

\* A chat that has a bot left goes from a Device only once some Device deleted that chat: it
\* does not hold of a group (sync.rs:1270).
DeletedGo(d) ==
    \A c \in Chats : (Loses(d, c) /\ known[d].members[c] \cap known'[d].bots # {}) => c \in known'[d].deleted
=============================================================================
