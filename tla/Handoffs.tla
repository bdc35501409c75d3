------------------------------ MODULE Handoffs ------------------------------
(***************************************************************************)
(* One durable delegation between two bots (crates/cli/src/handoffs.rs),   *)
(* from the requesting bot's Runner (Source) to the recipient's (Target),  *)
(* as it is kept on every paired Device.                                   *)
(*                                                                         *)
(* A handoff is a list of attempts, each with its own job.  Every Device   *)
(* holds a copy of the record and merges three kinds of update into it:    *)
(* the request, the Runner's report and the requester's cancellation.  A   *)
(* change is saved together with the relay blobs that announce it; the     *)
(* relay keeps one blob per slot, hands every Device the account's blobs   *)
(* in order, and hands Target the sealed `job` and `job_cancel` envelopes. *)
(* Devices stop and start again, an upload's answer can be lost, and a     *)
(* page of blobs read before a crash is read again.                        *)
(***************************************************************************)
EXTENDS Naturals, SequencesExt

CONSTANTS Devices,      \* the account's paired Devices
          Source,       \* the requesting bot's Runner
          Target,       \* the recipient's Runner; Source for a local handoff
          MaxAttempts,  \* bound: attempts of the handoff
          MaxMints,     \* bound: job ids minted for one attempt number
          MaxRestarts,  \* bound: restarts of each Device in Restarting
          Restarting,   \* the Devices that may stop and start again
          Claims,       \* statuses the recipient reports with the tool
          Endings,      \* how turns end: a reply "sent", a "pass", or "skipped"
          Occurs        \* what may happen besides the ordinary course

\* "relay": the Devices have a relay and reach it.  "answer": its answer to an
\* upload is lost.  "expire": an envelope
\* gets too old to open.  "move": a bot moves to another Runner.  "limit": a
\* turn's limits stop it.  "stop": the user stops the recipient's turn.
Occurrences == {"relay", "answer", "expire", "move", "limit", "stop"}

ASSUME HandoffConstants ==
    /\ Source \in Devices
    /\ Target \in Devices
    /\ MaxAttempts \in Nat \ {0}
    /\ MaxMints \in Nat \ {0}
    /\ MaxRestarts \in Nat
    /\ Restarting \subseteq Devices
    /\ Claims \subseteq {"completed", "failed", "blocked", "cancelled"}
    /\ Endings \subseteq {"sent", "pass", "skipped"}
    /\ Occurs \subseteq Occurrences

-----------------------------------------------------------------------------
(* Records and updates.                                                    *)

Attempts == 1..MaxAttempts
\* A job id names its attempt; ids minted for the same attempt differ.
Jobs     == Attempts \X (1..MaxMints)
NoJob    == <<0, 0>>

Terminal == {"completed", "failed", "blocked", "cancelled"}
Reports  == Terminal \cup {"none", "running"}

\* HandoffAttempt.  `job` stands for the whole request it is minted with;
\* "none" is an attempt without a report, NoJob one that does not exist.
Attempt == [job : Jobs \cup {NoJob}, report : Reports, cancelled : BOOLEAN,
            result : {"pending", "started", "finished"}]

Blank(j) == [job |-> j, report |-> "none", cancelled |-> FALSE, result |-> "pending"]

\* Items of the outbox and blobs of the relay.
Updates   == {"request", "report", "cancel"}
Envelopes == {"job", "job_cancel"}
Items     == [kind : Updates \cup Envelopes, job : Jobs, status : Reports]

Item(kind, j)     == [kind |-> kind, job |-> j, status |-> "none"]
ReportItem(j, s)  == [kind |-> "report", job |-> j, status |-> s]

\* HandoffUpdate::slot: one slot per attempt and kind, whatever the job.
SameSlot(a, b) == /\ a.kind \in Updates
                  /\ a.kind = b.kind
                  /\ a.job[1] = b.job[1]

Exists(r, n)  == r[n].job # NoJob
Holds(r, j)   == r[j[1]].job = j
\* Handoff::current, the attempt with the highest number.
IsCurrent(r, n) == Exists(r, n) /\ \A m \in Attempts : m > n => ~Exists(r, m)
\* Slip: the report alone is an attempt's outcome.
OutcomeReported(a) == a.report

\* HandoffAttempt::outcome: a cancellation before a report.
Outcome(a)    == IF a.cancelled THEN "cancelled" ELSE a.report
Settled(a)    == Outcome(a) \in Terminal

\* Slip: the attempt number alone says whose update it is.
MergeableByNumber(r, u) == TRUE

\* merge refuses an update whose attempt number belongs to another request.
Mergeable(r, u) == r[u.job[1]].job \in {NoJob, u.job}

\* Slip: a report replaces whatever is there, so a replay can undo a finish.
MergedAnyReport(r, u) ==
    LET n == u.job[1]
        a == IF Exists(r, n) THEN r[n] ELSE Blank(u.job)
    IN  [r EXCEPT ![n] = [a EXCEPT !.report = IF u.kind = "report" THEN u.status ELSE @,
                                   !.cancelled = @ \/ u.kind = "cancel"]]

Merged(r, u) ==
    LET n == u.job[1]
        a == IF Exists(r, n) THEN r[n] ELSE Blank(u.job)
        \* Terminal reports never regress or get replaced by another finish.
        report == IF u.kind = "report" /\ a.report \notin Terminal THEN u.status ELSE a.report
    IN  [r EXCEPT ![n] = [a EXCEPT !.report = report, !.cancelled = @ \/ u.kind = "cancel"]]

-----------------------------------------------------------------------------
VARIABLES
    rec,        \* rec[d][n]: attempt n in the handoffs table of Device d
    outbox,     \* outbox[d]: items Device d has yet to see stored by the relay
    sent,       \* sent[d]: the first item is stored, its answer was lost
    inbox,      \* inbox[d]: the relay's blobs for d after its saved last_seq
    read,       \* read[d]: how many of them d applied since it saved last_seq
    opened,     \* envelopes Target has opened (opened_envelopes)
    calledOff,  \* jobs named by an opened job_cancel (cancelled_jobs)
    opening,    \* the job whose envelope is opened and not yet staged
    turn,       \* turn[j]: the recipient's job on Target (running_jobs)
    token,      \* jobs of `turn` whose cancellation token is set
    limited,    \* jobs their limits stopped on Target
    routing,    \* reports route_report has read and not yet acted on (Source)
    cont,       \* cont[j]: the requester's continuation of job j (Source)
    admitting,  \* admissions between the two times they hold handoff_lock
    minted,     \* job ids in use
    moved,      \* which of the bots "from" and "target" left their Runner
    restarts,   \* restarts[d] so far
    ran,        \* history: jobs whose turn started on Target
    woke        \* history: jobs whose continuation started on Source

store == <<rec, outbox, sent>>
relay == <<inbox, read>>
envs  == <<opened, calledOff, opening>>
runs  == <<turn, token, limited, ran>>
conts == <<routing, cont, woke>>
ctl   == <<admitting, minted, moved, restarts>>
vars  == <<store, relay, envs, runs, conts, ctl>>

Init ==
    /\ rec = [d \in Devices |-> [n \in Attempts |-> Blank(NoJob)]]
    /\ outbox = [d \in Devices |-> <<>>]
    /\ sent = [d \in Devices |-> FALSE]
    /\ inbox = [d \in Devices |-> <<>>]
    /\ read = [d \in Devices |-> 0]
    /\ opened = {}
    /\ calledOff = {}
    /\ opening = NoJob
    /\ turn = [j \in Jobs |-> "idle"]
    /\ token = {}
    /\ limited = {}
    /\ routing = {}
    /\ cont = [j \in Jobs |-> "idle"]
    /\ admitting = {}
    /\ minted = {}
    /\ moved = {}
    /\ restarts = [d \in Devices |-> 0]
    /\ ran = {}
    /\ woke = {}

-----------------------------------------------------------------------------
(* Saving, the outbox and the relay.                                       *)

\* queue_outbox_tx: a version of a slot still waiting gives way in its place.
Queued(q, item) ==
    IF \E i \in DOMAIN q : SameSlot(q[i], item)
    THEN [i \in DOMAIN q |-> IF SameSlot(q[i], item) THEN item ELSE q[i]]
    ELSE Append(q, item)

\* save: the record and what announces it, the update before an envelope.
Save(d, r, update, envelopes) ==
    /\ rec' = [rec EXCEPT ![d] = r]
    /\ outbox' = [outbox EXCEPT ![d] = Queued(@, update) \o envelopes]
    /\ sent' = [sent EXCEPT ![d] =
                   @ /\ outbox[d] # <<>> /\ ~SameSlot(Head(outbox[d]), update)]

SaveQuietly(d, r) ==
    /\ rec' = [rec EXCEPT ![d] = r]
    /\ UNCHANGED <<outbox, sent>>

Addressed(item, d) == item.kind \in Updates \/ d = Target

\* insert_blob with supersede, seen from one Device's end of the log.
Stored(q, item) ==
    IF \E i \in DOMAIN q : SameSlot(q[i], item)
    THEN Append(RemoveAt(q, CHOOSE i \in DOMAIN q : SameSlot(q[i], item)), item)
    ELSE Append(q, item)

\* Slip: the position moves for a blob not read yet.
SupersedesAny(d, item) == \E i \in DOMAIN inbox[d] : SameSlot(inbox[d][i], item)

SupersedesRead(d, item) == \E i \in 1..read[d] : SameSlot(inbox[d][i], item)

Upload(item) ==
    /\ inbox' = [d \in Devices |->
          IF Addressed(item, d) THEN Stored(inbox[d], item) ELSE inbox[d]]
    /\ read' = [d \in Devices |->
          IF Addressed(item, d) /\ SupersedesRead(d, item) THEN read[d] - 1 ELSE read[d]]

\* The relay still holds the blob under its id; an envelope leaves when opened.
Known(item) == item.kind \in Updates \/ \E i \in DOMAIN inbox[Target] : inbox[Target][i] = item

\* drain_outbox: the first item, again when its answer was lost.
Drain(d, answered) ==
    /\ "relay" \in Occurs
    /\ answered \/ "answer" \in Occurs
    /\ outbox[d] # <<>>
    /\ LET item == Head(outbox[d]) IN
       IF sent[d] /\ Known(item) THEN UNCHANGED relay ELSE Upload(item)
    /\ outbox' = [outbox EXCEPT ![d] = IF answered THEN Tail(@) ELSE @]
    /\ sent' = [sent EXCEPT ![d] = ~answered]
    /\ UNCHANGED <<rec, envs, runs, conts, ctl>>

\* pull_blobs: last_seq is saved at the end of a page.
SavePage(d) ==
    /\ read[d] > 0
    /\ inbox' = [inbox EXCEPT ![d] = SubSeq(@, read[d] + 1, Len(@))]
    /\ read' = [read EXCEPT ![d] = 0]
    /\ UNCHANGED <<store, envs, runs, conts, ctl>>

-----------------------------------------------------------------------------
(* Turns on Target and reports routed on Source.                           *)

\* spawn_local_job once the request is staged: running_jobs takes a job once.
Spawned(t, j) == IF t[j] = "idle" THEN [t EXCEPT ![j] = "queued"] ELSE t

\* cancel_job reaches only jobs in running_jobs.
Cancelled(tok, j) == IF turn[j] = "idle" THEN tok ELSE tok \cup {j}

\* Slip: the record is taken as it comes, cancelled or not.
RoutesCancelled(d, r) ==
    {r[n].job : n \in {n \in Attempts :
        d = Source /\ IsCurrent(r, n) /\ r[n].report \in Terminal \ {"cancelled"}
                   /\ r[n].result = "pending" /\ "from" \notin moved}}

\* route_report up to its look at running_jobs: the current attempt, on the
\* requesting bot's Runner, reported and neither cancelled nor yet delivered.
Routes(d, r) ==
    {r[n].job : n \in {n \in Attempts :
        /\ d = Source
        /\ IsCurrent(r, n)
        /\ ~r[n].cancelled
        /\ r[n].report \in Terminal \ {"cancelled"}
        /\ r[n].result = "pending"
        /\ "from" \notin moved}}

\* publish_report on Target.  A first terminal report stays.
Publish(j, s) ==
    LET r == rec[Target]
        u == ReportItem(j, s)
    IN  IF Holds(r, j) /\ r[j[1]].report \notin Terminal
        THEN /\ Save(Target, Merged(r, u), u, <<>>)
             /\ routing' = routing \cup Routes(Target, Merged(r, u))
        ELSE /\ UNCHANGED store
             /\ routing' = routing \cup Routes(Target, r)

-----------------------------------------------------------------------------
(* Admission.                                                              *)

Fresh(n) == {j \in Jobs \ minted : j[1] = n /\ \A i \in Jobs \ minted : i[1] = n => j[2] <= i[2]}

\* admit under handoff_lock, then the local start of the job.  A request for
\* another Runner is queued with its sealed job.
Admitted(d, j) ==
    LET u == Item("request", j)
        r == Merged(rec[d], u)
    IN  /\ Save(d, r, u, IF d = Target THEN <<>> ELSE <<Item("job", j)>>)
        /\ turn' = IF d = Target THEN Spawned(turn, j) ELSE turn

\* delegate: the first attempt.
Delegate ==
    /\ minted = {}
    /\ \E j \in Fresh(1) :
          /\ minted' = {j}
          /\ Admitted(Source, j)
    /\ UNCHANGED <<relay, envs, token, limited, ran, conts, admitting, moved, restarts>>

Admission == [by : Devices, job : Jobs, replaces : Jobs]

Prepare(d, n) ==
    /\ n < MaxAttempts
    /\ \E j \in Fresh(n + 1) :
          /\ minted' = minted \cup {j}
          /\ admitting' = admitting \cup {[by |-> d, job |-> j, replaces |-> rec[d][n].job]}
    /\ UNCHANGED <<store, relay, envs, turn, token, ran, conts, moved, restarts>>

\* follow_up, first hold of the lock: the requester replaces a settled attempt.
FollowUp ==
    \E n \in Attempts :
        /\ IsCurrent(rec[Source], n)
        /\ Settled(rec[Source][n])
        /\ Prepare(Source, n)
        /\ UNCHANGED limited

\* resume_stopped, first hold of the lock: the user resumes, once, a turn its
\* limits stopped, and the attempt that reported goes on as the next one.
ResumeStopped(j) ==
    /\ j \in limited
    /\ IsCurrent(rec[Target], j[1]) /\ Holds(rec[Target], j)
    /\ ~rec[Target][j[1]].cancelled
    /\ rec[Target][j[1]].report \in Terminal
    /\ Prepare(Target, j[1])
    /\ limited' = limited \ {j}

\* resume_stopped on an attempt still without a terminal report: start_turn.
ResumeUnreported(j) ==
    /\ j \in limited
    /\ IsCurrent(rec[Target], j[1]) /\ Holds(rec[Target], j)
    /\ ~rec[Target][j[1]].cancelled
    /\ rec[Target][j[1]].report \notin Terminal
    /\ "target" \notin moved
    /\ turn' = Spawned(turn, j)
    /\ limited' = limited \ {j}
    /\ UNCHANGED <<store, relay, envs, token, ran, conts, ctl>>

\* Second hold of the lock: `replaces` must still be the current job.
Replaces(a) == \E n \in Attempts : IsCurrent(rec[a.by], n) /\ rec[a.by][n].job = a.replaces

Admit(a) ==
    /\ admitting' = admitting \ {a}
    /\ IF Replaces(a) /\ Mergeable(rec[a.by], Item("request", a.job))
       THEN Admitted(a.by, a.job)
       ELSE UNCHANGED <<store, turn>>
    /\ UNCHANGED <<relay, envs, token, limited, ran, conts, minted, moved, restarts>>

\* Slip: an attempt that ended is cancelled all the same.
CancelAnyway ==
    \E n \in Attempts :
        LET r == rec[Source]
            u == Item("cancel", r[n].job)
        IN  /\ IsCurrent(r, n)
            /\ ~r[n].cancelled
            /\ Save(Source, Merged(r, u), u, <<>>)
            /\ UNCHANGED <<relay, envs, runs, conts, ctl>>

\* cancel, and stop for a turn of the user's that handed this work off: both
\* go through record_cancellation and then cancel the job here.
Cancel ==
    \E n \in Attempts :
        LET r == rec[Source]
            j == r[n].job
            u == Item("cancel", j)
        IN  /\ IsCurrent(r, n)
            /\ ~Settled(r[n])
            /\ Save(Source, Merged(r, u), u,
                    IF Source = Target THEN <<>> ELSE <<Item("job_cancel", j)>>)
            /\ token' = IF Source = Target THEN Cancelled(token, j) ELSE token
            /\ UNCHANGED <<relay, envs, turn, limited, ran, conts, ctl>>

-----------------------------------------------------------------------------
(* What a pull applies, one blob at a time and in the relay's order.  Only *)
(* a restart reads a blob again, so a Device that does not restart in this *)
(* instance lets go of it at once.                                         *)

Next1(d) == inbox[d][read[d] + 1]

Applying(d) ==
    /\ read[d] < Len(inbox[d])
    /\ d = Target => opening = NoJob
    /\ IF d \in Restarting
       THEN read' = [read EXCEPT ![d] = @ + 1] /\ UNCHANGED inbox
       ELSE inbox' = [inbox EXCEPT ![d] = Tail(@)] /\ UNCHANGED read
    /\ UNCHANGED <<ctl, limited, ran, cont, woke>>

\* apply_update.  One the record refuses is logged and passed over.
ApplyUpdate(d) ==
    /\ Applying(d)
    /\ Next1(d).kind \in Updates
    /\ LET u == Next1(d)
           r == Merged(rec[d], u)
       IN  IF Mergeable(rec[d], u)
           THEN /\ SaveQuietly(d, r)
                /\ token' = IF u.kind = "cancel" /\ d = Target THEN Cancelled(token, u.job)
                            ELSE token
                /\ routing' = routing \cup Routes(d, r)
           ELSE UNCHANGED <<store, token, routing>>
    /\ UNCHANGED <<envs, turn>>

\* apply_envelope on a `job`: opened at most once, and not after its cancellation.
OpenJob ==
    /\ Applying(Target)
    /\ Next1(Target).kind = "job"
    /\ LET item == Next1(Target) IN
       /\ opened' = opened \cup {item}
       /\ opening' = IF item \in opened \/ item.job \in calledOff THEN NoJob ELSE item.job
    /\ UNCHANGED <<store, calledOff, turn, token, routing>>

\* apply_envelope on a `job_cancel`: recorded, then the job here is cancelled.
OpenCancel ==
    /\ Applying(Target)
    /\ Next1(Target).kind = "job_cancel"
    /\ LET item == Next1(Target) IN
       /\ opened' = opened \cup {item}
       /\ calledOff' = IF item \in opened THEN calledOff ELSE calledOff \cup {item.job}
       /\ token' = IF item \in opened THEN token ELSE Cancelled(token, item.job)
    /\ UNCHANGED <<store, opening, turn, routing>>

\* An envelope past its age is refused, or the relay swept it.
Expire ==
    /\ "expire" \in Occurs
    /\ Applying(Target)
    /\ Next1(Target).kind \in Envelopes
    /\ UNCHANGED <<store, envs, turn, token, routing>>

\* spawn_local_job for an opened job: stage_job persists the request, then the
\* job joins running_jobs.  A record that refuses the request drops the job.
StageJob ==
    /\ opening # NoJob
    /\ LET u == Item("request", opening) IN
       IF Mergeable(rec[Target], u)
       THEN /\ SaveQuietly(Target, Merged(rec[Target], u))
            /\ turn' = Spawned(turn, opening)
       ELSE UNCHANGED <<store, turn>>
    /\ opening' = NoJob
    /\ UNCHANGED <<relay, opened, calledOff, token, limited, ran, conts, ctl>>

-----------------------------------------------------------------------------
(* The recipient's turn on Target.                                         *)

ChatFree == \A j \in Jobs : turn[j] \notin {"working", "skipping"}

\* Slip: any current attempt may be claimed, whatever it has come to.
ClaimableAgain(j) ==
    LET r == Merged(rec[Target], Item("request", j))
    IN  Mergeable(rec[Target], Item("request", j)) /\ IsCurrent(r, j[1])

\* handoffs::begin_job: the job may claim its attempt.
Claimable(j) ==
    /\ "target" \notin moved
    /\ Mergeable(rec[Target], Item("request", j))
    /\ LET r == Merged(rec[Target], Item("request", j)) IN
       /\ IsCurrent(r, j[1])
       /\ Outcome(r[j[1]]) = "none"

\* run_job_started: the claim is saved before the turn starts, and a job that
\* was refused or is cancelled by then ends without one.
Begin(j) ==
    /\ turn[j] = "queued"
    /\ ChatFree
    /\ IF Claimable(j)
       THEN Save(Target, Merged(rec[Target], ReportItem(j, "running")),
                 ReportItem(j, "running"), <<>>)
       ELSE UNCHANGED store
    /\ LET starts == Claimable(j) /\ j \notin token IN
       /\ turn' = [turn EXCEPT ![j] = IF starts THEN "working" ELSE "skipping"]
       /\ ran' = IF starts THEN ran \cup {j} ELSE ran
    /\ UNCHANGED <<relay, envs, token, limited, conts, ctl>>

\* The report tool, on the current attempt until it has an outcome.
ReportTool(s) ==
    /\ \E n \in Attempts :
          /\ IsCurrent(rec[Target], n)
          /\ ~Settled(rec[Target][n])
          /\ Publish(rec[Target][n].job, s)
    /\ UNCHANGED <<relay, envs, runs, cont, woke, ctl>>

\* The turn's own limits, or its task's, stop it.
StopAtLimits(j) ==
    /\ "limit" \in Occurs
    /\ turn[j] = "working"
    /\ limited' = limited \cup {j}
    /\ token' = token \cup {j}
    /\ UNCHANGED <<store, relay, envs, turn, ran, conts, ctl>>

\* The user's Stop in the recipient's chat.
StopTurn(j) ==
    /\ "stop" \in Occurs
    /\ turn[j] # "idle"
    /\ token' = token \cup {j}
    /\ UNCHANGED <<store, relay, envs, turn, limited, ran, conts, ctl>>

\* finish_job's status of a turn that ended without a report of its own.
StatusOf(j, outcome) ==
    CASE outcome = "skipped" /\ j \in limited      -> "blocked"
      [] ~(outcome = "skipped" /\ j \in limited) /\ j \in token -> "cancelled"
      [] j \notin token /\ outcome = "skipped" /\ j \notin limited -> "failed"
      [] j \notin token /\ outcome = "sent"        -> "completed"
      [] j \notin token /\ outcome = "pass"        -> "blocked"

Finish(j, outcome) ==
    /\ turn[j] = "working" \/ (turn[j] = "skipping" /\ outcome = "skipped")
    /\ IF Holds(rec[Target], j)
       THEN IF Settled(rec[Target][j[1]])
            THEN /\ UNCHANGED store
                 /\ routing' = routing \cup Routes(Target, rec[Target])
            ELSE Publish(j, StatusOf(j, outcome))
       ELSE UNCHANGED <<store, routing>>
    /\ turn' = [turn EXCEPT ![j] = "idle"]
    /\ token' = token \ {j}
    /\ UNCHANGED <<relay, envs, limited, ran, cont, woke, ctl>>

-----------------------------------------------------------------------------
(* The requester's continuation on Source.                                 *)

\* route_report's second half, which acts on what it read before.
SpawnContinuation(j) ==
    /\ j \in routing
    /\ routing' = routing \ {j}
    /\ cont' = Spawned(cont, j)
    /\ UNCHANGED <<store, relay, envs, runs, woke, ctl>>

WithResult(j, s) == [rec[Source] EXCEPT ![j[1]].result = s]

\* handoffs::begin_job on a result job, and run_job_started.
BeginContinuation(j) ==
    /\ cont[j] = "queued"
    /\ \A i \in Jobs : cont[i] # "working"
    /\ IF Holds(rec[Source], j) /\ rec[Source][j[1]].result = "pending"
       THEN /\ SaveQuietly(Source, WithResult(j, "started"))
            /\ cont' = [cont EXCEPT ![j] = "working"]
            /\ woke' = woke \cup {j}
       ELSE /\ IF Holds(rec[Source], j)
               THEN SaveQuietly(Source, WithResult(j, "finished"))
               ELSE UNCHANGED store
            /\ cont' = [cont EXCEPT ![j] = "idle"]
            /\ UNCHANGED woke
    /\ UNCHANGED <<relay, envs, runs, routing, ctl>>

FinishContinuation(j) ==
    /\ cont[j] = "working"
    /\ SaveQuietly(Source, WithResult(j, "finished"))
    /\ cont' = [cont EXCEPT ![j] = "idle"]
    /\ UNCHANGED <<relay, envs, runs, routing, woke, ctl>>

-----------------------------------------------------------------------------
(* A Device's process stops and starts: handoffs::resume runs on what the  *)
(* store kept, before the first pull.                                      *)

\* The current attempt as Target finds it: a claim of the last process failed.
Recovered(d, r) ==
    {n \in Attempts : d = Target /\ IsCurrent(r, n) /\ Outcome(r[n]) = "running"}

\* A continuation that had started is not run again.
Closed(d, r) ==
    [n \in Attempts |->
        IF d = Source /\ IsCurrent(r, n) /\ r[n].result = "started"
        THEN [r[n] EXCEPT !.result = "finished"] ELSE r[n]]

\* Slip: a start leaves queued work to the relay's replay.
WaitingNone(r) == {}

Waiting(r) == {r[n].job : n \in {n \in Attempts : IsCurrent(r, n) /\ Outcome(r[n]) = "none"}}

Restart(d) ==
    /\ d \in Restarting
    /\ restarts[d] < MaxRestarts
    /\ restarts' = [restarts EXCEPT ![d] = @ + 1]
    /\ read' = [read EXCEPT ![d] = 0]
    /\ admitting' = {a \in admitting : a.by # d}
    /\ IF Recovered(d, rec[d]) # {}
       THEN \E n \in Recovered(d, rec[d]) :
               LET u == ReportItem(rec[d][n].job, "failed")
               IN  Save(d, Closed(d, Merged(rec[d], u)), u, <<>>)
       ELSE SaveQuietly(d, Closed(d, rec[d]))
    /\ IF d = Target
       THEN /\ turn' = [j \in Jobs |-> IF j \in Waiting(rec[d]) THEN "queued" ELSE "idle"]
            /\ token' = {}
            /\ opening' = NoJob
       ELSE UNCHANGED <<turn, token, opening>>
    /\ IF d = Source
       THEN /\ cont' = [j \in Jobs |-> "idle"]
            /\ routing' = Routes(d, rec'[d])
       ELSE UNCHANGED <<cont, routing>>
    /\ UNCHANGED <<inbox, opened, calledOff, limited, ran, woke, minted, moved>>

\* The roster assigns a bot to another Runner.
MoveBot ==
    /\ "move" \in Occurs
    /\ \E bot \in {"from", "target"} \ moved : moved' = moved \cup {bot}
    /\ UNCHANGED <<store, relay, envs, runs, conts, admitting, minted, restarts>>

-----------------------------------------------------------------------------
\* What a Device's sync applies, one blob after another.
Apply(d) == ApplyUpdate(d) \/ (d = Target /\ (OpenJob \/ OpenCancel \/ StageJob))

TurnStep(j) ==
    \/ Begin(j)
    \/ \E outcome \in Endings \cup {"skipped"} : Finish(j, outcome)

ContinuationStep(j) ==
    SpawnContinuation(j) \/ BeginContinuation(j) \/ FinishContinuation(j)

SyncStep(d) ==
    \/ Drain(d, TRUE)
    \/ Drain(d, FALSE)
    \/ SavePage(d)
    \/ ApplyUpdate(d)

UserStep(j) ==
    ResumeStopped(j) \/ ResumeUnreported(j) \/ StopAtLimits(j) \/ StopTurn(j)

Next ==
    \/ Delegate \/ FollowUp \/ Cancel \/ MoveBot
    \/ OpenJob \/ OpenCancel \/ Expire \/ StageJob
    \/ \E a \in admitting : Admit(a)
    \/ \E s \in Claims : ReportTool(s)
    \/ \E d \in Devices : SyncStep(d) \/ Restart(d)
    \/ \E j \in Jobs : TurnStep(j) \/ ContinuationStep(j) \/ UserStep(j)

Spec == Init /\ [][Next]_vars

-----------------------------------------------------------------------------
(* Properties.                                                             *)

\* Every variable has its type, and the relay and the outboxes hold items.
TypeOK ==
    /\ rec \in [Devices -> [Attempts -> Attempt]]
    /\ outbox \in [Devices -> Seq(Items)]
    /\ sent \in [Devices -> BOOLEAN]
    /\ inbox \in [Devices -> Seq(Items)]
    /\ read \in [Devices -> Nat]
    /\ opened \in SUBSET Items
    /\ calledOff \in SUBSET Jobs
    /\ opening \in Jobs \cup {NoJob}
    /\ turn \in [Jobs -> {"idle", "queued", "working", "skipping"}]
    /\ token \in SUBSET Jobs
    /\ limited \in SUBSET Jobs
    /\ routing \in SUBSET Jobs
    /\ cont \in [Jobs -> {"idle", "queued", "working"}]
    /\ admitting \in SUBSET Admission
    /\ minted \in SUBSET Jobs
    /\ moved \in SUBSET {"from", "target"}
    /\ restarts \in [Devices -> 0..MaxRestarts]
    /\ ran \in SUBSET Jobs
    /\ woke \in SUBSET Jobs

\* A terminal report any Device holds is the one the recipient's Runner holds
\* for that job, whatever order updates, echoes and replays arrive in.
ReportsAgree ==
    \A d \in Devices, n \in Attempts :
        rec[d][n].report \in Terminal =>
            /\ rec[Target][n].job = rec[d][n].job
            /\ rec[Target][n].report = rec[d][n].report

\* A cancellation any Device holds is one the requester made of that job.
CancellationsAgree ==
    \A d \in Devices, n \in Attempts :
        rec[d][n].cancelled =>
            rec[Source][n].cancelled /\ rec[Source][n].job = rec[d][n].job

Starts(j) == turn[j] # "working" /\ turn'[j] = "working"

\* No job runs two turns: not for a duplicate envelope, not after a restart,
\* not when it is resumed or staged again.
StartsOnce    == \A j \in Jobs : Starts(j) => j \notin ran
OneTurnPerJob == [][StartsOnce]_vars

\* No turn starts for a job Target was told to cancel, in either form, or for
\* one whose attempt it knows to be replaced or reported.
StartsWanted ==
    \A j \in Jobs : Starts(j) =>
        /\ j \notin calledOff
        /\ IsCurrent(rec'[Target], j[1]) /\ Holds(rec'[Target], j)
        /\ ~rec'[Target][j[1]].cancelled
        /\ rec'[Target][j[1]].report = "running"
NoTurnAfterCancel == [][StartsWanted]_vars

\* No report wakes the requester twice, though it is routed each time it is
\* published, merged or found at a start.
WakesOnce        == \A j \in Jobs : cont[j] # "working" /\ cont'[j] = "working" => j \notin woke
OneWakePerReport == [][WakesOnce]_vars

\* What the requester was told of an attempt never changes.
OutcomesStay ==
    \A n \in Attempts : Settled(rec[Source][n]) =>
        /\ rec'[Source][n].job = rec[Source][n].job
        /\ Outcome(rec'[Source][n]) = Outcome(rec[Source][n])
SourceOutcomeFinal == [][OutcomesStay]_vars

Quiet ==
    /\ \A d \in Devices : outbox[d] = <<>> /\ read[d] = Len(inbox[d])
    /\ opening = NoJob

\* The result of every attempt, a resumed one included, reaches the requester.
EveryReportArrives ==
    Quiet => \A n \in Attempts :
        rec[Target][n].report \in Terminal => rec[Source][n].report = rec[Target][n].report

\* The requester's side implements the abstract delegation.
Promise == INSTANCE Delegation WITH
    outcome <- [n \in Attempts |->
        IF ~Exists(rec[Source], n) THEN "absent"
        ELSE IF Settled(rec[Source][n]) THEN Outcome(rec[Source][n]) ELSE "outstanding"],
    woken <- {n \in Attempts : rec[Source][n].job \in woke}

\* Attempts come one after another on Source, each ends once and wakes the
\* requester at most once, never after its cancellation.
KeepsPromise == Promise!Spec

-----------------------------------------------------------------------------
(* Liveness, when the relay is reached and turns end.                      *)

Fairness ==
    /\ \A d \in Devices : WF_vars(Drain(d, TRUE)) /\ WF_vars(Apply(d))
    /\ WF_vars(\E a \in admitting : Admit(a))
    /\ \A j \in Jobs : WF_vars(TurnStep(j)) /\ WF_vars(ContinuationStep(j))

FairSpec == Spec /\ Fairness

\* What the requester awaits: an attempt without an outcome, or one whose report, while it is
\* current, has yet to wake it.
Awaited ==
    {n \in Attempts :
        \/ Exists(rec[Source], n) /\ ~Settled(rec[Source][n])
        \/ /\ IsCurrent(rec[Source], n)
           /\ Outcome(rec[Source][n]) \in Terminal \ {"cancelled"}
           /\ rec[Source][n].result # "finished"}

\* Every attempt the requester sent ends on Source and its report wakes the requester, unless
\* another attempt replaces it, through lost answers and restarts of either Runner at any point.
EveryAttemptEnds == Awaited # {} ~> Awaited = {}
=============================================================================
