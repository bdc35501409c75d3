------------------------------- MODULE Tasks -------------------------------
(***************************************************************************)
(* One durable task (crates/cli/src/tasks).  Its authority, the Runner its *)
(* first owner ran on, serializes every change: a call names the revision  *)
(* it was made from and a request id whose receipt answers a retry.  The   *)
(* record, the receipt, the relay blob and the dispatch of a run commit in *)
(* one transaction.  The assigned Runner claims a run durably before its   *)
(* turn, asks the authority before it begins, and reports until answered.  *)
(* Every other Device keeps a replica.  Devices stop and start again       *)
(* between any two steps, which loses calls, pages and turns.              *)
(***************************************************************************)
EXTENDS Naturals, Sequences

CONSTANTS Devices,      \* the account's paired Devices
          Authority,    \* the task's authority Runner
          Runners,      \* the Devices its owner may run on
          Callers,      \* the Devices whose users and bots change the task
          Edits,        \* the states calls record
          MaxRequests,  \* bound: request ids used
          MaxRuns,      \* bound: runs started
          Restarting,   \* the Devices that may stop and start again
          MaxRestarts,  \* bound: restarts of each of them
          Occurs        \* what else may happen: a subset of Events

\* "expire": a sealed job gets too old to open.  "unclaimed": a Runner stops
\* after it opened a job and before it claimed the run.  "refresh": a reader
\* asks the authority for the record.  "reupload": the authority queues its
\* record again with the account's history.
Events == {"expire", "unclaimed", "refresh", "reupload"}

States   == {"queued", "working", "blocked", "awaiting_review", "completed", "cancelled"}
Finished == {"completed", "cancelled"}

ASSUME TaskConstants ==
    /\ Runners \subseteq Devices
    /\ Authority \in Runners
    /\ Callers \subseteq Devices
    /\ Edits \subseteq States
    /\ Restarting \subseteq Devices
    /\ MaxRequests \in Nat
    /\ MaxRuns \in Nat
    /\ MaxRestarts \in Nat
    /\ Occurs \subseteq Events

-----------------------------------------------------------------------------
(* Records.                                                                *)

Requests == 1..MaxRequests
Runs     == 1..MaxRuns
NoRun    == 0

\* `run` is active_run's id.  Goal, criteria, result, evidence and history
\* are content: two records of one revision are the same record.
Task == [revision : Nat, state : States, run : Runs \cup {NoRun}, runner : Runners]

NoTask == [revision |-> 0, state |-> "queued", run |-> NoRun, runner |-> Authority]

\* A call: what it does, the record it was made from (whose revision it
\* expects), the Device that makes it, and the run whose own turn makes it.
\* `to` is the new state or the new owner's Runner.
Methods == {"create", "update", "assign", "run"}
Request ==
    {r \in [method : Methods, seen : Task, to : States \cup Runners,
            from : Devices, by : Runs \cup {NoRun}] :
        /\ r.method = "update" => r.to \in States
        /\ r.method = "assign" => r.to \in Runners}

\* A sealed job and the snapshot in it; where it is.
Job == [at : {"none", "queued", "sent", "opened", "gone"}, task : Task]

\* What a handler still has to do: start a run, tell one to stop, queue a record.
Duties == ({"start", "cancel"} \X Runs) \cup ({"upload"} \X Task)

VARIABLES
    task,      \* task[d]: the record d holds; the authority's is the task
    receipts,  \* receipts[q]: what the call with request id q committed
    settled,   \* settled[k]: the receipt of run k's report
    journal,   \* journal[k]: task_runs on run k's Runner
    finish,    \* finish[k]: the outcome journaled for run k
    asked,     \* asked[q]: the call made under request id q
    reply,     \* reply[d]: an answer on its way to d
    out,       \* the authority's queued `task` blob
    slot,      \* the relay's `task` blob
    page,      \* page[d]: the blob d has read and not applied
    assigned,  \* assigned[k]: run k's Runner; its length counts runs
    job,       \* job[k]: the sealed job and the snapshot in it
    stop,      \* stop[k]: run k's sealed job_cancel
    todo,      \* what the authority's handlers still do after a commit
    turn,      \* turn[k]: run k's turn on its Runner
    token,     \* runs whose turn is told to stop
    restarts,  \* restarts[d]: times d has restarted
    log,       \* history: what the authority committed, in order
    ran        \* history: runs whose turn has begun

vars == <<task, receipts, settled, journal, finish, asked, reply, out, slot, page,
          assigned, job, stop, todo, turn, token, restarts, log, ran>>

Current    == task[Authority]
Minted     == DOMAIN assigned
RunOn(d)   == {k \in Minted : assigned[k] = d}

Init ==
    /\ task = [d \in Devices |-> NoTask]
    /\ receipts = [q \in Requests |-> NoTask]
    /\ settled = [k \in Runs |-> NoTask]
    /\ journal = [k \in Runs |-> "none"]
    /\ finish = [k \in Runs |-> "none"]
    /\ asked = <<>>
    /\ reply = [d \in Devices |-> NoTask]
    /\ out = NoTask
    /\ slot = NoTask
    /\ page = [d \in Devices |-> NoTask]
    /\ assigned = <<>>
    /\ job = [k \in Runs |-> [at |-> "none", task |-> NoTask]]
    /\ stop = [k \in Runs |-> "none"]
    /\ todo = {}
    /\ turn = [k \in Runs |-> "none"]
    /\ token = {}
    /\ restarts = [d \in Devices |-> 0]
    /\ log = <<>>
    /\ ran = {}

-----------------------------------------------------------------------------
(* The authority's transaction.                                            *)

\* The record, the blob that replaces the queued one, and the history.
Commit(t) ==
    /\ task' = [task EXCEPT ![Authority] = t]
    /\ out' = t
    /\ log' = Append(log, t)

\* Slip: a replica counts the records it takes.
AppliedAsOwn(d, t) ==
    IF d # Authority /\ t.revision > task[d].revision
      THEN [t EXCEPT !.revision = task[d].revision + 1] ELSE task[d]

\* apply: a newer revision replaces a replica; the authority takes none.
Applied(d, t) ==
    IF d # Authority /\ t.revision > task[d].revision THEN t ELSE task[d]

-----------------------------------------------------------------------------
(* Calls.                                                                  *)

\* A user or a bot calls from what its Device shows.  A run's own turn names
\* the run in its updates.
Ask(d, method, to, by) ==
    /\ d \in Callers
    /\ Len(asked) < MaxRequests
    /\ method = "create" <=> task[d].revision = 0
    /\ by # NoRun => method = "update" /\ turn[by] = "running" /\ assigned[by] = d
    /\ asked' = Append(asked, [method |-> method, seen |-> task[d],
                               to |-> to, from |-> d, by |-> by])
    /\ UNCHANGED <<task, receipts, settled, journal, finish, reply, out, slot, page,
                   assigned, job, stop, todo, turn, token, restarts, log, ran>>

\* What `create`, `patch` and `run` refuse.
Allows(t, r) ==
    /\ r.method = "create" <=> t.revision = 0
    /\ r.method = "update" /\ r.to = "working" => t.state = "working"
    /\ r.method = "assign" => t.run = NoRun
    /\ r.method = "run" => /\ t.run = NoRun
                           /\ t.state \notin Finished \cup {"awaiting_review"}

\* Slip: the revision is not compared.
PermitsAnyRevision(t, r) == Allows(t, r)

\* Slip: a task that is no longer working may run again at once.
PermitsRerun(t, r) ==
    /\ r.seen.revision = t.revision
    /\ Allows(IF r.method = "run" /\ t.state = "queued" THEN [t EXCEPT !.run = NoRun] ELSE t, r)

Permits(t, r) == r.seen.revision = t.revision /\ Allows(t, r)

Changed(t, r) ==
    LET next == [t EXCEPT !.revision = t.revision + 1] IN
    CASE r.method = "create" -> next
      [] r.method = "update" -> [next EXCEPT !.state = r.to]
      [] r.method = "assign" -> [next EXCEPT !.runner = r.to]
      [] r.method = "run"    -> [next EXCEPT !.state = "working", !.run = Len(assigned) + 1]

\* The run starts here after the commit, or its sealed job goes out with it.
Dispatch(t) ==
    /\ assigned' = Append(assigned, t.runner)
    /\ IF t.runner = Authority
         THEN /\ journal' = [journal EXCEPT ![t.run] = "pending"]
              /\ todo' = todo \cup {<<"start", t.run>>}
              /\ UNCHANGED job
         ELSE /\ job' = [job EXCEPT ![t.run] = [at |-> "queued", task |-> t]]
              /\ UNCHANGED <<journal, todo>>

\* Slip: only a run on the authority is told.
CancelsHere(t, r) ==
    t.run # NoRun /\ t.state # "working" /\ t.run # r.by /\ assigned[t.run] = Authority

\* An active run that the change takes out of `working` is told to stop,
\* unless it is the run that records its own outcome.
Cancels(t, r) == t.run # NoRun /\ t.state # "working" /\ t.run # r.by

Answered(d, t) == reply' = IF d = Authority THEN reply ELSE [reply EXCEPT ![d] = t]

\* mutate, for a request id without a receipt.
Serve(q) ==
    LET r == asked[q]
        t == Changed(Current, r)
    IN  /\ receipts[q] = NoTask
        /\ Permits(Current, r)
        /\ r.method = "run" => Len(assigned) < MaxRuns
        /\ Commit(t)
        /\ receipts' = [receipts EXCEPT ![q] = t]
        /\ Answered(r.from, t)
        /\ IF r.method = "run" THEN Dispatch(t)
           ELSE /\ todo' = IF Cancels(t, r) THEN todo \cup {<<"cancel", t.run>>} ELSE todo
                /\ UNCHANGED <<assigned, job, journal>>
        /\ UNCHANGED <<settled, finish, asked, slot, page, stop, turn, token, restarts, ran>>

\* mutate, for a retry: the receipt answers.
ServeAgain(q) ==
    /\ receipts[q] # NoTask
    /\ Answered(asked[q].from, receipts[q])
    /\ UNCHANGED <<task, receipts, settled, journal, finish, asked, out, slot, page,
                   assigned, job, stop, todo, turn, token, restarts, log, ran>>

\* tasks.get with `refresh`.
Refresh(d) ==
    /\ "refresh" \in Occurs
    /\ d # Authority
    /\ task[d] # NoTask
    /\ Answered(d, Current)
    /\ UNCHANGED <<task, receipts, settled, journal, finish, asked, out, slot, page,
                   assigned, job, stop, todo, turn, token, restarts, log, ran>>

TakeReply(d) ==
    /\ reply[d] # NoTask
    /\ task' = [task EXCEPT ![d] = Applied(d, reply[d])]
    /\ reply' = [reply EXCEPT ![d] = NoTask]
    /\ UNCHANGED <<receipts, settled, journal, finish, asked, out, slot, page,
                   assigned, job, stop, todo, turn, token, restarts, log, ran>>

-----------------------------------------------------------------------------
(* The relay.                                                              *)

UploadTask ==
    /\ out # NoTask
    /\ slot' = out
    /\ out' = NoTask
    /\ UNCHANGED <<task, receipts, settled, journal, finish, asked, reply, page,
                   assigned, job, stop, todo, turn, token, restarts, log, ran>>

\* push_all, when the account's history is uploaded again: it reads the record,
\* one such upload at a time,
Reupload ==
    /\ "reupload" \in Occurs
    /\ Current # NoTask
    /\ \A x \in todo : x[1] # "upload"
    /\ todo' = todo \cup {<<"upload", Current>>}
    /\ UNCHANGED <<task, receipts, settled, journal, finish, asked, reply, out, slot, page,
                   assigned, job, stop, turn, token, restarts, log, ran>>

\* and queues what it read, in place of what is queued by then.
Requeue ==
    \E t \in {x[2] : x \in {x \in todo : x[1] = "upload"}} :
        /\ out' = t
        /\ todo' = todo \ {<<"upload", t>>}
        /\ UNCHANGED <<task, receipts, settled, journal, finish, asked, reply, slot, page,
                       assigned, job, stop, turn, token, restarts, log, ran>>

Pull(d) ==
    /\ slot.revision > task[d].revision
    /\ page[d] # slot
    /\ page' = [page EXCEPT ![d] = slot]
    /\ UNCHANGED <<task, receipts, settled, journal, finish, asked, reply, out, slot,
                   assigned, job, stop, todo, turn, token, restarts, log, ran>>

ApplyPage(d) ==
    /\ page[d] # NoTask
    /\ task' = [task EXCEPT ![d] = Applied(d, page[d])]
    /\ page' = [page EXCEPT ![d] = NoTask]
    /\ UNCHANGED <<receipts, settled, journal, finish, asked, reply, out, slot,
                   assigned, job, stop, todo, turn, token, restarts, log, ran>>

UploadJob(k) ==
    /\ job[k].at = "queued"
    /\ job' = [job EXCEPT ![k].at = "sent"]
    /\ UNCHANGED <<task, receipts, settled, journal, finish, asked, reply, out, slot, page,
                   assigned, stop, todo, turn, token, restarts, log, ran>>

\* The envelope was stamped too long ago when its Runner reads it.
ExpireJob(k) ==
    /\ "expire" \in Occurs
    /\ job[k].at = "sent"
    /\ job' = [job EXCEPT ![k].at = "gone"]
    /\ UNCHANGED <<task, receipts, settled, journal, finish, asked, reply, out, slot, page,
                   assigned, stop, todo, turn, token, restarts, log, ran>>

\* open remembers the envelope, and refuses it from then on.
OpenJob(k) ==
    /\ job[k].at = "sent"
    /\ job' = [job EXCEPT ![k].at = "opened"]
    /\ UNCHANGED <<task, receipts, settled, journal, finish, asked, reply, out, slot, page,
                   assigned, stop, todo, turn, token, restarts, log, ran>>

-----------------------------------------------------------------------------
(* A run on its Runner.                                                    *)

\* claim_task_run: one claim per run, whatever delivers it.
Claimable(k) == journal[k] \in {"none", "pending"}

Claim(k) ==
    /\ Claimable(k)
    /\ journal' = [journal EXCEPT ![k] = "claimed"]
    /\ turn' = [turn EXCEPT ![k] = "waiting"]

\* A run dispatched here, by its handler or found pending at a start.
StartLocal(k) ==
    /\ <<"start", k>> \in todo
    /\ Claim(k)
    /\ todo' = todo \ {<<"start", k>>}
    /\ UNCHANGED <<task, receipts, settled, finish, asked, reply, out, slot, page,
                   assigned, job, stop, token, restarts, log, ran>>

\* A sealed job carries the record it was dispatched with.
StartSealed(k) ==
    /\ job[k].at = "opened"
    /\ Claim(k)
    /\ task' = [task EXCEPT ![assigned[k]] = Applied(assigned[k], job[k].task)]
    /\ job' = [job EXCEPT ![k] = [at |-> "gone", task |-> NoTask]]
    /\ UNCHANGED <<receipts, settled, finish, asked, reply, out, slot, page,
                   assigned, stop, todo, token, restarts, log, ran>>

\* tasks.validate_run, on the authority.
Authorized(k) == Current.run = k /\ Current.state = "working"

Validate(k) ==
    /\ turn[k] = "waiting"
    /\ Authorized(k)
    /\ turn' = [turn EXCEPT ![k] = "admitted"]
    /\ Answered(assigned[k], Current)
    /\ UNCHANGED <<task, receipts, settled, journal, finish, asked, out, slot, page,
                   assigned, job, stop, todo, token, restarts, log, ran>>

\* The authority refuses or does not answer, the bot moved or left the chat,
\* or the run was told to stop while it waited.
Refuse(k) ==
    /\ \/ turn[k] = "waiting"
       \/ turn[k] = "admitted" /\ (assigned[k] # Authority \/ k \in token)
    /\ turn' = [turn EXCEPT ![k] = "blocked"]
    /\ UNCHANGED <<task, receipts, settled, journal, finish, asked, reply, out, slot, page,
                   assigned, job, stop, todo, token, restarts, log, ran>>

Begin(k) ==
    /\ turn[k] = "admitted"
    /\ k \notin token
    /\ turn' = [turn EXCEPT ![k] = "running"]
    /\ ran' = ran \cup {k}
    /\ UNCHANGED <<task, receipts, settled, journal, finish, asked, reply, out, slot, page,
                   assigned, job, stop, todo, token, restarts, log>>

\* A reply makes the result; a stopped, failed or empty turn has none.
EndTurn(k) ==
    /\ turn[k] = "running"
    /\ \E o \in {"done", "blocked"} :
          /\ k \in token => o = "blocked"
          /\ turn' = [turn EXCEPT ![k] = o]
    /\ UNCHANGED <<task, receipts, settled, journal, finish, asked, reply, out, slot, page,
                   assigned, job, stop, todo, token, restarts, log, ran>>

\* finished: the outcome is journaled before it is sent.
SaveFinish(k) ==
    /\ turn[k] \in {"done", "blocked"}
    /\ journal' = [journal EXCEPT ![k] = "reporting"]
    /\ finish' = [finish EXCEPT ![k] = turn[k]]
    /\ turn' = [turn EXCEPT ![k] = "none"]
    /\ token' = token \ {k}
    /\ UNCHANGED <<task, receipts, settled, asked, reply, out, slot, page,
                   assigned, job, stop, todo, restarts, log, ran>>

\* Slip: the run's outcome replaces what was recorded.
OutcomeAlways(t, o) ==
    [t EXCEPT !.revision = t.revision + 1, !.run = NoRun,
              !.state = IF o = "done" THEN "awaiting_review" ELSE "blocked"]

\* A state recorded during the run stays as it is.
Outcome(t, o) ==
    LET next == [t EXCEPT !.revision = t.revision + 1, !.run = NoRun] IN
    IF t.state # "working" THEN next
    ELSE [next EXCEPT !.state = IF o = "done" THEN "awaiting_review" ELSE "blocked"]

\* finish_here, for a report without a receipt.
FinishHere(k) ==
    LET t == Outcome(Current, finish[k]) IN
    /\ journal[k] = "reporting"
    /\ settled[k] = NoTask
    /\ Current.run = k
    /\ Commit(t)
    /\ settled' = [settled EXCEPT ![k] = t]
    /\ UNCHANGED <<receipts, journal, finish, asked, reply, slot, page,
                   assigned, job, stop, todo, turn, token, restarts, ran>>

\* The answer of one of the attempts to deliver it, perhaps from the receipt.
FinishDelivered(k) ==
    /\ journal[k] = "reporting"
    /\ settled[k] # NoTask
    /\ task' = [task EXCEPT ![assigned[k]] = Applied(assigned[k], settled[k])]
    /\ journal' = [journal EXCEPT ![k] = "finished"]
    /\ UNCHANGED <<receipts, settled, finish, asked, reply, out, slot, page,
                   assigned, job, stop, todo, turn, token, restarts, log, ran>>

-----------------------------------------------------------------------------
(* Stopping a run.                                                         *)

\* A registered turn takes the cancellation; any other time it does nothing.
Told(k) == IF turn[k] \in {"waiting", "admitted", "running"} THEN token \cup {k} ELSE token

\* cancel_run, after the commit.
SendStop(k) ==
    /\ <<"cancel", k>> \in todo
    /\ todo' = todo \ {<<"cancel", k>>}
    /\ IF assigned[k] = Authority
         THEN token' = Told(k) /\ UNCHANGED stop
         ELSE stop' = [stop EXCEPT ![k] = "queued"] /\ UNCHANGED token
    /\ UNCHANGED <<task, receipts, settled, journal, finish, asked, reply, out, slot, page,
                   assigned, job, turn, restarts, log, ran>>

\* The Runner applies what it reads in order: the job comes first.
OpenStop(k) ==
    /\ stop[k] = "queued"
    /\ job[k].at \notin {"queued", "sent", "opened"}
    /\ stop' = [stop EXCEPT ![k] = "applied"]
    /\ token' = Told(k)
    /\ UNCHANGED <<task, receipts, settled, journal, finish, asked, reply, out, slot, page,
                   assigned, job, todo, turn, restarts, log, ran>>

-----------------------------------------------------------------------------
(* Restarts.                                                               *)

\* Slip: nothing is reported for a run the restart interrupted.
RecoveredNone(d, k) == journal[k]

\* recover: a claimed run is reported interrupted, a pending one starts.
Recovered(d, k) ==
    IF k \in RunOn(d) /\ journal[k] = "claimed" THEN "reporting" ELSE journal[k]

Resumed(d) == {<<"start", k>> : k \in {k \in RunOn(d) : Recovered(d, k) = "pending"}}

Restart(d) ==
    /\ d \in Restarting
    /\ restarts[d] < MaxRestarts
    /\ "unclaimed" \in Occurs \/ \A k \in RunOn(d) : job[k].at # "opened"
    /\ restarts' = [restarts EXCEPT ![d] = @ + 1]
    /\ journal' = [k \in Runs |-> Recovered(d, k)]
    /\ finish' = [k \in Runs |-> IF Recovered(d, k) # journal[k] THEN "blocked" ELSE finish[k]]
    /\ turn' = [k \in Runs |-> IF k \in RunOn(d) THEN "none" ELSE turn[k]]
    /\ token' = token \ RunOn(d)
    /\ job' = [k \in Runs |->
                  IF k \in RunOn(d) /\ job[k].at = "opened" THEN [job[k] EXCEPT !.at = "gone"]
                  ELSE job[k]]
    /\ todo' = IF d = Authority THEN Resumed(d) ELSE todo
    /\ page' = [page EXCEPT ![d] = NoTask]
    /\ reply' = [reply EXCEPT ![d] = NoTask]
    /\ UNCHANGED <<task, receipts, settled, asked, out, slot, assigned, stop, log, ran>>

-----------------------------------------------------------------------------

Asks ==
    \E d \in Callers :
        \/ Ask(d, "create", "queued", NoRun)
        \/ Ask(d, "run", "working", NoRun)
        \/ \E r \in Runners : Ask(d, "assign", r, NoRun)
        \/ \E s \in Edits, k \in Minted \cup {NoRun} : Ask(d, "update", s, k)

RunStep(k) ==
    \/ StartLocal(k) \/ StartSealed(k) \/ Validate(k) \/ Refuse(k) \/ Begin(k)
    \/ EndTurn(k) \/ SaveFinish(k) \/ FinishHere(k) \/ FinishDelivered(k)

RelayStep ==
    \/ UploadTask \/ Reupload \/ Requeue
    \/ \E d \in Devices : Pull(d) \/ ApplyPage(d) \/ Refresh(d) \/ TakeReply(d)
    \/ \E k \in Minted : UploadJob(k) \/ ExpireJob(k) \/ OpenJob(k) \/ OpenStop(k)

Next ==
    \/ Asks
    \/ \E q \in DOMAIN asked : Serve(q) \/ ServeAgain(q)
    \/ RelayStep
    \/ \E k \in Minted : RunStep(k) \/ SendStop(k)
    \/ \E d \in Restarting : Restart(d)

Spec == Init /\ [][Next]_vars

-----------------------------------------------------------------------------
(* Properties.                                                             *)

TypeOK ==
    /\ task \in [Devices -> Task]
    /\ receipts \in [Requests -> Task]
    /\ settled \in [Runs -> Task]
    /\ journal \in [Runs -> {"none", "pending", "claimed", "reporting", "finished"}]
    /\ finish \in [Runs -> {"none", "done", "blocked"}]
    /\ asked \in Seq(Request) /\ Len(asked) <= MaxRequests
    /\ reply \in [Devices -> Task]
    /\ out \in Task
    /\ slot \in Task
    /\ page \in [Devices -> Task]
    /\ assigned \in Seq(Runners) /\ Len(assigned) <= MaxRuns
    /\ job \in [Runs -> Job]
    /\ stop \in [Runs -> {"none", "queued", "applied"}]
    /\ todo \subseteq Duties
    /\ turn \in [Runs -> {"none", "waiting", "admitted", "running", "done", "blocked"}]
    /\ token \subseteq Runs
    /\ restarts \in [Devices -> Nat]
    /\ log \in Seq(Task)
    /\ ran \subseteq Runs

\* Two turns of one task never run at once, on whatever Runners, and the one
\* that runs is the run the authority holds active.
OneTurnAtATime ==
    \A k \in Runs : turn[k] = "running" => Current.run = k

\* A run's turn begins at most once, whatever is delivered or recovered.
OneTurnPerRun ==
    [][\A k \in Runs : turn[k] # "running" /\ turn'[k] = "running" => k \notin ran]_vars

\* Every record a Device holds is one the authority committed, and what it
\* knows of the task only moves forward.
ReplicasFollow ==
    \A d \in Devices : task[d] # NoTask =>
        task[d].revision <= Len(log) /\ task[d] = log[task[d].revision]

ReplicasAdvance ==
    [][\A d \in Devices : task'[d].revision >= task[d].revision]_vars

\* A call commits only on top of the very record its caller saw, so no edit
\* is lost under another, however late or often a call is delivered.
NoLostUpdate ==
    \A q \in DOMAIN asked : receipts[q].revision > 1 =>
        log[receipts[q].revision - 1] = asked[q].seen

\* The state of the task was recorded by run k's own turn.
Own(k) == \E q \in DOMAIN asked : asked[q].by = k /\ receipts[q] # NoTask

\* Run k has been told to stop, or is about to be.
Stopping(k) == k \in token \/ <<"cancel", k>> \in todo \/ stop[k] = "queued"

\* Someone else took the task of k's turn out of `working`, and no word to stop
\* is under way.
Unstopped(k) ==
    /\ turn[k] \in {"admitted", "running"}
    /\ Current.state # "working"
    /\ ~Own(k)
    /\ ~Stopping(k)

\* The word to stop is lost in one way only: the authority restarts between the
\* commit that takes the task out of `working` and cancel_run.
StopsReach ==
    [][\A k \in Runs : Unstopped(k)' =>
          Unstopped(k) \/ (<<"cancel", k>> \in todo /\ restarts'[Authority] # restarts[Authority])]_vars

\* The authority's record and the turns implement runs one after another.
Promise == INSTANCE WorkRun WITH
    state <- Current.state,
    active <- Current.run,
    started <- Len(assigned),
    working <- {k \in Runs : turn[k] = "running"},
    worked <- ran \cup {k \in Runs : settled[k] # NoTask}

\* Runs follow one another, each works at most once while it is active, and is
\* settled once, when it works no more.
RunsFollow == Promise!Spec

-----------------------------------------------------------------------------
(* Liveness, when the relay is reached and turns end.                      *)

Fairness ==
    /\ WF_vars(UploadTask) /\ WF_vars(Requeue)
    /\ \A d \in Devices : WF_vars(Pull(d)) /\ WF_vars(ApplyPage(d))
    /\ \A k \in Runs :
          /\ WF_vars(k \in Minted /\ (UploadJob(k) \/ OpenJob(k)))
          /\ WF_vars(k \in Minted /\ (StartLocal(k) \/ StartSealed(k)))
          /\ WF_vars(k \in Minted /\ (Validate(k) \/ Refuse(k) \/ Begin(k)))
          /\ WF_vars(k \in Minted /\ (EndTurn(k) \/ SaveFinish(k)))
          /\ WF_vars(k \in Minted /\ (FinishHere(k) \/ FinishDelivered(k)))

FairSpec == Spec /\ Fairness

\* The active run stays claimed until its outcome clears it, and an outcome
\* always comes.
EveryRunSettles == \A k \in Runs : Current.run = k ~> Current.run # k

=============================================================================
