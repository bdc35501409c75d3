---------------------------- MODULE TasksProofs ----------------------------
(***************************************************************************)
(* What holds of a durable task for every set of Devices, every bound and  *)
(* whatever restarts and mishaps: its records follow the authority's log,  *)
(* its turns never overlap or repeat, and it implements WorkRun; and of    *)
(* the dependencies between tasks.                                         *)
(***************************************************************************)
EXTENDS Tasks, TLAPS

-----------------------------------------------------------------------------
(* Types.                                                                  *)

\* A record is a task when its parts are.
LEMMA RecordTypes ==
    /\ NoTask \in Task
    /\ NoTask.revision = 0 /\ NoTask.state = "queued" /\ NoTask.run = NoRun
BY TaskConstants DEF NoTask, Task, States

\* What a call or an outcome makes of a task is a task, one revision on.
LEMMA ChangedTypes ==
    ASSUME TypeOK, NEW t \in Task, NEW r \in Request,
           r.method = "run" => Len(assigned) < MaxRuns
    PROVE  /\ Changed(t, r) \in Task
           /\ Changed(t, r).revision = t.revision + 1
           /\ Changed(t, r).run = IF r.method = "run" THEN Len(assigned) + 1 ELSE t.run
           /\ Changed(t, r).state = IF r.method = "run" THEN "working"
                                    ELSE IF r.method = "update" THEN r.to ELSE t.state
<1>1. Len(assigned) \in Nat /\ MaxRuns \in Nat
  BY TaskConstants DEF TypeOK
<1>2. r.method = "run" => Len(assigned) + 1 \in Runs
  BY <1>1 DEF Runs
<1>3. /\ t.revision \in Nat /\ t.state \in States
      /\ t.run \in Runs \cup {NoRun} /\ t.runner \in Runners
      /\ t = [revision |-> t.revision, state |-> t.state, run |-> t.run, runner |-> t.runner]
  BY DEF Task
<1> DEFINE next == [t EXCEPT !.revision = t.revision + 1]
<1>0. next = [revision |-> t.revision + 1, state |-> t.state, run |-> t.run, runner |-> t.runner]
  BY <1>3
<1>9. t.revision + 1 \in Nat
  BY <1>3
<1>4. r.method \in Methods
  BY DEF Request
<1>5. CASE r.method = "create"
  <2>1. Changed(t, r) = next
    BY <1>5 DEF Changed
  <2> HIDE DEF next
  <2> QED BY <1>0, <1>3, <1>5, <1>9, <2>1 DEF Task
<1>6. CASE r.method = "update"
  <2>1. r.to \in States
    BY <1>6 DEF Request
  <2>2. Changed(t, r) = [next EXCEPT !.state = r.to]
    BY <1>6 DEF Changed
  <2> HIDE DEF next
  <2> QED BY <1>0, <1>3, <1>6, <1>9, <2>1, <2>2 DEF Task
<1>7. CASE r.method = "assign"
  <2>1. r.to \in Runners
    BY <1>7 DEF Request
  <2>2. Changed(t, r) = [next EXCEPT !.runner = r.to]
    BY <1>7 DEF Changed
  <2> HIDE DEF next
  <2> QED BY <1>0, <1>3, <1>7, <1>9, <2>1, <2>2 DEF Task
<1>8. CASE r.method = "run"
  <2>2. Changed(t, r) = [next EXCEPT !.state = "working", !.run = Len(assigned) + 1]
    BY <1>8 DEF Changed
  <2> HIDE DEF next
  <2> QED BY <1>0, <1>2, <1>3, <1>8, <1>9, <2>2 DEF Task, States
<1> QED BY <1>4, <1>5, <1>6, <1>7, <1>8 DEF Methods

\* What finish_here makes of a record is a record without an active run.
LEMMA OutcomeTypes ==
    ASSUME NEW t \in Task, NEW o
    PROVE  /\ Outcome(t, o) \in Task
           /\ Outcome(t, o).revision = t.revision + 1
           /\ Outcome(t, o).run = NoRun
           /\ Outcome(t, o).state = IF t.state # "working" THEN t.state
                                    ELSE IF o = "done" THEN "awaiting_review" ELSE "blocked"
<1> DEFINE next == [t EXCEPT !.revision = t.revision + 1, !.run = NoRun]
<1>1. /\ t.revision \in Nat /\ t.state \in States /\ t.runner \in Runners
      /\ t = [revision |-> t.revision, state |-> t.state, run |-> t.run, runner |-> t.runner]
  BY DEF Task
<1>2. t.revision + 1 \in Nat
  BY <1>1
<1>3. /\ next \in Task
      /\ next.revision = t.revision + 1 /\ next.run = NoRun /\ next.state = t.state
  BY <1>1, <1>2 DEF Task
<1>4. CASE t.state # "working"
  <2>1. Outcome(t, o) = next
    BY <1>4 DEF Outcome
  <2> HIDE DEF next
  <2> QED BY <1>3, <1>4, <2>1
<1>5. CASE t.state = "working"
  <2>1. Outcome(t, o) = [next EXCEPT !.state = IF o = "done" THEN "awaiting_review" ELSE "blocked"]
    BY <1>5 DEF Outcome
  <2> HIDE DEF next
  <2> QED BY <1>3, <1>5, <2>1 DEF Task, States
<1> QED BY <1>4, <1>5

\* A Device keeps what it holds or takes the record it is given.
LEMMA AppliedIsEither ==
    ASSUME NEW d, NEW t
    PROVE  Applied(d, t) = task[d] \/ Applied(d, t) = t
BY DEF Applied

\* A sealed job keeps its snapshot wherever it is.
LEMMA JobTypes ==
    /\ \A t \in Task : [at |-> "queued", task |-> t] \in Job /\ [at |-> "gone", task |-> t] \in Job
    /\ \A j \in Job : /\ j.task \in Task
                      /\ \A x \in {"sent", "opened", "gone"} :
                            [j EXCEPT !.at = x] \in Job /\ [j EXCEPT !.at = x].task = j.task
BY DEF Job

\* The parts of a well-typed state that the steps below use.
LEMMA TypeFacts ==
    ASSUME TypeOK
    PROVE  /\ Authority \in Devices /\ Current \in Task
           /\ Minted = 1..Len(assigned) /\ Minted \subseteq Runs
           /\ \A k \in Minted : assigned[k] \in Runners /\ assigned[k] \in Devices
           /\ DOMAIN asked \subseteq Requests
           /\ \A q \in DOMAIN asked : asked[q] \in Request
<1>1. /\ Len(assigned) \in Nat /\ Len(assigned) <= MaxRuns /\ MaxRuns \in Nat
      /\ Len(asked) \in Nat /\ Len(asked) <= MaxRequests /\ MaxRequests \in Nat
  BY TaskConstants DEF TypeOK
<1>2. Authority \in Devices /\ Current \in Task
  BY TaskConstants DEF TypeOK, Current
<1>3. Minted = 1..Len(assigned) /\ Minted \subseteq Runs
  BY <1>1 DEF TypeOK, Minted, Runs
<1>4. \A k \in Minted : assigned[k] \in Runners /\ assigned[k] \in Devices
  BY <1>3, TaskConstants DEF TypeOK
<1>5. DOMAIN asked \subseteq Requests /\ \A q \in DOMAIN asked : asked[q] \in Request
  BY <1>1 DEF TypeOK, Requests
<1> QED BY <1>2, <1>3, <1>4, <1>5

-----------------------------------------------------------------------------
(* Types hold.                                                             *)

\* A call is a request, whoever makes it.
LEMMA AskTypes ==
    ASSUME TypeOK, Asks
    PROVE  \E d \in Devices, r \in Request :
              /\ d \in Callers /\ Len(asked) < MaxRequests
              /\ r.seen = task[d] /\ r.from = d /\ r.by \in Minted \cup {NoRun}
              /\ asked' = Append(asked, r)
              /\ UNCHANGED <<task, receipts, settled, journal, finish, reply, out, slot, page,
                             assigned, job, stop, todo, turn, token, restarts, log, ran>>
<1> DEFINE Made(d, m, to, by) == [method |-> m, seen |-> task[d], to |-> to, from |-> d, by |-> by]
<1>1. /\ Callers \subseteq Devices /\ Edits \subseteq States
      /\ {"queued", "working"} \subseteq States /\ Minted \subseteq Runs
  BY TaskConstants, TypeFacts DEF States
<1>2. \A d \in Callers : task[d] \in Task
  BY <1>1 DEF TypeOK
<1>3. ASSUME NEW d \in Callers, NEW m \in Methods, NEW to \in States \cup Runners,
             NEW by \in Minted \cup {NoRun}, Ask(d, m, to, by),
             m = "update" => to \in States, m = "assign" => to \in Runners
      PROVE  /\ Made(d, m, to, by) \in Request
             /\ Made(d, m, to, by).seen = task[d] /\ Made(d, m, to, by).from = d
             /\ Made(d, m, to, by).by = by
             /\ asked' = Append(asked, Made(d, m, to, by))
  BY <1>1, <1>2, <1>3 DEF Ask, Request
<1> HIDE DEF Made
<1>4. PICK d \in Callers :
         \/ Ask(d, "create", "queued", NoRun)
         \/ Ask(d, "run", "working", NoRun)
         \/ \E r \in Runners : Ask(d, "assign", r, NoRun)
         \/ \E s \in Edits, k \in Minted \cup {NoRun} : Ask(d, "update", s, k)
  BY DEF Asks
<1>5. PICK m \in Methods, to \in States \cup Runners, by \in Minted \cup {NoRun} :
         /\ Ask(d, m, to, by)
         /\ m = "update" => to \in States
         /\ m = "assign" => to \in Runners
  BY <1>1, <1>4 DEF Methods
<1>6. /\ Made(d, m, to, by) \in Request
       /\ Made(d, m, to, by).seen = task[d] /\ Made(d, m, to, by).from = d
       /\ Made(d, m, to, by).by = by
       /\ asked' = Append(asked, Made(d, m, to, by))
  BY <1>3, <1>5
<1> QED BY <1>1, <1>5, <1>6 DEF Ask

\* What an upload of the history has in hand is a task.
LEMMA UploadsAreTasks ==
    ASSUME TypeOK, NEW t \in {x[2] : x \in {x \in todo : x[1] = "upload"}}
    PROVE  t \in Task /\ <<"upload", t>> \in todo
<1>1. PICK x \in todo : x[1] = "upload" /\ t = x[2]
  OBVIOUS
<1>2. x \in ({"start", "cancel"} \X Runs) \cup ({"upload"} \X Task)
  BY DEF TypeOK, Duties
<1>3. x \in {"upload"} \X Task
  BY <1>1, <1>2
<1>4. x = <<"upload", t>> /\ t \in Task
  BY <1>1, <1>3
<1> QED BY <1>4

\* Every step keeps the types.
LEMMA TypeStep == TypeOK /\ [Next]_vars => TypeOK'
<1> SUFFICES ASSUME TypeOK, [Next]_vars PROVE TypeOK'
  OBVIOUS
<1>0. /\ Authority \in Devices /\ Authority \in Runners /\ Current \in Task
      /\ Minted = 1..Len(assigned) /\ Minted \subseteq Runs
      /\ \A k \in Minted : assigned[k] \in Runners /\ assigned[k] \in Devices
      /\ DOMAIN asked \subseteq Requests
      /\ \A q \in DOMAIN asked : asked[q] \in Request
      /\ NoTask \in Task /\ NoRun \notin Runs
      /\ Restarting \subseteq Devices
  BY TypeFacts, RecordTypes, TaskConstants DEF NoRun, Runs
<1>1. CASE Asks
  <2>1. PICK r \in Request :
           /\ Len(asked) < MaxRequests
           /\ asked' = Append(asked, r)
           /\ UNCHANGED <<task, receipts, settled, journal, finish, reply, out, slot, page,
                          assigned, job, stop, todo, turn, token, restarts, log, ran>>
    BY <1>1, AskTypes
  <2>2. asked' \in Seq(Request) /\ Len(asked') <= MaxRequests
    BY <2>1, TaskConstants DEF TypeOK
  <2> QED BY <2>1, <2>2 DEF TypeOK
<1>2. ASSUME NEW q \in DOMAIN asked, Serve(q) PROVE TypeOK'
  <2> DEFINE r == asked[q]
             t == Changed(Current, r)
  <2>1. r \in Request /\ r.from \in Devices /\ q \in Requests
    BY <1>0 DEF Request
  <2>2. r.method = "run" => Len(assigned) < MaxRuns
    BY <1>2 DEF Serve
  <2>3. /\ t \in Task
        /\ t.revision = Current.revision + 1
        /\ t.run = IF r.method = "run" THEN Len(assigned) + 1 ELSE Current.run
    BY <1>0, <2>1, <2>2, ChangedTypes
  <2>4. t.run \in Runs \cup {NoRun} /\ t.runner \in Runners
    BY <2>3 DEF Task
  <2> HIDE DEF r, t
  <2>5. /\ Commit(t)
        /\ receipts' = [receipts EXCEPT ![q] = t]
        /\ Answered(r.from, t)
        /\ IF r.method = "run" THEN Dispatch(t)
           ELSE /\ todo' = IF Cancels(t, r) THEN todo \cup {<<"cancel", t.run>>} ELSE todo
                /\ UNCHANGED <<assigned, job, journal>>
        /\ UNCHANGED <<settled, finish, asked, slot, page, stop, turn, token, restarts, ran>>
    BY <1>2 DEF Serve, r, t
  <2>6. /\ task' \in [Devices -> Task] /\ out' \in Task /\ log' \in Seq(Task)
        /\ receipts' \in [Requests -> Task] /\ reply' \in [Devices -> Task]
    BY <1>0, <2>1, <2>3, <2>5 DEF Commit, Answered, TypeOK
  <2>7. CASE r.method = "run"
    <3>1. Len(assigned) \in Nat /\ MaxRuns \in Nat /\ t.run \in Runs
      BY <2>2, <2>3, <2>7, TaskConstants DEF TypeOK, Runs
    <3>2. /\ assigned' = Append(assigned, t.runner)
          /\ \/ /\ journal' = [journal EXCEPT ![t.run] = "pending"]
                /\ todo' = todo \cup {<<"start", t.run>>}
                /\ UNCHANGED job
             \/ /\ job' = [job EXCEPT ![t.run] = [at |-> "queued", task |-> t]]
                /\ UNCHANGED <<journal, todo>>
      BY <2>5, <2>7 DEF Dispatch
    <3>3. assigned' \in Seq(Runners) /\ Len(assigned') <= MaxRuns
      BY <2>2, <2>4, <2>7, <3>1, <3>2 DEF TypeOK
    <3>4. journal' \in [Runs -> {"none", "pending", "claimed", "reporting", "finished"}]
      BY <3>1, <3>2 DEF TypeOK
    <3>5. job' \in [Runs -> Job]
      BY <2>3, <3>1, <3>2, JobTypes DEF TypeOK
    <3>6. todo' \subseteq Duties
      BY <3>1, <3>2 DEF TypeOK, Duties
    <3> QED BY <2>5, <2>6, <3>3, <3>4, <3>5, <3>6 DEF TypeOK
  <2>8. CASE r.method # "run"
    <3>1. todo' \subseteq Duties
      BY <2>4, <2>5, <2>8 DEF Cancels, TypeOK, Duties
    <3> QED BY <2>5, <2>6, <2>8, <3>1 DEF TypeOK
  <2> QED BY <2>7, <2>8
<1>3. ASSUME NEW q \in DOMAIN asked, ServeAgain(q) PROVE TypeOK'
  BY <1>0, <1>3 DEF ServeAgain, Answered, TypeOK, Request
<1>4. CASE UploadTask \/ Reupload
  BY <1>0, <1>4 DEF UploadTask, Reupload, Duties, TypeOK
<1>18. CASE Requeue
  BY <1>0, <1>18, UploadsAreTasks DEF Requeue, TypeOK
<1>5. ASSUME NEW d \in Devices, Pull(d) \/ Refresh(d) PROVE TypeOK'
  <2>1. CASE Pull(d)
    BY <1>0, <2>1 DEF Pull, TypeOK
  <2>2. CASE Refresh(d)
    <3>1. reply' \in [Devices -> Task]
      BY <1>0, <2>2 DEF Refresh, Answered, TypeOK
    <3> QED BY <2>2, <3>1 DEF Refresh, TypeOK
  <2> QED BY <1>5, <2>1, <2>2
<1>6. ASSUME NEW d \in Devices, ApplyPage(d) \/ TakeReply(d) PROVE TypeOK'
  <2>1. Applied(d, page[d]) \in Task /\ Applied(d, reply[d]) \in Task
    <3>1. task[d] \in Task /\ page[d] \in Task /\ reply[d] \in Task
      BY DEF TypeOK
    <3> QED BY <3>1, AppliedIsEither
  <2>2. CASE ApplyPage(d)
    BY <1>0, <2>1, <2>2 DEF ApplyPage, TypeOK
  <2>3. CASE TakeReply(d)
    BY <1>0, <2>1, <2>3 DEF TakeReply, TypeOK
  <2> QED BY <1>6, <2>2, <2>3
<1>7. ASSUME NEW k \in Minted, UploadJob(k) \/ ExpireJob(k) \/ OpenJob(k) PROVE TypeOK'
  <2>1. job[k] \in Job
    BY <1>0 DEF TypeOK
  <2>2. job' \in [Runs -> Job]
    BY <1>7, <2>1, JobTypes DEF UploadJob, ExpireJob, OpenJob, TypeOK
  <2> QED BY <1>7, <2>2 DEF UploadJob, ExpireJob, OpenJob, TypeOK
<1>8. ASSUME NEW k \in Minted, OpenStop(k) \/ SendStop(k) PROVE TypeOK'
  <2>1. token' \subseteq Runs
    BY <1>0, <1>8 DEF OpenStop, SendStop, Told, TypeOK
  <2>2. stop' \in [Runs -> {"none", "queued", "applied"}]
    BY <1>0, <1>8 DEF OpenStop, SendStop, TypeOK
  <2>3. todo' \subseteq Duties
    BY <1>8 DEF OpenStop, SendStop, TypeOK
  <2> QED BY <1>8, <2>1, <2>2, <2>3 DEF OpenStop, SendStop, TypeOK
<1>9. ASSUME NEW k \in Minted, StartLocal(k) PROVE TypeOK'
  BY <1>0, <1>9 DEF StartLocal, Claim, TypeOK
<1>10. ASSUME NEW k \in Minted, StartSealed(k) PROVE TypeOK'
  <2>1. task[assigned[k]] \in Task /\ job[k].task \in Task
    BY <1>0, JobTypes DEF TypeOK
  <2>2. Applied(assigned[k], job[k].task) \in Task
    BY <2>1, AppliedIsEither
  <2>3. job' \in [Runs -> Job]
    BY <1>0, <1>10, JobTypes DEF StartSealed, TypeOK
  <2>4. journal' \in [Runs -> {"none", "pending", "claimed", "reporting", "finished"}]
        /\ turn' \in [Runs -> {"none", "waiting", "admitted", "running", "done", "blocked"}]
        /\ task' \in [Devices -> Task]
    BY <1>0, <1>10, <2>2 DEF StartSealed, Claim, TypeOK
  <2> QED BY <1>10, <2>3, <2>4 DEF StartSealed, Claim, TypeOK
<1>11. ASSUME NEW k \in Minted, Validate(k) \/ Refuse(k) \/ Begin(k) PROVE TypeOK'
  <2>1. turn' \in [Runs -> {"none", "waiting", "admitted", "running", "done", "blocked"}]
    BY <1>0, <1>11 DEF Validate, Refuse, Begin, TypeOK
  <2>2. reply' \in [Devices -> Task]
    BY <1>0, <1>11 DEF Validate, Refuse, Begin, Answered, TypeOK
  <2>3. ran' \subseteq Runs
    <3>1. ran' = ran \/ ran' = ran \cup {k}
      BY <1>11 DEF Validate, Refuse, Begin
    <3> QED BY <1>0, <3>1 DEF TypeOK
  <2> QED BY <1>11, <2>1, <2>2, <2>3 DEF Validate, Refuse, Begin, TypeOK
<1>12. ASSUME NEW k \in Minted, EndTurn(k) PROVE TypeOK'
  <2>1. turn' \in [Runs -> {"none", "waiting", "admitted", "running", "done", "blocked"}]
    BY <1>0, <1>12 DEF EndTurn, TypeOK
  <2> QED BY <1>12, <2>1 DEF EndTurn, TypeOK
<1>17. ASSUME NEW k \in Minted, SaveFinish(k) PROVE TypeOK'
  BY <1>0, <1>17 DEF SaveFinish, TypeOK
<1>13. ASSUME NEW k \in Minted, FinishHere(k) PROVE TypeOK'
  <2> DEFINE t == Outcome(Current, finish[k])
  <2>1. t \in Task
    BY <1>0, OutcomeTypes
  <2>3. /\ task' = [task EXCEPT ![Authority] = t] /\ settled' = [settled EXCEPT ![k] = t]
        /\ out' = t /\ log' = Append(log, t)
    BY <1>13 DEF FinishHere, Commit
  <2> HIDE DEF t
  <2>2. /\ task' \in [Devices -> Task] /\ settled' \in [Runs -> Task]
        /\ out' \in Task /\ log' \in Seq(Task)
    <3>1. k \in Runs /\ task \in [Devices -> Task] /\ settled \in [Runs -> Task] /\ log \in Seq(Task)
      BY <1>0 DEF TypeOK
    <3>2. log' \in Seq(Task)
      BY <2>1, <2>3, <3>1
    <3> QED BY <2>1, <2>3, <3>1, <3>2
  <2> QED BY <1>13, <2>2 DEF FinishHere, TypeOK
<1>14. ASSUME NEW k \in Minted, FinishDelivered(k) PROVE TypeOK'
  <2>1. task[assigned[k]] \in Task /\ settled[k] \in Task
    BY <1>0 DEF TypeOK
  <2>2. Applied(assigned[k], settled[k]) \in Task
    BY <2>1, AppliedIsEither
  <2> QED BY <1>0, <1>14, <2>2 DEF FinishDelivered, TypeOK
<1>15. ASSUME NEW d \in Restarting, Restart(d) PROVE TypeOK'
  <2>1. d \in Devices /\ RunOn(d) \subseteq Runs
    BY <1>0 DEF RunOn
  <2>2. Resumed(d) \subseteq Duties
    BY <2>1 DEF Resumed, Duties
  <2>3. journal' \in [Runs -> {"none", "pending", "claimed", "reporting", "finished"}]
    BY <1>15 DEF Restart, Recovered, TypeOK
  <2>4. job' \in [Runs -> Job]
    <3>1. \A k \in Runs : [job[k] EXCEPT !.at = "gone"] \in Job
      BY JobTypes DEF TypeOK
    <3> QED BY <1>15, <3>1 DEF Restart, TypeOK
  <2>5. restarts' \in [Devices -> Nat] /\ page' \in [Devices -> Task] /\ reply' \in [Devices -> Task]
    BY <1>0, <1>15, <2>1 DEF Restart, TypeOK
  <2>6. finish' \in [Runs -> {"none", "done", "blocked"}] /\ todo' \subseteq Duties
        /\ turn' \in [Runs -> {"none", "waiting", "admitted", "running", "done", "blocked"}]
        /\ token' \subseteq Runs
    BY <1>15, <2>2 DEF Restart, TypeOK
  <2> QED BY <1>15, <2>3, <2>4, <2>5, <2>6 DEF Restart, TypeOK
<1>16. CASE UNCHANGED vars
  BY <1>16 DEF vars, TypeOK
<1> QED BY <1>1, <1>2, <1>3, <1>4, <1>5, <1>6, <1>7, <1>8, <1>9, <1>10, <1>11, <1>12, <1>13,
           <1>14, <1>15, <1>16, <1>17, <1>18 DEF Next, RelayStep, RunStep

\* Every table, message, job and turn has its type in every reachable state.
THEOREM TypeCorrect == Spec => []TypeOK
<1>1. Init => TypeOK
  <2> SUFFICES ASSUME Init PROVE TypeOK
    OBVIOUS
  <2>1. NoTask \in Task /\ [at |-> "none", task |-> NoTask] \in Job
    BY RecordTypes DEF Job
  <2>2. /\ asked \in Seq(Request) /\ Len(asked) <= MaxRequests
        /\ assigned \in Seq(Runners) /\ Len(assigned) <= MaxRuns
        /\ log \in Seq(Task)
    BY TaskConstants DEF Init
  <2> QED BY <2>1, <2>2 DEF Init, TypeOK
<1> QED BY <1>1, TypeStep, PTL DEF Spec
-----------------------------------------------------------------------------
(* Records follow the log.                                                 *)

\* A record that the log l holds at its revision, or none.
Held(l, t) == t = NoTask \/ (t.revision \in 1..Len(l) /\ t = l[t.revision])

\* ReplicasFollow is not inductive: records under way must be committed too,
\* the one a call was made from included, and the log is the authority's own.
Follows ==
    /\ Current.revision = Len(log)
    /\ \A d \in Devices : Held(log, task[d]) /\ Held(log, reply[d]) /\ Held(log, page[d])
    /\ \A q \in Requests : Held(log, receipts[q])
    /\ \A k \in Runs : Held(log, settled[k]) /\ Held(log, job[k].task)
    /\ Held(log, out) /\ Held(log, slot)
    /\ \A q \in DOMAIN asked : Held(log, asked[q].seen)
    /\ \A t \in Task : <<"upload", t>> \in todo => Held(log, t)

\* The log only grows, so what it held it holds.
LEMMA LogGrows ==
    ASSUME NEW l \in Seq(Task), NEW t \in Task, t.revision = Len(l) + 1
    PROVE  /\ Held(Append(l, t), t)
           /\ \A x \in Task : Held(l, x) => Held(Append(l, t), x)
<1>1. /\ Len(l) \in Nat /\ Len(Append(l, t)) = Len(l) + 1
      /\ Append(l, t)[Len(l) + 1] = t
      /\ \A i \in 1..Len(l) : Append(l, t)[i] = l[i]
  OBVIOUS
<1>2. \A x \in Task : x.revision \in Nat
  BY DEF Task
<1> QED BY <1>1, <1>2 DEF Held

\* Everything that is recorded anywhere is a task.
LEMMA AllAreTasks ==
    ASSUME TypeOK
    PROVE  /\ \A d \in Devices : task[d] \in Task /\ reply[d] \in Task /\ page[d] \in Task
           /\ \A q \in Requests : receipts[q] \in Task
           /\ \A k \in Runs : settled[k] \in Task /\ job[k].task \in Task
           /\ out \in Task /\ slot \in Task
           /\ \A q \in DOMAIN asked : asked[q].seen \in Task
<1>1. \A q \in DOMAIN asked : asked[q].seen \in Task
  BY TypeFacts DEF Request
<1>2. \A k \in Runs : job[k].task \in Task
  BY JobTypes DEF TypeOK
<1> QED BY <1>1, <1>2 DEF TypeOK

\* The log after a commit of t holds t and all that it held.
LEMMA CommitHolds ==
    ASSUME TypeOK, Follows, NEW t \in Task, t.revision = Current.revision + 1, Commit(t)
    PROVE  /\ log' = Append(log, t)
           /\ Held(log', t)
           /\ \A x \in Task : Held(log, x) => Held(log', x)
           /\ task' = [task EXCEPT ![Authority] = t]
           /\ Current' = t
           /\ Len(log') = t.revision
           /\ \A d \in Devices : Held(log', task'[d])
<1>1. /\ log \in Seq(Task) /\ t.revision = Len(log) + 1 /\ log' = Append(log, t)
      /\ task' = [task EXCEPT ![Authority] = t]
  BY DEF TypeOK, Follows, Commit
<1>2. Held(log', t) /\ \A x \in Task : Held(log, x) => Held(log', x)
  BY <1>1, LogGrows
<1>3. Len(log') = t.revision
  BY <1>1
<1>4. Authority \in Devices /\ task \in [Devices -> Task]
  BY TypeFacts DEF TypeOK
<1>5. Current' = t
  BY <1>1, <1>4 DEF Current
<1>6. \A d \in Devices : Held(log', task'[d])
  BY <1>1, <1>2, <1>4 DEF Follows
<1> QED BY <1>1, <1>2, <1>3, <1>5, <1>6

\* The record a Device holds after it applies a committed one is committed,
\* and the authority's stays.
LEMMA AppliedHolds ==
    ASSUME TypeOK, Follows, NEW d \in Devices, NEW t \in Task, Held(log, t),
           task' = [task EXCEPT ![d] = Applied(d, t)]
    PROVE  /\ \A e \in Devices : Held(log, task'[e])
           /\ Current' = Current
           /\ \A e \in Devices : task'[e].revision >= task[e].revision
<1>1. task \in [Devices -> Task] /\ Authority \in Devices
  BY TypeFacts DEF TypeOK
<1>2. Held(log, Applied(d, t))
  BY AppliedIsEither DEF Follows
<1>3. d = Authority => Applied(d, t) = task[d]
  BY DEF Applied
<1>4. \A e \in Devices : task[e].revision \in Nat
  BY <1>1 DEF Task
<1>5. t.revision \in Nat
  BY DEF Task
<1>6. Applied(d, t).revision >= task[d].revision
  BY <1>4, <1>5 DEF Applied
<1> QED BY <1>1, <1>2, <1>3, <1>4, <1>6 DEF Current, Follows

\* Every step keeps the records in the log, and no Device goes back.
LEMMA FollowStep ==
    ASSUME TypeOK, TypeOK', Follows, [Next]_vars
    PROVE  Follows' /\ \A d \in Devices : task'[d].revision >= task[d].revision
<1> DEFINE Forward == \A d \in Devices : task'[d].revision >= task[d].revision
<1>0. /\ Authority \in Devices /\ Authority \in Runners /\ Current \in Task
      /\ Minted = 1..Len(assigned) /\ Minted \subseteq Runs
      /\ \A k \in Minted : assigned[k] \in Runners /\ assigned[k] \in Devices
      /\ DOMAIN asked \subseteq Requests
      /\ \A q \in DOMAIN asked : asked[q] \in Request
      /\ NoTask \in Task /\ Held(log, NoTask)
      /\ Held(log, Current)
      /\ \A d \in Devices : task[d].revision \in Nat
      /\ Restarting \subseteq Devices
  BY TypeFacts, RecordTypes, TaskConstants DEF Held, Follows, Current, TypeOK, Task
<1>1. ASSUME UNCHANGED task PROVE Current' = Current /\ Forward
  BY <1>0, <1>1 DEF Current
<1> DEFINE Kept == \A t \in Task : <<"upload", t>> \in todo' => <<"upload", t>> \in todo
<1> SUFFICES ASSUME TRUE PROVE Follows' /\ Forward
  OBVIOUS
<1>2. CASE Asks
  <2>1. PICK d \in Devices, r \in Request :
           /\ r.seen = task[d]
           /\ asked' = Append(asked, r)
           /\ UNCHANGED <<task, receipts, settled, reply, out, slot, page, job, todo, log>>
    BY <1>2, AskTypes
  <2>2. \A q \in DOMAIN asked' : asked'[q] = r \/ (q \in DOMAIN asked /\ asked'[q] = asked[q])
    BY <2>1 DEF TypeOK
  <2>3. \A q \in DOMAIN asked' : Held(log, asked'[q].seen)
    BY <2>1, <2>2 DEF Follows
  <2> QED BY <1>1, <2>1, <2>3 DEF Follows
<1>3. ASSUME NEW q \in DOMAIN asked, Serve(q) PROVE Follows' /\ Forward
  <2> DEFINE r == asked[q]
             t == Changed(Current, r)
  <2>1. t \in Task /\ t.revision = Current.revision + 1 /\ r.from \in Devices
    BY <1>0, <1>3, ChangedTypes DEF Serve, Request
  <2>2. /\ Commit(t) /\ receipts' = [receipts EXCEPT ![q] = t] /\ Answered(r.from, t)
        /\ IF r.method = "run" THEN Dispatch(t) ELSE UNCHANGED job
        /\ UNCHANGED <<settled, asked, slot, page>>
        /\ \/ todo' = todo
           \/ todo' = todo \cup {<<"start", t.run>>}
           \/ todo' = todo \cup {<<"cancel", t.run>>}
    BY <1>3 DEF Serve, Dispatch
  <2> HIDE DEF r, t
  <2>3. /\ Held(log', t) /\ \A x \in Task : Held(log, x) => Held(log', x)
        /\ task' = [task EXCEPT ![Authority] = t] /\ Current' = t /\ Len(log') = t.revision
        /\ \A d \in Devices : Held(log', task'[d])
    BY <2>1, <2>2, CommitHolds
  <2>4. Forward
    BY <1>0, <2>1, <2>3 DEF Current, TypeOK
  <2>5. \A d \in Devices : Held(log', reply'[d]) /\ Held(log', page'[d])
    BY <2>1, <2>2, <2>3, AllAreTasks DEF Answered, Follows, TypeOK
  <2>6. \A i \in Requests : Held(log', receipts'[i])
    BY <1>0, <2>2, <2>3, AllAreTasks DEF Follows, TypeOK
  <2>7. \A k \in Runs : job'[k].task \in {job[k].task, t}
    <3>1. \/ job' = job
          \/ job' = [job EXCEPT ![t.run] = [at |-> "queued", task |-> t]]
      BY <2>2 DEF Dispatch
    <3>2. job \in [Runs -> Job]
      BY DEF TypeOK
    <3> QED BY <3>1, <3>2
  <2>8. \A k \in Runs : Held(log', settled'[k]) /\ Held(log', job'[k].task)
    BY <2>2, <2>3, <2>7, AllAreTasks DEF Follows
  <2>9. Held(log', out') /\ Held(log', slot') /\ \A i \in DOMAIN asked' : Held(log', asked'[i].seen)
    BY <2>2, <2>3, AllAreTasks DEF Commit, Follows
  <2>10. \A x \in Task : <<"upload", x>> \in todo' => Held(log', x)
    BY <2>2, <2>3 DEF Follows
  <2> QED BY <2>3, <2>4, <2>5, <2>6, <2>8, <2>9, <2>10 DEF Follows
<1>4. ASSUME NEW q \in DOMAIN asked, ServeAgain(q) PROVE Follows' /\ Forward
  <2>1. asked[q].from \in Devices /\ q \in Requests /\ Held(log, receipts[q])
    BY <1>0 DEF Request, Follows
  <2>2. \A d \in Devices : Held(log, reply'[d])
    BY <1>4, <2>1 DEF ServeAgain, Answered, Follows, TypeOK
  <2> QED BY <1>1, <1>4, <2>2 DEF ServeAgain, Follows
<1>5. CASE UploadTask
  BY <1>0, <1>1, <1>5 DEF UploadTask, Follows
<1>6. CASE Reupload
  <2>1. todo' = todo \cup {<<"upload", Current>>}
    BY <1>6 DEF Reupload
  <2>2. \A t \in Task : <<"upload", t>> \in todo' => Held(log, t)
    <3> SUFFICES ASSUME NEW t \in Task, <<"upload", t>> \in todo' PROVE Held(log, t)
      OBVIOUS
    <3>1. <<"upload", t>> \in todo \/ t = Current
      BY <2>1
    <3> QED BY <1>0, <3>1 DEF Follows
  <2> QED BY <1>1, <1>6, <2>2 DEF Reupload, Follows
<1>20. CASE Requeue
  <2>1. Held(log, out') /\ Kept
    BY <1>20, UploadsAreTasks DEF Requeue, Follows
  <2> QED BY <1>1, <1>20, <2>1 DEF Requeue, Follows
<1>7. ASSUME NEW d \in Devices, Pull(d) PROVE Follows' /\ Forward
  <2>1. \A e \in Devices : Held(log, page'[e])
    BY <1>7 DEF Pull, Follows, TypeOK
  <2> QED BY <1>1, <1>7, <2>1 DEF Pull, Follows
<1>8. ASSUME NEW d \in Devices, Refresh(d) PROVE Follows' /\ Forward
  <2>1. \A e \in Devices : Held(log, reply'[e])
    BY <1>0, <1>8 DEF Refresh, Answered, Follows, TypeOK
  <2> QED BY <1>1, <1>8, <2>1 DEF Refresh, Follows
<1>9. ASSUME NEW d \in Devices, ApplyPage(d) PROVE Follows' /\ Forward
  <2>1. page[d] \in Task /\ Held(log, page[d]) /\ task' = [task EXCEPT ![d] = Applied(d, page[d])]
    BY <1>9, AllAreTasks DEF ApplyPage, Follows
  <2>2. Current' = Current /\ Forward /\ \A e \in Devices : Held(log, task'[e])
    BY <2>1, AppliedHolds
  <2>3. \A e \in Devices : Held(log, page'[e])
    BY <1>0, <1>9 DEF ApplyPage, Follows, TypeOK
  <2> QED BY <1>9, <2>2, <2>3 DEF ApplyPage, Follows
<1>10. ASSUME NEW d \in Devices, TakeReply(d) PROVE Follows' /\ Forward
  <2>1. reply[d] \in Task /\ Held(log, reply[d]) /\ task' = [task EXCEPT ![d] = Applied(d, reply[d])]
    BY <1>10, AllAreTasks DEF TakeReply, Follows
  <2>2. Current' = Current /\ Forward /\ \A e \in Devices : Held(log, task'[e])
    BY <2>1, AppliedHolds
  <2>3. \A e \in Devices : Held(log, reply'[e])
    BY <1>0, <1>10 DEF TakeReply, Follows, TypeOK
  <2> QED BY <1>10, <2>2, <2>3 DEF TakeReply, Follows
<1>11. ASSUME NEW k \in Minted, UploadJob(k) \/ ExpireJob(k) \/ OpenJob(k) PROVE Follows' /\ Forward
  <2>1. \A i \in Runs : job'[i].task = job[i].task
    <3>1. PICK x \in {"sent", "opened", "gone"} : job' = [job EXCEPT ![k].at = x]
      BY <1>11 DEF UploadJob, ExpireJob, OpenJob
    <3>2. job \in [Runs -> Job]
      BY DEF TypeOK
    <3> QED BY <3>1, <3>2, JobTypes
  <2>2. UNCHANGED <<task, receipts, settled, asked, reply, out, slot, page, todo, log>>
    BY <1>11 DEF UploadJob, ExpireJob, OpenJob
  <2> QED BY <1>1, <2>1, <2>2 DEF Follows
<1>12. ASSUME UNCHANGED <<task, receipts, settled, asked, reply, out, slot, page, job, log>>, Kept
       PROVE  Follows' /\ Forward
  BY <1>1, <1>12 DEF Follows
<1>13. ASSUME NEW k \in Minted,
              OpenStop(k) \/ SendStop(k) \/ StartLocal(k) \/ Refuse(k) \/ Begin(k) \/ EndTurn(k) \/ SaveFinish(k)
       PROVE  Follows' /\ Forward
  <2>1. Kept
    BY <1>13 DEF OpenStop, SendStop, StartLocal, Refuse, Begin, EndTurn, SaveFinish
  <2> QED BY <1>12, <1>13, <2>1 DEF OpenStop, SendStop, StartLocal, Refuse, Begin, EndTurn, SaveFinish
<1>14. ASSUME NEW k \in Minted, StartSealed(k) PROVE Follows' /\ Forward
  <2>1. /\ k \in Runs /\ assigned[k] \in Devices /\ job[k].task \in Task /\ Held(log, job[k].task)
        /\ task' = [task EXCEPT ![assigned[k]] = Applied(assigned[k], job[k].task)]
    BY <1>0, <1>14, AllAreTasks DEF StartSealed, Follows
  <2>2. Current' = Current /\ Forward /\ \A e \in Devices : Held(log, task'[e])
    BY <2>1, AppliedHolds
  <2>3. \A i \in Runs : job'[i].task \in {job[i].task, NoTask}
    BY <1>14 DEF StartSealed, TypeOK
  <2>4. \A i \in Runs : Held(log, job'[i].task)
    BY <1>0, <2>3 DEF Follows
  <2> QED BY <1>14, <2>2, <2>4 DEF StartSealed, Follows
<1>15. ASSUME NEW k \in Minted, Validate(k) PROVE Follows' /\ Forward
  <2>1. \A e \in Devices : Held(log, reply'[e])
    BY <1>0, <1>15 DEF Validate, Answered, Follows, TypeOK
  <2> QED BY <1>1, <1>15, <2>1 DEF Validate, Follows
<1>16. ASSUME NEW k \in Minted, FinishHere(k) PROVE Follows' /\ Forward
  <2> DEFINE t == Outcome(Current, finish[k])
  <2>1. t \in Task /\ t.revision = Current.revision + 1
    BY <1>0, OutcomeTypes
  <2>2. /\ Commit(t) /\ settled' = [settled EXCEPT ![k] = t]
        /\ UNCHANGED <<receipts, asked, reply, slot, page, job, todo>>
    BY <1>16 DEF FinishHere
  <2> HIDE DEF t
  <2>3. /\ Held(log', t) /\ \A x \in Task : Held(log, x) => Held(log', x)
        /\ task' = [task EXCEPT ![Authority] = t] /\ Current' = t /\ Len(log') = t.revision
        /\ \A d \in Devices : Held(log', task'[d])
    BY <2>1, <2>2, CommitHolds
  <2>4. Forward
    BY <1>0, <2>1, <2>3 DEF Current, TypeOK
  <2>5. \A d \in Devices : Held(log', reply'[d]) /\ Held(log', page'[d])
    BY <2>2, <2>3, AllAreTasks DEF Follows
  <2>6. \A i \in Requests : Held(log', receipts'[i])
    BY <2>2, <2>3, AllAreTasks DEF Follows
  <2>7. \A i \in Runs : Held(log', settled'[i]) /\ Held(log', job'[i].task)
    BY <2>2, <2>3, AllAreTasks DEF Follows, TypeOK
  <2>8. Held(log', out') /\ Held(log', slot') /\ \A i \in DOMAIN asked' : Held(log', asked'[i].seen)
    BY <2>2, <2>3, AllAreTasks DEF Commit, Follows
  <2>9. \A x \in Task : <<"upload", x>> \in todo' => Held(log', x)
    BY <2>2, <2>3 DEF Follows
  <2> QED BY <2>3, <2>4, <2>5, <2>6, <2>7, <2>8, <2>9 DEF Follows
<1>17. ASSUME NEW k \in Minted, FinishDelivered(k) PROVE Follows' /\ Forward
  <2>1. /\ k \in Runs /\ assigned[k] \in Devices /\ settled[k] \in Task /\ Held(log, settled[k])
        /\ task' = [task EXCEPT ![assigned[k]] = Applied(assigned[k], settled[k])]
    BY <1>0, <1>17, AllAreTasks DEF FinishDelivered, Follows
  <2>2. Current' = Current /\ Forward /\ \A e \in Devices : Held(log, task'[e])
    BY <2>1, AppliedHolds
  <2> QED BY <1>17, <2>2 DEF FinishDelivered, Follows
<1>18. ASSUME NEW d \in Restarting, Restart(d) PROVE Follows' /\ Forward
  <2>1. \A e \in Devices : Held(log, page'[e]) /\ Held(log, reply'[e])
    BY <1>0, <1>18 DEF Restart, Follows, TypeOK
  <2>2. \A i \in Runs : job'[i].task = job[i].task
    BY <1>18, JobTypes DEF Restart, TypeOK
  <2>3. Kept
    BY <1>18 DEF Restart, Resumed
  <2> QED BY <1>1, <1>18, <2>1, <2>2, <2>3 DEF Restart, Follows
<1>19. CASE UNCHANGED vars
  BY <1>12, <1>19 DEF vars
<1> QED BY <1>2, <1>3, <1>4, <1>5, <1>6, <1>7, <1>8, <1>9, <1>10, <1>11, <1>13, <1>14, <1>15,
           <1>16, <1>17, <1>18, <1>19, <1>20 DEF Next, RelayStep, RunStep

\* Every record a Device holds is one the authority committed.
THEOREM Replication == Spec => []ReplicasFollow
<1>1. Init => Follows
  <2> SUFFICES ASSUME Init PROVE Follows
    OBVIOUS
  <2>1. Current = NoTask /\ Len(log) = 0 /\ DOMAIN asked = {}
    BY TypeFacts, TaskConstants DEF Init, Current
  <2> QED BY <2>1, RecordTypes DEF Init, Follows, Held
<1>2. Follows => ReplicasFollow
  BY DEF Follows, Held, ReplicasFollow
<1> QED BY <1>1, <1>2, TypeCorrect, FollowStep, PTL DEF Spec

\* What a Device knows of the task only moves forward.
THEOREM NoReplicaGoesBack == Spec => ReplicasAdvance
<1>1. Init => Follows
  <2> SUFFICES ASSUME Init PROVE Follows
    OBVIOUS
  <2>1. Current = NoTask /\ Len(log) = 0 /\ DOMAIN asked = {}
    BY TaskConstants DEF Init, Current
  <2> QED BY <2>1, RecordTypes DEF Init, Follows, Held
<1>2. TypeOK /\ TypeOK' /\ Follows /\ [Next]_vars
         => [\A d \in Devices : task'[d].revision >= task[d].revision]_vars
  BY FollowStep
<1> QED BY <1>1, <1>2, TypeCorrect, FollowStep, PTL DEF Spec, ReplicasAdvance

-----------------------------------------------------------------------------
(* No update is lost.                                                      *)

\* A receipt's record follows the one its call was made from, and only calls
\* that were made have receipts.
Based ==
    /\ \A q \in DOMAIN asked : receipts[q].revision > 1 =>
          log[receipts[q].revision - 1] = asked[q].seen
    /\ \A q \in Requests : receipts[q] # NoTask => q \in DOMAIN asked

\* Every step keeps receipts on top of what their callers saw.
LEMMA BasedStep ==
    ASSUME TypeOK, TypeOK', Follows, Follows', Based, [Next]_vars
    PROVE  Based'
<1>0. /\ DOMAIN asked \subseteq Requests /\ Minted \subseteq Runs
      /\ Current \in Task /\ Current.revision = Len(log) /\ Len(log) \in Nat
      /\ \A q \in DOMAIN asked : asked[q] \in Request
      /\ \A q \in Requests : receipts[q] \in Task /\ Held(log, receipts[q])
      /\ \A q \in Requests : receipts[q].revision \in Nat /\ receipts[q].revision <= Len(log)
  <2>1. \A q \in Requests : receipts[q] \in Task /\ Held(log, receipts[q])
    BY AllAreTasks DEF Follows
  <2>2. Len(log) \in Nat
    BY DEF TypeOK
  <2>3. \A q \in Requests : receipts[q].revision \in Nat /\ receipts[q].revision <= Len(log)
    BY <2>1, <2>2, RecordTypes DEF Held
  <2> QED BY <2>1, <2>2, <2>3, TypeFacts DEF Follows
<1>1. CASE UNCHANGED <<receipts, asked, log>>
  BY <1>1 DEF Based
<1>2. CASE Asks
  <2>1. PICK r \in Request : asked' = Append(asked, r) /\ UNCHANGED <<receipts, log>>
    BY <1>2, AskTypes
  <2>2. /\ Len(asked) + 1 \notin DOMAIN asked
        /\ DOMAIN asked' = DOMAIN asked \cup {Len(asked) + 1}
        /\ \A q \in DOMAIN asked : asked'[q] = asked[q]
    BY <2>1 DEF TypeOK
  <2>3. DOMAIN asked' \subseteq Requests
    BY TaskConstants DEF TypeOK, Requests
  <2>4. receipts'[Len(asked) + 1] = NoTask
    BY <2>1, <2>2, <2>3 DEF Based
  <2> QED BY <2>1, <2>2, <2>4, RecordTypes DEF Based
<1>3. ASSUME NEW q \in DOMAIN asked, Serve(q) PROVE Based'
  <2> DEFINE t == Changed(Current, asked[q])
  <2>1. t \in Task /\ t.revision = Len(log) + 1
    BY <1>0, <1>3, ChangedTypes DEF Serve
  <2>2. /\ log' = Append(log, t) /\ receipts' = [receipts EXCEPT ![q] = t] /\ UNCHANGED asked
        /\ asked[q].seen.revision = Len(log)
    BY <1>0, <1>3 DEF Serve, Commit, Permits
  <2> HIDE DEF t
  <2>3. \A i \in 1..Len(log) : log'[i] = log[i]
    BY <2>1, <2>2 DEF TypeOK
  <2>4. Len(log) > 0 => log[Len(log)] = asked[q].seen
    <3>1. Held(log, asked[q].seen)
      BY DEF Follows
    <3> QED BY <1>0, <2>2, <3>1, RecordTypes DEF Held
  <2>5. ASSUME NEW p \in DOMAIN asked, receipts'[p].revision > 1
        PROVE  log'[receipts'[p].revision - 1] = asked[p].seen
    <3>1. CASE p = q
      <4>1. receipts'[p] = t
        BY <1>0, <2>2, <3>1 DEF TypeOK
      <4> QED BY <1>0, <2>1, <2>3, <2>4, <2>5, <3>1, <4>1
    <3>2. CASE p # q
      <4>1. receipts'[p] = receipts[p]
        BY <1>0, <2>2, <3>2 DEF TypeOK
      <4>2. receipts[p].revision - 1 \in 1..Len(log)
        BY <1>0, <2>5, <4>1
      <4> QED BY <2>3, <2>5, <4>1, <4>2 DEF Based
    <3> QED BY <3>1, <3>2
  <2>6. \A p \in Requests : receipts'[p] # NoTask => p \in DOMAIN asked
    BY <1>0, <2>2 DEF Based, TypeOK
  <2> QED BY <2>2, <2>5, <2>6 DEF Based
<1>4. ASSUME NEW k \in Minted, FinishHere(k) PROVE Based'
  <2> DEFINE t == Outcome(Current, finish[k])
  <2>1. log' = Append(log, t) /\ UNCHANGED <<receipts, asked>>
    BY <1>4 DEF FinishHere, Commit
  <2>2. t \in Task
    BY <1>0, OutcomeTypes
  <2> HIDE DEF t
  <2>3. \A i \in 1..Len(log) : log'[i] = log[i]
    BY <2>1, <2>2 DEF TypeOK
  <2>4. \A q \in DOMAIN asked : receipts[q].revision > 1 => receipts[q].revision - 1 \in 1..Len(log)
    BY <1>0
  <2> QED BY <2>1, <2>3, <2>4 DEF Based
<1>5. ASSUME RelayStep PROVE UNCHANGED <<receipts, asked, log>>
  BY <1>5 DEF RelayStep, UploadTask, Reupload, Requeue, Pull, ApplyPage, Refresh, TakeReply, UploadJob,
              ExpireJob, OpenJob, OpenStop
<1>6. ASSUME NEW k \in Minted, RunStep(k), ~FinishHere(k) PROVE UNCHANGED <<receipts, asked, log>>
  BY <1>6 DEF RunStep, StartLocal, StartSealed, Validate, Refuse, Begin, EndTurn, SaveFinish,
              FinishDelivered
<1>7. ASSUME NEW q \in DOMAIN asked, ServeAgain(q) PROVE UNCHANGED <<receipts, asked, log>>
  BY <1>7 DEF ServeAgain
<1>8. ASSUME NEW k \in Minted, SendStop(k) PROVE UNCHANGED <<receipts, asked, log>>
  BY <1>8 DEF SendStop
<1>9. ASSUME NEW d \in Restarting, Restart(d) PROVE UNCHANGED <<receipts, asked, log>>
  BY <1>9 DEF Restart
<1>10. ASSUME UNCHANGED vars PROVE UNCHANGED <<receipts, asked, log>>
  BY <1>10 DEF vars
<1> QED BY <1>1, <1>2, <1>3, <1>4, <1>5, <1>6, <1>7, <1>8, <1>9, <1>10 DEF Next

\* A call commits only on top of the record its caller saw.
THEOREM NoUpdateLost == Spec => []NoLostUpdate
<1>1. Init => Follows /\ Based
  <2> SUFFICES ASSUME Init PROVE Follows /\ Based
    OBVIOUS
  <2>1. Current = NoTask /\ Len(log) = 0 /\ DOMAIN asked = {}
    BY TaskConstants DEF Init, Current
  <2> QED BY <2>1, RecordTypes DEF Init, Follows, Held, Based
<1>2. Based => NoLostUpdate
  BY DEF Based, NoLostUpdate
<1> QED BY <1>1, <1>2, TypeCorrect, FollowStep, BasedStep, PTL DEF Spec

-----------------------------------------------------------------------------
(* Runs come one after another.                                            *)

\* What is known of run k: where its turn, its journal, its outcome and its
\* receipt agree with one another and with the active run.
RunKept(k) ==
    /\ k \notin Minted => /\ turn[k] = "none" /\ k \notin ran /\ finish[k] = "none"
                          /\ journal[k] = "none" /\ settled[k] = NoTask
    /\ turn[k] # "none" => journal[k] = "claimed"
    /\ turn[k] \in {"admitted", "running"} => Current.run = k
    /\ turn[k] \in {"running", "done"} => k \in ran
    /\ k \in ran => /\ turn[k] \notin {"waiting", "admitted"}
                    /\ journal[k] \in {"claimed", "reporting", "finished"}
    /\ finish[k] = "done" => k \in ran
    /\ settled[k] # NoTask => Current.run # k /\ journal[k] \in {"reporting", "finished"}

\* OneTurnAtATime is not inductive: that an admitted run is still the active
\* one rests on its claim, which no report can settle before its turn is over.
RunsKept ==
    /\ Current.run \in Minted \cup {NoRun}
    /\ \A k \in Runs : RunKept(k)

\* A step that changes nothing about the runs keeps what is known of them.
LEMMA RunsUntouched ==
    ASSUME RunsKept, Current'.run = Current.run,
           UNCHANGED <<turn, ran, finish, journal, settled, assigned>>
    PROVE  RunsKept'
BY DEF RunsKept, RunKept, Minted

\* A step that changes only run k keeps what is known of the others.
LEMMA OthersUntouched ==
    ASSUME RunsKept, NEW k \in Runs, Current'.run = Current.run, UNCHANGED assigned, RunKept(k)',
           \A i \in Runs \ {k} :
              /\ turn'[i] = turn[i] /\ journal'[i] = journal[i] /\ finish'[i] = finish[i]
              /\ settled'[i] = settled[i] /\ (i \in ran' <=> i \in ran)
    PROVE  RunsKept'
BY DEF RunsKept, RunKept, Minted

\* A Device that applies a record leaves the authority's own alone.
LEMMA AppliedElsewhere ==
    ASSUME TypeOK, NEW d \in Devices, NEW t, task' = [task EXCEPT ![d] = Applied(d, t)]
    PROVE  Current' = Current
BY TypeFacts DEF Applied, Current, TypeOK

\* A commit makes its record the authority's.
LEMMA CommitIsCurrent ==
    ASSUME TypeOK, NEW t, Commit(t)
    PROVE  Current' = t
BY TypeFacts DEF Commit, Current, TypeOK

\* Every step keeps what is known of the runs.
LEMMA RunsStep ==
    ASSUME TypeOK, TypeOK', RunsKept, [Next]_vars
    PROVE  RunsKept'
<1>0. /\ Authority \in Devices /\ Current \in Task /\ MaxRuns \in Nat
      /\ Minted = 1..Len(assigned) /\ Minted \subseteq Runs /\ Len(assigned) \in Nat
      /\ \A k \in Minted : assigned[k] \in Devices
      /\ \A q \in DOMAIN asked : asked[q] \in Request
      /\ NoRun = 0 /\ Restarting \subseteq Devices
  BY TypeFacts, TaskConstants DEF TypeOK, NoRun
<1>1. ASSUME UNCHANGED <<task, turn, ran, finish, journal, settled, assigned>> PROVE RunsKept'
  BY <1>1, RunsUntouched DEF Current
<1>2. CASE Asks
  BY <1>1, <1>2, AskTypes
<1>3. ASSUME NEW q \in DOMAIN asked, Serve(q) PROVE RunsKept'
  <2> DEFINE r == asked[q]
             t == Changed(Current, r)
  <2>1. /\ t.run = IF r.method = "run" THEN Len(assigned) + 1 ELSE Current.run
        /\ Current' = t
    BY <1>0, <1>3, ChangedTypes, CommitIsCurrent DEF Serve
  <2>2. /\ UNCHANGED <<settled, finish, turn, ran>>
        /\ IF r.method = "run" THEN Dispatch(t) ELSE UNCHANGED <<assigned, journal>>
    BY <1>3 DEF Serve
  <2> HIDE DEF t
  <2>3. CASE r.method # "run"
    BY <2>1, <2>2, <2>3, RunsUntouched
  <2>4. CASE r.method = "run"
    <3> DEFINE n == Len(assigned) + 1
    <3>1. Current.run = NoRun /\ Len(assigned) < MaxRuns
      BY <1>3, <2>4 DEF Serve, Permits, Allows
    <3>2. assigned' = Append(assigned, t.runner) /\ Current'.run = n /\ t.run = n
      BY <2>1, <2>2, <2>4 DEF Dispatch
    <3>3. n \in Runs /\ n \notin Minted /\ Minted' = Minted \cup {n} /\ n # NoRun
      BY <1>0, <3>1, <3>2 DEF Minted, Runs, TypeOK
    <3>4. \A k \in Runs : journal'[k] = journal[k] \/ (k = n /\ journal'[k] = "pending")
      BY <2>2, <2>4, <3>2 DEF Dispatch, TypeOK
    <3>5. \A k \in Runs : turn[k] \notin {"admitted", "running"}
      BY <3>1, <1>0 DEF RunsKept, RunKept, Runs
    <3> HIDE DEF n
    <3>6. \A k \in Runs : RunKept(k)'
      <4> TAKE k \in Runs
      <4>1. CASE k # n
        BY <2>2, <3>2, <3>3, <3>4, <3>5, <4>1 DEF RunsKept, RunKept
      <4>2. CASE k = n
        BY <2>2, <3>2, <3>3, <3>4, <3>5, <4>2 DEF RunsKept, RunKept
      <4> QED BY <4>1, <4>2
    <3> QED BY <3>2, <3>3, <3>6 DEF RunsKept
  <2> QED BY <2>3, <2>4
<1>4. ASSUME NEW q \in DOMAIN asked, ServeAgain(q) PROVE RunsKept'
  BY <1>1, <1>4 DEF ServeAgain
<1>5. ASSUME NEW d \in Devices, Pull(d) \/ Refresh(d) PROVE RunsKept'
  BY <1>1, <1>5 DEF Pull, Refresh
<1>6. ASSUME NEW d \in Devices, ApplyPage(d) PROVE RunsKept'
  BY <1>6, AppliedElsewhere, RunsUntouched DEF ApplyPage
<1>7. ASSUME NEW d \in Devices, TakeReply(d) PROVE RunsKept'
  BY <1>7, AppliedElsewhere, RunsUntouched DEF TakeReply
<1>8. CASE UploadTask \/ Reupload \/ Requeue
  BY <1>1, <1>8 DEF UploadTask, Reupload, Requeue
<1>9. ASSUME NEW k \in Minted, UploadJob(k) \/ ExpireJob(k) \/ OpenJob(k) \/ OpenStop(k) \/ SendStop(k)
      PROVE  RunsKept'
  BY <1>1, <1>9 DEF UploadJob, ExpireJob, OpenJob, OpenStop, SendStop
<1>10. ASSUME NEW k \in Minted, Claim(k), Current' = Current,
              UNCHANGED <<ran, finish, settled, assigned>>
       PROVE  RunsKept'
  <2>1. k \in Runs /\ RunKept(k)
    BY <1>0 DEF RunsKept
  <2>2. /\ turn' = [turn EXCEPT ![k] = "waiting"] /\ journal' = [journal EXCEPT ![k] = "claimed"]
        /\ turn'[k] = "waiting" /\ journal'[k] = "claimed" /\ journal[k] \in {"none", "pending"}
    BY <1>10, <2>1 DEF Claim, Claimable, TypeOK
  <2>3. RunKept(k)'
    BY <1>10, <2>1, <2>2 DEF RunKept, Minted
  <2> QED BY <1>10, <2>1, <2>2, <2>3, OthersUntouched DEF TypeOK
<1>11. ASSUME NEW k \in Minted, StartLocal(k) PROVE RunsKept'
  BY <1>10, <1>11 DEF StartLocal, Current
<1>12. ASSUME NEW k \in Minted, StartSealed(k) PROVE RunsKept'
  <2>1. Current' = Current
    BY <1>0, <1>12, AppliedElsewhere DEF StartSealed
  <2> QED BY <1>10, <1>12, <2>1 DEF StartSealed
<1>13. ASSUME NEW k \in Minted, Current' = Current,
              UNCHANGED <<ran, finish, journal, settled, assigned>>, turn[k] # "none",
              NEW x, turn' = [turn EXCEPT ![k] = x], x \notin {"running", "waiting"},
              x \in {"admitted", "done"} => RunKept(k)'
       PROVE  RunsKept'
  <2>1. k \in Runs /\ RunKept(k) /\ turn'[k] = x
    BY <1>0, <1>13 DEF RunsKept, TypeOK
  <2>2. RunKept(k)'
    BY <1>13, <2>1 DEF RunKept, Minted
  <2> QED BY <1>13, <2>1, <2>2, OthersUntouched DEF TypeOK
<1>14. ASSUME NEW k \in Minted, Validate(k) PROVE RunsKept'
  <2>1. /\ k \in Runs /\ RunKept(k) /\ turn[k] = "waiting" /\ Current.run = k
        /\ turn' = [turn EXCEPT ![k] = "admitted"] /\ turn'[k] = "admitted" /\ Current' = Current
        /\ UNCHANGED <<ran, finish, journal, settled, assigned>>
    BY <1>0, <1>14 DEF Validate, Authorized, RunsKept, TypeOK, Current
  <2>2. RunKept(k)'
    BY <2>1 DEF RunKept, Minted
  <2> QED BY <1>13, <2>1, <2>2
<1>15. ASSUME NEW k \in Minted, Refuse(k) PROVE RunsKept'
  <2>1. /\ turn[k] # "none" /\ turn' = [turn EXCEPT ![k] = "blocked"] /\ Current' = Current
        /\ UNCHANGED <<ran, finish, journal, settled, assigned>>
    BY <1>15 DEF Refuse, Current
  <2> QED BY <1>13, <2>1
<1>16. ASSUME NEW k \in Minted, Begin(k) PROVE RunsKept'
  <2>1. /\ k \in Runs /\ RunKept(k) /\ turn[k] = "admitted" /\ turn'[k] = "running"
        /\ turn' = [turn EXCEPT ![k] = "running"] /\ ran' = ran \cup {k} /\ Current' = Current
        /\ UNCHANGED <<finish, journal, settled, assigned>>
    BY <1>0, <1>16 DEF Begin, RunsKept, TypeOK, Current
  <2>2. RunKept(k)'
    BY <2>1 DEF RunKept, Minted
  <2> QED BY <2>1, <2>2, OthersUntouched DEF TypeOK
<1>17. ASSUME NEW k \in Minted, EndTurn(k) PROVE RunsKept'
  <2>1. PICK o \in {"done", "blocked"} : turn' = [turn EXCEPT ![k] = o]
    BY <1>17 DEF EndTurn
  <2>2. /\ k \in Runs /\ RunKept(k) /\ turn[k] = "running" /\ turn'[k] = o /\ Current' = Current
        /\ UNCHANGED <<ran, finish, journal, settled, assigned>>
    BY <1>0, <1>17, <2>1 DEF EndTurn, RunsKept, TypeOK, Current
  <2>3. RunKept(k)'
    BY <2>2 DEF RunKept, Minted
  <2> QED BY <1>13, <2>1, <2>2, <2>3
<1>18. ASSUME NEW k \in Minted, SaveFinish(k) PROVE RunsKept'
  <2>1. /\ k \in Runs /\ RunKept(k) /\ turn[k] \in {"done", "blocked"} /\ turn'[k] = "none"
        /\ journal'[k] = "reporting" /\ finish'[k] = turn[k]
        /\ turn' = [turn EXCEPT ![k] = "none"] /\ Current' = Current
        /\ journal' = [journal EXCEPT ![k] = "reporting"]
        /\ finish' = [finish EXCEPT ![k] = turn[k]]
        /\ UNCHANGED <<ran, settled, assigned>>
    BY <1>0, <1>18 DEF SaveFinish, RunsKept, TypeOK, Current
  <2>2. RunKept(k)'
    BY <2>1 DEF RunKept, Minted
  <2> QED BY <2>1, <2>2, OthersUntouched DEF TypeOK
<1>19. ASSUME NEW k \in Minted, FinishHere(k) PROVE RunsKept'
  <2> DEFINE t == Outcome(Current, finish[k])
  <2>1. /\ k \in Runs /\ RunKept(k) /\ Current.run = k /\ k # NoRun
        /\ journal[k] = "reporting" /\ settled[k] = NoTask
        /\ Current' = t /\ settled' = [settled EXCEPT ![k] = t]
        /\ UNCHANGED <<turn, ran, journal, finish, assigned>>
    BY <1>0, <1>19, CommitIsCurrent DEF FinishHere, RunsKept
  <2>2. t.run = NoRun
    BY <1>0, OutcomeTypes
  <2> HIDE DEF t
  <2>3. ASSUME NEW i \in Runs PROVE RunKept(i)'
    <3>1. CASE i # k
      <4>1. /\ settled'[i] = settled[i] /\ RunKept(i) /\ i # NoRun
            /\ turn[i] \notin {"admitted", "running"}
        BY <1>0, <2>1, <3>1 DEF TypeOK, RunsKept, RunKept, Runs
      <4> QED BY <2>1, <2>2, <4>1 DEF RunKept, Minted
    <3>2. CASE i = k
      BY <2>1, <2>2, <3>2 DEF RunKept, Minted
    <3> QED BY <3>1, <3>2
  <2> QED BY <2>1, <2>2, <2>3 DEF RunsKept
<1>20. ASSUME NEW k \in Minted, FinishDelivered(k) PROVE RunsKept'
  <2>1. Current' = Current
    BY <1>0, <1>20, AppliedElsewhere DEF FinishDelivered
  <2>2. /\ k \in Runs /\ RunKept(k) /\ journal[k] = "reporting" /\ journal'[k] = "finished"
        /\ journal' = [journal EXCEPT ![k] = "finished"]
        /\ UNCHANGED <<turn, ran, finish, settled, assigned>>
    BY <1>0, <1>20 DEF FinishDelivered, RunsKept, TypeOK
  <2>3. RunKept(k)'
    BY <2>1, <2>2 DEF RunKept, Minted
  <2> QED BY <2>1, <2>2, <2>3, OthersUntouched DEF TypeOK
<1>21. ASSUME NEW d \in Restarting, Restart(d) PROVE RunsKept'
  <2>1. /\ Current' = Current /\ UNCHANGED <<ran, settled, assigned>>
        /\ \A k \in Runs :
              /\ turn'[k] = turn[k] \/ turn'[k] = "none"
              /\ \/ journal'[k] = journal[k] /\ finish'[k] = finish[k]
                 \/ /\ journal[k] = "claimed" /\ journal'[k] = "reporting"
                    /\ finish'[k] = "blocked" /\ turn'[k] = "none" /\ k \in Minted
    BY <1>21 DEF Restart, Recovered, RunOn, Current
  <2>2. ASSUME NEW k \in Runs PROVE RunKept(k)'
    <3>1. RunKept(k)
      BY DEF RunsKept
    <3> QED BY <2>1, <3>1 DEF RunKept, Minted
  <2> QED BY <2>1, <2>2 DEF RunsKept, Minted
<1>22. CASE UNCHANGED vars
  BY <1>1, <1>22 DEF vars
<1> QED BY <1>2, <1>3, <1>4, <1>5, <1>6, <1>7, <1>8, <1>9, <1>11, <1>12, <1>14, <1>15, <1>16,
           <1>17, <1>18, <1>19, <1>20, <1>21, <1>22 DEF Next, RelayStep, RunStep

\* What is known of the runs holds from the start.
LEMMA RunsInit == Init => RunsKept
<1> SUFFICES ASSUME Init PROVE RunsKept
  OBVIOUS
<1>1. Current = NoTask /\ Minted = {}
  BY TaskConstants DEF Init, Current, Minted
<1> QED BY <1>1, RecordTypes DEF Init, RunsKept, RunKept

\* The turn that runs is the run the authority holds active.
THEOREM TurnsDoNotOverlap == Spec => []OneTurnAtATime
<1>1. RunsKept => OneTurnAtATime
  BY DEF RunsKept, RunKept, OneTurnAtATime
<1> QED BY <1>1, RunsInit, RunsStep, TypeCorrect, PTL DEF Spec

-----------------------------------------------------------------------------
(* The runs implement WorkRun.                                             *)

\* The runs at work, and those that work or may not work any more.
Working == {k \in Runs : turn[k] = "running"}
Worked  == ran \cup {k \in Runs : settled[k] # NoTask}
Shown   == <<Current.state, Current.run, Len(assigned), Working, Worked>>

\* Only an admitted run that has not run begins.
LEMMA OnlyBeginBegins ==
    ASSUME TypeOK, RunsKept, [Next]_vars, NEW k \in Runs, turn[k] # "running", turn'[k] = "running"
    PROVE  k \notin ran
<1>1. turn \in [Runs -> {"none", "waiting", "admitted", "running", "done", "blocked"}]
  BY DEF TypeOK
<1>2. ASSUME NEW i \in Minted, Begin(i) PROVE k \notin ran
  <2>1. i = k /\ turn[k] = "admitted"
    BY <1>1, <1>2 DEF Begin
  <2> QED BY <2>1 DEF RunsKept, RunKept
<1>3. ASSUME NEW i \in Minted, NEW x \in {"waiting", "admitted", "none", "blocked", "done"},
             turn' = [turn EXCEPT ![i] = x]
      PROVE  FALSE
  BY <1>1, <1>3
<1>4. ASSUME NEW i \in Minted, StartLocal(i) \/ StartSealed(i) \/ Validate(i) \/ Refuse(i)
      PROVE  FALSE
  BY <1>3, <1>4 DEF StartLocal, StartSealed, Claim, Validate, Refuse
<1>5. ASSUME NEW i \in Minted, EndTurn(i) \/ SaveFinish(i) PROVE FALSE
  BY <1>3, <1>5 DEF EndTurn, SaveFinish
<1>6. ASSUME NEW d \in Restarting, Restart(d) PROVE FALSE
  <2>1. turn'[k] \in {turn[k], "none"}
    BY <1>6 DEF Restart
  <2> QED BY <2>1
<1>7. ASSUME UNCHANGED turn PROVE FALSE
  BY <1>7
<1>8. CASE RelayStep
  BY <1>7, <1>8 DEF RelayStep, UploadTask, Reupload, Requeue, Pull, ApplyPage, Refresh, TakeReply, UploadJob,
                    ExpireJob, OpenJob, OpenStop
<1>9. CASE Asks
  BY <1>7, <1>9, AskTypes
<1>10. ASSUME NEW q \in DOMAIN asked, Serve(q) \/ ServeAgain(q) PROVE FALSE
  BY <1>7, <1>10 DEF Serve, ServeAgain
<1>11. ASSUME NEW i \in Minted, FinishHere(i) \/ FinishDelivered(i) \/ SendStop(i) PROVE FALSE
  BY <1>7, <1>11 DEF FinishHere, FinishDelivered, SendStop
<1>12. CASE UNCHANGED vars
  BY <1>7, <1>12 DEF vars
<1> QED BY <1>2, <1>4, <1>5, <1>6, <1>8, <1>9, <1>10, <1>11, <1>12 DEF Next, RunStep

\* Every step of the task is a step of WorkRun or changes nothing it shows.
LEMMA WorkRunStep ==
    ASSUME TypeOK, TypeOK', RunsKept, [Next]_vars
    PROVE  [Promise!Next]_Shown
<1> USE DEF Working, Worked, Shown
<1>0. /\ Authority \in Devices /\ Current \in Task /\ MaxRuns \in Nat
      /\ Minted = 1..Len(assigned) /\ Minted \subseteq Runs /\ Len(assigned) \in Nat
      /\ \A k \in Minted : assigned[k] \in Devices
      /\ \A q \in DOMAIN asked : asked[q] \in Request
      /\ NoRun = 0 /\ Promise!NoRun = 0 /\ Restarting \subseteq Devices
      /\ Promise!Runs = Runs /\ Promise!States = States
  <2>1. Promise!Runs = Runs /\ NoRun = 0 /\ Promise!NoRun = 0
    BY DEF Promise!Runs, Runs, NoRun, Promise!NoRun
  <2>2. Promise!States = States
    BY DEF Promise!States, States
  <2> QED BY <2>1, <2>2, TypeFacts, TaskConstants DEF TypeOK
<1>1. ASSUME Current' = Current, UNCHANGED <<assigned, ran, settled>>,
             \A k \in Runs : turn[k] = "running" <=> turn'[k] = "running"
      PROVE  UNCHANGED Shown
  BY <1>1
<1>2. ASSUME UNCHANGED <<task, assigned, ran, settled, turn>> PROVE UNCHANGED Shown
  BY <1>1, <1>2 DEF Current
<1>3. CASE Asks
  BY <1>2, <1>3, AskTypes
<1>4. ASSUME NEW q \in DOMAIN asked, Serve(q) PROVE [Promise!Next]_Shown
  <2> DEFINE r == asked[q]
             t == Changed(Current, r)
  <2>1. /\ t.run = IF r.method = "run" THEN Len(assigned) + 1 ELSE Current.run
        /\ t.state = IF r.method = "run" THEN "working"
                     ELSE IF r.method = "update" THEN r.to ELSE Current.state
        /\ Current' = t /\ r \in Request /\ t \in Task
    BY <1>0, <1>4, ChangedTypes, CommitIsCurrent DEF Serve
  <2>2. /\ UNCHANGED <<settled, turn, ran>> /\ Permits(Current, r)
        /\ IF r.method = "run" THEN Dispatch(t) /\ Len(assigned) < MaxRuns ELSE UNCHANGED assigned
    BY <1>4 DEF Serve
  <2> HIDE DEF t
  <2>3. CASE r.method = "run"
    <3>1. /\ Current.run = NoRun /\ Current.state \notin {"awaiting_review", "completed", "cancelled"}
          /\ assigned' = Append(assigned, t.runner)
      BY <2>2, <2>3 DEF Permits, Allows, Dispatch, Finished
    <3>2. Len(assigned') = Len(assigned) + 1
      BY <3>1 DEF TypeOK
    <3>3. Promise!Start
      BY <1>0, <2>1, <2>2, <2>3, <3>1, <3>2 DEF Promise!Start
    <3> QED BY <3>3 DEF Promise!Next
  <2>4. CASE r.method = "update"
    <3>1. r.to \in States /\ (r.to = "working" => Current.state = "working")
      BY <2>1, <2>2, <2>4 DEF Permits, Allows, Request
    <3>2. Promise!Record(r.to)
      BY <2>1, <2>2, <2>4, <3>1 DEF Promise!Record
    <3> QED BY <1>0, <3>1, <3>2 DEF Promise!Next
  <2>5. CASE r.method \notin {"run", "update"}
    BY <2>1, <2>2, <2>5
  <2> QED BY <2>3, <2>4, <2>5
<1>5. ASSUME NEW q \in DOMAIN asked, ServeAgain(q) PROVE UNCHANGED Shown
  BY <1>2, <1>5 DEF ServeAgain
<1>6. ASSUME NEW d \in Devices, Pull(d) \/ Refresh(d) PROVE UNCHANGED Shown
  BY <1>2, <1>6 DEF Pull, Refresh
<1>7. ASSUME NEW d \in Devices, ApplyPage(d) PROVE UNCHANGED Shown
  BY <1>1, <1>7, AppliedElsewhere DEF ApplyPage
<1>8. ASSUME NEW d \in Devices, TakeReply(d) PROVE UNCHANGED Shown
  BY <1>1, <1>8, AppliedElsewhere DEF TakeReply
<1>9. CASE UploadTask \/ Reupload \/ Requeue
  BY <1>2, <1>9 DEF UploadTask, Reupload, Requeue
<1>10. ASSUME NEW k \in Minted, UploadJob(k) \/ ExpireJob(k) \/ OpenJob(k) \/ OpenStop(k) \/ SendStop(k)
       PROVE  UNCHANGED Shown
  BY <1>2, <1>10 DEF UploadJob, ExpireJob, OpenJob, OpenStop, SendStop
<1>11. ASSUME NEW k \in Minted, Claim(k), Current' = Current, UNCHANGED <<assigned, ran, settled>>
       PROVE  UNCHANGED Shown
  <2>1. turn[k] # "running" /\ turn' = [turn EXCEPT ![k] = "waiting"]
    BY <1>0, <1>11 DEF Claim, Claimable, RunsKept, RunKept
  <2> QED BY <1>1, <1>11, <2>1 DEF TypeOK
<1>12. ASSUME NEW k \in Minted, StartLocal(k) PROVE UNCHANGED Shown
  BY <1>11, <1>12 DEF StartLocal, Current
<1>13. ASSUME NEW k \in Minted, StartSealed(k) PROVE UNCHANGED Shown
  <2>1. Current' = Current
    BY <1>0, <1>13, AppliedElsewhere DEF StartSealed
  <2> QED BY <1>11, <1>13, <2>1 DEF StartSealed
<1>14. ASSUME NEW k \in Minted, Validate(k) \/ Refuse(k) \/ SaveFinish(k) PROVE UNCHANGED Shown
  <2>1. turn[k] # "running" /\ UNCHANGED <<task, assigned, ran, settled>>
    BY <1>14 DEF Validate, Refuse, SaveFinish
  <2>2. PICK x \in {"admitted", "blocked", "none"} : turn' = [turn EXCEPT ![k] = x]
    BY <1>14 DEF Validate, Refuse, SaveFinish
  <2> QED BY <1>1, <2>1, <2>2 DEF TypeOK, Current
<1>15. ASSUME NEW k \in Minted, Begin(k) PROVE [Promise!Next]_Shown
  <2>1. /\ k \in Runs /\ RunKept(k) /\ turn[k] = "admitted" /\ Current' = Current
        /\ turn' = [turn EXCEPT ![k] = "running"] /\ ran' = ran \cup {k}
        /\ UNCHANGED <<settled, assigned>>
    BY <1>0, <1>15 DEF Begin, RunsKept, Current
  <2>2. Current.run = k /\ k \notin Worked
    BY <2>1 DEF RunKept
  <2>3. Working' = Working \cup {k} /\ Worked' = Worked \cup {k}
    BY <2>1 DEF TypeOK
  <2>4. Promise!Work(k)
    BY <2>1, <2>2, <2>3 DEF Promise!Work
  <2> QED BY <1>0, <2>1, <2>4 DEF Promise!Next
<1>16. ASSUME NEW k \in Minted, EndTurn(k) PROVE [Promise!Next]_Shown
  <2>1. PICK o \in {"done", "blocked"} : turn' = [turn EXCEPT ![k] = o]
    BY <1>16 DEF EndTurn
  <2>2. Working' = Working \ {k} /\ UNCHANGED <<task, ran, settled, assigned>>
    BY <1>16, <2>1 DEF EndTurn, TypeOK
  <2>3. Promise!Rest({k})
    BY <2>2 DEF Promise!Rest, Current
  <2> QED BY <1>0, <2>3 DEF Promise!Next
<1>17. ASSUME NEW k \in Minted, FinishHere(k) PROVE [Promise!Next]_Shown
  <2> DEFINE t == Outcome(Current, finish[k])
  <2>1. /\ k \in Runs /\ RunKept(k) /\ Current.run = k /\ journal[k] = "reporting"
        /\ Current' = t /\ settled' = [settled EXCEPT ![k] = t]
        /\ UNCHANGED <<turn, ran, assigned>>
    BY <1>0, <1>17, CommitIsCurrent DEF FinishHere, RunsKept
  <2>2. /\ t.run = NoRun /\ t \in Task /\ t.revision = Current.revision + 1
        /\ t.state = IF Current.state # "working" THEN Current.state
                     ELSE IF finish[k] = "done" THEN "awaiting_review" ELSE "blocked"
    BY <1>0, OutcomeTypes
  <2> HIDE DEF t
  <2>3. t # NoTask /\ k \notin Working /\ (finish[k] = "done" => k \in Worked)
    <3>1. Current.revision + 1 > 0
      BY <1>0 DEF Task
    <3> QED BY <2>1, <2>2, <3>1, RecordTypes DEF RunKept
  <2>4. Working' = Working /\ Worked' = Worked \cup {k}
    BY <2>1, <2>3 DEF TypeOK
  <2>5. Promise!Settle(k)
    BY <1>0, <2>1, <2>2, <2>3, <2>4 DEF Promise!Settle
  <2> QED BY <1>0, <2>1, <2>5 DEF Promise!Next
<1>18. ASSUME NEW k \in Minted, FinishDelivered(k) PROVE UNCHANGED Shown
  <2>1. Current' = Current
    BY <1>0, <1>18, AppliedElsewhere DEF FinishDelivered
  <2> QED BY <1>1, <1>18, <2>1 DEF FinishDelivered
<1>19. ASSUME NEW d \in Restarting, Restart(d) PROVE [Promise!Next]_Shown
  <2>0. PICK stopped \in SUBSET Runs : stopped = RunOn(d) \cap Runs
    OBVIOUS
  <2>1. Working' = Working \ stopped /\ UNCHANGED <<task, ran, settled, assigned>>
    BY <1>19, <2>0 DEF Restart
  <2>2. stopped \in SUBSET Promise!Runs
    BY <1>0
  <2>3. Promise!Rest(stopped)
    BY <2>1 DEF Promise!Rest, Current
  <2> QED BY <2>2, <2>3 DEF Promise!Next
<1>20. CASE UNCHANGED vars
  BY <1>2, <1>20 DEF vars
<1> QED BY <1>3, <1>4, <1>5, <1>6, <1>7, <1>8, <1>9, <1>10, <1>12, <1>13, <1>14, <1>15, <1>16,
           <1>17, <1>18, <1>19, <1>20 DEF Next, RelayStep, RunStep

\* A run's turn begins at most once.
THEOREM TurnsDoNotRepeat == Spec => OneTurnPerRun
<1>1. TypeOK /\ RunsKept /\ [Next]_vars
         => [\A k \in Runs : turn[k] # "running" /\ turn'[k] = "running" => k \notin ran]_vars
  BY OnlyBeginBegins
<1> QED BY <1>1, RunsInit, RunsStep, TypeCorrect, PTL DEF Spec, OneTurnPerRun

\* The detailed task implements WorkRun.
THEOREM ImplementsWorkRun == Spec => RunsFollow
<1>1. Init => Promise!Init
  <2> SUFFICES ASSUME Init PROVE Promise!Init
    OBVIOUS
  <2>1. Current = NoTask /\ Len(assigned) = 0 /\ NoRun = Promise!NoRun
    BY TaskConstants DEF Init, Current, NoRun, Promise!NoRun
  <2> QED BY <2>1, RecordTypes DEF Init, Promise!Init
<1>2. TypeOK /\ TypeOK' /\ RunsKept /\ [Next]_vars => [Promise!Next]_Shown
  BY WorkRunStep
<1> QED BY <1>1, <1>2, RunsInit, RunsStep, TypeCorrect, PTL
        DEF Spec, RunsFollow, Promise!Spec, Shown, Working, Worked

-----------------------------------------------------------------------------
(* The word to stop reaches a turn.                                        *)

\* A turn that is admitted was waiting or was admitted before.
LEMMA AdmittedBefore ==
    ASSUME TypeOK, [Next]_vars, NEW k \in Runs, turn'[k] \in {"admitted", "running"}
    PROVE  turn[k] \in {"admitted", "running"} \/ (k \in Minted /\ Validate(k))
<1>1. turn \in [Runs -> {"none", "waiting", "admitted", "running", "done", "blocked"}]
      /\ Minted \subseteq Runs
  BY TypeFacts DEF TypeOK
<1>2. ASSUME NEW i \in Minted, Validate(i) \/ Begin(i)
      PROVE  turn[k] \in {"admitted", "running"} \/ (k \in Minted /\ Validate(k))
  BY <1>1, <1>2 DEF Validate, Begin
<1>3. ASSUME NEW i \in Minted, NEW x \in {"waiting", "none", "blocked", "done"},
             turn' = [turn EXCEPT ![i] = x]
      PROVE  turn[k] \in {"admitted", "running"}
  BY <1>1, <1>3
<1>4. ASSUME NEW i \in Minted, StartLocal(i) \/ StartSealed(i) \/ Refuse(i)
      PROVE  turn[k] \in {"admitted", "running"}
  BY <1>3, <1>4 DEF StartLocal, StartSealed, Claim, Refuse
<1>5. ASSUME NEW i \in Minted, EndTurn(i) \/ SaveFinish(i) PROVE turn[k] \in {"admitted", "running"}
  BY <1>3, <1>5 DEF EndTurn, SaveFinish
<1>6. ASSUME NEW d \in Restarting, Restart(d) PROVE turn[k] \in {"admitted", "running"}
  <2>1. turn'[k] \in {turn[k], "none"}
    BY <1>6 DEF Restart
  <2> QED BY <2>1
<1>7. ASSUME UNCHANGED turn PROVE turn[k] \in {"admitted", "running"}
  BY <1>7
<1>8. CASE RelayStep
  BY <1>7, <1>8 DEF RelayStep, UploadTask, Reupload, Requeue, Pull, ApplyPage, Refresh, TakeReply, UploadJob,
                    ExpireJob, OpenJob, OpenStop
<1>9. CASE Asks
  BY <1>7, <1>9, AskTypes
<1>10. ASSUME NEW q \in DOMAIN asked, Serve(q) \/ ServeAgain(q) PROVE turn[k] \in {"admitted", "running"}
  BY <1>7, <1>10 DEF Serve, ServeAgain
<1>11. ASSUME NEW i \in Minted, FinishHere(i) \/ FinishDelivered(i) \/ SendStop(i)
       PROVE  turn[k] \in {"admitted", "running"}
  BY <1>7, <1>11 DEF FinishHere, FinishDelivered, SendStop
<1>12. CASE UNCHANGED vars
  BY <1>7, <1>12 DEF vars
<1> QED BY <1>2, <1>4, <1>5, <1>6, <1>8, <1>9, <1>10, <1>11, <1>12 DEF Next, RunStep

\* A run that recorded the state itself has done so from then on.
LEMMA OwnStays ==
    ASSUME TypeOK, [Next]_vars, NEW k \in Runs, Own(k)
    PROVE  Own(k)'
<1>1. PICK q \in DOMAIN asked : asked[q].by = k /\ receipts[q] # NoTask
  BY DEF Own
<1>2. CASE UNCHANGED <<asked, receipts>>
  BY <1>1, <1>2 DEF Own
<1>3. CASE Asks
  <2>1. PICK r : asked' = Append(asked, r) /\ UNCHANGED receipts
    BY <1>3, AskTypes
  <2>2. q \in DOMAIN asked' /\ asked'[q] = asked[q]
    BY <1>1, <2>1 DEF TypeOK
  <2> QED BY <1>1, <2>1, <2>2 DEF Own
<1>4. ASSUME NEW i \in DOMAIN asked, Serve(i) PROVE Own(k)'
  <2>1. i # q /\ UNCHANGED asked /\ receipts' = [receipts EXCEPT ![i] = Changed(Current, asked[i])]
    BY <1>1, <1>4 DEF Serve
  <2>2. receipts'[q] = receipts[q]
    BY <1>1, <2>1, TypeFacts DEF TypeOK
  <2> QED BY <1>1, <2>1, <2>2 DEF Own
<1>5. CASE RelayStep
  BY <1>2, <1>5 DEF RelayStep, UploadTask, Reupload, Requeue, Pull, ApplyPage, Refresh, TakeReply, UploadJob,
              ExpireJob, OpenJob, OpenStop
<1>6. ASSUME NEW i \in Minted, RunStep(i) \/ SendStop(i) PROVE Own(k)'
  BY <1>2, <1>6 DEF RunStep, StartLocal, StartSealed, Validate, Refuse, Begin, EndTurn, SaveFinish,
              FinishHere, FinishDelivered, SendStop
<1>7. ASSUME NEW i \in DOMAIN asked, ServeAgain(i) PROVE Own(k)'
  BY <1>2, <1>7 DEF ServeAgain
<1>8. ASSUME NEW d \in Restarting, Restart(d) PROVE Own(k)'
  BY <1>2, <1>8 DEF Restart
<1>9. CASE UNCHANGED vars
  BY <1>2, <1>9 DEF vars
<1> QED BY <1>3, <1>4, <1>5, <1>6, <1>7, <1>8, <1>9 DEF Next

\* The authority starts again before cancel_run has told k.
Forgets(k) == <<"cancel", k>> \in todo /\ restarts'[Authority] # restarts[Authority]

\* Nothing else loses the word on its way.
LEMMA WordKept ==
    ASSUME TypeOK, RunsKept, [Next]_vars, NEW k \in Runs, Stopping(k),
           turn[k] \in {"admitted", "running"}, turn'[k] \in {"admitted", "running"}
    PROVE  Stopping(k)' \/ Forgets(k)
<1>0. /\ turn \in [Runs -> {"none", "waiting", "admitted", "running", "done", "blocked"}]
      /\ stop \in [Runs -> {"none", "queued", "applied"}]
      /\ Minted \subseteq Runs /\ k \in Minted
  BY TypeFacts DEF TypeOK, RunsKept, RunKept
<1>1. ASSUME k \in token => k \in token', <<"cancel", k>> \in todo => <<"cancel", k>> \in todo',
             stop'[k] = stop[k]
      PROVE  Stopping(k)'
  BY <1>1 DEF Stopping
<1>2. ASSUME NEW i \in Minted, SendStop(i) PROVE Stopping(k)'
  <2>1. CASE i = k
    BY <1>0, <1>2, <2>1 DEF SendStop, Told, Stopping
  <2>2. CASE i # k
    <3>1. todo' = todo \ {<<"cancel", i>>} /\ token \subseteq token' /\ stop'[k] = stop[k]
      BY <1>0, <1>2, <2>2 DEF SendStop, Told
    <3> QED BY <1>1, <2>2, <3>1
  <2> QED BY <2>1, <2>2
<1>3. ASSUME NEW i \in Minted, OpenStop(i) PROVE Stopping(k)'
  <2>1. CASE i = k
    BY <1>0, <1>3, <2>1 DEF OpenStop, Told, Stopping
  <2>2. CASE i # k
    <3>1. UNCHANGED todo /\ token \subseteq token' /\ stop'[k] = stop[k]
      BY <1>0, <1>3, <2>2 DEF OpenStop, Told
    <3> QED BY <1>1, <3>1
  <2> QED BY <2>1, <2>2
<1>4. ASSUME NEW i \in Minted, SaveFinish(i) PROVE Stopping(k)'
  <2>1. i # k
    BY <1>0, <1>4 DEF SaveFinish
  <2> QED BY <1>1, <1>4, <2>1 DEF SaveFinish
<1>5. ASSUME NEW d \in Restarting, Restart(d) PROVE Stopping(k)' \/ Forgets(k)
  <2>1. k \notin RunOn(d)
    BY <1>0, <1>5 DEF Restart
  <2>2. CASE d # Authority
    BY <1>1, <1>5, <2>1, <2>2 DEF Restart
  <2>3. CASE d = Authority
    <3>1. restarts'[Authority] # restarts[Authority]
      BY <1>5, <2>3, TaskConstants DEF Restart, TypeOK
    <3>2. (k \in token => k \in token') /\ UNCHANGED stop
      BY <1>5, <2>1 DEF Restart
    <3> QED BY <3>1, <3>2 DEF Stopping, Forgets
  <2> QED BY <2>2, <2>3
<1>6. ASSUME NEW q \in DOMAIN asked, Serve(q) PROVE Stopping(k)'
  <2>1. todo \subseteq todo' /\ UNCHANGED <<token, stop>>
    BY <1>6 DEF Serve, Dispatch
  <2> QED BY <1>1, <2>1
<1>7. CASE Requeue
  <2>1. PICK t : todo' = todo \ {<<"upload", t>>} /\ UNCHANGED <<token, stop>>
    BY <1>7 DEF Requeue
  <2> QED BY <1>1, <2>1
<1>8. CASE Reupload
  BY <1>1, <1>8 DEF Reupload
<1>9. ASSUME NEW i \in Minted, StartLocal(i) PROVE Stopping(k)'
  BY <1>1, <1>9 DEF StartLocal
<1>10. ASSUME UNCHANGED <<token, todo, stop>> PROVE Stopping(k)'
  BY <1>10 DEF Stopping
<1>11. ASSUME NEW i \in Minted, UploadJob(i) \/ ExpireJob(i) \/ OpenJob(i) PROVE Stopping(k)'
  BY <1>10, <1>11 DEF UploadJob, ExpireJob, OpenJob
<1>12. ASSUME NEW i \in Minted,
              StartSealed(i) \/ Validate(i) \/ Refuse(i) \/ Begin(i) \/ EndTurn(i) \/ FinishHere(i)
                \/ FinishDelivered(i)
       PROVE  Stopping(k)'
  BY <1>10, <1>12 DEF StartSealed, Validate, Refuse, Begin, EndTurn, FinishHere, FinishDelivered
<1>13. ASSUME NEW d \in Devices, Pull(d) \/ ApplyPage(d) \/ Refresh(d) \/ TakeReply(d)
       PROVE  Stopping(k)'
  BY <1>10, <1>13 DEF Pull, ApplyPage, Refresh, TakeReply
<1>14. CASE UploadTask \/ UNCHANGED vars
  BY <1>10, <1>14 DEF UploadTask, vars
<1>15. CASE Asks
  BY <1>10, <1>15, AskTypes
<1>16. ASSUME NEW q \in DOMAIN asked, ServeAgain(q) PROVE Stopping(k)'
  BY <1>10, <1>16 DEF ServeAgain
<1> QED BY <1>2, <1>3, <1>4, <1>5, <1>6, <1>7, <1>8, <1>9, <1>11, <1>12, <1>13, <1>14, <1>15, <1>16
        DEF Next, RelayStep, RunStep

\* The authority's record leaves `working` in a call, which sends the word, or
\* with the report that ends the run.
LEMMA LeavesWorking ==
    ASSUME TypeOK, RunsKept, RunsKept', [Next]_vars, NEW k \in Runs,
           turn'[k] \in {"admitted", "running"}, turn[k] \in {"admitted", "running"},
           Current.state = "working", Current'.state # "working"
    PROVE  Own(k)' \/ Stopping(k)'
<1>0. /\ Current \in Task /\ Current.run = k /\ Current'.run = k /\ k # NoRun
      /\ \A i \in Minted : assigned[i] \in Devices
  BY TypeFacts DEF RunsKept, RunKept, Runs, NoRun
<1>1. ASSUME NEW q \in DOMAIN asked, Serve(q) PROVE Own(k)' \/ Stopping(k)'
  <2> DEFINE r == asked[q]
             t == Changed(Current, r)
  <2>1. /\ Current' = t /\ r \in Request /\ t.revision = Current.revision + 1
        /\ receipts' = [receipts EXCEPT ![q] = t] /\ UNCHANGED asked
        /\ r.method = "run" => Len(assigned) < MaxRuns
    BY <1>0, <1>1, TypeFacts, ChangedTypes, CommitIsCurrent DEF Serve
  <2>2. r.method # "run"
    BY <1>0, <1>1 DEF Serve, Permits, Allows
  <2>3. todo' = IF Cancels(t, r) THEN todo \cup {<<"cancel", t.run>>} ELSE todo
    BY <1>1, <2>2 DEF Serve
  <2>4. receipts'[q] # NoTask
    <3>1. t.revision # 0
      BY <1>0, <2>1 DEF Task
    <3>2. receipts'[q] = t
      BY <2>1, TypeFacts DEF TypeOK
    <3> QED BY <3>1, <3>2, RecordTypes
  <2> HIDE DEF t
  <2>5. CASE r.by = k
    BY <2>1, <2>4, <2>5 DEF Own
  <2>6. CASE r.by # k
    BY <1>0, <2>1, <2>3, <2>6 DEF Cancels, Stopping
  <2> QED BY <2>5, <2>6
<1>2. ASSUME NEW i \in Minted, FinishHere(i) PROVE FALSE
  <2>1. Current' = Outcome(Current, finish[i])
    BY <1>2, CommitIsCurrent DEF FinishHere
  <2> QED BY <1>0, <2>1, OutcomeTypes
<1>3. ASSUME Current' = Current PROVE FALSE
  BY <1>3
<1>4. ASSUME UNCHANGED task PROVE FALSE
  BY <1>3, <1>4 DEF Current
<1>5. ASSUME NEW d \in Devices, Pull(d) \/ ApplyPage(d) \/ Refresh(d) \/ TakeReply(d) PROVE FALSE
  BY <1>3, <1>4, <1>5, AppliedElsewhere DEF Pull, ApplyPage, Refresh, TakeReply
<1>6. ASSUME NEW i \in Minted, StartSealed(i) \/ FinishDelivered(i) PROVE FALSE
  BY <1>0, <1>3, <1>6, AppliedElsewhere DEF StartSealed, FinishDelivered
<1>7. ASSUME NEW i \in Minted,
             StartLocal(i) \/ Validate(i) \/ Refuse(i) \/ Begin(i) \/ EndTurn(i) \/ SaveFinish(i)
               \/ SendStop(i)
      PROVE  FALSE
  BY <1>4, <1>7 DEF StartLocal, Validate, Refuse, Begin, EndTurn, SaveFinish, SendStop
<1>8. ASSUME NEW i \in Minted, UploadJob(i) \/ ExpireJob(i) \/ OpenJob(i) \/ OpenStop(i) PROVE FALSE
  BY <1>4, <1>8 DEF UploadJob, ExpireJob, OpenJob, OpenStop
<1>9. ~(UploadTask \/ Reupload \/ Requeue \/ UNCHANGED vars)
  BY <1>4 DEF UploadTask, Reupload, Requeue, vars
<1>10. ~Asks
  BY <1>4, AskTypes
<1>11. ASSUME NEW q \in DOMAIN asked, ServeAgain(q) PROVE FALSE
  BY <1>4, <1>11 DEF ServeAgain
<1>12. ASSUME NEW d \in Restarting, Restart(d) PROVE FALSE
  BY <1>4, <1>12 DEF Restart
<1> QED BY <1>1, <1>2, <1>5, <1>6, <1>7, <1>8, <1>9, <1>10, <1>11, <1>12 DEF Next, RelayStep, RunStep

LEMMA StopsStep ==
    ASSUME TypeOK, RunsKept, RunsKept', [Next]_vars, NEW k \in Runs, Unstopped(k)'
    PROVE  Unstopped(k) \/ Forgets(k)
<1>0. /\ turn'[k] \in {"admitted", "running"} /\ Current'.state # "working"
      /\ ~(Own(k)') /\ ~(Stopping(k)')
  BY DEF Unstopped
<1>1. ~Own(k)
  BY <1>0, OwnStays
<1>2. ~(k \in Minted /\ Validate(k))
  BY <1>0 DEF Validate, Authorized, Current
<1>3. turn[k] \in {"admitted", "running"}
  BY <1>0, <1>2, AdmittedBefore
<1>4. Current.state # "working"
  BY <1>0, <1>3, LeavesWorking
<1>5. CASE Stopping(k)
  BY <1>0, <1>3, <1>5, WordKept
<1> QED BY <1>1, <1>3, <1>4, <1>5 DEF Unstopped

\* tasks/mod.rs cancel_run: a turn whose task someone else took out of `working` is told to
\* stop, or the word is on its way, whatever stops and starts again and however late messages
\* are; the word is lost only when the authority restarts between the commit and cancel_run.
THEOREM StopsArrive == Spec => StopsReach
<1>1. TypeOK /\ RunsKept /\ RunsKept' /\ [Next]_vars
        => [\A k \in Runs : Unstopped(k)' =>
               Unstopped(k) \/ (<<"cancel", k>> \in todo /\ restarts'[Authority] # restarts[Authority])]_vars
  BY StopsStep DEF Forgets
<1> QED BY <1>1, RunsInit, RunsStep, TypeCorrect, PTL DEF Spec, StopsReach
-----------------------------------------------------------------------------
(* Dependencies between tasks, for any tasks and any authorities.          *)

CONSTANTS Ids,          \* ids of tasks
          AuthorityOf,  \* AuthorityOf[t]: the Runner that is the authority of t
          MaxRevisions
VARIABLES edits, held, behind  \* TaskGraph's

Graph == INSTANCE TaskGraph WITH Tasks <- Ids

\* An authority holds the newest record of its own tasks, and so was never
\* behind on one of them.
Owned ==
    /\ \A t \in Ids : held[AuthorityOf[t]][t] = Len(edits[t])
    /\ \A t, u \in Ids : u \in behind[t] => AuthorityOf[u] # AuthorityOf[t]

\* What an accepted edit of t and an applied replica do to the records.
LEMMA GraphTypes ==
    ASSUME Graph!GraphConstants PROVE Graph!Spec => [](Graph!TypeOK /\ Owned)
<1>1. Graph!Init => Graph!TypeOK /\ Owned
  BY DEF Graph!Init, Graph!TypeOK, Graph!GraphConstants, Owned
<1>2. Graph!TypeOK /\ Owned /\ [Graph!Next]_Graph!vars => Graph!TypeOK' /\ Owned'
  <2> SUFFICES ASSUME Graph!TypeOK, Owned, [Graph!Next]_Graph!vars PROVE Graph!TypeOK' /\ Owned'
    OBVIOUS
  <2>0. AuthorityOf \in [Ids -> Runners]
    BY DEF Graph!GraphConstants
  <2>1. ASSUME NEW t \in Ids, NEW D \in SUBSET Ids, Graph!Edit(t, D)
        PROVE  Graph!TypeOK' /\ Owned'
    <3>1. AuthorityOf[t] \in Runners
      BY <2>0
    <3>2. edits[t] \in Seq(SUBSET Ids)
      BY DEF Graph!TypeOK
    <3>3. Append(edits[t], D) \in Seq(SUBSET Ids) /\ Len(edits[t]) + 1 \in Nat
          /\ Len(Append(edits[t], D)) = Len(edits[t]) + 1
      BY <3>2
    <3> DEFINE d == AuthorityOf[t]
               B == {u \in Ids : held[d][u] # Len(edits[u])}
    <3>4. /\ edits' = [edits EXCEPT ![t] = Append(edits[t], D)]
          /\ held' = [held EXCEPT ![d][t] = Len(edits[t]) + 1]
          /\ behind' = [behind EXCEPT ![t] = B]
      BY <2>1 DEF Graph!Edit
    <3>5. B \in SUBSET Ids
      OBVIOUS
    <3>6. Graph!TypeOK'
      BY <3>1, <3>3, <3>4, <3>5 DEF Graph!TypeOK
    <3>7. ASSUME NEW u \in Ids PROVE held'[AuthorityOf[u]][u] = Len(edits'[u])
      BY <2>0, <3>1, <3>3, <3>4 DEF Graph!TypeOK, Owned
    <3>8. ASSUME NEW s \in Ids, NEW u \in Ids, u \in behind'[s] PROVE AuthorityOf[u] # AuthorityOf[s]
      <4>1. CASE s = t
        <5>1. u \in B
          BY <3>4, <3>8, <4>1 DEF Graph!TypeOK
        <5> QED BY <4>1, <5>1 DEF Owned
      <4>2. CASE s # t
        BY <3>4, <3>8, <4>2 DEF Graph!TypeOK, Owned
      <4> QED BY <4>1, <4>2
    <3> QED BY <3>6, <3>7, <3>8 DEF Owned
  <2>2. ASSUME NEW d \in Runners, NEW t \in Ids, Graph!Apply(d, t)
        PROVE  Graph!TypeOK' /\ Owned'
    <3>1. held[d][t] \in Nat /\ edits[t] \in Seq(SUBSET Ids)
      BY DEF Graph!TypeOK
    <3>2. PICK n \in held[d][t] + 1 .. Len(edits[t]) : held' = [held EXCEPT ![d][t] = n]
      BY <2>2 DEF Graph!Apply
    <3>3. n \in Nat /\ d # AuthorityOf[t] /\ UNCHANGED <<edits, behind>>
      BY <2>2, <3>1, <3>2 DEF Graph!Apply
    <3>4. Graph!TypeOK'
      BY <3>2, <3>3 DEF Graph!TypeOK
    <3>5. \A u \in Ids : held'[AuthorityOf[u]][u] = held[AuthorityOf[u]][u]
      BY <2>0, <3>2, <3>3 DEF Graph!TypeOK
    <3> QED BY <3>3, <3>4, <3>5 DEF Owned
  <2>3. CASE UNCHANGED Graph!vars
    BY <2>3 DEF Graph!vars, Graph!TypeOK, Owned
  <2> QED BY <2>1, <2>2, <2>3 DEF Graph!Next
<1> QED BY <1>1, <1>2, PTL DEF Graph!Spec

\* tasks/mod.rs dependencies: whatever the authorities and however late replicas
\* are, dependencies form an acyclic graph but for cycles of which some authority
\* accepted its part while it held an old record of another task of the cycle; so
\* those of one authority's tasks never do.
THEOREM CyclesNeedOldRecords ==
    ASSUME Graph!GraphConstants
    PROVE  Graph!Spec => [](Graph!Acyclic /\ Graph!OwnAcyclic)
<1>1. Graph!Init => Graph!Acyclic
  <2> SUFFICES ASSUME Graph!Init, NEW C \in SUBSET Ids, Graph!Loops(C) PROVE FALSE
    BY DEF Graph!Acyclic
  <2>1. \A t \in Ids : Graph!Current(t) = {}
    BY DEF Graph!Init, Graph!Current, Graph!Seen, Graph!GraphConstants
  <2> QED BY <2>1 DEF Graph!Loops
<1>2. Graph!TypeOK /\ Owned /\ Graph!Acyclic /\ Owned' /\ [Graph!Next]_Graph!vars => Graph!Acyclic'
  <2> SUFFICES ASSUME Graph!TypeOK, Owned, Graph!Acyclic, Owned', [Graph!Next]_Graph!vars
               PROVE  Graph!Acyclic'
    OBVIOUS
  <2>0. AuthorityOf \in [Ids -> Runners]
    BY DEF Graph!GraphConstants
  <2>1. ASSUME NEW t \in Ids, NEW D \in SUBSET Ids, Graph!Edit(t, D) PROVE Graph!Acyclic'
    <3> DEFINE d == AuthorityOf[t]
               B == {u \in Ids : held[d][u] # Len(edits[u])}
    <3>1. /\ edits' = [edits EXCEPT ![t] = Append(edits[t], D)]
          /\ held' = [held EXCEPT ![d][t] = Len(edits[t]) + 1]
          /\ behind' = [behind EXCEPT ![t] = B]
          /\ ~Graph!LeadsTo([x \in Ids |-> Graph!Seen(d, x)], D, t)
          /\ d \in Runners /\ edits[t] \in Seq(SUBSET Ids)
      BY <2>0, <2>1 DEF Graph!Edit, Graph!NoCycle, Graph!TypeOK
    <3>2. Graph!Current(t)' = D
      BY <2>0, <3>1 DEF Graph!Current, Graph!Seen, Graph!TypeOK
    <3>3. ASSUME NEW x \in Ids, x # t
          PROVE  Graph!Current(x)' = Graph!Current(x) /\ behind'[x] = behind[x]
      BY <2>0, <3>1, <3>3 DEF Graph!Current, Graph!Seen, Graph!TypeOK
    <3>4. behind'[t] = B
      BY <3>1 DEF Graph!TypeOK
    \* The walk stayed within W, which leaves t out.
    <3>5. PICK W \in SUBSET Ids :
             D \subseteq W /\ t \notin W /\ \A x \in W : Graph!Seen(d, x) \subseteq W
      BY <3>1 DEF Graph!LeadsTo, Graph!Within
    <3>6. SUFFICES ASSUME NEW C \in SUBSET Ids, Graph!Loops(C)',
                          \A x \in C : behind'[x] \cap C = {}
                   PROVE  FALSE
      BY DEF Graph!Acyclic
    <3>7. CASE t \notin C
      <4>1. Graph!Loops(C)
        BY <3>3, <3>6, <3>7 DEF Graph!Loops
      <4> QED BY <3>3, <3>6, <3>7, <4>1 DEF Graph!Acyclic
    <3>8. CASE t \in C
      \* The authority held the newest record of each task of C,
      <4>1. ASSUME NEW x \in C PROVE Graph!Seen(d, x) = Graph!Current(x)
        <5>1. held[d][x] = Len(edits[x]) /\ held[AuthorityOf[x]][x] = Len(edits[x])
          BY <3>4, <3>6, <3>8 DEF Owned
        <5> QED BY <5>1 DEF Graph!Seen, Graph!Current
      \* so those the walk met wait for one another already.
      <4>2. C \cap W # {} /\ t \notin C \cap W
        BY <3>2, <3>5, <3>6, <3>8 DEF Graph!Loops
      <4>3. ASSUME NEW x \in C \cap W PROVE Graph!Current(x) \cap (C \cap W) # {}
        <5>1. x # t /\ Graph!Current(x) \cap C # {}
          BY <3>3, <3>5, <3>6 DEF Graph!Loops
        <5> QED BY <3>5, <4>1, <5>1
      <4>4. Graph!Loops(C \cap W)
        BY <4>2, <4>3 DEF Graph!Loops
      <4>5. PICK x \in C \cap W : behind[x] \cap (C \cap W) # {}
        BY <4>4 DEF Graph!Acyclic
      <4> QED BY <3>3, <3>6, <4>2, <4>5
    <3> QED BY <3>7, <3>8
  <2>2. ASSUME NEW d \in Runners, NEW t \in Ids, Graph!Apply(d, t) PROVE Graph!Acyclic'
    <3>1. UNCHANGED <<edits, behind>>
      BY <2>2 DEF Graph!Apply
    <3>2. \A x \in Ids : Graph!Current(x)' = Graph!Current(x)
      BY <3>1 DEF Graph!Current, Graph!Seen, Owned
    <3> QED BY <3>1, <3>2 DEF Graph!Acyclic, Graph!Loops
  <2>3. CASE UNCHANGED Graph!vars
    BY <2>3 DEF Graph!vars, Graph!Acyclic, Graph!Loops, Graph!Current, Graph!Seen
  <2> QED BY <2>1, <2>2, <2>3 DEF Graph!Next
<1>3. Owned /\ Graph!Acyclic => Graph!OwnAcyclic
  BY DEF Owned, Graph!Acyclic, Graph!OwnAcyclic
<1> QED BY <1>1, <1>2, <1>3, GraphTypes, PTL DEF Graph!Spec
=============================================================================
