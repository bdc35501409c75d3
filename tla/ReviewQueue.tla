---------------------------- MODULE ReviewQueue ----------------------------
(***************************************************************************)
(* One proposal of the review queue (crates/cli/src/review_queue.rs) and   *)
(* the executor of approved calls (review_execution.rs), on the Runner     *)
(* that owns it.  A decision names the version its Device showed; edits    *)
(* and approvals prepare without the lock and then compare the stored      *)
(* record with the one they read.  The executor claims durably, prepares   *)
(* again and calls once.  The world the preconditions capture, and what    *)
(* the bot may do, change at any time; processes stop at any time.         *)
(***************************************************************************)
EXTENDS Naturals, Sequences

CONSTANTS Processes,    \* the CLI processes that have the Runner's store open
          Devices,      \* the other paired Devices
          Payloads,     \* what may be proposed
          MaxCalls,     \* bound: calls made
          MaxChanges,   \* bound: changes of the world and of the Access
          MaxRestarts,  \* bound: restarts, of all processes
          Occurs        \* what else may happen: a subset of Events

\* "world": a precondition changes.  "access": authorization is withdrawn or
\* given back.  "edit": users edit.  "reupload": the account's records are
\* queued again.  "lost": the Runner comes back without its store.
Events == {"world", "access", "edit", "reupload", "lost"}

ASSUME ReviewConstants ==
    /\ MaxCalls \in Nat /\ MaxChanges \in Nat /\ MaxRestarts \in Nat
    /\ Occurs \subseteq Events

States == {"pending", "approved", "executing", "succeeded", "failed",
           "rejected", "cancelled", "uncertain"}
Ended  == {"succeeded", "failed", "rejected", "cancelled", "uncertain"}
Worlds == {1, 2}
Denied == 0  \* what prepare finds when authorization fails

\* `pre` stands for the captured preconditions.  `approval` counts approvals:
\* it names one in the history `approvals`, or is 0.
NoItem == [version |-> 0, revision |-> 0, state |-> "pending",
           payload |-> "none", pre |-> 0, approval |-> 0]

\* What an approval's digest covers.
Digest(i) == [version |-> i.version, payload |-> i.payload, pre |-> i.pre]

VARIABLES
    item,       \* the Runner's review_items row
    out,        \* its queued `review` blob
    slot,       \* the relay's `review` blob
    view,       \* view[d]: Device d's row
    reread,     \* what enqueue_owned has read and not queued
    calls,      \* the calls made, and where each is
    exec,       \* exec[p]: process p's execute_approved for the item
    wake,       \* wake[p]: review_wake holds a permit for p's loop
    world,      \* what the preconditions capture, as it is
    allowed,    \* whether authorize_execution passes
    changes,    \* changes of the two so far
    restarts,   \* restarts so far
    approvals,  \* history: what was approved, and what its Device showed
    effects     \* history: the calls the executor made

vars == <<item, out, slot, view, reread, calls, exec, wake, world, allowed, changes,
          restarts, approvals, effects>>

\* A call that has been answered.
NoCall == [method |-> "none", shown |-> NoItem, payload |-> "none", at |-> "done",
           by |-> "none", item |-> NoItem, found |-> Denied]

Called(method, shown, payload, at, by, i, found) ==
    [method |-> method, shown |-> shown, payload |-> payload, at |-> at,
     by |-> by, item |-> i, found |-> found]

NoExec == [at |-> "idle", item |-> NoItem, found |-> Denied, end |-> "none"]

Init ==
    /\ item = NoItem
    /\ out = NoItem
    /\ slot = NoItem
    /\ view = [d \in Devices |-> NoItem]
    /\ reread = NoItem
    /\ calls = <<>>
    /\ exec = [p \in Processes |-> NoExec]
    /\ wake = [p \in Processes |-> TRUE]
    /\ world = 1
    /\ allowed = TRUE
    /\ changes = 0
    /\ restarts = 0
    /\ approvals = <<>>
    /\ effects = <<>>

-----------------------------------------------------------------------------

\* save: the row and its blob in one transaction.
Save(i) == item' = i /\ out' = i

\* record: the next revision of an item, in another state.
Moved(i, state, approval) ==
    [version |-> i.version, revision |-> i.revision + 1, state |-> state,
     payload |-> i.payload, pre |-> i.pre, approval |-> approval]

\* Slip: an edit keeps the version.
RenewedSameVersion(i, payload, pre) ==
    [Moved(i, "pending", 0) EXCEPT !.payload = payload, !.pre = pre]

\* An edited or stale item is pending again under a new version.
Renewed(i, payload, pre) ==
    [version |-> i.version + 1, revision |-> i.revision + 1, state |-> "pending",
     payload |-> payload, pre |-> pre, approval |-> 0]

Editable(i) == i.version > 0 /\ i.state \in {"pending", "approved"}

\* prepare: the preconditions as they are, once authorization passes.
Prepared == IF allowed THEN world ELSE Denied

-----------------------------------------------------------------------------
(* Calls.                                                                  *)

\* A user or a bot calls from what a Device shows, or the Runner's own app.
Ask(method, shown, payload) ==
    /\ Len(calls) < MaxCalls
    /\ method = "create" <=> shown.version = 0
    /\ method # "create" => Editable(shown)
    /\ calls' = Append(calls, Called(method, shown, payload, "asked", "none", NoItem, Denied))
    /\ UNCHANGED <<item, out, slot, view, reread, exec, wake, world, allowed, changes,
                   restarts, approvals, effects>>

Asks ==
    \E shown \in {item} \cup {view[d] : d \in Devices} :
        \/ \E payload \in Payloads :
              \/ Ask("create", shown, payload)
              \/ "edit" \in Occurs /\ payload # shown.payload /\ Ask("edit", shown, payload)
        \/ \E m \in {"approve", "reject", "cancel"} : Ask(m, shown, shown.payload)

\* require_version and editable.
Serves(i, shown) == i.version = shown.version /\ Editable(i)

Answered(c) == [calls EXCEPT ![c] = NoCall]

\* mutate_until up to its await: the record is read, and prepared for.
Look(c, p) ==
    /\ calls[c].at = "asked"
    /\ calls[c].method \in {"create", "edit", "approve"}
    /\ LET ready == /\ IF calls[c].method = "create" THEN item = NoItem
                       ELSE Serves(item, calls[c].shown)
                    /\ allowed
       IN  calls' = IF ready
                      THEN [calls EXCEPT ![c] = Called(@.method, @.shown, @.payload, "prepared",
                                                       p, item, Prepared)]
                      ELSE Answered(c)
    /\ UNCHANGED <<item, out, slot, view, reread, exec, wake, world, allowed, changes,
                   restarts, approvals, effects>>

\* Slip: the record is not compared with the one that was read.
UnchangedSinceAny(c) == allowed

\* Under the lock: nothing was saved since, and authorization still passes.
UnchangedSince(c) == item = calls[c].item /\ allowed

\* An edit, or an approval of what has become stale, needs another look.
Renews(r) == r.method = "edit" \/ r.item.pre # r.found

\* mutate_until after its await.
CommitCreate(c) ==
    /\ calls[c].at = "prepared" /\ calls[c].method = "create"
    /\ UnchangedSince(c)
    /\ Save([version |-> 1, revision |-> 1, state |-> "pending", payload |-> calls[c].payload,
             pre |-> calls[c].found, approval |-> 0])
    /\ calls' = Answered(c)
    /\ UNCHANGED <<slot, view, reread, exec, wake, world, allowed, changes, restarts,
                   approvals, effects>>

CommitRenewal(c) ==
    /\ calls[c].at = "prepared" /\ calls[c].method \in {"edit", "approve"}
    /\ UnchangedSince(c)
    /\ Renews(calls[c])
    /\ Save(Renewed(calls[c].item, calls[c].payload, calls[c].found))
    /\ calls' = Answered(c)
    /\ UNCHANGED <<slot, view, reread, exec, wake, world, allowed, changes, restarts,
                   approvals, effects>>

Woken(p) == [wake EXCEPT ![p] = TRUE]

\* The approval is saved, then the process's own executor is woken.
CommitApproval(c) ==
    LET i == calls[c].item IN
    /\ calls[c].at = "prepared" /\ calls[c].method = "approve"
    /\ UnchangedSince(c)
    /\ ~Renews(calls[c])
    /\ IF i.state = "approved" THEN UNCHANGED <<item, out, approvals, wake>>
       ELSE /\ Save(Moved(i, "approved", Len(approvals) + 1))
            /\ approvals' = Append(approvals, [is |-> Digest(i), shown |-> calls[c].shown.payload])
            /\ wake' = Woken(calls[c].by)
    /\ calls' = Answered(c)
    /\ UNCHANGED <<slot, view, reread, exec, world, allowed, changes, restarts, effects>>

CommitRefused(c) ==
    /\ calls[c].at = "prepared"
    /\ ~UnchangedSince(c)
    /\ calls' = Answered(c)
    /\ UNCHANGED <<item, out, slot, view, reread, exec, wake, world, allowed, changes,
                   restarts, approvals, effects>>

Declined(method) == IF method = "reject" THEN "rejected" ELSE "cancelled"

\* reviews.reject and reviews.cancel.
Decline(c) ==
    /\ calls[c].at = "asked" /\ calls[c].method \in {"reject", "cancel"}
    /\ IF Serves(item, calls[c].shown)
         THEN Save(Moved(item, Declined(calls[c].method), 0))
         ELSE UNCHANGED <<item, out>>
    /\ calls' = Answered(c)
    /\ UNCHANGED <<slot, view, reread, exec, wake, world, allowed, changes, restarts,
                   approvals, effects>>

-----------------------------------------------------------------------------
(* The executor.                                                           *)

Enter(p, stage, i, found, end) ==
    exec' = [exec EXCEPT ![p] = [at |-> stage, item |-> i, found |-> found, end |-> end]]

Move(p, stage) == Enter(p, stage, exec[p].item, exec[p].found, exec[p].end)

\* run: the loop takes its permit, lists the approved items, and starts those
\* that are not running.
Wake(p) ==
    /\ wake[p]
    /\ wake' = [wake EXCEPT ![p] = FALSE]
    /\ IF item.state = "approved" /\ exec[p].at = "idle" THEN Move(p, "queued") ELSE UNCHANGED exec
    /\ UNCHANGED <<item, out, slot, view, reread, calls, world, allowed, changes, restarts,
                   approvals, effects>>

\* With the chat's lock: the record is read, and prepared for.
Load(p) ==
    /\ exec[p].at = "queued"
    /\ Enter(p, IF item.state = "approved" THEN "loaded" ELSE "ending", item, Prepared, "none")
    /\ UNCHANGED <<item, out, slot, view, reread, calls, wake, world, allowed, changes,
                   restarts, approvals, effects>>

\* Slip: preconditions are compared before the claim only.
HoldsAlways(p) == TRUE

\* The preconditions are those that were reviewed.
Holds(p) == exec[p].found = exec[p].item.pre

ApprovalValid(i) == i.approval > 0 /\ approvals[i.approval].is = Digest(i)

\* invalidate: without new preconditions when they could not be read.
Invalidated(i, found) == Renewed(i, i.payload, IF found = Denied THEN i.pre ELSE found)

Stands(p) == item = exec[p].item

Claim(p) ==
    LET i == exec[p].item IN
    /\ exec[p].at = "loaded"
    /\ IF ~Stands(p) THEN Move(p, "ending") /\ UNCHANGED <<item, out>>
       ELSE IF exec[p].found # i.pre \/ ~ApprovalValid(i)
              THEN Save(Invalidated(i, exec[p].found)) /\ Move(p, "ending")
       ELSE IF ~allowed THEN Move(p, "ending") /\ UNCHANGED <<item, out>>
       ELSE Save(Moved(i, "executing", i.approval)) /\ Move(p, "claimed")
    /\ UNCHANGED <<slot, view, reread, calls, wake, world, allowed, changes, restarts,
                   approvals, effects>>

\* The second prepare, after the claim is durable.
Verify(p) ==
    /\ exec[p].at = "claimed"
    /\ Enter(p, "verified", exec[p].item, Prepared, "none")
    /\ UNCHANGED <<item, out, slot, view, reread, calls, wake, world, allowed, changes,
                   restarts, approvals, effects>>

Claimed(p) == item.state = "executing" /\ item.version = exec[p].item.version

Check(p) ==
    /\ exec[p].at = "verified"
    /\ IF ~Claimed(p) THEN Move(p, "ending") /\ UNCHANGED <<item, out>>
       ELSE IF ~Holds(p) THEN Save(Invalidated(item, exec[p].found)) /\ Move(p, "ending")
       ELSE Move(p, IF allowed THEN "calling" ELSE "ending") /\ UNCHANGED <<item, out>>
    /\ UNCHANGED <<slot, view, reread, calls, wake, world, allowed, changes, restarts,
                   approvals, effects>>

\* The tool runs once: it may refuse before it has an effect, and a timeout or
\* a lost answer leaves open whether it had one.
Call(p) ==
    /\ exec[p].at = "calling"
    /\ \E end \in {"succeeded", "failed", "uncertain"}, happens \in BOOLEAN :
          /\ end = "succeeded" => happens
          /\ Enter(p, "called", exec[p].item, exec[p].found, end)
          /\ effects' = IF happens
                          THEN Append(effects, [approval |-> exec[p].item.approval,
                                                is |-> Digest(exec[p].item), met |-> exec[p].found])
                          ELSE effects
    /\ UNCHANGED <<item, out, slot, view, reread, calls, wake, world, allowed, changes,
                   restarts, approvals>>

Finish(p) ==
    /\ exec[p].at = "called"
    /\ IF Claimed(p) THEN Save(Moved(item, exec[p].end, item.approval))
       ELSE UNCHANGED <<item, out>>
    /\ Move(p, "ending")
    /\ UNCHANGED <<slot, view, reread, calls, wake, world, allowed, changes, restarts,
                   approvals, effects>>

\* The task returns and leaves `running`.
Leave(p) ==
    /\ exec[p].at = "ending"
    /\ exec' = [exec EXCEPT ![p] = NoExec]
    /\ UNCHANGED <<item, out, slot, view, reread, calls, wake, world, allowed, changes,
                   restarts, approvals, effects>>

-----------------------------------------------------------------------------
(* Restarts.                                                               *)

\* Slip: nothing is recovered.
NotRecovered(i) == i

\* recover_interrupted: whether a claimed call ran is not known.
Recovered(i) == IF i.state = "executing" THEN Moved(i, "uncertain", i.approval) ELSE i

Stopped(p) ==
    [c \in DOMAIN calls |-> IF calls[c].at = "prepared" /\ calls[c].by = p
                              THEN NoCall ELSE calls[c]]

\* A process starts: it recovers, and its loop lists once.
Restart(p) ==
    /\ restarts < MaxRestarts
    /\ restarts' = restarts + 1
    /\ exec' = [exec EXCEPT ![p] = NoExec]
    /\ calls' = Stopped(p)
    /\ IF Recovered(item) # item THEN Save(Recovered(item)) ELSE UNCHANGED <<item, out>>
    /\ wake' = Woken(p)
    /\ reread' = NoItem
    /\ UNCHANGED <<slot, view, world, allowed, changes, approvals, effects>>

\* The Runner comes back without its store, and reads the account again.
Lose ==
    /\ "lost" \in Occurs
    /\ restarts < MaxRestarts
    /\ restarts' = restarts + 1
    /\ item' = NoItem
    /\ out' = NoItem
    /\ reread' = NoItem
    /\ exec' = [p \in Processes |-> NoExec]
    /\ wake' = [p \in Processes |-> TRUE]
    /\ calls' = [c \in DOMAIN calls |->
                    IF calls[c].at = "prepared" THEN NoCall ELSE calls[c]]
    /\ UNCHANGED <<slot, view, world, allowed, changes, approvals, effects>>

\* Slip: a restored approval is as good as it was.
RestoredAsIs(i) == i

\* apply, on the Runner: an old approval or claim is not taken up again.
Restored(i) ==
    IF i.state \in {"approved", "executing"} THEN Moved(i, "uncertain", 0) ELSE i

TakeBack ==
    /\ item = NoItem
    /\ slot # NoItem
    /\ item' = Restored(slot)
    /\ out' = IF Restored(slot) # slot THEN Restored(slot) ELSE out
    /\ UNCHANGED <<slot, view, reread, calls, exec, wake, world, allowed, changes, restarts,
                   approvals, effects>>

-----------------------------------------------------------------------------
(* Sync, and what changes around the item.                                 *)

Upload ==
    /\ out # NoItem
    /\ slot' = out
    /\ out' = NoItem
    /\ UNCHANGED <<item, view, reread, calls, exec, wake, world, allowed, changes, restarts,
                   approvals, effects>>

\* apply, on another Device.
Apply(d) ==
    /\ slot.revision > view[d].revision
    /\ view' = [view EXCEPT ![d] = slot]
    /\ UNCHANGED <<item, out, slot, reread, calls, exec, wake, world, allowed, changes,
                   restarts, approvals, effects>>

\* enqueue_owned lists the rows,
Reread ==
    /\ "reupload" \in Occurs
    /\ item # NoItem
    /\ reread = NoItem
    /\ reread' = item
    /\ UNCHANGED <<item, out, slot, view, calls, exec, wake, world, allowed, changes,
                   restarts, approvals, effects>>

\* and queues what it read.
Requeue ==
    /\ reread # NoItem
    /\ out' = reread
    /\ reread' = NoItem
    /\ UNCHANGED <<item, slot, view, calls, exec, wake, world, allowed, changes, restarts,
                   approvals, effects>>

Change ==
    /\ changes < MaxChanges
    /\ changes' = changes + 1
    /\ \/ "world" \in Occurs /\ world' \in Worlds \ {world} /\ UNCHANGED allowed
       \/ "access" \in Occurs /\ allowed' = ~allowed /\ UNCHANGED world
    /\ UNCHANGED <<item, out, slot, view, reread, calls, exec, wake, restarts, approvals, effects>>

-----------------------------------------------------------------------------

CallStep(c) ==
    \/ \E p \in Processes : Look(c, p)
    \/ CommitCreate(c) \/ CommitRenewal(c) \/ CommitApproval(c) \/ CommitRefused(c) \/ Decline(c)

ExecStep(p) ==
    \/ Load(p) \/ Claim(p) \/ Verify(p) \/ Check(p) \/ Call(p) \/ Finish(p) \/ Leave(p)

Next ==
    \/ Asks
    \/ \E c \in DOMAIN calls : CallStep(c)
    \/ \E p \in Processes : Wake(p) \/ ExecStep(p) \/ Restart(p)
    \/ Lose \/ TakeBack \/ Upload \/ Reread \/ Requeue \/ Change
    \/ \E d \in Devices : Apply(d)

Spec == Init /\ [][Next]_vars

-----------------------------------------------------------------------------
(* Safety.                                                                 *)

Items == [version : Nat, revision : Nat, state : States, payload : Payloads \cup {"none"},
          pre : Worlds \cup {Denied}, approval : Nat]

Digests == [version : Nat, payload : Payloads \cup {"none"}, pre : Worlds \cup {Denied}]

Calls == [method : {"none", "create", "edit", "approve", "reject", "cancel"}, shown : Items,
          payload : Payloads \cup {"none"}, at : {"asked", "prepared", "done"},
          by : Processes \cup {"none"}, item : Items, found : Worlds \cup {Denied}]

Execs == [at : {"idle", "queued", "loaded", "claimed", "verified", "calling", "called", "ending"},
          item : Items, found : Worlds \cup {Denied},
          end : {"none", "succeeded", "failed", "uncertain"}]

Effects == [approval : Nat, is : Digests, met : Worlds \cup {Denied}]

\* An item names an approval while it holds one, and never otherwise.
ApprovalShape(i) ==
    /\ i.state \in {"approved", "executing", "succeeded", "failed"} => i.approval > 0
    /\ i.state \in {"pending", "rejected", "cancelled"} => i.approval = 0
    /\ i.approval <= Len(approvals)

\* Types, and that an item holds an approval exactly in the states that have one.
TypeOK ==
    /\ item \in Items /\ out \in Items /\ slot \in Items /\ reread \in Items
    /\ view \in [Devices -> Items]
    /\ calls \in Seq(Calls)
    /\ exec \in [Processes -> Execs]
    /\ wake \in [Processes -> BOOLEAN]
    /\ world \in Worlds /\ allowed \in BOOLEAN
    /\ changes \in Nat /\ restarts \in Nat
    /\ approvals \in Seq([is : Digests, shown : Payloads \cup {"none"}])
    /\ effects \in Seq(Effects)
    /\ ApprovalShape(item)

\* One approval lets the call run once, whichever processes run executors, and
\* however they restart (review_execution.rs:435, "is never retried").
OneEffectPerApproval ==
    \A i, j \in DOMAIN effects :
        effects[i].approval = effects[j].approval => i = j

\* What ran is what was approved, version, payload and preconditions, and the
\* world read after the claim is the one that was reviewed.
EffectAsApproved ==
    \A i \in DOMAIN effects :
        LET e == effects[i] IN
        /\ e.approval \in DOMAIN approvals
        /\ approvals[e.approval].is = e.is
        /\ e.met = e.is.pre

\* A user approves the payload a Device showed, even when another Device has
\* edited it meanwhile (require_version, then the comparison after the await).
ApprovedAsShown ==
    \A k \in DOMAIN approvals : approvals[k].is.payload = approvals[k].shown

\* The call runs under a claim: never on an item a user was told is cancelled,
\* rejected or up for review again.
DecisionsStand ==
    [][\A k \in DOMAIN effects' \ DOMAIN effects :
          /\ item.state \in {"executing", "uncertain"}
          /\ effects'[k].is = Digest(item)]_vars

\* What has ended stays as it ended: no decision, executor or recovery moves it.
EndedIsFinal ==
    [][item.state \in Ended => item' \in {item, NoItem}]_vars

-----------------------------------------------------------------------------
(* Liveness.  The executor's tasks run until they return, a call times out *)
(* after ten minutes, and sync retries.  Users owe nothing.                *)

Fairness ==
    /\ \A p \in Processes : WF_vars(Wake(p)) /\ WF_vars(ExecStep(p))
    /\ WF_vars(TakeBack) /\ WF_vars(Upload) /\ WF_vars(Requeue)
    /\ \A d \in Devices : WF_vars(Apply(d))

FairSpec == Spec /\ Fairness

\* An approval is acted on: the call runs, or the item needs another look.
EveryApprovalEnds == item.state = "approved" ~> item.state # "approved"

=============================================================================
