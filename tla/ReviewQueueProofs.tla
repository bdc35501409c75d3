------------------------- MODULE ReviewQueueProofs -------------------------
(***************************************************************************)
(* One approval lets one call run, under its own claim; what runs is what  *)
(* was approved, and that is what its Device showed; and what has ended    *)
(* stays.  For any number of processes, Devices, payloads, calls and       *)
(* restarts.                                                               *)
(***************************************************************************)
EXTENDS ReviewQueue, TLAPS

\* The stages between a claim and its end, and those before the call was made.
Uncalled == {"claimed", "verified", "calling"}
Holding  == Uncalled \cup {"called"}

\* An item that holds one of the first n approvals exactly in the states that
\* have one.
NamedOf(i, n) ==
    /\ i \in Items
    /\ i.state \in {"approved", "executing", "succeeded", "failed"} => i.approval > 0
    /\ i.state \in {"pending", "rejected", "cancelled"} => i.approval = 0
    /\ i.approval <= n

\* A loaded item was approved, and a call that was made has an end.
StageOf(e, n) ==
    /\ e \in Execs
    /\ NamedOf(e.item, n)
    /\ e.at = "loaded" => e.item.state = "approved"
    /\ e.at = "called" => e.end # "none"

CallOf(r, n) == r \in Calls /\ NamedOf(r.item, n)

Named(i) == NamedOf(i, Len(approvals))

TypedItems ==
    /\ Named(item) /\ Named(out) /\ Named(slot) /\ Named(reread)
    /\ view \in [Devices -> Items]

TypedCalls ==
    /\ calls \in Seq(Calls)
    /\ \A c \in DOMAIN calls : CallOf(calls[c], Len(approvals))

TypedExec ==
    /\ exec \in [Processes -> Execs]
    /\ \A p \in Processes : StageOf(exec[p], Len(approvals))

TypedRest ==
    /\ wake \in [Processes -> BOOLEAN]
    /\ world \in Worlds /\ allowed \in BOOLEAN
    /\ changes \in Nat /\ restarts \in Nat

TypedHistory ==
    /\ approvals \in Seq([is : Digests, shown : Payloads \cup {"none"}])
    /\ effects \in Seq(Effects)

Typed == TypedItems /\ TypedCalls /\ TypedExec /\ TypedRest /\ TypedHistory

\* What a process holds is what was approved; when it calls, the world is the
\* reviewed one.
HeldAsApproved ==
    \A p \in Processes :
        exec[p].at \in Holding =>
            /\ exec[p].item.approval > 0
            /\ approvals[exec[p].item.approval].is = Digest(exec[p].item)
            /\ exec[p].at = "calling" => Holds(p)

\* An approval that stands is held by nobody and has had no effect,
StandingUnspent ==
    item.state = "approved" =>
        /\ \A p \in Processes : exec[p].at \in Holding => exec[p].item.approval # item.approval
        /\ \A i \in DOMAIN effects : effects[i].approval # item.approval

\* one that is held is held once,
HeldOnce ==
    \A p, q \in Processes :
        exec[p].at \in Holding /\ exec[q].at \in Holding
            /\ exec[p].item.approval = exec[q].item.approval => p = q

\* and has had no effect before its call.
HeldUnspent ==
    \A p \in Processes, i \in DOMAIN effects :
        exec[p].at \in Uncalled => effects[i].approval # exec[p].item.approval

Safe ==
    /\ HeldAsApproved
    /\ StandingUnspent /\ HeldOnce /\ HeldUnspent
    /\ OneEffectPerApproval /\ EffectAsApproved

IInv == Typed /\ Safe

-----------------------------------------------------------------------------
(* Items.                                                                  *)

Known == Worlds \cup {Denied}
Texts == Payloads \cup {"none"}

LEMMA ApprovalsCounted == Typed => Len(approvals) \in Nat
  BY DEF Typed, TypedHistory

LEMMA NoItemNamed == \A n \in Nat : NamedOf(NoItem, n)
  <1>1. NoItem \in Items BY DEF NoItem, Items, States, Denied
  <1> QED BY <1>1 DEF NamedOf, NoItem

\* An edited or invalidated item is pending.
LEMMA RenewedNamed ==
    ASSUME Typed, NEW i \in Items, NEW payload \in Texts, NEW pre \in Known
    PROVE  Named(Renewed(i, payload, pre)) /\ Renewed(i, payload, pre).state = "pending"
  <1>1. Len(approvals) \in Nat BY ApprovalsCounted
  <1>2. Renewed(i, payload, pre) \in Items BY DEF Renewed, Items, States, Known, Texts
  <1>3. Renewed(i, payload, pre).state = "pending" /\ Renewed(i, payload, pre).approval = 0
    BY DEF Renewed
  <1> QED BY <1>1, <1>2, <1>3 DEF Named, NamedOf

LEMMA InvalidatedNamed ==
    ASSUME Typed, NEW i \in Items, NEW found \in Known
    PROVE  Named(Invalidated(i, found)) /\ Invalidated(i, found).state = "pending"
  <1>1. i.payload \in Texts /\ i.pre \in Known BY DEF Items, Texts, Known
  <1> QED BY <1>1, RenewedNamed DEF Invalidated

\* The next revision of an item.
LEMMA MovedIs ==
    ASSUME NEW i, NEW state, NEW approval, NEW j, j = Moved(i, state, approval)
    PROVE  /\ j.state = state /\ j.approval = approval /\ j.pre = i.pre
           /\ j.version = i.version /\ j.payload = i.payload
           /\ Digest(j) = Digest(i)
  BY DEF Moved, Digest

LEMMA MovedNamed ==
    ASSUME NEW i \in Items, NEW state \in States, NEW approval \in Nat, NEW n \in Nat,
           approval <= n,
           state \in {"approved", "executing", "succeeded", "failed"} => approval > 0,
           state \in {"pending", "rejected", "cancelled"} => approval = 0
    PROVE  NamedOf(Moved(i, state, approval), n)
  <1>1. Moved(i, state, approval) \in Items BY DEF Moved, Items
  <1>2. /\ Moved(i, state, approval).state = state
        /\ Moved(i, state, approval).approval = approval
    BY DEF Moved
  <1> QED BY <1>1, <1>2 DEF NamedOf

LEMMA RecoveredNamed ==
    ASSUME NEW i, NEW n \in Nat, NamedOf(i, n)
    PROVE  /\ NamedOf(Recovered(i), n)
           /\ Recovered(i) # i => Recovered(i).state = "uncertain"
  <1>0. i \in Items /\ i.approval \in Nat /\ i.approval <= n
    BY DEF NamedOf, Items
  <1>1. CASE i.state = "executing"
    <2>1. Recovered(i) = Moved(i, "uncertain", i.approval) BY <1>1 DEF Recovered
    <2>2. NamedOf(Moved(i, "uncertain", i.approval), n) BY <1>0, MovedNamed DEF States
    <2> QED BY <2>1, <2>2, MovedIs
  <1>2. CASE i.state # "executing" BY <1>2 DEF Recovered
  <1> QED BY <1>1, <1>2

LEMMA RestoredNamed ==
    ASSUME NEW i, NEW n \in Nat, NamedOf(i, n)
    PROVE  NamedOf(Restored(i), n) /\ Restored(i).state # "approved"
  <1>0. i \in Items BY DEF NamedOf
  <1>1. CASE i.state \in {"approved", "executing"}
    <2>1. Restored(i) = Moved(i, "uncertain", 0) BY <1>1 DEF Restored
    <2>2. NamedOf(Moved(i, "uncertain", 0), n) BY <1>0, MovedNamed DEF States
    <2> QED BY <2>1, <2>2, MovedIs
  <1>2. CASE i.state \notin {"approved", "executing"} BY <1>2 DEF Restored
  <1> QED BY <1>1, <1>2

\* What was named stays named as approvals are given.
LEMMA StillNamed ==
    ASSUME NEW m \in Nat, NEW n \in Nat, m <= n
    PROVE  /\ \A i : NamedOf(i, m) => NamedOf(i, n)
           /\ \A e : StageOf(e, m) => StageOf(e, n)
           /\ \A r : CallOf(r, m) => CallOf(r, n)
  <1>1. \A i : NamedOf(i, m) => NamedOf(i, n) BY DEF NamedOf, Items
  <1> QED BY <1>1 DEF StageOf, CallOf

-----------------------------------------------------------------------------
(* Types.                                                                  *)

LEMMA PreparedKnown == Typed => Prepared \in Known
  BY DEF Typed, TypedRest, Prepared, Known

\* A call that is answered.
LEMMA AnsweredTyped ==
    ASSUME Typed, NEW c \in DOMAIN calls, calls' = Answered(c), approvals' = approvals
    PROVE  TypedCalls'
  <1>1. Len(approvals) \in Nat BY ApprovalsCounted
  <1>2. NoItem \in Items BY NoItemNamed DEF NamedOf
  <1>3. NoCall \in Calls BY <1>2 DEF NoCall, Calls, Denied
  <1>4. NoCall.item = NoItem BY DEF NoCall
  <1>5. CallOf(NoCall, Len(approvals)) BY <1>1, <1>3, <1>4, NoItemNamed DEF CallOf
  <1> QED BY <1>3, <1>5 DEF Answered, Typed, TypedCalls

LEMMA SaveTyped ==
    ASSUME Typed, NEW i, Named(i), Save(i), UNCHANGED <<slot, view, reread, approvals>>
    PROVE  TypedItems'
  BY DEF Typed, TypedItems, Save, Named

\* What a step leaves as it was stays typed.
LEMMA Unchanged ==
    ASSUME Typed, UNCHANGED approvals
    PROVE  /\ UNCHANGED <<item, out, slot, view, reread>> => TypedItems'
           /\ UNCHANGED calls => TypedCalls'
           /\ UNCHANGED exec => TypedExec'
           /\ UNCHANGED <<wake, world, allowed, changes, restarts>> => TypedRest'
           /\ UNCHANGED effects => TypedHistory'
  BY DEF Typed, TypedItems, TypedCalls, TypedExec, TypedRest, TypedHistory, Named

\* A process that enters a stage.
LEMMA EnterTyped ==
    ASSUME Typed, UNCHANGED approvals, NEW p \in Processes, NEW stage, NEW i, NEW found, NEW end,
           Enter(p, stage, i, found, end),
           stage \in {"idle", "queued", "loaded", "claimed", "verified", "calling", "called", "ending"},
           Named(i), found \in Known, end \in {"none", "succeeded", "failed", "uncertain"},
           stage = "loaded" => i.state = "approved",
           stage = "called" => end # "none"
    PROVE  TypedExec'
  <1> DEFINE e == [at |-> stage, item |-> i, found |-> found, end |-> end]
  <1>1. e \in Execs BY DEF Execs, Known, Named, NamedOf
  <1>2. StageOf(e, Len(approvals)) BY <1>1 DEF StageOf, Named
  <1>3. exec' = [exec EXCEPT ![p] = e] BY DEF Enter
  <1> HIDE DEF e
  <1> QED BY <1>1, <1>2, <1>3 DEF Typed, TypedExec

\* What an execution holds.
LEMMA StageIs ==
    ASSUME Typed, NEW p \in Processes
    PROVE  /\ Named(exec[p].item) /\ exec[p].item \in Items
           /\ exec[p].found \in Known
           /\ exec[p].end \in {"none", "succeeded", "failed", "uncertain"}
           /\ exec[p].at = "called" => exec[p].end # "none"
           /\ exec[p].at = "loaded" => exec[p].item.state = "approved"
  <1>1. StageOf(exec[p], Len(approvals)) /\ exec[p] \in Execs BY DEF Typed, TypedExec
  <1> QED BY <1>1 DEF StageOf, Named, NamedOf, Execs, Known

LEMMA MoveTyped ==
    ASSUME Typed, UNCHANGED approvals, NEW p \in Processes, NEW stage, Move(p, stage),
           stage \in {"idle", "queued", "claimed", "calling", "ending"}
    PROVE  TypedExec'
  <1>1. Enter(p, stage, exec[p].item, exec[p].found, exec[p].end) BY DEF Move
  <1> QED BY <1>1, StageIs, EnterTyped

\* What a call holds.
LEMMA CallIs ==
    ASSUME Typed, NEW c \in DOMAIN calls
    PROVE  /\ Named(calls[c].item) /\ calls[c].item \in Items
           /\ calls[c].shown \in Items /\ calls[c].payload \in Texts
           /\ calls[c].found \in Known
           /\ calls[c].method \in {"none", "create", "edit", "approve", "reject", "cancel"}
  <1>1. CallOf(calls[c], Len(approvals)) BY DEF Typed, TypedCalls
  <1> QED BY <1>1 DEF CallOf, Calls, Named, NamedOf, Known, Texts

LEMMA InitTyped == Init => Typed
  <1> SUFFICES ASSUME Init PROVE Typed OBVIOUS
  <1>1. Len(approvals) = 0 BY DEF Init
  <1>2. NamedOf(NoItem, 0) /\ NoItem \in Items BY NoItemNamed DEF NamedOf
  <1>3. TypedItems BY <1>1, <1>2 DEF Init, TypedItems, Named
  <1>4. TypedCalls BY DEF Init, TypedCalls
  <1>5. NoExec \in Execs BY <1>2 DEF NoExec, Execs, Denied
  <1>6. NoExec.item = NoItem /\ NoExec.at = "idle" BY DEF NoExec
  <1>7. StageOf(NoExec, 0) BY <1>2, <1>5, <1>6 DEF StageOf
  <1>8. TypedExec BY <1>1, <1>5, <1>7 DEF Init, TypedExec
  <1>9. TypedRest BY DEF Init, TypedRest, Worlds
  <1>10. TypedHistory BY DEF Init, TypedHistory
  <1> QED BY <1>3, <1>4, <1>8, <1>9, <1>10 DEF Typed

LEMMA AsksTyped == Typed /\ Asks => Typed'
  <1> SUFFICES ASSUME Typed, Asks PROVE Typed' OBVIOUS
  <1>1. PICK shown \in {item} \cup {view[d] : d \in Devices}, payload \in Texts,
             method \in {"create", "edit", "approve", "reject", "cancel"} :
               Ask(method, shown, payload)
    <2>1. PICK shown \in {item} \cup {view[d] : d \in Devices} :
            \/ \E payload \in Payloads : \/ Ask("create", shown, payload)
                                        \/ Ask("edit", shown, payload)
            \/ \E m \in {"approve", "reject", "cancel"} : Ask(m, shown, shown.payload)
      BY DEF Asks
    <2>2. shown.payload \in Texts BY DEF Typed, TypedItems, Named, NamedOf, Items, Texts
    <2> QED BY <2>1, <2>2 DEF Texts
  <1>2. shown \in Items BY DEF Typed, TypedItems, Named, NamedOf
  <1>3. NoItem \in Items BY NoItemNamed DEF NamedOf
  <1> DEFINE r == Called(method, shown, payload, "asked", "none", NoItem, Denied)
  <1>4. r \in Calls BY <1>2, <1>3 DEF Called, Calls, Texts
  <1>5. r.item = NoItem BY DEF Called
  <1>6. CallOf(r, Len(approvals)) BY <1>4, <1>5, NoItemNamed, ApprovalsCounted DEF CallOf
  <1>7. calls' = Append(calls, r) BY <1>1 DEF Ask
  <1>8. UNCHANGED <<approvals, item, out, slot, view, reread, exec, wake, world, allowed,
                    changes, restarts, effects>>
    BY <1>1 DEF Ask
  <1>9. TypedCalls'
    <2> HIDE DEF r
    <2>1. calls \in Seq(Calls) /\ \A c \in DOMAIN calls : CallOf(calls[c], Len(approvals))
      BY DEF Typed, TypedCalls
    <2> QED BY <1>4, <1>6, <1>7, <1>8, <2>1 DEF TypedCalls
  <1> QED BY <1>8, <1>9, Unchanged DEF Typed

LEMMA LookTyped ==
    ASSUME Typed, NEW c \in DOMAIN calls, NEW p \in Processes, Look(c, p)
    PROVE  Typed'
  <1>1. UNCHANGED <<approvals, item, out, slot, view, reread, exec, wake, world, allowed,
                    changes, restarts, effects>>
    BY DEF Look
  <1> DEFINE r == Called(calls[c].method, calls[c].shown, calls[c].payload, "prepared",
                         p, item, Prepared)
  <1>2. calls' = [calls EXCEPT ![c] = r] \/ calls' = Answered(c) BY DEF Look
  <1>3. TypedCalls'
    <2>1. CASE calls' = Answered(c) BY <1>1, <2>1, AnsweredTyped
    <2>2. CASE calls' = [calls EXCEPT ![c] = r]
      <3>1. Named(item) /\ item \in Items BY DEF Typed, TypedItems, Named, NamedOf
      <3>2. r \in Calls BY <3>1, CallIs, PreparedKnown DEF Called, Calls, Texts, Known
      <3>3. r.item = item BY DEF Called
      <3>4. CallOf(r, Len(approvals)) BY <3>1, <3>2, <3>3 DEF CallOf, Named
      <3> HIDE DEF r
      <3> QED BY <1>1, <2>2, <3>2, <3>4 DEF Typed, TypedCalls
    <2> QED BY <1>2, <2>1, <2>2
  <1> QED BY <1>1, <1>3, Unchanged DEF Typed

LEMMA CommitTyped ==
    ASSUME Typed, NEW c \in DOMAIN calls,
           CommitCreate(c) \/ CommitRenewal(c) \/ CommitRefused(c) \/ Decline(c)
    PROVE  Typed' /\ (item' = item \/ item'.state # "approved")
  <1>1. UNCHANGED <<approvals, slot, view, reread, exec, wake, world, allowed, changes,
                    restarts, effects>>
    BY DEF CommitCreate, CommitRenewal, CommitRefused, Decline
  <1>2. TypedCalls'
    BY <1>1, AnsweredTyped DEF CommitCreate, CommitRenewal, CommitRefused, Decline
  <1>3. TypedItems' /\ (item' = item \/ item'.state # "approved")
    <2>1. CASE CommitCreate(c)
      <3> DEFINE i == [version |-> 1, revision |-> 1, state |-> "pending",
                       payload |-> calls[c].payload, pre |-> calls[c].found, approval |-> 0]
      <3>1. i \in Items BY CallIs DEF Items, States, Known, Texts
      <3>2. i.state = "pending" /\ i.approval = 0 OBVIOUS
      <3>3. Save(i) BY <2>1 DEF CommitCreate
      <3> HIDE DEF i
      <3>4. Named(i) BY <3>1, <3>2, ApprovalsCounted DEF Named, NamedOf
      <3> QED BY <1>1, <3>2, <3>3, <3>4, SaveTyped DEF Save
    <2>2. CASE CommitRenewal(c)
      <3> DEFINE i == Renewed(calls[c].item, calls[c].payload, calls[c].found)
      <3>1. Save(i) BY <2>2 DEF CommitRenewal
      <3>2. Named(i) /\ i.state = "pending" BY CallIs, RenewedNamed
      <3> HIDE DEF i
      <3> QED BY <1>1, <3>1, <3>2, SaveTyped DEF Save
    <2>3. CASE CommitRefused(c) BY <1>1, <2>3, Unchanged DEF CommitRefused
    <2>4. CASE Decline(c)
      <3> DEFINE state == Declined(calls[c].method)
                 i == Moved(item, state, 0)
      <3>1. Save(i) \/ UNCHANGED <<item, out>> BY <2>4 DEF Decline
      <3>2. state \in {"rejected", "cancelled"} BY DEF Declined
      <3>3. item \in Items BY DEF Typed, TypedItems, Named, NamedOf
      <3> HIDE DEF state
      <3>4. i.state = state BY MovedIs
      <3>5. Named(i) BY <3>2, <3>3, MovedNamed, ApprovalsCounted DEF Named, States
      <3> HIDE DEF i
      <3>6. CASE Save(i) BY <1>1, <3>2, <3>4, <3>5, <3>6, SaveTyped DEF Save
      <3>7. CASE UNCHANGED <<item, out>> BY <1>1, <3>7, Unchanged
      <3> QED BY <3>1, <3>6, <3>7
    <2> QED BY <2>1, <2>2, <2>3, <2>4
  <1> QED BY <1>1, <1>2, <1>3, Unchanged DEF Typed

\* An approval given: what was held and named before it still is.
LEMMA ApprovalTyped ==
    ASSUME Typed, NEW c \in DOMAIN calls, CommitApproval(c)
    PROVE  Typed'
  <1> DEFINE n == Len(approvals)
             i == Moved(calls[c].item, "approved", n + 1)
  <1>1. n \in Nat BY ApprovalsCounted
  <1>2. UNCHANGED <<slot, view, reread, exec, world, allowed, changes, restarts, effects>>
        /\ calls' = Answered(c)
    BY DEF CommitApproval
  <1>3. CASE UNCHANGED <<item, out, approvals, wake>>
    BY <1>2, <1>3, AnsweredTyped, Unchanged DEF Typed
  <1>4. CASE /\ Save(i)
             /\ approvals' = Append(approvals, [is |-> Digest(calls[c].item),
                                               shown |-> calls[c].shown.payload])
             /\ wake' = Woken(calls[c].by)
    <2>1. Digest(calls[c].item) \in Digests BY CallIs DEF Digest, Digests, Items
    <2>2. calls[c].shown.payload \in Texts BY CallIs DEF Items, Texts
    <2>3. approvals' \in Seq([is : Digests, shown : Payloads \cup {"none"}]) /\ Len(approvals') = n + 1
      BY <1>4, <2>1, <2>2 DEF Typed, TypedHistory, Texts
    <2>4. NamedOf(i, n + 1) BY <1>1, CallIs, MovedNamed DEF States
    <2>5. /\ \A j : NamedOf(j, n) => NamedOf(j, n + 1)
          /\ \A e : StageOf(e, n) => StageOf(e, n + 1)
          /\ \A r : CallOf(r, n) => CallOf(r, n + 1)
      BY <1>1, StillNamed
    <2> HIDE DEF i
    <2>6. TypedItems' BY <1>2, <1>4, <2>3, <2>4, <2>5 DEF Typed, TypedItems, Named, Save
    <2>7. TypedExec' BY <1>2, <2>3, <2>5 DEF Typed, TypedExec
    <2>8. TypedCalls'
      <3>1. /\ Answered(c) \in Seq(Calls) /\ DOMAIN Answered(c) = DOMAIN calls
            /\ \A k \in DOMAIN calls : CallOf(Answered(c)[k], n)
        <4>1. NoItem \in Items BY NoItemNamed DEF NamedOf
        <4>2. NoCall \in Calls BY <4>1 DEF NoCall, Calls, Denied
        <4>3. NoCall.item = NoItem BY DEF NoCall
        <4>4. CallOf(NoCall, n) BY <1>1, <4>2, <4>3, NoItemNamed DEF CallOf
        <4> QED BY <4>2, <4>4 DEF Answered, Typed, TypedCalls
      <3> QED BY <1>2, <2>3, <2>5, <3>1 DEF TypedCalls
    <2>9. TypedRest' BY <1>2, <1>4 DEF Typed, TypedRest, Woken
    <2>10. TypedHistory' BY <1>2, <2>3 DEF Typed, TypedHistory
    <2> QED BY <2>6, <2>7, <2>8, <2>9, <2>10 DEF Typed
  <1> QED BY <1>3, <1>4 DEF CommitApproval

\* The executor's steps that change no item and make no call.
LEMMA StageTyped ==
    ASSUME Typed, NEW p \in Processes, Wake(p) \/ Load(p) \/ Verify(p) \/ Leave(p)
    PROVE  Typed'
  <1>1. UNCHANGED <<approvals, item, out, slot, view, reread, calls, world, allowed,
                    changes, restarts, effects>>
    BY DEF Wake, Load, Verify, Leave
  <1>2. TypedExec'
    <2>1. CASE Wake(p)
      <3>1. Move(p, "queued") \/ UNCHANGED exec BY <2>1 DEF Wake
      <3> QED BY <1>1, <3>1, MoveTyped, Unchanged
    <2>2. CASE Load(p)
      <3>1. Enter(p, IF item.state = "approved" THEN "loaded" ELSE "ending", item, Prepared, "none")
        BY <2>2 DEF Load
      <3>2. Named(item) BY DEF Typed, TypedItems
      <3> QED BY <1>1, <3>1, <3>2, PreparedKnown, EnterTyped
    <2>3. CASE Verify(p)
      <3>1. Enter(p, "verified", exec[p].item, Prepared, "none") BY <2>3 DEF Verify
      <3> QED BY <1>1, <3>1, StageIs, PreparedKnown, EnterTyped
    <2>4. CASE Leave(p)
      <3>1. Enter(p, "idle", NoItem, Denied, "none") BY <2>4 DEF Leave, Enter, NoExec
      <3>2. Named(NoItem) /\ Denied \in Known BY NoItemNamed, ApprovalsCounted DEF Named, Known
      <3> QED BY <1>1, <3>1, <3>2, EnterTyped
    <2> QED BY <2>1, <2>2, <2>3, <2>4
  <1>3. TypedRest' BY <1>1 DEF Wake, Load, Verify, Leave, Typed, TypedRest
  <1> QED BY <1>1, <1>2, <1>3, Unchanged DEF Typed

LEMMA ClaimTyped ==
    ASSUME Typed, NEW p \in Processes, Claim(p)
    PROVE  Typed' /\ (item' = item \/ item'.state # "approved")
  <1>1. UNCHANGED <<approvals, slot, view, reread, calls, wake, world, allowed, changes,
                    restarts, effects>>
    BY DEF Claim
  <1> DEFINE i == exec[p].item
  <1>2. TypedExec' BY <1>1, MoveTyped DEF Claim
  <1>3. TypedItems' /\ (item' = item \/ item'.state # "approved")
    <2>1. CASE UNCHANGED <<item, out>> BY <1>1, <2>1, Unchanged
    <2>2. CASE Save(Invalidated(i, exec[p].found))
      <3>1. /\ Named(Invalidated(i, exec[p].found))
            /\ Invalidated(i, exec[p].found).state = "pending"
        BY StageIs, InvalidatedNamed
      <3> QED BY <1>1, <2>2, <3>1, SaveTyped DEF Save
    <2>3. CASE exec[p].at = "loaded" /\ Save(Moved(i, "executing", i.approval))
      <3>1. i \in Items /\ i.approval \in Nat /\ i.approval > 0 /\ i.approval <= Len(approvals)
        BY <2>3, StageIs DEF Named, NamedOf, Items
      <3>2. Named(Moved(i, "executing", i.approval))
        BY <3>1, MovedNamed, ApprovalsCounted DEF Named, States
      <3>3. Moved(i, "executing", i.approval).state = "executing" BY MovedIs
      <3> QED BY <1>1, <2>3, <3>2, <3>3, SaveTyped DEF Save
    <2> QED BY <2>1, <2>2, <2>3 DEF Claim
  <1> QED BY <1>1, <1>2, <1>3, Unchanged DEF Typed

LEMMA CheckTyped ==
    ASSUME Typed, NEW p \in Processes, Check(p)
    PROVE  Typed' /\ (item' = item \/ item'.state # "approved")
  <1>1. UNCHANGED <<approvals, slot, view, reread, calls, wake, world, allowed, changes,
                    restarts, effects>>
    BY DEF Check
  <1>2. TypedExec'
    <2>1. Move(p, "ending") \/ Move(p, "calling") BY DEF Check
    <2> QED BY <1>1, <2>1, MoveTyped
  <1>3. TypedItems' /\ (item' = item \/ item'.state # "approved")
    <2>1. CASE UNCHANGED <<item, out>> BY <1>1, <2>1, Unchanged
    <2>2. CASE Save(Invalidated(item, exec[p].found))
      <3>0. item \in Items BY DEF Typed, TypedItems, Named, NamedOf
      <3>1. /\ Named(Invalidated(item, exec[p].found))
            /\ Invalidated(item, exec[p].found).state = "pending"
        BY <3>0, StageIs, InvalidatedNamed
      <3> QED BY <1>1, <2>2, <3>1, SaveTyped DEF Save
    <2> QED BY <2>1, <2>2 DEF Check
  <1> QED BY <1>1, <1>2, <1>3, Unchanged DEF Typed

LEMMA FinishTyped ==
    ASSUME Typed, NEW p \in Processes, Finish(p)
    PROVE  Typed' /\ (item' = item \/ item'.state # "approved")
  <1>1. UNCHANGED <<approvals, slot, view, reread, calls, wake, world, allowed, changes,
                    restarts, effects>>
    BY DEF Finish
  <1>2. TypedExec' BY <1>1, MoveTyped DEF Finish
  <1>3. TypedItems' /\ (item' = item \/ item'.state # "approved")
    <2>1. CASE UNCHANGED <<item, out>> BY <1>1, <2>1, Unchanged
    <2>2. CASE Claimed(p) /\ Save(Moved(item, exec[p].end, item.approval))
      <3>1. item \in Items /\ item.approval \in Nat /\ item.approval > 0
            /\ item.approval <= Len(approvals)
        BY <2>2 DEF Claimed, Typed, TypedItems, Named, NamedOf, Items
      <3>2. exec[p].end \in {"succeeded", "failed", "uncertain"} BY StageIs DEF Finish
      <3>3. Named(Moved(item, exec[p].end, item.approval))
        BY <3>1, <3>2, MovedNamed, ApprovalsCounted DEF Named, States
      <3>4. Moved(item, exec[p].end, item.approval).state = exec[p].end BY MovedIs
      <3> QED BY <1>1, <2>2, <3>2, <3>3, <3>4, SaveTyped DEF Save
    <2> QED BY <2>1, <2>2 DEF Finish
  <1> QED BY <1>1, <1>2, <1>3, Unchanged DEF Typed

LEMMA CallTyped ==
    ASSUME Typed, NEW p \in Processes, Call(p)
    PROVE  Typed'
  <1>1. UNCHANGED <<approvals, item, out, slot, view, reread, calls, wake, world, allowed,
                    changes, restarts>>
    BY DEF Call
  <1> DEFINE e == [approval |-> exec[p].item.approval, is |-> Digest(exec[p].item),
                   met |-> exec[p].found]
  <1>2. PICK end \in {"succeeded", "failed", "uncertain"} :
          /\ Enter(p, "called", exec[p].item, exec[p].found, end)
          /\ effects' = Append(effects, e) \/ effects' = effects
    BY DEF Call
  <1>3. TypedExec' BY <1>1, <1>2, StageIs, EnterTyped
  <1>4. e \in Effects
    <2>1. Digest(exec[p].item) \in Digests BY StageIs DEF Digest, Digests, Items
    <2>2. exec[p].item.approval \in Nat /\ exec[p].found \in Known BY StageIs DEF Items
    <2> QED BY <2>1, <2>2 DEF Effects, Known
  <1>5. TypedHistory'
    <2> HIDE DEF e
    <2> QED BY <1>1, <1>2, <1>4 DEF Typed, TypedHistory
  <1> QED BY <1>1, <1>3, <1>5, Unchanged DEF Typed

LEMMA RestartTyped ==
    ASSUME Typed, NEW p \in Processes, Restart(p)
    PROVE  Typed' /\ (item' = item \/ item'.state # "approved")
  <1>1. UNCHANGED <<approvals, slot, view, world, allowed, changes, effects>>
        /\ reread' = NoItem
    BY DEF Restart
  <1>2. TypedExec'
    <2>1. Enter(p, "idle", NoItem, Denied, "none") BY DEF Restart, Enter, NoExec
    <2>2. Named(NoItem) /\ Denied \in Known BY NoItemNamed, ApprovalsCounted DEF Named, Known
    <2> QED BY <1>1, <2>1, <2>2, EnterTyped
  <1>3. CallOf(NoCall, Len(approvals)) /\ NoCall \in Calls
    <2>1. NoItem \in Items BY NoItemNamed DEF NamedOf
    <2>2. NoCall \in Calls BY <2>1 DEF NoCall, Calls, Denied
    <2>3. NoCall.item = NoItem BY DEF NoCall
    <2> QED BY <2>2, <2>3, NoItemNamed, ApprovalsCounted DEF CallOf
  <1>4. TypedCalls'
    <2>1. calls' = Stopped(p) BY DEF Restart
    <2> QED BY <1>1, <1>3, <2>1 DEF Stopped, Typed, TypedCalls
  <1>5. TypedItems' /\ (item' = item \/ item'.state # "approved")
    <2>1. /\ Named(Recovered(item))
          /\ Recovered(item) # item => Recovered(item).state = "uncertain"
      BY RecoveredNamed, ApprovalsCounted DEF Typed, TypedItems, Named
    <2>2. \/ Recovered(item) # item /\ item' = Recovered(item) /\ out' = Recovered(item)
          \/ UNCHANGED <<item, out>>
      BY DEF Restart, Save
    <2>3. Named(NoItem) BY NoItemNamed, ApprovalsCounted DEF Named
    <2> QED BY <1>1, <2>1, <2>2, <2>3 DEF Typed, TypedItems, Named
  <1>6. TypedRest' BY DEF Restart, Woken, Typed, TypedRest
  <1> QED BY <1>1, <1>2, <1>4, <1>5, <1>6, Unchanged DEF Typed

LEMMA LoseTyped == Typed /\ Lose => Typed' /\ item'.state # "approved"
  <1> SUFFICES ASSUME Typed, Lose PROVE Typed' /\ item'.state # "approved" OBVIOUS
  <1>1. /\ UNCHANGED <<approvals, slot, view, world, allowed, changes, effects>>
        /\ item' = NoItem /\ out' = NoItem /\ reread' = NoItem
    BY DEF Lose
  <1>2. Named(NoItem) /\ NoItem \in Items /\ NoItem.state = "pending"
    BY NoItemNamed, ApprovalsCounted DEF Named, NamedOf, NoItem
  <1>3. TypedItems' BY <1>1, <1>2 DEF Typed, TypedItems, Named
  <1>4. TypedExec'
    <2>1. NoExec \in Execs BY <1>2 DEF NoExec, Execs, Denied
    <2>2. NoExec.item = NoItem /\ NoExec.at = "idle" BY DEF NoExec
    <2>3. StageOf(NoExec, Len(approvals)) BY <1>2, <2>1, <2>2 DEF StageOf, Named
    <2> QED BY <1>1, <2>1, <2>3 DEF Lose, TypedExec
  <1>5. TypedCalls'
    <2>2. NoCall \in Calls BY <1>2 DEF NoCall, Calls, Denied
    <2>3. NoCall.item = NoItem BY DEF NoCall
    <2>4. CallOf(NoCall, Len(approvals)) BY <1>2, <2>2, <2>3 DEF CallOf, Named
    <2> QED BY <1>1, <2>2, <2>4 DEF Lose, Typed, TypedCalls
  <1>6. TypedRest' BY DEF Lose, Typed, TypedRest
  <1> QED BY <1>1, <1>2, <1>3, <1>4, <1>5, <1>6, Unchanged DEF Typed

\* Sync, and what changes around the item.
LEMMA SyncTyped ==
    ASSUME Typed, TakeBack \/ Upload \/ Reread \/ Requeue \/ Change \/ \E d \in Devices : Apply(d)
    PROVE  Typed' /\ (item' = item \/ item'.state # "approved")
  <1>1. UNCHANGED <<approvals, calls, exec, wake, restarts, effects>>
    BY DEF TakeBack, Upload, Reread, Requeue, Change, Apply
  <1>2. Named(NoItem) BY NoItemNamed, ApprovalsCounted DEF Named
  <1>3. TypedItems' /\ (item' = item \/ item'.state # "approved")
    <2>1. CASE TakeBack
      <3>1. Named(Restored(slot)) /\ Restored(slot).state # "approved"
        BY RestoredNamed, ApprovalsCounted DEF Typed, TypedItems, Named
      <3> QED BY <1>1, <2>1, <3>1 DEF TakeBack, Typed, TypedItems, Named
    <2>2. CASE Upload BY <1>1, <1>2, <2>2 DEF Upload, Typed, TypedItems, Named
    <2>3. CASE Reread BY <1>1, <2>3 DEF Reread, Typed, TypedItems, Named
    <2>4. CASE Requeue BY <1>1, <1>2, <2>4 DEF Requeue, Typed, TypedItems, Named
    <2>5. CASE Change BY <1>1, <2>5 DEF Change, Typed, TypedItems, Named
    <2>6. ASSUME NEW d \in Devices, Apply(d)
          PROVE  TypedItems' /\ (item' = item \/ item'.state # "approved")
      <3>1. slot \in Items BY DEF Typed, TypedItems, Named, NamedOf
      <3> QED BY <1>1, <2>6, <3>1 DEF Apply, Typed, TypedItems, Named
    <2> QED BY <2>1, <2>2, <2>3, <2>4, <2>5, <2>6
  <1>4. TypedRest'
    <2>1. allowed \in BOOLEAN BY DEF Typed, TypedRest
    <2>2. allowed' \in BOOLEAN
      BY <2>1, Zenon DEF TakeBack, Upload, Reread, Requeue, Change, Apply
    <2>3. changes' \in Nat /\ world' \in Worlds
      BY DEF TakeBack, Upload, Reread, Requeue, Change, Apply, Typed, TypedRest
    <2> QED BY <1>1, <2>2, <2>3 DEF Typed, TypedRest
  <1> QED BY <1>1, <1>3, <1>4, Unchanged DEF Typed

-----------------------------------------------------------------------------
(* Approvals and effects.                                                  *)

\* A step that gives no approval, makes no call and claims nothing.
LEMMA Quiet ==
    ASSUME Typed, Safe, UNCHANGED <<approvals, effects>>,
           item' = item \/ item'.state # "approved",
           \A p \in Processes :
              \/ exec'[p] = exec[p]
              \/ exec'[p].at \notin Holding
              \/ /\ exec[p].at \in Uncalled /\ exec'[p].item = exec[p].item
                 /\ exec'[p].at = "calling" => exec'[p].found = exec'[p].item.pre
    PROVE  Safe'
  <1> USE DEF Uncalled, Holding
  <1>1. HeldAsApproved' BY DEF Safe, HeldAsApproved, Holds
  <1>2. StandingUnspent' BY DEF Safe, StandingUnspent
  <1>3. HeldOnce' BY DEF Safe, HeldOnce
  <1>4. HeldUnspent'
    <2> SUFFICES ASSUME NEW p \in Processes, NEW i \in DOMAIN effects, exec'[p].at \in Uncalled
                 PROVE  effects[i].approval # exec'[p].item.approval
      BY DEF HeldUnspent
    <2>1. exec[p].at \in Uncalled /\ exec'[p].item = exec[p].item OBVIOUS
    <2> QED BY <2>1 DEF Safe, HeldUnspent
  <1>5. OneEffectPerApproval' BY DEF Safe, OneEffectPerApproval
  <1>6. EffectAsApproved' BY DEF Safe, EffectAsApproved
  <1> QED BY <1>1, <1>2, <1>3, <1>4, <1>5, <1>6 DEF Safe

LEMMA InitSafe == Init => Safe
  <1> SUFFICES ASSUME Init PROVE Safe OBVIOUS
  <1>1. \A p \in Processes : exec[p].at = "idle" BY DEF Init, NoExec
  <1>2. item.state = "pending" BY DEF Init, NoItem
  <1>3. effects = <<>> BY DEF Init
  <1> QED BY <1>1, <1>2, <1>3
        DEF Safe, HeldAsApproved, StandingUnspent, HeldOnce, HeldUnspent, OneEffectPerApproval,
            EffectAsApproved, Holding, Uncalled

\* What a process's own step does to the others.
LEMMA EnterIs ==
    ASSUME Typed, NEW p \in Processes, NEW stage, NEW i, NEW found, NEW end,
           Enter(p, stage, i, found, end)
    PROVE  /\ exec'[p].at = stage /\ exec'[p].item = i
           /\ exec'[p].found = found /\ exec'[p].end = end
           /\ \A q \in Processes : q # p => exec'[q] = exec[q]
  BY DEF Enter, Typed, TypedExec

\* A new approval is held by nobody and has had no effect.
LEMMA ApprovalSafe ==
    ASSUME Typed, Safe, NEW c \in DOMAIN calls, CommitApproval(c)
    PROVE  Safe'
  <1> DEFINE n == Len(approvals)
             i == Moved(calls[c].item, "approved", n + 1)
             a == [is |-> Digest(calls[c].item), shown |-> calls[c].shown.payload]
  <1>1. n \in Nat BY ApprovalsCounted
  <1>2. UNCHANGED <<exec, effects>> BY DEF CommitApproval
  <1>3. CASE UNCHANGED <<item, approvals>> BY <1>2, <1>3, Quiet
  <1>4. CASE item' = i /\ approvals' = Append(approvals, a)
    <2>1. \A p \in Processes : exec[p].item.approval \in Nat /\ exec[p].item.approval <= n
      BY StageIs DEF Named, NamedOf, Items
    <2>2. \A k \in DOMAIN effects : effects[k].approval \in 1 .. n
      BY DEF Typed, TypedHistory, Safe, EffectAsApproved
    <2>3. \A k \in 1 .. n : approvals'[k] = approvals[k]
      <3> HIDE DEF a
      <3> QED BY <1>4 DEF Typed, TypedHistory
    <2>4. DOMAIN approvals' = 1 .. n + 1 /\ DOMAIN approvals = 1 .. n
      <3> HIDE DEF a
      <3> QED BY <1>4 DEF Typed, TypedHistory
    <2>5. item'.approval = n + 1 BY <1>4, MovedIs
    <2> HIDE DEF n, i, a
    <2>6. HeldAsApproved'
      BY <1>1, <1>2, <2>1, <2>3 DEF Safe, HeldAsApproved, Holds
    <2>7. StandingUnspent' BY <1>1, <1>2, <2>1, <2>2, <2>5 DEF StandingUnspent
    <2>8. HeldOnce' /\ HeldUnspent' /\ OneEffectPerApproval'
      BY <1>2 DEF Safe, HeldOnce, HeldUnspent, OneEffectPerApproval
    <2>9. EffectAsApproved' BY <1>1, <1>2, <2>2, <2>3, <2>4 DEF Safe, EffectAsApproved
    <2> QED BY <2>6, <2>7, <2>8, <2>9 DEF Safe
  <1> QED BY <1>3, <1>4 DEF CommitApproval, Save

\* The executor's steps before the claim, between the claim and the call, and after.
LEMMA StageSafe ==
    ASSUME Typed, Safe, NEW p \in Processes,
           Wake(p) \/ Load(p) \/ Verify(p) \/ Check(p) \/ Finish(p) \/ Leave(p)
    PROVE  Safe'
  <1>1. UNCHANGED <<approvals, effects>> BY DEF Wake, Load, Verify, Check, Finish, Leave
  <1>2. item' = item \/ item'.state # "approved"
    BY CheckTyped, FinishTyped DEF Wake, Load, Verify, Leave
  <1>3. \/ UNCHANGED exec
        \/ /\ exec'[p].at \notin Holding
           /\ \A q \in Processes : q # p => exec'[q] = exec[q]
        \/ /\ exec[p].at \in Uncalled /\ exec'[p].item = exec[p].item
           /\ exec'[p].at = "calling" => exec'[p].found = exec'[p].item.pre
           /\ \A q \in Processes : q # p => exec'[q] = exec[q]
    <2> USE DEF Uncalled, Holding
    <2>1. CASE Wake(p) BY <2>1, EnterIs DEF Wake, Move
    <2>2. CASE Load(p)
      <3>1. Enter(p, IF item.state = "approved" THEN "loaded" ELSE "ending", item, Prepared, "none")
        BY <2>2 DEF Load
      <3> QED BY <3>1, EnterIs
    <2>3. CASE Verify(p) BY <2>3, EnterIs DEF Verify
    <2>4. CASE Check(p)
      <3>1. CASE Move(p, "ending") BY <3>1, EnterIs DEF Move
      <3>2. CASE Holds(p) /\ Move(p, "calling") BY <2>4, <3>2, EnterIs DEF Move, Holds, Check
      <3> QED BY <2>4, <3>1, <3>2 DEF Check
    <2>5. CASE Finish(p) BY <2>5, EnterIs DEF Finish, Move
    <2>6. CASE Leave(p)
      <3>1. Enter(p, "idle", NoItem, Denied, "none") BY <2>6 DEF Leave, Enter, NoExec
      <3> QED BY <3>1, EnterIs
    <2> QED BY <2>1, <2>2, <2>3, <2>4, <2>5, <2>6
  <1> QED BY <1>1, <1>2, <1>3, Quiet

\* The claim takes an approval that stands, so nobody holds it and it has had
\* no effect.
LEMMA ClaimSafe ==
    ASSUME Typed, Safe, NEW p \in Processes, Claim(p)
    PROVE  Safe'
  <1> USE DEF Uncalled, Holding
  <1>1. UNCHANGED <<approvals, effects>> BY DEF Claim
  <1>2. item' = item \/ item'.state # "approved" BY ClaimTyped
  <1>3. CASE Move(p, "ending") BY <1>1, <1>2, <1>3, EnterIs, Quiet DEF Move
  <1>4. CASE /\ exec[p].at = "loaded" /\ Stands(p) /\ ApprovalValid(exec[p].item)
             /\ Save(Moved(exec[p].item, "executing", exec[p].item.approval))
             /\ Move(p, "claimed")
    <2>1. item = exec[p].item /\ item.state = "approved" BY <1>4, StageIs DEF Stands
    <2>2. /\ exec'[p].at = "claimed" /\ exec'[p].item = exec[p].item
          /\ \A q \in Processes : q # p => exec'[q] = exec[q]
      BY <1>4, EnterIs DEF Move
    <2>3. item'.state = "executing" BY <1>4, MovedIs DEF Save
    <2>4. HeldAsApproved'
      BY <1>1, <1>4, <2>2 DEF Safe, HeldAsApproved, Holds, ApprovalValid
    <2>5. StandingUnspent' BY <2>3 DEF StandingUnspent
    <2>6. HeldOnce' BY <2>1, <2>2 DEF Safe, HeldOnce, StandingUnspent
    <2>7. HeldUnspent' BY <1>1, <2>1, <2>2 DEF Safe, HeldUnspent, StandingUnspent
    <2>8. OneEffectPerApproval' /\ EffectAsApproved'
      BY <1>1 DEF Safe, OneEffectPerApproval, EffectAsApproved
    <2> QED BY <2>4, <2>5, <2>6, <2>7, <2>8 DEF Safe
  <1> QED BY <1>3, <1>4 DEF Claim

\* The call spends the approval its process holds.
LEMMA CallSafe ==
    ASSUME Typed, Safe, NEW p \in Processes, Call(p)
    PROVE  Safe'
  <1> USE DEF Uncalled, Holding
  <1> DEFINE k == exec[p].item.approval
             e == [approval |-> k, is |-> Digest(exec[p].item), met |-> exec[p].found]
  <1>1. UNCHANGED <<approvals, item>> BY DEF Call
  <1>2. exec[p].at = "calling" BY DEF Call
  <1>3. /\ exec'[p].at = "called" /\ exec'[p].item = exec[p].item
        /\ \A q \in Processes : q # p => exec'[q] = exec[q]
    BY EnterIs DEF Call
  <1>4. effects' = Append(effects, e) \/ effects' = effects BY DEF Call
  <1>5. CASE effects' = effects
    <2>1. HeldAsApproved' BY <1>1, <1>2, <1>3 DEF Safe, HeldAsApproved, Holds
    <2>2. StandingUnspent' BY <1>1, <1>2, <1>3, <1>5 DEF Safe, StandingUnspent
    <2>3. HeldOnce' BY <1>2, <1>3 DEF Safe, HeldOnce
    <2>4. HeldUnspent' BY <1>3, <1>5 DEF Safe, HeldUnspent
    <2>5. OneEffectPerApproval' /\ EffectAsApproved'
      BY <1>1, <1>5 DEF Safe, OneEffectPerApproval, EffectAsApproved
    <2> QED BY <2>1, <2>2, <2>3, <2>4, <2>5 DEF Safe
  <1>6. CASE effects' = Append(effects, e)
    <2>1. /\ e.approval = k /\ e.is = Digest(exec[p].item) /\ e.met = exec[p].found
      OBVIOUS
    <2>2. /\ k > 0 /\ approvals[k].is = Digest(exec[p].item) /\ exec[p].found = exec[p].item.pre
      BY <1>2 DEF Safe, HeldAsApproved, Holds
    <2>3. k \in DOMAIN approvals
      <3>1. k \in Nat /\ k <= Len(approvals) BY StageIs DEF Named, NamedOf, Items
      <3> QED BY <2>2, <3>1 DEF Typed, TypedHistory
    <2>4. exec[p].item.pre = Digest(exec[p].item).pre BY DEF Digest
    <2> HIDE DEF e, k
    <2>5. /\ DOMAIN effects' = DOMAIN effects \cup {Len(effects) + 1}
          /\ effects'[Len(effects) + 1] = e
          /\ \A i \in DOMAIN effects : effects'[i] = effects[i] /\ i # Len(effects) + 1
      BY <1>6 DEF Typed, TypedHistory
    <2>6. HeldAsApproved' BY <1>1, <1>2, <1>3 DEF Safe, HeldAsApproved, Holds
    <2>7. \A i \in DOMAIN effects : effects[i].approval # k
      BY <1>2 DEF Safe, HeldUnspent, k
    <2>8. StandingUnspent'
      <3>1. item.state = "approved" => k # item.approval
        BY <1>2 DEF Safe, StandingUnspent, k
      <3> QED BY <1>1, <1>2, <1>3, <2>1, <2>5, <3>1 DEF Safe, StandingUnspent
    <2>9. HeldOnce' BY <1>2, <1>3 DEF Safe, HeldOnce
    <2>10. HeldUnspent'
      <3> SUFFICES ASSUME NEW q \in Processes, NEW i \in DOMAIN effects', exec'[q].at \in Uncalled
                   PROVE  effects'[i].approval # exec'[q].item.approval
        BY DEF HeldUnspent
      <3>1. q # p /\ exec'[q] = exec[q] BY <1>3
      <3>2. exec[q].item.approval # k BY <1>2, <3>1 DEF Safe, HeldOnce, k
      <3> QED BY <2>1, <2>5, <3>1, <3>2 DEF Safe, HeldUnspent
    <2>11. OneEffectPerApproval'
      BY <2>1, <2>5, <2>7 DEF Safe, OneEffectPerApproval
    <2>12. EffectAsApproved'
      BY <1>1, <2>1, <2>2, <2>3, <2>4, <2>5 DEF Safe, EffectAsApproved
    <2> QED BY <2>6, <2>8, <2>9, <2>10, <2>11, <2>12 DEF Safe
  <1> QED BY <1>4, <1>5, <1>6

-----------------------------------------------------------------------------
(* The theorems.                                                           *)

LEMMA NextKeeps == IInv /\ Next => IInv'
  <1> SUFFICES ASSUME Typed, Safe, Next PROVE Typed' /\ Safe' BY DEF IInv
  <1>1. CASE Asks
    <2>1. UNCHANGED <<approvals, effects, item, exec>> BY <1>1 DEF Asks, Ask
    <2> QED BY <1>1, <2>1, AsksTyped, Quiet
  <1>2. ASSUME NEW c \in DOMAIN calls, CallStep(c) PROVE Typed' /\ Safe'
    <2>1. CASE \E p \in Processes : Look(c, p)
      <3>1. UNCHANGED <<approvals, effects, item, exec>> BY <2>1 DEF Look
      <3> QED BY <2>1, <3>1, LookTyped, Quiet
    <2>2. CASE CommitCreate(c) \/ CommitRenewal(c) \/ CommitRefused(c) \/ Decline(c)
      <3>1. UNCHANGED <<approvals, effects, exec>>
        BY <2>2 DEF CommitCreate, CommitRenewal, CommitRefused, Decline
      <3> QED BY <2>2, <3>1, CommitTyped, Quiet
    <2>3. CASE CommitApproval(c) BY <2>3, ApprovalTyped, ApprovalSafe
    <2> QED BY <1>2, <2>1, <2>2, <2>3 DEF CallStep
  <1>3. ASSUME NEW p \in Processes, Wake(p) \/ ExecStep(p) \/ Restart(p) PROVE Typed' /\ Safe'
    <2>1. CASE Wake(p) \/ Load(p) \/ Verify(p) \/ Leave(p) BY <2>1, StageTyped, StageSafe
    <2>2. CASE Claim(p) BY <2>2, ClaimTyped, ClaimSafe
    <2>3. CASE Check(p) BY <2>3, CheckTyped, StageSafe
    <2>4. CASE Call(p) BY <2>4, CallTyped, CallSafe
    <2>5. CASE Finish(p) BY <2>5, FinishTyped, StageSafe
    <2>6. CASE Restart(p)
      <3>1. UNCHANGED <<approvals, effects>> BY <2>6 DEF Restart
      <3>2. Enter(p, "idle", NoItem, Denied, "none") BY <2>6 DEF Restart, Enter, NoExec
      <3>3. /\ exec'[p].at \notin Holding
            /\ \A q \in Processes : q # p => exec'[q] = exec[q]
        BY <3>2, EnterIs DEF Holding, Uncalled
      <3> QED BY <2>6, <3>1, <3>3, RestartTyped, Quiet
    <2> QED BY <1>3, <2>1, <2>2, <2>3, <2>4, <2>5, <2>6 DEF ExecStep
  <1>4. CASE Lose
    <2>1. UNCHANGED <<approvals, effects>> BY <1>4 DEF Lose
    <2>2. \A p \in Processes : exec'[p].at \notin Holding
      BY <1>4 DEF Lose, NoExec, Holding, Uncalled
    <2> QED BY <1>4, <2>1, <2>2, LoseTyped, Quiet
  <1>5. CASE TakeBack \/ Upload \/ Reread \/ Requeue \/ Change \/ \E d \in Devices : Apply(d)
    <2>1. UNCHANGED <<approvals, effects, exec>>
      BY <1>5 DEF TakeBack, Upload, Reread, Requeue, Change, Apply
    <2> QED BY <1>5, <2>1, SyncTyped, Quiet
  <1> QED BY <1>1, <1>2, <1>3, <1>4, <1>5 DEF Next

LEMMA StutterKeeps == IInv /\ UNCHANGED vars => IInv'
  <1> SUFFICES ASSUME Typed, Safe, UNCHANGED vars PROVE Typed' /\ Safe' BY DEF IInv
  <1>1. UNCHANGED <<item, out, slot, view, reread, calls, exec, wake, world, allowed, changes,
                    restarts, approvals, effects>>
    BY DEF vars
  <1> QED BY <1>1, Unchanged, Quiet DEF Typed

\* The invariant: an approval that stands, or is held before its call, has had
\* no effect, and is held once.
THEOREM Invariant == Spec => []IInv
  <1>1. Init => IInv BY InitTyped, InitSafe DEF IInv
  <1>2. IInv /\ [Next]_vars => IInv' BY NextKeeps, StutterKeeps
  <1> QED BY <1>1, <1>2, PTL DEF Spec

\* Types, and that an item holds an approval exactly in the states that have
\* one, on the Runner (review_queue.rs ReviewItem).
THEOREM TypeCorrect == Spec => []TypeOK
  <1>1. IInv => TypeOK
    <2> SUFFICES ASSUME Typed PROVE TypeOK BY DEF IInv
    <2>1. item \in Items /\ out \in Items /\ slot \in Items /\ reread \in Items
      BY DEF Typed, TypedItems, Named, NamedOf
    <2>2. ApprovalShape(item) BY DEF Typed, TypedItems, Named, NamedOf, ApprovalShape
    <2> QED BY <2>1, <2>2 DEF Typed, TypedItems, TypedCalls, TypedExec, TypedRest, TypedHistory, TypeOK
  <1> QED BY <1>1, Invariant, PTL

\* One approval lets the call run once, whatever executes and restarts
\* (execute_approved: "is never retried").
THEOREM RunsOnce == Spec => []OneEffectPerApproval
  <1>1. IInv => OneEffectPerApproval BY DEF IInv, Safe
  <1> QED BY <1>1, Invariant, PTL

\* What runs is the version, payload and preconditions that were approved, in
\* the world that was reviewed (execute_approved's claim and second prepare).
THEOREM RunsAsApproved == Spec => []EffectAsApproved
  <1>1. IInv => EffectAsApproved BY DEF IInv, Safe
  <1> QED BY <1>1, Invariant, PTL

-----------------------------------------------------------------------------
(* Decisions: what a prepared call and a call under way stand on.          *)

\* What a call was prepared for had no record yet, or one that is not decided.
PreparedInv ==
    \A c \in DOMAIN calls : calls[c].at = "prepared" =>
        /\ calls[c].method = "create" => calls[c].item = NoItem
        /\ calls[c].method \in {"edit", "approve"} => Editable(calls[c].item)

\* What may become of a call in a step.
CallMoves(c) ==
    \/ c \in DOMAIN calls /\ calls'[c] = calls[c]
    \/ calls'[c].at = "done" /\ calls'[c].shown = NoItem
    \/ calls'[c].at = "asked" /\ calls'[c].shown \in {item} \cup {view[d] : d \in Devices}
    \/ /\ c \in DOMAIN calls
       /\ calls'[c].at = "prepared" /\ calls'[c].item = item
       /\ calls'[c].method = calls[c].method /\ calls'[c].shown = calls[c].shown
       /\ calls[c].method = "create" => item = NoItem
       /\ calls[c].method \in {"edit", "approve"} => Serves(item, calls[c].shown)

LEMMA CallSteps ==
    ASSUME Typed, [Next]_vars, NEW c \in DOMAIN calls'
    PROVE  CallMoves(c)
  <1>0. calls \in Seq(Calls) BY DEF Typed, TypedCalls
  <1>1. NoCall.at = "done" /\ NoCall.shown = NoItem BY DEF NoCall
  <1>2. CASE UNCHANGED calls BY <1>2 DEF CallMoves
  <1>3. ASSUME NEW e \in DOMAIN calls, calls' = Answered(e) PROVE CallMoves(c)
    BY <1>0, <1>1, <1>3 DEF Answered, CallMoves
  <1>4. CASE Asks
    <2>0. PICK shown \in {item} \cup {view[d] : d \in Devices} : \E payload, method :
             calls' = Append(calls, Called(method, shown, payload, "asked", "none", NoItem, Denied))
      BY <1>4 DEF Asks, Ask
    <2>1. PICK payload, method :
             calls' = Append(calls, Called(method, shown, payload, "asked", "none", NoItem, Denied))
      BY <2>0
    <2> DEFINE r == Called(method, shown, payload, "asked", "none", NoItem, Denied)
    <2>2. r.at = "asked" /\ r.shown = shown BY DEF Called
    <2> HIDE DEF r
    <2>3. calls' = Append(calls, r) BY <2>1 DEF r
    <2>4. (c \in DOMAIN calls /\ calls'[c] = calls[c]) \/ calls'[c] = r
      BY <1>0, <2>3
    <2> QED BY <2>2, <2>4 DEF CallMoves
  <1>5. ASSUME NEW e \in DOMAIN calls, NEW p \in Processes, Look(e, p) PROVE CallMoves(c)
    <2> DEFINE r == Called(calls[e].method, calls[e].shown, calls[e].payload, "prepared", p, item, Prepared)
               ready == /\ IF calls[e].method = "create" THEN item = NoItem
                           ELSE Serves(item, calls[e].shown)
                        /\ allowed
    <2>1. calls' = IF ready THEN [calls EXCEPT ![e] = r] ELSE Answered(e) BY <1>5 DEF Look
    <2>2. /\ r.at = "prepared" /\ r.item = item /\ r.method = calls[e].method /\ r.shown = calls[e].shown
      BY DEF Called
    <2> HIDE DEF r
    <2>3. CASE ready
      <3>1. calls' = [calls EXCEPT ![e] = r] BY <2>1, <2>3
      <3>2. (c # e /\ c \in DOMAIN calls /\ calls'[c] = calls[c]) \/ (c = e /\ calls'[c] = r)
        BY <1>0, <3>1
      <3>3. /\ calls[e].method = "create" => item = NoItem
            /\ calls[e].method \in {"edit", "approve"} => Serves(item, calls[e].shown)
        BY <2>3
      <3> HIDE DEF ready
      <3> QED BY <2>2, <3>2, <3>3 DEF CallMoves
    <2>4. CASE ~ready BY <1>3, <2>1, <2>4
    <2> QED BY <2>3, <2>4
  <1>6. CASE Lose \/ \E p \in Processes : Restart(p)
    <2>1. c \in DOMAIN calls /\ (calls'[c] = calls[c] \/ calls'[c] = NoCall)
      BY <1>6 DEF Lose, Restart, Stopped
    <2> QED BY <1>1, <2>1 DEF CallMoves
  <1>7. ASSUME NEW e \in DOMAIN calls, CallStep(e) PROVE CallMoves(c)
    <2>1. (\E p \in Processes : Look(e, p)) \/ calls' = Answered(e)
      BY <1>7 DEF CallStep, CommitCreate, CommitRenewal, CommitApproval, CommitRefused, Decline
    <2> QED BY <1>3, <1>5, <2>1
  <1>8. UNCHANGED calls \/ Asks \/ (\E e \in DOMAIN calls : CallStep(e)) \/ Lose \/ \E p \in Processes : Restart(p)
    BY DEF Next, ExecStep, Wake, Load, Claim, Verify, Check, Call, Finish, Leave, TakeBack, Upload,
           Reread, Requeue, Change, Apply, vars
  <1> QED BY <1>2, <1>4, <1>6, <1>7, <1>8

LEMMA PreparedStep == Typed /\ PreparedInv /\ [Next]_vars => PreparedInv'
  <1> SUFFICES ASSUME Typed, PreparedInv, [Next]_vars, NEW c \in DOMAIN calls', calls'[c].at = "prepared"
               PROVE  /\ calls'[c].method = "create" => calls'[c].item = NoItem
                      /\ calls'[c].method \in {"edit", "approve"} => Editable(calls'[c].item)
    BY DEF PreparedInv
  <1>1. CallMoves(c) BY CallSteps
  <1> QED BY <1>1 DEF CallMoves, PreparedInv, Serves

\* What may become of the record in a step.
SameVersion == item'.version = item.version /\ item'.payload = item.payload
NextVersion == item'.version = item.version + 1

ItemMoves ==
    \/ item' = item
    \/ item = NoItem /\ (item'.version = 1 \/ (item'.version = slot.version /\ item'.payload = slot.payload))
    \/ Lose
    \/ Editable(item) /\ (NextVersion \/ SameVersion)
    \/ item.state = "approved" /\ (NextVersion \/ SameVersion)
    \/ item.state = "executing" /\ NextVersion /\ \E p \in Processes : Check(p) /\ Claimed(p)
    \/ /\ item.state = "executing" /\ item'.state \in Ended
       /\ SameVersion /\ item'.approval = item.approval /\ Digest(item') = Digest(item)
       /\ item'.state = "uncertain" \/ \E p \in Processes : Finish(p) /\ Claimed(p)

LEMMA ItemSteps ==
    ASSUME Typed, PreparedInv, [Next]_vars
    PROVE  ItemMoves
  <1>0. \A i, payload, pre : Renewed(i, payload, pre).version = i.version + 1 BY DEF Renewed
  <1>1. \A i, found : Invalidated(i, found).version = i.version + 1 BY <1>0 DEF Invalidated
  <1>2. ASSUME NEW c \in DOMAIN calls, CallStep(c) PROVE ItemMoves
    <2>1. CASE (\E p \in Processes : Look(c, p)) \/ CommitRefused(c)
      BY <2>1 DEF Look, CommitRefused, ItemMoves
    <2>2. CASE CommitCreate(c)
      <3>1. item = NoItem BY <2>2 DEF CommitCreate, UnchangedSince, PreparedInv
      <3>2. item'.version = 1 BY <2>2 DEF CommitCreate, Save
      <3> QED BY <3>1, <3>2 DEF ItemMoves
    <2>3. CASE CommitRenewal(c)
      <3>1. item = calls[c].item /\ Editable(item)
        BY <2>3 DEF CommitRenewal, UnchangedSince, PreparedInv
      <3>2. NextVersion BY <1>0, <2>3, <3>1 DEF CommitRenewal, Save, NextVersion
      <3> QED BY <3>1, <3>2 DEF ItemMoves
    <2>4. CASE CommitApproval(c)
      <3>1. item = calls[c].item /\ Editable(item)
        BY <2>4 DEF CommitApproval, UnchangedSince, PreparedInv
      <3>2. item' = item \/ item' = Moved(item, "approved", Len(approvals) + 1)
        BY <2>4, <3>1 DEF CommitApproval, Save
      <3> QED BY <3>1, <3>2, MovedIs DEF ItemMoves, SameVersion
    <2>5. CASE Decline(c)
      <3>1. item' = item \/ (Editable(item) /\ item' = Moved(item, Declined(calls[c].method), 0))
        BY <2>5 DEF Decline, Save, Serves
      <3> QED BY <3>1, MovedIs DEF ItemMoves, SameVersion
    <2> QED BY <1>2, <2>1, <2>2, <2>3, <2>4, <2>5 DEF CallStep
  <1>3. ASSUME NEW p \in Processes, ExecStep(p) PROVE ItemMoves
    <2>1. CASE Load(p) \/ Verify(p) \/ Call(p) \/ Leave(p)
      BY <2>1 DEF Load, Verify, Call, Leave, ItemMoves
    <2>2. CASE Claim(p)
      <3>1. exec[p].item.state = "approved" BY <2>2, StageIs DEF Claim
      <3>2. \/ item' = item
            \/ item = exec[p].item /\ item' = Invalidated(item, exec[p].found)
            \/ item = exec[p].item /\ item' = Moved(item, "executing", item.approval)
        BY <2>2 DEF Claim, Save, Stands
      <3>3. CASE item = exec[p].item /\ item' = Invalidated(item, exec[p].found)
        BY <1>1, <3>1, <3>3 DEF ItemMoves, NextVersion
      <3>4. CASE item = exec[p].item /\ item' = Moved(item, "executing", item.approval)
        BY <3>1, <3>4, MovedIs DEF ItemMoves, SameVersion
      <3> QED BY <3>2, <3>3, <3>4 DEF ItemMoves
    <2>3. CASE Check(p)
      <3>1. item' = item \/ (Claimed(p) /\ item' = Invalidated(item, exec[p].found))
        BY <2>3 DEF Check, Save
      <3> QED BY <1>1, <2>3, <3>1 DEF ItemMoves, NextVersion, Claimed
    <2>4. CASE Finish(p)
      <3>1. item' = item \/ (Claimed(p) /\ item' = Moved(item, exec[p].end, item.approval))
        BY <2>4 DEF Finish, Save
      <3>2. exec[p].end \in Ended BY <2>4, StageIs DEF Finish, Ended
      <3> QED BY <2>4, <3>1, <3>2, MovedIs DEF ItemMoves, SameVersion, Claimed
    <2> QED BY <1>3, <2>1, <2>2, <2>3, <2>4 DEF ExecStep
  <1>4. ASSUME NEW p \in Processes, Restart(p) PROVE ItemMoves
    <2>1. item' = item \/ (item.state = "executing" /\ item' = Moved(item, "uncertain", item.approval))
      BY <1>4 DEF Restart, Save, Recovered
    <2> QED BY <2>1, MovedIs DEF ItemMoves, SameVersion, Ended
  <1>5. CASE TakeBack
    <2>1. item = NoItem /\ item' = Restored(slot) BY <1>5 DEF TakeBack
    <2>2. Restored(slot) = slot \/ Restored(slot) = Moved(slot, "uncertain", 0) BY DEF Restored
    <2>3. item'.version = slot.version /\ item'.payload = slot.payload BY <2>1, <2>2, MovedIs
    <2> QED BY <2>1, <2>3 DEF ItemMoves
  <1>6. CASE Asks \/ Upload \/ Reread \/ Requeue \/ Change \/ UNCHANGED vars
             \/ (\E d \in Devices : Apply(d)) \/ \E p \in Processes : Wake(p)
    BY <1>6 DEF Asks, Ask, Upload, Reread, Requeue, Change, vars, Apply, Wake, ItemMoves
  <1> QED BY <1>2, <1>3, <1>4, <1>5, <1>6 DEF Next, ItemMoves

LEMMA PreparedInvariant == Spec => []PreparedInv
  <1>1. Init => PreparedInv BY DEF Init, PreparedInv
  <1>2. IInv => Typed BY DEF IInv
  <1> QED BY <1>1, <1>2, PreparedStep, Invariant, PTL DEF Spec

\* review_queue.rs mutate_until, finish and recover_interrupted: what ended is never saved again,
\* whatever was read before an await and whichever executor comes back.
THEOREM EndedStays == Spec => EndedIsFinal
  <1>1. IInv /\ PreparedInv /\ [Next]_vars => [item.state \in Ended => item' \in {item, NoItem}]_vars
    <2> SUFFICES ASSUME Typed, PreparedInv, [Next]_vars, item.state \in Ended
                 PROVE  item' \in {item, NoItem}
      BY DEF IInv
    <2>1. ItemMoves BY ItemSteps
    <2> QED BY <2>1 DEF ItemMoves, Editable, Ended, NoItem, Lose
  <1> QED BY <1>1, Invariant, PreparedInvariant, PTL DEF Spec, EndedIsFinal

-----------------------------------------------------------------------------
(* Claims: what is held is the item, and stays it until its process ends.  *)

\* The item as a claim left it, or as a start found it.
HoldInv ==
    \A p \in Processes : exec[p].at \in Holding =>
        /\ item.state \in {"executing", "uncertain"}
        /\ item.state = "executing" => item.approval = exec[p].item.approval
        /\ Digest(item) = Digest(exec[p].item)

\* What may become of what a process holds.
HoldMoves(p) ==
    \/ exec'[p].at \notin Holding
    \/ /\ exec[p].at \in Holding /\ exec'[p].item = exec[p].item
       /\ ~Finish(p) /\ ~Lose /\ (Check(p) => item' = item)
    \/ /\ item = exec[p].item /\ exec'[p].item = item
       /\ item' = Moved(item, "executing", item.approval)

LEMMA OwnStep ==
    ASSUME Typed, NEW p \in Processes, Wake(p) \/ ExecStep(p)
    PROVE  HoldMoves(p)
  <1>0. exec \in [Processes -> Execs] BY DEF Typed, TypedExec
  <1>1. CASE Wake(p)
    <2>1. UNCHANGED exec \/ Enter(p, "queued", exec[p].item, exec[p].found, exec[p].end)
      BY <1>1 DEF Wake, Move
    <2>2. CASE Enter(p, "queued", exec[p].item, exec[p].found, exec[p].end)
      <3>1. exec'[p].at = "queued" BY <1>0, <2>2 DEF Enter
      <3> QED BY <3>1 DEF HoldMoves, Holding, Uncalled
    <2>3. CASE UNCHANGED exec
      <3>1. item' = item /\ wake' # wake /\ UNCHANGED exec
        BY <1>1, <2>3 DEF Wake, Typed, TypedRest
      <3>2. ~Finish(p) BY <3>1 DEF Finish
      <3>3. ~Lose
        <4>1. restarts \in Nat /\ UNCHANGED restarts BY <1>1 DEF Wake, Typed, TypedRest
        <4> QED BY <4>1 DEF Lose
      <3> QED BY <3>1, <3>2, <3>3 DEF HoldMoves
    <2> QED BY <2>1, <2>2, <2>3
  <1>2. ASSUME ExecStep(p) PROVE ~Lose
    <2>1. restarts \in Nat /\ UNCHANGED restarts
      BY <1>2 DEF ExecStep, Load, Claim, Verify, Check, Call, Finish, Leave, Typed, TypedRest
    <2> QED BY <2>1 DEF Lose
  <1>3. CASE Load(p) \/ Leave(p) \/ Finish(p)
    <2>1. exec'[p].at \in {"loaded", "ending", "idle"}
      BY <1>0, <1>3 DEF Load, Leave, Finish, Move, Enter, NoExec
    <2> QED BY <2>1 DEF HoldMoves, Holding, Uncalled
  <1>4. CASE Verify(p)
    <2>1. exec[p].at = "claimed" /\ exec'[p].item = exec[p].item /\ item' = item
      BY <1>0, <1>4 DEF Verify, Enter
    <2>2. ~Finish(p) BY <2>1 DEF Finish
    <2> QED BY <1>2, <1>4, <2>1, <2>2 DEF HoldMoves, Holding, Uncalled, ExecStep
  <1>5. CASE Call(p)
    <2>1. exec[p].at = "calling" /\ exec'[p].item = exec[p].item /\ item' = item
      BY <1>0, <1>5 DEF Call, Enter
    <2>2. ~Finish(p) BY <2>1 DEF Finish
    <2> QED BY <1>2, <1>5, <2>1, <2>2 DEF HoldMoves, Holding, Uncalled, ExecStep
  <1>6. CASE Check(p)
    <2>1. exec[p].at = "verified" BY <1>6 DEF Check
    <2>2. ~Finish(p) BY <2>1 DEF Finish
    <2>3. exec'[p].at = "ending" \/ (exec'[p].item = exec[p].item /\ item' = item)
      BY <1>0, <1>6 DEF Check, Move, Enter
    <2> QED BY <1>2, <1>6, <2>1, <2>2, <2>3 DEF HoldMoves, Holding, Uncalled, ExecStep
  <1>7. CASE Claim(p)
    <2>1. \/ exec'[p].at = "ending"
          \/ /\ item = exec[p].item /\ exec'[p].item = exec[p].item
             /\ item' = Moved(item, "executing", item.approval)
      BY <1>0, <1>7 DEF Claim, Move, Enter, Stands, Save
    <2> QED BY <2>1 DEF HoldMoves, Holding, Uncalled
  <1> QED BY <1>1, <1>3, <1>4, <1>5, <1>6, <1>7 DEF ExecStep

LEMMA HoldSteps ==
    ASSUME Typed, [Next]_vars, NEW p \in Processes
    PROVE  HoldMoves(p)
  <1>0. exec \in [Processes -> Execs] BY DEF Typed, TypedExec
  <1>1. CASE Wake(p) \/ ExecStep(p) BY <1>1, OwnStep
  <1>2. CASE Restart(p) \/ Lose
    <2>1. exec'[p] = NoExec BY <1>0, <1>2 DEF Restart, Lose
    <2> QED BY <2>1 DEF HoldMoves, NoExec, Holding, Uncalled
  <1>3. ASSUME ~(Wake(p) \/ ExecStep(p)), ~Restart(p), ~Lose
        PROVE  exec'[p] = exec[p] /\ ~Finish(p) /\ ~Check(p)
    <2>1. ~Finish(p) /\ ~Check(p) BY <1>3 DEF ExecStep
    <2>2. ASSUME NEW q \in Processes, Wake(q) \/ ExecStep(q) \/ Restart(q) PROVE exec'[p] = exec[p]
      <3>1. q # p BY <1>3, <2>2
      <3>2. UNCHANGED exec \/ \E r : exec' = [exec EXCEPT ![q] = r]
        <4>1. CASE Wake(q) BY <4>1 DEF Wake, Move, Enter
        <4>2. CASE Restart(q) BY <4>2 DEF Restart
        <4>3. CASE ExecStep(q)
          BY <4>3 DEF ExecStep, Load, Claim, Verify, Check, Call, Finish, Leave, Move, Enter
        <4> QED BY <2>2, <4>1, <4>2, <4>3
      <3> QED BY <1>0, <3>1, <3>2
    <2>3. ASSUME NEW c \in DOMAIN calls, CallStep(c) PROVE exec'[p] = exec[p]
      BY <2>3 DEF CallStep, Look, CommitCreate, CommitRenewal, CommitApproval, CommitRefused, Decline
    <2>4. CASE Asks \/ TakeBack \/ Upload \/ Reread \/ Requeue \/ Change \/ UNCHANGED vars
               \/ \E d \in Devices : Apply(d)
      <3>1. Asks => UNCHANGED exec BY DEF Asks, Ask
      <3>2. TakeBack \/ Upload \/ Reread \/ Requeue \/ Change => UNCHANGED exec
        BY DEF TakeBack, Upload, Reread, Requeue, Change
      <3>3. ASSUME NEW d \in Devices, Apply(d) PROVE UNCHANGED exec BY <3>3 DEF Apply
      <3>4. UNCHANGED vars => UNCHANGED exec BY DEF vars
      <3>5. UNCHANGED exec BY <2>4, <3>1, <3>2, <3>3, <3>4
      <3> QED BY <2>1, <3>5
    <2>5. \/ Asks \/ TakeBack \/ Upload \/ Reread \/ Requeue \/ Change \/ UNCHANGED vars
             \/ \E d \in Devices : Apply(d)
          \/ \E c \in DOMAIN calls : CallStep(c)
          \/ \E q \in Processes : Wake(q) \/ ExecStep(q) \/ Restart(q)
      BY <1>3 DEF Next
    <2>6. exec'[p] = exec[p] BY <2>2, <2>3, <2>4, <2>5
    <2> QED BY <2>1, <2>6
  <1> QED BY <1>1, <1>2, <1>3 DEF HoldMoves

LEMMA HoldStep == IInv /\ PreparedInv /\ HoldInv /\ [Next]_vars => HoldInv'
  <1> SUFFICES ASSUME Typed, HeldOnce, PreparedInv, HoldInv, [Next]_vars,
                      NEW p \in Processes, exec'[p].at \in Holding
               PROVE  /\ item'.state \in {"executing", "uncertain"}
                      /\ item'.state = "executing" => item'.approval = exec'[p].item.approval
                      /\ Digest(item') = Digest(exec'[p].item)
    BY DEF IInv, Safe, HoldInv, Digest
  <1>1. HoldMoves(p) BY HoldSteps
  <1>2. CASE item = exec[p].item /\ exec'[p].item = item /\ item' = Moved(item, "executing", item.approval)
    BY <1>2, MovedIs
  <1>3. CASE /\ exec[p].at \in Holding /\ exec'[p].item = exec[p].item
             /\ ~Finish(p) /\ ~Lose /\ (Check(p) => item' = item)
    <2>1. /\ item.state \in {"executing", "uncertain"}
          /\ item.state = "executing" => item.approval = exec[p].item.approval
          /\ Digest(item) = Digest(exec[p].item)
      BY <1>3 DEF HoldInv
    <2>2. ASSUME NEW q \in Processes, item.state = "executing", exec[q].at \in Holding PROVE q = p
      <3>1. exec[q].item.approval = exec[p].item.approval BY <1>3, <2>2 DEF HoldInv
      <3> QED BY <1>3, <2>2, <3>1 DEF HeldOnce
    <2>3. ItemMoves BY ItemSteps
    <2>4. CASE item' = item BY <1>3, <2>1, <2>4
    <2>5. CASE item.state = "executing" /\ \E q \in Processes : Check(q) /\ Claimed(q)
      <3>1. PICK q \in Processes : Check(q) BY <2>5
      <3>2. exec[q].at \in Holding BY <3>1 DEF Check, Holding, Uncalled
      <3>3. q = p BY <2>2, <2>5, <3>2
      <3> QED BY <1>3, <2>4, <3>1, <3>3
    <2>6. CASE /\ item.state = "executing" /\ item'.state \in Ended
               /\ SameVersion /\ item'.approval = item.approval /\ Digest(item') = Digest(item)
               /\ item'.state = "uncertain" \/ \E q \in Processes : Finish(q) /\ Claimed(q)
      <3>1. ASSUME NEW q \in Processes, Finish(q) PROVE FALSE
        <4>1. exec[q].at \in Holding BY <3>1 DEF Finish, Holding
        <4>2. q = p BY <2>2, <2>6, <4>1
        <4> QED BY <1>3, <3>1, <4>2
      <3> QED BY <1>3, <2>1, <2>6, <3>1
    <2> QED BY <1>3, <2>1, <2>3, <2>4, <2>5, <2>6 DEF ItemMoves, Editable, NoItem
  <1> QED BY <1>1, <1>2, <1>3 DEF HoldMoves

LEMMA HoldInvariant == Spec => []HoldInv
  <1>1. Init => HoldInv BY DEF Init, HoldInv, NoExec, Holding, Uncalled
  <1> QED BY <1>1, HoldStep, Invariant, PreparedInvariant, PTL DEF Spec

\* review_execution.rs execute_approved: the call is made under its claim, on what the Runner
\* holds, and never on an item that has been cancelled, rejected or put up for review again,
\* whatever was decided between the claim and the call.
THEOREM CallsUnderClaim == Spec => DecisionsStand
  <1>1. IInv /\ HoldInv /\ [Next]_vars =>
          [\A k \in DOMAIN effects' \ DOMAIN effects :
              /\ item.state \in {"executing", "uncertain"}
              /\ effects'[k].is = Digest(item)]_vars
    <2> SUFFICES ASSUME Typed, HoldInv, [Next]_vars, NEW k \in DOMAIN effects' \ DOMAIN effects
                 PROVE  item.state \in {"executing", "uncertain"} /\ effects'[k].is = Digest(item)
      BY DEF IInv
    <2>1. effects \in Seq(Effects) BY DEF Typed, TypedHistory
    <2>2. UNCHANGED effects \/ \E p \in Processes : Call(p)
      BY DEF Next, Asks, Ask, CallStep, Look, CommitCreate, CommitRenewal, CommitApproval,
             CommitRefused, Decline, Wake, ExecStep, Load, Claim, Verify, Check, Finish, Leave, Restart,
             Lose, TakeBack, Upload, Reread, Requeue, Change, Apply, vars
    <2>3. PICK p \in Processes : Call(p) BY <2>2
    <2>4. exec[p].at \in Holding BY <2>3 DEF Call, Holding, Uncalled
    <2> DEFINE e == [approval |-> exec[p].item.approval, is |-> Digest(exec[p].item),
                     met |-> exec[p].found]
    <2>5. effects' = Append(effects, e) \/ effects' = effects BY <2>3 DEF Call
    <2>6. e.is = Digest(exec[p].item) OBVIOUS
    <2> HIDE DEF e
    <2>7. effects'[k] = e BY <2>1, <2>5
    <2> QED BY <2>4, <2>6, <2>7 DEF HoldInv
  <1> QED BY <1>1, Invariant, HoldInvariant, PTL DEF Spec, DecisionsStand

-----------------------------------------------------------------------------
(* Versions: a version names one payload, wherever a copy of it is.        *)

\* A copy of the item as it is, or as it was before.
Current(r) ==
    /\ r.version <= item.version
    /\ r.version = item.version => r.payload = item.payload

\* What was approved is compared with what its Device showed.
LookedAsShown ==
    \A c \in DOMAIN calls : calls[c].at = "prepared" /\ calls[c].method = "approve" =>
        calls[c].shown.payload = calls[c].item.payload

VersionInv ==
    /\ Current(NoItem) /\ Current(out) /\ Current(slot) /\ Current(reread)
    /\ \A d \in Devices : Current(view[d])
    /\ \A c \in DOMAIN calls : Current(calls[c].shown)

ShownInv == VersionInv /\ LookedAsShown /\ ApprovedAsShown

\* Without its store lost, the Runner's record only moves on.
LEMMA Onward ==
    ASSUME "lost" \notin Occurs, Typed, PreparedInv, VersionInv, [Next]_vars
    PROVE  /\ item'.version > item.version \/ SameVersion
           /\ item'.version \in Nat /\ item.version \in Nat
  <1>1. ItemMoves BY ItemSteps
  <1>2. item \in Items /\ item.version \in Nat BY DEF Typed, TypedItems, Named, NamedOf, Items
  <1>3. ~Lose BY DEF Lose
  <1>4. CASE item' = item BY <1>2, <1>4 DEF SameVersion
  <1>5. CASE NextVersion BY <1>2, <1>5 DEF NextVersion
  <1>6. CASE SameVersion BY <1>2, <1>6 DEF SameVersion
  <1>7. CASE item = NoItem /\ (item'.version = 1 \/ (item'.version = slot.version /\ item'.payload = slot.payload))
    <2>1. item.version = 0 BY <1>7 DEF NoItem
    <2>2. CASE item'.version = 1 BY <2>1, <2>2
    <2>3. CASE item'.version = slot.version /\ item'.payload = slot.payload
      <3>1. slot \in Items /\ slot.version \in Nat BY DEF Typed, TypedItems, Named, NamedOf, Items
      <3>2. Current(slot) BY DEF VersionInv
      <3>3. slot.version = item.version /\ slot.payload = item.payload BY <2>1, <3>1, <3>2 DEF Current
      <3> QED BY <1>2, <2>3, <3>3 DEF SameVersion
    <2> QED BY <1>7, <2>2, <2>3
  <1> QED BY <1>1, <1>3, <1>4, <1>5, <1>6, <1>7 DEF ItemMoves

\* So what was current still is, and the record itself is.
LEMMA StaysCurrent ==
    ASSUME "lost" \notin Occurs, Typed, PreparedInv, VersionInv, [Next]_vars, NEW r \in Items
    PROVE  /\ Current(r) => /\ r.version <= item'.version
                            /\ r.version = item'.version => r.payload = item'.payload
           /\ Current(item)
  <1>1. /\ item'.version > item.version \/ SameVersion
        /\ item'.version \in Nat /\ item.version \in Nat
    BY Onward
  <1>2. r.version \in Nat BY DEF Items
  <1> QED BY <1>1, <1>2 DEF Current, SameVersion

\* Where the copies of the record come from.
LEMMA CopySteps ==
    ASSUME Typed, [Next]_vars
    PROVE  /\ out' \in {out, NoItem, item', reread}
           /\ slot' \in {slot, out}
           /\ reread' \in {reread, NoItem, item}
           /\ \A d \in Devices : view'[d] \in {view[d], slot}
  <1>0. view \in [Devices -> Items] BY DEF Typed, TypedItems
  <1> DEFINE Goal == /\ out' \in {out, NoItem, item', reread}
                     /\ slot' \in {slot, out}
                     /\ reread' \in {reread, NoItem, item}
                     /\ \A d \in Devices : view'[d] \in {view[d], slot}
  <1> SUFFICES Goal OBVIOUS
  <1>1. CASE Asks BY <1>1 DEF Asks, Ask
  <1>2. ASSUME NEW c \in DOMAIN calls, CallStep(c) PROVE Goal
    <2>1. UNCHANGED <<slot, view, reread>> /\ (UNCHANGED out \/ out' = item')
      BY <1>2 DEF CallStep, Look, CommitCreate, CommitRenewal, CommitApproval, CommitRefused, Decline, Save
    <2> QED BY <2>1
  <1>3. ASSUME NEW p \in Processes, Wake(p) \/ ExecStep(p) PROVE Goal
    <2>1. UNCHANGED <<slot, view, reread>> /\ (UNCHANGED out \/ out' = item')
      BY <1>3 DEF Wake, ExecStep, Load, Claim, Verify, Check, Call, Finish, Leave, Save
    <2> QED BY <2>1
  <1>4. ASSUME NEW p \in Processes, Restart(p) PROVE Goal
    <2>1. UNCHANGED <<slot, view>> /\ reread' = NoItem /\ (UNCHANGED out \/ out' = item')
      BY <1>4 DEF Restart, Save
    <2> QED BY <2>1
  <1>5. CASE Lose \/ TakeBack \/ Upload \/ Reread \/ Requeue \/ Change
    <2>1. UNCHANGED view /\ out' \in {out, NoItem, item', reread} /\ slot' \in {slot, out}
          /\ reread' \in {reread, NoItem, item}
      BY <1>5 DEF Lose, TakeBack, Upload, Reread, Requeue, Change
    <2> QED BY <2>1
  <1>6. ASSUME NEW d \in Devices, Apply(d) PROVE Goal
    BY <1>0, <1>6 DEF Apply
  <1>7. CASE UNCHANGED vars BY <1>7 DEF vars
  <1> HIDE DEF Goal
  <1> QED BY <1>1, <1>2, <1>3, <1>4, <1>5, <1>6, <1>7 DEF Next

LEMMA VersionStep ==
    ASSUME "lost" \notin Occurs, Typed, PreparedInv, VersionInv, [Next]_vars
    PROVE  VersionInv'
  <1> DEFINE Later(r) == /\ r.version <= item'.version
                         /\ r.version = item'.version => r.payload = item'.payload
             Copies == {r \in Items : Current(r)}
  <1>1. \A r \in Copies : Later(r) BY StaysCurrent
  <1>2. /\ NoItem \in Copies /\ out \in Copies /\ slot \in Copies /\ reread \in Copies
        /\ \A d \in Devices : view[d] \in Copies
        /\ \A c \in DOMAIN calls : calls[c].shown \in Copies
    BY NoItemNamed, CallIs DEF VersionInv, Typed, TypedItems, Named, NamedOf
  <1>3. item \in Copies
    <2>1. item \in Items BY DEF Typed, TypedItems, Named, NamedOf
    <2> QED BY <2>1, StaysCurrent
  <1>4. Later(item') BY Onward
  <1> HIDE DEF Copies
  <1>5. Later(NoItem) BY <1>1, <1>2
  <1>6. Later(out') /\ Later(slot') /\ Later(reread') /\ \A d \in Devices : Later(view'[d])
    <2> HIDE DEF Later
    <2> QED BY <1>1, <1>2, <1>3, <1>4, CopySteps
  <1>7. ASSUME NEW c \in DOMAIN calls' PROVE Later(calls'[c].shown)
    <2>1. CallMoves(c) BY CallSteps
    <2>2. calls'[c].shown \in Copies BY <1>2, <1>3, <2>1 DEF CallMoves
    <2> HIDE DEF Later
    <2> QED BY <1>1, <2>2
  <1> QED BY <1>5, <1>6, <1>7 DEF VersionInv, Current, NoItem

LEMMA LookedStep ==
    ASSUME Typed, VersionInv, LookedAsShown, [Next]_vars
    PROVE  LookedAsShown'
  <1> SUFFICES ASSUME NEW c \in DOMAIN calls', calls'[c].at = "prepared", calls'[c].method = "approve"
               PROVE  calls'[c].shown.payload = calls'[c].item.payload
    BY DEF LookedAsShown
  <1>1. CallMoves(c) BY CallSteps
  <1>2. CASE c \in DOMAIN calls /\ calls'[c] = calls[c] BY <1>2 DEF LookedAsShown
  <1>3. CASE /\ c \in DOMAIN calls /\ calls'[c].item = item
             /\ calls'[c].shown = calls[c].shown /\ Serves(item, calls[c].shown)
    <2>1. Current(calls[c].shown) BY <1>3 DEF VersionInv
    <2> QED BY <1>3, <2>1 DEF Current, Serves
  <1> QED BY <1>1, <1>2, <1>3 DEF CallMoves

LEMMA ShownStep ==
    ASSUME Typed, LookedAsShown, ApprovedAsShown, [Next]_vars
    PROVE  ApprovedAsShown'
  <1>1. approvals \in Seq([is : Digests, shown : Payloads \cup {"none"}])
    BY DEF Typed, TypedHistory
  <1>2. CASE UNCHANGED approvals BY <1>2 DEF ApprovedAsShown
  <1>3. ASSUME NEW c \in DOMAIN calls, CommitApproval(c) PROVE ApprovedAsShown'
    <2> DEFINE a == [is |-> Digest(calls[c].item), shown |-> calls[c].shown.payload]
    <2>1. approvals' = Append(approvals, a) \/ UNCHANGED approvals BY <1>3 DEF CommitApproval
    <2>2. a.is.payload = a.shown BY <1>3 DEF Digest, LookedAsShown, CommitApproval
    <2> HIDE DEF a
    <2> QED BY <1>1, <1>2, <2>1, <2>2 DEF ApprovedAsShown
  <1>4. UNCHANGED approvals \/ \E c \in DOMAIN calls : CommitApproval(c)
    BY DEF Next, Asks, Ask, CallStep, Look, CommitCreate, CommitRenewal,
           CommitRefused, Decline, Wake, ExecStep, Load, Claim, Verify, Check, Call, Finish, Leave,
           Restart, Lose, TakeBack, Upload, Reread, Requeue, Change, Apply, vars
  <1> QED BY <1>2, <1>3, <1>4

\* review_queue.rs require_version and the comparison after the await: what an approval covers is
\* what its Device showed, whatever other Devices edited before, between or after.  A Runner whose
\* store is lost gives a version number out again, so the theorem is about those that keep it.
THEOREM ApprovedWhatWasShown ==
    ASSUME "lost" \notin Occurs
    PROVE  Spec => []ApprovedAsShown
  <1>1. Init => ShownInv
    BY DEF Init, ShownInv, VersionInv, LookedAsShown, ApprovedAsShown, Current, NoItem
  <1>2. IInv /\ PreparedInv /\ ShownInv /\ [Next]_vars => ShownInv'
    BY VersionStep, LookedStep, ShownStep DEF IInv, ShownInv
  <1>3. ShownInv => ApprovedAsShown BY DEF ShownInv
  <1> QED BY <1>1, <1>2, <1>3, Invariant, PreparedInvariant, PTL DEF Spec

=============================================================================
