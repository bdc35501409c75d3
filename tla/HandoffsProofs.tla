--------------------------- MODULE HandoffsProofs ---------------------------
(***************************************************************************)
(* Proofs about Handoffs, for any number of Devices' deliveries, attempts  *)
(* and restarts: its types; that copies of a record agree and a turn runs  *)
(* once; and what the requester is promised.                               *)
(***************************************************************************)
EXTENDS Handoffs, SequenceTheorems, TLAPS

LEMMA QueuedType ==
    ASSUME NEW q \in Seq(Items), NEW item \in Items
    PROVE  Queued(q, item) \in Seq(Items)
BY DEF Queued

LEMMA QueuedRange ==
    ASSUME NEW q \in Seq(Items), NEW item \in Items, NEW i \in DOMAIN Queued(q, item)
    PROVE  Queued(q, item)[i] = item \/ \E k \in DOMAIN q : Queued(q, item)[i] = q[k]
BY DEF Queued

LEMMA RemoveAtType ==
    ASSUME NEW q \in Seq(Items), NEW k \in DOMAIN q
    PROVE  /\ RemoveAt(q, k) \in Seq(Items)
           /\ \A i \in DOMAIN RemoveAt(q, k) : \E j \in DOMAIN q : RemoveAt(q, k)[i] = q[j]
<1> DEFINE a == SubSeq(q, 1, k - 1)
           b == SubSeq(q, k + 1, Len(q))
<1>1. k \in 1..Len(q) /\ Len(q) \in Nat /\ \A i \in 1..Len(q) : q[i] \in Items
  BY ElementOfSeq, LenProperties
<1>2. /\ a \in Seq(Items)
      /\ Len(a) = k - 1
      /\ \A i \in 1..(k - 1) : a[i] = q[i]
  BY <1>1, SubSeqProperties
<1>3. /\ b \in Seq(Items)
      /\ Len(b) = Len(q) - k
      /\ \A i \in 1..(Len(q) - k) : b[i] = q[k + i]
  BY <1>1, SubSeqProperties
<1>4. RemoveAt(q, k) = a \o b
  BY DEF RemoveAt
<1> HIDE DEF a, b
<1>5. /\ a \o b \in Seq(Items)
      /\ Len(a \o b) = Len(a) + Len(b)
      /\ \A i \in 1..(Len(a) + Len(b)) :
            (a \o b)[i] = IF i <= Len(a) THEN a[i] ELSE b[i - Len(a)]
  BY <1>2, <1>3, ConcatProperties
<1>6. ASSUME NEW i \in DOMAIN (a \o b)
      PROVE  \E j \in DOMAIN q : (a \o b)[i] = q[j]
  <2>1. DOMAIN (a \o b) = 1..(Len(a) + Len(b)) /\ DOMAIN q = 1..Len(q)
    BY <1>5, LenProperties
  <2>2. k \in Int /\ Len(q) \in Int /\ i \in 1..(Len(q) - 1) /\ Len(a) + Len(b) = Len(q) - 1
    BY <1>1, <1>2, <1>3, <2>1
  <2>3. (a \o b)[i] = IF i <= Len(a) THEN a[i] ELSE b[i - Len(a)]
    BY <1>5, <2>1
  <2>4. CASE i < k
    <3>1. i \in 1..(k - 1) /\ i <= Len(a)
      BY <1>2, <2>2, <2>4
    <3>2. (a \o b)[i] = q[i]
      BY <1>2, <2>3, <3>1
    <3> QED BY <2>1, <2>2, <3>2
  <2>5. CASE i >= k
    <3> DEFINE m == i - (k - 1)
    <3>1. m \in 1..(Len(q) - k) /\ ~(i <= Len(a)) /\ i - Len(a) = m
      BY <1>2, <2>2, <2>5
    <3>2. (a \o b)[i] = b[m]
      BY <2>3, <3>1
    <3>3. b[m] = q[k + m]
      BY <1>3, <3>1
    <3>4. k + m \in 1..Len(q)
      BY <1>1, <2>2, <2>5
    <3> QED BY <2>1, <3>2, <3>3, <3>4
  <2> QED BY <2>2, <2>4, <2>5
<1> QED BY <1>4, <1>5, <1>6

LEMMA StoredType ==
    ASSUME NEW q \in Seq(Items), NEW item \in Items
    PROVE  /\ Stored(q, item) \in Seq(Items)
           /\ \A i \in DOMAIN Stored(q, item) :
                 Stored(q, item)[i] = item \/ \E k \in DOMAIN q : Stored(q, item)[i] = q[k]
<1>1. CASE \E i \in DOMAIN q : SameSlot(q[i], item)
  <2> DEFINE k == CHOOSE i \in DOMAIN q : SameSlot(q[i], item)
             p == RemoveAt(q, k)
  <2>1. k \in DOMAIN q
    BY <1>1
  <2>2. p \in Seq(Items) /\ \A i \in DOMAIN p : \E j \in DOMAIN q : p[i] = q[j]
    BY <2>1, RemoveAtType
  <2>3. Stored(q, item) = Append(p, item)
    BY <1>1 DEF Stored
  <2> HIDE DEF p
  <2> QED BY <2>2, <2>3
<1>2. CASE ~\E i \in DOMAIN q : SameSlot(q[i], item)
  BY <1>2 DEF Stored
<1> QED BY <1>1, <1>2

LEMMA MergedType ==
    ASSUME NEW r \in [Attempts -> Attempt], NEW u \in Items
    PROVE  Merged(r, u) \in [Attempts -> Attempt]
<1> DEFINE n == u.job[1]
           a == IF Exists(r, n) THEN r[n] ELSE Blank(u.job)
           report == IF u.kind = "report" /\ a.report \notin Terminal THEN u.status ELSE a.report
<1>1. u.job \in Jobs /\ n \in Attempts /\ u.status \in Reports
  BY DEF Items, Jobs
<1>2. a \in Attempt
  BY <1>1 DEF Exists, Blank, Attempt, Reports
<1>3. report \in Reports
  BY <1>1, <1>2 DEF Attempt
<1>4. Merged(r, u) = [r EXCEPT ![n] = [a EXCEPT !.report = report, !.cancelled = @ \/ u.kind = "cancel"]]
  BY DEF Merged
<1> HIDE DEF n, a, report
<1>5. [a EXCEPT !.report = report, !.cancelled = @ \/ u.kind = "cancel"] \in Attempt
  BY <1>2, <1>3 DEF Attempt
<1> QED BY <1>1, <1>4, <1>5

-----------------------------------------------------------------------------
(* Type correctness.                                                       *)

LEMMA ItemType ==
    ASSUME NEW j \in Jobs
    PROVE  /\ \A kind \in Updates \cup Envelopes : Item(kind, j) \in Items
           /\ \A s \in Reports : ReportItem(j, s) \in Items
BY DEF Item, ReportItem, Items, Updates, Reports

LEMMA CurrentJob ==
    ASSUME NEW r \in [Attempts -> Attempt], NEW n \in Attempts, Exists(r, n)
    PROVE  r[n].job \in Jobs
BY DEF Exists, Attempt

LEMMA JobNumber ==
    ASSUME NEW j \in Jobs
    PROVE  j[1] \in Attempts /\ j # NoJob
BY DEF Jobs, Attempts, NoJob

LEMMA RoutesType ==
    ASSUME NEW d \in Devices, NEW r \in [Attempts -> Attempt]
    PROVE  Routes(d, r) \in SUBSET Jobs
BY DEF Routes, IsCurrent, Exists, Attempt

StoreType ==
    /\ rec \in [Devices -> [Attempts -> Attempt]]
    /\ outbox \in [Devices -> Seq(Items)]
    /\ sent \in [Devices -> BOOLEAN]

RelayType ==
    /\ inbox \in [Devices -> Seq(Items)]
    /\ read \in [Devices -> Nat]

LEMMA SaveType ==
    ASSUME StoreType, NEW d \in Devices, NEW r \in [Attempts -> Attempt],
           NEW u \in Items, NEW e \in Seq(Items), Save(d, r, u, e)
    PROVE  StoreType'
<1>1. Queued(outbox[d], u) \in Seq(Items)
  BY QueuedType DEF StoreType
<1>2. Queued(outbox[d], u) \o e \in Seq(Items)
  BY <1>1, ConcatProperties
<1> QED BY <1>2 DEF StoreType, Save, SameSlot

LEMMA SaveQuietlyType ==
    ASSUME StoreType, NEW d \in Devices, NEW r \in [Attempts -> Attempt], SaveQuietly(d, r)
    PROVE  StoreType'
BY DEF StoreType, SaveQuietly

LEMMA UploadType ==
    ASSUME RelayType, NEW item \in Items, Upload(item)
    PROVE  RelayType'
<1>1. \A d \in Devices : Stored(inbox[d], item) \in Seq(Items)
  BY StoredType DEF RelayType
<1>2. \A d \in Devices : SupersedesRead(d, item) => read[d] - 1 \in Nat
  BY DEF RelayType, SupersedesRead
<1> QED BY <1>1, <1>2 DEF RelayType, Upload

LEMMA PublishType ==
    ASSUME StoreType, routing \in SUBSET Jobs, Target \in Devices,
           NEW j \in Jobs, NEW s \in Reports, Publish(j, s)
    PROVE  StoreType' /\ routing' \in SUBSET Jobs
<1> DEFINE u == ReportItem(j, s)
           r == Merged(rec[Target], u)
<1>1. u \in Items /\ rec[Target] \in [Attempts -> Attempt] /\ <<>> \in Seq(Items)
  BY ItemType DEF StoreType
<1>2. r \in [Attempts -> Attempt]
  BY <1>1, MergedType
<1>3. Routes(Target, r) \in SUBSET Jobs /\ Routes(Target, rec[Target]) \in SUBSET Jobs
  BY <1>1, <1>2, RoutesType
<1> HIDE DEF u, r
<1>4. CASE Save(Target, r, u, <<>>) /\ routing' = routing \cup Routes(Target, r)
  BY <1>1, <1>2, <1>3, <1>4, SaveType
<1>5. CASE UNCHANGED store /\ routing' = routing \cup Routes(Target, rec[Target])
  BY <1>3, <1>5 DEF store, StoreType
<1> QED BY <1>4, <1>5 DEF Publish, u, r

LEMMA AdmittedType ==
    ASSUME TypeOK, NEW d \in Devices, NEW j \in Jobs, Admitted(d, j)
    PROVE  StoreType' /\ turn' \in [Jobs -> {"idle", "queued", "working", "skipping"}]
<1> DEFINE u == Item("request", j)
           e == IF d = Target THEN <<>> ELSE <<Item("job", j)>>
<1>1. u \in Items /\ Item("job", j) \in Items
  BY ItemType DEF Updates, Envelopes
<1>2. e \in Seq(Items)
  BY <1>1
<1>3. Merged(rec[d], u) \in [Attempts -> Attempt]
  BY <1>1, MergedType DEF TypeOK
<1>4. Save(d, Merged(rec[d], u), u, e)
  BY DEF Admitted
<1>5. StoreType
  BY DEF TypeOK, StoreType
<1> HIDE DEF u, e
<1>6. StoreType'
  BY <1>1, <1>2, <1>3, <1>4, <1>5, SaveType
<1>7. turn' \in [Jobs -> {"idle", "queued", "working", "skipping"}]
  BY DEF Admitted, Spawned, TypeOK
<1> QED BY <1>6, <1>7

LEMMA PrepareType ==
    ASSUME TypeOK, NEW d \in Devices, NEW n \in Attempts, Exists(rec[d], n), Prepare(d, n)
    PROVE  /\ minted' \in SUBSET Jobs
           /\ admitting' \in SUBSET Admission
<1>1. rec[d][n].job \in Jobs
  BY CurrentJob DEF TypeOK
<1>2. PICK j \in Fresh(n + 1) :
         /\ minted' = minted \cup {j}
         /\ admitting' = admitting \cup {[by |-> d, job |-> j, replaces |-> rec[d][n].job]}
  BY DEF Prepare
<1>3. j \in Jobs
  BY DEF Fresh
<1> QED BY <1>1, <1>2, <1>3 DEF TypeOK, Admission

LEMMA ApplyingType ==
    ASSUME TypeOK, NEW d \in Devices, Applying(d)
    PROVE  RelayType' /\ Next1(d) \in Items /\ read[d] + 1 \in DOMAIN inbox[d]
<1>1. read[d] + 1 \in 1..Len(inbox[d]) /\ inbox[d] \in Seq(Items) /\ inbox[d] # <<>>
  BY LenProperties, EmptySeq DEF Applying, TypeOK
<1>2. Next1(d) \in Items
  BY <1>1, ElementOfSeq DEF Next1
<1>3. Tail(inbox[d]) \in Seq(Items)
  BY <1>1, HeadTailProperties
<1>4. ASSUME d \in Restarting PROVE RelayType'
  <2>1. read[d] + 1 \in Nat /\ read' = [read EXCEPT ![d] = read[d] + 1] /\ inbox' = inbox
    BY <1>1, <1>4 DEF Applying
  <2> QED BY <2>1 DEF RelayType, TypeOK
<1>5. ASSUME d \notin Restarting PROVE RelayType'
  <2>1. inbox' = [inbox EXCEPT ![d] = Tail(inbox[d])] /\ read' = read
    BY <1>5 DEF Applying
  <2> QED BY <1>3, <2>1 DEF RelayType, TypeOK
<1>6. DOMAIN inbox[d] = 1..Len(inbox[d])
  BY <1>1, LenProperties
<1> QED BY <1>1, <1>2, <1>4, <1>5, <1>6

\* The conjuncts of TypeOK that concern turns, continuations and admissions.
RunsType ==
    /\ turn \in [Jobs -> {"idle", "queued", "working", "skipping"}]
    /\ token \in SUBSET Jobs
    /\ limited \in SUBSET Jobs
    /\ ran \in SUBSET Jobs

ContsType ==
    /\ routing \in SUBSET Jobs
    /\ cont \in [Jobs -> {"idle", "queued", "working"}]
    /\ woke \in SUBSET Jobs

EnvsType ==
    /\ opened \in SUBSET Items
    /\ calledOff \in SUBSET Jobs
    /\ opening \in Jobs \cup {NoJob}

CtlType ==
    /\ admitting \in SUBSET Admission
    /\ minted \in SUBSET Jobs
    /\ moved \in SUBSET {"from", "target"}
    /\ restarts \in [Devices -> 0..MaxRestarts]

LEMMA TypeParts ==
    /\ TypeOK => StoreType /\ RelayType /\ EnvsType /\ RunsType /\ ContsType /\ CtlType
    /\ StoreType' /\ RelayType' /\ EnvsType' /\ RunsType' /\ ContsType' /\ CtlType' => TypeOK'
BY DEF TypeOK, StoreType, RelayType, EnvsType, RunsType, ContsType, CtlType

\* A step that leaves a group of variables alone leaves its types alone.
LEMMA Untouched ==
    /\ StoreType /\ UNCHANGED store => StoreType'
    /\ RelayType /\ UNCHANGED relay => RelayType'
    /\ EnvsType /\ UNCHANGED envs => EnvsType'
    /\ RunsType /\ UNCHANGED runs => RunsType'
    /\ ContsType /\ UNCHANGED conts => ContsType'
    /\ CtlType /\ UNCHANGED ctl => CtlType'
<1>1. StoreType /\ UNCHANGED store => StoreType'
  BY DEF StoreType, store
<1>2. RelayType /\ UNCHANGED relay => RelayType'
  BY DEF RelayType, relay
<1>3. EnvsType /\ UNCHANGED envs => EnvsType'
  BY DEF EnvsType, envs
<1>4. RunsType /\ UNCHANGED runs => RunsType'
  BY DEF RunsType, runs
<1>5. ContsType /\ UNCHANGED conts => ContsType'
  BY DEF ContsType, conts
<1>6. CtlType /\ UNCHANGED ctl => CtlType'
  BY DEF CtlType, ctl
<1> QED BY <1>1, <1>2, <1>3, <1>4, <1>5, <1>6

LEMMA AdmissionType ==
    ASSUME TypeOK,
           \/ Delegate \/ FollowUp
           \/ \E a \in admitting : Admit(a)
           \/ \E j \in Jobs : ResumeStopped(j) \/ ResumeUnreported(j)
    PROVE  TypeOK'
<1> USE TypeParts, Untouched, HandoffConstants
<1>1. CASE Delegate
  <2>1. PICK j \in Fresh(1) : minted' = {j} /\ Admitted(Source, j)
    BY <1>1 DEF Delegate
  <2>2. j \in Jobs
    BY DEF Fresh
  <2>3. StoreType' /\ turn' \in [Jobs -> {"idle", "queued", "working", "skipping"}]
    BY <2>1, <2>2, AdmittedType
  <2>4. RunsType' /\ CtlType'
    BY <1>1, <2>1, <2>2, <2>3 DEF Delegate, RunsType, CtlType
  <2> QED BY <1>1, <2>3, <2>4 DEF Delegate
<1>2. CASE FollowUp
  <2>1. PICK n \in Attempts : Exists(rec[Source], n) /\ Prepare(Source, n)
    BY <1>2 DEF FollowUp, IsCurrent
  <2>2. minted' \in SUBSET Jobs /\ admitting' \in SUBSET Admission
    BY <2>1, PrepareType
  <2> QED BY <1>2, <2>1, <2>2 DEF FollowUp, Prepare, RunsType, CtlType
<1>3. ASSUME NEW a \in admitting, Admit(a)
      PROVE  TypeOK'
  <2>1. a.by \in Devices /\ a.job \in Jobs
    BY DEF TypeOK, Admission
  <2>2. StoreType' /\ turn' \in [Jobs -> {"idle", "queued", "working", "skipping"}]
    <3>1. CASE Admitted(a.by, a.job)
      BY <2>1, <3>1, AdmittedType
    <3>2. CASE UNCHANGED <<store, turn>>
      BY <3>2 DEF RunsType
    <3> QED BY <1>3, <3>1, <3>2 DEF Admit
  <2>3. RunsType' /\ CtlType'
    BY <1>3, <2>2 DEF Admit, RunsType, CtlType
  <2> QED BY <1>3, <2>2, <2>3 DEF Admit
<1>4. ASSUME NEW j \in Jobs, ResumeStopped(j)
      PROVE  TypeOK'
  <2>1. j[1] \in Attempts
    BY DEF Jobs
  <2>2. Exists(rec[Target], j[1]) /\ Prepare(Target, j[1])
    BY <1>4 DEF ResumeStopped, IsCurrent
  <2>3. minted' \in SUBSET Jobs /\ admitting' \in SUBSET Admission
    BY <2>1, <2>2, PrepareType
  <2> QED BY <1>4, <2>2, <2>3 DEF ResumeStopped, Prepare, RunsType, CtlType
<1>5. ASSUME NEW j \in Jobs, ResumeUnreported(j)
      PROVE  TypeOK'
  BY <1>5 DEF ResumeUnreported, Spawned, RunsType
<1> QED BY <1>1, <1>2, <1>3, <1>4, <1>5

LEMMA CancelType ==
    ASSUME TypeOK, Cancel
    PROVE  TypeOK'
<1> USE TypeParts, Untouched, HandoffConstants
<1>1. PICK n \in Attempts :
         /\ Exists(rec[Source], n)
         /\ Save(Source, Merged(rec[Source], Item("cancel", rec[Source][n].job)),
                 Item("cancel", rec[Source][n].job),
                 IF Source = Target THEN <<>> ELSE <<Item("job_cancel", rec[Source][n].job)>>)
         /\ token' = IF Source = Target THEN Cancelled(token, rec[Source][n].job) ELSE token
  BY DEF Cancel, IsCurrent
<1> DEFINE j == rec[Source][n].job
           e == IF Source = Target THEN <<>> ELSE <<Item("job_cancel", j)>>
<1>2. j \in Jobs
  BY <1>1, CurrentJob DEF TypeOK
<1> HIDE DEF j
<1>3. Item("cancel", j) \in Items /\ Item("job_cancel", j) \in Items
  BY <1>2, ItemType DEF Updates, Envelopes
<1>4. e \in Seq(Items)
  BY <1>3
<1>5. Merged(rec[Source], Item("cancel", j)) \in [Attempts -> Attempt]
  BY <1>3, MergedType DEF TypeOK
<1>6. StoreType'
  BY <1>1, <1>3, <1>4, <1>5, SaveType DEF j
<1>7. RunsType'
  BY <1>1, <1>2 DEF Cancel, Cancelled, RunsType, j
<1> QED BY <1>6, <1>7 DEF Cancel

LEMMA ApplyType ==
    ASSUME TypeOK,
           OpenJob \/ OpenCancel \/ Expire \/ StageJob \/ \E d \in Devices : ApplyUpdate(d)
    PROVE  TypeOK'
<1> USE TypeParts, Untouched, HandoffConstants
<1>1. CASE OpenJob
  <2>1. RelayType' /\ Next1(Target) \in Items
    BY <1>1, ApplyingType DEF OpenJob
  <2>2. Next1(Target).job \in Jobs
    BY <2>1 DEF Items
  <2>3. EnvsType'
    BY <1>1, <2>1, <2>2 DEF OpenJob, EnvsType
  <2> QED BY <1>1, <2>1, <2>3 DEF OpenJob, Applying, RunsType, ContsType
<1>2. CASE OpenCancel
  <2>1. RelayType' /\ Next1(Target) \in Items
    BY <1>2, ApplyingType DEF OpenCancel
  <2>2. Next1(Target).job \in Jobs
    BY <2>1 DEF Items
  <2>3. EnvsType' /\ token' \in SUBSET Jobs
    BY <1>2, <2>1, <2>2 DEF OpenCancel, Cancelled, EnvsType, RunsType
  <2> QED BY <1>2, <2>1, <2>3 DEF OpenCancel, Applying, RunsType, ContsType
<1>3. CASE Expire
  <2>1. RelayType'
    BY <1>3, ApplyingType DEF Expire
  <2> QED BY <1>3, <2>1 DEF Expire, Applying, RunsType, ContsType
<1>4. CASE StageJob
  <2> DEFINE u == Item("request", opening)
  <2>1. opening \in Jobs /\ u \in Items
    BY <1>4, ItemType DEF StageJob, EnvsType, Updates
  <2>2. Merged(rec[Target], u) \in [Attempts -> Attempt]
    BY <2>1, MergedType DEF TypeOK
  <2>3. StoreType' /\ turn' \in [Jobs -> {"idle", "queued", "working", "skipping"}]
    BY <1>4, <2>2, SaveQuietlyType DEF StageJob, Spawned, RunsType
  <2> QED BY <1>4, <2>3 DEF StageJob, EnvsType, RunsType
<1>5. ASSUME NEW d \in Devices, ApplyUpdate(d)
      PROVE  TypeOK'
  <2>1. RelayType' /\ Next1(d) \in Items
    BY <1>5, ApplyingType DEF ApplyUpdate
  <2> DEFINE r == Merged(rec[d], Next1(d))
  <2>2. r \in [Attempts -> Attempt] /\ Next1(d).job \in Jobs
    BY <2>1, MergedType DEF TypeOK, Items
  <2>3. Routes(d, r) \in SUBSET Jobs
    BY <2>2, RoutesType
  <2> HIDE DEF r
  <2>4. StoreType' /\ token' \in SUBSET Jobs /\ routing' \in SUBSET Jobs
    <3>1. CASE Mergeable(rec[d], Next1(d))
      BY <1>5, <2>2, <2>3, <3>1, SaveQuietlyType DEF ApplyUpdate, Cancelled, RunsType, ContsType, r
    <3>2. CASE ~Mergeable(rec[d], Next1(d))
      BY <1>5, <3>2 DEF ApplyUpdate, RunsType, ContsType
    <3> QED BY <3>1, <3>2
  <2> QED BY <1>5, <2>1, <2>4 DEF ApplyUpdate, Applying, RunsType, ContsType
<1> QED BY <1>1, <1>2, <1>3, <1>4, <1>5

LEMMA TransportType ==
    ASSUME TypeOK, NEW d \in Devices, Drain(d, TRUE) \/ Drain(d, FALSE) \/ SavePage(d)
    PROVE  TypeOK'
<1> USE TypeParts, Untouched, HandoffConstants
<1>1. ASSUME NEW answered \in BOOLEAN, Drain(d, answered)
      PROVE  TypeOK'
  <2>1. /\ Head(outbox[d]) \in Items
        /\ Tail(outbox[d]) \in Seq(Items)
    BY <1>1, HeadTailProperties DEF Drain, TypeOK
  <2>2. RelayType'
    BY <1>1, <2>1, UploadType DEF Drain
  <2>3. StoreType'
    BY <1>1, <2>1 DEF Drain, StoreType
  <2> QED BY <1>1, <2>2, <2>3 DEF Drain
<1>2. CASE SavePage(d)
  <2>1. inbox[d] \in Seq(Items) /\ read[d] \in Nat
    BY DEF TypeOK
  <2>2. SubSeq(inbox[d], read[d] + 1, Len(inbox[d])) \in Seq(Items)
    BY <2>1
  <2>3. RelayType'
    BY <1>2, <2>2 DEF SavePage, RelayType
  <2> QED BY <1>2, <2>3 DEF SavePage
<1> QED BY <1>1, <1>2

LEMMA TurnType ==
    ASSUME TypeOK,
           \/ \E j \in Jobs : TurnStep(j) \/ StopAtLimits(j) \/ StopTurn(j)
           \/ \E s \in Claims : ReportTool(s)
    PROVE  TypeOK'
<1> USE TypeParts, Untouched, HandoffConstants
<1>1. ASSUME NEW j \in Jobs, Begin(j)
      PROVE  TypeOK'
  <2> DEFINE u == ReportItem(j, "running")
  <2>1. u \in Items /\ <<>> \in Seq(Items)
    BY ItemType DEF Reports
  <2>2. Merged(rec[Target], u) \in [Attempts -> Attempt]
    BY <2>1, MergedType DEF TypeOK
  <2>3. StoreType'
    BY <1>1, <2>1, <2>2, SaveType DEF Begin
  <2>4. RunsType'
    BY <1>1 DEF Begin, RunsType
  <2> QED BY <1>1, <2>3, <2>4 DEF Begin
<1>2. ASSUME NEW j \in Jobs, NEW outcome \in Endings \cup {"skipped"}, Finish(j, outcome)
      PROVE  TypeOK'
  <2>1. RunsType'
    BY <1>2 DEF Finish, RunsType
  <2>2. StoreType' /\ routing' \in SUBSET Jobs
    <3>1. CASE Holds(rec[Target], j) /\ ~Settled(rec[Target][j[1]])
      <4>1. Publish(j, StatusOf(j, outcome))
        BY <1>2, <3>1 DEF Finish
      <4>2. StatusOf(j, outcome) \in Reports
        BY <1>2, <3>1 DEF StatusOf, Reports, Terminal
      <4> QED BY <4>1, <4>2, PublishType DEF ContsType
    <3>2. CASE ~(Holds(rec[Target], j) /\ ~Settled(rec[Target][j[1]]))
      BY <1>2, <3>2, RoutesType DEF Finish, TypeOK, ContsType, StoreType
    <3> QED BY <3>1, <3>2
  <2>3. ContsType'
    BY <1>2, <2>2 DEF Finish, ContsType
  <2> QED BY <1>2, <2>1, <2>2, <2>3 DEF Finish
<1>3. ASSUME NEW s \in Claims, ReportTool(s)
      PROVE  TypeOK'
  <2>1. PICK n \in Attempts : Exists(rec[Target], n) /\ Publish(rec[Target][n].job, s)
    BY <1>3 DEF ReportTool, IsCurrent
  <2>2. rec[Target][n].job \in Jobs /\ s \in Reports
    BY <2>1, CurrentJob DEF TypeOK, Reports, Terminal
  <2>3. StoreType' /\ routing' \in SUBSET Jobs
    BY <2>1, <2>2, PublishType DEF ContsType
  <2>4. ContsType'
    BY <1>3, <2>3 DEF ReportTool, ContsType
  <2> QED BY <1>3, <2>3, <2>4 DEF ReportTool
<1>4. ASSUME NEW j \in Jobs, StopAtLimits(j) \/ StopTurn(j)
      PROVE  TypeOK'
  BY <1>4 DEF StopAtLimits, StopTurn, RunsType
<1> QED BY <1>1, <1>2, <1>3, <1>4 DEF TurnStep

LEMMA WithResultType ==
    ASSUME TypeOK, NEW j \in Jobs, NEW s \in {"pending", "started", "finished"}
    PROVE  WithResult(j, s) \in [Attempts -> Attempt]
<1>1. rec[Source] \in [Attempts -> Attempt] /\ j[1] \in Attempts
  BY HandoffConstants DEF TypeOK, Jobs
<1>2. [rec[Source][j[1]] EXCEPT !.result = s] \in Attempt
  BY <1>1 DEF Attempt
<1> QED BY <1>1, <1>2 DEF WithResult

LEMMA ContinuationType ==
    ASSUME TypeOK, NEW j \in Jobs, ContinuationStep(j)
    PROVE  TypeOK'
<1> USE TypeParts, Untouched, HandoffConstants
<1>1. CASE SpawnContinuation(j)
  BY <1>1 DEF SpawnContinuation, Spawned, ContsType
<1>2. CASE BeginContinuation(j)
  <2>1. StoreType'
    BY <1>2, WithResultType, SaveQuietlyType DEF BeginContinuation
  <2>2. ContsType'
    BY <1>2 DEF BeginContinuation, ContsType
  <2> QED BY <1>2, <2>1, <2>2 DEF BeginContinuation
<1>3. CASE FinishContinuation(j)
  <2>1. StoreType'
    BY <1>3, WithResultType, SaveQuietlyType DEF FinishContinuation
  <2>2. ContsType'
    BY <1>3 DEF FinishContinuation, ContsType
  <2> QED BY <1>3, <2>1, <2>2 DEF FinishContinuation
<1> QED BY <1>1, <1>2, <1>3 DEF ContinuationStep

LEMMA ClosedType ==
    ASSUME NEW d \in Devices, NEW r \in [Attempts -> Attempt]
    PROVE  Closed(d, r) \in [Attempts -> Attempt]
<1>1. \A n \in Attempts : [r[n] EXCEPT !.result = "finished"] \in Attempt
  BY DEF Attempt
<1> QED BY <1>1 DEF Closed

LEMMA RestartType ==
    ASSUME TypeOK, NEW d \in Devices, Restart(d)
    PROVE  TypeOK'
<1> USE TypeParts, Untouched, HandoffConstants
<1>1. StoreType'
  <2>1. CASE Recovered(d, rec[d]) # {}
    <3>1. PICK n \in Recovered(d, rec[d]) :
             Save(d, Closed(d, Merged(rec[d], ReportItem(rec[d][n].job, "failed"))),
                  ReportItem(rec[d][n].job, "failed"), <<>>)
      BY <2>1 DEF Restart
    <3> DEFINE u == ReportItem(rec[d][n].job, "failed")
    <3>2. n \in Attempts /\ Exists(rec[d], n)
      BY DEF Recovered, IsCurrent
    <3>3. rec[d][n].job \in Jobs
      BY <3>2, CurrentJob DEF TypeOK
    <3>4. u \in Items /\ <<>> \in Seq(Items)
      BY <3>3, ItemType DEF Reports, Terminal
    <3>5. Closed(d, Merged(rec[d], u)) \in [Attempts -> Attempt]
      BY <3>4, MergedType, ClosedType DEF TypeOK
    <3> HIDE DEF u
    <3> QED BY <3>1, <3>4, <3>5, SaveType DEF u
  <2>2. CASE Recovered(d, rec[d]) = {}
    <3>1. Closed(d, rec[d]) \in [Attempts -> Attempt]
      BY ClosedType DEF TypeOK
    <3> QED BY <2>2, <3>1, SaveQuietlyType DEF Restart
  <2> QED BY <2>1, <2>2
<1>2. ContsType'
  <2>1. Routes(d, rec'[d]) \in SUBSET Jobs
    BY <1>1, RoutesType DEF StoreType
  <2> QED BY <2>1 DEF Restart, ContsType
<1>3. RunsType' /\ EnvsType' /\ RelayType'
  BY DEF Restart, RunsType, EnvsType, RelayType
<1>4. CtlType'
  BY DEF Restart, CtlType
<1> QED BY <1>1, <1>2, <1>3, <1>4

LEMMA TypeStep == TypeOK /\ [Next]_vars => TypeOK'
<1> SUFFICES ASSUME TypeOK, [Next]_vars PROVE TypeOK'
  OBVIOUS
<1>1. CASE MoveBot
  BY <1>1, TypeParts, Untouched DEF MoveBot, CtlType
<1>2. CASE UNCHANGED vars
  BY <1>2, TypeParts, Untouched DEF vars
<1> QED
  BY <1>1, <1>2, AdmissionType, CancelType, ApplyType, TransportType, TurnType,
     ContinuationType, RestartType DEF Next, SyncStep, UserStep

LEMMA TypeInit == Init => TypeOK
<1>1. Blank(NoJob) \in Attempt
  BY DEF Blank, Attempt, Reports
<1> QED BY <1>1, HandoffConstants DEF Init, TypeOK

\* Every reachable state keeps the types of the tables, the outboxes, the
\* relay's blobs, the turns and the admissions, for any number of Devices,
\* attempts and restarts.
THEOREM TypeCorrect == Spec => []TypeOK
BY TypeInit, TypeStep, PTL DEF Spec

-----------------------------------------------------------------------------
(* The inductive invariant.  What the copies of a record say agrees because *)
(* what is under way to them is already true where it was said: a terminal  *)
(* report at Target, a cancellation at Source.                              *)

\* An attempt is kept at its number, and nothing is said of an absent one.
WellKept(r) ==
    \A n \in Attempts :
        /\ Exists(r, n) => r[n].job[1] = n
        /\ ~Exists(r, n) => r[n].report = "none" /\ ~r[n].cancelled

Truthful(u) ==
    /\ u.kind = "report" =>
          /\ u.status # "none"
          /\ u.status \in Terminal =>
                /\ rec[Target][u.job[1]].job = u.job
                /\ rec[Target][u.job[1]].report = u.status
    /\ u.kind = "cancel" =>
          /\ rec[Source][u.job[1]].job = u.job
          /\ rec[Source][u.job[1]].cancelled

InFlight(u) ==
    \E d \in Devices :
        \/ \E i \in DOMAIN outbox[d] : outbox[d][i] = u
        \/ \E i \in DOMAIN inbox[d] : inbox[d][i] = u

RanIsReported ==
    \A j \in ran : Holds(rec[Target], j) /\ rec[Target][j[1]].report # "none"

RecordInv ==
    /\ \A d \in Devices : WellKept(rec[d])
    /\ ReportsAgree
    /\ CancellationsAgree
    /\ RanIsReported

IInv ==
    /\ TypeOK
    /\ RecordInv
    /\ \A u \in Items : InFlight(u) => Truthful(u)

\* What no save of a Device undoes in its copy of the record.
Grows(r, s) ==
    \A n \in Attempts :
        /\ Exists(r, n) => s[n].job = r[n].job
        /\ r[n].report \in Terminal => s[n].report = r[n].report
        /\ r[n].report # "none" => s[n].report # "none"
        /\ r[n].cancelled => s[n].cancelled

\* Where a report and a cancellation in s that r has not come from.
Said(r, s, u) ==
    \A n \in Attempts :
        /\ s[n].report \in Terminal =>
              \/ s[n].report = r[n].report
              \/ u.kind = "report" /\ n = u.job[1] /\ s[n].report = u.status
        /\ s[n].cancelled => r[n].cancelled \/ (u.kind = "cancel" /\ n = u.job[1])

LEMMA MergedFields ==
    ASSUME NEW r \in [Attempts -> Attempt], NEW u \in Items
    PROVE  LET n == u.job[1]
               a == IF Exists(r, n) THEN r[n] ELSE Blank(u.job)
               s == Merged(r, u)
           IN  /\ n \in Attempts
               /\ \A m \in Attempts : m # n => s[m] = r[m]
               /\ s[n].job = a.job
               /\ s[n].report = IF u.kind = "report" /\ a.report \notin Terminal
                                THEN u.status ELSE a.report
               /\ s[n].cancelled = (a.cancelled \/ u.kind = "cancel")
<1> DEFINE n == u.job[1]
           a == IF Exists(r, n) THEN r[n] ELSE Blank(u.job)
           report == IF u.kind = "report" /\ a.report \notin Terminal THEN u.status ELSE a.report
           cancelled == a.cancelled \/ u.kind = "cancel"
           b == [a EXCEPT !.report = report, !.cancelled = cancelled]
<1>1. u.job \in Jobs /\ n \in Attempts /\ u.status \in Reports
  BY DEF Items, Jobs
<1>2. a \in Attempt
  BY <1>1 DEF Exists, Blank, Attempt, Reports
<1>3. b.job = a.job /\ b.report = report /\ b.cancelled = cancelled
  <2> HIDE DEF a, report, cancelled
  <2> QED BY <1>2 DEF Attempt
<1>4. Merged(r, u) = [r EXCEPT ![n] = b]
  BY DEF Merged
<1> HIDE DEF b
<1>5. Merged(r, u)[n] = b /\ \A m \in Attempts : m # n => Merged(r, u)[m] = r[m]
  BY <1>1, <1>4
<1> QED BY <1>1, <1>3, <1>5

\* Merging, whatever the update: an attempt keeps its request, its terminal
\* report and its cancellation, and says nothing new but what the update says.
LEMMA MergedGrows ==
    ASSUME NEW r \in [Attempts -> Attempt], WellKept(r),
           NEW u \in Items, u.kind = "report" => u.status # "none"
    PROVE  /\ WellKept(Merged(r, u))
           /\ Grows(r, Merged(r, u))
           /\ Said(r, Merged(r, u), u)
           /\ Exists(Merged(r, u), u.job[1])
           /\ Mergeable(r, u) => Merged(r, u)[u.job[1]].job = u.job
<1> DEFINE n == u.job[1]
           a == IF Exists(r, n) THEN r[n] ELSE Blank(u.job)
           s == Merged(r, u)
<1>1. /\ n \in Attempts
      /\ \A m \in Attempts : m # n => s[m] = r[m]
      /\ s[n].job = a.job
      /\ s[n].report = IF u.kind = "report" /\ a.report \notin Terminal THEN u.status ELSE a.report
      /\ s[n].cancelled = (a.cancelled \/ u.kind = "cancel")
  BY MergedFields
<1>2. u.job \in Jobs /\ u.job # NoJob /\ u.job[1] = n
  BY DEF Items, Jobs, Attempts, NoJob
<1>3. /\ Exists(r, n) => a = r[n]
      /\ ~Exists(r, n) => a.job = u.job /\ a.report = "none" /\ ~a.cancelled
  BY DEF Blank
<1> HIDE DEF a, s
<1>4. Exists(s, n) /\ s[n].job[1] = n
  BY <1>1, <1>2, <1>3 DEF WellKept, Exists
<1>5. WellKept(s)
  BY <1>1, <1>4 DEF WellKept, Exists
<1>6. Grows(r, s)
  BY <1>1, <1>3 DEF WellKept, Grows, Exists
<1>7. Said(r, s, u)
  <2> SUFFICES ASSUME NEW m \in Attempts
               PROVE  /\ s[m].report \in Terminal =>
                            \/ s[m].report = r[m].report
                            \/ u.kind = "report" /\ m = n /\ s[m].report = u.status
                      /\ s[m].cancelled => r[m].cancelled \/ (u.kind = "cancel" /\ m = n)
    BY DEF Said
  <2>1. CASE m # n
    BY <1>1, <2>1
  <2>2. CASE m = n
    <3>1. "none" \notin Terminal
      BY DEF Terminal
    <3>2. s[n].report \in Terminal =>
             s[n].report = r[n].report \/ (u.kind = "report" /\ s[n].report = u.status)
      BY <1>1, <1>3, <3>1
    <3>3. s[n].cancelled => r[n].cancelled \/ u.kind = "cancel"
      BY <1>1, <1>3
    <3> QED BY <2>2, <3>2, <3>3
  <2> QED BY <2>1, <2>2
<1>8. Mergeable(r, u) => s[n].job = u.job
  BY <1>1, <1>3 DEF Mergeable, Exists
<1> QED BY <1>4, <1>5, <1>6, <1>7, <1>8 DEF s

\* What Device d saves of an update is true already, or said by d itself.
Founded(d, s, u) ==
    /\ u.kind = "report" => d = Target \/ (Truthful(u) /\ s[u.job[1]].job = u.job)
    /\ u.kind = "cancel" =>
          \/ d = Source /\ ~Settled(rec[d][u.job[1]])
          \/ Truthful(u) /\ s[u.job[1]].job = u.job

LEMMA RecordStep ==
    ASSUME TypeOK, RecordInv,
           NEW d \in Devices, NEW s \in [Attempts -> Attempt], NEW u,
           rec' = [rec EXCEPT ![d] = s],
           WellKept(s), Grows(rec[d], s), Said(rec[d], s, u), Founded(d, s, u)
    PROVE  /\ \A e \in Devices : WellKept(rec'[e])
           /\ ReportsAgree' /\ CancellationsAgree'
           /\ \A j \in ran : Holds(rec'[Target], j) /\ rec'[Target][j[1]].report # "none"
           /\ \A v \in Items : Truthful(v) => Truthful(v)'
<1> USE HandoffConstants
<1>1. /\ rec'[d] = s
      /\ \A e \in Devices : e # d => rec'[e] = rec[e]
  BY DEF TypeOK
<1>2. \A e \in Devices : WellKept(rec'[e])
  BY <1>1 DEF RecordInv
<1>3. \A e \in Devices : Grows(rec[e], rec'[e])
  BY <1>1 DEF Grows
<1>4. \A e \in Devices, n \in Attempts :
         rec[e][n].report \in Terminal \/ rec[e][n].cancelled => Exists(rec[e], n)
  BY DEF RecordInv, WellKept, Terminal
<1>5. ReportsAgree'
  <2> SUFFICES ASSUME NEW e \in Devices, NEW n \in Attempts, rec'[e][n].report \in Terminal
               PROVE  /\ rec'[Target][n].job = rec'[e][n].job
                      /\ rec'[Target][n].report = rec'[e][n].report
    BY DEF ReportsAgree
  <2>1. CASE rec[e][n].report = rec'[e][n].report
    <3>1. /\ rec[Target][n].job = rec[e][n].job
          /\ rec[Target][n].report = rec[e][n].report
      BY <2>1 DEF RecordInv, ReportsAgree
    <3>2. Exists(rec[e], n) /\ Exists(rec[Target], n)
      BY <1>4, <2>1, <3>1
    <3> QED BY <1>3, <2>1, <3>1, <3>2 DEF Grows
  <2>2. CASE rec[e][n].report # rec'[e][n].report
    <3>1. e = d
      BY <1>1, <2>2
    <3>2. u.kind = "report" /\ n = u.job[1] /\ s[n].report = u.status
      BY <1>1, <2>2, <3>1 DEF Said
    <3>3. CASE d = Target
      BY <3>1, <3>3
    <3>4. CASE d # Target
      <4>1. Truthful(u) /\ s[n].job = u.job
        BY <3>2, <3>4 DEF Founded
      <4>2. rec[Target][n].job = u.job /\ rec[Target][n].report = u.status
        BY <1>1, <3>1, <3>2, <4>1 DEF Truthful
      <4> QED BY <1>1, <3>1, <3>2, <3>4, <4>1, <4>2
    <3> QED BY <3>3, <3>4
  <2> QED BY <2>1, <2>2
<1>6. CancellationsAgree'
  <2> SUFFICES ASSUME NEW e \in Devices, NEW n \in Attempts, rec'[e][n].cancelled
               PROVE  rec'[Source][n].cancelled /\ rec'[Source][n].job = rec'[e][n].job
    BY DEF CancellationsAgree
  <2>1. CASE rec[e][n].cancelled
    <3>1. rec[Source][n].cancelled /\ rec[Source][n].job = rec[e][n].job
      BY <2>1 DEF RecordInv, CancellationsAgree
    <3>2. Exists(rec[e], n) /\ Exists(rec[Source], n)
      BY <1>4, <2>1, <3>1
    <3> QED BY <1>3, <3>1, <3>2 DEF Grows
  <2>2. CASE ~rec[e][n].cancelled
    <3>1. e = d
      BY <1>1, <2>2
    <3>2. u.kind = "cancel" /\ n = u.job[1]
      BY <1>1, <2>2, <3>1 DEF Said
    <3>3. CASE d = Source
      BY <3>1, <3>3
    <3>4. CASE d # Source
      <4>1. Truthful(u) /\ s[n].job = u.job
        BY <3>2, <3>4 DEF Founded
      <4>2. rec[Source][n].job = u.job /\ rec[Source][n].cancelled
        BY <3>2, <4>1 DEF Truthful
      <4> QED BY <1>1, <3>1, <3>4, <4>1, <4>2
    <3> QED BY <3>3, <3>4
  <2> QED BY <2>1, <2>2
<1>7. \A j \in ran : Holds(rec'[Target], j) /\ rec'[Target][j[1]].report # "none"
  <2> SUFFICES ASSUME NEW j \in ran
               PROVE  Holds(rec'[Target], j) /\ rec'[Target][j[1]].report # "none"
    OBVIOUS
  <2>1. Holds(rec[Target], j) /\ rec[Target][j[1]].report # "none"
    BY DEF RecordInv, RanIsReported
  <2>2. j[1] \in Attempts /\ j # NoJob
    BY JobNumber DEF TypeOK
  <2>3. Exists(rec[Target], j[1])
    BY <2>1, <2>2 DEF Holds, Exists
  <2> QED BY <1>3, <2>1, <2>2, <2>3 DEF Grows, Holds
<1>8. \A v \in Items : Truthful(v) => Truthful(v)'
  <2> SUFFICES ASSUME NEW v \in Items, Truthful(v)
               PROVE  Truthful(v)'
    OBVIOUS
  <2> DEFINE n == v.job[1]
  <2>1. n \in Attempts
    BY DEF Items, Jobs
  <2>2. ASSUME v.kind = "report", v.status \in Terminal
        PROVE  rec'[Target][n].job = v.job /\ rec'[Target][n].report = v.status
    <3>1. rec[Target][n].job = v.job /\ rec[Target][n].report = v.status
      BY <2>2 DEF Truthful
    <3> QED BY <1>3, <1>4, <2>1, <2>2, <3>1 DEF Grows
  <2>3. ASSUME v.kind = "cancel"
        PROVE  rec'[Source][n].job = v.job /\ rec'[Source][n].cancelled
    <3>1. rec[Source][n].job = v.job /\ rec[Source][n].cancelled
      BY <2>3 DEF Truthful
    <3> QED BY <1>3, <1>4, <2>1, <3>1 DEF Grows
  <2> QED BY <2>2, <2>3 DEF Truthful
<1> QED BY <1>2, <1>5, <1>6, <1>7, <1>8

-----------------------------------------------------------------------------
(* What a step puts under way.                                             *)

LEMMA SaveItems ==
    ASSUME TypeOK, NEW d \in Devices, NEW s, NEW u \in Items, NEW e \in Seq(Items),
           Save(d, s, u, e), inbox' = inbox,
           NEW v, InFlight(v)'
    PROVE  InFlight(v) \/ v = u \/ \E i \in DOMAIN e : e[i] = v
<1> DEFINE q == Queued(outbox[d], u)
<1>1. outbox[d] \in Seq(Items) /\ q \in Seq(Items)
  BY QueuedType DEF TypeOK
<1>2. outbox' = [outbox EXCEPT ![d] = q \o e]
  BY DEF Save
<1>3. CASE \E c \in Devices : \E i \in DOMAIN inbox'[c] : inbox'[c][i] = v
  BY <1>3 DEF InFlight
<1>4. ASSUME NEW c \in Devices, c # d, NEW i \in DOMAIN outbox'[c], outbox'[c][i] = v
      PROVE  InFlight(v)
  BY <1>2, <1>4 DEF InFlight, TypeOK
<1>5. ASSUME NEW i \in DOMAIN outbox'[d], outbox'[d][i] = v
      PROVE  InFlight(v) \/ v = u \/ \E k \in DOMAIN e : e[k] = v
  <2>1. outbox'[d] = q \o e
    BY <1>2 DEF TypeOK
  <2> HIDE DEF q
  <2>2. (\E k \in DOMAIN q : q[k] = v) \/ (\E k \in DOMAIN e : e[k] = v)
    BY <1>1, <1>5, <2>1, ConcatProperties, LenProperties
  <2>3. ASSUME NEW k \in DOMAIN q, q[k] = v
        PROVE  InFlight(v) \/ v = u
    BY <1>1, <2>3, QueuedRange DEF q, InFlight
  <2> QED BY <2>2, <2>3
<1> QED BY <1>3, <1>4, <1>5 DEF InFlight

LEMMA ApplyingItems ==
    ASSUME TypeOK, NEW d \in Devices, Applying(d), outbox' = outbox,
           NEW v, InFlight(v)'
    PROVE  InFlight(v)
<1>1. CASE d \in Restarting
  BY <1>1 DEF Applying, InFlight
<1>2. CASE d \notin Restarting
  <2>1. inbox[d] \in Seq(Items) /\ inbox[d] # <<>>
    BY LenProperties, EmptySeq DEF Applying, TypeOK
  <2>2. \A i \in DOMAIN Tail(inbox[d]) : i + 1 \in DOMAIN inbox[d] /\ Tail(inbox[d])[i] = inbox[d][i + 1]
    BY <2>1, HeadTailProperties, LenProperties
  <2>3. inbox' = [inbox EXCEPT ![d] = Tail(inbox[d])]
    BY <1>2 DEF Applying
  <2> QED BY <2>2, <2>3 DEF InFlight, TypeOK
<1> QED BY <1>1, <1>2

LEMMA TransportItems ==
    ASSUME TypeOK, NEW d \in Devices, Drain(d, TRUE) \/ Drain(d, FALSE) \/ SavePage(d),
           NEW v, InFlight(v)'
    PROVE  InFlight(v)
<1>1. ASSUME NEW answered \in BOOLEAN, Drain(d, answered)
      PROVE  InFlight(v)
  <2> DEFINE item == Head(outbox[d])
  <2>1. outbox[d] \in Seq(Items) /\ outbox[d] # <<>>
    BY <1>1 DEF Drain, TypeOK
  <2>2. /\ item \in Items
        /\ 1 \in DOMAIN outbox[d] /\ outbox[d][1] = item
        /\ \A i \in DOMAIN Tail(outbox[d]) :
              i + 1 \in DOMAIN outbox[d] /\ Tail(outbox[d])[i] = outbox[d][i + 1]
    BY <2>1, HeadTailProperties, LenProperties
  <2>3. outbox' = [outbox EXCEPT ![d] = IF answered THEN Tail(outbox[d]) ELSE outbox[d]]
    BY <1>1 DEF Drain
  <2>4. \A c \in Devices : \A i \in DOMAIN outbox'[c] :
             \E k \in DOMAIN outbox[c] : outbox'[c][i] = outbox[c][k]
    BY <2>2, <2>3 DEF TypeOK
  <2> HIDE DEF item
  <2>5. \A c \in Devices : \A i \in DOMAIN inbox'[c] :
           inbox'[c][i] = item \/ \E k \in DOMAIN inbox[c] : inbox'[c][i] = inbox[c][k]
    <3>1. CASE UNCHANGED relay
      BY <3>1 DEF relay
    <3>2. CASE Upload(item)
      <4> SUFFICES ASSUME NEW c \in Devices, NEW i \in DOMAIN inbox'[c]
                   PROVE  inbox'[c][i] = item \/ \E k \in DOMAIN inbox[c] : inbox'[c][i] = inbox[c][k]
        OBVIOUS
      <4>1. inbox'[c] = Stored(inbox[c], item) \/ inbox'[c] = inbox[c]
        BY <3>2 DEF Upload
      <4>2. inbox[c] \in Seq(Items)
        BY DEF TypeOK
      <4>3. CASE inbox'[c] = Stored(inbox[c], item)
        BY <2>2, <4>2, <4>3, StoredType
      <4> QED BY <4>1, <4>3
    <3> QED BY <1>1, <3>1, <3>2 DEF Drain, item
  <2> QED BY <2>2, <2>4, <2>5 DEF InFlight
<1>2. CASE SavePage(d)
  <2>1. /\ inbox[d] \in Seq(Items) /\ read[d] \in Nat
        /\ inbox' = [inbox EXCEPT ![d] = SubSeq(inbox[d], read[d] + 1, Len(inbox[d]))]
    BY <1>2 DEF SavePage, TypeOK
  <2>2. \A i \in DOMAIN SubSeq(inbox[d], read[d] + 1, Len(inbox[d])) :
           /\ read[d] + i \in DOMAIN inbox[d]
           /\ SubSeq(inbox[d], read[d] + 1, Len(inbox[d]))[i] = inbox[d][read[d] + i]
    BY <2>1
  <2> QED BY <1>2, <2>1, <2>2 DEF SavePage, store, InFlight, TypeOK
<1> QED BY <1>1, <1>2

-----------------------------------------------------------------------------
(* The invariant is inductive.                                             *)

\* A step on Source's copy undoes nothing, and cancels no attempt that ended.
SourceKept ==
    /\ Grows(rec[Source], rec'[Source])
    /\ \A n \in Attempts :
          Settled(rec[Source][n]) /\ rec'[Source][n].cancelled => rec[Source][n].cancelled

\* A step that saves no record.
LEMMA NothingSaved ==
    ASSUME IInv, TypeOK', rec' = rec, ran' = ran,
           \A v : InFlight(v)' => InFlight(v)
    PROVE  IInv' /\ SourceKept
<1>1. RecordInv'
  BY DEF IInv, RecordInv, ReportsAgree, CancellationsAgree, RanIsReported
<1>2. \A v \in Items : InFlight(v)' => Truthful(v)'
  BY DEF IInv, Truthful
<1>3. SourceKept
  BY DEF SourceKept, Grows
<1> QED BY <1>1, <1>2, <1>3 DEF IInv

LEMMA RecordSaved ==
    ASSUME IInv, TypeOK',
           NEW d \in Devices, NEW s \in [Attempts -> Attempt], NEW u,
           rec' = [rec EXCEPT ![d] = s],
           WellKept(s), Grows(rec[d], s), Said(rec[d], s, u), Founded(d, s, u),
           \A v \in Items : InFlight(v)' => InFlight(v) \/ Truthful(v)',
           \A j \in ran' \ ran : Holds(rec'[Target], j) /\ rec'[Target][j[1]].report # "none"
    PROVE  IInv' /\ SourceKept
<1>1. /\ \A e \in Devices : WellKept(rec'[e])
      /\ ReportsAgree' /\ CancellationsAgree'
      /\ \A j \in ran : Holds(rec'[Target], j) /\ rec'[Target][j[1]].report # "none"
      /\ \A v \in Items : Truthful(v) => Truthful(v)'
  BY RecordStep DEF IInv
<1>2. RecordInv'
  BY <1>1 DEF RecordInv, RanIsReported
<1>3. \A v \in Items : InFlight(v)' => Truthful(v)'
  BY <1>1 DEF IInv
<1>4. SourceKept
  <2>1. CASE d = Source
    <3>1. rec'[Source] = s
      BY <2>1 DEF IInv, TypeOK
    <3>2. ASSUME NEW n \in Attempts, Settled(rec[Source][n]), s[n].cancelled
          PROVE  rec[Source][n].cancelled
      <4>1. ASSUME ~rec[Source][n].cancelled PROVE u.kind = "cancel" /\ n = u.job[1]
        BY <2>1, <3>2, <4>1 DEF Said
      <4>2. u.kind = "cancel" /\ n = u.job[1] => rec[Source][n].cancelled
        BY <2>1, <3>2 DEF Founded, Truthful
      <4> QED BY <4>1, <4>2
    <3> QED BY <2>1, <3>1, <3>2 DEF SourceKept
  <2>2. CASE d # Source
    <3>1. rec'[Source] = rec[Source]
      BY <2>2, HandoffConstants DEF IInv, TypeOK
    <3> QED BY <3>1 DEF SourceKept, Grows
  <2> QED BY <2>1, <2>2
<1> QED BY <1>2, <1>3, <1>4 DEF IInv

\* A record saved with its update and envelopes, the turns that start aside.
LEMMA UpdateSaved ==
    ASSUME IInv, TypeOK',
           NEW d \in Devices, NEW s \in [Attempts -> Attempt],
           NEW u \in Items, NEW e \in Seq(Items), Save(d, s, u, e), inbox' = inbox,
           \A i \in DOMAIN e : e[i].kind \in Envelopes,
           WellKept(s), Grows(rec[d], s), Said(rec[d], s, u), Founded(d, s, u), Truthful(u)',
           \A j \in ran' \ ran : Holds(rec'[Target], j) /\ rec'[Target][j[1]].report # "none"
    PROVE  IInv' /\ SourceKept
<1>1. rec' = [rec EXCEPT ![d] = s]
  BY DEF Save
<1>2. \A v \in Items : InFlight(v)' => InFlight(v) \/ Truthful(v)'
  <2> SUFFICES ASSUME NEW v \in Items, InFlight(v)'
               PROVE  InFlight(v) \/ Truthful(v)'
    OBVIOUS
  <2>1. InFlight(v) \/ v = u \/ \E i \in DOMAIN e : e[i] = v
    BY SaveItems DEF IInv
  <2>2. ASSUME NEW i \in DOMAIN e, e[i] = v
        PROVE  Truthful(v)'
    BY <2>2 DEF Truthful, Envelopes
  <2>3. v = u => Truthful(v)'
    BY DEF Truthful
  <2> QED BY <2>1, <2>2, <2>3
<1> QED BY <1>1, <1>2, RecordSaved

\* An attempt's delivery mark changes and nothing else in it.
SameButResult(r, s) ==
    \A n \in Attempts :
        s[n].job = r[n].job /\ s[n].report = r[n].report /\ s[n].cancelled = r[n].cancelled

LEMMA SameKeeps ==
    ASSUME NEW q, NEW r, NEW s, NEW u, SameButResult(r, s)
    PROVE  /\ WellKept(r) => WellKept(s)
           /\ Grows(q, r) => Grows(q, s)
           /\ Said(q, r, u) => Said(q, s, u)
           /\ \A d : Founded(d, r, u) /\ u.job[1] \in Attempts => Founded(d, s, u)
<1>1. WellKept(r) => WellKept(s)
  BY DEF SameButResult, WellKept, Exists
<1>2. Grows(q, r) => Grows(q, s)
  BY DEF SameButResult, Grows
<1>3. Said(q, r, u) => Said(q, s, u)
  BY DEF SameButResult, Said
<1>4. \A d : Founded(d, r, u) /\ u.job[1] \in Attempts => Founded(d, s, u)
  BY DEF SameButResult, Founded
<1> QED BY <1>1, <1>2, <1>3, <1>4

LEMMA AdmittedInv ==
    ASSUME IInv, TypeOK', NEW d \in Devices, NEW j \in Jobs, Admitted(d, j),
           inbox' = inbox, ran' = ran
    PROVE  IInv' /\ SourceKept
<1> DEFINE u == Item("request", j)
           e == IF d = Target THEN <<>> ELSE <<Item("job", j)>>
           s == Merged(rec[d], u)
<1>1. u \in Items /\ Item("job", j) \in Items /\ u.kind = "request"
  BY ItemType DEF Updates, Envelopes, Item
<1>2. e \in Seq(Items) /\ \A i \in DOMAIN e : e[i].kind \in Envelopes
  BY <1>1 DEF Envelopes, Item
<1>3. rec[d] \in [Attempts -> Attempt] /\ WellKept(rec[d])
  BY DEF IInv, TypeOK, RecordInv
<1>4. Save(d, s, u, e)
  BY DEF Admitted
<1> HIDE DEF u, e
<1>5. /\ s \in [Attempts -> Attempt] /\ WellKept(s)
      /\ Grows(rec[d], s) /\ Said(rec[d], s, u)
  BY <1>1, <1>3, MergedType, MergedGrows
<1>6. Founded(d, s, u) /\ Truthful(u)'
  BY <1>1 DEF Founded, Truthful
<1> HIDE DEF s
<1> QED BY <1>1, <1>2, <1>4, <1>5, <1>6, UpdateSaved

LEMMA CancelInv ==
    ASSUME IInv, TypeOK', Cancel
    PROVE  IInv' /\ SourceKept
<1> USE HandoffConstants
<1>1. rec[Source] \in [Attempts -> Attempt] /\ WellKept(rec[Source])
  BY DEF IInv, TypeOK, RecordInv
<1>2. PICK n \in Attempts :
         /\ Exists(rec[Source], n) /\ ~Settled(rec[Source][n])
         /\ Save(Source, Merged(rec[Source], Item("cancel", rec[Source][n].job)),
                 Item("cancel", rec[Source][n].job),
                 IF Source = Target THEN <<>> ELSE <<Item("job_cancel", rec[Source][n].job)>>)
  BY DEF Cancel, IsCurrent
<1>3. PICK j \in Jobs : j = rec[Source][n].job
  BY <1>1, <1>2, CurrentJob
<1> DEFINE u == Item("cancel", j)
           e == IF Source = Target THEN <<>> ELSE <<Item("job_cancel", j)>>
           s == Merged(rec[Source], u)
<1>4. j[1] = n
  BY <1>1, <1>2, <1>3 DEF WellKept
<1>5. /\ Save(Source, s, u, e)
      /\ inbox' = inbox /\ ran' = ran
  BY <1>2, <1>3 DEF Cancel, relay, runs
<1>6. u \in Items /\ Item("job_cancel", j) \in Items /\ u.kind = "cancel" /\ u.job = j
  BY ItemType DEF Updates, Envelopes, Item
<1>7. e \in Seq(Items) /\ \A i \in DOMAIN e : e[i].kind \in Envelopes
  BY <1>6 DEF Envelopes, Item
<1> HIDE DEF u, e
<1>8. /\ s \in [Attempts -> Attempt] /\ WellKept(s)
      /\ Grows(rec[Source], s) /\ Said(rec[Source], s, u)
  BY <1>1, <1>6, MergedType, MergedGrows
<1>9. s[n].job = j /\ s[n].cancelled
  <2>1. s[n].cancelled = ((IF Exists(rec[Source], n) THEN rec[Source][n] ELSE Blank(u.job)).cancelled
                            \/ u.kind = "cancel")
    BY <1>1, <1>4, <1>6, MergedFields
  <2> QED BY <1>2, <1>3, <1>6, <1>8, <2>1 DEF Grows
<1> HIDE DEF s
<1>10. Founded(Source, s, u)
  BY <1>2, <1>4, <1>6 DEF Founded
<1>11. Truthful(u)'
  <2>1. rec'[Source] = s
    BY <1>5 DEF IInv, TypeOK, Save
  <2>2. rec'[Source][u.job[1]].job = u.job /\ rec'[Source][u.job[1]].cancelled
    BY <1>4, <1>6, <1>9, <2>1
  <2> QED BY <1>6, <2>2 DEF Truthful, u, Item
<1> QED BY <1>5, <1>6, <1>7, <1>8, <1>10, <1>11, UpdateSaved

LEMMA PublishInv ==
    ASSUME IInv, TypeOK', NEW j \in Jobs, NEW status \in Terminal, Publish(j, status),
           inbox' = inbox, ran' = ran
    PROVE  IInv' /\ SourceKept
<1> USE HandoffConstants
<1> DEFINE n == j[1]
           u == ReportItem(j, status)
           s == Merged(rec[Target], u)
<1>1. CASE Holds(rec[Target], j) /\ rec[Target][n].report \notin Terminal
  <2>1. /\ u \in Items /\ <<>> \in Seq(Items)
        /\ u.kind = "report" /\ u.job = j /\ u.status = status /\ status # "none"
    <3>1. status \in Reports /\ status # "none"
      BY DEF Reports, Terminal
    <3> QED BY <3>1, ItemType DEF ReportItem
  <2>2. rec[Target] \in [Attempts -> Attempt] /\ WellKept(rec[Target])
    BY DEF IInv, TypeOK, RecordInv
  <2>3. Save(Target, s, u, <<>>)
    BY <1>1 DEF Publish
  <2>4. Exists(rec[Target], n) /\ n \in Attempts
    BY <1>1, JobNumber DEF Holds, Exists
  <2> HIDE DEF u
  <2>5. /\ s \in [Attempts -> Attempt] /\ WellKept(s)
        /\ Grows(rec[Target], s) /\ Said(rec[Target], s, u)
    BY <2>1, <2>2, MergedType, MergedGrows
  <2>6. s[n].job = j /\ s[n].report = status
    BY <1>1, <2>1, <2>2, <2>4, MergedFields DEF Holds
  <2> HIDE DEF s
  <2>7. Founded(Target, s, u)
    BY <2>1 DEF Founded
  <2>8. Truthful(u)'
    <3>1. rec'[Target] = s
      BY <2>3 DEF IInv, TypeOK, Save
    <3> QED BY <2>1, <2>6, <3>1 DEF Truthful
  <2>9. \A i \in DOMAIN <<>> : (<<>>)[i].kind \in Envelopes
    OBVIOUS
  <2> QED BY <2>1, <2>3, <2>5, <2>7, <2>8, <2>9, UpdateSaved
<1>2. CASE ~(Holds(rec[Target], j) /\ rec[Target][n].report \notin Terminal)
  <2>1. rec' = rec /\ outbox' = outbox
    BY <1>2 DEF Publish, store
  <2> QED BY <2>1, NothingSaved DEF InFlight
<1> QED BY <1>1, <1>2

LEMMA BeginInv ==
    ASSUME IInv, TypeOK', NEW j \in Jobs, Begin(j)
    PROVE  IInv' /\ SourceKept
<1> USE HandoffConstants
<1> DEFINE n == j[1]
           u == ReportItem(j, "running")
           s == Merged(rec[Target], u)
<1>1. inbox' = inbox /\ ran' \subseteq ran \cup {j} /\ (~Claimable(j) => ran' = ran)
  BY DEF Begin, relay
<1>2. CASE Claimable(j)
  <2>1. /\ u \in Items /\ <<>> \in Seq(Items)
        /\ u.kind = "report" /\ u.job = j /\ u.status = "running"
    BY ItemType DEF Reports, ReportItem
  <2>2. rec[Target] \in [Attempts -> Attempt] /\ WellKept(rec[Target])
    BY DEF IInv, TypeOK, RecordInv
  <2>3. Save(Target, s, u, <<>>)
    BY <1>2 DEF Begin
  <2>4. Mergeable(rec[Target], u)
    BY <1>2, <2>1 DEF Claimable, Mergeable, Item
  <2>5. n \in Attempts
    BY JobNumber
  <2> HIDE DEF u
  <2>6. /\ s \in [Attempts -> Attempt] /\ WellKept(s)
        /\ Grows(rec[Target], s) /\ Said(rec[Target], s, u) /\ s[n].job = j
    BY <2>1, <2>2, <2>4, MergedType, MergedGrows
  <2>7. s[n].report # "none"
    BY <2>1, <2>2, <2>5, MergedFields DEF Terminal
  <2> HIDE DEF s
  <2>8. Founded(Target, s, u) /\ Truthful(u)'
    BY <2>1 DEF Founded, Truthful, Terminal
  <2>9. Holds(rec'[Target], j) /\ rec'[Target][n].report # "none"
    <3>1. rec'[Target] = s
      BY <2>3 DEF IInv, TypeOK, Save
    <3> QED BY <2>6, <2>7, <3>1 DEF Holds
  <2>10. \A i \in DOMAIN <<>> : (<<>>)[i].kind \in Envelopes
    OBVIOUS
  <2>11. \A i \in ran' \ ran : Holds(rec'[Target], i) /\ rec'[Target][i[1]].report # "none"
    BY <1>1, <2>9
  <2> QED BY <1>1, <2>1, <2>3, <2>6, <2>8, <2>10, <2>11, UpdateSaved
<1>3. CASE ~Claimable(j)
  <2>1. rec' = rec /\ outbox' = outbox
    BY <1>3 DEF Begin, store
  <2> QED BY <1>1, <1>3, <2>1, NothingSaved DEF InFlight
<1> QED BY <1>2, <1>3

LEMMA MergedQuietlyInv ==
    ASSUME IInv, TypeOK', NEW d \in Devices, NEW u \in Items,
           Truthful(u), Mergeable(rec[d], u), SaveQuietly(d, Merged(rec[d], u)),
           \A v : InFlight(v)' => InFlight(v), ran' = ran
    PROVE  IInv' /\ SourceKept
<1> DEFINE s == Merged(rec[d], u)
<1>1. rec[d] \in [Attempts -> Attempt] /\ WellKept(rec[d])
  BY DEF IInv, TypeOK, RecordInv
<1>2. u.kind = "report" => u.status # "none"
  BY DEF Truthful
<1>3. /\ s \in [Attempts -> Attempt] /\ WellKept(s)
      /\ Grows(rec[d], s) /\ Said(rec[d], s, u) /\ s[u.job[1]].job = u.job
  BY <1>1, <1>2, MergedType, MergedGrows
<1>4. rec' = [rec EXCEPT ![d] = s]
  BY DEF SaveQuietly
<1> HIDE DEF s
<1>5. Founded(d, s, u)
  BY <1>3 DEF Founded
<1> QED BY <1>3, <1>4, <1>5, RecordSaved

LEMMA ApplyInv ==
    ASSUME IInv, TypeOK', OpenJob \/ OpenCancel \/ Expire \/ StageJob \/ \E d \in Devices : ApplyUpdate(d)
    PROVE  IInv' /\ SourceKept
<1> USE HandoffConstants
<1>1. CASE OpenJob \/ OpenCancel \/ Expire
  <2>1. rec' = rec /\ outbox' = outbox /\ ran' = ran /\ Applying(Target)
    BY <1>1 DEF OpenJob, OpenCancel, Expire, Applying, store
  <2>2. \A v : InFlight(v)' => InFlight(v)
    BY <2>1, ApplyingItems DEF IInv
  <2> QED BY <2>1, <2>2, NothingSaved
<1>2. CASE StageJob
  <2>1. outbox' = outbox /\ inbox' = inbox /\ ran' = ran
    BY <1>2 DEF StageJob, relay, store, SaveQuietly
  <2>2. \A v : InFlight(v)' => InFlight(v)
    BY <2>1 DEF InFlight
  <2>3. PICK j \in Jobs : j = opening
    BY <1>2 DEF StageJob, IInv, TypeOK
  <2> DEFINE u == Item("request", j)
  <2>4. u \in Items /\ Truthful(u)
    BY ItemType DEF Updates, Item, Truthful
  <2>5. CASE Mergeable(rec[Target], u)
    <3>1. SaveQuietly(Target, Merged(rec[Target], u))
      BY <1>2, <2>3, <2>5 DEF StageJob
    <3> HIDE DEF u
    <3> QED BY <2>1, <2>2, <2>4, <2>5, <3>1, MergedQuietlyInv
  <2>6. CASE ~Mergeable(rec[Target], u)
    <3>1. rec' = rec
      BY <1>2, <2>3, <2>6 DEF StageJob, store
    <3> QED BY <2>1, <2>2, <3>1, NothingSaved
  <2> QED BY <2>5, <2>6
<1>3. ASSUME NEW d \in Devices, ApplyUpdate(d)
      PROVE  IInv' /\ SourceKept
  <2>1. Applying(d) /\ outbox' = outbox /\ ran' = ran
    BY <1>3 DEF ApplyUpdate, Applying, SaveQuietly, store
  <2>2. \A v : InFlight(v)' => InFlight(v)
    BY <2>1, ApplyingItems DEF IInv
  <2>3. Next1(d) \in Items
    BY <2>1, ApplyingType DEF IInv
  <2>4. PICK u \in Items : u = Next1(d)
    BY <2>3
  <2>5. Truthful(u)
    <3>1. read[d] + 1 \in DOMAIN inbox[d]
      BY <2>1, ApplyingType DEF IInv
    <3>2. InFlight(u)
      BY <2>4, <3>1 DEF InFlight, Next1
    <3> QED BY <3>2 DEF IInv
  <2>6. CASE Mergeable(rec[d], u)
    <3>1. SaveQuietly(d, Merged(rec[d], u))
      BY <1>3, <2>4, <2>6 DEF ApplyUpdate
    <3> QED BY <2>1, <2>2, <2>5, <2>6, <3>1, MergedQuietlyInv
  <2>7. CASE ~Mergeable(rec[d], u)
    <3>1. rec' = rec
      BY <1>3, <2>4, <2>7 DEF ApplyUpdate, store
    <3> QED BY <2>1, <2>2, <3>1, NothingSaved
  <2> QED BY <2>6, <2>7
<1> QED BY <1>1, <1>2, <1>3

\* A saved record whose attempts differ in their delivery mark only.
LEMMA ResultInv ==
    ASSUME IInv, TypeOK', NEW d \in Devices, NEW s \in [Attempts -> Attempt],
           SameButResult(rec[d], s), SaveQuietly(d, s), inbox' = inbox, ran' = ran
    PROVE  IInv' /\ SourceKept
<1> DEFINE u == Item("request", NoJob)
<1>1. WellKept(rec[d]) /\ Grows(rec[d], rec[d]) /\ Said(rec[d], rec[d], u)
  BY DEF IInv, RecordInv, Grows, Said
<1>2. u.kind = "request"
  BY DEF Item
<1> HIDE DEF u
<1>3. WellKept(s) /\ Grows(rec[d], s) /\ Said(rec[d], s, u)
  BY <1>1, SameKeeps
<1>4. Founded(d, s, u)
  BY <1>2 DEF Founded
<1>5. rec' = [rec EXCEPT ![d] = s] /\ \A v : InFlight(v)' => InFlight(v)
  BY DEF SaveQuietly, InFlight
<1> QED BY <1>3, <1>4, <1>5, RecordSaved

LEMMA ContinuationInv ==
    ASSUME IInv, TypeOK', NEW j \in Jobs, ContinuationStep(j)
    PROVE  IInv' /\ SourceKept
<1> USE HandoffConstants
<1>1. inbox' = inbox /\ ran' = ran
  BY DEF ContinuationStep, SpawnContinuation, BeginContinuation, FinishContinuation, relay, runs
<1>2. ASSUME NEW m \in {"pending", "started", "finished"}, SaveQuietly(Source, WithResult(j, m))
      PROVE  IInv' /\ SourceKept
  <2>1. WithResult(j, m) \in [Attempts -> Attempt]
    BY WithResultType DEF IInv
  <2>2. SameButResult(rec[Source], WithResult(j, m))
    <3>1. rec[Source] \in [Attempts -> Attempt] /\ j[1] \in Attempts
      BY JobNumber DEF IInv, TypeOK
    <3> QED BY <3>1 DEF WithResult, SameButResult, Attempt
  <2> QED BY <1>1, <1>2, <2>1, <2>2, ResultInv
<1>3. CASE UNCHANGED store
  BY <1>1, <1>3, NothingSaved DEF store, InFlight
<1> QED BY <1>2, <1>3 DEF ContinuationStep, SpawnContinuation, BeginContinuation, FinishContinuation

LEMMA ClosedSame ==
    ASSUME NEW d, NEW r \in [Attempts -> Attempt]
    PROVE  SameButResult(r, Closed(d, r))
<1>1. \A n \in Attempts :
         LET a == [r[n] EXCEPT !.result = "finished"] IN
         a.job = r[n].job /\ a.report = r[n].report /\ a.cancelled = r[n].cancelled
  BY DEF Attempt
<1> QED BY <1>1 DEF SameButResult, Closed

LEMMA RestartInv ==
    ASSUME IInv, TypeOK', NEW d \in Devices, Restart(d)
    PROVE  IInv' /\ SourceKept
<1> USE HandoffConstants
<1>1. inbox' = inbox /\ ran' = ran
  BY DEF Restart
<1>2. rec[d] \in [Attempts -> Attempt] /\ WellKept(rec[d])
  BY DEF IInv, TypeOK, RecordInv
<1>3. CASE Recovered(d, rec[d]) # {}
  <2>1. PICK n \in Recovered(d, rec[d]) :
           Save(d, Closed(d, Merged(rec[d], ReportItem(rec[d][n].job, "failed"))),
                ReportItem(rec[d][n].job, "failed"), <<>>)
    BY <1>3 DEF Restart
  <2>2. n \in Attempts /\ d = Target /\ Exists(rec[d], n) /\ rec[d][n].report \notin Terminal
    BY DEF Recovered, IsCurrent, Outcome, Terminal
  <2>3. PICK j \in Jobs : j = rec[d][n].job
    BY <1>2, <2>2, CurrentJob
  <2> DEFINE u == ReportItem(j, "failed")
             m == Merged(rec[d], u)
             s == Closed(d, m)
  <2>4. j[1] = n
    BY <1>2, <2>2, <2>3 DEF WellKept
  <2>5. u \in Items /\ u.kind = "report" /\ u.job = j /\ u.status = "failed"
    BY ItemType DEF ReportItem, Reports, Terminal
  <2>6. Save(d, s, u, <<>>)
    BY <2>1, <2>3
  <2> HIDE DEF u
  <2>7. m \in [Attempts -> Attempt] /\ WellKept(m) /\ Grows(rec[d], m) /\ Said(rec[d], m, u)
    BY <1>2, <2>5, MergedType, MergedGrows
  <2>8. m[n].job = j /\ m[n].report = "failed"
    <3>1. m[n].report = "failed"
      BY <1>2, <2>2, <2>4, <2>5, MergedFields
    <3> QED BY <2>2, <2>3, <2>7, <3>1 DEF Grows
  <2> HIDE DEF m
  <2>9. s \in [Attempts -> Attempt] /\ SameButResult(m, s)
    BY <2>7, ClosedType, ClosedSame
  <2> HIDE DEF s
  <2>10. WellKept(s) /\ Grows(rec[d], s) /\ Said(rec[d], s, u)
    BY <2>7, <2>9, SameKeeps
  <2>11. s[n].job = j /\ s[n].report = "failed"
    BY <2>2, <2>8, <2>9 DEF SameButResult
  <2>12. Founded(d, s, u)
    BY <2>2, <2>5 DEF Founded
  <2>13. Truthful(u)'
    <3>1. rec'[Target] = s
      BY <2>2, <2>6 DEF IInv, TypeOK, Save
    <3>2. rec'[Target][u.job[1]].job = u.job /\ rec'[Target][u.job[1]].report = u.status
      BY <2>4, <2>5, <2>11, <3>1
    <3> QED BY <2>5, <3>2 DEF Truthful
  <2>14. <<>> \in Seq(Items) /\ \A i \in DOMAIN <<>> : (<<>>)[i].kind \in Envelopes
    OBVIOUS
  <2> QED BY <1>1, <2>5, <2>6, <2>9, <2>10, <2>12, <2>13, <2>14, UpdateSaved
<1>4. CASE Recovered(d, rec[d]) = {}
  <2>1. SaveQuietly(d, Closed(d, rec[d]))
    BY <1>4 DEF Restart
  <2>2. Closed(d, rec[d]) \in [Attempts -> Attempt] /\ SameButResult(rec[d], Closed(d, rec[d]))
    BY <1>2, ClosedType, ClosedSame
  <2> QED BY <1>1, <2>1, <2>2, ResultInv
<1> QED BY <1>3, <1>4

LEMMA InvInit == Init => IInv
<1> SUFFICES ASSUME Init PROVE IInv
  OBVIOUS
<1>1. TypeOK
  BY TypeInit
<1>2. \A d \in Devices, n \in Attempts : rec[d][n] = Blank(NoJob)
  BY DEF Init
<1>3. RecordInv
  BY <1>2, HandoffConstants
     DEF Init, RecordInv, WellKept, ReportsAgree, CancellationsAgree, RanIsReported, Blank, Terminal, Exists
<1>4. \A u : ~InFlight(u)
  BY DEF Init, InFlight
<1> QED BY <1>1, <1>3, <1>4 DEF IInv

LEMMA InvStep == IInv /\ [Next]_vars => IInv' /\ SourceKept
<1> SUFFICES ASSUME IInv, [Next]_vars PROVE IInv' /\ SourceKept
  OBVIOUS
<1> USE HandoffConstants
<1>1. TypeOK'
  BY TypeStep DEF IInv
<1>2. CASE Delegate
  <2>1. PICK j \in Fresh(1) : Admitted(Source, j)
    BY <1>2 DEF Delegate
  <2>2. j \in Jobs /\ inbox' = inbox /\ ran' = ran
    BY <1>2 DEF Delegate, Fresh, relay
  <2> QED BY <1>1, <2>1, <2>2, AdmittedInv
<1>3. ASSUME NEW a \in admitting, Admit(a)
      PROVE  IInv' /\ SourceKept
  <2>1. a.by \in Devices /\ a.job \in Jobs /\ inbox' = inbox /\ ran' = ran
    BY <1>3 DEF Admit, relay, IInv, TypeOK, Admission
  <2>2. CASE Admitted(a.by, a.job)
    BY <1>1, <2>1, <2>2, AdmittedInv
  <2>3. CASE UNCHANGED <<store, turn>>
    BY <1>1, <2>1, <2>3, NothingSaved DEF store, InFlight
  <2> QED BY <1>3, <2>2, <2>3 DEF Admit
<1>4. CASE FollowUp \/ MoveBot \/ UNCHANGED vars \/ \E j \in Jobs : UserStep(j)
  <2>1. rec' = rec /\ outbox' = outbox /\ inbox' = inbox /\ ran' = ran
    BY <1>4 DEF FollowUp, Prepare, MoveBot, UserStep, ResumeStopped, ResumeUnreported,
                StopAtLimits, StopTurn, vars, store, relay, runs
  <2> QED BY <1>1, <2>1, NothingSaved DEF InFlight
<1>5. ASSUME NEW j \in Jobs, NEW outcome \in Endings \cup {"skipped"}, Finish(j, outcome)
      PROVE  IInv' /\ SourceKept
  <2>1. inbox' = inbox /\ ran' = ran
    BY <1>5 DEF Finish, relay
  <2>2. CASE UNCHANGED store
    BY <1>1, <2>1, <2>2, NothingSaved DEF store, InFlight
  <2>3. CASE Publish(j, StatusOf(j, outcome)) /\ ~Settled(rec[Target][j[1]])
    <3>1. StatusOf(j, outcome) \in Terminal
      BY DEF StatusOf, Terminal
    <3> QED BY <1>1, <2>1, <2>3, <3>1, PublishInv
  <2> QED BY <1>5, <2>2, <2>3 DEF Finish
<1>6. ASSUME NEW status \in Claims, ReportTool(status)
      PROVE  IInv' /\ SourceKept
  <2>1. inbox' = inbox /\ ran' = ran
    BY <1>6 DEF ReportTool, relay, runs
  <2>2. PICK n \in Attempts : Exists(rec[Target], n) /\ Publish(rec[Target][n].job, status)
    BY <1>6 DEF ReportTool, IsCurrent
  <2>3. PICK j \in Jobs : j = rec[Target][n].job
    BY <2>2, CurrentJob DEF IInv, TypeOK
  <2>4. status \in Terminal
    BY DEF Terminal
  <2> QED BY <1>1, <2>1, <2>2, <2>3, <2>4, PublishInv
<1>7. ASSUME NEW d \in Devices, Drain(d, TRUE) \/ Drain(d, FALSE) \/ SavePage(d)
      PROVE  IInv' /\ SourceKept
  <2>1. rec' = rec /\ ran' = ran
    BY <1>7 DEF Drain, SavePage, store, runs
  <2> QED BY <1>1, <1>7, <2>1, TransportItems, NothingSaved DEF IInv
<1> QED
  BY <1>1, <1>2, <1>3, <1>4, <1>5, <1>6, <1>7, CancelInv, ApplyInv, BeginInv, ContinuationInv, RestartInv
  DEF Next, SyncStep, TurnStep

LEMMA Invariant == Spec => []IInv
BY InvInit, InvStep, PTL DEF Spec

-----------------------------------------------------------------------------
(* The theorems.                                                           *)

\* handoffs.rs merge and publish_report: wherever it is held and however it
\* got there, a terminal report is the one the recipient's Runner gave that job.
THEOREM OneReport == Spec => []ReportsAgree
<1>1. IInv => ReportsAgree
  BY DEF IInv, RecordInv
<1> QED BY <1>1, Invariant, PTL

\* handoffs.rs cancel: no Device takes an attempt for cancelled unless the
\* requester's Runner cancelled that very request.
THEOREM OneCancellation == Spec => []CancellationsAgree
<1>1. IInv => CancellationsAgree
  BY DEF IInv, RecordInv
<1> QED BY <1>1, Invariant, PTL

\* A turn starts by claiming its attempt and in no other way.
LEMMA OnlyBeginStarts ==
    ASSUME TypeOK, [Next]_vars, NEW j \in Jobs, Starts(j)
    PROVE  Begin(j) /\ Claimable(j)
<1>1. turn \in [Jobs -> {"idle", "queued", "working", "skipping"}] /\ turn[j] # "working" /\ turn'[j] = "working"
  BY DEF TypeOK, Starts
<1>2. ASSUME NEW i \in Jobs, turn' = Spawned(turn, i)
      PROVE  FALSE
  BY <1>1, <1>2 DEF Spawned
<1>3. ASSUME NEW i, turn' = [turn EXCEPT ![i] = "idle"]
      PROVE  FALSE
  BY <1>1, <1>3
<1>4. ASSUME turn' = turn
      PROVE  FALSE
  BY <1>1, <1>4
<1>5. ASSUME NEW d \in Devices, NEW i \in Jobs, Admitted(d, i)
      PROVE  FALSE
  BY <1>2, <1>4, <1>5 DEF Admitted
<1>6. ~Delegate /\ ~\E a \in admitting : Admit(a)
  BY <1>4, <1>5, HandoffConstants DEF Delegate, Admit, Fresh, TypeOK, Admission
<1>7. ~FollowUp /\ ~Cancel /\ ~MoveBot /\ ~UNCHANGED vars
  BY <1>4 DEF FollowUp, Prepare, Cancel, MoveBot, runs, vars
<1>8. ~OpenJob /\ ~OpenCancel /\ ~Expire /\ \A d \in Devices : ~SyncStep(d)
  BY <1>4 DEF OpenJob, OpenCancel, Expire, SyncStep, Drain, SavePage, ApplyUpdate, runs
<1>9. ~StageJob
  <2>1. ASSUME StageJob PROVE FALSE
    BY <1>2, <1>4, <2>1 DEF StageJob, TypeOK
  <2> QED BY <2>1
<1>10. ~\E s \in Claims : ReportTool(s)
  BY <1>4 DEF ReportTool, runs
<1>11. \A i \in Jobs : ~ContinuationStep(i)
  BY <1>4 DEF ContinuationStep, SpawnContinuation, BeginContinuation, FinishContinuation, runs
<1>12. \A i \in Jobs : ~UserStep(i)
  BY <1>2, <1>4 DEF UserStep, ResumeStopped, ResumeUnreported, Prepare, StopAtLimits, StopTurn
<1>13. \A d \in Devices : ~Restart(d)
  BY <1>1 DEF Restart
<1>14. \A i \in Jobs, outcome \in Endings \cup {"skipped"} : ~Finish(i, outcome)
  BY <1>3 DEF Finish
<1>15. PICK i \in Jobs : Begin(i)
  BY <1>6, <1>7, <1>8, <1>9, <1>10, <1>11, <1>12, <1>13, <1>14 DEF Next, TurnStep
<1>16. i = j /\ Claimable(j)
  BY <1>1, <1>15 DEF Begin
<1> QED BY <1>15, <1>16

\* handoffs.rs begin_job: with duplicate envelopes, restarts and resumes in
\* any order, a job runs one turn at most.
THEOREM AtMostOneTurn == Spec => OneTurnPerJob
<1>1. IInv /\ [Next]_vars => [\A j \in Jobs : Starts(j) => j \notin ran]_vars
  <2> SUFFICES ASSUME IInv, [Next]_vars, NEW j \in Jobs, Starts(j), j \in ran
               PROVE  FALSE
    OBVIOUS
  <2> DEFINE n == j[1]
             u == Item("request", j)
  <2>1. Outcome(Merged(rec[Target], u)[n]) = "none"
    BY OnlyBeginStarts DEF IInv, Claimable
  <2>2. Holds(rec[Target], j) /\ rec[Target][n].report # "none" /\ Exists(rec[Target], n)
    BY JobNumber DEF IInv, RecordInv, RanIsReported, Holds, Exists
  <2>3. rec[Target] \in [Attempts -> Attempt]
    BY HandoffConstants DEF IInv, TypeOK
  <2>4. u \in Items /\ u.kind = "request" /\ u.job = j
    BY ItemType DEF Updates, Item
  <2> HIDE DEF u
  <2>5. Merged(rec[Target], u)[n].report # "none"
    BY <2>2, <2>3, <2>4, MergedFields
  <2> QED BY <2>1, <2>5 DEF Outcome
<1> QED BY <1>1, Invariant, PTL DEF Spec, OneTurnPerJob, StartsOnce

\* handoffs.rs merge, cancel and publish_report, from the requester's side: an
\* outcome it was told is never replaced, by a late report or cancellation,
\* a replay or another attempt.
THEOREM OutcomeIsFinal == Spec => SourceOutcomeFinal
<1>1. IInv /\ [Next]_vars =>
         [\A n \in Attempts : Settled(rec[Source][n]) =>
             /\ rec'[Source][n].job = rec[Source][n].job
             /\ Outcome(rec'[Source][n]) = Outcome(rec[Source][n])]_vars
  <2> SUFFICES ASSUME IInv, [Next]_vars, NEW n \in Attempts, Settled(rec[Source][n])
               PROVE  /\ rec'[Source][n].job = rec[Source][n].job
                      /\ Outcome(rec'[Source][n]) = Outcome(rec[Source][n])
    OBVIOUS
  <2>1. SourceKept
    BY InvStep
  <2>2. rec[Source][n].cancelled \/ rec[Source][n].report \in Terminal
    BY DEF Settled, Outcome
  <2>3. Exists(rec[Source], n)
    BY <2>2, HandoffConstants DEF IInv, RecordInv, WellKept, Terminal
  <2>4. rec'[Source][n].job = rec[Source][n].job
    BY <2>1, <2>3 DEF SourceKept, Grows
  <2>5. CASE rec[Source][n].cancelled
    <3>1. rec'[Source][n].cancelled
      BY <2>1, <2>5 DEF SourceKept, Grows
    <3> QED BY <2>4, <2>5, <3>1 DEF Outcome
  <2>6. CASE ~rec[Source][n].cancelled
    <3>1. ~rec'[Source][n].cancelled
      BY <2>1, <2>6 DEF SourceKept
    <3>2. rec'[Source][n].report = rec[Source][n].report
      BY <2>1, <2>2, <2>6 DEF SourceKept, Grows
    <3> QED BY <2>4, <2>6, <3>1, <3>2 DEF Outcome
  <2> QED BY <2>5, <2>6
<1> QED BY <1>1, Invariant, PTL DEF Spec, SourceOutcomeFinal, OutcomesStay

-----------------------------------------------------------------------------
(***************************************************************************)
(* What the requester of a handoff is promised: each report wakes it once; *)
(* as long as only its own Runner makes attempts, they come one after      *)
(* another as Delegation says; and no turn starts for an attempt that      *)
(* Target was told it called off.                                          *)
(***************************************************************************)

-----------------------------------------------------------------------------
(* What a step does to the requester's record.                             *)

\* A record with another one's attempts but for one, and for delivery marks.
AllButOne(r, s) ==
    \E k \in Attempts : \A n \in Attempts \ {k} :
        s[n].job = r[n].job /\ s[n].report = r[n].report /\ s[n].cancelled = r[n].cancelled

MarksStay(r, s) ==
    \A n \in Attempts : Exists(r, n) /\ r[n].result # "pending" => s[n].result # "pending"

Advances(r, s) == AllButOne(r, s) /\ MarksStay(r, s)

LEMMA MergedChanges ==
    ASSUME NEW r \in [Attempts -> Attempt], NEW u \in Items
    PROVE  AllButOne(r, Merged(r, u)) /\ MarksStay(r, Merged(r, u))
<1> DEFINE n == u.job[1]
           a == IF Exists(r, n) THEN r[n] ELSE Blank(u.job)
           report == IF u.kind = "report" /\ a.report \notin Terminal THEN u.status ELSE a.report
           cancelled == a.cancelled \/ u.kind = "cancel"
           b == [a EXCEPT !.report = report, !.cancelled = cancelled]
<1>1. u.job \in Jobs /\ n \in Attempts /\ u.status \in Reports
  BY DEF Items, Jobs
<1>2. a \in Attempt /\ (Exists(r, n) => a = r[n])
  BY <1>1 DEF Exists, Blank, Attempt, Reports
<1>3. b.result = a.result
  <2> HIDE DEF a, report, cancelled
  <2> QED BY <1>2 DEF Attempt
<1>4. Merged(r, u) = [r EXCEPT ![n] = b]
  BY DEF Merged
<1> HIDE DEF b
<1>5. Merged(r, u)[n] = b /\ \A m \in Attempts : m # n => Merged(r, u)[m] = r[m]
  BY <1>1, <1>4
<1>6. AllButOne(r, Merged(r, u))
  BY <1>1, <1>5 DEF AllButOne
<1>7. MarksStay(r, Merged(r, u))
  BY <1>2, <1>3, <1>5 DEF MarksStay
<1> QED BY <1>6, <1>7

LEMMA MarkedChanges ==
    ASSUME NEW r \in [Attempts -> Attempt], NEW s \in [Attempts -> Attempt],
           SameButResult(r, s), \A n \in Attempts : s[n].result \in {r[n].result, "started", "finished"}
    PROVE  AllButOne(r, s) /\ MarksStay(r, s)
<1>1. 1 \in Attempts
  BY HandoffConstants DEF Attempts
<1> QED BY <1>1 DEF SameButResult, AllButOne, MarksStay

LEMMA ClosedChanges ==
    ASSUME NEW d, NEW r \in [Attempts -> Attempt], NEW q
    PROVE  /\ AllButOne(q, r) => AllButOne(q, Closed(d, r))
           /\ MarksStay(q, r) => MarksStay(q, Closed(d, r))
<1>1. SameButResult(r, Closed(d, r))
  BY ClosedSame
<1>2. \A n \in Attempts : Closed(d, r)[n].result \in {r[n].result, "finished"}
  BY DEF Closed, Attempt
<1>3. AllButOne(q, r) => AllButOne(q, Closed(d, r))
  BY <1>1 DEF SameButResult, AllButOne
<1>4. MarksStay(q, r) => MarksStay(q, Closed(d, r))
  BY <1>2 DEF MarksStay
<1> QED BY <1>3, <1>4

LEMMA ResultChanges ==
    ASSUME TypeOK, NEW j \in Jobs, NEW m \in {"started", "finished"}
    PROVE  /\ SameButResult(rec[Source], WithResult(j, m))
           /\ AllButOne(rec[Source], WithResult(j, m)) /\ MarksStay(rec[Source], WithResult(j, m))
           /\ WithResult(j, m)[j[1]].result = m
<1>1. rec[Source] \in [Attempts -> Attempt] /\ j[1] \in Attempts
  BY JobNumber, HandoffConstants DEF TypeOK
<1>2. WithResult(j, m) \in [Attempts -> Attempt]
  BY WithResultType
<1>3. SameButResult(rec[Source], WithResult(j, m)) /\ WithResult(j, m)[j[1]].result = m
      /\ \A n \in Attempts : WithResult(j, m)[n].result \in {rec[Source][n].result, m}
  BY <1>1 DEF WithResult, SameButResult, Attempt
<1> QED BY <1>1, <1>2, <1>3, MarkedChanges

\* Every step of the Devices changes one attempt of the requester's record at most, and takes
\* back no delivery mark.
LEMMA SourceChanges ==
    ASSUME TypeOK, [Next]_vars
    PROVE  Advances(rec[Source], rec'[Source])
<1> USE HandoffConstants
<1>0. \A d \in Devices : rec[d] \in [Attempts -> Attempt]
  BY DEF TypeOK
<1>1. Advances(rec[Source], rec[Source])
  <2>1. 1 \in Attempts
    BY DEF Attempts
  <2> QED BY <2>1 DEF Advances, AllButOne, MarksStay
<1>2. ASSUME NEW d \in Devices, NEW s, rec' = [rec EXCEPT ![d] = s], d = Source => Advances(rec[Source], s)
      PROVE  Advances(rec[Source], rec'[Source])
  BY <1>1, <1>2 DEF TypeOK
<1>3. ASSUME NEW d \in Devices, NEW u \in Items, NEW s,
             rec' = [rec EXCEPT ![d] = s], s = Merged(rec[d], u) \/ s = Closed(d, Merged(rec[d], u))
      PROVE  Advances(rec[Source], rec'[Source])
  <2>1. Advances(rec[Source], Merged(rec[Source], u))
    BY <1>0, MergedChanges DEF Advances
  <2>2. Merged(rec[Source], u) \in [Attempts -> Attempt]
    BY <1>0, MergedType
  <2>3. d = Source => Advances(rec[Source], s)
    BY <1>3, <2>1, <2>2, ClosedChanges DEF Advances
  <2> QED BY <1>2, <1>3, <2>3
<1>4. CASE rec' = rec
  BY <1>1, <1>4
<1>5. ASSUME NEW d \in Devices, NEW j \in Jobs, Admitted(d, j) PROVE Advances(rec[Source], rec'[Source])
  <2>1. Item("request", j) \in Items
    BY ItemType DEF Updates
  <2> QED BY <1>3, <1>5, <2>1 DEF Admitted, Save
<1>6. ASSUME NEW j \in Jobs, NEW s \in Terminal, Publish(j, s) PROVE Advances(rec[Source], rec'[Source])
  <2>1. ReportItem(j, s) \in Items
    BY ItemType DEF Reports
  <2> QED BY <1>3, <1>4, <1>6, <2>1 DEF Publish, Save, store
<1>7. CASE Delegate
  BY <1>5, <1>7 DEF Delegate, Fresh
<1>8. CASE FollowUp \/ MoveBot \/ UNCHANGED vars \/ \E j \in Jobs : UserStep(j)
  BY <1>4, <1>8 DEF FollowUp, Prepare, MoveBot, UserStep, ResumeStopped, ResumeUnreported,
                    StopAtLimits, StopTurn, vars, store
<1>9. ASSUME NEW a \in admitting, Admit(a) PROVE Advances(rec[Source], rec'[Source])
  <2>1. a.by \in Devices /\ a.job \in Jobs
    BY DEF TypeOK, Admission
  <2> QED BY <1>4, <1>5, <1>9, <2>1 DEF Admit, store
<1>10. CASE Cancel
  <2>1. PICK n \in Attempts :
           /\ Exists(rec[Source], n)
           /\ rec' = [rec EXCEPT ![Source] = Merged(rec[Source], Item("cancel", rec[Source][n].job))]
    BY <1>10 DEF Cancel, IsCurrent, Save
  <2>2. Item("cancel", rec[Source][n].job) \in Items
    BY <1>0, <2>1, CurrentJob, ItemType DEF Updates
  <2> QED BY <1>3, <2>1, <2>2
<1>11. CASE OpenJob \/ OpenCancel \/ Expire
  BY <1>4, <1>11 DEF OpenJob, OpenCancel, Expire, store
<1>12. CASE StageJob
  <2>1. opening \in Jobs
    BY <1>12 DEF StageJob, TypeOK
  <2>2. Item("request", opening) \in Items
    BY <2>1, ItemType DEF Updates
  <2> QED BY <1>3, <1>4, <1>12, <2>2 DEF StageJob, SaveQuietly, store
<1>13. ASSUME NEW d \in Devices, ApplyUpdate(d) PROVE Advances(rec[Source], rec'[Source])
  <2>1. Next1(d) \in Items
    BY <1>13, ApplyingType DEF ApplyUpdate
  <2> QED BY <1>3, <1>4, <1>13, <2>1 DEF ApplyUpdate, SaveQuietly, store
<1>14. ASSUME NEW d \in Devices, Drain(d, TRUE) \/ Drain(d, FALSE) \/ SavePage(d)
       PROVE  Advances(rec[Source], rec'[Source])
  BY <1>4, <1>14 DEF Drain, SavePage, store
<1>15. ASSUME NEW s \in Claims, ReportTool(s) PROVE Advances(rec[Source], rec'[Source])
  <2>1. PICK n \in Attempts : Exists(rec[Target], n) /\ Publish(rec[Target][n].job, s)
    BY <1>15 DEF ReportTool, IsCurrent
  <2>2. rec[Target][n].job \in Jobs /\ s \in Terminal
    BY <1>0, <2>1, CurrentJob DEF Terminal
  <2> QED BY <1>6, <2>1, <2>2
<1>16. ASSUME NEW j \in Jobs, Begin(j) PROVE Advances(rec[Source], rec'[Source])
  <2>1. ReportItem(j, "running") \in Items
    BY ItemType DEF Reports
  <2> QED BY <1>3, <1>4, <1>16, <2>1 DEF Begin, Save, store
<1>17. ASSUME NEW j \in Jobs, NEW outcome \in Endings \cup {"skipped"}, Finish(j, outcome)
       PROVE  Advances(rec[Source], rec'[Source])
  <2>1. StatusOf(j, outcome) \in Terminal \/ rec' = rec
    BY <1>17 DEF Finish, StatusOf, Terminal
  <2> QED BY <1>4, <1>6, <1>17, <2>1 DEF Finish, store
<1>18. ASSUME NEW j \in Jobs, ContinuationStep(j) PROVE Advances(rec[Source], rec'[Source])
  <2>1. ASSUME NEW m \in {"started", "finished"}, SaveQuietly(Source, WithResult(j, m))
        PROVE  Advances(rec[Source], rec'[Source])
    <3>1. Advances(rec[Source], WithResult(j, m))
      BY ResultChanges DEF Advances
    <3> QED BY <1>2, <2>1, <3>1 DEF SaveQuietly
  <2> QED BY <1>4, <1>18, <2>1
          DEF ContinuationStep, SpawnContinuation, BeginContinuation, FinishContinuation, store
<1>19. ASSUME NEW d \in Devices, Restart(d) PROVE Advances(rec[Source], rec'[Source])
  <2>1. CASE Recovered(d, rec[d]) # {}
    <3>1. PICK n \in Recovered(d, rec[d]) :
             rec' = [rec EXCEPT ![d] = Closed(d, Merged(rec[d], ReportItem(rec[d][n].job, "failed")))]
      BY <1>19, <2>1 DEF Restart, Save
    <3>2. ReportItem(rec[d][n].job, "failed") \in Items
      BY <1>0, CurrentJob, ItemType DEF Recovered, IsCurrent, Reports, Terminal
    <3> QED BY <1>3, <3>1, <3>2
  <2>2. CASE Recovered(d, rec[d]) = {}
    <3>1. rec' = [rec EXCEPT ![d] = Closed(d, rec[d])]
      BY <1>19, <2>2 DEF Restart, SaveQuietly
    <3>2. Advances(rec[Source], Closed(Source, rec[Source]))
      BY <1>0, <1>1, ClosedChanges DEF Advances
    <3> QED BY <1>2, <3>1, <3>2
  <2> QED BY <2>1, <2>2
<1> QED
  BY <1>7, <1>8, <1>9, <1>10, <1>11, <1>12, <1>13, <1>14, <1>15, <1>16, <1>17, <1>18, <1>19
  DEF Next, SyncStep, TurnStep

-----------------------------------------------------------------------------
(* What wakes the requester.                                               *)

\* A report of the requester's current attempt, which nothing takes back.
Reported(j) ==
    /\ Holds(rec[Source], j)
    /\ ~rec[Source][j[1]].cancelled
    /\ rec[Source][j[1]].report \in Terminal \ {"cancelled"}

\* A continuation that begins.
Wakes(j) ==
    /\ cont[j] = "queued"
    /\ Holds(rec[Source], j) /\ rec[Source][j[1]].result = "pending"
    /\ SaveQuietly(Source, WithResult(j, "started"))
    /\ cont' = [cont EXCEPT ![j] = "working"]
    /\ woke' = woke \cup {j}

LEMMA RoutesReported ==
    ASSUME NEW d, NEW r \in [Attempts -> Attempt], WellKept(r), NEW j \in Routes(d, r)
    PROVE  /\ d = Source /\ Holds(r, j)
           /\ ~r[j[1]].cancelled /\ r[j[1]].report \in Terminal \ {"cancelled"}
<1>1. PICK n \in Attempts :
         /\ j = r[n].job /\ d = Source /\ Exists(r, n)
         /\ ~r[n].cancelled /\ r[n].report \in Terminal \ {"cancelled"}
  BY DEF Routes, IsCurrent
<1>2. j[1] = n
  BY <1>1 DEF WellKept
<1> QED BY <1>1, <1>2 DEF Holds

LEMMA ReportedStays ==
    ASSUME IInv, SourceKept, NEW j \in Jobs, Reported(j)
    PROVE  Reported(j)'
<1>1. j[1] \in Attempts /\ Exists(rec[Source], j[1]) /\ Settled(rec[Source][j[1]])
  BY JobNumber DEF Reported, Holds, Exists, Settled, Outcome
<1> QED BY <1>1 DEF Reported, SourceKept, Grows, Holds

\* A Device routes what its copy says.
LEMMA RoutesHere ==
    ASSUME TypeOK', IInv', NEW d \in Devices, NEW j \in Routes(d, rec'[d])
    PROVE  Reported(j)'
<1>1. rec'[d] \in [Attempts -> Attempt] /\ WellKept(rec'[d])
  BY DEF TypeOK, IInv, RecordInv
<1>2. d = Source /\ Holds(rec'[d], j) /\ ~rec'[d][j[1]].cancelled
      /\ rec'[d][j[1]].report \in Terminal \ {"cancelled"}
  BY <1>1, RoutesReported
<1> QED BY <1>2 DEF Reported

LEMMA PublishRoutes ==
    ASSUME IInv, IInv', NEW j \in Jobs, NEW s, Publish(j, s), NEW i \in routing', i \notin routing
    PROVE  Reported(i)'
<1> USE HandoffConstants
<1>1. i \in Routes(Target, rec'[Target])
  BY DEF Publish, Save, IInv, TypeOK, store
<1> QED BY <1>1, RoutesHere DEF IInv

\* What is routed anew is reported, and only what is routed is queued.
LEMMA RoutedSteps ==
    ASSUME IInv, IInv', [Next]_vars
    PROVE  /\ \A j \in routing' : j \in routing \/ Reported(j)'
           /\ \A j \in Jobs : cont'[j] = "queued" => cont[j] = "queued" \/ j \in routing
<1> USE HandoffConstants
<1> DEFINE Goal == /\ \A j \in routing' : j \in routing \/ Reported(j)'
                   /\ \A j \in Jobs : cont'[j] = "queued" => cont[j] = "queued" \/ j \in routing
<1> SUFFICES Goal
  OBVIOUS
<1>0. cont \in [Jobs -> {"idle", "queued", "working"}] /\ rec \in [Devices -> [Attempts -> Attempt]]
  BY DEF IInv, TypeOK
<1>1. CASE routing' = routing /\ cont' = cont
  BY <1>1
<1>2. ASSUME cont' = cont, NEW j \in Jobs, NEW s, Publish(j, s) PROVE Goal
  BY <1>2, PublishRoutes
<1>3. ASSUME cont' = cont, NEW d \in Devices, rec'[d] = rec[d], routing' = routing \cup Routes(d, rec[d])
      PROVE  Goal
  BY <1>3, RoutesHere DEF IInv
<1>4. CASE Delegate \/ FollowUp \/ Cancel \/ MoveBot \/ UNCHANGED vars
  BY <1>1, <1>4 DEF Delegate, FollowUp, Prepare, Cancel, MoveBot, vars, conts
<1>5. CASE OpenJob \/ OpenCancel \/ Expire \/ StageJob \/ \E a \in admitting : Admit(a)
  BY <1>1, <1>5 DEF OpenJob, OpenCancel, Expire, Applying, StageJob, Admit, conts
<1>6. ASSUME NEW j \in Jobs, UserStep(j) \/ Begin(j) PROVE Goal
  BY <1>1, <1>6 DEF UserStep, ResumeStopped, ResumeUnreported, Prepare, StopAtLimits, StopTurn, Begin, conts
<1>7. ASSUME NEW d \in Devices, Drain(d, TRUE) \/ Drain(d, FALSE) \/ SavePage(d) PROVE Goal
  BY <1>1, <1>7 DEF Drain, SavePage, conts
<1>8. ASSUME NEW d \in Devices, ApplyUpdate(d) PROVE Goal
  <2>1. cont' = cont
    BY <1>8 DEF ApplyUpdate, Applying
  <2>2. CASE Mergeable(rec[d], Next1(d))
    <3>1. routing' = routing \cup Routes(d, rec'[d])
      BY <1>0, <1>8, <2>2 DEF ApplyUpdate, SaveQuietly
    <3> QED BY <2>1, <3>1, RoutesHere DEF IInv
  <2>3. CASE ~Mergeable(rec[d], Next1(d))
    BY <1>1, <1>8, <2>1, <2>3 DEF ApplyUpdate
  <2> QED BY <2>2, <2>3
<1>9. ASSUME NEW s \in Claims, ReportTool(s) PROVE Goal
  <2>1. PICK n \in Attempts : Exists(rec[Target], n) /\ Publish(rec[Target][n].job, s)
    BY <1>9 DEF ReportTool, IsCurrent
  <2>2. rec[Target][n].job \in Jobs /\ cont' = cont
    BY <1>0, <1>9, <2>1, CurrentJob DEF ReportTool
  <2> QED BY <1>2, <2>1, <2>2
<1>10. ASSUME NEW j \in Jobs, NEW outcome \in Endings \cup {"skipped"}, Finish(j, outcome) PROVE Goal
  <2>1. cont' = cont
    BY <1>10 DEF Finish
  <2>2. \/ Publish(j, StatusOf(j, outcome))
        \/ routing' = routing
        \/ rec' = rec /\ routing' = routing \cup Routes(Target, rec[Target])
    BY <1>10 DEF Finish, store
  <2>3. CASE rec' = rec /\ routing' = routing \cup Routes(Target, rec[Target])
    BY <1>3, <2>1, <2>3
  <2> QED BY <1>1, <1>2, <2>1, <2>2, <2>3
<1>11. ASSUME NEW j \in Jobs, ContinuationStep(j) PROVE Goal
  <2>1. CASE SpawnContinuation(j)
    BY <1>0, <2>1 DEF SpawnContinuation, Spawned
  <2>2. CASE BeginContinuation(j) \/ FinishContinuation(j)
    BY <1>0, <2>2 DEF BeginContinuation, FinishContinuation
  <2> QED BY <1>11, <2>1, <2>2 DEF ContinuationStep
<1>12. ASSUME NEW d \in Devices, Restart(d) PROVE Goal
  <2>1. CASE d = Source
    <3>1. \A j \in Jobs : cont'[j] = "idle"
      BY <1>12, <2>1 DEF Restart
    <3>2. routing' = Routes(d, rec'[d])
      BY <1>12, <2>1 DEF Restart
    <3> QED BY <3>1, <3>2, RoutesHere DEF IInv
  <2>2. CASE d # Source
    BY <1>1, <1>12, <2>2 DEF Restart
  <2> QED BY <2>1, <2>2
<1> HIDE DEF Goal
<1> QED
  BY <1>4, <1>5, <1>6, <1>7, <1>8, <1>9, <1>10, <1>11, <1>12 DEF Next, SyncStep, TurnStep

LEMMA WakeSteps ==
    ASSUME TypeOK, [Next]_vars
    PROVE  \/ woke' = woke /\ \A j \in Jobs : cont'[j] = "working" => cont[j] = "working"
           \/ \E j \in Jobs : Wakes(j)
<1> USE HandoffConstants
<1> DEFINE Goal == \/ woke' = woke /\ \A j \in Jobs : cont'[j] = "working" => cont[j] = "working"
                   \/ \E j \in Jobs : Wakes(j)
<1> SUFFICES Goal
  OBVIOUS
<1>0. cont \in [Jobs -> {"idle", "queued", "working"}]
  BY DEF TypeOK
<1>1. CASE woke' = woke /\ cont' = cont
  BY <1>1
<1>2. CASE Delegate \/ FollowUp \/ Cancel \/ MoveBot \/ UNCHANGED vars
  BY <1>1, <1>2 DEF Delegate, FollowUp, Prepare, Cancel, MoveBot, vars, conts
<1>3. CASE OpenJob \/ OpenCancel \/ Expire \/ StageJob \/ \E a \in admitting : Admit(a)
  BY <1>1, <1>3 DEF OpenJob, OpenCancel, Expire, Applying, StageJob, Admit, conts
<1>4. ASSUME NEW j \in Jobs, UserStep(j) \/ TurnStep(j) PROVE Goal
  BY <1>1, <1>4 DEF UserStep, ResumeStopped, ResumeUnreported, Prepare, StopAtLimits, StopTurn,
                    TurnStep, Begin, Finish, conts
<1>5. ASSUME NEW d \in Devices, SyncStep(d) PROVE Goal
  BY <1>1, <1>5 DEF SyncStep, Drain, SavePage, ApplyUpdate, Applying, conts
<1>6. ASSUME NEW s \in Claims, ReportTool(s) PROVE Goal
  BY <1>1, <1>6 DEF ReportTool
<1>7. ASSUME NEW j \in Jobs, ContinuationStep(j) PROVE Goal
  <2>1. CASE SpawnContinuation(j) \/ FinishContinuation(j)
    BY <1>0, <2>1 DEF SpawnContinuation, FinishContinuation, Spawned
  <2>2. CASE BeginContinuation(j)
    BY <1>0, <2>2 DEF BeginContinuation, Wakes
  <2> QED BY <1>7, <2>1, <2>2 DEF ContinuationStep
<1>8. ASSUME NEW d \in Devices, Restart(d) PROVE Goal
  BY <1>0, <1>8 DEF Restart
<1> HIDE DEF Goal
<1> QED
  BY <1>2, <1>3, <1>4, <1>5, <1>6, <1>7, <1>8 DEF Next

\* What is on its way to the requester is reported, and a report that woke it is marked.
WakeInv ==
    /\ \A j \in Jobs : j \in routing \/ cont[j] = "queued" => Reported(j)
    /\ \A j \in woke : Holds(rec[Source], j) /\ rec[Source][j[1]].result # "pending"

LEMMA WakeStep == IInv /\ WakeInv /\ [Next]_vars => WakeInv'
<1> SUFFICES ASSUME IInv, WakeInv, [Next]_vars PROVE WakeInv'
  OBVIOUS
<1>1. IInv' /\ SourceKept /\ TypeOK /\ TypeOK'
  BY InvStep DEF IInv
<1>2. ASSUME NEW j \in Jobs, j \in routing' \/ cont'[j] = "queued" PROVE Reported(j)'
  <2>1. Reported(j) \/ Reported(j)'
    BY <1>1, <1>2, RoutedSteps DEF WakeInv
  <2> QED BY <1>1, <2>1, ReportedStays
<1>3. ASSUME NEW j \in woke' PROVE Holds(rec'[Source], j) /\ rec'[Source][j[1]].result # "pending"
  <2>1. j \in Jobs /\ j[1] \in Attempts
    BY <1>1, JobNumber DEF TypeOK
  <2>2. CASE j \in woke
    <3>1. Holds(rec[Source], j) /\ rec[Source][j[1]].result # "pending" /\ Exists(rec[Source], j[1])
      BY <2>1, <2>2, JobNumber DEF WakeInv, Holds, Exists
    <3>2. MarksStay(rec[Source], rec'[Source])
      BY <1>1, SourceChanges DEF Advances
    <3> QED BY <1>1, <2>1, <3>1, <3>2 DEF SourceKept, Grows, MarksStay, Holds
  <2>3. CASE j \notin woke
    <3>1. Wakes(j)
      BY <1>1, <2>3, WakeSteps DEF Wakes
    <3>2. rec'[Source] = WithResult(j, "started") /\ Holds(rec[Source], j)
      BY <1>1, <3>1, HandoffConstants DEF Wakes, SaveQuietly, TypeOK
    <3>3. SameButResult(rec[Source], WithResult(j, "started")) /\ WithResult(j, "started")[j[1]].result = "started"
      BY <1>1, <2>1, ResultChanges
    <3> QED BY <2>1, <3>2, <3>3 DEF SameButResult, Holds
  <2> QED BY <2>2, <2>3
<1> QED BY <1>2, <1>3 DEF WakeInv

LEMMA WakeInvariant == Spec => []WakeInv
<1>1. Init => WakeInv
  BY DEF Init, WakeInv
<1> QED BY <1>1, Invariant, WakeStep, PTL DEF Spec

\* handoffs.rs route_report and begin_job: however often a report is routed, by its publication, a
\* merge or a start, its continuation begins once.
THEOREM OneWake == Spec => OneWakePerReport
<1>1. IInv /\ WakeInv /\ [Next]_vars =>
         [\A j \in Jobs : cont[j] # "working" /\ cont'[j] = "working" => j \notin woke]_vars
  <2> SUFFICES ASSUME IInv, WakeInv, [Next]_vars,
                      NEW j \in Jobs, cont[j] # "working", cont'[j] = "working", j \in woke
               PROVE  FALSE
    OBVIOUS
  <2>1. PICK i \in Jobs : Wakes(i)
    BY WakeSteps DEF IInv
  <2>2. i = j
    BY <2>1 DEF Wakes, IInv, TypeOK
  <2> QED BY <2>1, <2>2 DEF Wakes, WakeInv
<1> QED BY <1>1, Invariant, WakeInvariant, PTL DEF Spec, OneWakePerReport, WakesOnce

-----------------------------------------------------------------------------
(* Attempts come one after another, as long as only the requester's Runner *)
(* makes them: nobody knows of an attempt before its record does.          *)

\* Only the recipient's Runner resumes a turn its limits stopped.
OneAsker == "limit" \notin Occurs \/ Source = Target

Asked(n) == Exists(rec[Source], n)

\* What any Device holds, or is being told, is of an attempt the requester asked for.
AskedInv ==
    /\ \A d \in Devices, n \in Attempts : Exists(rec[d], n) => Asked(n)
    /\ \A u \in Items : InFlight(u) => Asked(u.job[1])
    /\ opening # NoJob => Asked(opening[1])
    /\ \A j \in Jobs : turn[j] # "idle" => Asked(j[1])

\* An attempt follows only attempts that have ended.
OrderInv ==
    /\ \A a \in admitting :
          /\ a.by = Source /\ a.job[1] = a.replaces[1] + 1
          /\ Holds(rec[Source], a.replaces) /\ Settled(rec[Source][a.replaces[1]])
    /\ \A m, n \in Attempts : Asked(n) /\ m < n => Settled(rec[Source][m])
    /\ \A n \in Attempts : Asked(n) => minted # {}
    /\ Source = Target \/ limited = {}

\* A step that tells nobody of an attempt the requester did not ask for.
NothingNew ==
    /\ \A d \in Devices, n \in Attempts : Exists(rec'[d], n) => Exists(rec[d], n) \/ Asked(n)
    /\ \A u \in Items : InFlight(u)' => InFlight(u) \/ Asked(u.job[1])
    /\ opening' # NoJob => opening' = opening \/ Asked(opening'[1])
    /\ \A j \in Jobs : turn'[j] # "idle" => turn[j] # "idle" \/ Asked(j[1])

\* A step that makes an attempt.
Asks(j) ==
    /\ Admitted(Source, j)
    /\ inbox' = inbox /\ opening' = opening /\ minted' # {}
    /\ \A m \in Attempts : m < j[1] => Settled(rec[Source][m])
    /\ \A m \in Attempts : m > j[1] => ~Asked(m)

LEMMA AskedStays ==
    ASSUME IInv, SourceKept, NEW n \in Attempts
    PROVE  /\ Asked(n) => Asked(n)' /\ rec'[Source][n].job = rec[Source][n].job
           /\ Settled(rec[Source][n]) =>
                 Asked(n) /\ Settled(rec'[Source][n]) /\ Outcome(rec'[Source][n]) = Outcome(rec[Source][n])
<1>1. Asked(n) => Asked(n)' /\ rec'[Source][n].job = rec[Source][n].job
  BY DEF SourceKept, Grows, Asked, Exists
<1>2. ASSUME Settled(rec[Source][n])
      PROVE  Asked(n) /\ Settled(rec'[Source][n]) /\ Outcome(rec'[Source][n]) = Outcome(rec[Source][n])
  <2>1. rec[Source][n].cancelled \/ rec[Source][n].report \in Terminal
    BY <1>2 DEF Settled, Outcome
  <2>2. Asked(n)
    BY <2>1, HandoffConstants DEF IInv, RecordInv, WellKept, Terminal, Asked
  <2>3. Outcome(rec'[Source][n]) = Outcome(rec[Source][n])
    <3>1. CASE rec[Source][n].cancelled
      BY <3>1 DEF SourceKept, Grows, Outcome
    <3>2. CASE ~rec[Source][n].cancelled
      BY <1>2, <2>1, <3>2 DEF SourceKept, Grows, Outcome
    <3> QED BY <3>1, <3>2
  <2> QED BY <1>2, <2>2, <2>3 DEF Settled
<1> QED BY <1>1, <1>2

LEMMA AskedStep ==
    ASSUME IInv, IInv', SourceKept, AskedInv, NothingNew
    PROVE  AskedInv' /\ \A n \in Attempts : Asked(n)' => Asked(n)
<1> USE HandoffConstants
<1>1. \A n \in Attempts : Asked(n) => Asked(n)'
  BY AskedStays
<1>2. \A d \in Devices, n \in Attempts : Exists(rec'[d], n) => Asked(n)
  BY DEF AskedInv, NothingNew
<1>3. \A n \in Attempts : Asked(n)' => Asked(n)
  BY <1>2 DEF Asked
<1>4. \A u \in Items : InFlight(u)' => Asked(u.job[1])'
  <2>1. \A u \in Items : u.job[1] \in Attempts
    BY JobNumber DEF Items
  <2> QED BY <1>1, <2>1 DEF AskedInv, NothingNew
<1>5. opening' # NoJob => Asked(opening[1])'
  <2>1. opening' # NoJob => opening'[1] \in Attempts
    BY JobNumber DEF IInv, TypeOK
  <2> QED BY <1>1, <2>1 DEF AskedInv, NothingNew
<1>6. \A j \in Jobs : turn'[j] # "idle" => Asked(j[1])'
  BY <1>1, JobNumber DEF AskedInv, NothingNew
<1> QED BY <1>1, <1>2, <1>3, <1>4, <1>5, <1>6 DEF AskedInv

\* A save adds no attempt but the one its update is about.
LEMMA SavedNews ==
    ASSUME TypeOK, NEW d \in Devices, NEW u \in Items, NEW s, rec' = [rec EXCEPT ![d] = s],
           s = Merged(rec[d], u) \/ s = Closed(d, Merged(rec[d], u))
    PROVE  \A e \in Devices, n \in Attempts :
              Exists(rec'[e], n) => Exists(rec[e], n) \/ (e = d /\ n = u.job[1])
<1>1. rec[d] \in [Attempts -> Attempt] /\ Merged(rec[d], u) \in [Attempts -> Attempt]
  BY MergedType DEF TypeOK
<1>2. \A n \in Attempts : s[n].job = Merged(rec[d], u)[n].job
  BY <1>1, ClosedSame DEF SameButResult
<1>3. \A n \in Attempts : n # u.job[1] => Merged(rec[d], u)[n] = rec[d][n]
  BY <1>1, MergedFields
<1>4. rec'[d] = s /\ \A e \in Devices : e # d => rec'[e] = rec[e]
  BY DEF TypeOK
<1> QED BY <1>2, <1>3, <1>4 DEF Exists

LEMMA AskedAdmitted ==
    ASSUME IInv, IInv', SourceKept, AskedInv, NEW j \in Jobs, Asks(j)
    PROVE  /\ AskedInv' /\ Asked(j[1])'
           /\ \A n \in Attempts : Asked(n)' => Asked(n) \/ n = j[1]
<1> USE HandoffConstants
<1> DEFINE u == Item("request", j)
           e == IF Source = Target THEN <<>> ELSE <<Item("job", j)>>
<1>1. u \in Items /\ u.job = j /\ Item("job", j) \in Items /\ Item("job", j).job = j /\ j[1] \in Attempts
  BY ItemType, JobNumber DEF Updates, Envelopes, Item
<1>2. e \in Seq(Items) /\ \A i \in DOMAIN e : e[i].job = j
  BY <1>1
<1>3. Save(Source, Merged(rec[Source], u), u, e)
  BY DEF Asks, Admitted
<1>4. rec[Source] \in [Attempts -> Attempt] /\ TypeOK
  BY DEF IInv, TypeOK
<1>5. Asked(j[1])'
  <2>1. u.kind = "request" /\ WellKept(rec[Source])
    BY DEF Item, IInv, RecordInv
  <2>2. Exists(Merged(rec[Source], u), j[1])
    BY <1>1, <1>4, <2>1, MergedGrows
  <2>3. rec'[Source] = Merged(rec[Source], u)
    BY <1>3, <1>4 DEF Save, TypeOK
  <2> QED BY <2>2, <2>3 DEF Asked
<1> HIDE DEF u, e
<1>6. \A d \in Devices, n \in Attempts : Exists(rec'[d], n) => Exists(rec[d], n) \/ n = j[1]
  BY <1>1, <1>3, <1>4, SavedNews DEF Save
<1>7. \A v \in Items : InFlight(v)' => InFlight(v) \/ v.job = j
  BY <1>1, <1>2, <1>3, <1>4, SaveItems DEF Asks
<1>8. \A i \in Jobs : turn'[i] # "idle" => turn[i] # "idle" \/ i = j
  BY <1>4 DEF Asks, Admitted, Spawned, TypeOK
<1>9. \A n \in Attempts : Asked(n) => Asked(n)'
  BY AskedStays
<1>10. \A d \in Devices, n \in Attempts : Exists(rec'[d], n) => Asked(n)'
  BY <1>5, <1>6, <1>9 DEF AskedInv
<1>11. \A v \in Items : InFlight(v)' => Asked(v.job[1])'
  <2>1. \A v \in Items : v.job[1] \in Attempts
    BY JobNumber DEF Items
  <2> QED BY <1>5, <1>7, <1>9, <2>1 DEF AskedInv
<1>12. opening' # NoJob => Asked(opening[1])'
  <2>1. opening # NoJob => opening[1] \in Attempts
    BY <1>4, JobNumber DEF TypeOK
  <2> QED BY <1>9, <2>1 DEF AskedInv, Asks
<1>13. \A i \in Jobs : turn'[i] # "idle" => Asked(i[1])'
  BY <1>5, <1>8, <1>9, JobNumber DEF AskedInv
<1>14. \A n \in Attempts : Asked(n)' => Asked(n) \/ n = j[1]
  BY <1>6 DEF Asked
<1> QED BY <1>5, <1>10, <1>11, <1>12, <1>13, <1>14 DEF AskedInv

\* The admission that still replaces the current attempt makes the next one.
LEMMA NextInOrder ==
    ASSUME IInv, OrderInv, NEW a \in admitting, Replaces(a)
    PROVE  /\ a.by = Source /\ a.job \in Jobs
           /\ \A m \in Attempts : m < a.job[1] => Settled(rec[Source][m])
           /\ \A m \in Attempts : m > a.job[1] => ~Asked(m)
<1>1. /\ a.by = Source /\ a.job \in Jobs /\ a.replaces \in Jobs
      /\ a.job[1] = a.replaces[1] + 1
      /\ Settled(rec[Source][a.replaces[1]])
  BY DEF OrderInv, IInv, TypeOK, Admission
<1>2. PICK k \in Attempts : k = a.replaces[1]
  BY <1>1, JobNumber
<1>3. PICK n \in Attempts : IsCurrent(rec[Source], n) /\ rec[Source][n].job = a.replaces
  BY <1>1 DEF Replaces
<1>4. n = k
  BY <1>2, <1>3, HandoffConstants DEF IsCurrent, IInv, RecordInv, WellKept
<1>5. Asked(k) /\ \A m \in Attempts : m > k => ~Asked(m)
  BY <1>3, <1>4 DEF IsCurrent, Asked
<1>6. \A m \in Attempts : m < k => Settled(rec[Source][m])
  BY <1>5 DEF OrderInv
<1>7. \A m \in Attempts : (m < k + 1 => m < k \/ m = k) /\ (m > k + 1 => m > k)
  BY DEF Attempts
<1> QED BY <1>1, <1>2, <1>5, <1>6, <1>7

LEMMA AskingSteps ==
    ASSUME IInv, AskedInv, OrderInv, Delegate \/ \E a \in admitting : Admit(a)
    PROVE  NothingNew \/ \E j \in Jobs : Asks(j)
<1>1. CASE Delegate
  <2>1. PICK j \in Fresh(1) : minted' = {j} /\ Admitted(Source, j)
    BY <1>1 DEF Delegate
  <2>2. j \in Jobs /\ j[1] = 1 /\ inbox' = inbox /\ opening' = opening
    BY <1>1 DEF Delegate, Fresh, relay, envs
  <2>3. \A n \in Attempts : ~Asked(n) /\ ~(n < 1)
    BY <1>1 DEF Delegate, OrderInv, Attempts
  <2> QED BY <2>1, <2>2, <2>3 DEF Asks
<1>2. ASSUME NEW a \in admitting, Admit(a)
      PROVE  NothingNew \/ \E j \in Jobs : Asks(j)
  <2>1. inbox' = inbox /\ opening' = opening /\ minted' = minted
    BY <1>2 DEF Admit, relay, envs
  <2>2. CASE Replaces(a) /\ Admitted(a.by, a.job)
    <3>1. /\ a.by = Source /\ a.job \in Jobs
          /\ \A m \in Attempts : m < a.job[1] => Settled(rec[Source][m])
          /\ \A m \in Attempts : m > a.job[1] => ~Asked(m)
      BY <2>2, NextInOrder
    <3>2. minted # {}
      <4>1. Holds(rec[Source], a.replaces) /\ a.replaces \in Jobs
        BY DEF OrderInv, IInv, TypeOK, Admission
      <4>2. Asked(a.replaces[1]) /\ a.replaces[1] \in Attempts
        BY <4>1, JobNumber DEF Holds, Asked, Exists
      <4> QED BY <4>2 DEF OrderInv
    <3> QED BY <2>1, <2>2, <3>1, <3>2 DEF Asks
  <2>3. CASE UNCHANGED <<store, turn>>
    BY <2>1, <2>3 DEF NothingNew, store, InFlight
  <2> QED BY <1>2, <2>2, <2>3 DEF Admit
<1> QED BY <1>1, <1>2

\* A save of an update about an attempt that is asked for.
LEMMA NothingNewSaved ==
    ASSUME IInv, NEW d \in Devices, NEW u \in Items, Asked(u.job[1]), NEW s,
           s = Merged(rec[d], u) \/ s = Closed(d, Merged(rec[d], u)),
           NEW e \in Seq(Items), Save(d, s, u, e), inbox' = inbox,
           \A i \in DOMAIN e : e[i].job = u.job,
           opening' = opening \/ opening' = NoJob,
           \A j \in Jobs : turn'[j] # "idle" => turn[j] # "idle" \/ Asked(j[1])
    PROVE  NothingNew
<1>1. rec' = [rec EXCEPT ![d] = s] /\ TypeOK
  BY DEF Save, IInv
<1>2. \A c \in Devices, n \in Attempts : Exists(rec'[c], n) => Exists(rec[c], n) \/ n = u.job[1]
  BY <1>1, SavedNews
<1>3. \A v \in Items : InFlight(v)' => InFlight(v) \/ v.job = u.job
  BY <1>1, SaveItems
<1> QED BY <1>2, <1>3 DEF NothingNew

LEMMA NothingNewPublished ==
    ASSUME IInv, AskedInv, NEW j \in Jobs, NEW s \in Terminal, Publish(j, s), Holds(rec[Target], j),
           inbox' = inbox, opening' = opening, \A i \in Jobs : turn'[i] # "idle" => turn[i] # "idle"
    PROVE  NothingNew
<1> USE HandoffConstants
<1> DEFINE u == ReportItem(j, s)
<1>1. CASE rec[Target][j[1]].report \notin Terminal
  <2>1. Save(Target, Merged(rec[Target], u), u, <<>>)
    BY <1>1 DEF Publish
  <2>2. u \in Items /\ u.job = j
    BY ItemType DEF ReportItem, Reports
  <2>3. Asked(j[1])
    BY JobNumber DEF Holds, Exists, AskedInv
  <2> HIDE DEF u
  <2>4. <<>> \in Seq(Items) /\ DOMAIN <<>> = {}
    OBVIOUS
  <2> QED BY <2>1, <2>2, <2>3, <2>4, NothingNewSaved
<1>2. CASE rec[Target][j[1]].report \in Terminal
  BY <1>2 DEF Publish, store, NothingNew, InFlight
<1> QED BY <1>1, <1>2

LEMMA TellingSteps ==
    ASSUME IInv, AskedInv, [Next]_vars,
           \/ Cancel
           \/ \E s \in Claims : ReportTool(s)
           \/ \E j \in Jobs : TurnStep(j)
           \/ \E d \in Devices : Restart(d)
    PROVE  NothingNew
<1> USE HandoffConstants
<1>0. \A d \in Devices : rec[d] \in [Attempts -> Attempt] /\ WellKept(rec[d])
  BY DEF IInv, TypeOK, RecordInv
<1>e. <<>> \in Seq(Items) /\ DOMAIN <<>> = {}
  OBVIOUS
<1>1. CASE Cancel
  <2>1. PICK n \in Attempts :
           /\ Exists(rec[Source], n)
           /\ Save(Source, Merged(rec[Source], Item("cancel", rec[Source][n].job)),
                   Item("cancel", rec[Source][n].job),
                   IF Source = Target THEN <<>> ELSE <<Item("job_cancel", rec[Source][n].job)>>)
    BY <1>1 DEF Cancel, IsCurrent
  <2>2. PICK j \in Jobs : j = rec[Source][n].job
    BY <1>0, <2>1, CurrentJob
  <2>3. j[1] = n /\ Asked(n)
    BY <1>0, <2>1, <2>2 DEF WellKept, Asked
  <2> DEFINE u == Item("cancel", j)
             e == IF Source = Target THEN <<>> ELSE <<Item("job_cancel", j)>>
  <2>4. /\ u \in Items /\ u.job = j
        /\ Item("job_cancel", j) \in Items /\ Item("job_cancel", j).job = j
    BY ItemType DEF Updates, Envelopes, Item
  <2>7. e \in Seq(Items) /\ \A i \in DOMAIN e : e[i].job = j
    BY <2>4
  <2>5. Save(Source, Merged(rec[Source], u), u, e)
    BY <2>1, <2>2
  <2>6. inbox' = inbox /\ opening' = opening /\ turn' = turn
    BY <1>1 DEF Cancel, relay, envs
  <2> HIDE DEF u, e
  <2> QED BY <2>3, <2>4, <2>5, <2>6, <2>7, NothingNewSaved
<1>2. ASSUME NEW s \in Claims, ReportTool(s) PROVE NothingNew
  <2>1. PICK n \in Attempts : Exists(rec[Target], n) /\ Publish(rec[Target][n].job, s)
    BY <1>2 DEF ReportTool, IsCurrent
  <2>2. PICK j \in Jobs : j = rec[Target][n].job
    BY <1>0, <2>1, CurrentJob
  <2>3. Holds(rec[Target], j) /\ s \in Terminal
    BY <1>0, <2>1, <2>2 DEF WellKept, Holds, Terminal
  <2>4. inbox' = inbox /\ opening' = opening /\ turn' = turn
    BY <1>2 DEF ReportTool, relay, envs, runs
  <2> QED BY <2>1, <2>2, <2>3, <2>4, NothingNewPublished
<1>3. ASSUME NEW j \in Jobs, Begin(j) PROVE NothingNew
  <2>1. inbox' = inbox /\ opening' = opening /\ \A i \in Jobs : turn'[i] # "idle" => turn[i] # "idle"
    BY <1>3 DEF Begin, relay, envs, IInv, TypeOK
  <2>2. CASE Claimable(j)
    <3> DEFINE u == ReportItem(j, "running")
    <3>1. Save(Target, Merged(rec[Target], u), u, <<>>)
      BY <1>3, <2>2 DEF Begin
    <3>2. u \in Items /\ u.job = j
      BY ItemType DEF ReportItem, Reports
    <3>3. Asked(j[1])
      BY <1>3 DEF Begin, AskedInv
    <3> HIDE DEF u
    <3> QED BY <1>e, <2>1, <3>1, <3>2, <3>3, NothingNewSaved
  <2>3. CASE ~Claimable(j)
    BY <1>3, <2>1, <2>3 DEF Begin, store, NothingNew, InFlight
  <2> QED BY <2>2, <2>3
<1>4. ASSUME NEW j \in Jobs, NEW outcome \in Endings \cup {"skipped"}, Finish(j, outcome) PROVE NothingNew
  <2>1. inbox' = inbox /\ opening' = opening /\ \A i \in Jobs : turn'[i] # "idle" => turn[i] # "idle"
    BY <1>4 DEF Finish, relay, envs, IInv, TypeOK
  <2>2. CASE UNCHANGED store
    BY <2>1, <2>2 DEF store, NothingNew, InFlight
  <2>3. CASE Holds(rec[Target], j) /\ Publish(j, StatusOf(j, outcome))
    <3>1. StatusOf(j, outcome) \in Terminal
      BY DEF StatusOf, Terminal
    <3> QED BY <2>1, <2>3, <3>1, NothingNewPublished
  <2> QED BY <1>4, <2>2, <2>3 DEF Finish
<1>5. ASSUME NEW d \in Devices, Restart(d) PROVE NothingNew
  <2>1. inbox' = inbox /\ (opening' = opening \/ opening' = NoJob)
    BY <1>5 DEF Restart
  <2>2. ASSUME NEW j \in Jobs, turn'[j] # "idle" PROVE turn[j] # "idle" \/ Asked(j[1])
    <3>1. CASE d # Target
      BY <1>5, <2>2, <3>1 DEF Restart
    <3>2. CASE d = Target
      <4>1. j \in Waiting(rec[d])
        BY <1>5, <2>2, <3>2 DEF Restart
      <4>2. PICK n \in Attempts : Exists(rec[d], n) /\ rec[d][n].job = j
        BY <4>1 DEF Waiting, IsCurrent
      <4> QED BY <1>0, <4>2 DEF WellKept, AskedInv
    <3> QED BY <3>1, <3>2
  <2>3. CASE Recovered(d, rec[d]) # {}
    <3>1. PICK n \in Recovered(d, rec[d]) :
             Save(d, Closed(d, Merged(rec[d], ReportItem(rec[d][n].job, "failed"))),
                  ReportItem(rec[d][n].job, "failed"), <<>>)
      BY <1>5, <2>3 DEF Restart
    <3>2. n \in Attempts /\ Exists(rec[d], n)
      BY DEF Recovered, IsCurrent
    <3>3. PICK j \in Jobs : j = rec[d][n].job
      BY <1>0, <3>2, CurrentJob
    <3> DEFINE u == ReportItem(j, "failed")
    <3>4. u \in Items /\ u.job = j /\ Asked(j[1])
      BY <1>0, <3>2, <3>3, ItemType DEF ReportItem, Reports, Terminal, WellKept, AskedInv
    <3>5. Save(d, Closed(d, Merged(rec[d], u)), u, <<>>)
      BY <3>1, <3>3
    <3> HIDE DEF u
    <3> QED BY <1>e, <2>1, <2>2, <3>4, <3>5, NothingNewSaved
  <2>4. CASE Recovered(d, rec[d]) = {}
    <3>1. rec' = [rec EXCEPT ![d] = Closed(d, rec[d])] /\ outbox' = outbox
      BY <1>5, <2>4 DEF Restart, SaveQuietly
    <3>2. \A e \in Devices, n \in Attempts : rec'[e][n].job = rec[e][n].job
      <4>1. \A n \in Attempts : Closed(d, rec[d])[n].job = rec[d][n].job
        BY <1>0, ClosedSame DEF SameButResult
      <4> QED BY <3>1, <4>1 DEF IInv, TypeOK
    <3>3. \A v : InFlight(v)' => InFlight(v)
      BY <2>1, <3>1 DEF InFlight
    <3> QED BY <2>1, <2>2, <3>2, <3>3 DEF NothingNew, Exists
  <2> QED BY <2>3, <2>4
<1> QED BY <1>1, <1>2, <1>3, <1>4, <1>5 DEF TurnStep

LEMMA SilentSteps ==
    ASSUME IInv, AskedInv,
           \/ FollowUp \/ MoveBot \/ UNCHANGED vars
           \/ OpenJob \/ OpenCancel \/ Expire \/ StageJob
           \/ \E d \in Devices : SyncStep(d)
           \/ \E j \in Jobs : ContinuationStep(j) \/ UserStep(j)
    PROVE  NothingNew
<1> USE HandoffConstants
<1>0. TypeOK /\ \A d \in Devices : rec[d] \in [Attempts -> Attempt] /\ WellKept(rec[d])
  BY DEF IInv, TypeOK, RecordInv
<1>1. CASE FollowUp \/ MoveBot \/ UNCHANGED vars
  BY <1>1 DEF FollowUp, Prepare, MoveBot, vars, store, relay, envs, runs, NothingNew, InFlight
<1>2. ASSUME NEW j \in Jobs, UserStep(j) PROVE NothingNew
  <2>1. rec' = rec /\ outbox' = outbox /\ inbox' = inbox /\ opening' = opening
    BY <1>2 DEF UserStep, ResumeStopped, ResumeUnreported, Prepare, StopAtLimits, StopTurn,
                store, relay, envs
  <2>2. turn' = turn \/ (turn' = Spawned(turn, j) /\ Exists(rec[Target], j[1]))
    BY <1>2 DEF UserStep, ResumeStopped, ResumeUnreported, Prepare, StopAtLimits, StopTurn, IsCurrent
  <2>3. \A i \in Jobs : turn'[i] # "idle" => turn[i] # "idle" \/ Asked(i[1])
    BY <1>0, <2>2, JobNumber DEF Spawned, AskedInv, TypeOK
  <2> QED BY <2>1, <2>3 DEF NothingNew, InFlight
<1>3. CASE OpenJob \/ OpenCancel \/ Expire
  <2>1. rec' = rec /\ outbox' = outbox /\ turn' = turn /\ Applying(Target)
    BY <1>3 DEF OpenJob, OpenCancel, Expire, store
  <2>2. \A v : InFlight(v)' => InFlight(v)
    BY <1>0, <2>1, ApplyingItems
  <2>3. Next1(Target) \in Items /\ read[Target] + 1 \in DOMAIN inbox[Target]
    BY <1>0, <2>1, ApplyingType
  <2>4. Asked(Next1(Target).job[1])
    BY <2>3 DEF AskedInv, InFlight, Next1
  <2>5. opening' \in {opening, NoJob, Next1(Target).job}
    BY <1>3 DEF OpenJob, OpenCancel, Expire, envs
  <2> QED BY <2>1, <2>2, <2>4, <2>5 DEF NothingNew
<1>4. CASE StageJob
  <2>1. outbox' = outbox /\ inbox' = inbox /\ opening' = NoJob /\ \A v : InFlight(v)' => InFlight(v)
    BY <1>4 DEF StageJob, relay, store, SaveQuietly, InFlight
  <2>2. PICK j \in Jobs : j = opening
    BY <1>0, <1>4 DEF StageJob, TypeOK
  <2>3. Asked(j[1])
    BY <1>4, <2>2 DEF StageJob, AskedInv
  <2> DEFINE u == Item("request", j)
  <2>4. u \in Items /\ u.job = j
    BY ItemType DEF Updates, Item
  <2> HIDE DEF u
  <2>5. CASE SaveQuietly(Target, Merged(rec[Target], u)) /\ turn' = Spawned(turn, j)
    <3>1. \A c \in Devices, n \in Attempts : Exists(rec'[c], n) => Exists(rec[c], n) \/ n = j[1]
      BY <1>0, <2>4, <2>5, SavedNews DEF SaveQuietly
    <3>2. \A i \in Jobs : turn'[i] # "idle" => turn[i] # "idle" \/ i = j
      BY <1>0, <2>5 DEF Spawned, TypeOK
    <3> QED BY <2>1, <2>3, <3>1, <3>2 DEF NothingNew
  <2>6. CASE UNCHANGED <<store, turn>>
    BY <2>1, <2>6 DEF NothingNew, store
  <2> QED BY <1>4, <2>2, <2>5, <2>6 DEF StageJob, u
<1>5. ASSUME NEW d \in Devices, ApplyUpdate(d) PROVE NothingNew
  <2>1. Applying(d) /\ outbox' = outbox /\ turn' = turn /\ opening' = opening
    BY <1>5 DEF ApplyUpdate, SaveQuietly, store, envs
  <2>2. \A v : InFlight(v)' => InFlight(v)
    BY <1>0, <2>1, ApplyingItems
  <2>3. PICK u \in Items : u = Next1(d)
    BY <1>0, <2>1, ApplyingType
  <2>4. Asked(u.job[1])
    <3>1. read[d] + 1 \in DOMAIN inbox[d]
      BY <1>0, <2>1, ApplyingType
    <3> QED BY <2>3, <3>1 DEF AskedInv, InFlight, Next1
  <2>5. CASE SaveQuietly(d, Merged(rec[d], u))
    <3>1. \A c \in Devices, n \in Attempts : Exists(rec'[c], n) => Exists(rec[c], n) \/ n = u.job[1]
      BY <1>0, <2>5, SavedNews DEF SaveQuietly
    <3> QED BY <2>1, <2>2, <2>4, <3>1 DEF NothingNew
  <2>6. CASE UNCHANGED store
    BY <2>1, <2>2, <2>6 DEF NothingNew, store
  <2> QED BY <1>5, <2>3, <2>5, <2>6 DEF ApplyUpdate
<1>6. ASSUME NEW d \in Devices, Drain(d, TRUE) \/ Drain(d, FALSE) \/ SavePage(d) PROVE NothingNew
  <2>1. rec' = rec /\ opening' = opening /\ turn' = turn
    BY <1>6 DEF Drain, SavePage, store, envs, runs
  <2>2. \A v : InFlight(v)' => InFlight(v)
    BY <1>0, <1>6, TransportItems
  <2> QED BY <2>1, <2>2 DEF NothingNew
<1>7. ASSUME NEW j \in Jobs, ContinuationStep(j) PROVE NothingNew
  <2>1. inbox' = inbox /\ outbox' = outbox /\ opening' = opening /\ turn' = turn
    BY <1>7 DEF ContinuationStep, SpawnContinuation, BeginContinuation, FinishContinuation,
                relay, envs, runs, store, SaveQuietly
  <2>2. ASSUME NEW m \in {"started", "finished"}, SaveQuietly(Source, WithResult(j, m))
        PROVE  NothingNew
    <3>1. \A n \in Attempts : rec'[Source][n].job = rec[Source][n].job
      BY <1>0, <2>2, ResultChanges DEF SaveQuietly, SameButResult, TypeOK
    <3>2. \A d \in Devices : d # Source => rec'[d] = rec[d]
      BY <1>0, <2>2 DEF SaveQuietly, TypeOK
    <3> QED BY <2>1, <3>1, <3>2 DEF NothingNew, Exists, InFlight
  <2>3. CASE UNCHANGED store
    BY <2>1, <2>3 DEF NothingNew, store, InFlight
  <2> QED BY <1>7, <2>2, <2>3 DEF ContinuationStep, SpawnContinuation, BeginContinuation, FinishContinuation
<1> QED BY <1>1, <1>2, <1>3, <1>4, <1>5, <1>6, <1>7 DEF SyncStep

LEMMA AskSteps ==
    ASSUME IInv, AskedInv, OrderInv, [Next]_vars
    PROVE  NothingNew \/ \E j \in Jobs : Asks(j)
BY AskingSteps, TellingSteps, SilentSteps DEF Next

\* Limits stop no turn where they do not occur, and there only the requester admits.
LEMMA OrderStep ==
    ASSUME OneAsker, IInv, AskedInv, OrderInv, [Next]_vars
    PROVE  OrderInv' /\ AskedInv'
<1> USE HandoffConstants
<1>0. IInv' /\ SourceKept /\ TypeOK
  BY InvStep DEF IInv
<1>1. AskedInv' /\ \/ \A n \in Attempts : Asked(n)' => Asked(n)
                   \/ \E j \in Jobs : Asks(j) /\ \A n \in Attempts : Asked(n)' => Asked(n) \/ n = j[1]
  BY <1>0, AskSteps, AskedStep, AskedAdmitted
<1>2. ASSUME NEW m \in Attempts, NEW n \in Attempts, Asked(n)', m < n
      PROVE  Settled(rec'[Source][m])
  <2>1. Settled(rec[Source][m])
    BY <1>1, <1>2 DEF OrderInv, Asks
  <2> QED BY <1>0, <2>1, AskedStays
<1>3. minted # {} => minted' # {}
  BY DEF Next, vars, Delegate, FollowUp, Prepare, Cancel, MoveBot, OpenJob, OpenCancel, Expire, Applying,
         StageJob, Admit, ReportTool, SyncStep, Drain, SavePage, ApplyUpdate, Restart, TurnStep, Begin,
         Finish, ContinuationStep, SpawnContinuation, BeginContinuation, FinishContinuation,
         UserStep, ResumeStopped, ResumeUnreported, StopAtLimits, StopTurn, ctl
<1>4. ASSUME NEW n \in Attempts, Asked(n)' PROVE minted' # {}
  BY <1>1, <1>3, <1>4 DEF OrderInv, Asks
<1>5. Source = Target \/ limited' = {}
  <2>1. ASSUME "limit" \notin Occurs PROVE limited' \subseteq limited
    BY <2>1 DEF Next, vars, runs, Delegate, FollowUp, Prepare, Cancel, MoveBot, OpenJob, OpenCancel, Expire,
         Applying, StageJob, Admit, ReportTool, SyncStep, Drain, SavePage, ApplyUpdate, Restart, TurnStep,
         Begin, Finish, ContinuationStep, SpawnContinuation, BeginContinuation, FinishContinuation,
         UserStep, ResumeStopped, ResumeUnreported, StopAtLimits, StopTurn
  <2> QED BY <2>1 DEF OneAsker, OrderInv
<1>6. ASSUME NEW n \in Attempts, Prepare(Source, n), Exists(rec[Source], n), Settled(rec[Source][n]),
             NEW a \in admitting', a \notin admitting
      PROVE  /\ a.by = Source /\ a.job[1] = a.replaces[1] + 1
             /\ Holds(rec[Source], a.replaces) /\ Settled(rec[Source][a.replaces[1]])
  <2>1. PICK j \in Fresh(n + 1) : a = [by |-> Source, job |-> j, replaces |-> rec[Source][n].job]
    BY <1>6 DEF Prepare
  <2>2. j[1] = n + 1
    BY DEF Fresh
  <2>3. rec[Source][n].job[1] = n
    BY <1>6 DEF IInv, RecordInv, WellKept
  <2> QED BY <1>6, <2>1, <2>2, <2>3 DEF Holds
<1>7. ASSUME NEW a \in admitting', a \notin admitting
      PROVE  /\ a.by = Source /\ a.job[1] = a.replaces[1] + 1
             /\ Holds(rec[Source], a.replaces) /\ Settled(rec[Source][a.replaces[1]])
  <2>1. CASE FollowUp
    <3>1. PICK n \in Attempts : IsCurrent(rec[Source], n) /\ Settled(rec[Source][n]) /\ Prepare(Source, n)
      BY <2>1 DEF FollowUp
    <3> QED BY <1>6, <1>7, <3>1 DEF IsCurrent
  <2>2. ASSUME NEW j \in Jobs, ResumeStopped(j)
        PROVE  /\ a.by = Source /\ a.job[1] = a.replaces[1] + 1
               /\ Holds(rec[Source], a.replaces) /\ Settled(rec[Source][a.replaces[1]])
    <3>1. Source = Target
      BY <2>2 DEF ResumeStopped, OrderInv
    <3>2. j[1] \in Attempts /\ Prepare(Source, j[1]) /\ Exists(rec[Source], j[1])
      BY <2>2, <3>1, JobNumber DEF ResumeStopped, IsCurrent
    <3>3. Settled(rec[Source][j[1]])
      BY <2>2, <3>1 DEF ResumeStopped, Settled, Outcome
    <3> QED BY <1>6, <1>7, <3>2, <3>3
  <2>3. FollowUp \/ \E j \in Jobs : ResumeStopped(j)
    BY <1>7 DEF Next, vars, ctl, Delegate, Cancel, MoveBot, OpenJob, OpenCancel, Expire,
         Applying, StageJob, Admit, ReportTool, SyncStep, Drain, SavePage, ApplyUpdate, Restart, TurnStep,
         Begin, Finish, ContinuationStep, SpawnContinuation, BeginContinuation, FinishContinuation,
         UserStep, ResumeUnreported, StopAtLimits, StopTurn
  <2> QED BY <2>1, <2>2, <2>3
<1>8. ASSUME NEW a \in admitting'
      PROVE  /\ a.by = Source /\ a.job[1] = a.replaces[1] + 1
             /\ Holds(rec'[Source], a.replaces) /\ Settled(rec'[Source][a.replaces[1]])
  <2>1. /\ a.by = Source /\ a.job[1] = a.replaces[1] + 1
        /\ Holds(rec[Source], a.replaces) /\ Settled(rec[Source][a.replaces[1]])
    BY <1>7 DEF OrderInv
  <2>2. a.replaces[1] \in Attempts
    BY <1>0, JobNumber DEF IInv, TypeOK, Admission
  <2> QED BY <1>0, <2>1, <2>2, AskedStays DEF Holds
<1> QED BY <1>1, <1>2, <1>4, <1>5, <1>8 DEF OrderInv

LEMMA OrderInvariant == ASSUME OneAsker PROVE Spec => [](AskedInv /\ OrderInv)
<1>1. Init => AskedInv /\ OrderInv
  <2> SUFFICES ASSUME Init PROVE AskedInv /\ OrderInv
    OBVIOUS
  <2>1. \A d \in Devices, n \in Attempts : ~Exists(rec[d], n)
    BY DEF Init, Exists, Blank
  <2>2. \A u : ~InFlight(u)
    BY DEF Init, InFlight
  <2>3. opening = NoJob /\ admitting = {} /\ limited = {} /\ \A j \in Jobs : turn[j] = "idle"
    BY DEF Init
  <2> QED BY <2>1, <2>2, <2>3, HandoffConstants DEF AskedInv, OrderInv, Asked
<1>2. IInv /\ (AskedInv /\ OrderInv) /\ [Next]_vars => (AskedInv /\ OrderInv)'
  BY OrderStep
<1> QED BY <1>1, <1>2, Invariant, PTL DEF Spec

-----------------------------------------------------------------------------
(* The refinement of Delegation.                                           *)

\* The outcome Delegation sees, and the attempts whose report woke the requester.
Stage(n) ==
    IF ~Exists(rec[Source], n) THEN "absent"
    ELSE IF Settled(rec[Source][n]) THEN Outcome(rec[Source][n]) ELSE "outstanding"

Woken == {n \in Attempts : rec[Source][n].job \in woke}

\* An attempt is asked for in its turn, ends, or stays what it is.
StageSteps(k) ==
    \/ Stage(k)' = Stage(k)
    \/ Stage(k) = "outstanding" /\ Stage(k)' \in Terminal
    \/ /\ Stage(k) = "absent" /\ Stage(k)' = "outstanding"
       /\ \A m \in Attempts : m < k => Stage(m) \in Terminal
       /\ \A m \in Attempts : m > k => Stage(m) = "absent"

LEMMA StageMoves ==
    ASSUME IInv, AskedInv, OrderInv, [Next]_vars
    PROVE  \E k \in Attempts :
              /\ StageSteps(k)
              /\ \A n \in Attempts \ {k} : Stage(n)' = Stage(n)
<1>0. IInv' /\ SourceKept /\ TypeOK
  BY InvStep DEF IInv
<1>1. PICK k \in Attempts : \A n \in Attempts \ {k} :
         /\ rec'[Source][n].job = rec[Source][n].job
         /\ rec'[Source][n].report = rec[Source][n].report
         /\ rec'[Source][n].cancelled = rec[Source][n].cancelled
  BY <1>0, SourceChanges DEF Advances, AllButOne
<1>2. ASSUME NEW n \in Attempts \ {k} PROVE Stage(n)' = Stage(n)
  <2>1. rec'[Source][n].cancelled = rec[Source][n].cancelled
    BY <1>1
  <2>2. Outcome(rec'[Source][n]) = Outcome(rec[Source][n])
    BY <1>1, <2>1 DEF Outcome
  <2>3. rec'[Source][n].job = rec[Source][n].job
    BY <1>1
  <2> QED BY <2>2, <2>3 DEF Stage, Settled, Exists
<1>3. StageSteps(k)
  <2>1. CASE ~Asked(k) /\ ~Asked(k)'
    BY <2>1 DEF StageSteps, Stage, Asked
  <2>2. CASE Asked(k) /\ Settled(rec[Source][k])
    <3>1. Asked(k)' /\ Settled(rec'[Source][k]) /\ Outcome(rec'[Source][k]) = Outcome(rec[Source][k])
      BY <1>0, <2>2, AskedStays
    <3> QED BY <2>2, <3>1 DEF StageSteps, Stage, Asked
  <2>3. CASE Asked(k) /\ ~Settled(rec[Source][k])
    <3>1. Asked(k)'
      BY <1>0, <2>3, AskedStays
    <3>2. Settled(rec'[Source][k]) => Outcome(rec'[Source][k]) \in Terminal
      BY DEF Settled
    <3> QED BY <2>3, <3>1, <3>2 DEF StageSteps, Stage, Asked
  <2>4. CASE ~Asked(k) /\ Asked(k)'
    <3>1. ~NothingNew
      BY <1>0, <2>4, AskedStep
    <3>2. PICK j \in Jobs : Asks(j)
      BY <3>1, AskSteps
    <3>3. k = j[1]
      BY <1>0, <2>4, <3>2, AskedAdmitted
    <3> DEFINE u == Item("request", j)
    <3>4. u \in Items /\ u.kind = "request" /\ u.job = j
      BY ItemType DEF Updates, Item
    <3>5. rec'[Source] = Merged(rec[Source], u) /\ rec[Source] \in [Attempts -> Attempt]
      BY <1>0, <3>2, HandoffConstants DEF Asks, Admitted, Save, TypeOK
    <3> HIDE DEF u
    <3>6. rec'[Source][k].report = "none" /\ rec'[Source][k].cancelled = FALSE
      <4>1. /\ rec'[Source][k].report = Blank(j).report
            /\ rec'[Source][k].cancelled = (Blank(j).cancelled \/ u.kind = "cancel")
        BY <2>4, <3>3, <3>4, <3>5, MergedFields DEF Asked
      <4> QED BY <3>4, <4>1 DEF Blank
    <3>7. Stage(k) = "absent" /\ Stage(k)' = "outstanding"
      BY <2>4, <3>6 DEF Stage, Asked, Settled, Outcome, Terminal
    <3>8. \A m \in Attempts : m < k => Stage(m) \in Terminal
      <4>1. \A m \in Attempts : m < k => Settled(rec[Source][m]) /\ Asked(m)
        BY <1>0, <3>2, <3>3, AskedStays DEF Asks
      <4> QED BY <4>1 DEF Stage, Asked, Settled
    <3>9. \A m \in Attempts : m > k => Stage(m) = "absent"
      BY <3>2, <3>3 DEF Asks, Stage, Asked
    <3> QED BY <3>7, <3>8, <3>9 DEF StageSteps
  <2> QED BY <2>1, <2>2, <2>3, <2>4
<1> QED BY <1>2, <1>3

\* A report that wakes the requester is the only thing its step changes.
LEMMA WokenMoves ==
    ASSUME IInv, WakeInv, [Next]_vars
    PROVE  \/ Woken' = Woken
           \/ /\ \A n \in Attempts : Stage(n)' = Stage(n)
              /\ \E k \in Attempts : /\ k \notin Woken /\ Woken' = Woken \cup {k}
                                     /\ Stage(k) \in Terminal \ {"cancelled"}
<1>0. IInv' /\ SourceKept /\ TypeOK /\ TypeOK'
  BY InvStep DEF IInv
<1>1. CASE woke' = woke
  <2>1. ASSUME NEW n \in Attempts
        PROVE  rec'[Source][n].job \in woke <=> rec[Source][n].job \in woke
    <3>1. CASE Asked(n)
      BY <1>0, <3>1, AskedStays
    <3>2. CASE ~Asked(n)
      <4>1. rec[Source][n].job \notin woke
        BY <1>0, <3>2, JobNumber DEF Asked, Exists, TypeOK
      <4>2. ASSUME rec'[Source][n].job \in woke PROVE FALSE
        <5>1. PICK j \in Jobs : j = rec'[Source][n].job /\ j \in woke
          BY <1>0, <4>2 DEF TypeOK
        <5>2. j[1] = n
          BY <1>0, <5>1, JobNumber, HandoffConstants DEF IInv, RecordInv, WellKept, Exists
        <5>3. rec[Source][n].job = j
          BY <5>1, <5>2 DEF WakeInv, Holds
        <5> QED BY <4>1, <5>1, <5>3
      <4> QED BY <4>1, <4>2
    <3> QED BY <3>1, <3>2
  <2> QED BY <1>1, <2>1 DEF Woken
<1>2. ASSUME NEW j \in Jobs, Wakes(j)
      PROVE  /\ \A n \in Attempts : Stage(n)' = Stage(n)
             /\ \E k \in Attempts : /\ k \notin Woken /\ Woken' = Woken \cup {k}
                                    /\ Stage(k) \in Terminal \ {"cancelled"}
  <2>1. rec'[Source] = WithResult(j, "started") /\ Holds(rec[Source], j) /\ woke' = woke \cup {j}
    BY <1>0, <1>2, HandoffConstants DEF Wakes, SaveQuietly, TypeOK
  <2>2. SameButResult(rec[Source], rec'[Source])
    BY <1>0, <2>1, ResultChanges
  <2>3. ASSUME NEW n \in Attempts PROVE Stage(n)' = Stage(n)
    <3>1. rec'[Source][n].cancelled = rec[Source][n].cancelled
      BY <2>2 DEF SameButResult
    <3>2. Outcome(rec'[Source][n]) = Outcome(rec[Source][n])
      BY <2>2, <3>1 DEF SameButResult, Outcome
    <3>3. rec'[Source][n].job = rec[Source][n].job
      BY <2>2 DEF SameButResult
    <3> QED BY <3>2, <3>3 DEF Stage, Settled, Exists
  <2>4. PICK k \in Attempts : k = j[1]
    BY JobNumber
  <2>5. rec[Source][k].job = j /\ Exists(rec[Source], k)
    BY <2>1, <2>4, JobNumber DEF Holds, Exists
  <2>6. j \notin woke
    BY <1>2 DEF Wakes, WakeInv
  <2>7. \A n \in Attempts : rec[Source][n].job = j => n = k
    BY <2>4, HandoffConstants, JobNumber DEF IInv, RecordInv, WellKept, Exists
  <2>8. \A n \in Attempts : rec'[Source][n].job = rec[Source][n].job
    BY <2>2 DEF SameButResult
  <2>9. k \notin Woken /\ Woken' = Woken \cup {k}
    BY <2>1, <2>5, <2>6, <2>7, <2>8 DEF Woken
  <2>10. Stage(k) \in Terminal \ {"cancelled"}
    <3>1. ~rec[Source][k].cancelled /\ rec[Source][k].report \in Terminal \ {"cancelled"}
      BY <1>2, <2>4 DEF Wakes, WakeInv, Reported
    <3> QED BY <2>5, <3>1 DEF Stage, Settled, Outcome
  <2> QED BY <2>3, <2>9, <2>10
<1> QED BY <1>0, <1>1, <1>2, WakeSteps

\* handoffs.rs follow_up, admit and route_report, from the requester's side: where no other Runner
\* resumes its attempts they come one after another, each has one outcome and wakes it once.
THEOREM AttemptsInOrder == ASSUME OneAsker PROVE Spec => KeepsPromise
<1> DEFINE outcome == [n \in Attempts |-> Stage(n)]
<1>0. Promise!Attempts = Attempts /\ Promise!Final = Terminal /\ Promise!Reported = Terminal \ {"cancelled"}
  BY DEF Promise!Attempts, Attempts, Promise!Final, Promise!Reported, Terminal
<1>1. Init => Promise!Init
  BY HandoffConstants DEF Init, Promise!Init, Promise!Attempts, Attempts, Exists, Blank
<1>2. IInv /\ WakeInv /\ (AskedInv /\ OrderInv) /\ [Next]_vars => [Promise!Next]_(Promise!vars)
  <2> SUFFICES ASSUME IInv, WakeInv, AskedInv, OrderInv, [Next]_vars
               PROVE  \/ outcome' = outcome /\ Woken' = Woken
                      \/ Promise!Next
    BY DEF Promise!vars, Stage, Woken
  <2>1. CASE /\ \A n \in Attempts : Stage(n)' = Stage(n)
             /\ \E k \in Attempts : /\ k \notin Woken /\ Woken' = Woken \cup {k}
                                    /\ Stage(k) \in Terminal \ {"cancelled"}
    <3>1. PICK k \in Attempts : /\ k \notin Woken /\ Woken' = Woken \cup {k}
                                /\ Stage(k) \in Terminal \ {"cancelled"}
      BY <2>1
    <3>2. outcome' = outcome /\ outcome[k] \in Terminal \ {"cancelled"}
      BY <2>1, <3>1
    <3>3. Promise!Wake(k)
      BY <1>0, <3>1, <3>2 DEF Promise!Wake, Stage, Woken
    <3> QED BY <1>0, <3>3 DEF Promise!Next
  <2>2. CASE Woken' = Woken
    <3>1. PICK k \in Attempts : StageSteps(k) /\ \A n \in Attempts \ {k} : Stage(n)' = Stage(n)
      BY StageMoves
    <3>2. CASE Stage(k)' = Stage(k)
      BY <2>2, <3>1, <3>2
    <3>3. CASE Stage(k) = "outstanding" /\ Stage(k)' \in Terminal
      <4>1. outcome[k] = "outstanding" /\ \E s \in Terminal : outcome' = [outcome EXCEPT ![k] = s]
        BY <3>1, <3>3
      <4>2. Promise!End(k)
        BY <1>0, <2>2, <4>1 DEF Promise!End, Stage, Woken
      <4> QED BY <1>0, <4>2 DEF Promise!Next
    <3>4. CASE /\ Stage(k) = "absent" /\ Stage(k)' = "outstanding"
               /\ \A m \in Attempts : m < k => Stage(m) \in Terminal
               /\ \A m \in Attempts : m > k => Stage(m) = "absent"
      <4>1. outcome[k] = "absent" /\ outcome' = [outcome EXCEPT ![k] = "outstanding"]
        BY <3>1, <3>4
      <4>2. \A m \in 1..(k - 1) : m \in Attempts /\ m < k
        BY HandoffConstants DEF Attempts
      <4>3. \A m \in (k + 1)..MaxAttempts : m \in Attempts /\ m > k
        BY HandoffConstants DEF Attempts
      <4>4. \A m \in 1..(k - 1) : outcome[m] \in Terminal
        BY <3>4, <4>2
      <4>5. \A m \in (k + 1)..MaxAttempts : outcome[m] = "absent"
        BY <3>4, <4>3
      <4>6. Promise!Ask(k)
        BY <1>0, <2>2, <4>1, <4>4, <4>5 DEF Promise!Ask, Stage, Woken
      <4> QED BY <1>0, <4>6 DEF Promise!Next
    <3> QED BY <3>1, <3>2, <3>3, <3>4 DEF StageSteps
  <2> QED BY <2>1, <2>2, WokenMoves
<1> QED BY <1>1, <1>2, Invariant, WakeInvariant, OrderInvariant, PTL DEF Spec, KeepsPromise, Promise!Spec

-----------------------------------------------------------------------------
(* No turn for a job called off: what Target was told of a cancellation by *)
(* an envelope, its record was told before by the update ahead of it.      *)

LEMMA MergedRecordGrows ==
    ASSUME IInv, NEW d \in Devices, NEW u \in Items, u.kind = "report" => u.status # "none",
           NEW s, rec' = [rec EXCEPT ![d] = s],
           s = Merged(rec[d], u) \/ s = Closed(d, Merged(rec[d], u))
    PROVE  \A c \in Devices : Grows(rec[c], rec'[c])
<1>1. rec[d] \in [Attempts -> Attempt] /\ WellKept(rec[d]) /\ rec \in [Devices -> [Attempts -> Attempt]]
  BY DEF IInv, TypeOK, RecordInv
<1>2. Merged(rec[d], u) \in [Attempts -> Attempt] /\ Grows(rec[d], Merged(rec[d], u))
  BY <1>1, MergedType, MergedGrows
<1>3. SameButResult(Merged(rec[d], u), Closed(d, Merged(rec[d], u)))
  BY <1>2, ClosedSame
<1>4. Grows(rec[d], s)
  BY <1>2, <1>3, SameKeeps
<1>5. \A c \in Devices : Grows(rec[c], rec[c])
  BY DEF Grows
<1> QED BY <1>1, <1>4, <1>5

\* No Device ever takes back what its copy says of an attempt.
LEMMA RecordsGrow ==
    ASSUME IInv, [Next]_vars
    PROVE  \A d \in Devices : Grows(rec[d], rec'[d])
<1> USE HandoffConstants
<1>0. TypeOK /\ \A d \in Devices : rec[d] \in [Attempts -> Attempt]
  BY DEF IInv, TypeOK
<1> DEFINE Goal == \A d \in Devices : Grows(rec[d], rec'[d])
<1> SUFFICES Goal
  OBVIOUS
<1>1. CASE rec' = rec
  BY <1>1 DEF Grows
<1>2. ASSUME NEW d \in Devices, NEW u \in Items, u.kind # "report", rec' = [rec EXCEPT ![d] = Merged(rec[d], u)]
      PROVE  Goal
  BY <1>2, MergedRecordGrows
<1>3. ASSUME NEW j \in Jobs, NEW s \in Reports \ {"none"}, NEW d \in Devices,
             \/ rec' = [rec EXCEPT ![d] = Merged(rec[d], ReportItem(j, s))]
             \/ rec' = [rec EXCEPT ![d] = Closed(d, Merged(rec[d], ReportItem(j, s)))]
      PROVE  Goal
  <2>1. ReportItem(j, s) \in Items /\ ReportItem(j, s).status = s
    BY ItemType DEF ReportItem
  <2> QED BY <1>3, <2>1, MergedRecordGrows
<1>4. ASSUME NEW d \in Devices, NEW s, SameButResult(rec[d], s), rec' = [rec EXCEPT ![d] = s]
      PROVE  Goal
  <2>1. Grows(rec[d], s)
    BY <1>4 DEF SameButResult, Grows, Exists
  <2> QED BY <1>0, <1>4, <2>1 DEF Grows, TypeOK
<1>5. ASSUME NEW d \in Devices, NEW j \in Jobs, Admitted(d, j) PROVE Goal
  <2>1. Item("request", j) \in Items /\ Item("request", j).kind # "report"
    BY ItemType DEF Updates, Item
  <2> QED BY <1>2, <1>5, <2>1 DEF Admitted, Save
<1>6. ASSUME NEW j \in Jobs, NEW s \in Terminal, Publish(j, s) PROVE Goal
  BY <1>1, <1>3, <1>6 DEF Publish, Save, store, Reports, Terminal
<1>7. CASE Delegate \/ \E a \in admitting : Admit(a)
  <2>1. \A a \in admitting : a.by \in Devices /\ a.job \in Jobs
    BY <1>0 DEF TypeOK, Admission
  <2> QED BY <1>1, <1>5, <1>7, <2>1 DEF Delegate, Fresh, Admit, store
<1>8. CASE FollowUp \/ MoveBot \/ UNCHANGED vars \/ \E j \in Jobs : UserStep(j)
  BY <1>1, <1>8 DEF FollowUp, Prepare, MoveBot, UserStep, ResumeStopped, ResumeUnreported,
                    StopAtLimits, StopTurn, vars, store
<1>9. CASE Cancel
  <2>1. PICK n \in Attempts :
           /\ Exists(rec[Source], n)
           /\ rec' = [rec EXCEPT ![Source] = Merged(rec[Source], Item("cancel", rec[Source][n].job))]
    BY <1>9 DEF Cancel, IsCurrent, Save
  <2>2. Item("cancel", rec[Source][n].job) \in Items /\ Item("cancel", rec[Source][n].job).kind # "report"
    BY <1>0, <2>1, CurrentJob, ItemType DEF Updates, Item
  <2> QED BY <1>2, <2>1, <2>2
<1>10. CASE OpenJob \/ OpenCancel \/ Expire
  BY <1>1, <1>10 DEF OpenJob, OpenCancel, Expire, store
<1>11. CASE StageJob
  <2>1. opening \in Jobs
    BY <1>0, <1>11 DEF StageJob, TypeOK
  <2>2. Item("request", opening) \in Items /\ Item("request", opening).kind # "report"
    BY <2>1, ItemType DEF Updates, Item
  <2> QED BY <1>1, <1>2, <1>11, <2>2 DEF StageJob, SaveQuietly, store
<1>12. ASSUME NEW d \in Devices, ApplyUpdate(d) PROVE Goal
  <2>1. Next1(d) \in Items /\ read[d] + 1 \in DOMAIN inbox[d]
    BY <1>0, <1>12, ApplyingType DEF ApplyUpdate
  <2>2. InFlight(Next1(d))
    BY <2>1 DEF InFlight, Next1
  <2>3. Next1(d).kind = "report" => Next1(d).status # "none"
    BY <2>1, <2>2 DEF IInv, Truthful
  <2>4. CASE rec' = [rec EXCEPT ![d] = Merged(rec[d], Next1(d))]
    BY <2>1, <2>3, <2>4, MergedRecordGrows
  <2> QED BY <1>1, <1>12, <2>4 DEF ApplyUpdate, SaveQuietly, store
<1>13. ASSUME NEW d \in Devices, Drain(d, TRUE) \/ Drain(d, FALSE) \/ SavePage(d) PROVE Goal
  BY <1>1, <1>13 DEF Drain, SavePage, store
<1>14. ASSUME NEW s \in Claims, ReportTool(s) PROVE Goal
  <2>1. PICK n \in Attempts : Exists(rec[Target], n) /\ Publish(rec[Target][n].job, s)
    BY <1>14 DEF ReportTool, IsCurrent
  <2>2. rec[Target][n].job \in Jobs /\ s \in Terminal
    BY <1>0, <2>1, CurrentJob DEF Terminal
  <2> QED BY <1>6, <2>1, <2>2
<1>15. ASSUME NEW j \in Jobs, Begin(j) PROVE Goal
  <2>1. "running" \in Reports \ {"none"}
    BY DEF Reports
  <2> QED BY <1>1, <1>3, <1>15, <2>1 DEF Begin, Save, store
<1>16. ASSUME NEW j \in Jobs, NEW outcome \in Endings \cup {"skipped"}, Finish(j, outcome) PROVE Goal
  <2>1. StatusOf(j, outcome) \in Terminal \/ rec' = rec
    BY <1>16 DEF Finish, StatusOf, Terminal
  <2> QED BY <1>1, <1>6, <1>16, <2>1 DEF Finish, store
<1>17. ASSUME NEW j \in Jobs, ContinuationStep(j) PROVE Goal
  <2>1. ASSUME NEW m \in {"started", "finished"}, SaveQuietly(Source, WithResult(j, m)) PROVE Goal
    BY <1>0, <1>4, <2>1, ResultChanges DEF SaveQuietly
  <2> QED BY <1>1, <1>17, <2>1
          DEF ContinuationStep, SpawnContinuation, BeginContinuation, FinishContinuation, store
<1>18. ASSUME NEW d \in Devices, Restart(d) PROVE Goal
  <2>1. CASE Recovered(d, rec[d]) # {}
    <3>1. PICK n \in Recovered(d, rec[d]) :
             rec' = [rec EXCEPT ![d] = Closed(d, Merged(rec[d], ReportItem(rec[d][n].job, "failed")))]
      BY <1>18, <2>1 DEF Restart, Save
    <3>2. rec[d][n].job \in Jobs /\ "failed" \in Reports \ {"none"}
      BY <1>0, CurrentJob DEF Recovered, IsCurrent, Reports, Terminal
    <3> QED BY <1>3, <3>1, <3>2
  <2>2. CASE Recovered(d, rec[d]) = {}
    BY <1>0, <1>4, <1>18, <2>2, ClosedSame DEF Restart, SaveQuietly
  <2> QED BY <2>1, <2>2
<1> HIDE DEF Goal
<1> QED
  BY <1>7, <1>8, <1>9, <1>10, <1>11, <1>12, <1>13, <1>14, <1>15, <1>16, <1>17, <1>18
  DEF Next, SyncStep, TurnStep

Notices == {"cancel", "job_cancel"}
Notice(u, j)  == u.kind = "cancel" /\ u.job = j
CallOff(u, j) == u.kind = "job_cancel" /\ u.job = j

\* Target's record refuses the job a turn, whatever it is asked.
Told(j) ==
    LET a == rec[Target][j[1]] IN a.job \notin {NoJob, j} \/ (a.job = j /\ a.cancelled)

Arrived(j) == Told(j) \/ \E k \in DOMAIN inbox[Target] : Notice(inbox[Target][k], j)

\* The requester's outbox has the update before the envelope.
LeavesInOrder(j) ==
    /\ \A i, k \in DOMAIN outbox[Source] :
          CallOff(outbox[Source][i], j) /\ Notice(outbox[Source][k], j) => k < i
    /\ \A i \in DOMAIN outbox[Source] : CallOff(outbox[Source][i], j) =>
          Arrived(j) \/ \E k \in DOMAIN outbox[Source] : Notice(outbox[Source][k], j)

\* An update still to be stored has no envelope ahead of it.
StoredInOrder(j) ==
    \A i \in DOMAIN outbox[Source] : Notice(outbox[Source][i], j) =>
        IF i = 1 /\ sent[Source] THEN Arrived(j)
        ELSE \A k \in DOMAIN inbox[Target] : ~CallOff(inbox[Target][k], j)

ReadInOrder(j) ==
    /\ \A i \in DOMAIN inbox[Target] : CallOff(inbox[Target][i], j) =>
          Told(j) \/ \E k \in DOMAIN inbox[Target] : k < i /\ Notice(inbox[Target][k], j)
    /\ \A k \in DOMAIN inbox[Target] : k <= read[Target] /\ Notice(inbox[Target][k], j) => Told(j)

CallInv(j) ==
    /\ LeavesInOrder(j)
    /\ StoredInOrder(j)
    /\ ReadInOrder(j)
    /\ j \in calledOff => Told(j)

NoticeInv ==
    /\ read[Target] <= Len(inbox[Target])
    /\ Target \notin Restarting => read[Target] = 0
    /\ \A d \in Devices : \A i \in DOMAIN outbox[d] : outbox[d][i].kind \in Notices => d = Source
    /\ \A u \in Items : InFlight(u) /\ u.kind = "job_cancel" =>
          Holds(rec[Source], u.job) /\ rec[Source][u.job[1]].cancelled
    /\ \A j \in Jobs : CallInv(j)

LEMMA ToldStays ==
    ASSUME IInv, [Next]_vars, NEW j \in Jobs, Told(j)
    PROVE  Told(j)'
<1>1. j[1] \in Attempts /\ Exists(rec[Target], j[1])
  BY JobNumber DEF Told, Exists
<1>2. Grows(rec[Target], rec'[Target])
  BY RecordsGrow, HandoffConstants
<1> QED BY <1>1, <1>2 DEF Told, Grows

LEMMA CallsStayTrue ==
    ASSUME IInv, SourceKept, NEW j \in Jobs, Holds(rec[Source], j), rec[Source][j[1]].cancelled
    PROVE  Holds(rec'[Source], j) /\ rec'[Source][j[1]].cancelled
<1>1. j[1] \in Attempts /\ Exists(rec[Source], j[1])
  BY JobNumber DEF Holds, Exists
<1> QED BY <1>1 DEF SourceKept, Grows, Holds

\* The requester's cancellations of a job stay where they are in its outbox.
OutboxKept(j) ==
    /\ \A i \in DOMAIN outbox'[Source] : Notice(outbox'[Source][i], j) \/ CallOff(outbox'[Source][i], j) =>
          i \in DOMAIN outbox[Source] /\ outbox[Source][i] = outbox'[Source][i]
    /\ \A i \in DOMAIN outbox[Source] : Notice(outbox[Source][i], j) =>
          i \in DOMAIN outbox'[Source] /\ outbox'[Source][i] = outbox[Source][i]
    /\ \A i \in DOMAIN outbox[Source] : Notice(outbox[Source][i], j) /\ i = 1 => sent'[Source] = sent[Source]

LEMMA CallKept ==
    ASSUME IInv, [Next]_vars, NEW j \in Jobs, CallInv(j), OutboxKept(j),
           inbox[Target] \in Seq(Items), read[Target] \in Nat,
           inbox'[Target] = inbox[Target], read'[Target] \in {0, read[Target]},
           j \in calledOff' => j \in calledOff
    PROVE  CallInv(j)'
<1>1. Told(j) => Told(j)'
  BY ToldStays
<1>2. Arrived(j) => Arrived(j)'
  BY <1>1 DEF Arrived
<1>3. LeavesInOrder(j)'
  BY <1>2 DEF CallInv, LeavesInOrder, OutboxKept
<1>4. StoredInOrder(j)'
  BY <1>2 DEF CallInv, StoredInOrder, OutboxKept
<1>5. ReadInOrder(j)'
  BY <1>1 DEF CallInv, ReadInOrder
<1> QED BY <1>1, <1>3, <1>4, <1>5 DEF CallInv

\* A step that touches no cancellation on its way.
SameNotices ==
    /\ \A d \in Devices : \A v \in Items : v.kind \in Notices =>
          \A i \in Nat : (i \in DOMAIN outbox'[d] /\ outbox'[d][i] = v)
                            <=> (i \in DOMAIN outbox[d] /\ outbox[d][i] = v)
    /\ 1 \in DOMAIN outbox[Source] /\ outbox[Source][1].kind \in Notices => sent'[Source] = sent[Source]
    /\ inbox' = inbox /\ read'[Target] \in {0, read[Target]}
    /\ calledOff' = calledOff

LEMMA SameNoticesKeep ==
    ASSUME IInv, IInv', SourceKept, [Next]_vars, NoticeInv, SameNotices
    PROVE  NoticeInv'
<1> USE HandoffConstants
<1>0. /\ \A d \in Devices : outbox[d] \in Seq(Items) /\ outbox'[d] \in Seq(Items)
      /\ inbox[Target] \in Seq(Items) /\ read[Target] \in Nat
  BY DEF IInv, TypeOK
<1>1. read'[Target] <= Len(inbox'[Target]) /\ (Target \notin Restarting => read'[Target] = 0)
  BY <1>0 DEF NoticeInv, SameNotices
<1>2. ASSUME NEW d \in Devices, NEW i \in DOMAIN outbox'[d], outbox'[d][i].kind \in Notices
      PROVE  d = Source /\ i \in DOMAIN outbox[d] /\ outbox[d][i] = outbox'[d][i]
  <2>1. i \in Nat /\ outbox'[d][i] \in Items
    BY <1>0
  <2>2. i \in DOMAIN outbox[d] /\ outbox[d][i] = outbox'[d][i]
    BY <1>2, <2>1 DEF SameNotices
  <2> QED BY <1>2, <2>2 DEF NoticeInv
<1>3. ASSUME NEW u \in Items, InFlight(u)', u.kind = "job_cancel"
      PROVE  Holds(rec'[Source], u.job) /\ rec'[Source][u.job[1]].cancelled
  <2>1. InFlight(u)
    BY <1>2, <1>3 DEF InFlight, SameNotices, Notices
  <2>2. u.job \in Jobs
    BY DEF Items
  <2> QED BY <1>3, <2>1, <2>2, CallsStayTrue DEF NoticeInv
<1>4. ASSUME NEW j \in Jobs PROVE CallInv(j)'
  <2>1. ASSUME NEW i \in DOMAIN outbox[Source], outbox[Source][i].kind \in Notices
        PROVE  i \in DOMAIN outbox'[Source] /\ outbox'[Source][i] = outbox[Source][i]
    <3>1. i \in Nat /\ outbox[Source][i] \in Items
      BY <1>0
    <3> QED BY <2>1, <3>1 DEF SameNotices
  <2>2. OutboxKept(j)
    BY <1>2, <2>1 DEF OutboxKept, SameNotices, Notice, CallOff, Notices
  <2> QED BY <1>0, <2>2, CallKept DEF SameNotices, NoticeInv
<1> QED BY <1>1, <1>2, <1>3, <1>4 DEF NoticeInv

\* A save of anything but a cancellation leaves the cancellations in their places.
LEMMA SaveSameNotices ==
    ASSUME TypeOK, NEW d \in Devices, NEW s, NEW u \in Items, u.kind \notin Notices,
           NEW e \in Seq(Items), \A i \in DOMAIN e : e[i].kind \notin Notices, Save(d, s, u, e),
           inbox' = inbox, read'[Target] \in {0, read[Target]}, calledOff' = calledOff
    PROVE  SameNotices
<1> USE HandoffConstants
<1> DEFINE p == outbox[d]
           q == Queued(p, u)
           t == q \o e
<1>1. p \in Seq(Items) /\ Len(p) \in Nat /\ q \in Seq(Items) /\ t \in Seq(Items) /\ Len(e) \in Nat
  <2>1. p \in Seq(Items)
    BY DEF TypeOK
  <2>2. q \in Seq(Items)
    BY <2>1, QueuedType
  <2> HIDE DEF p, q
  <2>3. t \in Seq(Items)
    BY <2>2, ConcatProperties
  <2> QED BY <2>1, <2>2, <2>3, LenProperties
<1>2. outbox' = [outbox EXCEPT ![d] = t] /\ outbox'[d] = t /\ \A c \in Devices : c # d => outbox'[c] = outbox[c]
  BY DEF Save, TypeOK
<1>3. /\ Len(q) >= Len(p) /\ Len(q) \in Nat
      /\ \A i \in 1..Len(p) : q[i] = p[i] \/ (q[i] = u /\ SameSlot(p[i], u))
      /\ \A i \in 1..Len(q) : i > Len(p) => q[i] = u
  <2>1. CASE \E i \in DOMAIN p : SameSlot(p[i], u)
    <3>1. q = [i \in DOMAIN p |-> IF SameSlot(p[i], u) THEN u ELSE p[i]]
      BY <2>1 DEF Queued
    <3>2. DOMAIN p = 1..Len(p)
      BY <1>1, LenProperties
    <3>3. Len(q) = Len(p)
      <4>1. DOMAIN q = 1..Len(p)
        BY <3>1, <3>2
      <4> QED BY <1>1, <4>1, LenProperties
    <3> QED BY <1>1, <3>1, <3>2, <3>3
  <2>2. CASE ~\E i \in DOMAIN p : SameSlot(p[i], u)
    <3>1. q = Append(p, u)
      BY <2>2 DEF Queued
    <3>2. Len(q) = Len(p) + 1 /\ \A i \in 1..Len(p) : q[i] = p[i]
      BY <1>1, <3>1, AppendProperties
    <3>3. q[Len(p) + 1] = u
      BY <1>1, <3>1, AppendProperties
    <3> QED BY <1>1, <3>2, <3>3
  <2> QED BY <2>1, <2>2
<1>4. /\ Len(t) = Len(q) + Len(e)
      /\ \A i \in 1..Len(t) : t[i] = IF i <= Len(q) THEN q[i] ELSE e[i - Len(q)]
  BY <1>1, ConcatProperties
<1>5. /\ DOMAIN p = 1..Len(p) /\ DOMAIN t = 1..Len(t)
      /\ \A i \in 1..Len(e) : e[i].kind \notin Notices
  BY <1>1, LenProperties
<1> HIDE DEF p, q, t
<1>6. ASSUME NEW v \in Items, v.kind \in Notices, NEW i \in Nat
      PROVE  (i \in DOMAIN t /\ t[i] = v) <=> (i \in DOMAIN p /\ p[i] = v)
  <2>1. ASSUME i \in 1..Len(p), p[i] = v PROVE i \in 1..Len(t) /\ t[i] = v
    <3>1. ~SameSlot(p[i], u)
      BY <1>6, <2>1 DEF SameSlot
    <3>2. i \in 1..Len(t) /\ i <= Len(q)
      BY <1>1, <1>3, <1>4, <2>1
    <3> QED BY <1>3, <1>4, <2>1, <3>1, <3>2
  <2>2. ASSUME i \in 1..Len(t), t[i] = v PROVE i \in 1..Len(p) /\ p[i] = v
    <3>1. CASE i <= Len(p)
      <4>1. i \in 1..Len(p) /\ i <= Len(q)
        BY <1>1, <1>3, <2>2, <3>1
      <4> QED BY <1>3, <1>4, <1>6, <2>2, <4>1
    <3>2. CASE i > Len(p) /\ i <= Len(q)
      <4>1. i \in 1..Len(q)
        BY <3>2
      <4> QED BY <1>3, <1>4, <1>6, <2>2, <3>2, <4>1
    <3>3. CASE i > Len(q)
      <4>1. i - Len(q) \in 1..Len(e) /\ ~(i <= Len(q))
        BY <1>1, <1>3, <1>4, <2>2, <3>3
      <4> QED BY <1>4, <1>5, <1>6, <2>2, <4>1
    <3> QED BY <1>1, <1>3, <3>1, <3>2, <3>3
  <2> QED BY <1>5, <2>1, <2>2
<1>7. ASSUME 1 \in DOMAIN outbox[Source], outbox[Source][1].kind \in Notices
      PROVE  sent'[Source] = sent[Source]
  <2>1. CASE d # Source
    BY <2>1 DEF Save, TypeOK
  <2>2. CASE d = Source
    <3>1. outbox[Source] # <<>> /\ Head(outbox[Source]).kind \in Notices
      BY <1>1, <1>7, <2>2 DEF p
    <3>2. ~SameSlot(Head(outbox[Source]), u)
      BY <3>1 DEF SameSlot
    <3>3. sent' = [sent EXCEPT ![d] = sent[d] /\ outbox[d] # <<>> /\ ~SameSlot(Head(outbox[d]), u)]
      BY DEF Save
    <3>4. sent'[Source] = (sent[Source] /\ outbox[Source] # <<>> /\ ~SameSlot(Head(outbox[Source]), u))
      BY <2>2, <3>3 DEF TypeOK
    <3>5. sent[Source] \in BOOLEAN
      BY DEF TypeOK
    <3> QED BY <3>1, <3>2, <3>4, <3>5
  <2> QED BY <2>1, <2>2
<1>8. \A c \in Devices : \A v \in Items : v.kind \in Notices =>
         \A i \in Nat : (i \in DOMAIN outbox'[c] /\ outbox'[c][i] = v)
                           <=> (i \in DOMAIN outbox[c] /\ outbox[c][i] = v)
  BY <1>2, <1>6 DEF p
<1> QED BY <1>7, <1>8 DEF SameNotices

LEMMA UnsavedSameNotices ==
    ASSUME outbox' = outbox, sent' = sent, inbox' = inbox, read'[Target] \in {0, read[Target]},
           calledOff' = calledOff
    PROVE  SameNotices
BY DEF SameNotices

LEMMA QuietNotices ==
    ASSUME IInv, [Next]_vars,
           \/ Delegate \/ FollowUp \/ MoveBot \/ StageJob \/ UNCHANGED vars
           \/ \E a \in admitting : Admit(a)
           \/ \E s \in Claims : ReportTool(s)
           \/ \E d \in Devices : Restart(d)
           \/ \E j \in Jobs : TurnStep(j) \/ ContinuationStep(j) \/ UserStep(j)
    PROVE  SameNotices
<1> USE HandoffConstants
<1>0. TypeOK /\ \A d \in Devices : rec[d] \in [Attempts -> Attempt]
  BY DEF IInv, TypeOK
<1>e. <<>> \in Seq(Items) /\ DOMAIN <<>> = {}
  OBVIOUS
<1>1. ASSUME NEW j \in Jobs, NEW s \in Reports
      PROVE  ReportItem(j, s) \in Items /\ ReportItem(j, s).kind \notin Notices
  BY ItemType DEF ReportItem, Notices
<1>2. ASSUME NEW d \in Devices, NEW j \in Jobs, Admitted(d, j), UNCHANGED relay, UNCHANGED envs PROVE SameNotices
  <2> DEFINE e == IF d = Target THEN <<>> ELSE <<Item("job", j)>>
  <2>1. Item("request", j) \in Items /\ Item("request", j).kind \notin Notices
    BY ItemType DEF Item, Updates, Notices
  <2>2. Item("job", j) \in Items /\ Item("job", j).kind \notin Notices
    BY ItemType DEF Item, Envelopes, Notices
  <2>3. e \in Seq(Items) /\ \A i \in DOMAIN e : e[i].kind \notin Notices
    BY <2>2
  <2>4. Save(d, Merged(rec[d], Item("request", j)), Item("request", j), e)
    BY <1>2 DEF Admitted
  <2> HIDE DEF e
  <2>5. inbox' = inbox /\ read' = read /\ calledOff' = calledOff
    BY <1>2 DEF relay, envs
  <2> QED BY <1>0, <2>1, <2>3, <2>4, <2>5, SaveSameNotices
<1>3. ASSUME NEW j \in Jobs, NEW s \in Terminal, Publish(j, s), UNCHANGED relay, UNCHANGED envs PROVE SameNotices
  <2>1. s \in Reports
    BY DEF Reports
  <2>2. inbox' = inbox /\ read' = read /\ calledOff' = calledOff
    BY <1>3 DEF relay, envs
  <2>3. CASE Save(Target, Merged(rec[Target], ReportItem(j, s)), ReportItem(j, s), <<>>)
    BY <1>0, <1>e, <1>1, <2>1, <2>2, <2>3, SaveSameNotices
  <2>4. CASE UNCHANGED store
    BY <2>2, <2>4, UnsavedSameNotices DEF store
  <2> QED BY <1>3, <2>3, <2>4 DEF Publish
<1>4. CASE Delegate \/ \E a \in admitting : Admit(a)
  <2>1. \A a \in admitting : a.by \in Devices /\ a.job \in Jobs
    BY <1>0 DEF TypeOK, Admission
  <2>2. UNCHANGED relay /\ UNCHANGED envs
    BY <1>4 DEF Delegate, Admit
  <2>3. CASE UNCHANGED store
    BY <2>2, <2>3, UnsavedSameNotices DEF store, relay, envs
  <2> QED BY <1>2, <1>4, <2>1, <2>2, <2>3 DEF Delegate, Fresh, Admit
<1>5. CASE FollowUp \/ MoveBot \/ StageJob \/ UNCHANGED vars \/ \E j \in Jobs : UserStep(j)
  <2>1. outbox' = outbox /\ sent' = sent
    BY <1>5 DEF FollowUp, Prepare, MoveBot, StageJob, SaveQuietly, UserStep, ResumeStopped,
                ResumeUnreported, StopAtLimits, StopTurn, vars, store
  <2>2. inbox' = inbox /\ read' = read /\ calledOff' = calledOff
    BY <1>5 DEF FollowUp, Prepare, MoveBot, StageJob, UserStep, ResumeStopped,
                ResumeUnreported, StopAtLimits, StopTurn, vars, relay, envs
  <2> QED BY <2>1, <2>2, UnsavedSameNotices
<1>6. ASSUME NEW s \in Claims, ReportTool(s) PROVE SameNotices
  <2>1. PICK n \in Attempts : Exists(rec[Target], n) /\ Publish(rec[Target][n].job, s)
    BY <1>6 DEF ReportTool, IsCurrent
  <2>2. rec[Target][n].job \in Jobs /\ s \in Terminal
    BY <1>0, <2>1, CurrentJob DEF Terminal
  <2> QED BY <1>3, <1>6, <2>1, <2>2 DEF ReportTool
<1>7. ASSUME NEW j \in Jobs, Begin(j) PROVE SameNotices
  <2>1. inbox' = inbox /\ read' = read /\ calledOff' = calledOff
    BY <1>7 DEF Begin, relay, envs
  <2>2. "running" \in Reports
    BY DEF Reports
  <2>3. CASE Save(Target, Merged(rec[Target], ReportItem(j, "running")), ReportItem(j, "running"), <<>>)
    BY <1>0, <1>e, <1>1, <2>1, <2>2, <2>3, SaveSameNotices
  <2>4. CASE UNCHANGED store
    BY <2>1, <2>4, UnsavedSameNotices DEF store
  <2> QED BY <1>7, <2>3, <2>4 DEF Begin
<1>8. ASSUME NEW j \in Jobs, NEW outcome \in Endings \cup {"skipped"}, Finish(j, outcome) PROVE SameNotices
  <2>1. UNCHANGED relay /\ UNCHANGED envs
    BY <1>8 DEF Finish
  <2>2. CASE UNCHANGED store
    BY <2>1, <2>2, UnsavedSameNotices DEF store, relay, envs
  <2>3. CASE Publish(j, StatusOf(j, outcome))
    <3>1. StatusOf(j, outcome) \in Terminal \/ UNCHANGED store
      BY <1>8 DEF Finish, StatusOf, Terminal
    <3> QED BY <1>3, <2>1, <2>2, <2>3, <3>1
  <2> QED BY <1>8, <2>2, <2>3 DEF Finish
<1>9. ASSUME NEW j \in Jobs, ContinuationStep(j) PROVE SameNotices
  <2>1. outbox' = outbox /\ sent' = sent /\ inbox' = inbox /\ read' = read /\ calledOff' = calledOff
    BY <1>9 DEF ContinuationStep, SpawnContinuation, BeginContinuation, FinishContinuation,
                SaveQuietly, store, relay, envs
  <2> QED BY <2>1, UnsavedSameNotices
<1>10. ASSUME NEW d \in Devices, Restart(d) PROVE SameNotices
  <2>1. inbox' = inbox /\ calledOff' = calledOff /\ read'[Target] \in {0, read[Target]}
    BY <1>0, <1>10 DEF Restart, TypeOK
  <2>2. CASE Recovered(d, rec[d]) # {}
    <3>1. PICK n \in Recovered(d, rec[d]) :
             Save(d, Closed(d, Merged(rec[d], ReportItem(rec[d][n].job, "failed"))),
                  ReportItem(rec[d][n].job, "failed"), <<>>)
      BY <1>10, <2>2 DEF Restart
    <3>2. rec[d][n].job \in Jobs /\ "failed" \in Reports
      BY <1>0, CurrentJob DEF Recovered, IsCurrent, Reports, Terminal
    <3> QED BY <1>0, <1>e, <1>1, <2>1, <3>1, <3>2, SaveSameNotices
  <2>3. CASE Recovered(d, rec[d]) = {}
    BY <1>10, <2>1, <2>3, UnsavedSameNotices DEF Restart, SaveQuietly
  <2> QED BY <2>2, <2>3
<1> QED BY <1>4, <1>5, <1>6, <1>7, <1>8, <1>9, <1>10 DEF TurnStep

\* Where the blobs of the relay's log are after another was stored: s for q and, of the n read,
\* m for n.  Those left keep their order.
KeepsOrder(q, v, n, s, m) ==
    /\ s \in Seq(Items) /\ Len(s) \in Nat \ {0} /\ s[Len(s)] = v
    /\ m \in 0..(Len(s) - 1)
    /\ \E old \in [1..(Len(s) - 1) -> 1..Len(q)] :
          /\ \A k \in 1..(Len(s) - 1) : s[k] = q[old[k]] /\ (k <= m => old[k] <= n)
          /\ \A k, l \in 1..(Len(s) - 1) : k < l <=> old[k] < old[l]
          /\ \A i \in 1..Len(q) : SameSlot(q[i], v) \/ \E k \in 1..(Len(s) - 1) : old[k] = i

LEMMA StoredMoves ==
    ASSUME NEW q \in Seq(Items), NEW v \in Items, NEW n \in 0..Len(q)
    PROVE  KeepsOrder(q, v, n, Stored(q, v), IF \E i \in 1..n : SameSlot(q[i], v) THEN n - 1 ELSE n)
<1> DEFINE s == Stored(q, v)
           m == IF \E i \in 1..n : SameSlot(q[i], v) THEN n - 1 ELSE n
<1>0. DOMAIN q = 1..Len(q) /\ Len(q) \in Nat /\ n \in Nat /\ n <= Len(q)
  BY LenProperties
<1>1. CASE \E i \in DOMAIN q : SameSlot(q[i], v)
  <2> DEFINE x == CHOOSE i \in DOMAIN q : SameSlot(q[i], v)
             a == SubSeq(q, 1, x - 1)
             b == SubSeq(q, x + 1, Len(q))
             p == a \o b
             old == [k \in 1..(Len(q) - 1) |-> IF k < x THEN k ELSE k + 1]
  <2>1. x \in 1..Len(q) /\ SameSlot(q[x], v)
    BY <1>0, <1>1
  <2>2. s = Append(p, v)
    BY <1>1 DEF Stored, RemoveAt
  <2> HIDE DEF x
  <2>3. /\ a \in Seq(Items) /\ Len(a) = x - 1
        /\ \A i \in 1..(x - 1) : a[i] = q[i]
    BY <1>0, <2>1, SubSeqProperties
  <2>4. /\ b \in Seq(Items) /\ Len(b) = Len(q) - x
        /\ \A i \in 1..(Len(q) - x) : b[i] = q[x + i]
    <3>1. x + 1 \in Int /\ Len(q) \in Int /\ \A i \in (x + 1)..Len(q) : q[i] \in Items
      BY <1>0, <2>1, ElementOfSeq
    <3>2. /\ b \in Seq(Items) /\ Len(b) = IF x + 1 <= Len(q) THEN (Len(q) - (x + 1)) + 1 ELSE 0
          /\ \A i \in 1..((Len(q) - (x + 1)) + 1) : b[i] = q[((x + 1) + i) - 1]
      BY <3>1, SubSeqProperties
    <3> HIDE DEF b
    <3>3. /\ (Len(q) - (x + 1)) + 1 = Len(q) - x /\ (~(x + 1 <= Len(q)) => Len(q) - x = 0)
          /\ \A i \in 1..(Len(q) - x) : ((x + 1) + i) - 1 = x + i
      <4>1. x \in 1..Len(q) /\ Len(q) \in Nat
        BY <1>0, <2>1
      <4> QED BY <4>1
    <3> QED BY <3>2, <3>3
  <2> HIDE DEF a, b
  <2>5. /\ p \in Seq(Items) /\ Len(p) = Len(a) + Len(b)
        /\ \A i \in 1..(Len(a) + Len(b)) : p[i] = IF i <= Len(a) THEN a[i] ELSE b[i - Len(a)]
    BY <2>3, <2>4, ConcatProperties
  <2> HIDE DEF p
  <2>6. Len(p) = Len(q) - 1
    BY <1>0, <2>1, <2>3, <2>4, <2>5
  <2>7. s \in Seq(Items) /\ Len(s) = Len(q) /\ s[Len(q)] = v /\ \A k \in 1..(Len(q) - 1) : s[k] = p[k]
    <3>1. /\ Append(p, v) \in Seq(Items) /\ Len(Append(p, v)) = Len(p) + 1
          /\ Append(p, v)[Len(p) + 1] = v /\ \A k \in 1..Len(p) : Append(p, v)[k] = p[k]
      BY <2>5, AppendProperties
    <3> HIDE DEF s
    <3> QED BY <1>0, <2>2, <2>6, <3>1
  <2> HIDE DEF s
  <2>8. ASSUME NEW k \in 1..(Len(q) - 1)
        PROVE  old[k] \in 1..Len(q) /\ s[k] = q[old[k]]
    <3>1. CASE k < x
      <4>1. k \in 1..(x - 1) /\ k <= Len(a) /\ k \in 1..(Len(a) + Len(b))
        BY <1>0, <2>1, <2>3, <2>4, <3>1
      <4>2. p[k] = q[k]
        BY <2>3, <2>5, <4>1
      <4> QED BY <1>0, <2>7, <3>1, <4>2
    <3>2. CASE ~(k < x)
      <4>1. k - (x - 1) \in 1..(Len(q) - x) /\ ~(k <= Len(a)) /\ k \in 1..(Len(a) + Len(b))
            /\ k - Len(a) = k - (x - 1) /\ x + (k - (x - 1)) = k + 1 /\ k + 1 \in 1..Len(q)
        BY <1>0, <2>1, <2>3, <2>4, <3>2
      <4>2. p[k] = b[k - (x - 1)]
        BY <2>5, <4>1
      <4>3. b[k - (x - 1)] = q[k + 1]
        BY <2>4, <4>1
      <4> QED BY <2>7, <3>2, <4>1, <4>2, <4>3
    <3> QED BY <3>1, <3>2
  <2>9. old \in [1..(Len(q) - 1) -> 1..Len(q)]
    BY <2>8
  <2>10. \A k, l \in 1..(Len(q) - 1) : k < l <=> old[k] < old[l]
    BY <1>0, <2>1
  <2>11. \A i \in 1..Len(q) : SameSlot(q[i], v) \/ \E k \in 1..(Len(q) - 1) : old[k] = i
    <3> SUFFICES ASSUME NEW i \in 1..Len(q), i # x
                 PROVE  \E k \in 1..(Len(q) - 1) : old[k] = i
      BY <2>1
    <3>1. CASE i < x
      <4>1. i \in 1..(Len(q) - 1) /\ old[i] = i
        BY <1>0, <2>1, <3>1
      <4> QED BY <4>1
    <3>2. CASE i > x
      <4>1. i - 1 \in 1..(Len(q) - 1) /\ ~(i - 1 < x) /\ (i - 1) + 1 = i
        BY <1>0, <2>1, <3>2
      <4>2. old[i - 1] = i
        BY <4>1
      <4> QED BY <4>1, <4>2
    <3> QED BY <1>0, <2>1, <3>1, <3>2
  <2>12. m \in 0..(Len(q) - 1) /\ \A k \in 1..(Len(q) - 1) : k <= m => old[k] <= n
    <3>1. CASE x <= n
      <4>1. \E i \in 1..n : SameSlot(q[i], v)
        BY <1>0, <2>1, <3>1
      <4>2. m = n - 1
        BY <4>1
      <4> HIDE DEF m
      <4> QED BY <1>0, <2>1, <3>1, <4>2
    <3>2. CASE ~(x <= n)
      <4>1. m = n \/ (m = n - 1 /\ n >= 1)
        BY <1>0
      <4> HIDE DEF m
      <4> QED BY <1>0, <2>1, <3>2, <4>1
    <3> QED BY <3>1, <3>2
  <2> HIDE DEF m, old
  <2>13. Len(s) \in Nat \ {0} /\ s[Len(s)] = v /\ Len(s) = Len(q)
    BY <1>0, <2>1, <2>7
  <2>14. /\ old \in [1..(Len(s) - 1) -> 1..Len(q)]
         /\ \A k \in 1..(Len(s) - 1) : s[k] = q[old[k]] /\ (k <= m => old[k] <= n)
         /\ \A k, l \in 1..(Len(s) - 1) : k < l <=> old[k] < old[l]
         /\ \A i \in 1..Len(q) :
               SameSlot(q[i], v) \/ \E k \in 1..(Len(s) - 1) : old[k] = i
    BY <2>8, <2>9, <2>10, <2>11, <2>12, <2>13
  <2> QED BY <2>7, <2>12, <2>13, <2>14 DEF s, m, KeepsOrder
<1>2. CASE ~\E i \in DOMAIN q : SameSlot(q[i], v)
  <2> DEFINE old == [k \in 1..Len(q) |-> k]
  <2>1. s = Append(q, v)
    BY <1>2 DEF Stored
  <2>2. s \in Seq(Items) /\ Len(s) = Len(q) + 1 /\ s[Len(q) + 1] = v /\ \A k \in 1..Len(q) : s[k] = q[k]
    BY <2>1, AppendProperties
  <2>3. m = n
    BY <1>0, <1>2
  <2> HIDE DEF s, m
  <2>4. Len(s) - 1 = Len(q) /\ Len(s) \in Nat \ {0} /\ s[Len(s)] = v /\ m \in 0..(Len(s) - 1)
    BY <1>0, <2>2, <2>3
  <2>5. old \in [1..(Len(s) - 1) -> 1..Len(q)] /\ \A k \in 1..Len(q) : old[k] = k
    BY <2>4
  <2> HIDE DEF old
  <2> QED BY <1>0, <2>2, <2>3, <2>4, <2>5 DEF s, m, KeepsOrder
<1> QED BY <1>1, <1>2

LEMMA CancelNotices ==
    ASSUME IInv, IInv', SourceKept, [Next]_vars, NoticeInv, Cancel
    PROVE  NoticeInv'
<1> USE HandoffConstants
<1>1. PICK n \in Attempts, j \in Jobs :
         /\ j = rec[Source][n].job /\ Exists(rec[Source], n) /\ ~Settled(rec[Source][n])
         /\ Save(Source, Merged(rec[Source], Item("cancel", j)), Item("cancel", j),
                 IF Source = Target THEN <<>> ELSE <<Item("job_cancel", j)>>)
  <2>1. rec[Source] \in [Attempts -> Attempt]
    BY DEF IInv, TypeOK
  <2> QED BY <2>1, CurrentJob DEF Cancel, IsCurrent
<1> DEFINE c == Item("cancel", j)
           e == IF Source = Target THEN <<>> ELSE <<Item("job_cancel", j)>>
           p == outbox[Source]
           t == Queued(p, c) \o e
           L == Len(p)
<1>2. /\ TypeOK /\ \A d \in Devices : outbox[d] \in Seq(Items) /\ inbox[d] \in Seq(Items)
      /\ rec[Source] \in [Attempts -> Attempt] /\ read[Target] \in Nat
  BY DEF IInv, TypeOK
<1>3. rec[Source][n].job = j /\ j[1] = n /\ ~rec[Source][n].cancelled
  BY <1>1, <1>2 DEF IInv, RecordInv, WellKept, Settled, Outcome, Terminal
<1>4. inbox' = inbox /\ read' = read /\ calledOff' = calledOff
  BY DEF Cancel, relay, envs
<1>5. Save(Source, Merged(rec[Source], c), c, e)
  BY <1>1
<1>6. c \in Items /\ c.kind = "cancel" /\ c.job = j
  BY <1>3, ItemType DEF Item, Updates
<1>7. /\ e \in Seq(Items) /\ DOMAIN e = 1..Len(e) /\ Len(e) \in Nat
      /\ \A i \in DOMAIN e : e[i].kind = "job_cancel" /\ e[i].job = j
  <2>1. Item("job_cancel", j) \in Items
    BY <1>3, ItemType DEF Envelopes
  <2>2. e \in Seq(Items) /\ \A i \in DOMAIN e : e[i] = Item("job_cancel", j)
    BY <2>1
  <2> HIDE DEF e
  <2> QED BY <2>2, LenProperties DEF Item
<1>8. Holds(rec'[Source], j) /\ rec'[Source][j[1]].cancelled
  <2>1. rec'[Source] = Merged(rec[Source], c)
    BY <1>2, <1>5 DEF Save, TypeOK
  <2> HIDE DEF c
  <2>2. /\ Merged(rec[Source], c)[n].job = j
        /\ Merged(rec[Source], c)[n].cancelled
    <3> DEFINE a == IF Exists(rec[Source], n) THEN rec[Source][n] ELSE Blank(c.job)
    <3>1. /\ Merged(rec[Source], c)[c.job[1]].job = a.job
          /\ Merged(rec[Source], c)[c.job[1]].cancelled = (a.cancelled \/ c.kind = "cancel")
      BY <1>2, <1>3, <1>6, MergedFields
    <3>2. a = rec[Source][n] /\ c.job[1] = n
      BY <1>1, <1>3, <1>6
    <3> HIDE DEF a
    <3> QED BY <1>3, <1>6, <3>1, <3>2
  <2> QED BY <1>3, <2>1, <2>2 DEF Holds
<1> HIDE DEF c, e
\* The requester called off nothing of j before.
<1>9. ASSUME NEW v \in Items, InFlight(v)
      PROVE  ~(v.kind = "cancel" /\ v.job[1] = n) /\ ~CallOff(v, j)
  <2>1. Truthful(v)
    BY <1>9 DEF IInv
  <2>2. ~(v.kind = "cancel" /\ v.job[1] = n)
    BY <1>3, <2>1 DEF Truthful
  <2>3. ~CallOff(v, j)
    BY <1>3, <1>9 DEF NoticeInv, CallOff
  <2> QED BY <2>2, <2>3
<1>10. \A i \in DOMAIN p : p[i] \in Items /\ InFlight(p[i])
  BY <1>2 DEF InFlight
<1>11. \A i \in DOMAIN inbox[Target] : inbox[Target][i] \in Items /\ InFlight(inbox[Target][i])
  BY <1>2 DEF InFlight
<1>12. \A i \in DOMAIN p : ~SameSlot(p[i], c)
  BY <1>3, <1>6, <1>9, <1>10 DEF SameSlot
<1>13. Queued(p, c) = Append(p, c)
  BY <1>12 DEF Queued
<1>14. /\ L \in Nat /\ DOMAIN p = 1..L /\ DOMAIN t = 1..(L + 1 + Len(e))
       /\ \A i \in 1..L : t[i] = p[i]
       /\ t[L + 1] = c
       /\ \A i \in 1..(L + 1 + Len(e)) : i > L + 1 => t[i] = e[i - (L + 1)] /\ i - (L + 1) \in 1..Len(e)
  <2>0. p \in Seq(Items)
    BY <1>2
  <2>1. /\ Append(p, c) \in Seq(Items) /\ Len(Append(p, c)) = L + 1
        /\ Append(p, c)[L + 1] = c /\ \A i \in 1..L : Append(p, c)[i] = p[i]
    BY <1>6, <2>0, AppendProperties
  <2> DEFINE a == Append(p, c)
  <2> HIDE DEF a
  <2>2. /\ a \o e \in Seq(Items) /\ Len(a \o e) = Len(a) + Len(e)
        /\ \A i \in 1..(Len(a) + Len(e)) : (a \o e)[i] = IF i <= Len(a) THEN a[i] ELSE e[i - Len(a)]
    BY <1>7, <2>1, ConcatProperties DEF a
  <2>3. DOMAIN (a \o e) = 1..(L + 1 + Len(e)) /\ L \in Nat /\ DOMAIN p = 1..L
    BY <2>0, <2>1, <2>2, LenProperties DEF a
  <2>4. t = a \o e
    BY <1>13 DEF a
  <2>5. \A i \in 1..(L + 1 + Len(e)) : t[i] = IF i <= L + 1 THEN a[i] ELSE e[i - (L + 1)]
    BY <2>1, <2>2, <2>4 DEF a
  <2>6. L + 1 \in 1..(L + 1 + Len(e)) /\ \A i \in 1..L : i \in 1..(L + 1 + Len(e)) /\ i <= L + 1
    BY <1>7, <2>3
  <2>7. \A i \in 1..(L + 1 + Len(e)) : i > L + 1 => ~(i <= L + 1) /\ i - (L + 1) \in 1..Len(e)
    BY <1>7, <2>3
  <2> HIDE DEF t
  <2> QED BY <2>1, <2>3, <2>4, <2>5, <2>6, <2>7 DEF a
<1>15. outbox'[Source] = t /\ \A d \in Devices : d # Source => outbox'[d] = outbox[d]
  BY <1>2, <1>5 DEF Save, TypeOK
<1>16. sent'[Source] = (sent[Source] /\ p # <<>>)
  <2>1. sent' = [sent EXCEPT ![Source] = sent[Source] /\ p # <<>> /\ ~SameSlot(Head(p), c)]
    BY <1>5 DEF Save
  <2>2. sent'[Source] = (sent[Source] /\ p # <<>> /\ ~SameSlot(Head(p), c))
    BY <1>2, <2>1 DEF TypeOK
  <2>3. p # <<>> => 1 \in DOMAIN p /\ Head(p) = p[1]
    BY <1>2
  <2> QED BY <1>12, <2>2, <2>3
<1>17. p # <<>> <=> L # 0
  BY <1>2, EmptySeq
<1>18. ASSUME NEW u \in Items, InFlight(u)', u.kind = "job_cancel"
       PROVE  Holds(rec'[Source], u.job) /\ rec'[Source][u.job[1]].cancelled
  <2>1. InFlight(u) \/ u = c \/ \E i \in DOMAIN e : e[i] = u
    BY <1>2, <1>4, <1>5, <1>6, <1>7, <1>18, SaveItems
  <2>2. u.job \in Jobs
    BY DEF Items
  <2>3. CASE InFlight(u)
    BY <1>18, <2>2, <2>3, CallsStayTrue DEF NoticeInv
  <2> QED BY <1>6, <1>7, <1>8, <1>18, <2>1, <2>3
<1> HIDE DEF t, L, p
<1>19. ASSUME NEW i \in Jobs, i # j PROVE CallInv(i)'
  <2>1. ASSUME NEW k \in DOMAIN t, Notice(t[k], i) \/ CallOff(t[k], i)
        PROVE  k \in DOMAIN p /\ t[k] = p[k]
    <3>1. CASE k \in 1..L
      BY <1>14, <3>1
    <3>2. CASE k = L + 1
      BY <1>6, <1>14, <1>19, <2>1, <3>2 DEF Notice, CallOff
    <3>3. CASE k > L + 1
      <4>1. t[k] = e[k - (L + 1)] /\ k - (L + 1) \in DOMAIN e
        BY <1>7, <1>14, <3>3
      <4> QED BY <1>7, <1>19, <2>1, <4>1 DEF Notice, CallOff
    <3> QED BY <1>7, <1>14, <3>1, <3>2, <3>3
  <2>2. \A k \in DOMAIN p : k \in DOMAIN t /\ t[k] = p[k]
    BY <1>7, <1>14
  <2>3. 1 \in DOMAIN p => sent'[Source] = sent[Source]
    <3>1. sent[Source] \in BOOLEAN
      BY <1>2 DEF TypeOK
    <3>2. 1 \in DOMAIN p => L # 0
      BY <1>14
    <3> QED BY <1>16, <1>17, <3>1, <3>2
  <2>4. OutboxKept(i)
    BY <1>15, <2>1, <2>2, <2>3 DEF OutboxKept, p
  <2> QED BY <1>2, <1>4, <2>4, CallKept DEF NoticeInv
<1>20. CallInv(j)'
  <2>1. ASSUME NEW k \in DOMAIN t PROVE (CallOff(t[k], j) => k > L + 1) /\ (Notice(t[k], j) => k = L + 1)
    <3>1. CASE k \in 1..L
      BY <1>3, <1>9, <1>10, <1>14, <3>1 DEF Notice
    <3>2. CASE k = L + 1
      BY <1>6, <1>14, <3>2 DEF CallOff
    <3>3. CASE k > L + 1
      <4>1. t[k] = e[k - (L + 1)] /\ k - (L + 1) \in DOMAIN e
        BY <1>7, <1>14, <3>3
      <4> QED BY <1>7, <3>3, <4>1 DEF Notice
    <3> QED BY <1>7, <1>14, <3>1, <3>2, <3>3
  <2>2. L + 1 \in DOMAIN t /\ Notice(t[L + 1], j) /\ DOMAIN t \subseteq Nat
    BY <1>6, <1>7, <1>14 DEF Notice
  <2>3. LeavesInOrder(j)'
    BY <1>14, <1>15, <2>1, <2>2 DEF LeavesInOrder
  <2>4. \A k \in DOMAIN inbox[Target] : ~CallOff(inbox[Target][k], j) /\ ~Notice(inbox[Target][k], j)
    BY <1>3, <1>9, <1>11 DEF Notice
  <2>5. StoredInOrder(j)'
    <3>1. ASSUME NEW k \in DOMAIN t, Notice(t[k], j), k = 1 PROVE ~sent'[Source]
      <4>1. L = 0
        BY <1>14, <2>1, <3>1
      <4> QED BY <1>16, <1>17, <4>1
    <3> QED BY <1>4, <1>15, <2>4, <3>1 DEF StoredInOrder
  <2>6. ReadInOrder(j)'
    BY <1>4, <2>4 DEF ReadInOrder
  <2>7. j \in calledOff' => Told(j)'
    BY <1>3, <1>4, ToldStays DEF NoticeInv, CallInv
  <2> QED BY <2>3, <2>5, <2>6, <2>7 DEF CallInv
<1>21. \A d \in Devices : \A i \in DOMAIN outbox'[d] : outbox'[d][i].kind \in Notices => d = Source
  BY <1>15 DEF NoticeInv
<1>22. read'[Target] <= Len(inbox'[Target]) /\ (Target \notin Restarting => read'[Target] = 0)
  BY <1>4 DEF NoticeInv
<1> QED BY <1>18, <1>19, <1>20, <1>21, <1>22 DEF NoticeInv

\* Target moves on in its log, by n blobs that it lets go of.
LEMMA CallsPulled ==
    ASSUME IInv, [Next]_vars, NEW j \in Jobs, CallInv(j), outbox' = outbox, sent' = sent,
           NEW n \in Nat, n <= Len(inbox[Target]), read'[Target] \in Nat,
           DOMAIN inbox'[Target] = 1..(Len(inbox[Target]) - n),
           \A i \in 1..(Len(inbox[Target]) - n) : inbox'[Target][i] = inbox[Target][n + i],
           \A k \in DOMAIN inbox[Target] :
              k <= n + read'[Target] /\ Notice(inbox[Target][k], j) => Told(j)',
           j \in calledOff' => Told(j)'
    PROVE  CallInv(j)'
<1> DEFINE L == Len(inbox[Target])
<1>0. L \in Nat /\ DOMAIN inbox[Target] = 1..L
  BY HandoffConstants, LenProperties DEF IInv, TypeOK
<1> HIDE DEF L
<1>1. Told(j) => Told(j)'
  BY ToldStays
<1>2. /\ DOMAIN inbox'[Target] = 1..(L - n)
      /\ \A i \in 1..(L - n) : n + i \in 1..L /\ inbox'[Target][i] = inbox[Target][n + i]
      /\ \A k \in 1..L : k <= n \/ (k - n \in 1..(L - n) /\ inbox'[Target][k - n] = inbox[Target][k])
  <2>1. \A i \in 1..(L - n) : n + i \in 1..L
    BY <1>0
  <2>2. \A k \in 1..L : k <= n \/ (k - n \in 1..(L - n) /\ n + (k - n) = k)
    BY <1>0
  <2> QED BY <2>1, <2>2 DEF L
<1>3. \A k \in 1..L : k <= n /\ Notice(inbox[Target][k], j) => Told(j)'
  BY <1>0
<1>4. Arrived(j) => Arrived(j)'
  BY <1>0, <1>1, <1>2, <1>3 DEF Arrived
<1>5. LeavesInOrder(j)'
  BY <1>4 DEF CallInv, LeavesInOrder
<1>6. StoredInOrder(j)'
  <2>1. \A i \in DOMAIN inbox'[Target] : \E k \in DOMAIN inbox[Target] : inbox'[Target][i] = inbox[Target][k]
    BY <1>0, <1>2
  <2> QED BY <1>4, <2>1 DEF CallInv, StoredInOrder
<1>7. ASSUME NEW i \in 1..(L - n), CallOff(inbox'[Target][i], j)
      PROVE  Told(j)' \/ \E k \in 1..(L - n) : k < i /\ Notice(inbox'[Target][k], j)
  <2>1. n + i \in 1..L /\ CallOff(inbox[Target][n + i], j)
    BY <1>2, <1>7
  <2>2. Told(j) \/ \E k \in 1..L : k < n + i /\ Notice(inbox[Target][k], j)
    BY <1>0, <2>1 DEF CallInv, ReadInOrder
  <2>3. ASSUME NEW k \in 1..L, k < n + i, Notice(inbox[Target][k], j)
        PROVE  Told(j)' \/ (k - n \in 1..(L - n) /\ k - n < i /\ Notice(inbox'[Target][k - n], j))
    <3>1. k <= n \/ (k - n < i /\ k - n \in 1..(L - n) /\ inbox'[Target][k - n] = inbox[Target][k])
      BY <1>0, <1>2, <2>3
    <3> QED BY <1>3, <2>3, <3>1
  <2> QED BY <1>1, <2>2, <2>3
<1>8. ASSUME NEW k \in 1..(L - n), k <= read'[Target], Notice(inbox'[Target][k], j)
      PROVE  Told(j)'
  <2>1. n + k \in 1..L /\ n + k <= n + read'[Target] /\ Notice(inbox[Target][n + k], j)
    BY <1>0, <1>2, <1>8
  <2> QED BY <1>0, <2>1
<1>9. ReadInOrder(j)'
  BY <1>2, <1>7, <1>8 DEF ReadInOrder
<1> QED BY <1>5, <1>6, <1>9 DEF CallInv

LEMMA PulledNotices ==
    ASSUME IInv, IInv', SourceKept, [Next]_vars, NoticeInv, outbox' = outbox,
           \A v : InFlight(v)' => InFlight(v),
           read'[Target] <= Len(inbox'[Target]), Target \notin Restarting => read'[Target] = 0,
           \A j \in Jobs : CallInv(j)'
    PROVE  NoticeInv'
<1>1. ASSUME NEW u \in Items, InFlight(u)', u.kind = "job_cancel"
      PROVE  Holds(rec'[Source], u.job) /\ rec'[Source][u.job[1]].cancelled
  <2>1. u.job \in Jobs
    BY DEF Items
  <2> QED BY <1>1, <2>1, CallsStayTrue DEF NoticeInv
<1>2. \A d \in Devices : \A i \in DOMAIN outbox'[d] : outbox'[d][i].kind \in Notices => d = Source
  BY DEF NoticeInv
<1> QED BY <1>1, <1>2 DEF NoticeInv

LEMMA SavePageNotices ==
    ASSUME IInv, IInv', SourceKept, [Next]_vars, NoticeInv, NEW d \in Devices, SavePage(d)
    PROVE  NoticeInv'
<1> USE HandoffConstants
<1> DEFINE q == inbox[Target]
           n == IF d = Target THEN read[Target] ELSE 0
<1>1. /\ TypeOK /\ q \in Seq(Items) /\ Len(q) \in Nat /\ DOMAIN q = 1..Len(q) /\ read[Target] \in Nat
      /\ inbox \in [Devices -> Seq(Items)] /\ read \in [Devices -> Nat]
  BY LenProperties DEF IInv, TypeOK
<1>2. outbox' = outbox /\ sent' = sent /\ calledOff' = calledOff
  BY DEF SavePage, store, envs
<1>3. read[Target] <= Len(q) /\ (Target \notin Restarting => read[Target] = 0)
  BY DEF NoticeInv
<1>4. n \in Nat /\ n <= Len(q) /\ n <= read[Target]
  BY <1>1, <1>3
<1>5. /\ inbox'[Target] \in Seq(Items) /\ Len(inbox'[Target]) = Len(q) - n
      /\ \A i \in 1..(Len(q) - n) : inbox'[Target][i] = q[n + i]
      /\ n + read'[Target] = read[Target] /\ read'[Target] \in {0, read[Target]}
  <2>1. CASE d # Target
    BY <1>1, <2>1 DEF SavePage
  <2>2. CASE d = Target
    <3>1. inbox'[Target] = SubSeq(q, n + 1, Len(q)) /\ read'[Target] = 0 /\ n = read[Target]
      BY <1>1, <2>2 DEF SavePage
    <3>2. n + 1 \in Int /\ Len(q) \in Int /\ \A i \in (n + 1)..Len(q) : q[i] \in Items
      BY <1>1, <1>4, ElementOfSeq
    <3> HIDE DEF n, q
    <3>3. /\ SubSeq(q, n + 1, Len(q)) \in Seq(Items)
          /\ Len(SubSeq(q, n + 1, Len(q))) = IF n + 1 <= Len(q) THEN (Len(q) - (n + 1)) + 1 ELSE 0
          /\ \A i \in 1..((Len(q) - (n + 1)) + 1) : SubSeq(q, n + 1, Len(q))[i] = q[((n + 1) + i) - 1]
      BY <3>2, SubSeqProperties
    <3>4. /\ (Len(q) - (n + 1)) + 1 = Len(q) - n /\ (~(n + 1 <= Len(q)) => Len(q) - n = 0)
          /\ \A i \in 1..(Len(q) - n) : ((n + 1) + i) - 1 = n + i
      <4>1. Len(q) \in Nat /\ n \in Nat /\ n <= Len(q)
        BY <1>1, <1>4
      <4> QED BY <4>1
    <3>5. n + 0 = n
      BY <1>4
    <3> QED BY <3>1, <3>3, <3>4, <3>5
  <2> QED BY <2>1, <2>2
<1>6. /\ DOMAIN inbox'[Target] = 1..(Len(q) - n) /\ read'[Target] \in Nat
      /\ read'[Target] <= Len(inbox'[Target]) /\ (Target \notin Restarting => read'[Target] = 0)
  BY <1>1, <1>3, <1>4, <1>5, LenProperties
<1> HIDE DEF n
<1>7. ASSUME NEW j \in Jobs PROVE CallInv(j)'
  <2>1. CallInv(j) /\ (Told(j) => Told(j)')
    BY ToldStays DEF NoticeInv
  <2>2. \A k \in DOMAIN q : k <= n + read'[Target] /\ Notice(q[k], j) => Told(j)'
    BY <1>5, <2>1 DEF CallInv, ReadInOrder
  <2>3. j \in calledOff' => Told(j)'
    BY <1>2, <2>1 DEF CallInv
  <2> QED BY <1>2, <1>4, <1>5, <1>6, <2>1, <2>2, <2>3, CallsPulled
<1>8. \A v : InFlight(v)' => InFlight(v)
  BY <1>1, TransportItems
<1> QED BY <1>2, <1>6, <1>7, <1>8, PulledNotices

LEMMA AppliedTells ==
    ASSUME IInv, [Next]_vars, NEW j \in Jobs, ApplyUpdate(Target), Notice(Next1(Target), j)
    PROVE  Told(j)'
<1> USE HandoffConstants
<1> DEFINE u == Next1(Target)
           r == rec[Target]
<1>1. TypeOK /\ r \in [Attempts -> Attempt] /\ rec \in [Devices -> [Attempts -> Attempt]]
  BY DEF IInv, TypeOK
<1>2. u \in Items /\ u.kind = "cancel" /\ u.job = j /\ j # NoJob
  BY <1>1, ApplyingType, JobNumber DEF ApplyUpdate, Notice
<1>3. CASE Mergeable(r, u)
  <2> DEFINE s == Merged(r, u)
             a == IF Exists(r, u.job[1]) THEN r[u.job[1]] ELSE Blank(u.job)
  <2>1. rec' = [rec EXCEPT ![Target] = s]
    BY <1>3 DEF ApplyUpdate, SaveQuietly
  <2>2. rec'[Target] = s
    BY <1>1, <2>1
  <2> HIDE DEF u
  <2>3. s[u.job[1]].cancelled = (a.cancelled \/ u.kind = "cancel") /\ s[u.job[1]].job = a.job
    BY <1>1, <1>2, MergedFields
  <2>4. a.job = j
    BY <1>2, <1>3 DEF Mergeable, Exists, Blank
  <2> HIDE DEF s, a
  <2>5. s[j[1]].cancelled /\ s[j[1]].job = j
    BY <1>2, <2>3, <2>4
  <2> QED BY <2>2, <2>5 DEF Told
<1>4. CASE ~Mergeable(r, u)
  <2>1. Told(j)
    BY <1>2, <1>4 DEF Told, Mergeable
  <2> QED BY <2>1, ToldStays
<1> QED BY <1>3, <1>4

LEMMA ApplyNotices ==
    ASSUME IInv, IInv', SourceKept, [Next]_vars, NoticeInv,
           OpenJob \/ OpenCancel \/ Expire \/ \E d \in Devices : ApplyUpdate(d)
    PROVE  NoticeInv'
<1> USE HandoffConstants
<1>1. PICK d \in Devices : Applying(d) /\ (ApplyUpdate(d) \/ (d = Target /\ (OpenJob \/ OpenCancel \/ Expire)))
  BY DEF OpenJob, OpenCancel, Expire, ApplyUpdate
<1> DEFINE q == inbox[Target]
           R == read[Target]
           u == Next1(Target)
           n == IF d = Target /\ Target \notin Restarting THEN 1 ELSE 0
<1>2. /\ TypeOK /\ q \in Seq(Items) /\ Len(q) \in Nat /\ DOMAIN q = 1..Len(q) /\ R \in Nat
      /\ inbox \in [Devices -> Seq(Items)] /\ read \in [Devices -> Nat]
  BY LenProperties DEF IInv, TypeOK
<1>3. outbox' = outbox /\ sent' = sent
  BY <1>1 DEF OpenJob, OpenCancel, Expire, ApplyUpdate, SaveQuietly, store
<1>4. R <= Len(q) /\ (Target \notin Restarting => R = 0)
  BY DEF NoticeInv
<1>5. d = Target => R + 1 \in 1..Len(q) /\ u = q[R + 1] /\ u \in Items
  BY <1>1, <1>2, ApplyingType DEF Next1
<1>6. /\ n \in {0, 1} /\ n <= Len(q) /\ inbox'[Target] \in Seq(Items) /\ Len(inbox'[Target]) = Len(q) - n
      /\ \A i \in 1..(Len(q) - n) : inbox'[Target][i] = q[n + i]
      /\ n + read'[Target] = (IF d = Target THEN R + 1 ELSE R)
      /\ read'[Target] = (IF d = Target /\ Target \in Restarting THEN R + 1 ELSE R)
  <2>1. CASE ~(d = Target /\ Target \notin Restarting)
    <3>1. inbox'[Target] = q /\ n = 0
      BY <1>1, <1>2, <2>1 DEF Applying
    <3>2. read'[Target] = IF d = Target THEN R + 1 ELSE R
      BY <1>1, <1>2, <2>1 DEF Applying
    <3>3. 0 <= Len(q) /\ 0 + R = R /\ 0 + (R + 1) = R + 1 /\ Len(q) - 0 = Len(q)
          /\ \A i \in 1..Len(q) : 0 + i = i
      BY <1>2
    <3>4. d = Target => Target \in Restarting
      BY <2>1
    <3> HIDE DEF n, q, R
    <3> QED BY <1>2, <3>1, <3>2, <3>3, <3>4
  <2>2. CASE d = Target /\ Target \notin Restarting
    <3>1. inbox' = [inbox EXCEPT ![Target] = Tail(q)] /\ read' = read
      BY <1>1, <2>2 DEF Applying
    <3>2. inbox'[Target] = Tail(q) /\ read'[Target] = R /\ n = 1 /\ R = 0 /\ q # <<>>
      BY <1>2, <1>4, <1>5, <2>2, <3>1, EmptySeq
    <3>3. Tail(q) \in Seq(Items) /\ Len(Tail(q)) = Len(q) - 1 /\ \A i \in 1..(Len(q) - 1) : Tail(q)[i] = q[i + 1]
      BY <1>2, <3>2, HeadTailProperties
    <3>4. 1 <= Len(q) /\ \A i \in 1..(Len(q) - 1) : i + 1 = 1 + i
      BY <1>2, <1>5, <2>2
    <3> QED BY <2>2, <3>2, <3>3, <3>4
  <2> QED BY <2>1, <2>2
<1> HIDE DEF n
<1>7. /\ n \in Nat /\ DOMAIN inbox'[Target] = 1..(Len(q) - n) /\ read'[Target] \in Nat
      /\ read'[Target] <= Len(inbox'[Target]) /\ (Target \notin Restarting => read'[Target] = 0)
  <2>1. DOMAIN inbox'[Target] = 1..(Len(q) - n)
    BY <1>6, LenProperties
  <2>2. n + read'[Target] <= Len(q) /\ read'[Target] \in Nat
    <3>1. R \in Nat /\ Len(q) \in Nat /\ R <= Len(q) /\ (d = Target => R + 1 <= Len(q))
      BY <1>2, <1>4, <1>5
    <3>2. n + read'[Target] = (IF d = Target THEN R + 1 ELSE R) /\ read'[Target] = (IF d = Target /\ Target \in Restarting THEN R + 1 ELSE R)
      BY <1>6
    <3> HIDE DEF q, R
    <3> QED BY <3>1, <3>2
  <2>3. n + read'[Target] <= Len(q) => read'[Target] <= Len(q) - n
    <3>0. n \in Nat
      BY <1>6
    <3>1. n \in Nat /\ Len(q) \in Nat /\ read'[Target] \in Nat
      BY <1>2, <2>2, <3>0
    <3> HIDE DEF q
    <3> QED BY <3>1
  <2> QED BY <1>4, <1>6, <2>1, <2>2, <2>3
<1> HIDE DEF q, R
<1>8. ASSUME NEW j \in Jobs PROVE CallInv(j)'
  <2>1. CallInv(j) /\ (Told(j) => Told(j)')
    BY ToldStays DEF NoticeInv
  <2>2. \A k \in DOMAIN q : k <= R /\ Notice(q[k], j) => Told(j)
    BY <2>1 DEF CallInv, ReadInOrder, q, R
  <2>3. d = Target /\ Notice(u, j) => Told(j)'
    <3>1. "cancel" \notin Envelopes
      BY DEF Envelopes
    <3>2. d = Target /\ Notice(u, j) => ApplyUpdate(Target)
      BY <1>1, <3>1 DEF OpenJob, OpenCancel, Expire, Notice
    <3> QED BY <3>2, AppliedTells
  <2>4. ASSUME NEW k \in DOMAIN q, k <= n + read'[Target], Notice(q[k], j) PROVE Told(j)'
    <3>1. k <= R \/ (d = Target /\ k = R + 1)
      <4>1. k \in Int /\ R \in Int
        BY <1>2, <2>4
      <4>2. n + read'[Target] = IF d = Target THEN R + 1 ELSE R
        BY <1>6
      <4>3. k <= IF d = Target THEN R + 1 ELSE R
        BY <2>4, <4>2
      <4> HIDE DEF q, R, n
      <4> QED BY <4>1, <4>3
    <3> QED BY <1>5, <2>1, <2>2, <2>3, <2>4, <3>1
  <2>5. ASSUME j \in calledOff' PROVE Told(j)'
    <3>1. CASE j \in calledOff
      BY <2>1, <3>1 DEF CallInv
    <3>2. CASE j \notin calledOff
      <4>1. d = Target /\ CallOff(u, j)
        BY <1>1, <2>5, <3>2 DEF OpenJob, OpenCancel, Expire, ApplyUpdate, envs, CallOff
      <4>2. R + 1 \in DOMAIN q /\ CallOff(q[R + 1], j)
        BY <1>2, <1>5, <4>1
      <4>3. Told(j) \/ \E k \in DOMAIN q : k < R + 1 /\ Notice(q[k], j)
        BY <2>1, <4>2 DEF CallInv, ReadInOrder, q
      <4>4. \A k \in DOMAIN q : k < R + 1 => k <= R
        BY <1>2
      <4> QED BY <2>1, <2>2, <4>3, <4>4
    <3> QED BY <3>1, <3>2
  <2> QED BY <1>3, <1>6, <1>7, <2>1, <2>4, <2>5, CallsPulled DEF q
<1>9. \A v : InFlight(v)' => InFlight(v)
  BY <1>1, <1>2, <1>3, ApplyingItems
<1> QED BY <1>3, <1>7, <1>8, <1>9, PulledNotices DEF q

LEMMA UploadMoves ==
    ASSUME TypeOK, NEW v \in Items, Upload(v), read[Target] <= Len(inbox[Target])
    PROVE  LET q == inbox[Target]
               s == inbox'[Target]
           IN  /\ DOMAIN s = 1..Len(s) /\ Len(s) \in Nat \ {0} /\ s[Len(s)] = v
               /\ read'[Target] \in 0..(Len(s) - 1) /\ (read[Target] = 0 => read'[Target] = 0)
               /\ \E old \in [1..(Len(s) - 1) -> DOMAIN q] :
                     /\ \A k \in 1..(Len(s) - 1) : s[k] = q[old[k]] /\ (k <= read'[Target] => old[k] <= read[Target])
                     /\ \A k, l \in 1..(Len(s) - 1) : k < l <=> old[k] < old[l]
                     /\ \A i \in DOMAIN q :
                           SameSlot(q[i], v) \/ \E k \in 1..(Len(s) - 1) : old[k] = i
<1> USE HandoffConstants
<1> DEFINE q == inbox[Target]
           R == read[Target]
           s == Stored(q, v)
           m == IF \E i \in 1..R : SameSlot(q[i], v) THEN R - 1 ELSE R
<1>1. q \in Seq(Items) /\ Len(q) \in Nat /\ DOMAIN q = 1..Len(q) /\ R \in Nat /\ R \in 0..Len(q)
  BY LenProperties DEF TypeOK
<1>2. Addressed(v, Target)
  BY DEF Addressed
<1>3. inbox'[Target] = s
  BY <1>2 DEF Upload
<1>4. read'[Target] = m
  BY <1>2 DEF Upload, SupersedesRead
<1> HIDE DEF q, R
<1>5. KeepsOrder(q, v, R, s, m)
  BY <1>1, StoredMoves
<1>6. R = 0 => m = 0
  BY <1>1
<1>7. DOMAIN s = 1..Len(s)
  BY <1>5, LenProperties DEF KeepsOrder
<1> HIDE DEF s, m
<1> DEFINE t == inbox'[Target]
           S == read'[Target]
<1>8. KeepsOrder(q, v, R, t, S) /\ (R = 0 => S = 0) /\ DOMAIN t = 1..Len(t)
  BY <1>3, <1>4, <1>5, <1>6, <1>7
<1> HIDE DEF t, S
<1>9. /\ DOMAIN t = 1..Len(t) /\ Len(t) \in Nat \ {0} /\ t[Len(t)] = v
      /\ S \in 0..(Len(t) - 1) /\ (R = 0 => S = 0)
      /\ \E old \in [1..(Len(t) - 1) -> DOMAIN q] :
            /\ \A k \in 1..(Len(t) - 1) : t[k] = q[old[k]] /\ (k <= S => old[k] <= R)
            /\ \A k, l \in 1..(Len(t) - 1) : k < l <=> old[k] < old[l]
            /\ \A i \in DOMAIN q : SameSlot(q[i], v) \/ \E k \in 1..(Len(t) - 1) : old[k] = i
  BY <1>1, <1>8 DEF KeepsOrder
<1> QED BY <1>9 DEF q, R, t, S

LEMMA UploadCalls ==
    ASSUME IInv, [Next]_vars, NEW j \in Jobs, CallInv(j), read[Target] <= Len(inbox[Target]),
           NEW v \in Items, InFlight(v), Upload(v),
           CallOff(v, j) => Arrived(j),
           Notice(v, j) => \A k \in DOMAIN inbox[Target] : ~CallOff(inbox[Target][k], j)
    PROVE  /\ Arrived(j) \/ Notice(v, j) => Arrived(j)'
           /\ ReadInOrder(j)'
           /\ \A i \in DOMAIN inbox'[Target] : CallOff(inbox'[Target][i], j) =>
                 CallOff(v, j) \/ \E k \in DOMAIN inbox[Target] : CallOff(inbox[Target][k], j)
<1> USE HandoffConstants
<1> DEFINE q == inbox[Target]
           s == inbox'[Target]
           M == Len(s) - 1
<1>1. PICK old \in [1..M -> DOMAIN q] :
         /\ \A k \in 1..M : s[k] = q[old[k]] /\ (k <= read'[Target] => old[k] <= read[Target])
         /\ \A k, l \in 1..M : k < l <=> old[k] < old[l]
         /\ \A i \in DOMAIN q : SameSlot(q[i], v) \/ \E k \in 1..M : old[k] = i
  BY UploadMoves DEF IInv
<1>2. DOMAIN s = 1..Len(s) /\ Len(s) \in Nat \ {0} /\ s[Len(s)] = v /\ read'[Target] \in 0..M
  BY UploadMoves DEF IInv
<1>3. M \in Nat /\ Len(s) \in DOMAIN s /\ (\A k \in 1..M : k \in DOMAIN s /\ k < Len(s))
      /\ \A k \in DOMAIN s : k = Len(s) \/ k \in 1..M
  <2>1. Len(s) \in Nat \ {0}
    BY <1>2
  <2> QED BY <1>2, <2>1
<1>4. \A i \in DOMAIN q : q[i] \in Items /\ InFlight(q[i])
  BY DEF IInv, TypeOK, InFlight
\* A blob in the slot of a cancellation of j is one of j itself.
<1>5. ASSUME NEW i \in DOMAIN q, Notice(q[i], j), SameSlot(q[i], v) PROVE Notice(v, j)
  <2>1. Truthful(q[i]) /\ Truthful(v)
    BY <1>4 DEF IInv
  <2> QED BY <1>5, <2>1 DEF Truthful, Notice, SameSlot
<1>6. Told(j) => Told(j)'
  BY ToldStays
<1> HIDE DEF M, q, s
<1>7. ASSUME NEW i \in DOMAIN q, Notice(q[i], j), ~Notice(v, j)
      PROVE  \E k \in 1..M : old[k] = i /\ Notice(s[k], j)
  BY <1>1, <1>5, <1>7
<1>8. ASSUME Arrived(j) \/ Notice(v, j) PROVE Arrived(j)'
  <2>1. CASE Notice(v, j)
    BY <1>2, <1>3, <2>1 DEF Arrived, s
  <2>2. CASE Arrived(j) /\ ~Notice(v, j)
    BY <1>3, <1>6, <1>7, <2>2 DEF Arrived, q, s
  <2> QED BY <1>8, <2>1, <2>2
<1>9. ASSUME NEW i \in DOMAIN s, CallOff(s[i], j)
      PROVE  CallOff(v, j) \/ \E k \in DOMAIN q : CallOff(q[k], j)
  BY <1>1, <1>2, <1>3, <1>9
<1>10. ASSUME NEW i \in DOMAIN s, CallOff(s[i], j)
       PROVE  Told(j)' \/ \E k \in DOMAIN s : k < i /\ Notice(s[k], j)
  <2>1. CASE i = Len(s)
    <3>1. CallOff(v, j) /\ ~Notice(v, j)
      BY <1>2, <1>10, <2>1 DEF CallOff, Notice
    <3>2. Told(j) \/ \E k \in DOMAIN q : Notice(q[k], j)
      BY <3>1 DEF Arrived, q
    <3> QED BY <1>3, <1>6, <1>7, <2>1, <3>1, <3>2
  <2>2. CASE i \in 1..M
    <3>1. old[i] \in DOMAIN q /\ CallOff(q[old[i]], j)
      BY <1>1, <1>10, <2>2
    <3>2. ~Notice(v, j)
      BY <3>1 DEF q
    <3>3. Told(j) \/ \E l \in DOMAIN q : l < old[i] /\ Notice(q[l], j)
      BY <3>1 DEF CallInv, ReadInOrder, q
    <3>4. ASSUME NEW l \in DOMAIN q, l < old[i], Notice(q[l], j)
          PROVE  \E k \in DOMAIN s : k < i /\ Notice(s[k], j)
      <4>1. PICK k \in 1..M : old[k] = l /\ Notice(s[k], j)
        BY <1>7, <3>2, <3>4
      <4> QED BY <1>1, <1>3, <2>2, <3>4, <4>1
    <3> QED BY <1>6, <3>3, <3>4
  <2> QED BY <1>3, <2>1, <2>2
<1>11. ASSUME NEW k \in DOMAIN s, k <= read'[Target], Notice(s[k], j) PROVE Told(j)'
  <2>1. k \in 1..M
    <3>1. k \in 1..Len(s) /\ read'[Target] \in 0..M /\ M \in Nat
      BY <1>2, <1>3
    <3> QED BY <1>11, <3>1
  <2>2. old[k] \in DOMAIN q /\ old[k] <= read[Target] /\ Notice(q[old[k]], j)
    BY <1>1, <1>11, <2>1
  <2> QED BY <1>6, <2>2 DEF CallInv, ReadInOrder, q
<1>12. ReadInOrder(j)'
  BY <1>10, <1>11 DEF ReadInOrder, s
<1> QED BY <1>8, <1>9, <1>12 DEF q, s

\* What an upload does to the relay, and what no upload does.
LEMMA RelayCalls ==
    ASSUME IInv, [Next]_vars, NEW j \in Jobs, CallInv(j), read[Target] <= Len(inbox[Target]),
           NEW v \in Items, InFlight(v), NEW again,
           IF again THEN UNCHANGED relay ELSE Upload(v),
           CallOff(v, j) => Arrived(j),
           Notice(v, j) => IF again THEN Arrived(j)
                           ELSE \A k \in DOMAIN inbox[Target] : ~CallOff(inbox[Target][k], j)
    PROVE  /\ Arrived(j) \/ Notice(v, j) => Arrived(j)'
           /\ ReadInOrder(j)'
           /\ \A i \in DOMAIN inbox'[Target] : CallOff(inbox'[Target][i], j) =>
                 CallOff(v, j) \/ \E k \in DOMAIN inbox[Target] : CallOff(inbox[Target][k], j)
<1>1. Told(j) => Told(j)'
  BY ToldStays
<1>2. CASE again
  <2>1. inbox' = inbox /\ read' = read
    BY <1>2 DEF relay
  <2> QED BY <1>1, <1>2, <2>1 DEF Arrived, CallInv, ReadInOrder
<1>3. CASE ~again
  BY <1>3, UploadCalls
<1> QED BY <1>2, <1>3

\* One step of the requester's outbox: its head is stored, and leaves when answered.
LEMMA SourceDrainCalls ==
    ASSUME IInv, [Next]_vars, NoticeInv, NEW j \in Jobs, NEW answered \in BOOLEAN, Drain(Source, answered)
    PROVE  CallInv(j)'
<1> USE HandoffConstants
<1> DEFINE p == outbox[Source]
           t == outbox'[Source]
           v == Head(p)
           again == sent[Source] /\ Known(v)
           n == IF answered THEN 1 ELSE 0
<1>1. /\ TypeOK /\ p \in Seq(Items) /\ p # <<>> /\ outbox \in [Devices -> Seq(Items)]
      /\ sent \in [Devices -> BOOLEAN]
  BY DEF IInv, TypeOK, Drain
<1>2. /\ DOMAIN p = 1..Len(p) /\ Len(p) \in Nat /\ 1 \in DOMAIN p /\ p[1] = v /\ v \in Items
      /\ Tail(p) \in Seq(Items) /\ Len(Tail(p)) = Len(p) - 1
      /\ \A i \in 1..(Len(p) - 1) : Tail(p)[i] = p[i + 1]
  BY <1>1, HeadTailProperties, EmptySeq, LenProperties
<1>3. IF again THEN UNCHANGED relay ELSE Upload(v)
  BY DEF Drain
<1>4. sent'[Source] = ~answered /\ calledOff' = calledOff
  BY <1>1 DEF Drain, envs
<1>5. /\ DOMAIN t = 1..(Len(p) - n) /\ n \in {0, 1} /\ n <= Len(p)
      /\ \A i \in 1..(Len(p) - n) : t[i] = p[i + n]
  <2>1. outbox' = [outbox EXCEPT ![Source] = IF answered THEN Tail(p) ELSE p]
    BY DEF Drain
  <2>2. t = IF answered THEN Tail(p) ELSE p
    BY <1>1, <2>1
  <2>3. CASE answered
    <3>1. t = Tail(p) /\ n = 1 /\ DOMAIN Tail(p) = 1..Len(Tail(p))
      BY <1>2, <2>2, <2>3, LenProperties
    <3> HIDE DEF n, t, p
    <3> QED BY <1>2, <3>1
  <2>4. CASE ~answered
    <3>1. t = p /\ n = 0
      BY <2>2, <2>4
    <3>2. Len(p) - 0 = Len(p) /\ 0 <= Len(p) /\ \A i \in 1..Len(p) : i + 0 = i
      BY <1>2
    <3> HIDE DEF n, t, p
    <3> QED BY <1>2, <3>1, <3>2
  <2> QED BY <2>3, <2>4
<1>6. (n = 0 => sent'[Source] /\ ~answered) /\ (n = 1 => ~sent'[Source])
  <2>0. 0 # 1
    OBVIOUS
  <2>1. CASE answered
    <3>1. n = 1 /\ (answered = TRUE)
      BY <2>1
    <3>2. sent'[Source] = FALSE
      BY <1>4, <3>1
    <3> HIDE DEF n
    <3> QED BY <2>0, <3>1, <3>2
  <2>2. CASE ~answered
    <3>1. n = 0 /\ (answered = FALSE)
      BY <2>2
    <3>2. sent'[Source] = TRUE
      BY <1>4, <3>1
    <3> HIDE DEF n
    <3> QED BY <2>0, <3>1, <3>2
  <2> QED BY <2>1, <2>2
<1> HIDE DEF n, again, p, t, v
<1>7. /\ \A i \in 1..(Len(p) - n) : i + n \in DOMAIN p
      /\ \A i \in DOMAIN p : i = 1 \/ (i - n \in DOMAIN t /\ t[i - n] = p[i] /\ i # 1)
  <2>1. \A i \in 1..(Len(p) - n) : i + n \in 1..Len(p)
    <3>1. n \in {0, 1} /\ Len(p) \in Nat
      BY <1>2, <1>5
    <3> QED BY <3>1
  <2>2. \A i \in 1..Len(p) : i = 1 \/ (i - n \in 1..(Len(p) - n) /\ (i - n) + n = i /\ i # 1)
    <3>1. n \in {0, 1} /\ Len(p) \in Nat
      BY <1>2, <1>5
    <3> QED BY <3>1
  <2> QED BY <1>2, <1>5, <2>1, <2>2
<1>8. CallInv(j) /\ (Told(j) => Told(j)') /\ read[Target] <= Len(inbox[Target])
  BY ToldStays DEF NoticeInv
<1>9. InFlight(v)
  BY <1>2 DEF InFlight, p
\* The update was ahead of the envelope, so it is no longer here.
<1>10. CallOff(v, j) => Arrived(j) /\ \A k \in DOMAIN p : ~Notice(p[k], j)
  <2>1. \A k \in DOMAIN p : ~(k < 1)
    BY <1>2
  <2>2. CallOff(v, j) => \A k \in DOMAIN p : ~Notice(p[k], j)
    BY <1>2, <1>8, <2>1 DEF CallInv, LeavesInOrder, p
  <2> QED BY <1>2, <1>8, <2>2 DEF CallInv, LeavesInOrder, p
<1>11. Notice(v, j) => IF again THEN Arrived(j)
                       ELSE \A k \in DOMAIN inbox[Target] : ~CallOff(inbox[Target][k], j)
  <2>1. Notice(v, j) => Known(v)
    BY DEF Notice, Known, Updates
  <2>2. Notice(v, j) => IF sent[Source] THEN Arrived(j)
                        ELSE \A k \in DOMAIN inbox[Target] : ~CallOff(inbox[Target][k], j)
    BY <1>2, <1>8 DEF CallInv, StoredInOrder, p
  <2> QED BY <2>1, <2>2 DEF again
<1>12. /\ Arrived(j) \/ Notice(v, j) => Arrived(j)'
       /\ ReadInOrder(j)'
       /\ \A i \in DOMAIN inbox'[Target] : CallOff(inbox'[Target][i], j) =>
             CallOff(v, j) \/ \E k \in DOMAIN inbox[Target] : CallOff(inbox[Target][k], j)
  BY <1>2, <1>3, <1>8, <1>9, <1>10, <1>11, RelayCalls
<1>13. LeavesInOrder(j)'
  <2>1. ASSUME NEW i \in DOMAIN t, NEW k \in DOMAIN t, CallOff(t[i], j), Notice(t[k], j)
        PROVE  k < i
    <3>1. i + n \in DOMAIN p /\ k + n \in DOMAIN p /\ t[i] = p[i + n] /\ t[k] = p[k + n]
      BY <1>5, <1>7
    <3>2. k + n < i + n
      BY <1>8, <2>1, <3>1 DEF CallInv, LeavesInOrder, p
    <3>3. k \in Nat /\ i \in Nat /\ n \in Nat
      BY <1>5
    <3> QED BY <3>2, <3>3
  <2>2. ASSUME NEW i \in DOMAIN t, CallOff(t[i], j)
        PROVE  Arrived(j)' \/ \E k \in DOMAIN t : Notice(t[k], j)
    <3>1. i + n \in DOMAIN p /\ CallOff(p[i + n], j)
      BY <1>5, <1>7, <2>2
    <3>2. Arrived(j) \/ \E k \in DOMAIN p : Notice(p[k], j)
      BY <1>8, <3>1 DEF CallInv, LeavesInOrder, p
    <3> QED BY <1>2, <1>7, <1>12, <3>2
  <2> QED BY <2>1, <2>2 DEF LeavesInOrder, t
<1>14. StoredInOrder(j)'
  <2> SUFFICES ASSUME NEW i \in DOMAIN t, Notice(t[i], j)
               PROVE  IF i = 1 /\ sent'[Source] THEN Arrived(j)'
                      ELSE \A k \in DOMAIN inbox'[Target] : ~CallOff(inbox'[Target][k], j)
    BY DEF StoredInOrder, t
  <2>1. i + n \in DOMAIN p /\ Notice(p[i + n], j) /\ i \in Nat /\ i >= 1
    BY <1>5, <1>7
  <2>2. ~CallOff(v, j)
    BY <1>10, <2>1
  <2>3. CASE i + n = 1
    <3>1. i = 1 /\ n = 0
      BY <1>5, <2>1, <2>3
    <3>2. sent'[Source] /\ Notice(v, j)
      BY <1>2, <1>6, <2>1, <2>3, <3>1
    <3> QED BY <1>12, <3>1, <3>2
  <2>4. CASE i + n # 1
    <3>1. ~(i = 1 /\ sent'[Source])
      <4>1. i = 1 => n = 1
        BY <1>5, <2>4
      <4> QED BY <1>6, <4>1
    <3>2. \A k \in DOMAIN inbox[Target] : ~CallOff(inbox[Target][k], j)
      BY <1>8, <2>1, <2>4 DEF CallInv, StoredInOrder, p
    <3> QED BY <1>12, <2>2, <3>1, <3>2
  <2> QED BY <2>3, <2>4
<1> QED BY <1>4, <1>8, <1>12, <1>13, <1>14 DEF CallInv

LEMMA DrainNotices ==
    ASSUME IInv, IInv', SourceKept, [Next]_vars, NoticeInv,
           NEW d \in Devices, NEW answered \in BOOLEAN, Drain(d, answered)
    PROVE  NoticeInv'
<1> USE HandoffConstants
<1> DEFINE v == Head(outbox[d])
           again == sent[d] /\ Known(v)
<1>1. /\ TypeOK /\ outbox \in [Devices -> Seq(Items)] /\ outbox[d] \in Seq(Items) /\ outbox[d] # <<>>
      /\ sent \in [Devices -> BOOLEAN]
  BY DEF IInv, TypeOK, Drain
<1>2. /\ 1 \in DOMAIN outbox[d] /\ outbox[d][1] = v /\ v \in Items
      /\ \A i \in DOMAIN Tail(outbox[d]) :
            i + 1 \in DOMAIN outbox[d] /\ Tail(outbox[d])[i] = outbox[d][i + 1]
  BY <1>1, HeadTailProperties, EmptySeq, LenProperties
<1>3. IF again THEN UNCHANGED relay ELSE Upload(v)
  BY DEF Drain
<1>4. outbox' = [outbox EXCEPT ![d] = IF answered THEN Tail(outbox[d]) ELSE outbox[d]]
      /\ sent' = [sent EXCEPT ![d] = ~answered] /\ calledOff' = calledOff
  BY DEF Drain, envs
<1>5. InFlight(v)
  BY <1>2 DEF InFlight
<1> HIDE DEF v, again
<1>6. read'[Target] <= Len(inbox'[Target]) /\ (Target \notin Restarting => read'[Target] = 0)
  <2>0. read[Target] <= Len(inbox[Target]) /\ (Target \notin Restarting => read[Target] = 0)
    BY DEF NoticeInv
  <2>1. CASE again
    BY <1>3, <2>0, <2>1 DEF relay
  <2>2. CASE ~again
    <3>1. Len(inbox'[Target]) \in Nat \ {0} /\ read'[Target] \in 0..(Len(inbox'[Target]) - 1)
          /\ (read[Target] = 0 => read'[Target] = 0)
      BY <1>1, <1>2, <1>3, <2>0, <2>2, UploadMoves
    <3>2. read'[Target] <= Len(inbox'[Target])
      BY <3>1
    <3> QED BY <2>0, <3>1, <3>2
  <2> QED BY <2>1, <2>2
<1>7. ASSUME NEW c \in Devices, NEW i \in DOMAIN outbox'[c], outbox'[c][i].kind \in Notices
      PROVE  c = Source
  <2>1. \E k \in DOMAIN outbox[c] : outbox[c][k] = outbox'[c][i]
    BY <1>1, <1>2, <1>4
  <2> QED BY <1>7, <2>1 DEF NoticeInv
<1>8. ASSUME NEW u \in Items, InFlight(u)', u.kind = "job_cancel"
      PROVE  Holds(rec'[Source], u.job) /\ rec'[Source][u.job[1]].cancelled
  <2>1. InFlight(u)
    BY <1>1, <1>8, TransportItems
  <2>2. u.job \in Jobs
    BY DEF Items
  <2> QED BY <1>8, <2>1, <2>2, CallsStayTrue DEF NoticeInv
<1>9. ASSUME NEW j \in Jobs PROVE CallInv(j)'
  <2>1. CASE d = Source
    BY <2>1, SourceDrainCalls
  <2>2. CASE d # Source
    <3>1. v.kind \notin Notices
      BY <1>2, <2>2 DEF NoticeInv
    <3>2. ~Notice(v, j) /\ ~CallOff(v, j)
      BY <3>1 DEF Notices, Notice, CallOff
    <3>3. CallInv(j) /\ (Told(j) => Told(j)') /\ read[Target] <= Len(inbox[Target])
      BY ToldStays DEF NoticeInv
    <3>4. /\ Arrived(j) => Arrived(j)'
          /\ ReadInOrder(j)'
          /\ \A i \in DOMAIN inbox'[Target] : CallOff(inbox'[Target][i], j) =>
                \E k \in DOMAIN inbox[Target] : CallOff(inbox[Target][k], j)
      BY <1>2, <1>3, <1>5, <3>2, <3>3, RelayCalls
    <3>5. outbox'[Source] = outbox[Source] /\ sent'[Source] = sent[Source]
      BY <1>1, <1>4, <2>2
    <3>6. LeavesInOrder(j)'
      BY <3>3, <3>4, <3>5 DEF CallInv, LeavesInOrder
    <3>7. StoredInOrder(j)'
      BY <3>3, <3>4, <3>5 DEF CallInv, StoredInOrder
    <3> QED BY <1>4, <3>3, <3>4, <3>6, <3>7 DEF CallInv
  <2> QED BY <2>1, <2>2
<1> QED BY <1>6, <1>7, <1>8, <1>9 DEF NoticeInv

LEMMA NoticeInit == Init => NoticeInv
<1> SUFFICES ASSUME Init PROVE NoticeInv
  OBVIOUS
<1> USE HandoffConstants
<1>1. /\ \A d \in Devices : outbox[d] = <<>> /\ inbox[d] = <<>> /\ DOMAIN outbox[d] = {} /\ DOMAIN inbox[d] = {}
      /\ read[Target] = 0 /\ calledOff = {} /\ Len(inbox[Target]) = 0
  BY DEF Init
<1>2. \A j \in Jobs : CallInv(j)
  BY <1>1 DEF CallInv, LeavesInOrder, StoredInOrder, ReadInOrder
<1>3. \A u : ~InFlight(u)
  BY <1>1 DEF InFlight
<1> QED BY <1>1, <1>2, <1>3 DEF NoticeInv

LEMMA NoticeStep == IInv /\ NoticeInv /\ [Next]_vars => NoticeInv'
<1> SUFFICES ASSUME IInv, NoticeInv, [Next]_vars PROVE NoticeInv'
  OBVIOUS
<1>1. IInv' /\ SourceKept
  BY InvStep
<1>2. CASE Cancel
  BY <1>1, <1>2, CancelNotices
<1>3. CASE OpenJob \/ OpenCancel \/ Expire \/ \E d \in Devices : ApplyUpdate(d)
  BY <1>1, <1>3, ApplyNotices
<1>4. ASSUME NEW d \in Devices, Drain(d, TRUE) \/ Drain(d, FALSE) PROVE NoticeInv'
  BY <1>1, <1>4, DrainNotices
<1>5. ASSUME NEW d \in Devices, SavePage(d) PROVE NoticeInv'
  BY <1>1, <1>5, SavePageNotices
<1>6. CASE \/ Delegate \/ FollowUp \/ MoveBot \/ StageJob \/ UNCHANGED vars
           \/ \E a \in admitting : Admit(a)
           \/ \E s \in Claims : ReportTool(s)
           \/ \E d \in Devices : Restart(d)
           \/ \E j \in Jobs : TurnStep(j) \/ ContinuationStep(j) \/ UserStep(j)
  BY <1>1, <1>6, QuietNotices, SameNoticesKeep
<1> QED BY <1>2, <1>3, <1>4, <1>5, <1>6 DEF Next, SyncStep

LEMMA NoticeInvariant == Spec => []NoticeInv
BY Invariant, NoticeInit, NoticeStep, PTL DEF Spec

\* No turn starts for a job Target was told to cancel, by the record or by the envelope, nor for
\* one whose attempt is replaced or has its outcome: the envelope only tells what Target's
\* record tells it already, in whatever order answers are lost, blobs replayed and Devices
\* restarted.
THEOREM NoneAfterCancel == Spec => NoTurnAfterCancel
<1>1. IInv /\ NoticeInv /\ [Next]_vars => [StartsWanted]_vars
  <2> SUFFICES ASSUME IInv, NoticeInv, Next, NEW j \in Jobs, Starts(j)
               PROVE  /\ j \notin calledOff
                      /\ IsCurrent(rec'[Target], j[1]) /\ Holds(rec'[Target], j)
                      /\ ~rec'[Target][j[1]].cancelled
                      /\ rec'[Target][j[1]].report = "running"
    BY DEF StartsWanted
  <2> USE HandoffConstants
  <2> DEFINE n == j[1]
             r == rec[Target]
             u == ReportItem(j, "running")
             w == Item("request", j)
             a == IF Exists(r, n) THEN r[n] ELSE Blank(j)
             s == Merged(r, u)
             x == Merged(r, w)
  <2>1. TypeOK /\ r \in [Attempts -> Attempt] /\ n \in Attempts /\ j # NoJob
    BY JobNumber DEF IInv, TypeOK
  <2>2. Begin(j) /\ Claimable(j)
    BY <2>1, OnlyBeginStarts
  <2>3. rec'[Target] = s
    BY <2>1, <2>2 DEF Begin, Save, TypeOK
  <2>4. u \in Items /\ u.kind = "report" /\ u.job = j /\ u.status = "running"
    BY ItemType DEF ReportItem, Reports
  <2>5. w \in Items /\ w.kind = "request" /\ w.job = j
    BY ItemType DEF Item, Updates
  <2>6. r[n].job \in {NoJob, j} /\ IsCurrent(x, n) /\ Outcome(x[n]) = "none"
    BY <2>2, <2>5 DEF Claimable, Mergeable
  <2> HIDE DEF u, w
  <2>7. /\ \A m \in Attempts : m # n => s[m] = r[m]
        /\ s[n].job = a.job
        /\ s[n].report = IF a.report \notin Terminal THEN "running" ELSE a.report
        /\ s[n].cancelled = (a.cancelled \/ u.kind = "cancel")
    BY <2>1, <2>4, MergedFields
  <2>8. /\ \A m \in Attempts : m # n => x[m] = r[m]
        /\ x[n].report = a.report
        /\ x[n].cancelled = (a.cancelled \/ w.kind = "cancel")
    BY <2>1, <2>5, MergedFields
  <2>9. a.job = j
    BY <2>6 DEF Exists, Blank
  <2> HIDE DEF s, x, a
  <2>10. ~x[n].cancelled /\ x[n].report = "none"
    BY <2>6 DEF Outcome
  <2>11. ~a.cancelled /\ a.report = "none" /\ "none" \notin Terminal
    BY <2>5, <2>8, <2>10 DEF Terminal
  <2>12. s[n].job = j /\ s[n].report = "running" /\ ~s[n].cancelled
    BY <2>4, <2>7, <2>9, <2>11
  <2>13. IsCurrent(s, n)
    <3>1. \A m \in Attempts : m > n => m # n
      BY <2>1 DEF Attempts
    <3> QED BY <2>1, <2>6, <2>7, <2>8, <2>12, <3>1 DEF IsCurrent, Exists
  <2>14. j \notin calledOff
    <3>1. ~Told(j)
      BY <2>1, <2>6, <2>11 DEF Told, a, Exists
    <3> QED BY <3>1 DEF NoticeInv, CallInv
  <2> QED BY <2>3, <2>12, <2>13, <2>14 DEF Holds
<1> QED BY <1>1, Invariant, NoticeInvariant, PTL DEF Spec, NoTurnAfterCancel

=============================================================================
