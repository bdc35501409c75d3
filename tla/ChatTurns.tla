----------------------------- MODULE ChatTurns -----------------------------
(* A direct chat on its bot's Runner: the messages the user sends, the job  *)
(* each of them admits, and the turn that owns the chat lock.  A turn reads *)
(* its own message and what came after it, runs the agent loop, and takes   *)
(* what the user sends meanwhile as steering between two steps of the loop. *)
(* A question of the turn gives way to a message, Send now cuts the step    *)
(* short, and Stop ends the turn and every job that waits.                  *)
EXTENDS Naturals, FiniteSets

CONSTANTS
    MaxMessages,   \* messages the user sends
    MaxCalls,      \* tool calls of one reply
    MaxReplies,    \* replies with tool calls
    MaxStops,      \* presses of Stop
    Occurs         \* what happens besides

Happenings == {
    "question",    \* a call asks the user, who may never answer
    "refuse",      \* a call is refused, with or without the hint that ends the turn
    "stuck",       \* a call, or its check, may never end by itself
    "fail",        \* the model fails, or cannot be asked at all
    "after",       \* the user writes while a stopped turn winds down
    "overtaken",   \* a turn reads the chat, or Stop comes, while a message is on its way
    "between",     \* the user writes while a turn has read the chat and has no queue yet
    "disorder"}    \* jobs come to the chat lock in another order than their messages

ASSUME ChatConstants ==
    /\ MaxMessages \in Nat /\ MaxCalls \in Nat /\ MaxReplies \in Nat /\ MaxStops \in Nat
    /\ Occurs \subseteq Happenings

VARIABLES
    said,      \* how many messages the chat holds
    note,      \* what each of them says of itself: promoted_at and queued
    hear,      \* how far each has come on its way to the turn
    copy,      \* the note its way to the queue read, and the turn whose queue it is
    job,       \* the job each admits
    stopped,   \* the messages whose jobs are cancelled
    queue,     \* the steering queue of the turn
    turn,      \* the turn that owns the chat lock
    replies,   \* replies with tool calls so far
    stops,     \* presses of Stop so far
    \* what the properties remember:
    taken,     \* the turns that took each message as theirs to answer
    carried,   \* messages in a request to the model of a turn that is not stopped
    cut        \* messages a step was cut short for

vars == <<said, note, hear, copy, job, stopped, queue, turn, replies, stops, taken, carried,
          cut>>

Messages == 1..MaxMessages

Nobody == 0

Unmarked == [promoted |-> FALSE, queued |-> FALSE]

Idle == [job |-> Nobody, at |-> "free", more |-> FALSE, last |-> FALSE, pending |-> {},
         holds |-> {}, calls |-> 0, results |-> 0, ends |-> TRUE, cut |-> FALSE,
         answer |-> "none"]

Init ==
    /\ said = 0
    /\ note = [m \in Messages |-> Unmarked]
    /\ hear = [m \in Messages |-> "unsaid"]
    /\ copy = [m \in Messages |-> [note |-> Unmarked, to |-> Nobody]]
    /\ job = [m \in Messages |-> "none"]
    /\ stopped = {}
    /\ queue = {}
    /\ turn = Idle
    /\ replies = 0 /\ stops = 0
    /\ taken = [m \in Messages |-> {}]
    /\ carried = {} /\ cut = {}

-----------------------------------------------------------------------------
(* The turn as its parts see it.                                           *)

\* Its queue and its interrupt are registered.
Registered == turn.at \notin {"free", "read", "register", "end"}

\* A step is under way: its token is there to be cancelled.
InStep == turn.at \in {"reply", "check", "put", "asked", "tool", "step"}

Stopped == turn.job \in stopped

\* The token of the step is cancelled, by Send now or with the turn's own.
StepCut == turn.cut \/ Stopped

\* The messages `found` that no turn took yet are promoted by this one.
Unclaimed(found) == {m \in found : ~note[m].promoted}

\* Slip: a message keeps the mark that it is held.
ClaimedHeld(found) ==
    /\ note' = [m \in Messages |->
                 IF m \in Unclaimed(found) THEN [note[m] EXCEPT !.promoted = TRUE]
                 ELSE note[m]]
    /\ taken' = [m \in Messages |->
                  IF m \in Unclaimed(found) THEN taken[m] \cup {turn.job} ELSE taken[m]]

Claimed(found) ==
    /\ note' = [m \in Messages |->
                 IF m \in Unclaimed(found) THEN [promoted |-> TRUE, queued |-> FALSE]
                 ELSE note[m]]
    /\ taken' = [m \in Messages |->
                  IF m \in Unclaimed(found) THEN taken[m] \cup {turn.job} ELSE taken[m]]

-----------------------------------------------------------------------------
(* A message on its way: stored, offered to the queue of the turn at work,  *)
(* marked as held before it is queued; then the questions are dismissed and *)
(* the message's own job starts.                                           *)

Say ==
    /\ said < MaxMessages
    /\ "after" \in Occurs \/ ~Stopped
    /\ "between" \in Occurs \/ turn.at # "register"
    /\ said' = said + 1
    /\ hear' = [hear EXCEPT ![said + 1] = "said"]
    /\ UNCHANGED <<note, copy, job, stopped, queue, turn, replies, stops, taken, carried, cut>>

Offer(m) ==
    /\ hear[m] = "said"
    /\ hear' = [hear EXCEPT ![m] = IF Registered THEN "offered" ELSE "dismissing"]
    /\ copy' = [copy EXCEPT ![m] = [note |-> note[m], to |-> turn.job]]
    /\ UNCHANGED <<said, note, job, stopped, queue, turn, replies, stops, taken, carried, cut>>

\* Slip: what is queued for a turn counts as taken by it.
HoldPromoting(m) ==
    /\ hear[m] = "offered"
    /\ hear' = [hear EXCEPT ![m] = "held"]
    /\ note' = [note EXCEPT ![m] = [promoted |-> TRUE, queued |-> FALSE]]
    /\ UNCHANGED <<said, copy, job, stopped, queue, turn, replies, stops, taken, carried, cut>>

\* set_queued writes the message as it read it.
Hold(m) ==
    /\ hear[m] = "offered"
    /\ hear' = [hear EXCEPT ![m] = "held"]
    /\ note' = [note EXCEPT ![m] = [copy[m].note EXCEPT !.queued = TRUE]]
    /\ UNCHANGED <<said, copy, job, stopped, queue, turn, replies, stops, taken, carried, cut>>

\* The queue of a turn that has ended takes the message where nothing reads it.
Push(m) ==
    /\ hear[m] = "held"
    /\ hear' = [hear EXCEPT ![m] = "dismissing"]
    /\ queue' = IF copy[m].to = turn.job THEN queue \cup {m} ELSE queue
    /\ UNCHANGED <<said, note, copy, job, stopped, turn, replies, stops, taken, carried, cut>>

\* A question that is registered and not answered is dismissed.
Dismiss(m) ==
    /\ hear[m] = "dismissing"
    /\ hear' = [hear EXCEPT ![m] = "heard"]
    /\ turn' = IF turn.at \in {"put", "asked"} /\ turn.answer = "none"
               THEN [turn EXCEPT !.answer = "dismissed"] ELSE turn
    /\ UNCHANGED <<said, note, copy, job, stopped, queue, replies, stops, taken, carried, cut>>

\* The job registers before it waits for the lock.
Start(m) ==
    /\ hear[m] = "heard" /\ job[m] = "none"
    /\ job' = [job EXCEPT ![m] = "waiting"]
    /\ UNCHANGED <<said, note, hear, copy, stopped, queue, turn, replies, stops, taken,
                   carried, cut>>

Hear(m) == Offer(m) \/ Hold(m) \/ Push(m) \/ Dismiss(m) \/ Start(m)

-----------------------------------------------------------------------------
(* The job's turn, up to its agent loop.                                   *)

\* Slip: the job runs although a turn took its message.
HandledStopped(m) == m \in stopped

\* Nothing is left to do for a job that was cancelled, or whose message a turn took.
Handled(m) == m \in stopped \/ note[m].promoted

\* The lock is free, and goes to the jobs as they came.
HasLock(m) ==
    /\ job[m] = "waiting" /\ turn.at = "free"
    /\ "disorder" \in Occurs \/ \A n \in 1..(m - 1) : job[n] = "done"

Skip(m) ==
    /\ HasLock(m) /\ Handled(m)
    /\ job' = [job EXCEPT ![m] = "done"]
    /\ UNCHANGED <<said, note, hear, copy, stopped, queue, turn, replies, stops, taken,
                   carried, cut>>

Begin(m) ==
    /\ HasLock(m) /\ ~Handled(m)
    /\ job' = [job EXCEPT ![m] = "working"]
    /\ note' = [note EXCEPT ![m].queued = FALSE]
    /\ turn' = [Idle EXCEPT !.job = m, !.at = "read"]
    /\ taken' = [taken EXCEPT ![m] = @ \cup {m}]
    /\ UNCHANGED <<said, hear, copy, stopped, queue, replies, stops, carried, cut>>

\* The bot's model cannot be asked, and the chat says so.
CannotRun ==
    /\ "fail" \in Occurs
    /\ turn.at = "read"
    /\ carried' = carried \cup {turn.job}
    /\ turn' = [turn EXCEPT !.at = "end"]
    /\ UNCHANGED <<said, note, hear, copy, job, stopped, queue, replies, stops, taken, cut>>

\* The transcript holds what came after the turn's own message; the turn takes that as well.
Later(m) == {n \in Messages : m < n /\ n <= said}

\* Nothing is on its way to a queue at that moment.
InTime == "overtaken" \in Occurs \/ \A m \in Messages : hear[m] \notin {"said", "offered"}

ReadChat ==
    /\ turn.at = "read"
    /\ InTime
    /\ Claimed(Later(turn.job))
    /\ turn' = [turn EXCEPT !.at = "register", !.holds = {turn.job} \cup Later(turn.job)]
    /\ UNCHANGED <<said, hear, copy, job, stopped, queue, replies, stops, carried, cut>>

Register ==
    /\ turn.at = "register"
    /\ queue' = {}
    /\ turn' = [turn EXCEPT !.at = "poll", !.more = TRUE]
    /\ UNCHANGED <<said, note, hear, copy, job, stopped, replies, stops, taken, carried, cut>>

-----------------------------------------------------------------------------
(* The agent loop.                                                         *)

\* The steering messages; without any, and with nothing more to answer, the loop ends.
Poll ==
    /\ turn.at = "poll"
    /\ queue' = {}
    /\ turn' = [turn EXCEPT !.pending = queue,
                            !.at = IF ~turn.more /\ queue = {} THEN "leave"
                                   ELSE IF turn.last THEN "prepare" ELSE "ask"]
    /\ UNCHANGED <<said, note, hear, copy, job, stopped, replies, stops, taken, carried, cut>>

\* The next step is prepared, which may take long; what was queued meanwhile is read when the
\* poll before found nothing.
Prepare ==
    /\ turn.at = "prepare"
    /\ turn' = [turn EXCEPT !.at = "ask", !.last = FALSE,
                            !.pending = IF @ = {} THEN queue ELSE @]
    /\ queue' = IF turn.pending = {} THEN {} ELSE queue
    /\ UNCHANGED <<said, note, hear, copy, job, stopped, replies, stops, taken, carried, cut>>

\* The pending messages join the context, which promotes them, and the step's request is made.
Ask ==
    /\ turn.at = "ask"
    /\ Claimed(turn.pending)
    /\ LET holds == turn.holds \cup turn.pending
       IN  /\ turn' = [turn EXCEPT !.at = "reply", !.pending = {}, !.holds = holds,
                                   !.cut = FALSE]
           /\ carried' = IF Stopped THEN carried ELSE carried \cup holds
    /\ UNCHANGED <<said, hear, copy, job, stopped, queue, replies, stops, cut>>

\* A reply with n calls, or one the token limit cut off, none of whose calls run.
Reply(n) ==
    /\ turn.at = "reply"
    /\ n > 0 => replies < MaxReplies
    /\ replies' = IF n > 0 THEN replies + 1 ELSE replies
    /\ turn' = [turn EXCEPT !.at = IF n = 0 THEN "step" ELSE "check",
                            !.calls = n, !.results = 0, !.ends = TRUE]
    /\ UNCHANGED <<said, note, hear, copy, job, stopped, queue, stops, taken, carried, cut>>

Truncated(n) ==
    /\ "fail" \in Occurs
    /\ turn.at = "reply" /\ n > 0 /\ replies < MaxReplies
    /\ replies' = replies + 1
    /\ turn' = [turn EXCEPT !.at = "step", !.calls = n, !.results = n, !.ends = FALSE]
    /\ UNCHANGED <<said, note, hear, copy, job, stopped, queue, stops, taken, carried, cut>>

\* A reply cut short by Send now keeps its text, and the loop goes on to what the user said; one
\* stopped ends the loop.
Aborted ==
    /\ turn.at = "reply" /\ StepCut
    /\ turn' = IF Stopped THEN [turn EXCEPT !.at = "leave"]
               ELSE [turn EXCEPT !.at = "poll", !.more = FALSE, !.last = FALSE,
                                 !.calls = 0, !.results = 0, !.cut = FALSE]
    /\ UNCHANGED <<said, note, hear, copy, job, stopped, queue, replies, stops, taken, carried,
                   cut>>

Failed ==
    /\ "fail" \in Occurs
    /\ turn.at = "reply"
    /\ turn' = [turn EXCEPT !.at = "leave"]
    /\ UNCHANGED <<said, note, hear, copy, job, stopped, queue, replies, stops, taken, carried,
                   cut>>

-----------------------------------------------------------------------------
(* The calls of a reply, one after another.                                *)

\* A result, which may hint that the turn ends.  A cancelled step starts no other call.
Result(ends) ==
    /\ turn' = [turn EXCEPT !.results = @ + 1, !.ends = @ /\ ends, !.answer = "none",
                            !.at = IF StepCut \/ turn.results + 1 = turn.calls
                                   THEN "step" ELSE "check"]
    /\ UNCHANGED <<said, note, hear, copy, job, stopped, queue, replies, stops, taken, carried,
                   cut>>

GoesTo(at) ==
    /\ turn' = [turn EXCEPT !.at = at, !.answer = "none"]
    /\ UNCHANGED <<said, note, hear, copy, job, stopped, queue, replies, stops, taken, carried,
                   cut>>

\* A call whose step is cancelled does not run.
MayRun == ~StepCut

Allowed == turn.at = "check" /\ MayRun /\ GoesTo("tool")

Refused(ends) == "refuse" \in Occurs /\ turn.at = "check" /\ ~StepCut /\ Result(ends)

NotRun == turn.at = "check" /\ ~MayRun /\ Result(FALSE)

\* The question is registered, so that a message from now on dismisses it...
Put == "question" \in Occurs /\ turn.at = "check" /\ ~StepCut /\ GoesTo("put")

\* Slip: a message that came before the question does not keep it down.
GivesNoWay == FALSE

\* ... and goes up unless the queue holds a message already.
GivesWay == queue # {}

PutUp ==
    /\ turn.at = "put"
    /\ IF GivesWay THEN Result(~StepCut)
       ELSE /\ turn' = [turn EXCEPT !.at = "asked"]
            /\ UNCHANGED <<said, note, hear, copy, job, stopped, queue, replies, stops, taken,
                           carried, cut>>

Answer(a) ==
    /\ turn.at = "asked" /\ turn.answer = "none"
    /\ turn' = [turn EXCEPT !.answer = a]
    /\ UNCHANGED <<said, note, hear, copy, job, stopped, queue, replies, stops, taken, carried,
                   cut>>

\* The call that asked: a dismissed question ends the turn after this batch.
Decide ==
    /\ turn.at = "asked" /\ (turn.answer # "none" \/ StepCut)
    /\ IF turn.answer = "allowed" /\ MayRun THEN GoesTo("tool")
       ELSE Result(turn.answer = "dismissed" /\ ~StepCut)

ToolEnds == turn.at = "tool" /\ Result(FALSE)

\* Slip: a check is waited for as long as it takes.
IgnoringTools == {"tool"}

\* A call that ignores its cancellation, or whose check does, is waited for only so long.
Ignoring == {"check", "tool"}

CutOff == turn.at \in Ignoring /\ StepCut /\ Result(FALSE)

\* Slip: only the calls that ended have a result.
NeverFilled == FALSE

\* Calls Send now came before get a result of their own, and the loop goes on.
Filled == turn.cut /\ ~Stopped /\ turn.calls > 0

StepEnds ==
    /\ turn.at = "step"
    /\ turn' = [turn EXCEPT !.results = IF Filled THEN turn.calls ELSE @,
                            !.more = turn.calls > 0 /\ (Filled \/ ~turn.ends),
                            !.last = TRUE, !.at = "poll", !.cut = FALSE]
    /\ UNCHANGED <<said, note, hear, copy, job, stopped, queue, replies, stops, taken, carried,
                   cut>>

-----------------------------------------------------------------------------
(* The end of a turn, and what the user does besides writing.              *)

\* The queue and the interrupt are taken away.
Leave ==
    /\ turn.at = "leave"
    /\ turn' = [turn EXCEPT !.at = "end"]
    /\ UNCHANGED <<said, note, hear, copy, job, stopped, queue, replies, stops, taken, carried,
                   cut>>

\* After a Stop nothing in the chat waits for a step.
Settle ==
    /\ turn.at = "end"
    /\ note' = IF Stopped THEN [m \in Messages |-> [note[m] EXCEPT !.queued = FALSE]] ELSE note
    /\ job' = [job EXCEPT ![turn.job] = "done"]
    /\ turn' = Idle
    /\ queue' = {}
    /\ UNCHANGED <<said, hear, copy, stopped, replies, stops, taken, carried, cut>>

\* Send now, of a message that shows as held: the step is cut short, if one is under way.
SendNow(m) ==
    /\ note[m].queued
    /\ \/ /\ ~Registered
          /\ note' = [note EXCEPT ![m].queued = FALSE]
          /\ UNCHANGED <<turn, cut>>
       \/ /\ InStep /\ ~StepCut
          /\ turn' = [turn EXCEPT !.cut = TRUE]
          /\ cut' = cut \cup ({m} \cap queue)
          /\ UNCHANGED note
    /\ UNCHANGED <<said, hear, copy, job, stopped, queue, replies, stops, taken, carried>>

Running == {m \in Messages : job[m] \in {"waiting", "working"}}

Stop ==
    /\ stops < MaxStops
    /\ Running \ stopped # {}
    /\ "overtaken" \in Occurs \/ \A m \in 1..said : job[m] # "none"
    /\ stops' = stops + 1
    /\ stopped' = stopped \cup Running
    /\ UNCHANGED <<said, note, hear, copy, job, queue, turn, replies, taken, carried, cut>>

-----------------------------------------------------------------------------
Model == (\E n \in 0..MaxCalls : Reply(n) \/ Truncated(n)) \/ Failed

Checks == Allowed \/ (\E e \in BOOLEAN : Refused(e)) \/ NotRun \/ Put

\* What the turn does by itself.
Works ==
    \/ CannotRun \/ ReadChat \/ Register
    \/ Poll \/ Prepare \/ Ask \/ Model \/ Aborted
    \/ PutUp \/ Decide \/ CutOff \/ StepEnds
    \/ Leave \/ Settle

Next ==
    \/ Say
    \/ \E m \in Messages : Hear(m) \/ Skip(m) \/ Begin(m) \/ SendNow(m)
    \/ Works
    \/ Checks
    \/ ToolEnds
    \/ \E a \in {"allowed", "denied"} : Answer(a)
    \/ Stop

Spec == Init /\ [][Next]_vars

\* Threads and tasks run on and the model's replies come or fail in time.  The user need not
\* answer, nor a call end by itself where "stuck" occurs.
Fairness ==
    /\ \A m \in Messages : WF_vars(Hear(m)) /\ WF_vars(Skip(m) \/ Begin(m))
    /\ WF_vars(Works)
    /\ "stuck" \notin Occurs => WF_vars(Checks \/ ToolEnds)

FairSpec == Spec /\ Fairness

-----------------------------------------------------------------------------
Notes == [promoted : BOOLEAN, queued : BOOLEAN]

TypeOK ==
    /\ said \in 0..MaxMessages
    /\ note \in [Messages -> Notes]
    /\ hear \in [Messages -> {"unsaid", "said", "offered", "held", "dismissing", "heard"}]
    /\ copy \in [Messages -> [note : Notes, to : 0..MaxMessages]]
    /\ job \in [Messages -> {"none", "waiting", "working", "done"}]
    /\ stopped \subseteq Messages /\ queue \subseteq Messages
    /\ turn \in [job : 0..MaxMessages,
                 at : {"free", "read", "register", "poll", "prepare", "ask", "reply", "check",
                       "put", "asked", "tool", "step", "leave", "end"},
                 more : BOOLEAN, last : BOOLEAN, pending : SUBSET Messages,
                 holds : SUBSET Messages, calls : 0..MaxCalls, results : 0..MaxCalls,
                 ends : BOOLEAN, cut : BOOLEAN,
                 answer : {"none", "allowed", "denied", "dismissed"}]
    /\ replies \in 0..MaxReplies /\ stops \in 0..MaxStops
    /\ taken \in [Messages -> SUBSET Messages]
    /\ carried \subseteq Messages /\ cut \subseteq Messages
    /\ {m \in Messages : hear[m] # "unsaid"} = 1..said
    /\ {m \in Messages : job[m] = "working"} = {turn.job} \ {Nobody}

\* A job that has ended leaves its message in a request the model was asked, in the chat's
\* notice that it cannot be asked, or stopped by the user: a job that exits because a turn took
\* its message relies on that turn to answer it.
AnsweredOrStopped ==
    \A m \in Messages : job[m] = "done" => m \in carried \cup stopped

\* No message is answered twice: by the turn it steers and by the turn of its own job, or by two
\* turns that found it in the transcript.
ReadOnce == \A m \in Messages : \A j, k \in taken[m] : j = k

\* A message that shows as held is one a turn is still to read, for its own job has not ended,
\* and one that was read does not go back to being held.
HeldWaits ==
    \A m \in Messages :
        note[m].queued => ~note[m].promoted /\ (job[m] # "done" \/ m \in stopped)

\* Every call of a reply has its result before the next request, whatever of refusals,
\* questions, cut steps and truncated replies came over it, unless the turn is stopped.
CallsAnswered ==
    turn.at \in {"poll", "prepare", "ask"} /\ ~Stopped => turn.results = turn.calls

\* Once a step was cut short for a message, no call starts before that message is read.
ReadsCut == turn'.at = "tool" /\ turn.at # "tool" => \A m \in cut \ stopped : taken[m] # {}

CutReads == [][ReadsCut]_vars

Unread == (1..said) \ (carried \cup stopped)

\* A stopped job ends, also when its turn's call never does.
StopEnds == Running \cap stopped # {} ~> Running \cap stopped = {}
=============================================================================
