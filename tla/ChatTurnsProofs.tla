-------------------------- MODULE ChatTurnsProofs --------------------------
(***************************************************************************)
(* What holds of a direct chat for any number of messages, calls, replies  *)
(* and Stops: every call has its result before the next request; and, as   *)
(* long as a turn does not read the chat while a message is on its way, a  *)
(* message is read once, shows as held only while it waits, is answered or *)
(* stopped, and is read before another call runs when a step was cut for   *)
(* it.                                                                     *)
(***************************************************************************)
EXTENDS ChatTurns, TLAPS

-----------------------------------------------------------------------------
(* Types.                                                                  *)

Places == {"free", "read", "register", "poll", "prepare", "ask", "reply", "check",
           "put", "asked", "tool", "step", "leave", "end"}
Answers == {"none", "allowed", "denied", "dismissed"}

Turn == [job : 0..MaxMessages, at : Places, more : BOOLEAN, last : BOOLEAN,
         pending : SUBSET Messages, holds : SUBSET Messages, calls : 0..MaxCalls,
         results : 0..MaxCalls, ends : BOOLEAN, cut : BOOLEAN, answer : Answers]

\* The types of all but the turn.
RestType ==
    /\ said \in 0..MaxMessages
    /\ note \in [Messages -> Notes]
    /\ hear \in [Messages -> {"unsaid", "said", "offered", "held", "dismissing", "heard"}]
    /\ copy \in [Messages -> [note : Notes, to : 0..MaxMessages]]
    /\ job \in [Messages -> {"none", "waiting", "working", "done"}]
    /\ stopped \subseteq Messages /\ queue \subseteq Messages
    /\ replies \in 0..MaxReplies /\ stops \in 0..MaxStops
    /\ taken \in [Messages -> SUBSET Messages]
    /\ carried \subseteq Messages /\ cut \subseteq Messages

\* Who works, and where the turn is in its calls.
Placed ==
    /\ {m \in Messages : hear[m] # "unsaid"} = 1..said
    /\ {m \in Messages : job[m] = "working"} = {turn.job} \ {Nobody}
    /\ turn.at = "free" <=> turn.job = Nobody
    /\ turn.at \in {"free", "read"} => turn.holds = {}
    /\ turn.at \in {"free", "read", "register"} => turn.pending = {}
    /\ turn.at \in {"free", "read", "register"} => turn.calls = 0 /\ turn.results = 0
    /\ turn.at \in {"check", "put", "asked", "tool"} => turn.results < turn.calls

Typed == turn \in Turn /\ RestType /\ Placed

LEMMA TypedIsType == Typed <=> TypeOK /\ Placed
BY DEF Typed, TypeOK, RestType, Placed, Turn, Places, Answers

LEMMA IdleType == Idle \in Turn
BY ChatConstants DEF Idle, Turn, Places, Answers, Nobody

LEMMA TypedInit == Init => Typed
<1> SUFFICES ASSUME Init PROVE Typed
  OBVIOUS
<1>1. turn = Idle /\ turn \in Turn
  BY IdleType DEF Init
<1>2. RestType
  <2>1. Unmarked \in Notes /\ [note |-> Unmarked, to |-> Nobody] \in [note : Notes, to : 0..MaxMessages]
    BY ChatConstants DEF Unmarked, Notes, Nobody
  <2>2. 0 \in 0..MaxMessages /\ 0 \in 0..MaxReplies /\ 0 \in 0..MaxStops
    BY ChatConstants
  <2> QED BY <2>1, <2>2 DEF Init, RestType
<1>3. Placed
  <2>1. 1..0 = {} /\ turn.job = Nobody /\ turn.at = "free"
    BY <1>1 DEF Idle
  <2> QED BY <1>1, <2>1 DEF Init, Placed, Idle, Nobody
<1> QED BY <1>1, <1>2, <1>3 DEF Typed

\* A message on its way.
LEMMA TypedHear ==
    ASSUME Typed, NEW m \in Messages, Say \/ Hear(m) PROVE Typed'
<1> USE DEF Typed
<1>1. CASE Say
  <2>1. said + 1 \in Messages
    BY <1>1, ChatConstants DEF Say, RestType, Messages
  <2>2. RestType'
    BY <1>1, <2>1, ChatConstants DEF Say, RestType, Messages
  <2>3. {n \in Messages : hear'[n] # "unsaid"} = {n \in Messages : hear[n] # "unsaid"} \cup {said + 1}
    BY <1>1, <2>1 DEF Say, RestType
  <2>4. 1..(said + 1) = 1..said \cup {said + 1}
    BY DEF RestType
  <2> QED BY <1>1, <2>2, <2>3, <2>4 DEF Say, Placed
<1>2. CASE Offer(m)
  <2>1. copy'[m] \in [note : Notes, to : 0..MaxMessages]
    BY <1>2 DEF Offer, RestType, Turn
  <2>2. RestType'
    BY <1>2, <2>1 DEF Offer, RestType
  <2>3. \A n \in Messages : hear'[n] # "unsaid" <=> hear[n] # "unsaid"
    BY <1>2 DEF Offer, RestType
  <2> QED BY <1>2, <2>2, <2>3 DEF Offer, Placed
<1>3. CASE Hold(m)
  <2>1. note'[m] \in Notes
    BY <1>3 DEF Hold, RestType, Notes
  <2>2. RestType'
    BY <1>3, <2>1 DEF Hold, RestType
  <2>3. \A n \in Messages : hear'[n] # "unsaid" <=> hear[n] # "unsaid"
    BY <1>3 DEF Hold, RestType
  <2> QED BY <1>3, <2>2, <2>3 DEF Hold, Placed
<1>4. CASE Push(m)
  <2>2. RestType'
    BY <1>4 DEF Push, RestType
  <2>3. \A n \in Messages : hear'[n] # "unsaid" <=> hear[n] # "unsaid"
    BY <1>4 DEF Push, RestType
  <2> QED BY <1>4, <2>2, <2>3 DEF Push, Placed
<1>5. CASE Dismiss(m)
  <2>1. turn' \in Turn /\ \/ turn' = turn
                          \/ turn' = [turn EXCEPT !.answer = "dismissed"]
    BY <1>5 DEF Dismiss, Turn, Answers
  <2>2. /\ turn'.at = turn.at /\ turn'.job = turn.job /\ turn'.holds = turn.holds
        /\ turn'.pending = turn.pending /\ turn'.calls = turn.calls
        /\ turn'.results = turn.results
    BY <2>1 DEF Turn
  <2>3. RestType'
    BY <1>5 DEF Dismiss, RestType
  <2>4. \A n \in Messages : hear'[n] # "unsaid" <=> hear[n] # "unsaid"
    BY <1>5 DEF Dismiss, RestType
  <2>5. job' = job /\ said' = said
    BY <1>5 DEF Dismiss
  <2> QED BY <2>1, <2>2, <2>3, <2>4, <2>5 DEF Placed
<1>6. CASE Start(m)
  <2>1. RestType'
    BY <1>6 DEF Start, RestType
  <2>2. \A n \in Messages : job'[n] = "working" <=> job[n] = "working"
    BY <1>6 DEF Start, RestType
  <2> QED BY <1>6, <2>1, <2>2 DEF Start, Placed
<1> QED BY <1>1, <1>2, <1>3, <1>4, <1>5, <1>6 DEF Hear

\* A step of the turn that leaves the chat to itself.
LEMMA TurnMoves ==
    ASSUME Typed, turn' \in Turn, RestType',
           UNCHANGED <<said, job>>,
           \A m \in Messages : hear'[m] # "unsaid" <=> hear[m] # "unsaid",
           turn'.job = turn.job,
           turn.at \notin {"free", "read", "register"},
           turn'.at \notin {"free", "read", "register"},
           turn'.at \in {"check", "put", "asked", "tool"} => turn'.results < turn'.calls
    PROVE  Typed'
BY DEF Typed, Placed

\* The same, of one that changes nothing but itself.
LEMMA TurnAlone ==
    ASSUME Typed, turn' \in Turn,
           UNCHANGED <<said, note, hear, copy, job, stopped, queue, replies, stops, taken,
                       carried, cut>>,
           turn'.job = turn.job,
           turn.at \notin {"free", "read", "register"},
           turn'.at \notin {"free", "read", "register"},
           turn'.at \in {"check", "put", "asked", "tool"} => turn'.results < turn'.calls
    PROVE  Typed'
<1>1. RestType'
  BY DEF Typed, RestType
<1> QED BY <1>1, TurnMoves

\* The owner of the lock has a message.
LEMMA OwnerType ==
    ASSUME Typed, turn.at # "free" PROVE turn.job \in Messages /\ job[turn.job] = "working"
<1>1. turn.job \in Messages
  BY ChatConstants DEF Typed, Placed, Turn, Messages, Nobody
<1> QED BY <1>1 DEF Typed, Placed, Nobody

\* What a turn that claims messages writes.
LEMMA ClaimedType ==
    ASSUME Typed, turn.at # "free", NEW found \in SUBSET Messages, Claimed(found)
    PROVE  note' \in [Messages -> Notes] /\ taken' \in [Messages -> SUBSET Messages]
<1>1. note' \in [Messages -> Notes]
  BY DEF Claimed, Typed, RestType, Notes
<1> QED BY <1>1, OwnerType DEF Claimed, Typed, RestType

\* A job gets the lock, or leaves it, and the turn reads the chat.
LEMMA TypedTurn ==
    ASSUME Typed,
           \/ \E m \in Messages : Skip(m) \/ Begin(m)
           \/ CannotRun \/ ReadChat \/ Register \/ Settle \/ Leave
    PROVE  Typed'
<1> USE DEF Typed
<1>1. ASSUME NEW m \in Messages, Skip(m) PROVE Typed'
  <2>1. RestType'
    BY <1>1 DEF Skip, RestType
  <2>2. \A n \in Messages : job'[n] = "working" <=> job[n] = "working"
    BY <1>1 DEF Skip, HasLock, RestType
  <2> QED BY <1>1, <2>1, <2>2 DEF Skip, Placed
<1>2. ASSUME NEW m \in Messages, Begin(m) PROVE Typed'
  <2>1. /\ turn' \in Turn /\ turn'.job = m /\ turn'.at = "read" /\ turn'.holds = {}
        /\ turn'.pending = {} /\ turn'.calls = 0 /\ turn'.results = 0
    <3>1. turn' = [Idle EXCEPT !.job = m, !.at = "read"]
      BY <1>2 DEF Begin
    <3>3. m \in 0..MaxMessages
      BY ChatConstants DEF Messages
    <3>2. /\ Idle.holds = {} /\ Idle.pending = {} /\ Idle.calls = 0 /\ Idle.results = 0
      BY DEF Idle
    <3> QED BY <3>1, <3>2, <3>3, IdleType DEF Turn, Places
  <2>2. RestType'
    <3>1. note' \in [Messages -> Notes]
      BY <1>2 DEF Begin, RestType, Notes
    <3>2. taken' \in [Messages -> SUBSET Messages]
      BY <1>2 DEF Begin, RestType
    <3>3. job' \in [Messages -> {"none", "waiting", "working", "done"}]
      BY <1>2 DEF Begin, RestType
    <3> QED BY <1>2, <3>1, <3>2, <3>3 DEF Begin, RestType
  <2>3. turn.job = Nobody /\ m # Nobody /\ job'[m] = "working"
    <3>1. turn.at = "free" /\ job' = [job EXCEPT ![m] = "working"]
      BY <1>2 DEF Begin, HasLock
    <3>2. m # 0
      BY DEF Messages
    <3> QED BY <3>1, <3>2 DEF Placed, Nobody, RestType
  <2>4. \A n \in Messages : n # m => job'[n] = job[n]
    BY <1>2 DEF Begin, RestType
  <2>5. {n \in Messages : job'[n] = "working"} = {m}
    BY <2>3, <2>4 DEF Placed
  <2>6. hear' = hear /\ said' = said
    BY <1>2 DEF Begin
  <2> QED BY <2>1, <2>2, <2>3, <2>5, <2>6 DEF Placed
<1>3. CASE CannotRun
  <2>1. turn' \in Turn /\ turn'.at = "end" /\ turn'.job = turn.job /\ turn.at = "read"
    BY <1>3 DEF CannotRun, Turn, Places
  <2>2. RestType'
    BY <1>3, OwnerType DEF CannotRun, RestType
  <2> QED BY <1>3, <2>1, <2>2 DEF CannotRun, Placed
<1>4. CASE ReadChat
  <2>1. Later(turn.job) \in SUBSET Messages /\ turn.at = "read" /\ turn.job \in Messages
    BY <1>4, OwnerType DEF ReadChat, Later
  <2>2. /\ turn' \in Turn /\ turn'.at = "register" /\ turn'.job = turn.job
        /\ turn'.pending = turn.pending /\ turn'.calls = turn.calls
        /\ turn'.results = turn.results
    BY <1>4, <2>1 DEF ReadChat, Turn, Places
  <2>3. RestType'
    BY <1>4, <2>1, ClaimedType DEF ReadChat, RestType
  <2> QED BY <1>4, <2>1, <2>2, <2>3 DEF ReadChat, Placed
<1>5. CASE Register
  <2>1. turn' \in Turn /\ turn'.at = "poll" /\ turn'.job = turn.job /\ turn.at = "register"
    BY <1>5 DEF Register, Turn, Places
  <2>2. RestType'
    BY <1>5 DEF Register, RestType
  <2> QED BY <1>5, <2>1, <2>2 DEF Register, Placed
<1>6. CASE Leave
  <2>1. turn' \in Turn /\ turn'.at = "end" /\ turn'.job = turn.job /\ turn.at = "leave"
    BY <1>6 DEF Leave, Turn, Places
  <2> QED BY <1>6, <2>1, TurnAlone DEF Leave
<1>7. CASE Settle
  <2>1. turn' = Idle /\ turn.at = "end" /\ turn.job \in Messages
    BY <1>7, OwnerType DEF Settle
  <2>2. note' \in [Messages -> Notes]
    BY <1>7 DEF Settle, RestType, Notes
  <2>3. RestType'
    BY <1>7, <2>1, <2>2 DEF Settle, RestType
  <2>4. job' = [job EXCEPT ![turn.job] = "done"] /\ hear' = hear /\ said' = said
    BY <1>7 DEF Settle
  <2>5. \A n \in Messages : job'[n] # "working"
    BY <2>1, <2>4 DEF Placed, RestType
  <2>6. /\ turn'.at = "free" /\ turn'.job = Nobody /\ turn'.holds = {} /\ turn'.pending = {}
        /\ turn'.calls = 0 /\ turn'.results = 0 /\ turn' \in Turn
    BY <2>1, IdleType DEF Idle
  <2> QED BY <2>3, <2>4, <2>5, <2>6 DEF Placed
<1> QED BY <1>1, <1>2, <1>3, <1>4, <1>5, <1>6, <1>7

\* A result is of one of the calls.
LEMMA ResultType ==
    ASSUME Typed, turn.at \in {"check", "put", "asked", "tool"},
           NEW ends \in BOOLEAN, Result(ends)
    PROVE  /\ Typed'
           /\ turn'.job = turn.job /\ turn'.calls = turn.calls /\ turn'.cut = turn.cut
           /\ turn'.results = turn.results + 1 /\ turn'.holds = turn.holds
           /\ turn'.pending = turn.pending /\ turn'.more = turn.more
           /\ \/ turn'.at = "step" /\ (StepCut \/ turn'.results = turn.calls)
              \/ turn'.at = "check" /\ turn'.results < turn.calls
<1>1. turn.results < turn.calls /\ turn \in Turn
  BY DEF Typed, Placed
<1>2. turn.results + 1 \in 0..MaxCalls /\ (turn.ends /\ ends) \in BOOLEAN
  BY <1>1, ChatConstants DEF Turn
<1> DEFINE at == IF StepCut \/ turn.results + 1 = turn.calls THEN "step" ELSE "check"
           over == turn.ends /\ ends
<1>3. turn' = [turn EXCEPT !.results = turn.results + 1, !.ends = over, !.answer = "none",
                           !.at = at]
  BY DEF Result
<1>4. /\ at = "step" \/ at = "check"
      /\ at = "step" => StepCut \/ turn.results + 1 = turn.calls
      /\ at = "check" => turn.results + 1 < turn.calls
  BY <1>1 DEF Turn
<1> HIDE DEF at, over
<1>5. /\ turn' \in Turn
      /\ turn'.job = turn.job /\ turn'.calls = turn.calls /\ turn'.cut = turn.cut
      /\ turn'.results = turn.results + 1 /\ turn'.holds = turn.holds
      /\ turn'.pending = turn.pending /\ turn'.more = turn.more /\ turn'.at = at
  BY <1>1, <1>2, <1>3, <1>4 DEF Turn, Places, Answers, over
<1>6. Typed'
  BY <1>4, <1>5, TurnAlone DEF Result
<1> QED BY <1>4, <1>5, <1>6

\* The agent loop, its requests and its calls.
LEMMA TypedLoop ==
    ASSUME Typed, Poll \/ Prepare \/ Ask \/ Model \/ Aborted \/ StepEnds PROVE Typed'
<1> USE DEF Typed
<1> DEFINE In == turn.at \notin {"free", "read", "register"}
<1>1. CASE Poll
  <2>1. /\ turn' \in Turn /\ turn'.at \in {"leave", "prepare", "ask"} /\ turn'.job = turn.job
        /\ In
    BY <1>1 DEF Poll, Turn, Places, RestType
  <2>2. RestType'
    BY <1>1 DEF Poll, RestType
  <2> QED BY <1>1, <2>1, <2>2, TurnMoves DEF Poll
<1>2. CASE Prepare
  <2>1. turn' \in Turn /\ turn'.at = "ask" /\ turn'.job = turn.job /\ In
    BY <1>2 DEF Prepare, Turn, Places, RestType
  <2>2. RestType'
    BY <1>2 DEF Prepare, RestType
  <2> QED BY <1>2, <2>1, <2>2, TurnMoves DEF Prepare
<1>3. CASE Ask
  <2>1. turn.pending \in SUBSET Messages /\ turn.holds \in SUBSET Messages /\ turn.at = "ask"
    BY <1>3 DEF Ask, Turn
  <2>2. turn' \in Turn /\ turn'.at = "reply" /\ turn'.job = turn.job /\ In
    BY <1>3, <2>1 DEF Ask, Turn, Places
  <2>3. RestType'
    BY <1>3, <2>1, ClaimedType DEF Ask, RestType
  <2> QED BY <1>3, <2>2, <2>3, TurnMoves DEF Ask
<1>4. ASSUME NEW n \in 0..MaxCalls, Reply(n) PROVE Typed'
  <2>1. 0 \in 0..MaxCalls
    BY ChatConstants
  <2>2. /\ turn' \in Turn /\ turn'.at = IF n = 0 THEN "step" ELSE "check"
        /\ turn'.job = turn.job /\ turn'.results = 0 /\ turn'.calls = n /\ In
    BY <1>4, <2>1 DEF Reply, Turn, Places
  <2>3. RestType'
    BY <1>4, ChatConstants DEF Reply, RestType
  <2>4. n # 0 => 0 < n
    BY ChatConstants
  <2> QED BY <1>4, <2>2, <2>3, <2>4, TurnMoves DEF Reply
<1>5. ASSUME NEW n \in 0..MaxCalls, Truncated(n) PROVE Typed'
  <2>1. turn' \in Turn /\ turn'.at = "step" /\ turn'.job = turn.job /\ In
    BY <1>5 DEF Truncated, Turn, Places
  <2>2. RestType'
    BY <1>5, ChatConstants DEF Truncated, RestType
  <2> QED BY <1>5, <2>1, <2>2, TurnMoves DEF Truncated
<1>6. CASE Failed
  <2>1. turn' \in Turn /\ turn'.at = "leave" /\ turn'.job = turn.job /\ In
    BY <1>6 DEF Failed, Turn, Places
  <2> QED BY <1>6, <2>1, TurnAlone DEF Failed
<1>7. CASE Aborted
  <2>1. 0 \in 0..MaxCalls
    BY ChatConstants
  <2>2. turn' \in Turn /\ turn'.at \in {"leave", "poll"} /\ turn'.job = turn.job /\ In
    <3>1. CASE Stopped
      BY <1>7, <3>1 DEF Aborted, Turn, Places
    <3>2. CASE ~Stopped
      BY <1>7, <2>1, <3>2 DEF Aborted, Turn, Places
    <3> QED BY <3>1, <3>2
  <2> QED BY <1>7, <2>2, TurnAlone DEF Aborted
<1>8. CASE StepEnds
  <2> DEFINE results == IF Filled THEN turn.calls ELSE turn.results
             more == turn.calls > 0 /\ (Filled \/ ~turn.ends)
  <2>1. results \in 0..MaxCalls /\ more \in BOOLEAN /\ turn.at = "step" /\ turn \in Turn
    BY <1>8 DEF StepEnds, Turn
  <2>2. turn' = [turn EXCEPT !.results = results, !.more = more, !.last = TRUE,
                             !.at = "poll", !.cut = FALSE]
    BY <1>8 DEF StepEnds
  <2> HIDE DEF results, more
  <2>3. turn' \in Turn /\ turn'.at = "poll" /\ turn'.job = turn.job
    BY <2>1, <2>2 DEF Turn, Places
  <2> QED BY <1>8, <2>1, <2>3, TurnAlone DEF StepEnds
<1> QED BY <1>1, <1>2, <1>3, <1>4, <1>5, <1>6, <1>7, <1>8 DEF Model

LEMMA TypedCalls ==
    ASSUME Typed,
           Checks \/ ToolEnds \/ PutUp \/ Decide \/ CutOff
             \/ \E a \in {"allowed", "denied"} : Answer(a)
    PROVE  Typed'
<1>1. ASSUME NEW at \in {"put", "tool"}, turn.at \in {"check", "asked"}, GoesTo(at) PROVE Typed'
  <2>1. turn \in Turn /\ turn.results < turn.calls
    BY <1>1 DEF Typed, Placed
  <2>2. /\ turn' \in Turn /\ turn'.at = at /\ turn'.job = turn.job
        /\ turn'.results = turn.results /\ turn'.calls = turn.calls
    BY <1>1, <2>1 DEF GoesTo, Turn, Places, Answers
  <2> QED BY <1>1, <2>1, <2>2, TurnAlone DEF GoesTo
<1>2. ASSUME NEW a \in Answers, turn.at \in {"put", "asked"},
             \/ turn' = [turn EXCEPT !.at = "asked"]
             \/ turn' = [turn EXCEPT !.answer = a],
             UNCHANGED <<said, note, hear, copy, job, stopped, queue, replies, stops, taken,
                         carried, cut>>
      PROVE  Typed'
  <2>1. turn \in Turn /\ turn.results < turn.calls
    BY <1>2 DEF Typed, Placed
  <2>2. /\ turn' \in Turn /\ turn'.at \in {"put", "asked"} /\ turn'.job = turn.job
        /\ turn'.results = turn.results /\ turn'.calls = turn.calls
    BY <1>2, <2>1 DEF Turn, Places
  <2> QED BY <1>2, <2>1, <2>2, TurnAlone
<1>3. CASE Checks
  BY <1>1, <1>3, ResultType DEF Checks, Allowed, Refused, NotRun, Put
<1>4. CASE ToolEnds \/ CutOff
  BY <1>4, ResultType DEF ToolEnds, CutOff, Ignoring
<1>5. CASE PutUp
  <2>1. (~StepCut) \in BOOLEAN /\ "none" \in Answers
    BY DEF Answers
  <2> QED BY <1>2, <1>5, <2>1, ResultType DEF PutUp
<1>6. CASE Decide
  <2>1. (turn.answer = "dismissed" /\ ~StepCut) \in BOOLEAN
    OBVIOUS
  <2> QED BY <1>1, <1>6, <2>1, ResultType DEF Decide
<1>7. CASE \E a \in {"allowed", "denied"} : Answer(a)
  BY <1>2, <1>7 DEF Answer, Answers
<1> QED BY <1>3, <1>4, <1>5, <1>6, <1>7

\* The user's other calls.
LEMMA TypedUser ==
    ASSUME Typed, Stop \/ \E m \in Messages : SendNow(m) PROVE Typed'
<1> USE DEF Typed
<1>1. CASE Stop
  <2>1. RestType'
    BY <1>1, ChatConstants DEF Stop, Running, RestType
  <2> QED BY <1>1, <2>1 DEF Stop, Placed
<1>2. ASSUME NEW m \in Messages, SendNow(m) PROVE Typed'
  <2>1. RestType'
    <3>1. note' \in [Messages -> Notes]
      <4>1. note' = note \/ note' = [note EXCEPT ![m].queued = FALSE]
        BY <1>2 DEF SendNow
      <4>4. note \in [Messages -> Notes] /\ note[m] \in Notes
        BY DEF RestType
      <4>2. [note[m] EXCEPT !.queued = FALSE] \in Notes
        BY <4>4 DEF Notes
      <4>3. CASE note' = [note EXCEPT ![m] = [note[m] EXCEPT !.queued = FALSE]]
        BY <4>2, <4>3, <4>4
      <4> QED BY <4>1, <4>3, <4>4
    <3> QED BY <1>2, <3>1 DEF SendNow, RestType
  <2>2. /\ turn' \in Turn /\ turn'.at = turn.at /\ turn'.job = turn.job
        /\ turn'.holds = turn.holds /\ turn'.pending = turn.pending
        /\ turn'.calls = turn.calls /\ turn'.results = turn.results
    BY <1>2 DEF SendNow, Turn
  <2> QED BY <1>2, <2>1, <2>2 DEF SendNow, Placed
<1> QED BY <1>1, <1>2

LEMMA TypedStep == Typed /\ [Next]_vars => Typed'
<1> SUFFICES ASSUME Typed, [Next]_vars PROVE Typed'
  OBVIOUS
<1>1. CASE UNCHANGED vars
  BY <1>1 DEF vars, Typed, RestType, Placed
<1>2. CASE Say
  <2>1. said + 1 \in Messages
    BY <1>2, ChatConstants DEF Say, Typed, RestType, Messages
  <2> QED BY <1>2, <2>1, TypedHear
<1> QED BY <1>1, <1>2, TypedHear, TypedTurn, TypedLoop, TypedCalls, TypedUser DEF Next, Works

-----------------------------------------------------------------------------
(* A turn between two requests.                                            *)

\* What replies, calls and the ends of steps do.
Goes == \/ Model \/ Aborted \/ StepEnds \/ Leave
        \/ Checks \/ ToolEnds \/ PutUp \/ Decide \/ CutOff
        \/ \E a \in {"allowed", "denied"} : Answer(a)

InCalls == {"check", "put", "asked", "tool", "step"}

\* They change the turn alone, and start a call only in a step that is not cut.
GoesWithin ==
    /\ UNCHANGED <<said, note, hear, copy, job, stopped, queue, stops, taken, carried, cut>>
    /\ turn'.job = turn.job /\ turn'.holds = turn.holds /\ turn'.pending = turn.pending
    /\ turn.at \in InCalls \cup {"reply", "leave"}
    /\ turn'.at \in InCalls \cup {"poll", "leave", "end"}
    /\ turn'.at \in InCalls => turn'.cut = turn.cut /\ turn.at # "leave"
    /\ turn.at = "leave" => turn'.at = "end"
    /\ turn'.at = "tool" /\ turn.at # "tool" => ~StepCut

\* A step ends with the results of all its calls, unless it was cut.
Called ==
    /\ turn.at = "step" => turn.results <= turn.calls /\ (turn.results = turn.calls \/ StepCut)
    /\ CallsAnswered

LEMMA GoesStep ==
    ASSUME Typed, Called, Goes PROVE GoesWithin /\ Called'
<1> USE DEF GoesWithin, InCalls
<1>0. turn \in Turn /\ turn.results \in Nat /\ turn.calls \in Nat
  BY ChatConstants DEF Typed, Turn
<1>1. ASSUME turn.at \in {"check", "put", "asked", "tool"}, NEW ends \in BOOLEAN, Result(ends)
      PROVE  GoesWithin /\ Called'
  <2>1. UNCHANGED <<said, note, hear, copy, job, stopped, queue, stops, taken, carried, cut>>
    BY <1>1 DEF Result
  <2>3. /\ turn'.job = turn.job /\ turn'.calls = turn.calls /\ turn'.cut = turn.cut
        /\ turn'.holds = turn.holds /\ turn'.pending = turn.pending
        /\ \/ turn'.at = "step" /\ (StepCut \/ turn'.results = turn.calls)
           \/ turn'.at = "check" /\ turn'.results < turn.calls
        /\ turn'.results = turn.results + 1 /\ turn.results < turn.calls
    BY <1>1, ResultType DEF Typed, Placed
  <2>2. StepCut' = StepCut
    BY <2>1, <2>3 DEF StepCut, Stopped
  <2>4. GoesWithin
    BY <1>1, <2>1, <2>3
  <2> QED BY <1>0, <2>2, <2>3, <2>4 DEF Called, CallsAnswered
<1>2. ASSUME NEW at \in {"put", "tool"}, turn.at \in {"check", "asked"}, GoesTo(at), MayRun
      PROVE  GoesWithin /\ Called'
  <2>1. /\ turn'.at = at /\ turn'.job = turn.job /\ turn'.holds = turn.holds
        /\ turn'.pending = turn.pending /\ turn'.cut = turn.cut
    BY <1>0, <1>2 DEF GoesTo, Turn
  <2> QED BY <1>2, <2>1 DEF GoesTo, MayRun, Called, CallsAnswered
<1>3. CASE Checks
  BY <1>1, <1>2, <1>3 DEF Checks, Allowed, Refused, NotRun, Put, MayRun
<1>4. CASE ToolEnds \/ CutOff
  BY <1>1, <1>4 DEF ToolEnds, CutOff, Ignoring
<1>5. CASE PutUp
  <2>1. (~StepCut) \in BOOLEAN
    OBVIOUS
  <2>2. ASSUME turn.at = "put", turn' = [turn EXCEPT !.at = "asked"],
               UNCHANGED <<said, note, hear, copy, job, stopped, queue, stops, taken, carried, cut>>
        PROVE  GoesWithin /\ Called'
    <3>1. /\ turn'.at = "asked" /\ turn'.job = turn.job /\ turn'.holds = turn.holds
          /\ turn'.pending = turn.pending /\ turn'.cut = turn.cut
      BY <1>0, <2>2 DEF Turn
    <3> QED BY <2>2, <3>1 DEF Called, CallsAnswered
  <2> QED BY <1>1, <1>5, <2>1, <2>2 DEF PutUp
<1>6. CASE Decide
  <2>1. (turn.answer = "dismissed" /\ ~StepCut) \in BOOLEAN
    OBVIOUS
  <2> QED BY <1>1, <1>2, <1>6, <2>1 DEF Decide
<1>7. ASSUME NEW a, Answer(a) PROVE GoesWithin /\ Called'
  <2>1. /\ turn'.at = "asked" /\ turn'.job = turn.job /\ turn'.holds = turn.holds
        /\ turn'.pending = turn.pending /\ turn'.cut = turn.cut /\ turn.at = "asked"
    BY <1>0, <1>7 DEF Answer, Turn
  <2> QED BY <1>7, <2>1 DEF Answer, Called, CallsAnswered
<1>8. ASSUME NEW n \in 0..MaxCalls, Reply(n) \/ Truncated(n) PROVE GoesWithin /\ Called'
  <2>1. /\ turn'.at = "check" \/ (turn'.at = "step" /\ turn'.results = turn'.calls)
        /\ turn'.calls = n /\ turn'.job = turn.job
        /\ turn'.holds = turn.holds /\ turn'.pending = turn.pending /\ turn'.cut = turn.cut
    <3>1. CASE Reply(n)
      BY <1>0, <3>1 DEF Reply, Turn
    <3>2. CASE Truncated(n)
      BY <1>0, <3>2 DEF Truncated, Turn
    <3> QED BY <1>8, <3>1, <3>2
  <2>2. turn.at = "reply"
        /\ UNCHANGED <<said, note, hear, copy, job, stopped, queue, stops, taken, carried, cut>>
    BY <1>8 DEF Reply, Truncated
  <2> QED BY <2>1, <2>2 DEF Called, CallsAnswered
<1>9. CASE Failed \/ Leave
  <2>1. /\ turn'.at \in {"leave", "end"} /\ turn'.job = turn.job
        /\ turn'.holds = turn.holds /\ turn'.pending = turn.pending
        /\ turn.at = "leave" => turn'.at = "end"
    BY <1>0, <1>9 DEF Failed, Leave, Turn
  <2> QED BY <1>9, <2>1 DEF Failed, Leave, Called, CallsAnswered
<1>10. CASE Aborted
  <2>1. /\ turn'.at = "leave" \/ (turn'.at = "poll" /\ turn'.results = 0 /\ turn'.calls = 0)
        /\ turn'.job = turn.job /\ turn'.holds = turn.holds /\ turn'.pending = turn.pending
    <3>1. CASE Stopped
      BY <1>0, <1>10, <3>1 DEF Aborted, Turn
    <3>2. CASE ~Stopped
      BY <1>0, <1>10, <3>2 DEF Aborted, Turn
    <3> QED BY <3>1, <3>2
  <2> QED BY <1>10, <2>1 DEF Aborted, Called, CallsAnswered
<1>11. CASE StepEnds
  <2>1. /\ turn'.at = "poll" /\ turn'.job = turn.job /\ turn'.calls = turn.calls
        /\ turn'.results = IF Filled THEN turn.calls ELSE turn.results
        /\ turn'.holds = turn.holds /\ turn'.pending = turn.pending
    BY <1>0, <1>11 DEF StepEnds, Turn
  <2>2. turn.at = "step" /\ (Stopped' <=> Stopped)
    BY <1>11, <2>1 DEF StepEnds, Stopped
  <2>3. ~Stopped => turn'.results = turn.calls
    BY <1>0, <2>1, <2>2 DEF Called, StepCut, Filled
  <2> QED BY <1>11, <2>1, <2>2, <2>3 DEF StepEnds, Called, CallsAnswered
<1> QED BY <1>3, <1>4, <1>5, <1>6, <1>7, <1>8, <1>9, <1>10, <1>11 DEF Goes, Model

LEMMA CalledStep == Typed /\ Called /\ [Next]_vars => Called'
<1> SUFFICES ASSUME Typed, Called, [Next]_vars PROVE Called'
  OBVIOUS
<1>0. turn \in Turn
  BY DEF Typed
<1>1. ASSUME UNCHANGED stopped, turn'.at = turn.at, turn'.job = turn.job,
             turn'.calls = turn.calls, turn'.results = turn.results, turn.cut => turn'.cut
      PROVE  Called'
  BY <1>1 DEF Called, CallsAnswered, Stopped, StepCut
<1>2. ASSUME turn'.at \notin {"step", "poll", "prepare", "ask"} PROVE Called'
  BY <1>2 DEF Called, CallsAnswered
<1>3. CASE Say \/ UNCHANGED vars
  BY <1>1, <1>3 DEF Say, vars
<1>4. ASSUME NEW m \in Messages, Hear(m) \/ Skip(m) \/ Begin(m) PROVE Called'
  <2>1. CASE Offer(m) \/ Hold(m) \/ Push(m) \/ Start(m) \/ Skip(m)
    BY <1>1, <2>1 DEF Offer, Hold, Push, Start, Skip
  <2>2. CASE Dismiss(m)
    <3>1. /\ turn'.at = turn.at /\ turn'.job = turn.job /\ turn'.calls = turn.calls
          /\ turn'.results = turn.results /\ turn'.cut = turn.cut /\ UNCHANGED stopped
      BY <1>0, <2>2 DEF Dismiss, Turn
    <3> QED BY <1>1, <3>1
  <2>3. CASE Begin(m)
    BY <1>2, <2>3 DEF Begin, Idle
  <2> QED BY <1>4, <2>1, <2>2, <2>3 DEF Hear
<1>5. CASE CannotRun \/ ReadChat \/ Settle
  <2>1. turn'.at \in {"end", "register", "free"}
    <3>1. CASE CannotRun
      BY <1>0, <3>1 DEF CannotRun, Turn
    <3>2. CASE ReadChat
      BY <1>0, <3>2 DEF ReadChat, Turn
    <3>3. CASE Settle
      BY <3>3 DEF Settle, Idle
    <3> QED BY <1>5, <3>1, <3>2, <3>3
  <2> QED BY <1>2, <2>1
<1>6. CASE Register
  <2>1. turn'.at = "poll" /\ turn'.calls = 0 /\ turn'.results = 0
    BY <1>0, <1>6 DEF Register, Turn, Typed, Placed
  <2> QED BY <2>1 DEF Called, CallsAnswered
<1>7. CASE Poll \/ Prepare
  <2>1. /\ turn.at \in {"poll", "prepare"} /\ turn'.at \in {"leave", "prepare", "ask"}
        /\ turn'.calls = turn.calls /\ turn'.results = turn.results /\ turn'.job = turn.job
        /\ UNCHANGED stopped
    BY <1>0, <1>7 DEF Poll, Prepare, Turn
  <2> QED BY <2>1 DEF Called, CallsAnswered, Stopped
<1>8. CASE Ask
  <2>1. turn'.at = "reply"
    BY <1>0, <1>8 DEF Ask, Turn
  <2> QED BY <1>2, <2>1
<1>9. CASE Stop
  BY <1>9 DEF Stop, Called, CallsAnswered, Stopped, StepCut
<1>10. ASSUME NEW m \in Messages, SendNow(m) PROVE Called'
  <2>1. /\ turn'.at = turn.at /\ turn'.job = turn.job /\ turn'.calls = turn.calls
        /\ turn'.results = turn.results /\ UNCHANGED stopped /\ (turn.cut => turn'.cut)
    BY <1>0, <1>10 DEF SendNow, Turn
  <2> QED BY <1>1, <2>1
<1>11. Goes => Called'
  BY GoesStep
<1> QED BY <1>3, <1>4, <1>5, <1>6, <1>7, <1>8, <1>9, <1>10, <1>11 DEF Next, Works, Goes

-----------------------------------------------------------------------------
(* The turn after the steps that are not its own affair.                   *)

SameTurn == /\ turn'.at = turn.at /\ turn'.job = turn.job /\ turn'.more = turn.more
            /\ turn'.holds = turn.holds /\ turn'.pending = turn.pending
            /\ (turn.cut => turn'.cut)

LEMMA TurnAfter ==
    ASSUME Typed
    PROVE  /\ \A m \in Messages : Dismiss(m) => SameTurn /\ turn'.cut = turn.cut
           /\ \A m \in Messages : SendNow(m) => SameTurn /\ (turn' = turn \/ turn'.cut)
           /\ \A m \in Messages : Begin(m) =>
                 turn'.at = "read" /\ turn'.job = m /\ turn'.holds = {} /\ turn'.pending = {}
           /\ CannotRun => turn'.at = "end" /\ turn'.job = turn.job
                           /\ turn'.holds = turn.holds /\ turn'.pending = turn.pending
           /\ ReadChat => turn'.at = "register" /\ turn'.job = turn.job
                          /\ turn'.holds = {turn.job} \cup Later(turn.job)
                          /\ turn'.pending = turn.pending
           /\ Register => turn'.at = "poll" /\ turn'.job = turn.job /\ turn'.more
                          /\ turn'.holds = turn.holds /\ turn'.pending = turn.pending
           /\ Poll => turn'.at \in {"leave", "prepare", "ask"} /\ turn'.job = turn.job
                      /\ turn'.more = turn.more /\ turn'.holds = turn.holds
                      /\ turn'.pending = queue
                      /\ (turn'.at = "leave" => ~turn.more /\ queue = {})
           /\ Prepare => turn'.at = "ask" /\ turn'.job = turn.job /\ turn'.more = turn.more
                         /\ turn'.holds = turn.holds
                         /\ turn'.pending = IF turn.pending = {} THEN queue ELSE turn.pending
           /\ Ask => turn'.at = "reply" /\ turn'.job = turn.job /\ turn'.pending = {}
                     /\ turn'.holds = turn.holds \cup turn.pending
           /\ Settle => turn'.at = "free" /\ turn'.job = Nobody /\ turn'.holds = {}
                        /\ turn'.pending = {}
<1>0. turn \in Turn
  BY DEF Typed
<1>1. \A m \in Messages : Dismiss(m) => SameTurn /\ turn'.cut = turn.cut
  BY <1>0 DEF Dismiss, SameTurn, Turn
<1>2. \A m \in Messages : SendNow(m) => SameTurn /\ (turn' = turn \/ turn'.cut)
  BY <1>0 DEF SendNow, SameTurn, Turn
<1>3. \A m \in Messages : Begin(m) =>
         turn'.at = "read" /\ turn'.job = m /\ turn'.holds = {} /\ turn'.pending = {}
  BY DEF Begin, Idle
<1>4. CannotRun => turn'.at = "end" /\ turn'.job = turn.job
                   /\ turn'.holds = turn.holds /\ turn'.pending = turn.pending
  BY <1>0 DEF CannotRun, Turn
<1>5. ReadChat => turn'.at = "register" /\ turn'.job = turn.job
                  /\ turn'.holds = {turn.job} \cup Later(turn.job)
                  /\ turn'.pending = turn.pending
  BY <1>0 DEF ReadChat, Turn
<1>6. Register => turn'.at = "poll" /\ turn'.job = turn.job /\ turn'.more
                  /\ turn'.holds = turn.holds /\ turn'.pending = turn.pending
  BY <1>0 DEF Register, Turn
<1>7. Poll => turn'.at \in {"leave", "prepare", "ask"} /\ turn'.job = turn.job
              /\ turn'.more = turn.more /\ turn'.holds = turn.holds
              /\ turn'.pending = queue
              /\ (turn'.at = "leave" => ~turn.more /\ queue = {})
  BY <1>0 DEF Poll, Turn
<1>8. Prepare => turn'.at = "ask" /\ turn'.job = turn.job /\ turn'.more = turn.more
                 /\ turn'.holds = turn.holds
                 /\ turn'.pending = IF turn.pending = {} THEN queue ELSE turn.pending
  BY <1>0 DEF Prepare, Turn
<1>9. Ask => turn'.at = "reply" /\ turn'.job = turn.job /\ turn'.pending = {}
             /\ turn'.holds = turn.holds \cup turn.pending
  BY <1>0 DEF Ask, Turn
<1>10. Settle => turn'.at = "free" /\ turn'.job = Nobody /\ turn'.holds = {}
                 /\ turn'.pending = {}
  BY DEF Settle, Idle
<1> QED BY <1>1, <1>2, <1>3, <1>4, <1>5, <1>6, <1>7, <1>8, <1>9, <1>10

-----------------------------------------------------------------------------
(* What waits, in a queue or for the lock.                                 *)

\* The next message has not been said.
LEMMA NextMessage ==
    ASSUME Typed, Say PROVE said + 1 \in Messages /\ hear[said + 1] = "unsaid"
<1>1. said \in Nat /\ said < MaxMessages /\ MaxMessages \in Nat
  BY ChatConstants DEF Say, Typed, RestType
<1>2. said + 1 \in Messages /\ said + 1 \notin 1..said
  BY <1>1 DEF Messages
<1> QED BY <1>2 DEF Typed, Placed

\* Jobs start when their message was heard; a queue holds messages on their way to a
\* job, and a turn is free only when it left nothing in it.
Waiting ==
    /\ \A m \in Messages : job[m] # "none" => hear[m] = "heard"
    /\ \A m \in Messages : hear[m] \in {"offered", "held"} => copy[m].to # Nobody
    /\ turn.at = "free" => queue = {}
    /\ \A m \in queue \cup turn.pending :
          hear[m] \in {"dismissing", "heard"} /\ job[m] \in {"none", "waiting"}

LEMMA WaitingStep == Typed /\ Called /\ Waiting /\ [Next]_vars => Waiting'
<1> SUFFICES ASSUME Typed, Called, Waiting, [Next]_vars PROVE Waiting'
  OBVIOUS
<1>0. RestType /\ turn.pending \subseteq Messages /\ (turn.at = "free" <=> turn.job = Nobody)
  BY DEF Typed, Placed, Turn
<1> DEFINE Mine == /\ turn'.at = "free" => turn.at = "free"
                   /\ turn'.pending \subseteq turn.pending \cup queue /\ queue' \subseteq queue
<1>1. ASSUME UNCHANGED <<hear, copy, job>>, Mine PROVE Waiting'
  BY <1>1 DEF Waiting
<1>2. CASE Say
  <2>1. hear[said + 1] = "unsaid"
    BY <1>2, NextMessage
  <2> QED BY <1>0, <1>2, <2>1 DEF Say, Waiting, RestType
<1>3. ASSUME NEW m \in Messages, Offer(m) PROVE Waiting'
  <2>1. Registered => turn.job # Nobody
    BY <1>0 DEF Registered
  <2> QED BY <1>0, <1>3, <2>1 DEF Offer, Waiting, RestType
<1>4. ASSUME NEW m \in Messages, Hold(m) PROVE Waiting'
  BY <1>0, <1>4 DEF Hold, Waiting, RestType
<1>5. ASSUME NEW m \in Messages, Push(m) PROVE Waiting'
  BY <1>0, <1>5 DEF Push, Waiting, RestType
<1>6. ASSUME NEW m \in Messages, Dismiss(m) PROVE Waiting'
  BY <1>0, <1>6, TurnAfter DEF Dismiss, SameTurn, Waiting, RestType
<1>7. ASSUME NEW m \in Messages, Start(m) PROVE Waiting'
  BY <1>0, <1>7 DEF Start, Waiting, RestType
<1>8. ASSUME NEW m \in Messages, Skip(m) PROVE Waiting'
  <2>1. queue = {} /\ turn.pending = {}
    BY <1>8 DEF Skip, HasLock, Waiting, Typed, Placed
  <2> QED BY <1>0, <1>8, <2>1 DEF Skip, HasLock, Waiting, RestType
<1>9. ASSUME NEW m \in Messages, Begin(m) PROVE Waiting'
  <2>1. queue = {} /\ turn'.pending = {}
    BY <1>9, TurnAfter DEF Begin, HasLock, Waiting
  <2> QED BY <1>0, <1>9, <2>1 DEF Begin, HasLock, Waiting, RestType
<1>10. CASE CannotRun \/ ReadChat \/ Register \/ Poll \/ Prepare \/ Ask
  <2>1. Mine
    BY <1>10, TurnAfter DEF CannotRun, ReadChat, Register, Poll, Prepare, Ask
  <2> QED BY <1>1, <1>10, <2>1 DEF CannotRun, ReadChat, Register, Poll, Prepare, Ask
<1>11. CASE Settle
  <2>1. turn'.pending = {} /\ queue' = {} /\ job[turn.job] = "working" /\ turn.job \in Messages
    BY <1>11, TurnAfter, OwnerType DEF Settle
  <2> QED BY <1>0, <1>11, <2>1 DEF Settle, Waiting, RestType
<1>12. ASSUME NEW m \in Messages, SendNow(m) PROVE Waiting'
  BY <1>1, <1>12, TurnAfter DEF SendNow, SameTurn
<1>13. CASE Stop
  BY <1>1, <1>13 DEF Stop
<1>14. CASE UNCHANGED vars
  BY <1>1, <1>14 DEF vars
<1>15. ASSUME Goes PROVE Waiting'
  BY <1>1, <1>15, GoesStep DEF GoesWithin, InCalls
<1> QED BY <1>2, <1>3, <1>4, <1>5, <1>6, <1>7, <1>8, <1>9, <1>10, <1>11, <1>12, <1>13, <1>14,
           <1>15 DEF Next, Works, Goes, Hear

-----------------------------------------------------------------------------
(* What a turn reads is not on its way to a queue.                         *)

InOrder == "overtaken" \notin Occurs

\* A message that no turn could have heard of is as it was said.
Untouched ==
    \A m \in Messages :
        /\ hear[m] \in {"unsaid", "said", "offered"} => note[m] = Unmarked /\ taken[m] = {}
        /\ hear[m] = "offered" => copy[m].note = Unmarked

\* What a turn claims has come its way.
LEMMA ClaimsHeard ==
    ASSUME InOrder, Typed, Waiting, ReadChat \/ Ask
    PROVE  \E found \in SUBSET Messages :
              /\ Claimed(found)
              /\ \A m \in found : hear[m] \in {"held", "dismissing", "heard"}
              /\ ReadChat => found = Later(turn.job)
              /\ Ask => found = turn.pending
<1>0. RestType /\ turn.pending \subseteq Messages
  BY DEF Typed, Turn
<1>1. CASE ReadChat
  <2>1. /\ Claimed(Later(turn.job)) /\ turn.at = "read"
        /\ \A m \in Messages : hear[m] \notin {"said", "offered"}
    BY <1>1 DEF ReadChat, InTime, InOrder
  <2>2. \A m \in Later(turn.job) : m \in 1..said
    BY <1>0, ChatConstants DEF Later, RestType, Messages
  <2>3. \A m \in Later(turn.job) : hear[m] # "unsaid"
    BY <2>2 DEF Typed, Placed
  <2>4. Later(turn.job) \in SUBSET Messages
    BY DEF Later
  <2>5. ~Ask
    BY <2>1 DEF Ask
  <2> QED BY <1>0, <2>1, <2>3, <2>4, <2>5 DEF RestType
<1>2. CASE Ask
  BY <1>0, <1>2 DEF Ask, ReadChat, Waiting
<1> QED BY <1>1, <1>2

LEMMA UntouchedStep ==
    ASSUME InOrder PROVE Typed /\ Called /\ Waiting /\ Untouched /\ [Next]_vars => Untouched'
<1> SUFFICES ASSUME Typed, Called, Waiting, Untouched, [Next]_vars PROVE Untouched'
  OBVIOUS
<1>0. RestType
  BY DEF Typed
<1>1. ASSUME UNCHANGED <<hear, copy, note, taken>> PROVE Untouched'
  BY <1>1 DEF Untouched
<1>2. ASSUME NEW m \in Messages, UNCHANGED <<hear, copy>>, hear[m] = "heard",
             \A n \in Messages : n # m => note'[n] = note[n] /\ taken'[n] = taken[n]
      PROVE  Untouched'
  BY <1>2 DEF Untouched
<1>3. CASE Say
  <2>1. said + 1 \in Messages /\ hear[said + 1] = "unsaid"
    BY <1>3, NextMessage
  <2> QED BY <1>0, <1>3, <2>1 DEF Say, Untouched, RestType
<1>4. ASSUME NEW m \in Messages, Offer(m) \/ Hold(m) \/ Push(m) \/ Start(m) PROVE Untouched'
  <2>1. CASE Offer(m)
    <3>1. copy'[m].note = note[m]
      BY <1>0, <2>1 DEF Offer, RestType
    <3> QED BY <1>0, <2>1, <3>1 DEF Offer, Untouched, RestType
  <2>2. CASE Hold(m)
    BY <1>0, <2>2 DEF Hold, Untouched, RestType
  <2>3. CASE Push(m) \/ Start(m)
    BY <1>0, <2>3 DEF Push, Start, Untouched, RestType
  <2> QED BY <1>4, <2>1, <2>2, <2>3
<1>5. ASSUME NEW m \in Messages, Dismiss(m) PROVE Untouched'
  BY <1>0, <1>5 DEF Dismiss, Untouched, RestType
<1>6. ASSUME NEW m \in Messages, Skip(m) \/ Begin(m) PROVE Untouched'
  <2>1. hear[m] = "heard"
    BY <1>6 DEF Skip, Begin, HasLock, Waiting
  <2> QED BY <1>0, <1>1, <1>2, <1>6, <2>1 DEF Skip, Begin, RestType
<1>7. CASE CannotRun \/ Register \/ Poll \/ Prepare
  BY <1>1, <1>7 DEF CannotRun, Register, Poll, Prepare
<1>8. CASE ReadChat \/ Ask
  <2>1. PICK found \in SUBSET Messages :
           Claimed(found) /\ \A m \in found : hear[m] \in {"held", "dismissing", "heard"}
    BY <1>8, ClaimsHeard
  <2>2. UNCHANGED <<hear, copy>>
    BY <1>8 DEF ReadChat, Ask
  <2>3. \A m \in Messages : m \notin found => note'[m] = note[m] /\ taken'[m] = taken[m]
    BY <2>1 DEF Claimed, Unclaimed
  <2> QED BY <2>1, <2>2, <2>3 DEF Untouched
<1>9. CASE Settle
  <2>1. \A m \in Messages : note'[m] = note[m] \/ note'[m] = [note[m] EXCEPT !.queued = FALSE]
    BY <1>0, <1>9 DEF Settle, RestType
  <2>2. \A m \in Messages : note[m] = Unmarked => note'[m] = Unmarked
    BY <2>1 DEF Unmarked
  <2> QED BY <1>9, <2>2 DEF Settle, Untouched
<1>10. ASSUME NEW m \in Messages, SendNow(m) PROVE Untouched'
  <2>1. \A n \in Messages : note[n] = Unmarked => note'[n] = Unmarked
    <3>1. note' = note \/ note' = [note EXCEPT ![m].queued = FALSE]
      BY <1>10 DEF SendNow
    <3>2. \A n \in Messages : note'[n] = note[n] \/ note'[n] = [note[n] EXCEPT !.queued = FALSE]
      BY <1>0, <3>1 DEF RestType
    <3> QED BY <3>2 DEF Unmarked
  <2> QED BY <1>10, <2>1 DEF SendNow, Untouched
<1>11. CASE Stop \/ UNCHANGED vars
  BY <1>1, <1>11 DEF Stop, vars
<1>12. ASSUME Goes PROVE Untouched'
  BY <1>1, <1>12, GoesStep DEF GoesWithin
<1> QED BY <1>3, <1>4, <1>5, <1>6, <1>7, <1>8, <1>9, <1>10, <1>11, <1>12
        DEF Next, Works, Goes, Hear

-----------------------------------------------------------------------------
(* Messages that show as held.                                             *)

Held ==
    \A m \in Messages :
        note[m].queued => /\ ~note[m].promoted
                          /\ job[m] \in {"none", "waiting"} \/ (job[m] = "done" /\ m \in stopped)

LEMMA HeldStep ==
    ASSUME InOrder
    PROVE  Typed /\ Called /\ Waiting /\ Untouched /\ Held /\ [Next]_vars => Held'
<1> SUFFICES ASSUME Typed, Called, Waiting, Untouched, Held, [Next]_vars PROVE Held'
  OBVIOUS
<1>0. RestType
  BY DEF Typed
<1>1. ASSUME UNCHANGED <<note, job>>, stopped \subseteq stopped' PROVE Held'
  BY <1>1 DEF Held
<1>2. ASSUME NEW m \in Messages, Offer(m) \/ Push(m) \/ Dismiss(m) PROVE Held'
  BY <1>1, <1>2 DEF Offer, Push, Dismiss
<1>3. ASSUME NEW m \in Messages, Hold(m) PROVE Held'
  <2>1. job[m] = "none" /\ copy[m].note = Unmarked
    BY <1>0, <1>3 DEF Hold, Waiting, Untouched, RestType
  <2>2. note'[m].promoted = FALSE /\ \A n \in Messages : n # m => note'[n] = note[n]
    BY <1>0, <1>3, <2>1 DEF Hold, Unmarked, RestType
  <2> QED BY <1>3, <2>1, <2>2 DEF Hold, Held
<1>4. ASSUME NEW m \in Messages, Start(m) PROVE Held'
  BY <1>0, <1>4 DEF Start, Held, RestType
<1>5. ASSUME NEW m \in Messages, Skip(m) PROVE Held'
  <2>1. note[m].queued => m \in stopped
    BY <1>5 DEF Skip, Handled, Held
  <2> QED BY <1>0, <1>5, <2>1 DEF Skip, Held, RestType
<1>6. ASSUME NEW m \in Messages, Begin(m) PROVE Held'
  <2>1. note'[m].queued = FALSE /\ \A n \in Messages : n # m => note'[n] = note[n]
    <3>1. note' = [note EXCEPT ![m].queued = FALSE]
      BY <1>6 DEF Begin
    <3>2. note'[m] = [note[m] EXCEPT !.queued = FALSE] /\ note[m] \in Notes
      BY <1>0, <3>1 DEF RestType
    <3> QED BY <1>0, <3>1, <3>2 DEF RestType, Notes
  <2> QED BY <1>0, <1>6, <2>1 DEF Begin, Held, RestType
<1>7. CASE ReadChat \/ Ask
  <2>1. PICK found \in SUBSET Messages : Claimed(found)
    BY <1>7, ClaimsHeard
  <2>2. \A m \in Messages : note'[m] = note[m] \/ ~note'[m].queued
    BY <2>1 DEF Claimed
  <2>3. UNCHANGED <<job, stopped>>
    BY <1>7 DEF ReadChat, Ask
  <2> QED BY <2>2, <2>3 DEF Held
<1>8. CASE CannotRun \/ Register \/ Poll \/ Prepare \/ Say
  BY <1>1, <1>8 DEF CannotRun, Register, Poll, Prepare, Say
<1>9. CASE Settle
  <2>1. \A m \in Messages : note'[m] = note[m] \/ note'[m] = [note[m] EXCEPT !.queued = FALSE]
    BY <1>0, <1>9 DEF Settle, RestType
  <2>2. \A m \in Messages : note'[m].queued => note'[m] = note[m]
    BY <1>0, <2>1 DEF RestType, Notes
  <2>3. turn.job \in Messages /\ job[turn.job] = "working"
    BY <1>9, OwnerType DEF Settle
  <2>4. job' = [job EXCEPT ![turn.job] = "done"] /\ stopped' = stopped
    BY <1>9 DEF Settle
  <2> QED BY <1>0, <2>2, <2>3, <2>4 DEF Held, RestType
<1>10. ASSUME NEW m \in Messages, SendNow(m) PROVE Held'
  <2>1. \A n \in Messages : note'[n] = note[n] \/ ~note'[n].queued
    BY <1>0, <1>10 DEF SendNow, RestType, Notes
  <2> QED BY <1>10, <2>1 DEF SendNow, Held
<1>11. CASE Stop \/ UNCHANGED vars
  BY <1>1, <1>11 DEF Stop, vars
<1>12. ASSUME Goes PROVE Held'
  BY <1>1, <1>12, GoesStep DEF GoesWithin
<1> QED BY <1>2, <1>3, <1>4, <1>5, <1>6, <1>7, <1>8, <1>9, <1>10, <1>11, <1>12
        DEF Next, Works, Goes, Hear

-----------------------------------------------------------------------------
(* Messages are read once.                                                 *)

ByOrder == "disorder" \notin Occurs

\* The jobs before one that got the lock have ended.
Order == \A m \in Messages : job[m] \in {"working", "done"} => \A n \in 1..(m - 1) : job[n] = "done"

LEMMA OrderStep ==
    ASSUME ByOrder PROVE Typed /\ Called /\ Waiting /\ Order /\ [Next]_vars => Order'
<1> SUFFICES ASSUME Typed, Called, Waiting, Order, [Next]_vars PROVE Order'
  OBVIOUS
<1>0. RestType
  BY DEF Typed
<1>1. ASSUME UNCHANGED job PROVE Order'
  BY <1>1 DEF Order
<1>2. ASSUME NEW m \in Messages, job[m] # "done", NEW to, job' = [job EXCEPT ![m] = to],
             to = "waiting" \/ \A n \in 1..(m - 1) : job[n] = "done"
      PROVE  Order'
  <2>1. job'[m] = to /\ \A n \in Messages : n # m => job'[n] = job[n]
    BY <1>0, <1>2 DEF RestType
  <2>2. ASSUME NEW k \in Messages, job'[k] \in {"working", "done"}, NEW n \in 1..(k - 1)
        PROVE  job'[n] = "done"
    <3>1. n \in Messages /\ n # k
      BY ChatConstants DEF Messages
    <3>2. job[n] = "done"
      BY <1>2, <2>1, <2>2 DEF Order
    <3> QED BY <1>2, <2>1, <3>1, <3>2
  <2> QED BY <2>2 DEF Order
<1>3. ASSUME NEW m \in Messages, Start(m) PROVE Order'
  BY <1>2, <1>3 DEF Start
<1>4. ASSUME NEW m \in Messages, Skip(m) \/ Begin(m) PROVE Order'
  BY <1>2, <1>4 DEF Skip, Begin, HasLock, ByOrder
<1>5. CASE Settle
  <2>1. turn.job \in Messages /\ job[turn.job] = "working"
    BY <1>5, OwnerType DEF Settle
  <2> QED BY <1>2, <1>5, <2>1 DEF Settle, Order
<1>6. ASSUME NEW m \in Messages, Offer(m) \/ Hold(m) \/ Push(m) \/ Dismiss(m) \/ SendNow(m)
      PROVE  Order'
  BY <1>1, <1>6 DEF Offer, Hold, Push, Dismiss, SendNow
<1>7. CASE CannotRun \/ ReadChat \/ Register \/ Poll \/ Prepare \/ Ask \/ Say \/ Stop
  BY <1>1, <1>7 DEF CannotRun, ReadChat, Register, Poll, Prepare, Ask, Say, Stop
<1>8. CASE UNCHANGED vars
  BY <1>1, <1>8 DEF vars
<1>9. ASSUME Goes PROVE Order'
  BY <1>1, <1>9, GoesStep DEF GoesWithin
<1> QED BY <1>3, <1>4, <1>5, <1>6, <1>7, <1>8, <1>9 DEF Next, Works, Goes, Hear

\* A message a turn took is promoted, or its own job has come; one whose job has come was
\* taken, or stopped.
Single ==
    \A m \in Messages :
        /\ \A j, k \in taken[m] : j = k
        /\ taken[m] # {} => note[m].promoted \/ job[m] \in {"working", "done"}
        /\ note[m].promoted => taken[m] # {}
        /\ job[m] \in {"working", "done"} => taken[m] # {} \/ m \in stopped

\* What a turn claims waits for its own job.
LEMMA ClaimsWait ==
    ASSUME InOrder, Typed, Waiting, Order, ReadChat \/ Ask
    PROVE  \E found \in SUBSET Messages :
              /\ Claimed(found)
              /\ \A m \in found : hear[m] \in {"held", "dismissing", "heard"}
              /\ \A m \in found : job[m] \in {"none", "waiting"}
              /\ ReadChat => found = Later(turn.job)
              /\ Ask => found = turn.pending
<1>1. PICK found \in SUBSET Messages :
         /\ Claimed(found)
         /\ \A m \in found : hear[m] \in {"held", "dismissing", "heard"}
         /\ ReadChat => found = Later(turn.job)
         /\ Ask => found = turn.pending
  BY ClaimsHeard
<1>2. ASSUME ReadChat, NEW m \in found PROVE job[m] \in {"none", "waiting"}
  <2>1. turn.at # "free" /\ m \in Messages /\ turn.job < m
    BY <1>1, <1>2 DEF ReadChat, Later
  <2>2. job[turn.job] = "working" /\ turn.job \in Messages
    BY <2>1, OwnerType
  <2>3. turn.job \in 1..(m - 1)
    BY <2>1, <2>2, ChatConstants DEF Messages
  <2>4. job[m] \notin {"working", "done"}
    BY <2>1, <2>2, <2>3 DEF Order
  <2> QED BY <2>1, <2>4 DEF Typed, RestType
<1>3. ASSUME Ask, NEW m \in found PROVE job[m] \in {"none", "waiting"}
  BY <1>1, <1>3 DEF Waiting
<1> QED BY <1>1, <1>2, <1>3

LEMMA SingleStep ==
    ASSUME InOrder
    PROVE  Typed /\ Called /\ Waiting /\ Untouched /\ Order /\ Single /\ [Next]_vars => Single'
<1> SUFFICES ASSUME Typed, Called, Waiting, Untouched, Order, Single, [Next]_vars PROVE Single'
  OBVIOUS
<1>0. RestType
  BY DEF Typed
<1>1. ASSUME UNCHANGED <<job, taken>>, stopped \subseteq stopped',
             \A m \in Messages : note'[m].promoted = note[m].promoted
      PROVE  Single'
  BY <1>1 DEF Single
<1>2. ASSUME NEW m \in Messages, Offer(m) \/ Push(m) \/ Dismiss(m) PROVE Single'
  BY <1>1, <1>2 DEF Offer, Push, Dismiss
<1>3. ASSUME NEW m \in Messages, Hold(m) PROVE Single'
  <2>1. note[m] = Unmarked /\ copy[m].note = Unmarked
    BY <1>3 DEF Hold, Untouched
  <2>2. \A n \in Messages : note'[n].promoted = note[n].promoted
    BY <1>0, <1>3, <2>1 DEF Hold, Unmarked, RestType
  <2> QED BY <1>1, <1>3, <2>2 DEF Hold
<1>4. ASSUME NEW m \in Messages, Start(m) PROVE Single'
  BY <1>0, <1>4 DEF Start, Single, RestType
<1>5. ASSUME NEW m \in Messages, Skip(m) PROVE Single'
  BY <1>0, <1>5 DEF Skip, HasLock, Handled, Single, RestType
<1>6. ASSUME NEW m \in Messages, Begin(m) PROVE Single'
  <2>1. taken[m] = {}
    BY <1>6 DEF Begin, HasLock, Handled, Single
  <2>2. taken'[m] = {m} /\ \A n \in Messages : n # m => taken'[n] = taken[n]
    BY <1>0, <1>6, <2>1 DEF Begin, RestType
  <2>3. \A n \in Messages : note'[n].promoted = note[n].promoted
    BY <1>0, <1>6 DEF Begin, RestType, Notes
  <2>4. job'[m] = "working" /\ \A n \in Messages : n # m => job'[n] = job[n]
    BY <1>0, <1>6 DEF Begin, RestType
  <2>5. UNCHANGED stopped
    BY <1>6 DEF Begin
  <2> QED BY <2>1, <2>2, <2>3, <2>4, <2>5 DEF Single
<1>7. CASE ReadChat \/ Ask
  <2>1. PICK found \in SUBSET Messages :
           Claimed(found) /\ \A m \in found : job[m] \in {"none", "waiting"}
    BY <1>7, ClaimsWait
  <2>2. UNCHANGED <<job, stopped>>
    BY <1>7 DEF ReadChat, Ask
  <2>3. ASSUME NEW m \in Messages, m \in Unclaimed(found)
        PROVE  taken'[m] = {turn.job} /\ note'[m].promoted = TRUE
    <3>1. taken[m] = {}
      BY <2>1, <2>3 DEF Unclaimed, Single
    <3> QED BY <2>1, <2>3, <3>1 DEF Claimed
  <2>4. ASSUME NEW m \in Messages, m \notin Unclaimed(found)
        PROVE  taken'[m] = taken[m] /\ note'[m] = note[m]
    BY <2>1, <2>4 DEF Claimed
  <2> QED BY <2>2, <2>3, <2>4 DEF Single
<1>8. CASE CannotRun \/ Register \/ Poll \/ Prepare \/ Say
  BY <1>1, <1>8 DEF CannotRun, Register, Poll, Prepare, Say
<1>9. CASE Settle
  <2>1. \A m \in Messages : note'[m].promoted = note[m].promoted
    BY <1>0, <1>9 DEF Settle, RestType, Notes
  <2>2. turn.job \in Messages /\ job[turn.job] = "working"
    BY <1>9, OwnerType DEF Settle
  <2>3. /\ job'[turn.job] = "done" /\ UNCHANGED <<taken, stopped>>
        /\ \A n \in Messages : n # turn.job => job'[n] = job[n]
    BY <1>0, <1>9, <2>2 DEF Settle, RestType
  <2> QED BY <2>1, <2>2, <2>3 DEF Single
<1>10. ASSUME NEW m \in Messages, SendNow(m) PROVE Single'
  <2>1. \A n \in Messages : note'[n].promoted = note[n].promoted
    BY <1>0, <1>10 DEF SendNow, RestType, Notes
  <2> QED BY <1>1, <1>10, <2>1 DEF SendNow
<1>11. CASE Stop \/ UNCHANGED vars
  BY <1>1, <1>11 DEF Stop, vars
<1>12. ASSUME Goes PROVE Single'
  BY <1>1, <1>12, GoesStep DEF GoesWithin
<1> QED BY <1>2, <1>3, <1>4, <1>5, <1>6, <1>7, <1>8, <1>9, <1>10, <1>11, <1>12
        DEF Next, Works, Goes, Hear

-----------------------------------------------------------------------------
(* Every message whose job ended reached the model, or was stopped.        *)

Quiet == "after" \notin Occurs

\* The model was asked about all the turn holds.
AskedAll == \/ turn.at \in InCalls \cup {"reply", "leave", "end"}
            \/ turn.at \in {"poll", "prepare", "ask"} /\ ~turn.more

\* While a turn is not stopped, what it promoted it holds, to put it in its next request;
\* when it is, all that was said is in a request already or stopped with it.
Covered ==
    /\ AnsweredOrStopped
    /\ Stopped => \A m \in Messages : hear[m] # "unsaid" => m \in carried \cup stopped
    /\ \A m \in Messages : note[m].promoted => m \in carried \cup stopped \cup turn.holds
    /\ \A m \in turn.holds : hear[m] # "unsaid"
    /\ AskedAll => turn.holds \subseteq carried \cup stopped
    /\ turn.at \notin {"free", "read"} => turn.job \in turn.holds \cup carried

LEMMA CoveredStep ==
    ASSUME InOrder, Quiet
    PROVE  Typed /\ Called /\ Waiting /\ Untouched /\ Covered /\ [Next]_vars => Covered'
<1> SUFFICES ASSUME Typed, Called, Waiting, Untouched, Covered, [Next]_vars PROVE Covered'
  OBVIOUS
<1>0. RestType /\ turn \in Turn /\ turn.holds \subseteq Messages /\ turn.pending \subseteq Messages
  BY DEF Typed, Turn
<1>1. ASSUME UNCHANGED <<job, stopped, carried>>, turn'.job = turn.job,
             turn'.holds = turn.holds,
             \A m \in Messages : hear'[m] = "unsaid" <=> hear[m] = "unsaid",
             \A m \in Messages : note'[m].promoted => note[m].promoted,
             AskedAll' => AskedAll,
             turn'.at \notin {"free", "read"} => turn.at \notin {"free", "read"}
      PROVE  Covered'
  BY <1>0, <1>1 DEF Covered, AnsweredOrStopped, Stopped
<1>2. CASE Say
  <2>1. ~Stopped /\ ~Stopped'
    BY <1>2 DEF Say, Quiet, Stopped
  <2>2. \A m \in Messages : hear[m] # "unsaid" => hear'[m] # "unsaid"
    BY <1>0, <1>2 DEF Say, RestType
  <2> QED BY <1>0, <1>2, <2>1, <2>2 DEF Say, Covered, AnsweredOrStopped, AskedAll
<1>3. ASSUME NEW m \in Messages, Offer(m) \/ Push(m) PROVE Covered'
  <2>1. \A n \in Messages : hear'[n] = "unsaid" <=> hear[n] = "unsaid"
    BY <1>0, <1>3 DEF Offer, Push, RestType
  <2> QED BY <1>1, <1>3, <2>1 DEF Offer, Push, AskedAll
<1>4. ASSUME NEW m \in Messages, Hold(m) PROVE Covered'
  <2>1. \A n \in Messages : hear'[n] = "unsaid" <=> hear[n] = "unsaid"
    BY <1>0, <1>4 DEF Hold, RestType
  <2>2. note[m] = Unmarked /\ copy[m].note = Unmarked
    BY <1>4 DEF Hold, Untouched
  <2>3. \A n \in Messages : note'[n].promoted = note[n].promoted
    BY <1>0, <1>4, <2>2 DEF Hold, Unmarked, RestType
  <2> QED BY <1>1, <1>4, <2>1, <2>3 DEF Hold, AskedAll
<1>5. ASSUME NEW m \in Messages, Dismiss(m) PROVE Covered'
  <2>1. \A n \in Messages : hear'[n] = "unsaid" <=> hear[n] = "unsaid"
    BY <1>0, <1>5 DEF Dismiss, RestType
  <2>2. SameTurn
    BY <1>5, TurnAfter
  <2>3. UNCHANGED <<job, stopped, carried, note>>
    BY <1>5 DEF Dismiss
  <2> QED BY <1>1, <2>1, <2>2, <2>3 DEF SameTurn, AskedAll
<1>6. ASSUME NEW m \in Messages, Start(m) PROVE Covered'
  <2>1. \A n \in Messages : job'[n] = "done" => job[n] = "done"
    BY <1>0, <1>6 DEF Start, RestType
  <2> QED BY <1>6, <2>1 DEF Start, Covered, AnsweredOrStopped, Stopped, AskedAll
<1>7. ASSUME NEW m \in Messages, Skip(m) PROVE Covered'
  <2>1. turn.holds = {}
    BY <1>7 DEF Skip, HasLock, Typed, Placed
  <2>2. m \in carried \cup stopped
    BY <1>7, <2>1 DEF Skip, Handled, Covered
  <2>3. \A n \in Messages : job'[n] = "done" => job[n] = "done" \/ n = m
    BY <1>0, <1>7 DEF Skip, RestType
  <2> QED BY <1>7, <2>2, <2>3 DEF Skip, Covered, AnsweredOrStopped, Stopped, AskedAll
<1>8. ASSUME NEW m \in Messages, Begin(m) PROVE Covered'
  <2>1. turn'.at = "read" /\ turn'.job = m /\ turn'.holds = {} /\ turn.holds = {}
    BY <1>8, TurnAfter DEF Begin, HasLock, Typed, Placed
  <2>2. UNCHANGED <<stopped, carried, hear>> /\ m \notin stopped
    BY <1>8 DEF Begin, Handled
  <2>3. \A n \in Messages : note'[n].promoted = note[n].promoted
    BY <1>0, <1>8 DEF Begin, RestType, Notes
  <2>4. \A n \in Messages : job'[n] = "done" => job[n] = "done"
    BY <1>0, <1>8 DEF Begin, RestType
  <2> QED BY <2>1, <2>2, <2>3, <2>4 DEF Covered, AnsweredOrStopped, Stopped, AskedAll, InCalls
<1>9. CASE CannotRun
  <2>1. turn'.at = "end" /\ turn'.job = turn.job /\ turn'.holds = turn.holds
    BY <1>9, TurnAfter
  <2>2. turn.holds = {} /\ carried' = carried \cup {turn.job}
        /\ UNCHANGED <<stopped, hear, note, job>>
    BY <1>9 DEF CannotRun, Typed, Placed
  <2> QED BY <2>1, <2>2 DEF Covered, AnsweredOrStopped, Stopped
<1>10. CASE ReadChat
  <2>1. turn'.at = "register" /\ turn'.job = turn.job
        /\ turn'.holds = {turn.job} \cup Later(turn.job) /\ turn.at = "read"
    BY <1>10, TurnAfter DEF ReadChat
  <2>2. PICK found \in SUBSET Messages :
           /\ Claimed(found)
           /\ \A m \in found : hear[m] \in {"held", "dismissing", "heard"}
           /\ found = Later(turn.job)
    BY <1>10, ClaimsHeard
  <2>3. UNCHANGED <<stopped, carried, hear, job>> /\ turn.holds = {}
    BY <1>10, <2>1 DEF ReadChat, Typed, Placed
  <2>4. \A m \in Messages : note'[m].promoted => note[m].promoted \/ m \in Later(turn.job)
    BY <2>2 DEF Claimed, Unclaimed
  <2>5. hear[turn.job] # "unsaid"
    BY <2>1, OwnerType DEF Waiting
  <2>6. ~AskedAll'
    BY <2>1 DEF AskedAll, InCalls
  <2> QED BY <2>1, <2>2, <2>3, <2>4, <2>5, <2>6 DEF Covered, AnsweredOrStopped, Stopped
<1>11. CASE Register \/ Poll \/ Prepare
  <2>1. /\ turn'.job = turn.job /\ turn'.holds = turn.holds /\ (AskedAll' => AskedAll)
        /\ turn.at \in {"register", "poll", "prepare"}
    BY <1>11, TurnAfter DEF Register, Poll, Prepare, AskedAll, InCalls
  <2>2. UNCHANGED <<job, stopped, carried, hear, note>>
    BY <1>11 DEF Register, Poll, Prepare
  <2> QED BY <1>1, <2>1, <2>2
<1>12. CASE Ask
  <2>1. turn'.at = "reply" /\ turn'.job = turn.job /\ turn.at = "ask"
        /\ turn'.holds = turn.holds \cup turn.pending
    BY <1>12, TurnAfter DEF Ask
  <2>2. PICK found \in SUBSET Messages :
           /\ Claimed(found)
           /\ \A m \in found : hear[m] \in {"held", "dismissing", "heard"}
           /\ found = turn.pending
    BY <1>12, ClaimsHeard
  <2>3. UNCHANGED <<stopped, hear, job>>
    BY <1>12 DEF Ask
  <2>4. \A m \in Messages : note'[m].promoted => note[m].promoted \/ m \in turn.pending
    BY <2>2 DEF Claimed, Unclaimed
  <2>5. \A m \in turn'.holds : m \in Messages /\ hear[m] # "unsaid"
    BY <1>0, <2>1, <2>2 DEF Covered
  <2>6. carried \subseteq carried' /\ turn'.holds \subseteq carried' \cup stopped
    <3>1. CASE Stopped
      BY <1>12, <2>5, <3>1 DEF Ask, Covered
    <3>2. CASE ~Stopped
      BY <1>12, <2>1, <3>2 DEF Ask
    <3> QED BY <3>1, <3>2
  <2> QED BY <2>1, <2>3, <2>4, <2>5, <2>6 DEF Covered, AnsweredOrStopped, Stopped
<1>13. CASE Settle
  <2>1. turn'.at = "free" /\ turn'.job = Nobody /\ turn'.holds = {} /\ turn.at = "end"
    BY <1>13, TurnAfter DEF Settle
  <2>2. \A m \in Messages : note'[m].promoted = note[m].promoted
    BY <1>0, <1>13 DEF Settle, RestType, Notes
  <2>3. turn.holds \subseteq carried \cup stopped /\ turn.job \in carried \cup stopped
    BY <2>1 DEF Covered, AskedAll
  <2>4. \A m \in Messages : job'[m] = "done" => job[m] = "done" \/ m = turn.job
    BY <1>0, <1>13 DEF Settle, RestType
  <2>5. UNCHANGED <<stopped, carried, hear>> /\ Nobody \notin stopped
    BY <1>0, <1>13 DEF Settle, RestType, Messages, Nobody
  <2> QED BY <2>1, <2>2, <2>3, <2>4, <2>5
          DEF Covered, AnsweredOrStopped, Stopped, AskedAll, InCalls
<1>14. ASSUME NEW m \in Messages, SendNow(m) PROVE Covered'
  <2>1. \A n \in Messages : note'[n].promoted = note[n].promoted
    BY <1>0, <1>14 DEF SendNow, RestType, Notes
  <2>2. SameTurn
    BY <1>14, TurnAfter
  <2>3. UNCHANGED <<job, stopped, carried, hear>>
    BY <1>14 DEF SendNow
  <2> QED BY <1>1, <2>1, <2>2, <2>3 DEF SameTurn, AskedAll
<1>15. CASE Stop
  <2>1. UNCHANGED <<note, hear, job, turn, carried>> /\ stopped' = stopped \cup Running
    BY <1>15 DEF Stop
  <2>2. ASSUME NEW m \in Messages, hear[m] # "unsaid" PROVE m \in carried \cup stopped'
    <3>1. m \in 1..said
      BY <2>2 DEF Typed, Placed
    <3>2. job[m] \in {"waiting", "working", "done"}
      BY <1>0, <1>15, <3>1 DEF Stop, InOrder, RestType
    <3> QED BY <2>1, <3>2 DEF Running, Covered, AnsweredOrStopped
  <2> QED BY <2>1, <2>2 DEF Covered, AnsweredOrStopped, AskedAll
<1>16. CASE UNCHANGED vars
  BY <1>1, <1>16 DEF vars, AskedAll
<1>17. ASSUME Goes PROVE Covered'
  <2>1. GoesWithin
    BY <1>17, GoesStep
  <2>2. AskedAll /\ turn.at \notin {"free", "read"}
    BY <2>1 DEF GoesWithin, AskedAll, InCalls
  <2> QED BY <1>1, <2>1, <2>2 DEF GoesWithin
<1> QED BY <1>2, <1>3, <1>4, <1>5, <1>6, <1>7, <1>8, <1>9, <1>10, <1>11, <1>12, <1>13, <1>14,
           <1>15, <1>16, <1>17 DEF Next, Works, Goes, Hear

-----------------------------------------------------------------------------
(* What a step was cut for is read first.                                  *)

\* A message a step was cut for, that no turn took and the user did not stop, is where the
\* turn, or the next one, reads it before it starts a call.
CutWaits ==
    \A m \in cut \ stopped :
        taken[m] = {} =>
            /\ hear[m] # "unsaid"
            /\ \/ turn.at \in {"free", "read", "leave", "end"}
               \/ turn.at \in InCalls \cup {"reply"} /\ turn.cut /\ m \in queue
               \/ turn.at = "poll" /\ m \in queue
               \/ turn.at \in {"prepare", "ask"} /\ m \in turn.pending

LEMMA CutWaitsStep ==
    ASSUME InOrder
    PROVE  Typed /\ Called /\ Waiting /\ Untouched /\ Order /\ Single /\ CutWaits /\ [Next]_vars
           => CutWaits' /\ ReadsCut
<1> SUFFICES ASSUME Typed, Called, Waiting, Untouched, Order, Single, CutWaits, [Next]_vars
             PROVE  CutWaits' /\ ReadsCut
  OBVIOUS
<1>0. RestType /\ turn \in Turn
  BY DEF Typed
<1>1. ASSUME UNCHANGED cut, stopped \subseteq stopped', queue \subseteq queue',
             \A m \in Messages : taken[m] \subseteq taken'[m],
             \A m \in Messages : hear[m] # "unsaid" => hear'[m] # "unsaid",
             SameTurn
      PROVE  CutWaits' /\ ReadsCut
  BY <1>0, <1>1 DEF CutWaits, ReadsCut, SameTurn, RestType
<1>2. CASE Say
  <2>1. \A m \in Messages : hear[m] # "unsaid" => hear'[m] # "unsaid"
    BY <1>0, <1>2 DEF Say, RestType
  <2> QED BY <1>1, <1>2, <2>1 DEF Say, SameTurn
<1>3. ASSUME NEW m \in Messages, Offer(m) \/ Hold(m) \/ Push(m) \/ Start(m) \/ Skip(m)
      PROVE  CutWaits' /\ ReadsCut
  <2>1. \A n \in Messages : hear[n] # "unsaid" => hear'[n] # "unsaid"
    BY <1>0, <1>3 DEF Offer, Hold, Push, Start, Skip, RestType
  <2> QED BY <1>1, <1>3, <2>1 DEF Offer, Hold, Push, Start, Skip, SameTurn
<1>4. ASSUME NEW m \in Messages, Dismiss(m) PROVE CutWaits' /\ ReadsCut
  <2>1. \A n \in Messages : hear[n] # "unsaid" => hear'[n] # "unsaid"
    BY <1>0, <1>4 DEF Dismiss, RestType
  <2>2. SameTurn
    BY <1>4, TurnAfter
  <2>3. UNCHANGED <<cut, stopped, queue, taken>>
    BY <1>4 DEF Dismiss
  <2> QED BY <1>1, <2>1, <2>2, <2>3
<1>5. ASSUME UNCHANGED <<cut, stopped, hear>>, \A m \in Messages : taken[m] \subseteq taken'[m],
             turn'.at \in {"free", "read", "leave", "end"},
             turn.at \in {"free", "read", "leave", "end"}
      PROVE  CutWaits' /\ ReadsCut
  BY <1>0, <1>5 DEF CutWaits, ReadsCut, RestType
<1>6. ASSUME NEW m \in Messages, Begin(m) PROVE CutWaits' /\ ReadsCut
  <2>1. turn'.at = "read" /\ turn.at = "free"
    BY <1>6, TurnAfter DEF Begin, HasLock
  <2>2. \A n \in Messages : taken[n] \subseteq taken'[n]
    BY <1>0, <1>6 DEF Begin, RestType
  <2> QED BY <1>5, <1>6, <2>1, <2>2 DEF Begin
<1>7. CASE CannotRun \/ Settle
  <2>1. turn'.at \in {"free", "end"} /\ turn.at \in {"read", "end"}
    BY <1>7, TurnAfter DEF CannotRun, Settle
  <2> QED BY <1>5, <1>7, <2>1 DEF CannotRun, Settle
<1>8. CASE ReadChat
  <2>1. turn'.at = "register" /\ turn.at = "read" /\ UNCHANGED <<cut, stopped, hear>>
    BY <1>8, TurnAfter DEF ReadChat
  <2>2. PICK found \in SUBSET Messages : Claimed(found) /\ found = Later(turn.job)
    BY <1>8, ClaimsHeard
  <2>3. job[turn.job] = "working" /\ turn.job \in Messages
    BY <2>1, OwnerType
  <2>4. ASSUME NEW m \in cut' \ stopped' PROVE taken'[m] # {}
    <3>1. CASE taken[m] # {}
      BY <1>0, <2>1, <2>2, <2>4, <3>1 DEF Claimed, RestType
    <3>2. CASE taken[m] = {}
      <4>1. m \in Messages /\ m \in cut /\ m \notin stopped
        BY <1>0, <2>1, <2>4 DEF RestType
      <4>2. m \in 1..said
        BY <3>2, <4>1 DEF CutWaits, Typed, Placed
      <4>3. job[m] \notin {"working", "done"} /\ ~note[m].promoted
        BY <3>2, <4>1 DEF Single
      <4>4. m # turn.job /\ ~(m < turn.job)
        <5>1. m < turn.job => m \in 1..(turn.job - 1)
          BY <2>3, <4>1, ChatConstants DEF Messages
        <5> QED BY <2>3, <4>3, <5>1 DEF Order
      <4>5. turn.job < m
        BY <2>3, <4>1, <4>4, ChatConstants DEF Messages
      <4>6. m \in Unclaimed(found)
        BY <1>0, <2>2, <4>1, <4>2, <4>3, <4>5 DEF Later, Unclaimed, RestType
      <4> QED BY <2>2, <4>1, <4>6 DEF Claimed
    <3> QED BY <3>1, <3>2
  <2> QED BY <2>1, <2>4 DEF CutWaits, ReadsCut
<1>9. CASE Register
  <2>1. turn'.at = "poll" /\ turn.at = "register" /\ UNCHANGED <<cut, stopped, taken>>
    BY <1>9, TurnAfter DEF Register
  <2>2. \A m \in cut \ stopped : taken[m] # {}
    BY <2>1 DEF CutWaits, InCalls
  <2> QED BY <2>1, <2>2 DEF CutWaits, ReadsCut
<1>10. CASE Poll
  <2>1. /\ turn'.at \in {"leave", "prepare", "ask"} /\ turn.at = "poll"
        /\ turn'.pending = queue /\ UNCHANGED <<cut, stopped, taken, hear>>
        /\ (turn'.at = "leave" => queue = {})
    BY <1>10, TurnAfter DEF Poll
  <2> QED BY <2>1 DEF CutWaits, ReadsCut, InCalls
<1>11. CASE Prepare
  <2>1. /\ turn'.at = "ask" /\ turn.at = "prepare"
        /\ turn'.pending = IF turn.pending = {} THEN queue ELSE turn.pending
        /\ UNCHANGED <<cut, stopped, taken, hear>>
    BY <1>11, TurnAfter DEF Prepare
  <2> QED BY <2>1 DEF CutWaits, ReadsCut, InCalls
<1>12. CASE Ask
  <2>1. turn'.at = "reply" /\ turn.at = "ask" /\ UNCHANGED <<cut, stopped, hear>>
    BY <1>12, TurnAfter DEF Ask
  <2>2. PICK found \in SUBSET Messages : Claimed(found) /\ found = turn.pending
    BY <1>12, ClaimsHeard
  <2>3. ASSUME NEW m \in cut \ stopped PROVE taken'[m] # {}
    <3>1. m \in Messages
      BY <1>0, <2>3 DEF RestType
    <3>2. CASE taken[m] # {}
      BY <2>2, <3>1, <3>2 DEF Claimed
    <3>3. CASE taken[m] = {}
      <4>1. m \in turn.pending
        BY <2>1, <2>3, <3>3 DEF CutWaits, InCalls
      <4>2. m \in Unclaimed(found)
        BY <2>2, <3>1, <3>3, <4>1 DEF Single, Unclaimed
      <4> QED BY <2>2, <3>1, <4>2 DEF Claimed
    <3> QED BY <3>2, <3>3
  <2> QED BY <2>1, <2>3 DEF CutWaits, ReadsCut
<1>13. ASSUME NEW m \in Messages, SendNow(m) PROVE CutWaits' /\ ReadsCut
  <2>1. SameTurn /\ UNCHANGED <<taken, stopped, queue, hear>>
    BY <1>13, TurnAfter DEF SendNow
  <2>2. CASE UNCHANGED cut
    BY <1>1, <2>1, <2>2
  <2>3. CASE InStep /\ turn' = [turn EXCEPT !.cut = TRUE] /\ cut' = cut \cup ({m} \cap queue)
    <3>1. turn'.cut /\ turn.at \in InCalls \cup {"reply"}
      BY <1>0, <2>3 DEF InStep, InCalls, Turn
    <3>2. ASSUME NEW n \in queue PROVE hear[n] # "unsaid"
      BY <3>2 DEF Waiting
    <3> QED BY <2>1, <2>3, <3>1, <3>2 DEF CutWaits, ReadsCut, SameTurn
  <2> QED BY <1>13, <2>2, <2>3 DEF SendNow
<1>14. CASE Stop \/ UNCHANGED vars
  BY <1>1, <1>14 DEF Stop, vars, SameTurn
<1>15. ASSUME Goes PROVE CutWaits' /\ ReadsCut
  <2>1. GoesWithin
    BY <1>15, GoesStep
  <2>2. ReadsCut
    BY <2>1 DEF GoesWithin, ReadsCut, CutWaits, InCalls, StepCut
  <2>3. CutWaits'
    BY <2>1 DEF GoesWithin, CutWaits, InCalls
  <2> QED BY <2>2, <2>3
<1> QED BY <1>2, <1>3, <1>4, <1>6, <1>7, <1>8, <1>9, <1>10, <1>11, <1>12, <1>13, <1>14, <1>15
        DEF Next, Works, Goes, Hear

-----------------------------------------------------------------------------
(* The theorems.                                                           *)

LEMMA TypeInvariant == Spec => [](Typed /\ Called)
<1>1. Init => Typed /\ Called
  <2>1. Init => Called
    BY DEF Init, Idle, Called, CallsAnswered
  <2> QED BY <2>1, TypedInit
<1>2. Typed /\ Called /\ [Next]_vars => Typed' /\ Called'
  BY TypedStep, CalledStep
<1> QED BY <1>1, <1>2, PTL DEF Spec

\* The chat's variables keep to their types, whatever happens: no message gets past its way,
\* and one job at most works, the one whose turn has the lock.
THEOREM TypeCorrect == Spec => []TypeOK
<1>1. Typed => TypeOK
  BY TypedIsType
<1> QED BY <1>1, TypeInvariant, PTL

\* Every call of a reply has its result before the next request, whatever happens.
THEOREM EveryCallAnswered == Spec => []CallsAnswered
<1>1. Called => CallsAnswered
  BY DEF Called
<1> QED BY <1>1, TypeInvariant, PTL

LEMMA WaitingInvariant == Spec => []Waiting
<1>1. Init => Waiting
  BY DEF Init, Idle, Waiting
<1>2. Typed /\ Called /\ Waiting /\ [Next]_vars => Waiting'
  BY WaitingStep
<1> QED BY <1>1, <1>2, TypeInvariant, PTL DEF Spec

LEMMA UntouchedInvariant == ASSUME InOrder PROVE Spec => []Untouched
<1>1. Init => Untouched
  BY DEF Init, Untouched
<1>2. Typed /\ Called /\ Waiting /\ Untouched /\ [Next]_vars => Untouched'
  BY UntouchedStep
<1> QED BY <1>1, <1>2, TypeInvariant, WaitingInvariant, PTL DEF Spec

\* A message that shows as held is one a turn is still to read, as long as no turn reads the
\* chat while a message is on its way.
THEOREM HeldAreUnread == ASSUME InOrder PROVE Spec => []HeldWaits
<1>1. Init => Held
  BY DEF Init, Held, Unmarked
<1>2. Typed /\ Called /\ Waiting /\ Untouched /\ Held /\ [Next]_vars => Held'
  BY HeldStep
<1>3. Held => HeldWaits
  BY DEF Held, HeldWaits
<1> QED BY <1>1, <1>2, <1>3, TypeInvariant, WaitingInvariant, UntouchedInvariant, PTL DEF Spec

\* A job that has ended leaves its message with the model or stopped, as long as no turn reads
\* the chat while a message is on its way and nobody writes to a stopped turn.
THEOREM AllAnswered == ASSUME InOrder, Quiet PROVE Spec => []AnsweredOrStopped
<1>1. Init => Covered
  <2>1. Init => ~Stopped
    BY DEF Init, Stopped
  <2> QED BY <2>1 DEF Init, Idle, Covered, AnsweredOrStopped, AskedAll, InCalls, Unmarked
<1>2. Typed /\ Called /\ Waiting /\ Untouched /\ Covered /\ [Next]_vars => Covered'
  BY CoveredStep
<1>3. Covered => AnsweredOrStopped
  BY DEF Covered
<1> QED BY <1>1, <1>2, <1>3, TypeInvariant, WaitingInvariant, UntouchedInvariant, PTL DEF Spec

LEMMA SingleInvariant == ASSUME InOrder, ByOrder PROVE Spec => [](Order /\ Single)
<1>1. Init => Order /\ Single
  BY DEF Init, Order, Single, Unmarked
<1>2. Typed /\ Called /\ Waiting /\ Untouched /\ Order /\ Single /\ [Next]_vars
      => Order' /\ Single'
  BY OrderStep, SingleStep
<1> QED BY <1>1, <1>2, TypeInvariant, WaitingInvariant, UntouchedInvariant, PTL DEF Spec

\* No message is answered twice, as long as the jobs come to the lock in the order of their
\* messages and no turn reads the chat while a message is on its way.
THEOREM AnsweredOnce == ASSUME InOrder, ByOrder PROVE Spec => []ReadOnce
<1>1. Single => ReadOnce
  BY DEF Single, ReadOnce
<1> QED BY <1>1, SingleInvariant, PTL

\* Once a step was cut short for a message, no call starts before that message is read.
THEOREM CutIsRead == ASSUME InOrder, ByOrder PROVE Spec => CutReads
<1>1. Init => CutWaits
  BY DEF Init, CutWaits
<1>2. Typed /\ Called /\ Waiting /\ Untouched /\ Order /\ Single /\ CutWaits /\ [Next]_vars
      => CutWaits' /\ [ReadsCut]_vars
  BY CutWaitsStep
<1> QED BY <1>1, <1>2, TypeInvariant, WaitingInvariant, UntouchedInvariant, SingleInvariant, PTL
        DEF Spec, CutReads

=============================================================================
