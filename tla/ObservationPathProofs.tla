------------------------ MODULE ObservationPathProofs ------------------------
(* Theorems about ObservationPath, for a queue of any depth.               *)
EXTENDS ObservationPath, SequenceTheorems, TLAPS

States == {"idle", "thinking", "tool", "waiting_approval", "waiting_input"}

LEMMA Words ==
  /\ AgentState = States
  /\ Event = {"turn_started", "tool_started", "tool_finished", "turn_ended",
              "approval_requested", "question_pending", "approval_resolved"}
  /\ DOMAIN StateAfter = Event \ {"approval_resolved"}
  /\ \A e \in DOMAIN StateAfter : StateAfter[e] \in States
  /\ \A e \in Event : LiveAfter[e] \in States
  <1>1. DOMAIN StateAfter =
          {"turn_started", "tool_started", "tool_finished", "turn_ended",
           "approval_requested", "question_pending"}
    BY DEF StateAfter
  <1>2. \A e \in DOMAIN StateAfter : StateAfter[e] \in States
    BY <1>1 DEF StateAfter, States
  <1> QED BY <1>1, <1>2 DEF AgentState, Waiting, Event, LiveAfter, States

-----------------------------------------------------------------------------
(* Types.                                                                  *)

Line == /\ live \in States /\ line \in States
        /\ before \in States \union {"none"}

LEMMA Resumes ==
  ASSUME Line, ResumeAfterWait
  PROVE  line' \in States /\ before' \in States \union {"none"}
  <1>1. line' = (IF before = "none" THEN "idle" ELSE before)
    BY DEF ResumeAfterWait, SetState
  <1>2. before' = line \/ before' = "none"
    BY DEF ResumeAfterWait, SetState
  <1> QED BY <1>1, <1>2 DEF Line, States

LEMMA SetsLine ==
  ASSUME Line, NEW s \in States, SetState(s, before)
  PROVE  line' = s /\ before' \in States \union {"none"}
  BY DEF Line, SetState

LEMMA ObservedLine == ASSUME Line, NEW e \in Event, Observed(e) PROVE Line'
  <1>1. live' \in States BY Words DEF Observed
  <1>2. CASE e = "approval_resolved"
    BY <1>1, <1>2, Resumes DEF Observed, Line
  <1>3. CASE e # "approval_resolved"
    <2>1. StateAfter[e] \in States BY <1>3, Words
    <2> QED BY <1>1, <1>3, <2>1, SetsLine DEF Observed, Line
  <1> QED BY <1>2, <1>3

\* What the hooks leave in the outbox.
Outbox == outbox \in Seq(Event) /\ Len(outbox) <= 2

LEMMA ReportsOne ==
  ASSUME NEW e \in Event, Reports(<<e>>) PROVE Outbox'
  BY DEF Reports, Outbox

LEMMA ReportsNone == ASSUME Reports(<<>>) PROVE Outbox'
  BY DEF Reports, Outbox

\* A hook changes what the agent does and the outbox, and nothing else.
LEMMA HookTypes ==
  ASSUME TypeOK, Hooks
  PROVE  /\ Outbox'
         /\ turn' \in Turn \union {NoTurn} /\ seen' \subseteq Turn \ {NoTurn}
         /\ doing' \in {"idle", "thinking", "tool", "approval", "question"}
         /\ UNCHANGED adapter
         /\ UNCHANGED <<place, gate, subscribed, queue, posting, missed>>
  <1> USE Words
  <1>1. CASE PreApiRequest
    <2>1. turn' \in Turn \union {NoTurn} /\ seen' \subseteq Turn \ {NoTurn}
      BY <1>1 DEF PreApiRequest, TypeOK
    <2>2. CASE turn' \in seen \union {NoTurn}
      BY <1>1, <2>1, <2>2, ReportsNone DEF PreApiRequest, Does, Reports
    <2>3. CASE turn' \notin seen \union {NoTurn}
      BY <1>1, <2>1, <2>3, ReportsOne DEF PreApiRequest, Does, Reports
    <2> QED BY <2>2, <2>3
  <1>2. CASE PreToolCall
    <2>1. PICK tool \in Tools :
            /\ doing' = IF tool = "clarify" THEN "question" ELSE "tool"
            /\ Reports(<<"tool_started">> \o
                 IF tool = "clarify" THEN <<"question_pending">> ELSE <<>>)
            /\ UNCHANGED <<turn, seen, adapter>>
      BY <1>2 DEF PreToolCall, Does
    <2>2. CASE tool = "clarify"
      <3>1. outbox' = <<"tool_started">> \o <<"question_pending">>
        BY <2>1, <2>2 DEF Reports
      <3>2. Outbox' BY <3>1 DEF Outbox
      <3> QED BY <2>1, <3>2 DEF Reports, TypeOK
    <2>3. CASE tool # "clarify"
      <3>1. outbox' = <<"tool_started">> \o <<>>
        BY <2>1, <2>3 DEF Reports
      <3>2. Outbox' BY <3>1 DEF Outbox
      <3> QED BY <2>1, <3>2 DEF Reports, TypeOK
    <2> QED BY <2>2, <2>3
  <1>3. CASE PostToolCall
    BY <1>3, ReportsOne DEF PostToolCall, Does, Reports, TypeOK
  <1>4. CASE SessionEnd
    <2>1. turn' = NoTurn /\ seen' \subseteq seen BY <1>4 DEF SessionEnd
    <2> QED BY <1>4, <2>1, ReportsOne DEF SessionEnd, Does, Reports, TypeOK
  <1>5. CASE AsksApproval
    <2>1. CASE place = "gateway"
      BY <1>5, <2>1, ReportsOne DEF AsksApproval, Does, Reports, TypeOK
    <2>2. CASE place # "gateway"
      BY <1>5, <2>2, ReportsNone DEF AsksApproval, Does, Reports, TypeOK
    <2> QED BY <2>1, <2>2
  <1>6. CASE FallsBack
    BY <1>6, ReportsOne DEF FallsBack, Does, Reports, TypeOK
  <1>7. CASE AnsweredElsewhere
    BY <1>7, ReportsOne DEF AnsweredElsewhere, Does, Reports, TypeOK
  <1> QED BY <1>1, <1>2, <1>3, <1>4, <1>5, <1>6, <1>7 DEF Hooks

\* The gate is open only for something to publish, and only the gateway has a
\* subscriber.
PathInv == /\ TypeOK
           /\ gate => outbox # <<>>
           /\ subscribed => place = "gateway"

LEMMA Types == ASSUME PathInv, [Next]_vars PROVE PathInv'
  <1> USE Words DEF PathInv
  <1>l. Line BY DEF TypeOK, Line
  <1>1. CASE Hooks
    <2>1. outbox = <<>> /\ ~gate /\ gate' = gate
      BY <1>1, HookTypes DEF Hooks, PreApiRequest, PreToolCall, PostToolCall,
         SessionEnd, AsksApproval, FallsBack, AnsweredElsewhere, Does
    <2>2. TypeOK' BY <1>1, <2>1, HookTypes DEF TypeOK, Outbox, adapter
    <2>3. ~gate' /\ place' = place /\ subscribed' = subscribed
      BY <1>1, <2>1, HookTypes
    <2> QED BY <2>2, <2>3
  <1>2. CASE Checks BY <1>2 DEF Checks, TypeOK, agent, adapter
  <1>3. CASE Publishes
    <2>1. /\ Head(outbox) \in Event /\ Tail(outbox) \in Seq(Event)
          /\ Len(Tail(outbox)) <= 2
      BY <1>3 DEF Publishes, TypeOK
    <2>2. missed' \in BOOLEAN /\ Line'
      BY <1>3, <1>l, <2>1, ObservedLine DEF Publishes, TypeOK, Line
    <2> QED BY <1>3, <2>1, <2>2 DEF Publishes, TypeOK, Line, agent
  <1>4. CASE Submits
    <2>1. /\ Head(outbox) \in Event /\ Tail(outbox) \in Seq(Event)
          /\ Len(Tail(outbox)) <= 2
      BY <1>4 DEF Submits, TypeOK
    <2>2. queue' \in Seq(Event) /\ Len(queue') <= Depth
      BY <1>4, <2>1, PathAssumption DEF Submits, Puts, TypeOK
    <2>3. missed' \in BOOLEAN BY <1>4 DEF Submits, Puts
    <2> QED BY <1>4, <2>1, <2>2, <2>3 DEF Submits, TypeOK, agent, adapter
  <1>5. CASE Gets
    <2>1. /\ Head(queue) \in Event /\ Tail(queue) \in Seq(Event)
          /\ Len(Tail(queue)) <= Depth
      BY <1>5, PathAssumption DEF Gets, TypeOK
    <2> QED BY <1>5, <2>1 DEF Gets, TypeOK, agent, adapter
  <1>6. CASE PostFails BY <1>6 DEF PostFails, TypeOK, agent, adapter
  <1>7. CASE Posts
    <2>1. posting \in Event BY <1>7 DEF Posts, TypeOK
    <2>2. Line' /\ prompts' \subseteq {"ask", "copy"}
      <3>1. CASE posting \in Prompt
        <4>1. SetState(StateAfter[posting], before) /\ live' = live
          BY <1>7, <3>1 DEF Posts
        <4>2. prompts' \subseteq {"ask", "copy"} BY <1>7, <3>1 DEF Posts, TypeOK
        <4>3. StateAfter[posting] \in States BY <3>1 DEF Prompt
        <4> QED BY <4>1, <4>2, <4>3, <1>l, SetsLine DEF Line
      <3>2. CASE posting \notin Prompt
        BY <1>7, <3>2, <1>l, <2>1, ObservedLine DEF Posts, TypeOK
      <3> QED BY <3>1, <3>2
    <2> QED BY <1>7, <2>2 DEF Posts, TypeOK, Line, agent
  <1>8. CASE Reconnects BY <1>8 DEF Reconnects, TypeOK, agent, adapter
  <1>9. CASE Registers
    <2>1. SetState("waiting_approval", before) /\ live' = live
      BY <1>9 DEF Registers
    <2>2. Line' BY <2>1, <1>l, SetsLine DEF Line, States
    <2>3. prompts' \subseteq {"ask", "copy"} BY <1>9 DEF Registers, TypeOK
    <2> QED BY <1>9, <2>2, <2>3 DEF Registers, TypeOK, Line, agent, path
  <1>10. CASE WatchAnswers
    <2>1. CASE doing = "approval" /\ outbox = <<>>
      <3>1. Outbox' /\ doing' = "tool"
        BY <1>10, <2>1, ReportsOne DEF WatchAnswers, Does
      <3> QED BY <1>10, <2>1, <3>1 DEF WatchAnswers, Reports, Outbox, TypeOK
    <2>2. CASE ~(doing = "approval" /\ outbox = <<>>)
      BY <1>10, <2>2 DEF WatchAnswers, TypeOK, path
    <2> QED BY <2>1, <2>2
  <1>11. CASE CopyAnswered BY <1>11 DEF CopyAnswered, TypeOK, agent, path
  <1>12. CASE Announced
    <2>1. Line' BY <1>12, <1>l, Resumes DEF Announced, ResumeIfNone, Line
    <2> QED BY <1>12, <2>1 DEF Announced, TypeOK, Line, agent, path
  <1>13. CASE \E p \in prompts : Expires(p)
    <2>1. PICK p \in prompts : Expires(p) BY <1>13
    <2>2. Line' BY <2>1, <1>l, Resumes DEF Expires, ResumeIfNone, Line
    <2> QED BY <2>1, <2>2 DEF Expires, TypeOK, Line, agent, path
  <1>14. CASE UNCHANGED vars
    BY <1>14 DEF vars, TypeOK, agent, path, adapter
  <1> QED BY <1>1, <1>2, <1>3, <1>4, <1>5, <1>6, <1>7, <1>8, <1>9, <1>10,
             <1>11, <1>12, <1>13, <1>14 DEF Next

LEMMA InitInv == ASSUME Init PROVE PathInv
  <1>1. subscribed \in BOOLEAN BY DEF Init
  <1>2. /\ place \in Place /\ doing = "idle" /\ gate = FALSE
        /\ turn = NoTurn /\ seen = {}
        /\ missed = FALSE /\ prompts = {} /\ announcing = FALSE
    BY DEF Init
  <1>3. /\ outbox \in Seq(Event) /\ Len(outbox) <= 2
        /\ queue \in Seq(Event) /\ Len(queue) <= Depth
    BY PathAssumption DEF Init
  <1>4. /\ posting \in Event \union {"none"}
        /\ live \in AgentState /\ line \in AgentState
        /\ before \in AgentState \union {"none"}
    BY Words DEF Init, States
  <1>5. subscribed => place = "gateway" BY DEF Init
  <1> QED BY <1>1, <1>2, <1>3, <1>4, <1>5 DEF PathInv, TypeOK

\* Whatever the hooks, the queue, the bus and the adapter do, every state has
\* its type; above all, the queue never grows past its depth.
THEOREM PathTyped == Spec => []TypeOK
  <1>1. PathInv => TypeOK BY DEF PathInv
  <1> QED BY <1>1, InitInv, Types, PTL DEF Spec

-----------------------------------------------------------------------------
(* The line after the last turn.                                           *)

\* Does a resolution follow what is at i?
Resolved(way, i) ==
  \E j \in 1..Len(way) : j > i /\ way[j] = "approval_resolved"

\* What an approval leaves at the adapter or on the way to it, the agent still
\* waits in it or a resolution comes after it; and a turn that is over has
\* turn_ended last on the way, or has arrived.
Follows(way, d, b) ==
  /\ \A i \in 1..Len(way) :
       /\ way[i] # "question_pending"
       /\ way[i] = "approval_requested" => d = "approval" \/ Resolved(way, i)
  /\ b # "none" => d = "approval" \/ Resolved(way, 0)
  /\ d = "idle" /\ way # <<>> => way[Len(way)] = "turn_ended"

Arrived == line = "idle" /\ live = "idle"

\* In the gateway, where nothing is queued, and in a process of its own.
InTurn == /\ place = "gateway" => queue = <<>> /\ posting = "none"
          /\ Follows(Way, doing, before)
          /\ doing = "idle" /\ Way = <<>> => Arrived
          /\ line # "waiting_input" /\ before \notin Waiting

Rest == doing # "question" /\ (~missed => InTurn)

IdleInv == PathInv /\ Rest

LEMMA Appended ==
  ASSUME NEW w \in Seq(Event), NEW d, NEW b, NEW to, NEW e \in Event,
         Follows(w, d, b),
         e # "question_pending",
         d = "approval" => to = "approval" \/ e = "approval_resolved",
         e = "approval_requested" => to = "approval",
         to = "idle" => e = "turn_ended"
  PROVE  Follows(Append(w, e), to, b)
  <1> DEFINE v == Append(w, e)
  <1>1. /\ Len(v) = Len(w) + 1 /\ Len(w) \in Nat /\ v[Len(v)] = e
        /\ \A i \in 1..Len(w) : v[i] = w[i]
    OBVIOUS
  <1> HIDE DEF v
  <1>2. \A i \in 0..Len(w) : Resolved(w, i) => Resolved(v, i)
    BY <1>1 DEF Resolved
  <1>3. e = "approval_resolved" => \A i \in 0..Len(w) : Resolved(v, i)
    BY <1>1 DEF Resolved
  <1>4. ASSUME NEW i \in 1..Len(v)
        PROVE  /\ v[i] # "question_pending"
               /\ v[i] = "approval_requested" => to = "approval" \/ Resolved(v, i)
    <2>1. CASE i = Len(v) BY <2>1, <1>1
    <2>2. CASE i # Len(v)
      BY <2>2, <1>1, <1>2, <1>3 DEF Follows
    <2> QED BY <2>1, <2>2
  <1>5. b # "none" => to = "approval" \/ Resolved(v, 0)
    BY <1>1, <1>2, <1>3 DEF Follows
  <1>6. to = "idle" => v[Len(v)] = "turn_ended" BY <1>1
  <1>7. Follows(v, to, b) BY <1>4, <1>5, <1>6 DEF Follows
  <1> QED BY <1>7 DEF v

LEMMA Continued ==
  ASSUME NEW w, NEW d, NEW b, NEW to, Follows(w, d, b),
         d = "approval" => to = "approval", to # "idle"
  PROVE  Follows(w, to, b)
  BY DEF Follows

LEMMA Consumed ==
  ASSUME NEW w \in Seq(Event), w # <<>>, NEW d, NEW b, NEW c, Follows(w, d, b),
         c # "none" => \/ w[1] = "approval_requested"
                       \/ b # "none" /\ w[1] # "approval_resolved"
  PROVE  Follows(Tail(w), d, c)
  <1> DEFINE v == Tail(w)
  <1>1. /\ Len(w) = Len(v) + 1 /\ Len(v) \in Nat
        /\ \A i \in 1..Len(v) : v[i] = w[i + 1]
        /\ v # <<>> => Len(v) # 0
    <2>1. v \in Seq(Event) /\ Len(v) = Len(w) - 1 /\ Len(w) \in Nat OBVIOUS
    <2>2. \A i \in 1..Len(v) : v[i] = w[i + 1] OBVIOUS
    <2>3. v # <<>> => Len(v) # 0 BY <2>1, EmptySeq
    <2> QED BY <2>1, <2>2, <2>3
  <1> HIDE DEF v
  <1>2. ASSUME NEW i \in 0..Len(v), Resolved(w, i + 1) PROVE Resolved(v, i)
    <2>1. PICK j \in 1..Len(w) : j > i + 1 /\ w[j] = "approval_resolved"
      BY <1>2 DEF Resolved
    <2>2. j - 1 \in 1..Len(v) /\ j - 1 > i /\ v[j - 1] = w[j] BY <2>1, <1>1
    <2> QED BY <2>1, <2>2 DEF Resolved
  <1>3. ASSUME NEW i \in 1..Len(v)
        PROVE  /\ v[i] # "question_pending"
               /\ v[i] = "approval_requested" => d = "approval" \/ Resolved(v, i)
    <2>1. i + 1 \in 1..Len(w) /\ v[i] = w[i + 1] /\ i \in 0..Len(v) BY <1>1
    <2> QED BY <2>1, <1>2 DEF Follows
  <1>4. ASSUME c # "none", d # "approval" PROVE Resolved(v, 0)
    <2>1. 1 \in 1..Len(w) /\ 0 \in 0..Len(v) BY <1>1
    <2>2. Resolved(w, 1)
      <3>1. CASE w[1] = "approval_requested" BY <3>1, <2>1, <1>4 DEF Follows
      <3>2. CASE b # "none" /\ w[1] # "approval_resolved"
        BY <3>2, <1>1, <1>4 DEF Follows, Resolved
      <3> QED BY <3>1, <3>2, <1>4
    <2> QED BY <2>1, <2>2, <1>2
  <1>5. d = "idle" /\ v # <<>> => v[Len(v)] = "turn_ended" BY <1>1 DEF Follows
  <1>6. Follows(v, d, c) BY <1>3, <1>4, <1>5 DEF Follows
  <1> QED BY <1>6 DEF v

\* How the steps move what is on its way.
LEMMA WayTyped == ASSUME TypeOK PROVE Way \in Seq(Event)
  <1>1. CASE posting = "none" BY <1>1 DEF TypeOK, Way
  <1>2. CASE posting # "none" BY <1>2 DEF TypeOK, Way
  <1> QED BY <1>1, <1>2

LEMMA WayReports ==
  ASSUME TypeOK, outbox = <<>>, NEW e \in Event, outbox' = <<e>>,
         UNCHANGED <<queue, posting>>
  PROVE  Way' = Append(Way, e)
  <1> DEFINE w == (IF posting = "none" THEN <<>> ELSE <<posting>>) \o queue
  <1>1. w \in Seq(Event)
    <2>1. CASE posting = "none" BY <2>1 DEF TypeOK
    <2>2. CASE posting # "none" BY <2>2 DEF TypeOK
    <2> QED BY <2>1, <2>2
  <1>2. Way = w \o <<>> /\ Way' = w \o <<e>> BY DEF Way
  <1> HIDE DEF w
  <1>3. w \o <<>> = w /\ w \o <<e>> = Append(w, e) BY <1>1
  <1> QED BY <1>2, <1>3

LEMMA WayGets == ASSUME TypeOK, Gets PROVE Way' = Way
  <1>1. queue \in Seq(Event) /\ queue # <<>> BY DEF Gets, TypeOK
  <1>2. Head(queue) \in Event /\ Head(queue) # "none" BY <1>1, Words
  <1>3. Way = (<<>> \o queue) \o outbox BY DEF Gets, Way
  <1>4. Way' = (<<Head(queue)>> \o Tail(queue)) \o outbox
    BY <1>2 DEF Gets, Way
  <1>5. <<>> \o queue = queue /\ <<Head(queue)>> \o Tail(queue) = queue
    BY <1>1
  <1> QED BY <1>3, <1>4, <1>5

LEMMA WaySubmits ==
  ASSUME TypeOK, Submits, queue' = Append(queue, Head(outbox)) PROVE Way' = Way
  <1> DEFINE p == IF posting = "none" THEN <<>> ELSE <<posting>>
             x == Head(outbox)
             y == Tail(outbox)
  <1>1. /\ queue \in Seq(Event) /\ x \in Event /\ y \in Seq(Event)
        /\ outbox = <<x>> \o y /\ Append(queue, x) = queue \o <<x>>
    BY DEF Submits, TypeOK
  <1>2. p \in Seq(Event) BY DEF TypeOK
  <1>3. /\ Way = (p \o queue) \o outbox
        /\ Way' = (p \o Append(queue, x)) \o y
    BY DEF Submits, Way
  <1> HIDE DEF p, x, y
  <1>4. (p \o queue) \o (<<x>> \o y) = ((p \o queue) \o <<x>>) \o y
    BY <1>1, <1>2
  <1>5. (p \o queue) \o <<x>> = p \o (queue \o <<x>>) BY <1>1, <1>2
  <1> QED BY <1>1, <1>3, <1>4, <1>5

LEMMA WayPosts ==
  ASSUME TypeOK, posting # "none", posting' = "none",
         UNCHANGED <<queue, outbox>>
  PROVE  Way # <<>> /\ Way[1] = posting /\ Way' = Tail(Way)
  <1> DEFINE v == queue \o outbox
  <1>1. v \in Seq(Event) /\ posting \in Event BY DEF TypeOK
  <1>2. Way = (<<posting>> \o queue) \o outbox BY DEF Way
  <1>3. Way' = (<<>> \o queue) \o outbox BY DEF Way
  <1>4. (<<posting>> \o queue) \o outbox = <<posting>> \o v BY <1>1 DEF TypeOK
  <1>5. (<<>> \o queue) \o outbox = v BY DEF TypeOK
  <1> HIDE DEF v
  <1>6. \A x \in Event : /\ <<x>> \o v # <<>> /\ (<<x>> \o v)[1] = x
                         /\ Tail(<<x>> \o v) = v
    BY <1>1
  <1> QED BY <1>1, <1>2, <1>3, <1>4, <1>5, <1>6

\* In the gateway everything is in the outbox.
LEMMA WayPublishes ==
  ASSUME TypeOK, outbox # <<>>, queue = <<>>, posting = "none",
         outbox' = Tail(outbox), UNCHANGED <<queue, posting>>
  PROVE  Way # <<>> /\ Way[1] = Head(outbox) /\ Way' = Tail(Way)
  <1>1. outbox \in Seq(Event) /\ Tail(outbox) \in Seq(Event) BY DEF TypeOK
  <1>2. Way = (<<>> \o <<>>) \o outbox /\ Way' = (<<>> \o <<>>) \o Tail(outbox)
    BY DEF Way
  <1>3. Way = outbox /\ Way' = Tail(outbox) BY <1>1, <1>2
  <1> QED BY <1>1, <1>3

Plain == ~Interrupts /\ "clarify" \notin Tools

\* The line that resumes, and what is left to resume to.
LEMMA ResumedPlain ==
  ASSUME line # "waiting_input", before \notin Waiting, ResumeAfterWait
  PROVE  /\ line' \notin Waiting /\ before' = "none"
         /\ before = "none" => line' = "idle"
  BY DEF ResumeAfterWait, SetState, Waiting

\* A state that is set, but for a question.
LEMMA SetPlain ==
  ASSUME line # "waiting_input", before \notin Waiting, NEW s,
         s # "waiting_input", SetState(s, before)
  PROVE  /\ line' = s /\ before' \notin Waiting
         /\ before' # "none" => before # "none" \/ s = "waiting_approval"
  BY DEF SetState, Waiting

LEMMA ObservedPlain ==
  ASSUME line # "waiting_input", before \notin Waiting,
         NEW e \in Event, e # "question_pending", Observed(e)
  PROVE  /\ line' # "waiting_input" /\ before' \notin Waiting
         /\ before' # "none" => \/ e = "approval_requested"
                                \/ before # "none" /\ e # "approval_resolved"
         /\ e = "turn_ended" => line' = "idle" /\ live' = "idle"
  <1> USE Words
  <1>1. CASE e = "approval_resolved"
    BY <1>1, ResumedPlain DEF Observed, Waiting
  <1>2. CASE e # "approval_resolved"
    <2>1. /\ SetState(StateAfter[e], before) /\ live' = StateAfter[e]
      BY <1>2 DEF Observed, LiveAfter
    <2>2. /\ StateAfter[e] # "waiting_input"
          /\ StateAfter[e] = "waiting_approval" => e = "approval_requested"
          /\ e = "turn_ended" => StateAfter[e] = "idle"
      BY <1>2 DEF StateAfter
    <2> QED BY <1>2, <2>1, <2>2, SetPlain
  <1> QED BY <1>1, <1>2

\* What arrives.
LEMMA Arrives ==
  ASSUME IdleInv, ~missed, NEW e \in Event,
         Way # <<>>, Way[1] = e, Way' = Tail(Way), UNCHANGED doing,
         \/ Observed(e)
         \/ e = "approval_requested" /\ SetState("waiting_approval", before)
  PROVE  /\ line' # "waiting_input" /\ before' \notin Waiting
         /\ Follows(Way, doing, before)'
         /\ doing' = "idle" /\ Way' = <<>> => Arrived'
  <1>1. Way \in Seq(Event) BY WayTyped DEF IdleInv, Rest, InTurn, PathInv
  <1>2. Len(Way) \in Nat \ {0} BY <1>1, EmptySeq
  <1>3. Follows(Way, doing, before) BY DEF IdleInv, Rest, InTurn
  <1>4. e # "question_pending" BY <1>2, <1>3 DEF Follows
  <1>5. /\ line' # "waiting_input" /\ before' \notin Waiting
        /\ before' # "none" => \/ e = "approval_requested"
                               \/ before # "none" /\ e # "approval_resolved"
        /\ Observed(e) /\ e = "turn_ended" => line' = "idle" /\ live' = "idle"
    <2>1. CASE Observed(e) BY <2>1, <1>4, ObservedPlain DEF IdleInv, Rest, InTurn
    <2>2. CASE e = "approval_requested" /\ SetState("waiting_approval", before)
      BY <2>2, SetPlain DEF IdleInv, Rest, InTurn
    <2> QED BY <2>1, <2>2
  <1>6. Follows(Tail(Way), doing, before') BY <1>1, <1>3, <1>5, Consumed
  <1>7. ASSUME doing = "idle", Tail(Way) = <<>> PROVE Arrived'
    <2>1. Len(Way) = 1
      <3>1. Len(Tail(Way)) = Len(Way) - 1 BY <1>1, HeadTailProperties
      <3>2. Len(Tail(Way)) = 0 BY <1>7, EmptySeq
      <3> QED BY <3>1, <3>2, <1>2
    <2>2. e = "turn_ended" BY <1>3, <1>7, <2>1 DEF Follows
    <2> QED BY <2>2, <1>5 DEF Arrived
  <1> QED BY <1>5, <1>6, <1>7

\* A prompt that is gone: the line resumes, or stays.
LEMMA Gone ==
  ASSUME IdleInv, ResumeAfterWait \/ UNCHANGED <<line, before>>,
         UNCHANGED <<place, agent, path, live>>
  PROVE  Rest'
  <1>1. CASE missed BY <1>1 DEF IdleInv, Rest, path, agent
  <1>2. CASE ~missed
    <2>1. InTurn BY <1>2 DEF IdleInv, Rest
    <2>2. /\ line' # "waiting_input" /\ before' \notin Waiting
          /\ before' = "none" \/ before' = before
          /\ line' = line \/ (before = "none" => line' = "idle")
      BY <2>1, ResumedPlain DEF InTurn, Waiting
    <2>3. Way' = Way BY DEF Way, path
    <2>4. Follows(Way, doing, before') BY <2>1, <2>2 DEF InTurn, Follows
    <2>5. ASSUME doing = "idle", Way = <<>> PROVE Arrived'
      <3>1. before = "none" BY <2>1, <2>5 DEF InTurn, Follows, Resolved
      <3> QED BY <2>1, <2>2, <2>5, <3>1 DEF InTurn, Arrived
    <2> QED
      BY <2>1, <2>2, <2>3, <2>4, <2>5 DEF IdleInv, Rest, InTurn, path, agent
  <1> QED BY <1>1, <1>2

\* The agent goes on and reports what it did, or nothing.
LEMMA GoesOn ==
  ASSUME IdleInv, outbox = <<>>, NEW e \in Event, outbox' \in {<<>>, <<e>>},
         UNCHANGED <<place, queue, posting, missed, line, before, live>>,
         doing' \in {"idle", "thinking", "tool", "approval"},
         e # "question_pending",
         e = "approval_requested" => doing' = "approval",
         doing = "approval" =>
           doing' = "approval" \/ outbox' = <<"approval_resolved">>,
         doing' = "idle" => outbox' = <<"turn_ended">>
  PROVE  Rest'
  <1>1. Way \in Seq(Event) BY WayTyped DEF IdleInv, Rest, InTurn, PathInv
  <1>2. ~missed => Follows(Way, doing, before) BY DEF IdleInv, Rest, InTurn
  <1>3. <<e>> # <<>> /\ \A f : <<f>> = <<e>> => f = e OBVIOUS
  <1>4. CASE outbox' = <<>>
    <2>1. Way' = Way BY <1>4 DEF Way
    <2>2. doing = "approval" => doing' = "approval" BY <1>4
    <2>3. doing' # "idle" BY <1>4
    <2>4. ~missed => Follows(Way, doing', before)
      BY <1>2, <2>2, <2>3, Continued
    <2> QED BY <2>1, <2>3, <2>4 DEF IdleInv, Rest, InTurn
  <1>5. CASE outbox' = <<e>>
    <2>1. Way' = Append(Way, e) BY <1>5, WayReports DEF IdleInv, Rest, InTurn, PathInv
    <2>2. Append(Way, e) # <<>> BY <1>1
    <2>3. doing = "approval" => doing' = "approval" \/ e = "approval_resolved"
      BY <1>3, <1>5
    <2>4. doing' = "idle" => e = "turn_ended" BY <1>3, <1>5
    <2>5. ~missed => Follows(Append(Way, e), doing', before)
      BY <1>1, <1>2, <2>3, <2>4, Appended
    <2> QED BY <2>1, <2>2, <2>5 DEF IdleInv, Rest, InTurn
  <1> QED BY <1>4, <1>5

LEMMA IdleHooks ==
  ASSUME Plain, IdleInv, Hooks
  PROVE  Rest'
  <1> DEFINE Step(e) ==
        /\ e \in Event /\ e # "question_pending"
        /\ outbox = <<>> /\ outbox' \in {<<>>, <<e>>}
        /\ UNCHANGED <<place, queue, posting, missed, line, before, live>>
        /\ doing' \in {"idle", "thinking", "tool", "approval"}
        /\ e = "approval_requested" => doing' = "approval"
        /\ doing = "approval" =>
             doing' = "approval" \/ outbox' = <<"approval_resolved">>
        /\ doing' = "idle" => outbox' = <<"turn_ended">>
  <1> USE Words
  <1>1. CASE PreApiRequest
    <2>1. Step("turn_started")
      BY <1>1 DEF PreApiRequest, Does, Reports, adapter
    <2> HIDE DEF Step
    <2> QED BY <2>1, GoesOn DEF Step
  <1>2. CASE PreToolCall
    <2>1. PICK tool \in Tools :
            /\ Does({"thinking"}, IF tool = "clarify" THEN "question" ELSE "tool")
            /\ Reports(<<"tool_started">> \o
                 IF tool = "clarify" THEN <<"question_pending">> ELSE <<>>)
            /\ UNCHANGED <<turn, seen, adapter>>
      BY <1>2 DEF PreToolCall
    <2>2. tool # "clarify" BY DEF Plain
    <2>3. outbox' = <<"tool_started">> \o <<>> BY <2>1, <2>2 DEF Reports
    <2>4. outbox' = <<"tool_started">> BY <2>3
    <2>5. Step("tool_started")
      BY <2>1, <2>2, <2>4 DEF Does, Reports, adapter
    <2> HIDE DEF Step
    <2> QED BY <2>5, GoesOn DEF Step
  <1>3. CASE PostToolCall
    <2>1. Step("tool_finished")
      BY <1>3 DEF PostToolCall, Does, Reports, adapter
    <2> HIDE DEF Step
    <2> QED BY <2>1, GoesOn DEF Step
  <1>4. CASE SessionEnd
    <2>1. Step("turn_ended")
      BY <1>4 DEF SessionEnd, Does, Reports, Plain, adapter
    <2> HIDE DEF Step
    <2> QED BY <2>1, GoesOn DEF Step
  <1>5. CASE AsksApproval
    <2>1. Step("approval_requested")
      BY <1>5 DEF AsksApproval, Does, Reports, adapter
    <2> HIDE DEF Step
    <2> QED BY <2>1, GoesOn DEF Step
  <1>6. CASE FallsBack
    <2>1. Step("approval_requested")
      BY <1>6 DEF FallsBack, Does, Reports, adapter
    <2> HIDE DEF Step
    <2> QED BY <2>1, GoesOn DEF Step
  <1>7. CASE AnsweredElsewhere
    <2>1. Step("approval_resolved")
      BY <1>7 DEF AnsweredElsewhere, Does, Reports, adapter
    <2> HIDE DEF Step
    <2> QED BY <2>1, GoesOn DEF Step
  <1> QED BY <1>1, <1>2, <1>3, <1>4, <1>5, <1>6, <1>7 DEF Hooks

LEMMA IdleStep == ASSUME Plain, IdleInv, [Next]_vars PROVE IdleInv'
  <1> USE Words
  <1>t. PathInv' BY Types DEF IdleInv
  <1>0. PathInv /\ TypeOK /\ Rest BY DEF IdleInv, PathInv
  <1>1. CASE Hooks BY <1>1, <1>t, IdleHooks DEF IdleInv
  <1>2. ASSUME UNCHANGED <<place, agent, outbox, queue, posting, missed, live,
                           line, before>>
        PROVE  Rest'
    <2>1. Way' = Way BY <1>2 DEF Way
    <2>2. InTurn => InTurn' BY <1>2, <2>1 DEF InTurn, Arrived, agent
    <2> QED BY <1>0, <1>2, <2>2 DEF Rest, agent
  <1>3. CASE Publishes
    <2>1. CASE subscribed /\ ~missed
      <3>1. outbox # <<>> /\ place = "gateway"
        BY <1>3, <2>1, <1>0 DEF Publishes, PathInv
      <3>2. Head(outbox) \in Event BY <3>1, <1>0 DEF TypeOK
      <3>3. queue = <<>> /\ posting = "none"
        BY <1>0, <2>1, <3>1 DEF Rest, InTurn
      <3>4. /\ Way # <<>> /\ Way[1] = Head(outbox) /\ Way' = Tail(Way)
        BY <1>0, <1>3, <3>1, <3>3, WayPublishes DEF Publishes
      <3>5. Observed(Head(outbox)) /\ UNCHANGED <<doing, place, queue, posting>>
        BY <1>3, <2>1 DEF Publishes, agent
      <3>6. /\ line' # "waiting_input" /\ before' \notin Waiting
            /\ Follows(Way, doing, before)'
            /\ doing' = "idle" /\ Way' = <<>> => Arrived'
        BY <2>1, <3>2, <3>4, <3>5, Arrives
      <3>7. Rest' BY <1>0, <3>3, <3>5, <3>6 DEF Rest, InTurn
      <3> QED BY <3>7, <1>t DEF IdleInv
    <2>2. CASE ~subscribed \/ missed
      <3>1. missed' /\ doing' = doing BY <1>3, <2>2 DEF Publishes, agent
      <3> QED BY <1>0, <1>t, <3>1 DEF IdleInv, Rest
    <2> QED BY <2>1, <2>2
  <1>4. CASE Submits
    <2>1. UNCHANGED <<doing, line, before, live, place, posting>>
      BY <1>4 DEF Submits, agent, adapter
    <2>2. CASE missed' BY <1>0, <1>t, <2>1, <2>2 DEF IdleInv, Rest
    <2>3. CASE ~missed'
      <3>1. ~missed /\ place # "gateway" /\ ~(Len(queue) >= Depth)
        BY <1>4, <2>3 DEF Submits, Puts
      <3>2. queue' = Append(queue, Head(outbox))
        BY <1>4, <3>1, <1>0, PathAssumption DEF Submits, Puts, TypeOK
      <3>3. Way' = Way BY <1>0, <1>4, <3>2, WaySubmits
      <3>4. Rest' BY <1>0, <2>1, <3>1, <3>3 DEF Rest, InTurn, Arrived
      <3> QED BY <3>4, <1>t DEF IdleInv
    <2> QED BY <2>2, <2>3
  <1>5. CASE Gets
    <2>1. Way' = Way BY <1>0, <1>5, WayGets
    <2>2. missed \/ place # "gateway" BY <1>0, <1>5 DEF Gets, Rest, InTurn
    <2>3. UNCHANGED <<doing, line, before, live, place, missed>>
      BY <1>5 DEF Gets, agent, adapter
    <2>4. Rest' BY <1>0, <2>1, <2>2, <2>3 DEF Rest, InTurn, Arrived
    <2> QED BY <2>4, <1>t DEF IdleInv
  <1>6. CASE PostFails
    <2>1. missed' /\ UNCHANGED <<doing, line, before>>
      BY <1>6 DEF PostFails, agent, adapter
    <2> QED BY <1>0, <1>t, <2>1 DEF IdleInv, Rest
  <1>7. CASE Posts
    <2>1. /\ posting \in Event /\ posting # "none"
          /\ UNCHANGED <<doing, missed, place, queue>> /\ posting' = "none"
      BY <1>0, <1>7 DEF Posts, TypeOK, agent
    <2>2. /\ Way # <<>> /\ Way[1] = posting /\ Way' = Tail(Way)
      BY <1>0, <1>7, WayPosts DEF Posts
    <2>3. CASE missed BY <1>0, <1>t, <2>1, <2>3 DEF IdleInv, Rest
    <2>4. CASE ~missed
      <3>1. posting # "question_pending"
        <4>1. Follows(Way, doing, before) BY <1>0, <2>4 DEF Rest, InTurn
        <4>2. 1 \in 1..Len(Way) BY <1>0, <2>2, WayTyped, EmptySeq
        <4> QED BY <2>2, <4>1, <4>2 DEF Follows
      <3>2. \/ Observed(posting)
            \/ /\ posting = "approval_requested"
               /\ SetState("waiting_approval", before)
        BY <1>7, <3>1 DEF Posts, Prompt, StateAfter
      <3>3. /\ line' # "waiting_input" /\ before' \notin Waiting
            /\ Follows(Way, doing, before)'
            /\ doing' = "idle" /\ Way' = <<>> => Arrived'
        BY <2>1, <2>2, <2>4, <3>2, Arrives
      <3>4. Rest' BY <1>0, <2>1, <3>3 DEF Rest, InTurn
      <3> QED BY <3>4, <1>t DEF IdleInv
    <2> QED BY <2>3, <2>4
  <1>8. CASE Registers
    <2>1. SetState("waiting_approval", before) /\ doing = "approval"
      BY <1>8 DEF Registers
    <2>2. Way' = Way BY <1>8 DEF Registers, Way, path
    <2>3. ~missed => line' # "waiting_input" /\ before' \notin Waiting
      BY <1>0, <2>1, SetPlain DEF Rest, InTurn
    <2>4. UNCHANGED <<place, doing, queue, posting, missed>>
      BY <1>8 DEF Registers, agent, path
    <2>5. ~missed => Follows(Way, doing, before')
      BY <1>0, <2>1 DEF Rest, InTurn, Follows
    <2>6. Rest' BY <1>0, <2>1, <2>2, <2>3, <2>4, <2>5 DEF Rest, InTurn
    <2> QED BY <2>6, <1>t DEF IdleInv
  <1>9. CASE WatchAnswers
    <2>1. CASE doing = "approval" /\ outbox = <<>>
      <3>1. /\ outbox' = <<"approval_resolved">> /\ doing' = "tool"
            /\ UNCHANGED <<place, queue, posting, missed, line, before, live>>
        BY <1>9, <2>1 DEF WatchAnswers, Does, Reports
      <3>2. Rest' BY <2>1, <3>1, GoesOn
      <3> QED BY <3>2, <1>t DEF IdleInv
    <2>2. CASE ~(doing = "approval" /\ outbox = <<>>)
      BY <1>2, <1>9, <2>2, <1>t DEF WatchAnswers, path, agent, IdleInv
    <2> QED BY <2>1, <2>2
  <1>10. CASE CopyAnswered BY <1>2, <1>10, <1>t DEF CopyAnswered, path, IdleInv
  <1>11. CASE Announced
    <2>1. ResumeAfterWait \/ UNCHANGED <<line, before>>
      BY <1>11 DEF Announced, ResumeIfNone
    <2>2. UNCHANGED <<place, agent, path, live>> BY <1>11 DEF Announced
    <2> QED BY <2>1, <2>2, <1>t, Gone DEF IdleInv
  <1>12. CASE \E p \in prompts : Expires(p)
    <2>1. ResumeAfterWait \/ UNCHANGED <<line, before>>
      BY <1>12 DEF Expires, ResumeIfNone
    <2>2. UNCHANGED <<place, agent, path, live>> BY <1>12 DEF Expires
    <2> QED BY <2>1, <2>2, <1>t, Gone DEF IdleInv
  <1>13. CASE Checks \/ Reconnects
    BY <1>13, <1>2, <1>t DEF Checks, Reconnects, IdleInv, agent, adapter
  <1>14. CASE UNCHANGED vars
    BY <1>14, <1>2, <1>t DEF vars, IdleInv, path, adapter
  <1> QED BY <1>1, <1>3, <1>4, <1>5, <1>6, <1>7, <1>8, <1>9, <1>10, <1>11,
             <1>12, <1>13, <1>14 DEF Next

\* Where no turn is interrupted and no question is asked in the terminal: when
\* the agent has stopped, all has arrived and nothing was dropped, the wrist
\* says idle.
THEOREM PathIdleInTheEnd == ASSUME Plain PROVE Spec => []IdleInTheEnd
  <1>1. Init => IdleInv
    <2> SUFFICES ASSUME Init PROVE IdleInv OBVIOUS
    <2>1. Way = (<<>> \o <<>>) \o <<>> BY DEF Init, Way
    <2>2. Way = <<>> BY <2>1
    <2>3. Len(Way) = 0 BY <2>2, EmptySeq
    <2>4. Follows(Way, doing, before) BY <2>2, <2>3 DEF Init, Follows
    <2> QED BY <2>4, InitInv DEF IdleInv, Init, Rest, InTurn, Arrived, Waiting
  <1>2. IdleInv => IdleInTheEnd
    <2> SUFFICES ASSUME IdleInv, doing = "idle", Quiet, ~missed PROVE Arrived
      BY DEF IdleInTheEnd, Arrived
    <2>1. Way = (<<>> \o <<>>) \o <<>> BY DEF Quiet, Way
    <2>2. Way = <<>> BY <2>1
    <2> QED BY <2>2 DEF IdleInv, Rest, InTurn
  <1> QED BY <1>1, <1>2, IdleStep, PTL DEF Spec

-----------------------------------------------------------------------------
(* The path implements the channel.                                        *)

LEMMA RemovedMiddle ==
  ASSUME NEW u \in Seq(Event), NEW e \in Event, NEW v \in Seq(Event)
  PROVE  /\ Channel!RemoveAt((u \o <<e>>) \o v, Len(u) + 1) = u \o v
         /\ ((u \o <<e>>) \o v)[Len(u) + 1] = e
         /\ Len(u) + 1 \in 1..Len((u \o <<e>>) \o v)
  <1> DEFINE w == (u \o <<e>>) \o v
             left == SubSeq(w, 1, Len(u))
             right == SubSeq(w, Len(u) + 2, Len(w))
  <1>1. /\ w \in Seq(Event) /\ Len(w) = Len(u) + 1 + Len(v)
        /\ Len(u) \in Nat /\ Len(v) \in Nat
        /\ w[Len(u) + 1] = e
        /\ \A i \in 1..Len(u) : w[i] = u[i]
        /\ \A i \in 1..Len(v) : w[Len(u) + 1 + i] = v[i]
    OBVIOUS
  <1> HIDE DEF w
  <1>2. left = u
    <2>1. left \in Seq(Event) /\ Len(left) = Len(u)
          /\ \A i \in 1..Len(u) : left[i] = w[i]
      BY <1>1, SubSeqProperties
    <2> HIDE DEF left
    <2> QED BY <1>1, <2>1, SeqEqual
  <1>3. right = v
    <2>1. right \in Seq(Event) /\ Len(right) = Len(v)
          /\ \A i \in 1..Len(v) : right[i] = w[Len(u) + 1 + i]
      BY <1>1, SubSeqProperties
    <2> HIDE DEF right
    <2> QED BY <1>1, <2>1, SeqEqual
  <1>4. Channel!RemoveAt(w, Len(u) + 1) = left \o right
    <2>1. (Len(u) + 1) - 1 = Len(u) /\ (Len(u) + 1) + 1 = Len(u) + 2
      BY <1>1
    <2>2. \A i : Channel!RemoveAt(w, i) =
                   SubSeq(w, 1, i - 1) \o SubSeq(w, i + 1, Len(w))
      BY DEF Channel!RemoveAt
    <2> QED BY <2>1, <2>2
  <1> HIDE DEF left, right
  <1>5. Channel!RemoveAt(w, Len(u) + 1) = u \o v BY <1>2, <1>3, <1>4
  <1>6. Len(u) + 1 \in 1..Len(w) BY <1>1
  <1> QED BY <1>1, <1>5, <1>6 DEF w

LEMMA RemovedHead ==
  ASSUME NEW w \in Seq(Event), w # <<>>
  PROVE  Channel!RemoveAt(w, 1) = Tail(w) /\ 1 \in 1..Len(w) /\ w[1] = Head(w)
  <1> DEFINE e == Head(w)
             v == Tail(w)
  <1>1. e \in Event /\ v \in Seq(Event) /\ w = (<<>> \o <<e>>) \o v OBVIOUS
  <1>2. <<>> \in Seq(Event) /\ Len(<<>>) + 1 = 1 OBVIOUS
  <1>3. <<>> \o v = v BY <1>1
  <1> HIDE DEF e, v
  <1>4. Channel!RemoveAt((<<>> \o <<e>>) \o v, Len(<<>>) + 1) = <<>> \o v
    BY <1>1, <1>2, RemovedMiddle
  <1>5. Channel!RemoveAt(w, 1) = v BY <1>1, <1>2, <1>3, <1>4
  <1> QED BY <1>5, EmptySeq DEF v

LEMMA Longer ==
  ASSUME NEW w \in Seq(Event), NEW es \in Seq(Event), es # <<>>, Len(es) <= 2
  PROVE  Channel!IsStrictPrefix(w, w \o es) /\ Len(w \o es) <= Len(w) + 2
  <1> DEFINE v == w \o es
  <1>1. /\ Len(v) = Len(w) + Len(es) /\ Len(w) \in Nat /\ Len(es) \in Nat \ {0}
        /\ v \in Seq(Event) /\ \A i \in 1..Len(w) : v[i] = w[i]
    BY EmptySeq
  <1> HIDE DEF v
  <1>2. SubSeq(w, 1, Len(w)) = SubSeq(v, 1, Len(w))
    <2> DEFINE a == SubSeq(w, 1, Len(w))
               b == SubSeq(v, 1, Len(w))
    <2>1. /\ a \in Seq(Event) /\ Len(a) = Len(w)
          /\ \A i \in 1..Len(w) : a[i] = w[i]
      BY <1>1, SubSeqProperties
    <2>2. /\ b \in Seq(Event) /\ Len(b) = Len(w)
          /\ \A i \in 1..Len(w) : b[i] = v[i]
      BY <1>1, SubSeqProperties
    <2> HIDE DEF a, b
    <2>3. a = b BY <1>1, <2>1, <2>2, SeqEqual
    <2> QED BY <2>3 DEF a, b
  <1>3. v # w /\ Len(w) <= Len(v) /\ Len(v) <= Len(w) + 2 BY <1>1
  <1>4. Channel!IsStrictPrefix(w, v) /\ Len(v) <= Len(w) + 2
    BY <1>2, <1>3 DEF Channel!IsStrictPrefix, Channel!IsPrefix
  <1> QED BY <1>4 DEF v

\* As long as nothing went wrong, nothing of the gateway is in the queue.
ChannelInv == /\ PathInv
              /\ gate => place = "gateway"
              /\ place = "gateway" /\ ~missed => queue = <<>> /\ posting = "none"

LEMMA ChannelInvStep == ASSUME ChannelInv, [Next]_vars PROVE ChannelInv'
  <1> USE DEF ChannelInv
  <1>1. PathInv' BY Types
  <1>2. ASSUME UNCHANGED <<place, gate, missed, queue, posting>>
        PROVE  ChannelInv'
    BY <1>1, <1>2
  <1>3. CASE Hooks BY <1>2, <1>3, HookTypes DEF PathInv
  <1>4. CASE Checks BY <1>1, <1>4 DEF Checks, PathInv
  <1>5. CASE Publishes BY <1>1, <1>5 DEF Publishes
  <1>6. CASE Submits BY <1>1, <1>6 DEF Submits, Puts
  <1>7. CASE Gets BY <1>1, <1>7 DEF Gets
  <1>8. CASE PostFails BY <1>1, <1>8 DEF PostFails
  <1>9. CASE Posts BY <1>1, <1>9 DEF Posts
  <1>10. CASE Reconnects BY <1>2, <1>10 DEF Reconnects
  <1>11. CASE WatchAnswers
    BY <1>2, <1>11 DEF WatchAnswers, Reports, path
  <1>12. CASE Registers \/ CopyAnswered \/ Announced \/ UNCHANGED vars
    BY <1>2, <1>12 DEF Registers, CopyAnswered, Announced, vars, path
  <1>13. CASE \E p \in prompts : Expires(p)
    BY <1>2, <1>13 DEF Expires, path
  <1> QED BY <1>3, <1>4, <1>5, <1>6, <1>7, <1>8, <1>9, <1>10, <1>11, <1>12,
             <1>13 DEF Next

\* What the dispatcher holds, before what the hook has yet to observe.
Held == (IF posting = "none" THEN <<>> ELSE <<posting>>) \o queue

LEMMA HeldTyped == ASSUME TypeOK PROVE Held \in Seq(Event) /\ Way = Held \o outbox
  <1>1. CASE posting = "none" BY <1>1 DEF TypeOK, Way, Held
  <1>2. CASE posting # "none" BY <1>2 DEF TypeOK, Way, Held
  <1> QED BY <1>1, <1>2

\* A hook that has reported.
LEMMA ChannelReports ==
  ASSUME TypeOK, outbox = <<>>, Outbox',
         UNCHANGED <<place, queue, posting, missed, live>>
  PROVE  [Channel!Next]_(Channel!vars)
  <1>1. Held \in Seq(Event) /\ Way = Held \o <<>> /\ Way' = Held \o outbox'
    BY HeldTyped DEF Way, Held
  <1>2. Way = Held BY <1>1
  <1>3. CASE outbox' = <<>> BY <1>1, <1>3 DEF Channel!vars
  <1>4. CASE outbox' # <<>>
    <2>1. Channel!IsStrictPrefix(Way, Way') /\ Len(Way') <= Len(Way) + 2
      BY <1>1, <1>2, <1>4, Longer DEF Outbox
    <2>2. Channel!Report BY <2>1 DEF Channel!Report
    <2> QED BY <2>2 DEF Channel!Next
  <1> QED BY <1>3, <1>4

\* What the hook observes next is taken from behind what is held.
LEMMA FromOutbox ==
  ASSUME TypeOK, outbox # <<>>, outbox' = Tail(outbox),
         UNCHANGED <<queue, posting>>
  PROVE  LET i == Len(Held) + 1
         IN i \in 1..Len(Way) /\ Way[i] = Head(outbox)
            /\ Way' = Channel!RemoveAt(Way, i)
  <1> DEFINE e == Head(outbox)
             v == Tail(outbox)
  <1>1. Held \in Seq(Event) /\ Way = Held \o outbox /\ Way' = Held \o v
    BY HeldTyped DEF Way, Held
  <1>2. e \in Event /\ v \in Seq(Event) /\ outbox = <<e>> \o v
    BY DEF TypeOK
  <1> HIDE DEF e, v
  <1>3. Held \o (<<e>> \o v) = (Held \o <<e>>) \o v BY <1>1, <1>2
  <1>4. Way = (Held \o <<e>>) \o v BY <1>1, <1>2, <1>3
  <1>5. /\ Channel!RemoveAt(Way, Len(Held) + 1) = Held \o v
        /\ Way[Len(Held) + 1] = e /\ Len(Held) + 1 \in 1..Len(Way)
    <2>1. /\ Channel!RemoveAt((Held \o <<e>>) \o v, Len(Held) + 1) = Held \o v
          /\ ((Held \o <<e>>) \o v)[Len(Held) + 1] = e
          /\ Len(Held) + 1 \in 1..Len((Held \o <<e>>) \o v)
      BY <1>1, <1>2, RemovedMiddle
    <2> QED BY <1>4, <2>1, Zenon
  <1> QED BY <1>1, <1>5 DEF e

LEMMA ChannelStep ==
  ASSUME ChannelInv, [Next]_vars
  PROVE  [Channel!Next]_(Channel!vars)
  <1>0. PathInv /\ TypeOK BY DEF ChannelInv, PathInv
  <1>s. ASSUME UNCHANGED <<place, missed, live>>, Way' = Way
        PROVE  [Channel!Next]_(Channel!vars)
    BY <1>s DEF Channel!vars
  <1>u. ASSUME UNCHANGED <<place, missed, live, posting, queue, outbox>>
        PROVE  [Channel!Next]_(Channel!vars)
    BY <1>s, <1>u DEF Way
  <1>1. CASE Hooks
    <2>1. outbox = <<>>
      BY <1>1 DEF Hooks, PreApiRequest, PreToolCall, PostToolCall, SessionEnd,
         AsksApproval, FallsBack, AnsweredElsewhere, Does
    <2> QED BY <1>0, <1>1, <2>1, HookTypes, ChannelReports DEF adapter
  <1>2. CASE Publishes
    <2> DEFINE i == Len(Held) + 1
    <2>1. outbox # <<>> /\ place = "gateway"
      BY <1>2 DEF Publishes, ChannelInv, PathInv
    <2>2. /\ outbox' = Tail(outbox) /\ UNCHANGED <<place, queue, posting>>
          /\ live' = LiveAfter[Head(outbox)] /\ missed' \in {missed, TRUE}
      BY <1>2 DEF Publishes, Observed
    <2>3. /\ i \in 1..Len(Way) /\ Way[i] = Head(outbox)
          /\ Way' = Channel!RemoveAt(Way, i)
      BY <1>0, <2>1, <2>2, FromOutbox
    <2>4. i = 1 \/ missed
      <3>1. SUFFICES ASSUME ~missed PROVE i = 1 OBVIOUS
      <3>2. Held = <<>> \o <<>> BY <2>1, <3>1 DEF ChannelInv, Held
      <3> QED BY <3>2
    <2> HIDE DEF i
    <2>5. Channel!Arrive(i) BY <2>1, <2>2, <2>3, <2>4 DEF Channel!Arrive
    <2> QED BY <2>3, <2>5 DEF Channel!Next
  <1>3. CASE Submits
    <2>1. /\ outbox # <<>> /\ outbox' = Tail(outbox)
          /\ UNCHANGED <<place, posting, live>>
          /\ missed' = (missed \/ place = "gateway" \/ Len(queue) >= Depth)
          /\ queue' = IF Len(queue) < Depth THEN Append(queue, Head(outbox))
                                            ELSE queue
      BY <1>3 DEF Submits, Puts, adapter
    <2>2. Len(queue) \in Nat /\ Depth \in Nat /\ missed \in BOOLEAN
      BY <1>0, PathAssumption DEF TypeOK
    <2>3. CASE Len(queue) < Depth
      <3>1. Way' = Way BY <1>0, <1>3, <2>1, <2>3, WaySubmits
      <3>2. CASE place = "gateway"
        <4>1. Channel!Detour BY <2>1, <3>1, <3>2 DEF Channel!Detour
        <4> QED BY <4>1 DEF Channel!Next
      <3>3. CASE place # "gateway"
        <4>1. missed' = missed BY <2>1, <2>2, <2>3, <3>3
        <4> QED BY <1>s, <2>1, <3>1, <4>1
      <3> QED BY <3>2, <3>3
    <2>4. CASE ~(Len(queue) < Depth)
      <3> DEFINE i == Len(Held) + 1
      <3>a. Len(queue) >= Depth BY <2>2, <2>4
      <3>1. missed' = TRUE /\ queue' = queue BY <2>1, <2>4, <3>a
      <3>2. i \in 1..Len(Way) /\ Way' = Channel!RemoveAt(Way, i)
        BY <1>0, <2>1, <3>1, FromOutbox
      <3> HIDE DEF i
      <3>3. Channel!Lose(i) BY <2>1, <3>1, <3>2 DEF Channel!Lose
      <3> QED BY <3>2, <3>3 DEF Channel!Next
    <2> QED BY <2>3, <2>4
  <1>4. CASE Gets
    BY <1>0, <1>4, <1>s, WayGets DEF Gets, adapter
  <1>5. CASE PostFails
    <2>1. Way # <<>> /\ Way' = Tail(Way)
      BY <1>0, <1>5, WayPosts DEF PostFails
    <2>2. Way' = Channel!RemoveAt(Way, 1) /\ 1 \in 1..Len(Way)
      BY <1>0, <2>1, WayTyped, RemovedHead
    <2>3. Channel!Lose(1)
      BY <1>5, <2>2 DEF PostFails, Channel!Lose, adapter
    <2> QED BY <2>2, <2>3 DEF Channel!Next
  <1>6. CASE Posts
    <2>1. Way # <<>> /\ Way' = Tail(Way) /\ Way[1] = posting
      BY <1>0, <1>6, WayPosts DEF Posts
    <2>2. /\ Way' = Channel!RemoveAt(Way, 1) /\ 1 \in 1..Len(Way)
          /\ Head(Way) = posting
      BY <1>0, <2>1, WayTyped, RemovedHead
    <2>3. CASE posting \in Prompt
      <3>1. Channel!Register
        BY <1>6, <2>1, <2>2, <2>3 DEF Posts, Channel!Register
      <3> QED BY <3>1 DEF Channel!Next
    <2>4. CASE posting \notin Prompt
      <3>1. live' = LiveAfter[posting] /\ UNCHANGED <<place, missed>>
        BY <1>6, <2>4 DEF Posts, Observed
      <3>2. Channel!Arrive(1) BY <2>1, <2>2, <3>1 DEF Channel!Arrive
      <3> QED BY <2>2, <3>2 DEF Channel!Next
    <2> QED BY <2>3, <2>4
  <1>7. CASE WatchAnswers
    <2>1. CASE doing = "approval" /\ outbox = <<>>
      <3>1. /\ Reports(<<"approval_resolved">>) /\ live' = live
            /\ "approval_resolved" \in Event
        BY <1>7, <2>1, Words DEF WatchAnswers
      <3>2. Outbox' BY <3>1, ReportsOne
      <3> QED BY <1>0, <2>1, <3>1, <3>2, ChannelReports DEF Reports
    <2>2. CASE ~(doing = "approval" /\ outbox = <<>>)
      BY <1>7, <1>u, <2>2 DEF WatchAnswers, path
    <2> QED BY <2>1, <2>2
  <1>8. CASE Checks \/ Reconnects
    BY <1>8, <1>u DEF Checks, Reconnects, adapter
  <1>9. CASE Registers \/ CopyAnswered \/ Announced
    BY <1>9, <1>u DEF Registers, CopyAnswered, Announced, path
  <1>10. CASE \E p \in prompts : Expires(p)
    BY <1>10, <1>u DEF Expires, path
  <1>11. CASE UNCHANGED vars BY <1>11, <1>u DEF vars, path, adapter
  <1> QED BY <1>1, <1>2, <1>3, <1>4, <1>5, <1>6, <1>7, <1>8, <1>9, <1>10,
             <1>11 DEF Next

\* For a queue of any depth, with interrupted turns and questions too, what the
\* hooks report arrives in its order and at most once: the path from the hooks
\* to the gateway's live state implements ObservationChannel.
THEOREM PathImplementsChannel == Spec => ImplementsChannel
  <1>1. Init => ChannelInv
    BY InitInv DEF Init, ChannelInv
  <1>2. Init => Channel!Init
    <2> SUFFICES ASSUME Init PROVE Channel!Init OBVIOUS
    <2>1. Way = (<<>> \o <<>>) \o <<>> BY DEF Init, Way
    <2>2. Way = <<>> BY <2>1
    <2> QED BY <2>2 DEF Init, Channel!Init
  <1> QED BY <1>1, <1>2, ChannelInvStep, ChannelStep, PTL
         DEF Spec, ImplementsChannel, Channel!Spec
=============================================================================
