------------------------- MODULE ApprovalPluginProofs -------------------------
(* Theorems about ApprovalPlugin, for any requests, menus and bounds.      *)
EXTENDS ApprovalPlugin, SequenceTheorems, TLAPS

USE DEF Ask, Copy

LEMMA Askers ==
  /\ \A r \in Request : Ask(r) \in Asker /\ Copy(r) \in Asker
  /\ \A r, q : Ask(r) = Ask(q) => r = q
  /\ \A r, q : Copy(r) = Copy(q) => r = q
  /\ \A r, q : Ask(r) # Copy(q)
  /\ \A a \in Asker : a[1] \in Request /\ (a = Ask(a[1]) \/ a = Copy(a[1]))
  BY DEF Asker

LEMMA Tasks ==
  ASSUME NEW t \in Task
  PROVE  /\ t # NoTask
         /\ t.event = "requested" => t.of \in Request
         /\ t.event = "resolved" =>
              t.of \in Request \union {NoRequest} /\ t.choice \in Scope
  BY TaskAssumption DEF Task

LEMMA Submits ==
  ASSUME queue \in Seq(Task), Len(queue) <= Depth, NEW t \in Task, Submit(t)
  PROVE  /\ queue' \in Seq(Task) /\ Len(queue') <= Depth
         /\ \A i \in 1..Len(queue') : queue'[i] # t =>
              i \in 1..Len(queue) /\ queue'[i] = queue[i]
  <1>1. CASE Len(queue) < Depth
    <2>1. queue' = Append(queue, t) BY <1>1 DEF Submit
    <2>2. queue' \in Seq(Task) /\ Len(queue') = Len(queue) + 1 BY <2>1
    <2>3. \A i \in 1..Len(queue') :
            queue'[i] = IF i = Len(queue) + 1 THEN t ELSE queue[i]
      BY <2>1
    <2>4. \A i \in 1..Len(queue') : i # Len(queue) + 1 => i \in 1..Len(queue)
      BY <2>2
    <2>5. Len(queue) + 1 <= Depth BY <1>1, PluginAssumption
    <2>6. \A i \in 1..Len(queue') : queue'[i] # t =>
            i \in 1..Len(queue) /\ queue'[i] = queue[i]
      BY <2>3, <2>4
    <2> QED BY <2>2, <2>5, <2>6
  <1>2. CASE ~(Len(queue) < Depth)
    BY <1>2 DEF Submit
  <1> QED BY <1>1, <1>2

-----------------------------------------------------------------------------
(* Types.                                                                  *)

LEMMA Types == ASSUME TypeOK, [Next]_vars PROVE TypeOK'
  <1>1. CASE Gets
    <2>1. /\ Head(queue) \in Task /\ Tail(queue) \in Seq(Task)
          /\ Len(Tail(queue)) <= Depth
      BY <1>1, PluginAssumption DEF Gets, TypeOK
    <2> QED BY <1>1, <2>1 DEF Gets, TypeOK, hermes
  <1>2. CASE Posts BY <1>2 DEF Posts, TypeOK, hermes
  <1>3. CASE Tick BY <1>3 DEF Tick, TypeOK, hermes, dispatcher
  <1>4. ASSUME NEW r \in Request, Opens(r) PROVE TypeOK'
    BY <1>4 DEF Opens, Goes, Reported, TypeOK, hermes, Presenting
  <1>5. ASSUME NEW r \in Request, Asks(r) \/ AskFails(r) \/ SocketTimesOut(r)
        PROVE  TypeOK'
    BY <1>5 DEF Asks, AskFails, SocketTimesOut, Goes, TypeOK, hermes,
       dispatcher, Presenting
  <1>6. ASSUME NEW r \in Request, Responds(r) PROVE TypeOK'
    <2>1. Choice(r) \in Scope BY <1>6 DEF Responds, Usable, Choice
    <2>2. settled' \in [Request -> Scope \union {"open"}]
      BY <1>6, <2>1 DEF Responds, TypeOK
    <2>3. thread' = [thread EXCEPT ![r] = "responded"] /\ open' = open \ {r}
      BY <1>6 DEF Responds, Goes, Closes
    <2>4. age' = [age EXCEPT ![r] = 0] /\ wait' = [wait EXCEPT ![r] = NoTime]
      BY <1>6 DEF Responds, Forgets
    <2> QED BY <1>6, <2>2, <2>3, <2>4 DEF Responds, TypeOK, dispatcher, Presenting
  <1>7. ASSUME NEW r \in Request, Raises(r) PROVE TypeOK'
    BY <1>7 DEF Raises, Goes, Closes, Forgets, TypeOK, hermes, dispatcher,
       Presenting
  <1>8. ASSUME NEW r \in Request, ShownElsewhere(r) PROVE TypeOK'
    <2>1. [event |-> "requested", of |-> r] \in Task BY DEF Task
    <2>2. Submit([event |-> "requested", of |-> r])
      BY <1>8 DEF ShownElsewhere, Reported
    <2>3. queue' \in Seq(Task) /\ Len(queue') <= Depth
      BY <2>1, <2>2, Submits DEF TypeOK
    <2> QED BY <1>8, <2>3 DEF ShownElsewhere, TypeOK, hermes, Presenting
  <1>9. ASSUME NEW r \in Request, PostResponse(r) PROVE TypeOK'
    <2> DEFINE t == [event |-> "resolved", of |-> Match(r), choice |-> settled[r]]
    <2>1. t \in Task BY <1>9 DEF PostResponse, TypeOK, Task, Match
    <2>2. Submit(t) BY <1>9 DEF PostResponse
    <2> HIDE DEF t
    <2>3. queue' \in Seq(Task) /\ Len(queue') <= Depth
      BY <2>1, <2>2, Submits DEF TypeOK
    <2>4. named' \in [Request -> Nat] /\ responses' \in [Request -> Nat]
      BY <1>9 DEF PostResponse, TypeOK
    <2> QED BY <1>9, <2>3, <2>4 DEF PostResponse, DropMatch, TypeOK
  <1>10. ASSUME NEW r \in Request, PushEnds(r) PROVE TypeOK'
    BY <1>10 DEF PushEnds, TypeOK, hermes, dispatcher
  <1>11. ASSUME NEW r \in Request, NEW c \in Scope, TerminalAnswers(r, c)
         PROVE  TypeOK'
    BY <1>11 DEF TerminalAnswers, TypeOK, dispatcher
  <1>12. ASSUME NEW a \in Asker, ListenerCloses(a) PROVE TypeOK'
    BY <1>12 DEF ListenerCloses, TypeOK, hermes, dispatcher, Presenting
  <1>13. ASSUME NEW a \in Asker, NEW c \in Scope, WatchAnswers(a, c) PROVE TypeOK'
    BY <1>13 DEF WatchAnswers, TypeOK, hermes, dispatcher
  <1>14. CASE UNCHANGED vars BY <1>14 DEF vars, TypeOK, hermes, dispatcher
  <1> QED BY <1>1, <1>2, <1>3, <1>4, <1>5, <1>6, <1>7, <1>8, <1>9, <1>10, <1>11,
             <1>12, <1>13, <1>14 DEF Next

LEMMA InitTypes == Init => TypeOK
  <1> SUFFICES ASSUME Init PROVE TypeOK OBVIOUS
  <1>1. queue \in Seq(Task) /\ Len(queue) <= Depth
    BY PluginAssumption DEF Init
  <1> QED BY <1>1 DEF Init, TypeOK

\* Every state of the plugin has its type; the dispatcher's queue never grows
\* past its depth, and what waits in it is a task.
THEOREM PluginTyped == Spec => []TypeOK
  BY InitTypes, Types, PTL DEF Spec

-----------------------------------------------------------------------------
(* The cards.                                                              *)

\* An entry is made once, before anything is reported under its id, and goes
\* with the first report.
Cards == \A r \in Request :
  /\ named[r] <= 1
  /\ thread[r] = "new" => named[r] = 0
  /\ r \in open => thread[r] \in Presenting /\ named[r] = 0

CardInv == TypeOK /\ Cards

LEMMA CardStep == ASSUME CardInv, [Next]_vars PROVE Cards'
  <1> USE DEF CardInv, Presenting
  <1>1. ASSUME NEW r \in Request, Opens(r) PROVE Cards'
    BY <1>1 DEF Opens, Goes, Cards, TypeOK, hermes
  <1>2. ASSUME NEW r \in Request, Asks(r) \/ AskFails(r) \/ SocketTimesOut(r)
        PROVE  Cards'
    BY <1>2 DEF Asks, AskFails, SocketTimesOut, Goes, Cards, TypeOK, hermes
  <1>3. ASSUME NEW r \in Request, Responds(r) \/ Raises(r) PROVE Cards'
    BY <1>3 DEF Responds, Raises, Closes, Goes, Cards, TypeOK, hermes
  <1>4. ASSUME NEW r \in Request, ShownElsewhere(r) PROVE Cards'
    BY <1>4 DEF ShownElsewhere, Cards, TypeOK, hermes
  <1>5. ASSUME NEW r \in Request, PostResponse(r) PROVE Cards'
    <2>1. CASE r \in open /\ Match(r) = r
      <3>1. named' = [named EXCEPT ![r] = @ + 1] /\ open' = open \ {r}
            /\ thread' = thread /\ named[r] = 0 /\ thread[r] # "new"
        BY <1>5, <2>1 DEF PostResponse, DropMatch, Cards
      <3> QED BY <3>1 DEF Cards, TypeOK
    <2>2. CASE ~(r \in open /\ Match(r) = r)
      <3>1. Match(r) = NoRequest BY <2>2 DEF Match
      <3>2. Match(r) # r BY <3>1, PluginAssumption
      <3> QED BY <1>5, <3>1, <3>2 DEF PostResponse, DropMatch, Cards
    <2> QED BY <2>1, <2>2
  <1>6. ASSUME NEW a \in Asker, ListenerCloses(a) PROVE Cards'
    BY <1>6 DEF ListenerCloses, Cards, TypeOK, hermes
  <1>7. CASE UNCHANGED <<thread, open, named>> BY <1>7 DEF Cards
  <1> QED
    BY <1>1, <1>2, <1>3, <1>4, <1>5, <1>6, <1>7 DEF Next, Gets, Posts, Tick,
       PushEnds, TerminalAnswers, WatchAnswers, vars, hermes

\* However many surfaces answer, and however their hooks and the thread that
\* presents the request interleave, its card is resolved at most once and its
\* entry never outlives the presentation.
THEOREM PluginOneResolutionPerCard == Spec => []OneResolutionPerCard
  <1>1. Init => CardInv
    BY InitTypes DEF Init, CardInv, Cards
  <1>2. CardInv /\ [Next]_vars => CardInv' BY Types, CardStep DEF CardInv
  <1>3. CardInv => OneResolutionPerCard
    BY DEF CardInv, Cards, OneResolutionPerCard
  <1> QED BY <1>1, <1>2, <1>3, PTL DEF Spec

-----------------------------------------------------------------------------
(* The answers.                                                            *)

Outcome == Scope \union {"open", "no_answer", "unavailable", "dropped"}

\* What the listener keeps: before an ask is closed it has told nothing, and a
\* choice it has told is the one that was decided.
Listener ==
  /\ status \in [Asker -> {"idle", "open", "closed"}]
  /\ decision \in [Asker -> [by : {"nobody", "watch", "elsewhere"},
                             choice : Scope \union {"no_answer"}]]
  /\ outcome \in [Asker -> Outcome]
  /\ \A a \in Asker :
       /\ status[a] # "closed" => outcome[a] = "open"
       /\ outcome[a] \in Scope => decision[a].choice = outcome[a]

Listens ==
  \/ UNCHANGED listener
  \/ \E a \in Asker :
       \/ Contract!Submit(a) \/ Contract!Reject(a) \/ Contract!Close(a)
       \/ \E by \in {"watch", "elsewhere"}, c \in Scope : Contract!Take(a, by, c)

\* The listener moves only as the contract lets it.
LEMMA ListenerSteps == ASSUME TypeOK, [Next]_vars PROVE Listens
  <1> USE Askers
  <1>1. CASE Posts
    <2>1. task \in Task BY <1>1 DEF Posts, TypeOK
    <2>2. task.event = "requested" => Copy(task.of) \in Asker BY <2>1, Tasks
    <2>3. Settles(task) => Ask(task.of) \in Asker /\ task.choice \in Scope
      BY <2>1, Tasks DEF Settles
    <2> HIDE DEF Ask, Copy
    <2>4. CASE Settles(task) /\ Contract!Take(Ask(task.of), "elsewhere", task.choice)
      BY <2>3, <2>4 DEF Listens
    <2>5. CASE /\ task.event = "requested"
               /\ Contract!Submit(Copy(task.of)) \/ Contract!Reject(Copy(task.of))
      BY <2>2, <2>5 DEF Listens
    <2>6. CASE UNCHANGED listener BY <2>6 DEF Listens
    <2> QED BY <1>1, <2>4, <2>5, <2>6 DEF Posts
  <1>2. ASSUME NEW r \in Request, Asks(r) \/ AskFails(r) PROVE Listens
    <2>1. Ask(r) \in Asker OBVIOUS
    <2> HIDE DEF Ask
    <2> QED BY <1>2, <2>1 DEF Asks, AskFails, Listens
  <1>3. ASSUME NEW a \in Asker, NEW c \in Scope, WatchAnswers(a, c) PROVE Listens
    BY <1>3 DEF WatchAnswers, Listens
  <1>4. ASSUME NEW a \in Asker, ListenerCloses(a) PROVE Listens
    BY <1>4 DEF ListenerCloses, Listens
  <1>5. CASE UNCHANGED listener BY <1>5 DEF Listens
  <1> QED
    BY <1>1, <1>2, <1>3, <1>4, <1>5 DEF Next, Gets, Tick, Opens, SocketTimesOut,
       Responds, Raises, ShownElsewhere, PostResponse, PushEnds,
       TerminalAnswers, vars

\* What is told stays told, unless it is what a refused caller never heard.
LEMMA ListenerStep ==
  ASSUME Listener, Listens
  PROVE  /\ Listener'
         /\ \A a \in Asker : outcome[a] \in Scope => outcome'[a] = outcome[a]
  <1>0. Scope \cap {"open", "none", "no_answer", "unavailable", "dropped"} = {}
    BY PluginAssumption
  <1>1. CASE UNCHANGED listener BY <1>1 DEF Listener, listener
  <1>2. ASSUME NEW a \in Asker, Contract!Submit(a)
        PROVE  /\ Listener'
               /\ \A b \in Asker : outcome[b] \in Scope => outcome'[b] = outcome[b]
    BY <1>2 DEF Contract!Submit, Listener
  <1>3. ASSUME NEW a \in Asker, Contract!Reject(a)
        PROVE  /\ Listener'
               /\ \A b \in Asker : outcome[b] \in Scope => outcome'[b] = outcome[b]
    BY <1>0, <1>3 DEF Contract!Reject, Listener, Outcome
  <1>4. ASSUME NEW a \in Asker, Contract!Close(a)
        PROVE  /\ Listener'
               /\ \A b \in Asker : outcome[b] \in Scope => outcome'[b] = outcome[b]
    <2>1. PICK o \in {"no_answer", "unavailable", "dropped", decision[a].choice} :
            outcome' = [outcome EXCEPT ![a] = o]
      BY <1>4 DEF Contract!Close, Contract!Refusals
    <2>2. o \in Outcome /\ (o \in Scope => decision[a].choice = o)
      BY <1>0, <2>1 DEF Listener, Outcome
    <2>3. /\ status' = [status EXCEPT ![a] = "closed"] /\ decision' = decision
          /\ outcome[a] \notin Scope
      BY <1>0, <1>4 DEF Contract!Close, Listener
    <2> QED BY <2>1, <2>2, <2>3 DEF Listener
  <1>5. ASSUME NEW a \in Asker, NEW by \in {"watch", "elsewhere"}, NEW c \in Scope,
               Contract!Take(a, by, c)
        PROVE  /\ Listener'
               /\ \A b \in Asker : outcome[b] \in Scope => outcome'[b] = outcome[b]
    <2> DEFINE d == [by |-> by, choice |-> c]
    <2>1. d \in [by : {"nobody", "watch", "elsewhere"},
                 choice : Scope \union {"no_answer"}]
      OBVIOUS
    <2>2. /\ decision' = [decision EXCEPT ![a] = d] /\ UNCHANGED <<status, outcome>>
          /\ outcome[a] \notin Scope
      BY <1>0, <1>5 DEF Contract!Take, Listener
    <2> HIDE DEF d
    <2> QED BY <2>1, <2>2 DEF Listener
  <1> QED BY <1>1, <1>2, <1>3, <1>4, <1>5 DEF Listens

\* A thread that has answered Hermes did so with what its ask was told.
Answered == \A r \in Request : thread[r] = "responded" =>
  /\ outcome[Ask(r)] \in Scope
  /\ Allowed[r] # {} => outcome[Ask(r)] \in Allowed[r]

AnswerInv == TypeOK /\ Listener /\ Answered

LEMMA AnswerStep == ASSUME AnswerInv, [Next]_vars PROVE AnswerInv'
  <1>1. TypeOK' BY Types DEF AnswerInv
  <1>2. /\ Listener'
        /\ \A a \in Asker : outcome[a] \in Scope => outcome'[a] = outcome[a]
    BY ListenerSteps, ListenerStep DEF AnswerInv
  <1>3. ASSUME NEW r \in Request, thread'[r] = "responded", thread[r] # "responded"
        PROVE  Responds(r)
    <2> USE DEF AnswerInv
    <2>1. ASSUME NEW q \in Request,
                 Opens(q) \/ Asks(q) \/ AskFails(q) \/ SocketTimesOut(q)
                   \/ Raises(q) \/ ShownElsewhere(q)
          PROVE  FALSE
      BY <1>3, <2>1 DEF Opens, Asks, AskFails, SocketTimesOut, Raises,
         ShownElsewhere, Goes, TypeOK
    <2>2. ASSUME NEW q \in Request, Responds(q) PROVE Responds(r)
      <3>1. q = r BY <1>3, <2>2 DEF Responds, Goes, TypeOK
      <3> QED BY <2>2, <3>1
    <2>3. ASSUME NEW a \in Asker, ListenerCloses(a) PROVE FALSE
      BY <1>3, <2>3 DEF ListenerCloses, TypeOK
    <2> QED
      BY <1>3, <2>1, <2>2, <2>3 DEF Next, Gets, Posts, Tick, PostResponse,
         PushEnds, TerminalAnswers, WatchAnswers, vars
  <1>4. ASSUME NEW r \in Request, thread'[r] = "responded"
        PROVE  /\ outcome'[Ask(r)] \in Scope
               /\ Allowed[r] # {} => outcome'[Ask(r)] \in Allowed[r]
    <2>1. /\ outcome[Ask(r)] \in Scope
          /\ Allowed[r] # {} => outcome[Ask(r)] \in Allowed[r]
      <3>1. CASE thread[r] = "responded" BY <3>1 DEF AnswerInv, Answered
      <3>2. CASE thread[r] # "responded"
        <4>1. Responds(r) BY <1>3, <1>4, <3>2
        <4> QED BY <4>1 DEF Responds, Usable, Choice
      <3> QED BY <3>1, <3>2
    <2>2. Ask(r) \in Asker BY Askers
    <2> QED BY <2>1, <2>2, <1>2
  <1> QED BY <1>1, <1>2, <1>4 DEF AnswerInv, Answered

LEMMA InitAnswers == Init => AnswerInv
  <1> SUFFICES ASSUME Init PROVE AnswerInv OBVIOUS
  <1>1. /\ status = [a \in Asker |-> "idle"] /\ outcome = [a \in Asker |-> "open"]
        /\ decision = [a \in Asker |-> [by |-> "nobody", choice |-> "no_answer"]]
    BY DEF Init, Contract!Init, Contract!Undecided
  <1>2. "open" \notin Scope BY PluginAssumption
  <1>3. Listener BY <1>1, <1>2 DEF Listener, Outcome
  <1>4. Answered BY DEF Init, Answered
  <1> QED BY <1>3, <1>4, InitTypes DEF AnswerInv

\* Hermes hears from the transport only what a human decided for that very
\* request, and only a choice that it offered.
THEOREM PluginAnsweredByAHuman == Spec => []AnsweredByAHuman
  <1>1. AnswerInv => AnsweredByAHuman
    <2> SUFFICES ASSUME AnswerInv, NEW r \in Request, thread[r] = "responded"
                 PROVE  /\ decision[Ask(r)].choice = Choice(r)
                        /\ Allowed[r] # {} => Choice(r) \in Allowed[r]
      BY DEF AnsweredByAHuman
    <2>1. Ask(r) \in Asker BY Askers
    <2>2. /\ outcome[Ask(r)] \in Scope
          /\ Allowed[r] # {} => outcome[Ask(r)] \in Allowed[r]
      BY DEF AnswerInv, Answered
    <2>3. decision[Ask(r)].choice = outcome[Ask(r)]
      BY <2>1, <2>2 DEF AnswerInv, Listener
    <2> QED BY <2>2, <2>3 DEF Choice
  <1> QED BY <1>1, InitAnswers, AnswerStep, PTL DEF Spec

\* The transport and the hooks ask for no more than the contract grants, and so
\* what was decided for an ask or its copy, and what was told, is final.
THEOREM PluginKeepsContract ==
  Spec => Contract!Spec /\ Contract!OnceAndForAll /\ []Contract!ToldWhatWasDecided
  <1>1. Init => Contract!Init BY DEF Init
  <1>2. TypeOK /\ [Next]_vars => [Contract!Next]_(Contract!vars)
    <2> SUFFICES ASSUME TypeOK, [Next]_vars
                 PROVE  Contract!Next \/ UNCHANGED Contract!vars
      OBVIOUS
    <2>1. Listens BY ListenerSteps
    <2> QED BY <2>1
      DEF Listens, listener, Contract!Next, Contract!Step, Contract!vars
  <1>3. Spec => Contract!Spec
    BY <1>1, <1>2, PluginTyped, PTL DEF Spec, Contract!Spec
  <1> QED BY <1>3, Contract!ContractIsFinal, PTL

-----------------------------------------------------------------------------
(* Time.                                                                   *)

\* A parked ask has an open card for as long as its push and its own timeout
\* last, and no other ask has one.
Held == \A r \in Request :
  /\ thread[r] \in {"new", "opened"} =>
       status[Ask(r)] = "idle" /\ age[r] = 0 /\ wait[r] = NoTime
  /\ status[Ask(r)] = "open" =>
       /\ thread[r] = "asking"
       /\ wait[r] = NoTime => age[r] <= PushBound
       /\ wait[r] # NoTime => wait[r] <= PushBound /\ age[r] <= wait[r] + Timeout

HeldInv == AnswerInv /\ Held

\* Assumed of the network: a push to the watches ends before ASK_GRACE does.
Prompt == PushBound < Grace

LEMMA HeldStep == ASSUME Prompt, HeldInv, [Next]_vars PROVE Held'
  <1> USE DEF HeldInv, AnswerInv
  <1>0. /\ Timeout \in Nat /\ Grace \in Nat /\ PushBound \in Nat /\ NoTime \notin Nat
        /\ PushBound < Grace
    BY PluginAssumption DEF Prompt
  <1> DEFINE HeldFor(r) ==
        /\ thread[r] \in {"new", "opened"} =>
             status[Ask(r)] = "idle" /\ age[r] = 0 /\ wait[r] = NoTime
        /\ status[Ask(r)] = "open" =>
             /\ thread[r] = "asking"
             /\ wait[r] = NoTime => age[r] <= PushBound
             /\ wait[r] # NoTime =>
                  wait[r] <= PushBound /\ age[r] <= wait[r] + Timeout
  <1>a. \A r \in Request : HeldFor(r) BY DEF Held
  \* A step that touches one request only.
  <1>b. ASSUME NEW r \in Request, HeldFor(r)',
               \A q \in Request \ {r} :
                 /\ thread'[q] = thread[q] /\ age'[q] = age[q]
                 /\ wait'[q] = wait[q] /\ status'[Ask(q)] = status[Ask(q)]
        PROVE  Held'
    <2> HIDE DEF Ask
    <2>1. ASSUME NEW q \in Request PROVE HeldFor(q)'
      BY <1>a, <1>b, <2>1
    <2> QED BY <2>1 DEF Held
  <1>c. \A r, q \in Request : q # r => Ask(q) # Ask(r) BY Askers
  <1>d. \A r \in Request : Ask(r) \in Asker BY Askers
  <1> HIDE DEF Ask
  <1>1. ASSUME NEW r \in Request, Opens(r) PROVE Held'
    <2>1. HeldFor(r)' BY <1>1, <1>a DEF Opens, Goes, TypeOK, listener
    <2> QED BY <1>1, <1>b, <2>1 DEF Opens, Goes, TypeOK, listener
  <1>2. ASSUME NEW r \in Request, Asks(r) PROVE Held'
    <2>1. /\ thread' = [thread EXCEPT ![r] = "asking"] /\ thread[r] = "opened"
          /\ status' = [status EXCEPT ![Ask(r)] = "open"]
          /\ UNCHANGED <<age, wait>>
      BY <1>2 DEF Asks, Goes, Contract!Submit
    <2>2. HeldFor(r)' BY <1>0, <1>a, <1>d, <2>1 DEF TypeOK, Listener
    <2>3. ASSUME NEW q \in Request \ {r}
          PROVE  /\ thread'[q] = thread[q] /\ age'[q] = age[q]
                 /\ wait'[q] = wait[q] /\ status'[Ask(q)] = status[Ask(q)]
      <3>1. Ask(q) # Ask(r) /\ Ask(q) \in Asker BY <1>c, <1>d
      <3> QED BY <2>1, <3>1 DEF TypeOK, Listener
    <2> QED BY <1>b, <2>2, <2>3
  <1>3. ASSUME NEW r \in Request, AskFails(r) PROVE Held'
    <2>1. /\ thread' = [thread EXCEPT ![r] = "returned"] /\ thread[r] = "opened"
          /\ \/ status' = [status EXCEPT ![Ask(r)] = "closed"]
             \/ status' = status
          /\ UNCHANGED <<age, wait>>
      BY <1>3 DEF AskFails, Goes, Contract!Reject, listener
    <2>2. HeldFor(r)' BY <1>a, <1>d, <2>1 DEF TypeOK, Listener
    <2>3. \A q \in Request \ {r} : status'[Ask(q)] = status[Ask(q)]
      BY <1>c, <1>d, <2>1 DEF Listener
    <2> QED BY <1>b, <2>1, <2>2, <2>3 DEF TypeOK
  <1>4. ASSUME NEW r \in Request, SocketTimesOut(r) PROVE Held'
    <2>1. /\ thread' = [thread EXCEPT ![r] = "returned"]
          /\ age[r] >= Timeout + Grace /\ UNCHANGED <<age, wait, status>>
      BY <1>4 DEF SocketTimesOut, Goes, Budget, listener
    <2>2. age[r] \in Nat /\ (wait[r] # NoTime => wait[r] \in Nat) BY DEF TypeOK
    <2>3. status[Ask(r)] # "open" BY <1>0, <1>a, <2>1, <2>2
    <2>4. HeldFor(r)' BY <1>a, <2>1, <2>3 DEF TypeOK
    <2> QED BY <1>b, <2>1, <2>4 DEF TypeOK
  <1>5. ASSUME NEW r \in Request, Responds(r) \/ Raises(r) PROVE Held'
    <2>1. /\ \E to \in {"responded", "raised"} : thread' = [thread EXCEPT ![r] = to]
          /\ thread[r] = "returned" /\ status' = status
          /\ age' = [age EXCEPT ![r] = 0] /\ wait' = [wait EXCEPT ![r] = NoTime]
      BY <1>5 DEF Responds, Raises, Goes, Forgets, listener
    <2>2. HeldFor(r)' BY <1>a, <2>1 DEF TypeOK
    <2> QED BY <1>b, <2>1, <2>2 DEF TypeOK
  <1>6. ASSUME NEW r \in Request, ShownElsewhere(r) PROVE Held'
    <2>1. /\ thread' = [thread EXCEPT ![r] = "terminal"]
          /\ thread[r] \in {"raised", "new"} /\ UNCHANGED <<age, wait, status>>
      BY <1>6 DEF ShownElsewhere, listener
    <2>2. HeldFor(r)' BY <1>a, <2>1 DEF TypeOK
    <2> QED BY <1>b, <2>1, <2>2 DEF TypeOK
  <1>7. ASSUME NEW r \in Request, PushEnds(r) PROVE Held'
    <2>1. /\ wait' = [wait EXCEPT ![r] = age[r]] /\ wait[r] = NoTime
          /\ status[Ask(r)] = "open" /\ UNCHANGED <<thread, age, status>>
      BY <1>7 DEF PushEnds, listener
    <2>2. age[r] \in Nat /\ wait'[r] = age[r] BY <2>1 DEF TypeOK
    <2>3. HeldFor(r)' BY <1>0, <1>a, <2>1, <2>2
    <2> QED BY <1>b, <2>1, <2>3 DEF TypeOK
  <1>8. CASE Tick
    <2>1. /\ age' = [r \in Request |-> IF thread[r] = "asking" THEN age[r] + 1
                                                             ELSE age[r]]
          /\ \A r \in Request : thread[r] = "asking" => ~Due(r)
          /\ UNCHANGED <<thread, wait, status>>
      BY <1>8 DEF Tick, listener
    <2>2. ASSUME NEW r \in Request PROVE HeldFor(r)'
      <3>1. age[r] \in Nat /\ (wait[r] # NoTime => wait[r] \in Nat) BY DEF TypeOK
      <3>2. CASE status[Ask(r)] = "open"
        <4>1. thread[r] = "asking" /\ ~Due(r) BY <1>a, <2>1, <3>2
        <4>2. IF wait[r] = NoTime THEN age[r] < PushBound
                                  ELSE age[r] < wait[r] + Timeout
          BY <1>0, <3>1, <3>2, <4>1 DEF Due
        <4> QED BY <1>0, <1>a, <2>1, <3>1, <4>1, <4>2
      <3>3. CASE status[Ask(r)] # "open" BY <1>a, <2>1, <3>3
      <3> QED BY <3>2, <3>3
    <2> QED BY <2>2 DEF Held
  <1>9. CASE Posts
    <2>1. \A r \in Request : status'[Ask(r)] = status[Ask(r)]
      <3>1. task \in Task BY <1>9 DEF Posts, TypeOK
      <3>2. \/ status' = status
            \/ \E q \in Request, s \in {"open", "closed"} :
                 status' = [status EXCEPT ![Copy(q)] = s]
        <4> HIDE DEF Copy
        <4>1. CASE task.event = "requested"
          <5>1. task.of \in Request BY <3>1, <4>1, Tasks
          <5> QED
            BY <1>9, <5>1 DEF Posts, Contract!Submit, Contract!Reject,
               Contract!Take, listener
        <4>2. CASE task.event # "requested"
          BY <1>9, <4>2 DEF Posts, Contract!Take, listener
        <4> QED BY <4>1, <4>2
      <3>3. \A r, q \in Request : Ask(r) # Copy(q) BY DEF Ask
      <3> HIDE DEF Copy
      <3> QED BY <1>d, <3>2, <3>3 DEF Listener
    <2>2. UNCHANGED <<thread, age, wait>> BY <1>9 DEF Posts
    <2>3. ASSUME NEW r \in Request PROVE HeldFor(r)' BY <1>a, <2>1, <2>2
    <2> QED BY <2>3 DEF Held
  <1>10. ASSUME NEW a \in Asker, ListenerCloses(a) PROVE Held'
    <2>1. /\ status' = [status EXCEPT ![a] = "closed"] /\ UNCHANGED <<age, wait>>
          /\ status[a] = "open"
      BY <1>10 DEF ListenerCloses, Contract!Close
    <2>2. PICK heard \in BOOLEAN :
            thread' = [r \in Request |->
              IF a = Ask(r) /\ thread[r] = "asking" /\ heard THEN "returned"
                                                            ELSE thread[r]]
      BY <1>10 DEF ListenerCloses
    <2>3. ASSUME NEW r \in Request PROVE HeldFor(r)'
      <3>1. CASE a = Ask(r)
        BY <1>a, <1>d, <2>1, <2>2, <3>1 DEF Listener
      <3>2. CASE a # Ask(r)
        BY <1>a, <1>d, <2>1, <2>2, <3>2 DEF Listener
      <3> QED BY <3>1, <3>2
    <2> QED BY <2>3 DEF Held
  <1>11. CASE UNCHANGED <<thread, age, wait, status>> BY <1>11 DEF Held
  <1> QED
    BY <1>1, <1>2, <1>3, <1>4, <1>5, <1>6, <1>7, <1>8, <1>9, <1>10, <1>11
       DEF Next, Gets, PostResponse, TerminalAnswers, WatchAnswers,
           Contract!Take, vars, listener

LEMMA HeldStepInv == ASSUME Prompt, HeldInv, [Next]_vars PROVE HeldInv'
  BY HeldStep, AnswerStep DEF HeldInv

LEMMA InitHeld == Init => HeldInv
  <1> SUFFICES ASSUME Init PROVE Held BY InitAnswers DEF HeldInv
  <1>1. \A r \in Request : status[Ask(r)] = "idle"
    BY Askers DEF Init, Contract!Init
  <1> QED BY <1>1 DEF Init, Held

\* Where a push ends before the grace does: no socket gives up an ask that the
\* listener still holds open.
THEOREM PluginListenerDecides == ASSUME Prompt PROVE Spec => []ListenerDecides
  <1>1. HeldInv => ListenerDecides BY DEF HeldInv, Held, ListenerDecides
  <1> QED BY <1>1, InitHeld, HeldStepInv, PTL DEF Spec

\* A copy is posted, or on its way, only of what Hermes shows itself.
Copied ==
  /\ \A i \in 1..Len(queue) : queue[i].event = "requested" =>
       thread[queue[i].of] = "terminal"
  /\ task # NoTask /\ task.event = "requested" => thread[task.of] = "terminal"
  /\ \A r \in Request : status[Copy(r)] # "idle" => thread[r] = "terminal"

CopyInv == HeldInv /\ Copied

LEMMA CopyStep == ASSUME HeldInv, Copied, [Next]_vars PROVE Copied'
  <1> USE DEF HeldInv, AnswerInv
  <1> HIDE DEF Copy, Ask
  <1>a. /\ \A i \in 1..Len(queue) : queue[i] \in Task /\
              (queue[i].event = "requested" => queue[i].of \in Request)
        /\ task # NoTask => /\ task \in Task
                            /\ task.event = "requested" => task.of \in Request
    <2>1. \A i \in 1..Len(queue) : queue[i] \in Task BY DEF TypeOK
    <2>2. task # NoTask => task \in Task BY DEF TypeOK
    <2> QED BY <2>1, <2>2, Tasks
  <1>b. ASSUME \A r \in Request : thread[r] = "terminal" => thread'[r] = "terminal",
               UNCHANGED dispatcher,
               \A r \in Request : status'[Copy(r)] # "idle" => status[Copy(r)] # "idle"
        PROVE  Copied'
    BY <1>a, <1>b DEF Copied, dispatcher
  <1>c. ASSUME \A a \in Asker : status'[a] = "idle" \/ status[a] # "idle"
        PROVE  \A r \in Request : status'[Copy(r)] # "idle" => status[Copy(r)] # "idle"
    BY <1>c, Askers
  <1>1. CASE Gets
    <2>1. /\ task' = Head(queue) /\ queue' = Tail(queue) /\ queue # <<>>
          /\ UNCHANGED <<thread, status>>
      BY <1>1 DEF Gets, listener
    <2>2. /\ queue \in Seq(Task) /\ Len(queue) \in Nat \ {0}
          /\ task' = queue[1] /\ Len(queue') = Len(queue) - 1
          /\ \A i \in 1..Len(queue') : queue'[i] = queue[i + 1]
      BY <2>1, EmptySeq DEF TypeOK
    <2>3. \A i \in 1..Len(queue') : i + 1 \in 1..Len(queue) BY <2>2
    <2> QED BY <2>1, <2>2, <2>3 DEF Copied
  <1>2. CASE Posts
    <2>1. task' = NoTask /\ UNCHANGED <<thread, queue>> BY <1>2 DEF Posts
    <2>2. ASSUME NEW r \in Request, status'[Copy(r)] # "idle"
          PROVE  thread[r] = "terminal"
      <3>1. CASE status[Copy(r)] # "idle" BY <3>1 DEF Copied
      <3>2. CASE status[Copy(r)] = "idle"
        <4>1. status' # status BY <2>2, <3>2
        <4>2. /\ task # NoTask /\ task.event = "requested"
              /\ \E s \in {"open", "closed"} :
                   status' = [status EXCEPT ![Copy(task.of)] = s]
          BY <1>2, <4>1 DEF Posts, Contract!Submit, Contract!Reject,
             Contract!Take, listener
        <4>3. Copy(task.of) = Copy(r)
          BY <2>2, <3>2, <4>2, Askers DEF Listener
        <4>4. task.of = r BY <4>3, Askers
        <4> QED BY <4>2, <4>4 DEF Copied
      <3> QED BY <3>1, <3>2
    <2> QED BY <2>1, <2>2 DEF Copied
  <1>3. ASSUME NEW r \in Request, ShownElsewhere(r) PROVE Copied'
    <2> DEFINE t == [event |-> "requested", of |-> r]
    <2>1. /\ thread' = [thread EXCEPT ![r] = "terminal"] /\ Submit(t)
          /\ UNCHANGED <<task, status>>
      BY <1>3 DEF ShownElsewhere, Reported, listener
    <2>2. t \in Task /\ t.of = r BY DEF Task
    <2>3. \A q \in Request : thread'[q] = IF q = r THEN "terminal" ELSE thread[q]
      BY <2>1 DEF TypeOK
    <2> HIDE DEF t
    <2>4. \A i \in 1..Len(queue') : queue'[i] # t =>
            i \in 1..Len(queue) /\ queue'[i] = queue[i]
      BY <2>1, <2>2, Submits DEF TypeOK
    <2>5. ASSUME NEW i \in 1..Len(queue'), queue'[i].event = "requested"
          PROVE  thread'[queue'[i].of] = "terminal"
      <3>1. CASE queue'[i] = t BY <2>2, <2>3, <3>1
      <3>2. CASE queue'[i] # t
        <4>1. i \in 1..Len(queue) /\ queue'[i] = queue[i] BY <2>4, <3>2
        <4> QED BY <4>1, <1>a, <2>3, <2>5 DEF Copied
      <3> QED BY <3>1, <3>2
    <2> QED BY <1>a, <2>1, <2>3, <2>5 DEF Copied
  <1>4. ASSUME NEW r \in Request, PostResponse(r) PROVE Copied'
    <2> DEFINE t == [event |-> "resolved", of |-> Match(r), choice |-> settled[r]]
    <2>1. Submit(t) /\ UNCHANGED <<thread, task, status>>
      BY <1>4 DEF PostResponse, listener
    <2>2. t \in Task BY <1>4 DEF PostResponse, TypeOK, Task, Match
    <2>3. t.event # "requested" OBVIOUS
    <2> HIDE DEF t
    <2>4. \A i \in 1..Len(queue') : queue'[i] # t =>
            i \in 1..Len(queue) /\ queue'[i] = queue[i]
      BY <2>1, <2>2, Submits DEF TypeOK
    <2> QED BY <2>1, <2>3, <2>4 DEF Copied
  <1>5. ASSUME NEW r \in Request,
               Opens(r) \/ Asks(r) \/ AskFails(r) \/ SocketTimesOut(r)
                 \/ Responds(r) \/ Raises(r)
        PROVE  Copied'
    <2>1. /\ \E to : thread' = [thread EXCEPT ![r] = to]
          /\ thread[r] # "terminal" /\ UNCHANGED dispatcher
      BY <1>5 DEF Opens, Asks, AskFails, SocketTimesOut, Responds, Raises, Goes,
         Reported, dispatcher
    <2>2. \/ status' = status
          \/ \E s : status' = [status EXCEPT ![Ask(r)] = s]
      BY <1>5 DEF Opens, Asks, AskFails, SocketTimesOut, Responds, Raises,
         Contract!Submit, Contract!Reject, listener
    <2>3. \A q \in Request : Copy(q) # Ask(r) /\ Copy(q) \in Asker BY Askers
    <2>4. \A q \in Request : status'[Copy(q)] = status[Copy(q)]
      BY <2>2, <2>3 DEF Listener
    <2>5. \A q \in Request : thread[q] = "terminal" => thread'[q] = "terminal"
      BY <2>1 DEF TypeOK
    <2> QED BY <1>b, <2>1, <2>4, <2>5
  <1>6. ASSUME NEW a \in Asker, ListenerCloses(a) PROVE Copied'
    <2>1. /\ status' = [status EXCEPT ![a] = "closed"] /\ status[a] = "open"
          /\ UNCHANGED dispatcher
      BY <1>6 DEF ListenerCloses, Contract!Close
    <2>2. \A q \in Request : thread[q] = "terminal" => thread'[q] = "terminal"
      BY <1>6 DEF ListenerCloses
    <2>3. \A b \in Asker : status'[b] = "idle" \/ status[b] # "idle"
      BY <2>1 DEF Listener
    <2> QED BY <1>b, <1>c, <2>1, <2>2, <2>3
  <1>7. CASE UNCHANGED <<thread, dispatcher, status>>
    BY <1>7, <1>b
  <1> QED
    BY <1>1, <1>2, <1>3, <1>4, <1>5, <1>6, <1>7
       DEF Next, Tick, PushEnds, TerminalAnswers, WatchAnswers,
           Contract!Take, vars, listener

\* Where a push ends before the grace does: no approval is on the wrist twice,
\* once to be answered and once as a copy.
THEOREM PluginNoDuplicateCard == ASSUME Prompt PROVE Spec => []NoDuplicateCard
  <1>1. Init => CopyInv
    <2> SUFFICES ASSUME Init PROVE Copied BY InitHeld DEF CopyInv
    <2>1. \A r \in Request : status[Copy(r)] = "idle"
      BY Askers DEF Init, Contract!Init
    <2>2. Len(queue) = 0 /\ task = NoTask BY EmptySeq DEF Init
    <2> QED BY <2>1, <2>2 DEF Copied
  <1>2. CopyInv /\ [Next]_vars => CopyInv' BY HeldStepInv, CopyStep DEF CopyInv
  <1>3. CopyInv => NoDuplicateCard
    <2> HIDE DEF Ask, Copy
    <2> QED BY DEF CopyInv, HeldInv, Held, Copied, NoDuplicateCard
  <1> QED BY <1>1, <1>2, <1>3, PTL DEF Spec
=============================================================================
