--------------------------- MODULE ApprovalPlugin ---------------------------
(***************************************************************************)
(* Approvals in a process that has no watch adapter of its own             *)
(* (bridge/hermes_watch/plugin.py, client.py): the transport that parks a  *)
(* worker thread on one HTTP request, the hooks Hermes calls on its own    *)
(* threads, and the dispatcher thread that posts what the hooks report.    *)
(* The listener at the other end is ApprovalContract, its timers added.    *)
(*                                                                         *)
(* `thread' is how far the presentation of a request has come:             *)
(*                                                                         *)
(*   new        not presented yet                                          *)
(*   opened     entered in _open_approvals, HTTP request not yet there     *)
(*   asking     parked in ask()                                            *)
(*   returned   ask() has returned, the entry is not yet removed           *)
(*   responded  request.respond() was called                               *)
(*   raised     WatchUnavailable: Hermes falls back to its own prompt      *)
(*   terminal   shown by Hermes itself                                     *)
(*                                                                         *)
(* Time is counted in ticks while a thread is parked; what is due happens  *)
(* before the next tick.                                                   *)
(***************************************************************************)
EXTENDS Naturals, Sequences

CONSTANTS
  Request,    \* the approvals Hermes raises
  Transport,  \* those it presents through this transport first
  HasCall,    \* those that name a tool call
  Scope,      \* what a human can decide
  Allowed,    \* Allowed[r]: request.allowed_choices; {} accepts anything
  Depth,      \* QUEUE_DEPTH
  Timeout,    \* request.timeout_seconds
  Grace,      \* ASK_GRACE
  PushBound,  \* how long the listener takes at most to show a prompt
  Responses,  \* bound: Responses[r] response hooks, one per surface
  NoRequest, NoTask, NoTime

ASSUME PluginAssumption ==
  /\ Transport \subseteq Request /\ HasCall \subseteq Request
  /\ Allowed \in [Request -> SUBSET Scope]
  /\ Depth \in Nat /\ Responses \in [Request -> Nat]
  /\ Timeout \in Nat /\ Grace \in Nat /\ PushBound \in Nat
  /\ NoRequest \notin Request /\ NoTime \notin Nat
  /\ Scope \cap {"open", "none", "no_answer", "unavailable", "dropped"} = {}

\* The blocking requests at the listener: what the transport asks, and the
\* copy that the hook posts of a prompt shown elsewhere.
Asker   == Request \X {"ask", "copy"}
Ask(r)  == <<r, "ask">>
Copy(r) == <<r, "copy">>
Menu    == [a \in Asker |-> IF a[2] = "ask" THEN Allowed[a[1]] ELSE {}]

Task == [event : {"requested"}, of : Request]
        \union [event : {"resolved"}, of : Request \union {NoRequest},
                choice : Scope]

ASSUME TaskAssumption == NoTask \notin Task

VARIABLES
  thread,     \* see above
  age,        \* ticks since the HTTP request was sent
  wait,       \* the age at which the listener's own timer started, or NoTime
  open,       \* self._open_approvals
  settled,    \* settled[r]: the decision Hermes acts on, or "open"
  responses,  \* response hooks called so far
  named,      \* history: resolutions reported under the request's id
  queue,      \* the dispatcher's queue
  task,       \* the task its thread is running
  status, decision, outcome  \* ApprovalContract

Contract == INSTANCE ApprovalContract WITH Answers <- Scope

hermes     == <<settled, responses, named>>
dispatcher == <<queue, task>>
listener   == <<status, decision, outcome>>
vars == <<thread, age, wait, open, hermes, dispatcher, listener>>

Init ==
  /\ thread = [r \in Request |-> "new"]
  /\ age = [r \in Request |-> 0]
  /\ wait = [r \in Request |-> NoTime]
  /\ open = {}
  /\ settled = [r \in Request |-> "open"]
  /\ responses = [r \in Request |-> 0] /\ named = [r \in Request |-> 0]
  /\ queue = <<>> /\ task = NoTask
  /\ Contract!Init

-----------------------------------------------------------------------------
(* The dispatcher: one thread, a bounded queue, drop on overflow.          *)

\* Mutant: the queue has no bound.
SubmitAlways(t) == queue' = Append(queue, t)

Submit(t) == queue' = IF Len(queue) < Depth THEN Append(queue, t) ELSE queue

Gets ==
  /\ task = NoTask /\ queue # <<>>
  /\ task' = Head(queue) /\ queue' = Tail(queue)
  /\ UNCHANGED <<thread, age, wait, open, hermes, listener>>

\* A resolution under a known id decides an ask that nobody has decided.
Settles(t) == /\ t.event = "resolved" /\ t.of # NoRequest
              /\ status[Ask(t.of)] = "open"
              /\ decision[Ask(t.of)] = Contract!Undecided

\* post_event: the listener has the task, or the post failed.  A copy is an
\* ask without a menu; its poster does not stay for the answer.
Posts ==
  /\ task # NoTask
  /\ task' = NoTask
  /\ \/ task.event = "requested" /\ Contract!Submit(Copy(task.of))
     \/ task.event = "requested" /\ Contract!Reject(Copy(task.of))
     \/ Settles(task) /\ Contract!Take(Ask(task.of), "elsewhere", task.choice)
     \/ UNCHANGED listener
  /\ UNCHANGED <<thread, age, wait, open, hermes, queue>>

-----------------------------------------------------------------------------
(* present_approval and AdapterClient.ask, on a worker thread of Hermes.   *)

Goes(r, from, to) ==
  thread[r] = from /\ thread' = [thread EXCEPT ![r] = to]

\* Mutant: every prompt is reported, whoever presents it.
ReportedAlways(r, surface) ==
  surface # "" /\ Submit([event |-> "requested", of |-> r])

\* on_pre_approval_request: a prompt this transport presents is not reported.
Reported(r, surface) ==
  IF surface = "transport" THEN UNCHANGED queue
                           ELSE Submit([event |-> "requested", of |-> r])

Opens(r) ==
  /\ r \in Transport
  /\ Goes(r, "new", "opened")
  /\ Reported(r, "transport")
  /\ open' = open \union {r}
  /\ UNCHANGED <<age, wait, hermes, task, listener>>

Asks(r) ==
  /\ Goes(r, "opened", "asking")
  /\ Contract!Submit(Ask(r))
  /\ UNCHANGED <<age, wait, open, hermes, dispatcher>>

\* No listener, no watch to show it on, or a request that cannot be sent.
AskFails(r) ==
  /\ Goes(r, "opened", "returned")
  /\ Contract!Reject(Ask(r)) \/ UNCHANGED listener
  /\ UNCHANGED <<age, wait, open, hermes, dispatcher>>

\* Mutant: the socket gets the caller's budget and no grace.
BudgetWithoutGrace == Timeout

Budget == Timeout + Grace

\* The socket's timeout ends the request; the listener is not told.
SocketTimesOut(r) ==
  /\ age[r] >= Budget
  /\ Goes(r, "asking", "returned")
  /\ UNCHANGED <<age, wait, open, hermes, dispatcher, listener>>

\* What ask() returns to present_approval.
Choice(r) == IF outcome[Ask(r)] \in Scope THEN outcome[Ask(r)] ELSE "none"

\* Mutant: an answer that is not on the menu is passed on.
UsableOffMenu(r) == Choice(r) # "none"

Usable(r) == /\ Choice(r) # "none"
             /\ Allowed[r] # {} => Choice(r) \in Allowed[r]

\* Mutant: the entry is removed only when there is an answer.
ClosesIfUsable(r) == open' = IF Usable(r) THEN open \ {r} ELSE open

Closes(r) == open' = open \ {r}

\* The times of a request that is over do not matter; they are reset so that
\* equal situations are equal states.
Forgets(r) == /\ age' = [age EXCEPT ![r] = 0]
              /\ wait' = [wait EXCEPT ![r] = NoTime]

Responds(r) ==
  /\ Usable(r)
  /\ Goes(r, "returned", "responded")
  /\ Closes(r) /\ Forgets(r)
  /\ settled' = [settled EXCEPT ![r] = IF @ = "open" THEN Choice(r) ELSE @]
  /\ UNCHANGED <<responses, named, dispatcher, listener>>

\* Mutant: without an answer the watch is asked again.
RaisesNever(r) ==
  /\ ~Usable(r)
  /\ Goes(r, "returned", "opened")
  /\ UNCHANGED <<age, wait, open, hermes, dispatcher, listener>>

Raises(r) ==
  /\ ~Usable(r)
  /\ Goes(r, "returned", "raised")
  /\ Closes(r) /\ Forgets(r)
  /\ UNCHANGED <<hermes, dispatcher, listener>>

-----------------------------------------------------------------------------
(* Hermes' other surface, and the two approval hooks.                      *)

\* Hermes shows the prompt itself, at once or when the transport has raised.
ShownElsewhere(r) ==
  /\ thread[r] = IF r \in Transport THEN "raised" ELSE "new"
  /\ thread' = [thread EXCEPT ![r] = "terminal"]
  /\ Reported(r, "terminal")
  /\ UNCHANGED <<age, wait, open, hermes, task, listener>>

TerminalAnswers(r, c) ==
  /\ thread[r] # "new" /\ settled[r] = "open"
  /\ settled' = [settled EXCEPT ![r] = c]
  /\ UNCHANGED <<thread, age, wait, open, responses, named, dispatcher,
                 listener>>

\* The open approval of the same tool call, if there is one.
Match(r) == IF r \in open \cap HasCall THEN r ELSE NoRequest

\* Mutant: the matched entry stays.
DropNothing(r) == r \in Request /\ open' = open

DropMatch(r) == open' = open \ {Match(r)}

\* on_post_approval_response, on whichever surface it was settled.
PostResponse(r) ==
  /\ settled[r] # "open" /\ responses[r] < Responses[r]
  /\ responses' = [responses EXCEPT ![r] = @ + 1]
  /\ named' = IF Match(r) = r THEN [named EXCEPT ![r] = @ + 1] ELSE named
  /\ DropMatch(r)
  /\ Submit([event |-> "resolved", of |-> Match(r), choice |-> settled[r]])
  /\ UNCHANGED <<thread, age, wait, settled, task, listener>>

-----------------------------------------------------------------------------
(* The listener and time.                                                  *)

PushEnds(r) ==
  /\ status[Ask(r)] = "open" /\ wait[r] = NoTime
  /\ wait' = [wait EXCEPT ![r] = age[r]]
  /\ UNCHANGED <<thread, age, open, hermes, dispatcher, listener>>

WatchAnswers(a, c) ==
  /\ Contract!Take(a, "watch", c)
  /\ UNCHANGED <<thread, age, wait, open, hermes, dispatcher>>

\* An ask is answered after its push, with the decision or without one: when
\* its time is up, or before (a listener that stops answers every ask).
MayClose(a) ==
  a[2] = "ask" /\ outcome'[a] \notin {"unavailable", "dropped"} =>
    wait[a[1]] # NoTime

\* The thread returns with the reply; a listener that is gone may leave it
\* without one until its socket times out.
ListenerCloses(a) ==
  /\ Contract!Close(a)
  /\ MayClose(a)
  /\ \E heard \in {TRUE, outcome'[a] # "dropped"} :
       thread' = [r \in Request |->
         IF a = Ask(r) /\ thread[r] = "asking" /\ heard THEN "returned"
                                                       ELSE thread[r]]
  /\ UNCHANGED <<age, wait, open, hermes, dispatcher>>

Due(r) == \/ age[r] >= Budget
          \/ /\ status[Ask(r)] = "open"
             /\ IF wait[r] = NoTime THEN age[r] >= PushBound
                ELSE \/ decision[Ask(r)] # Contract!Undecided
                     \/ age[r] >= wait[r] + Timeout

Tick ==
  LET parked == {r \in Request : thread[r] = "asking"} IN
  /\ parked # {}
  /\ \A r \in parked : ~Due(r)
  /\ age' = [r \in Request |-> IF r \in parked THEN age[r] + 1 ELSE age[r]]
  /\ UNCHANGED <<thread, wait, open, hermes, dispatcher, listener>>

-----------------------------------------------------------------------------

Next ==
  \/ Gets \/ Posts \/ Tick
  \/ \E r \in Request :
       \/ Opens(r) \/ Asks(r) \/ AskFails(r) \/ SocketTimesOut(r)
       \/ Responds(r) \/ Raises(r)
       \/ ShownElsewhere(r) \/ PostResponse(r) \/ PushEnds(r)
       \/ \E c \in Scope : TerminalAnswers(r, c)
  \/ \E a \in Asker : \/ ListenerCloses(a)
                      \/ \E c \in Scope : WatchAnswers(a, c)

\* The worker thread runs on, time passes, and the listener keeps its timers.
Fairness ==
  /\ WF_vars(Tick)
  /\ \A r \in Request : /\ WF_vars(Asks(r) \/ AskFails(r))
                        /\ WF_vars(SocketTimesOut(r))
                        /\ WF_vars(Responds(r) \/ Raises(r))
                        /\ WF_vars(PushEnds(r))
                        /\ WF_vars(ListenerCloses(Ask(r)))

Spec == Init /\ [][Next]_vars /\ Fairness

-----------------------------------------------------------------------------
(* Properties.                                                             *)

Presenting == {"opened", "asking", "returned"}

TypeOK ==
  /\ thread \in [Request -> Presenting \union
                            {"new", "responded", "raised", "terminal"}]
  /\ age \in [Request -> Nat]
  /\ wait \in [Request -> Nat \union {NoTime}]
  /\ open \subseteq Transport
  /\ settled \in [Request -> Scope \union {"open"}]
  /\ responses \in [Request -> Nat]
  /\ named \in [Request -> Nat]
  /\ queue \in Seq(Task) /\ Len(queue) <= Depth
  /\ task \in Task \union {NoTask}

\* The transport answers Hermes only with what a human decided for that very
\* request, on the watch or on another surface, and only with a choice that
\* Hermes offered (plugin.py:290): a resolution reported by the hook is not
\* held to the menu by the listener.
AnsweredByAHuman ==
  \A r \in Request : thread[r] = "responded" =>
    /\ decision[Ask(r)].choice = Choice(r)
    /\ Allowed[r] # {} => Choice(r) \in Allowed[r]

\* Two responses to one request resolve its card at most once
\* (plugin.py:340-342), and an entry that is still there belongs to a
\* thread inside present_approval: no exit of it leaves one behind.
OneResolutionPerCard ==
  \A r \in Request : /\ named[r] <= 1
                     /\ r \in open => thread[r] \in Presenting /\ named[r] = 0

\* One approval is never on the wrist twice, once to be answered and once as
\* a copy without buttons (plugin.py:305-309).
NoDuplicateCard ==
  \A r \in Request :
    ~(status[Ask(r)] = "open" /\ status[Copy(r)] = "open")

\* The listener's timeout decides, not the socket's (client.py:37): a parked
\* thread leaves only with a reply, so no answer is accepted for a caller
\* that has gone.
ListenerDecides ==
  \A r \in Request :
    thread[r] \in {"returned", "responded", "raised"} =>
      status[Ask(r)] # "open"

\* No approval stays silently unanswered: a thread that presents one comes
\* back with an answer or makes Hermes ask itself.
EveryPresentationEnds ==
  \A r \in Request : thread[r] \in Presenting ~> thread[r] \notin Presenting
=============================================================================
