---------------------------- MODULE WatchAdapter ----------------------------
(***************************************************************************)
(* The pending-request registry of HermesWatchAdapter                      *)
(* (bridge/hermes_watch/platform.py): prompts that block on a human, the   *)
(* coroutines that present, answer, expire and cancel them, and the state  *)
(* line shown on the wrist.                                                *)
(*                                                                         *)
(* The adapter runs on one asyncio loop, so everything between two awaits  *)
(* is one step and every await is a point where the other coroutines run.  *)
(* `phase' is where the coroutine that presents a prompt is suspended:     *)
(*                                                                         *)
(*   new     not asked yet                                                 *)
(*   push    inside _push_pending, broadcasting the prompt and the stats   *)
(*   wait    an HTTP request inside wait_for(future)                       *)
(*   late    the timer of wait_for has fired, the task has not yet run     *)
(*   stats   the timeout branch, broadcasting the stats                    *)
(*   parked  an in-gateway prompt whose presenter has returned             *)
(*   done    the presenter has replied or refused                          *)
(*                                                                         *)
(* Time is abstract: overdue[a] says that the deadline of a passed before  *)
(* its presenter was done, or while its entry was still registered.        *)
(***************************************************************************)

CONSTANTS
  HttpAsk,       \* prompts another process posts to /event
  GatewayAsk,    \* prompts Hermes raises inside the gateway process
  Id,            \* the ids a watch sees
  Choice,        \* the answers a human can give
  Link,          \* watch sockets
  Renaming,      \* those whose client may say hello under a second id
  IdOf,          \* IdOf[a]: the id ask a is registered under
  KindOf,        \* KindOf[a]: "approval" or "question"
  Offered,       \* Offered[a]: the menu of ask a; {} accepts anything
  Observed,      \* the lifecycle events the agent reports
  CoLocated,     \* does a plugin publish resolutions on the in-process bus?
  TimerCancels,  \* does an expired wait_for drop a settled result (3.12+)?
  NoAsk          \* a free slot of the registry

Ask == HttpAsk \union GatewayAsk

Waiting == {"waiting_approval", "waiting_input"}
Working == {"thinking", "tool"}
AgentState == Waiting \union Working \union {"idle"}

\* The state each lifecycle event announces, before _resume_after_wait.
StateAfter ==
  [turn_started |-> "thinking", tool_started |-> "tool",
   tool_finished |-> "thinking", turn_ended |-> "idle",
   approval_requested |-> "waiting_approval",
   question_pending |-> "waiting_input",
   session_ended |-> "idle", loop_stopped |-> "idle"]

Settled == Choice \union {"no_answer"}

ASSUME AskAssumption ==
  /\ HttpAsk \cap GatewayAsk = {}
  /\ NoAsk \notin Ask
  /\ IdOf \in [Ask -> Id]
  /\ KindOf \in [Ask -> {"approval", "question"}]

ASSUME ChoiceAssumption ==
  /\ Offered \in [Ask -> SUBSET Choice]
  /\ Choice \cap {"none", "open", "cancelled", "no_answer", "unavailable",
                  "dropped"} = {}

ASSUME EnvironmentAssumption ==
  /\ Observed \subseteq DOMAIN StateAfter
  /\ CoLocated \in BOOLEAN
  /\ TimerCancels \in BOOLEAN
  /\ "" \notin Id
  /\ Renaming \subseteq Link

VARIABLES
  phase,       \* phase[a]: where the presenter of a is suspended
  future,      \* future[a]: the asyncio future of an HTTP ask, or "none"
  reply,       \* reply[a]: what the blocked caller was told, or "open"
  overdue,     \* overdue[a]: has the deadline of a passed?
  pending,     \* self._pending: pending[i] is the ask registered under i
  sockets,     \* sockets of authorized watches whose read loop is running
  links,       \* the authorized members of self._links
  strays,      \* links with an entry under an id their client has given up
  task,        \* task[l]: the resolve() a socket's read loop is inside
  sweep,       \* expired entries the stats loop has yet to sweep
  listener,    \* "up", "closing", "draining" or "down"
  agentState,  \* self._state
  beforeWait,  \* self._state_before_wait
  verdict      \* history: the human decision accepted for each ask

asks  == <<phase, future, reply, overdue, verdict>>
conns == <<sockets, links, strays, task>>
line  == <<agentState, beforeWait>>
vars  == <<asks, pending, conns, sweep, listener, line>>

Idle  == [step |-> "idle", ask |-> NoAsk]
NoOne == [by |-> "nobody", choice |-> "no_answer"]

Init ==
  /\ phase = [a \in Ask |-> "new"]
  /\ future = [a \in Ask |-> "none"]
  /\ reply = [a \in Ask |-> "open"]
  /\ overdue = [a \in Ask |-> FALSE]
  /\ verdict = [a \in Ask |-> NoOne]
  /\ pending = [i \in Id |-> NoAsk]
  /\ sockets = {} /\ links = {} /\ strays = {}
  /\ task = [l \in Link |-> Idle]
  /\ sweep = {}
  /\ listener = "up"
  /\ agentState = "idle" /\ beforeWait = "none"

-----------------------------------------------------------------------------
(* The state line.                                                         *)

\* Mutant: the state before the wait is overwritten by a second wait.
SetStateTwice(s, before) ==
  /\ agentState' = s
  /\ beforeWait' = IF s # agentState /\ s \in Waiting THEN agentState
                                                    ELSE before

\* _set_state with self._state_before_wait = before.
SetState(s, before) ==
  /\ agentState' = s
  /\ beforeWait' = IF s # agentState /\ s \in Waiting /\ before = "none"
                   THEN agentState ELSE before

EnterState(s) == SetState(s, beforeWait)

\* Mutant: no "or idle" when nothing was interrupted.
ResumeNothing == SetState(beforeWait, "none")

ResumeAfterWait ==
  SetState(IF beforeWait = "none" THEN "idle" ELSE beforeWait, "none")

\* The registry.
Without(i) == [j \in Id |-> IF j = i THEN NoAsk ELSE pending[j]]

IsEmpty(registry) == \A i \in Id : registry[i] = NoAsk

ResumeIfNonePending(registry) ==
  IF IsEmpty(registry) THEN ResumeAfterWait
                       ELSE UNCHANGED <<agentState, beforeWait>>

\* Mutant: no check that the future is not done.
SettleAgain(S, value) ==
  future' = [a \in Ask |-> IF a \in S /\ a \in HttpAsk THEN value
                                                      ELSE future[a]]

\* set_result on a future that is not done; any other future is left alone.
Settle(S, value) ==
  future' = [a \in Ask |-> IF a \in S /\ future[a] = "open" THEN value
                                                            ELSE future[a]]

\* History: the human decided c for the ask registered under i.
Decide(i, by, c) ==
  verdict' = [a \in Ask |-> IF i \in Id /\ pending[i] = a /\ c \in Choice
                            THEN [by |-> by, choice |-> c] ELSE verdict[a]]

-----------------------------------------------------------------------------
(* Presenting a prompt: _handle_event, _send_exec_approval_prompt and      *)
(* send_clarify, up to the end of _push_pending.                           *)

WaitState(a) == IF KindOf[a] = "approval" THEN "waiting_approval"
                                          ELSE "waiting_input"

\* A request whose body was still arriving registers even while the runner
\* drains; Hermes calls the adapter's own methods at any time.
CanAsk(a) == a \in HttpAsk => listener # "down"

\* Mutant: the refused prompt stays in the registry.
RefuseKeepingEntry(a) ==
  /\ phase' = [phase EXCEPT ![a] = "done"]
  /\ reply' = IF a \in HttpAsk THEN [reply EXCEPT ![a] = "unavailable"]
                               ELSE reply
  /\ pending' = [pending EXCEPT ![IdOf[a]] = a]

\* An HTTP caller is told 503; Hermes gets SendResult(success=False).
Refuse(a) ==
  /\ phase' = [phase EXCEPT ![a] = "done"]
  /\ reply' = IF a \in HttpAsk THEN [reply EXCEPT ![a] = "unavailable"]
                               ELSE reply
  /\ pending' = Without(IdOf[a])

Prompt(a) ==
  /\ phase[a] = "new" /\ CanAsk(a)
  /\ links # {}
  /\ phase' = [phase EXCEPT ![a] = "push"]
  /\ future' = IF a \in HttpAsk THEN [future EXCEPT ![a] = "open"]
                                ELSE future
  /\ pending' = [pending EXCEPT ![IdOf[a]] = a]
  /\ EnterState(WaitState(a))
  /\ UNCHANGED <<reply, overdue, verdict, conns, sweep, listener>>

\* With no authorized watch nothing is broadcast, so nothing is awaited.
PromptRefused(a) ==
  /\ phase[a] = "new" /\ CanAsk(a)
  /\ links = {}
  /\ Refuse(a)
  /\ EnterState(WaitState(a))
  /\ UNCHANGED <<future, overdue, verdict, conns, sweep, listener>>

PushDone(a) ==
  /\ phase[a] = "push"
  /\ links # {}
  /\ phase' = [phase EXCEPT ![a] = IF a \in HttpAsk THEN "wait" ELSE "parked"]
  /\ UNCHANGED <<future, reply, overdue, verdict, pending, conns, sweep,
                 listener, line>>

\* Every watch left during the push. The answer, if one came, is not looked at.
PushFails(a) ==
  /\ phase[a] = "push"
  /\ links = {}
  /\ Refuse(a)
  /\ UNCHANGED <<future, overdue, verdict, conns, sweep, listener, line>>

-----------------------------------------------------------------------------
(* The HTTP request parked in wait_for.                                    *)

DeadlinePasses(a) ==
  /\ phase[a] # "new" /\ ~overdue[a]
  /\ phase[a] = "done" => pending[IdOf[a]] = a
  /\ overdue' = [overdue EXCEPT ![a] = TRUE]
  /\ UNCHANGED <<phase, future, reply, verdict, pending, conns, sweep,
                 listener, line>>

\* The finally clause pops the id, whoever holds it by now.
Reply(a, value) ==
  /\ phase' = [phase EXCEPT ![a] = "done"]
  /\ reply' = [reply EXCEPT ![a] = value]
  /\ pending' = Without(IdOf[a])

Answered(a) ==
  /\ \/ phase[a] = "wait"
     \/ phase[a] = "late" /\ ~TimerCancels
  /\ future[a] \in Settled
  /\ Reply(a, future[a])
  /\ UNCHANGED <<future, overdue, verdict, conns, sweep, listener, line>>

\* Mutant: await future, without wait_for.
WaitForever(a) == phase[a] = "wait" /\ overdue[a] /\ FALSE

\* wait_for started after _register computed the deadline, so its timer fires
\* after the deadline. Since Python 3.12 it cancels the waiting task outright,
\* which cancels an open future and discards a result the task has yet to
\* pick up; before, the task wakes up and looks at the future first.
TimerFires(a) ==
  /\ phase[a] = "wait" /\ overdue[a]
  /\ phase' = [phase EXCEPT ![a] = "late"]
  /\ future' = IF TimerCancels /\ future[a] = "open"
               THEN [future EXCEPT ![a] = "cancelled"] ELSE future
  /\ UNCHANGED <<reply, overdue, verdict, pending, conns, sweep, listener,
                 line>>

CancelFuture(a) ==
  /\ phase[a] = "late" /\ ~TimerCancels
  /\ future[a] = "open"
  /\ future' = [future EXCEPT ![a] = "cancelled"]
  /\ UNCHANGED <<phase, reply, overdue, verdict, pending, conns, sweep,
                 listener, line>>

\* except TimeoutError: leave the wait, then await the stats broadcast.
GiveUp(a) ==
  /\ phase[a] = "late"
  /\ future[a] = "cancelled" \/ (TimerCancels /\ future[a] \in Settled)
  /\ phase' = [phase EXCEPT ![a] = "stats"]
  /\ pending' = Without(IdOf[a])
  /\ ResumeIfNonePending(pending')
  /\ UNCHANGED <<future, reply, overdue, verdict, conns, sweep, listener>>

ReplyTimeout(a) ==
  /\ phase[a] = "stats"
  /\ Reply(a, "no_answer")
  /\ UNCHANGED <<future, overdue, verdict, conns, sweep, listener, line>>

-----------------------------------------------------------------------------
(* The watch answers: _on_answer and resolve().                            *)

OnMenu(a, c) == Offered[a] = {} \/ c \in Offered[a]

\* _on_answer: the read loop is free and link.authorized holds. The socket of
\* a stray entry counts as one whether or not its client is authorized.
MayAnswer(l) ==
  /\ l \in sockets /\ task[l] = Idle
  /\ l \in strays => l \in links

\* Mutant: the choice is not checked against the menu.
AnswerOffMenu(l, i, c) ==
  /\ MayAnswer(l)
  /\ pending[i] # NoAsk
  /\ pending' = Without(i)
  /\ Settle({pending[i]}, c)
  /\ Decide(i, "watch", c)
  /\ UNCHANGED <<phase, reply, overdue, conns, sweep, listener, line>>

\* Mutant: the answered prompt stays in the registry.
AnswerKeepingEntry(l, i, c) ==
  /\ MayAnswer(l)
  /\ pending[i] # NoAsk
  /\ OnMenu(pending[i], c)
  /\ Settle({pending[i]}, c)
  /\ Decide(i, "watch", c)
  /\ UNCHANGED <<phase, reply, overdue, pending, conns, sweep, listener, line>>

\* Up to the first await: an HTTP caller's future is settled at once, an
\* in-gateway prompt is handed to a worker thread.
Answer(l, i, c) ==
  /\ MayAnswer(l)
  /\ pending[i] # NoAsk
  /\ OnMenu(pending[i], c)
  /\ pending' = Without(i)
  /\ Settle({pending[i]}, c)
  /\ Decide(i, "watch", c)
  /\ task' = [task EXCEPT ![l] =
       [step |-> IF pending[i] \in GatewayAsk THEN "unblock" ELSE "announce",
        ask |-> pending[i]]]
  /\ UNCHANGED <<phase, reply, overdue, sockets, links, strays, sweep, listener,
                 line>>

\* resolve_gateway_approval / resolve_gateway_clarify wakes the agent thread.
Unblock(l) ==
  /\ task[l].step = "unblock"
  /\ reply' = [reply EXCEPT ![task[l].ask] = verdict[task[l].ask].choice]
  /\ task' = [task EXCEPT ![l].step = "announce"]
  /\ UNCHANGED <<phase, future, overdue, verdict, pending, sockets, links,
                 strays, sweep, listener, line>>

\* The finally clause of the read loop pops the entry under the id the client
\* uses now; one under an id it has given up stays, and stays authorized.
LoopEnds(l) ==
  /\ sockets' = sockets \ {l}
  /\ links' = links \ ({l} \ strays)
  /\ UNCHANGED strays

\* The worker thread raised: the exception leaves resolve() and ends the
\* socket's read loop.
UnblockFails(l) ==
  /\ task[l].step = "unblock"
  /\ task' = [task EXCEPT ![l] = Idle]
  /\ LoopEnds(l)
  /\ UNCHANGED <<asks, pending, sweep, listener, line>>

\* Mutant: resumes although other prompts are pending.
AnnouncedAlwaysResumes(l) ==
  /\ task[l].step = "announce"
  /\ task' = [task EXCEPT ![l] = Idle]
  /\ ResumeAfterWait
  /\ UNCHANGED <<asks, pending, sockets, links, strays, sweep, listener>>

\* After the broadcast of the resolved event.
Announced(l) ==
  /\ task[l].step = "announce"
  /\ task' = [task EXCEPT ![l] = Idle]
  /\ ResumeIfNonePending(pending)
  /\ UNCHANGED <<asks, pending, sockets, links, strays, sweep, listener>>

-----------------------------------------------------------------------------
(* Prompts settled without the watch.                                      *)

\* POST /event with approval.resolved or question.resolved. While subscribed,
\* the adapter's own observer resumes the state line at once.
PostResolved(i, c) ==
  /\ listener # "down"
  /\ pending' = Without(i)
  /\ IF i \in Id THEN Settle({pending[i]}, c) ELSE UNCHANGED future
  /\ Decide(i, "elsewhere", c)
  /\ IF listener = "up" THEN ResumeAfterWait
                        ELSE UNCHANGED <<agentState, beforeWait>>
  /\ UNCHANGED <<phase, reply, overdue, conns, sweep, listener>>

\* The same resolution published on the bus of the gateway process
\* (_on_observation and _pending_for_event).
ObserveResolved(i, c) ==
  /\ CoLocated /\ listener = "up"
  /\ pending' = Without(i)
  /\ Decide(i, "elsewhere", c)
  /\ ResumeAfterWait
  /\ UNCHANGED <<phase, future, reply, overdue, conns, sweep, listener>>

\* Any other lifecycle event, from the bus or from POST /event.
Observe(e) ==
  /\ listener = "up"
  /\ EnterState(StateAfter[e])
  /\ UNCHANGED <<asks, pending, conns, sweep, listener>>

\* Hermes settled the question some other way.
RetireClarifyCard(a) ==
  /\ a \in GatewayAsk /\ KindOf[a] = "question"
  /\ pending[IdOf[a]] = a
  /\ pending' = Without(IdOf[a])
  /\ UNCHANGED <<asks, conns, sweep, listener, line>>

\* Mutant: the expired entry is popped, its caller left waiting.
SweepEntryUnsettled(a) ==
  /\ pending' = Without(IdOf[a])
  /\ UNCHANGED <<asks, conns, listener, line>>

\* _sweep_expired: one entry up to the await of its broadcast. The entry comes
\* from a snapshot of the registry, the pop goes by its id.
SweepEntry(a) ==
  /\ pending' = Without(IdOf[a])
  /\ Settle({a}, "no_answer")
  /\ UNCHANGED <<phase, reply, overdue, verdict, conns, listener, line>>

\* Mutant: only the prompts that have a future are swept.
ExpiredFutures ==
  {a \in HttpAsk : pending[IdOf[a]] = a /\ overdue[a]}

Expired == {a \in Ask : pending[IdOf[a]] = a /\ overdue[a]}

SweepStarts ==
  /\ listener = "up" /\ links # {}
  /\ sweep = {}
  /\ \E a \in Expired : SweepEntry(a) /\ sweep' = Expired \ {a}

SweepContinues ==
  \E a \in sweep : SweepEntry(a) /\ sweep' = sweep \ {a}

-----------------------------------------------------------------------------
(* Watch sockets.                                                          *)

\* _on_hello of an authorized watch. The runner drains open sockets: a watch
\* that says hello after self._links.clear() registers itself again.
Join(l) ==
  /\ listener # "down"
  /\ l \notin links /\ task[l] = Idle
  /\ l \in strays => l \in sockets
  /\ sockets' = sockets \union {l}
  /\ links' = links \union {l}
  /\ UNCHANGED <<asks, pending, strays, task, sweep, listener, line>>

\* A further hello of the same socket under another device id, authorized or
\* not: link.device_id moves on and the entry under the first id stays. The
\* first hello may have been that of an unpaired device.
Renames(l) ==
  /\ listener # "down"
  /\ l \in Renaming /\ task[l] = Idle
  /\ l \in sockets => l \in links \union strays
  /\ l \in strays => l \in sockets
  /\ strays' = strays \union {l}
  /\ sockets' = sockets \union {l}
  /\ links' \in {links \union {l}, links \ {l}}
  /\ UNCHANGED <<asks, pending, task, sweep, listener, line>>

\* A look-up for a delivery finds the id that a stray entry's client uses now
\* authorized, also when that client has gone.
StrayAuthorized(l) ==
  /\ l \in strays \ links
  /\ links' = links \union {l}
  /\ UNCHANGED <<asks, pending, sockets, strays, task, sweep, listener, line>>

\* Another client says hello under the id l has given up and takes the entry
\* over. If l's read loop runs, l may have an entry under its own id.
StrayReplaced(l) ==
  /\ listener # "down"
  /\ l \in strays
  /\ strays' = strays \ {l}
  /\ links' \in {links \ {l}} \union (IF l \in sockets THEN {links} ELSE {})
  /\ sockets' = sockets \ ({l} \ links)
  /\ UNCHANGED <<asks, pending, task, sweep, listener, line>>

\* Mutant: the finally clause forgets self._links.
SocketClosesOnly(l) ==
  /\ l \in sockets /\ task[l] = Idle
  /\ sockets' = sockets \ {l}
  /\ UNCHANGED <<asks, pending, links, strays, task, sweep, listener, line>>

\* The read loop ends; it cannot while it is inside resolve().
SocketCloses(l) ==
  /\ l \in sockets /\ task[l] = Idle
  /\ LoopEnds(l)
  /\ UNCHANGED <<asks, pending, task, sweep, listener, line>>

\* _ping_loop could not send: the entry under link.device_id goes, the read
\* loop stays. The ping of a stray entry pops another entry or none.
PingFails(l) ==
  /\ listener \in {"up", "closing"}
  /\ l \in links \ strays
  /\ links' = links \ {l}
  /\ UNCHANGED <<asks, pending, sockets, strays, task, sweep, listener, line>>

\* _delivery_targets found the device revoked: link.authorized goes false, even
\* while the read loop is inside resolve().
Revoked(l) ==
  /\ l \in sockets \union links
  /\ sockets' = sockets \ ({l} \ strays)
  /\ links' = links \ {l}
  /\ UNCHANGED <<asks, pending, strays, task, sweep, listener, line>>

-----------------------------------------------------------------------------
(* disconnect() and a later connect().                                     *)

DisconnectBegins ==
  /\ listener = "up"
  /\ listener' = "closing"
  /\ sweep' = {}
  /\ UNCHANGED <<asks, pending, conns, line>>

\* From self._links.clear() to self._pending.clear().
DisconnectSettles ==
  /\ listener = "closing"
  /\ listener' = "draining"
  /\ links' = {} /\ strays' = {}
  /\ sockets' = sockets \ (strays \ links)
  /\ Settle({pending[i] : i \in Id}, "no_answer")
  /\ pending' = [i \in Id |-> NoAsk]
  /\ UNCHANGED <<phase, reply, overdue, verdict, task, sweep, line>>

\* runner.cleanup() cancels what is still running. In wait_for that is the
\* timeout branch; in _push_pending nothing is cleaned up, so a prompt that was
\* registered while the runner drained stays in the registry.
HandlerCancelled(a) ==
  /\ listener = "draining"
  /\ a \in HttpAsk /\ phase[a] \in {"push", "wait", "late", "stats"}
  /\ phase' = [phase EXCEPT ![a] = "done"]
  /\ reply' = [reply EXCEPT ![a] = "dropped"]
  /\ pending' = IF phase[a] = "push" THEN pending ELSE Without(IdOf[a])
  /\ IF phase[a] \in {"wait", "late"} THEN ResumeIfNonePending(pending')
                                      ELSE UNCHANGED <<agentState, beforeWait>>
  /\ UNCHANGED <<future, overdue, verdict, conns, sweep, listener>>

SocketCancelled(l) ==
  /\ listener = "draining"
  /\ l \in sockets \/ task[l] # Idle
  /\ LoopEnds(l)
  /\ task' = [task EXCEPT ![l] = Idle]
  /\ UNCHANGED <<asks, pending, sweep, listener, line>>

ListenerDown ==
  /\ listener = "draining"
  /\ sockets = {} /\ \A l \in Link : task[l] = Idle
  /\ \A a \in HttpAsk : phase[a] \in {"new", "done"}
  /\ listener' = "down"
  /\ UNCHANGED <<asks, pending, conns, sweep, line>>

Connect ==
  /\ listener = "down"
  /\ listener' = "up"
  /\ UNCHANGED <<asks, pending, conns, sweep, line>>

-----------------------------------------------------------------------------
AskStep(a) ==
  \/ Prompt(a) \/ PromptRefused(a) \/ PushDone(a) \/ PushFails(a)
  \/ DeadlinePasses(a) \/ Answered(a) \/ TimerFires(a) \/ CancelFuture(a)
  \/ GiveUp(a) \/ ReplyTimeout(a)
  \/ RetireClarifyCard(a) \/ HandlerCancelled(a)

LinkStep(l) ==
  \/ Join(l) \/ Renames(l) \/ StrayAuthorized(l) \/ StrayReplaced(l)
  \/ SocketCloses(l) \/ PingFails(l) \/ Revoked(l) \/ SocketCancelled(l)
  \/ \E i \in Id, c \in Choice : Answer(l, i, c)
  \/ Unblock(l) \/ UnblockFails(l) \/ Announced(l)

ElsewhereStep ==
  \E i \in Id \union {""}, c \in Settled :
    PostResolved(i, c) \/ ObserveResolved(i, c)

Next ==
  \/ \E a \in Ask : AskStep(a)
  \/ \E l \in Link : LinkStep(l)
  \/ ElsewhereStep
  \/ \E e \in Observed : Observe(e)
  \/ SweepStarts \/ SweepContinues
  \/ DisconnectBegins \/ DisconnectSettles \/ ListenerDown \/ Connect

Spec == Init /\ [][Next]_vars

\* What the loop runs by itself: a coroutine whose await has completed, a timer
\* that is due, the stats loop's next pass, the rest of disconnect().
LoopStep(a) ==
  \/ PushDone(a) \/ PushFails(a) \/ Answered(a) \/ TimerFires(a)
  \/ CancelFuture(a) \/ GiveUp(a) \/ ReplyTimeout(a)

Fairness ==
  /\ \A a \in Ask : WF_vars(DeadlinePasses(a)) /\ WF_vars(LoopStep(a))
  /\ \A l \in Link : WF_vars(Unblock(l) \/ UnblockFails(l) \/ Announced(l))
  /\ WF_vars(SweepStarts \/ SweepContinues)

FairSpec == Spec /\ Fairness

-----------------------------------------------------------------------------
(* Properties.                                                             *)

Phases == {"new", "push", "wait", "late", "stats", "parked", "done"}
Futures == Settled \union {"none", "open", "cancelled"}
Replies == Settled \union {"open", "unavailable", "dropped"}

\* Every variable holds what the code can store there.
TypeOK ==
  /\ phase \in [Ask -> Phases]
  /\ future \in [Ask -> Futures]
  /\ reply \in [Ask -> Replies]
  /\ overdue \in [Ask -> BOOLEAN]
  /\ pending \in [Id -> Ask \union {NoAsk}]
  /\ sockets \subseteq Link /\ links \subseteq Link
  /\ strays \subseteq Renaming
  /\ task \in [Link -> [step : {"idle", "unblock", "announce"},
                       ask : Ask \union {NoAsk}]]
  /\ sweep \subseteq Ask
  /\ listener \in {"up", "closing", "draining", "down"}
  /\ agentState \in AgentState
  /\ beforeWait \in AgentState \union {"none"}
  /\ verdict \in [Ask -> [by : {"nobody", "watch", "elsewhere"},
                         choice : Settled]]

\* A link that counts as a connected watch (503 or not, degraded or not) has a
\* read loop that can bring its answer, and none outlives disconnect(), not
\* even one that said hello after self._links.clear(). The one exception is an
\* entry whose client said hello again under another device id: every exit
\* pops link.device_id, which is no longer its key (platform.py:424-425, 900).
LinksAreRead ==
  /\ links \subseteq sockets \union strays
  /\ listener = "down" => links \subseteq strays

\* Whatever a card on the wrist stands for still has someone who asked and has
\* not been told: no exit of _handle_event (503, answer, timeout) and no
\* disconnect leaves its entry in self._pending, and an entry is only ever
\* found under its own id. The one exception is a push that the runner cut off.
HttpAskIsLive(a) ==
  \/ phase[a] \in {"push", "wait", "late"} /\ future[a] = "open"
  \/ phase[a] = "late" /\ future[a] = "cancelled"
  \/ phase[a] = "done" /\ reply[a] = "dropped" /\ future[a] = "open"

RegistryHoldsLiveAsks ==
  \A i \in Id : pending[i] # NoAsk =>
    /\ IdOf[pending[i]] = i
    /\ pending[i] \in HttpAsk => HttpAskIsLive(pending[i])
    /\ pending[i] \in GatewayAsk => phase[pending[i]] \in {"push", "parked"}

\* A caller is told a choice only if a human made that choice for that very
\* ask, and a choice made on the watch is one the ask offered (resolve()'s menu
\* check), however answers, sweeps, timers and shutdown interleave.
NoInventedAnswer ==
  \A a \in HttpAsk : reply[a] \in Choice =>
    /\ verdict[a].choice = reply[a]
    /\ verdict[a].by = "watch" => OnMenu(a, reply[a])

\* An HTTP request whose future is still open can be answered: it is in the
\* registry. This needs ids that are not shared and a plugin that reports
\* resolutions over HTTP (the bus pops the entry and forgets the future).
UniqueIds == \A a, b \in Ask : IdOf[a] = IdOf[b] => a = b

NoLostWaiter ==
  UniqueIds /\ ~CoLocated =>
    \A a \in HttpAsk :
      phase[a] \in {"push", "wait"} /\ future[a] = "open" =>
        pending[IdOf[a]] = a

\* An answer resolve() accepted reaches the caller, save in three cases: the
\* last watch left before _push_pending looked (503); the adapter was shut
\* down; the deadline had passed and the timer had cancelled the wait.
AcceptedAnswerIsHeard ==
  \A a \in HttpAsk : phase[a] = "done" /\ verdict[a].by = "watch" =>
    \/ reply[a] \in {verdict[a].choice, "unavailable", "dropped"}
    \/ /\ reply[a] = "no_answer" /\ overdue[a]
       /\ TimerCancels \/ future[a] = "cancelled"

\* A wait is a parenthesis: while the state line says waiting, the state to
\* return to is known and is not itself a wait, so one _resume_after_wait
\* always leaves the wait (platform.py:825-833).
WaitIsAParenthesis ==
  /\ beforeWait \in Working \union {"idle", "none"}
  /\ agentState \in Waiting => beforeWait # "none"

\* The adapter by itself (answers, timeouts, sweeps, refusals, shutdown) never
\* ends the wait on the state line while another prompt is pending. Only the
\* agent's own reports do.
LeavesTheWait == agentState \in Waiting /\ agentState' \notin Waiting

WaitEndsWithTheLastPrompt ==
  [][LeavesTheWait =>
       IsEmpty(pending') \/ ElsewhereStep \/ \E e \in Observed : Observe(e)]_vars

\* Every HTTP request is replied to, whether or not a watch, an answer or a
\* sweep ever comes: wait_for's timer is enough.
EveryAskIsReplied ==
  \A a \in HttpAsk : (phase[a] # "new") ~> (phase[a] = "done")

\* A card never outlives its request for good: if the adapter stays up with a
\* watch connected, every entry leaves the registry, in-gateway prompts that
\* were settled elsewhere included (platform.py:606-608).
CardsAreSwept ==
  <>[](listener = "up" /\ links # {}) =>
    \A a \in Ask : (pending[IdOf[a]] = a) ~> (pending[IdOf[a]] # a)

-----------------------------------------------------------------------------
(* What the HTTP callers see implements ApprovalContract.                  *)

Status(a) == CASE phase[a] = "new"  -> "idle"
               [] phase[a] = "done" -> "closed"
               [] OTHER             -> "open"

Contract == INSTANCE ApprovalContract WITH
  Asker    <- HttpAsk,
  Answers  <- Choice,
  Menu     <- Offered,
  status   <- [a \in HttpAsk |-> Status(a)],
  decision <- [a \in HttpAsk |-> verdict[a]],
  outcome  <- [a \in HttpAsk |-> reply[a]]

\* Every step of the adapter is, for its HTTP callers, a step of the contract
\* or nothing: decisions are taken once, on open asks, and an ask is closed
\* once, with its decision or a refusal.
ImplementsContract == Contract!Spec

\* A decision is final, and so is what a caller was told: no late answer, no
\* second ask under the same id, no sweep and no shutdown changes either.
KeepsDecisions == \A a \in HttpAsk :
  /\ verdict[a] # NoOne => verdict'[a] = verdict[a]
  /\ reply[a] # "open" => reply'[a] = reply[a]

DecisionsAreFinal == [][KeepsDecisions]_<<verdict, reply>>

-----------------------------------------------------------------------------
(* What the repository says of the program and the program does not do.    *)

\* client.py:134, "None always means *no human answered*": an ask refused or
\* timed out was not answered on the watch.
NoneMeansNobodyAnswered ==
  \A a \in HttpAsk :
    reply[a] \in {"no_answer", "unavailable"} => verdict[a].by # "watch"

\* platform.py:734-738 and test_platform.py:699: when a prompt has timed out
\* and nothing is pending or under way, the state line does not say waiting.
Quiet ==
  /\ IsEmpty(pending)
  /\ \A a \in Ask : phase[a] \in {"new", "parked", "done"}
  /\ \A l \in Link : task[l] = Idle

TimeoutLeavesTheWait ==
  Quiet /\ (\E a \in HttpAsk : reply[a] = "no_answer") =>
    agentState \notin Waiting

\* docs/protocol.md:168, "No watch connected when the approval opens": the
\* caller is told at once rather than parked. So an ask is parked only while
\* the read loop of some watch runs.
ParkedOnlyForAWatch ==
  [][\A a \in HttpAsk : phase[a] = "push" /\ phase'[a] = "wait" =>
       sockets # {}]_vars
=============================================================================
