-------------------------- MODULE ObservationPath --------------------------
(***************************************************************************)
(* From what the agent does to what the wrist says: the hooks of           *)
(* plugin.py, the bus of live.py or the dispatcher's queue and POST        *)
(* /event, and the state line of HermesWatchAdapter (platform.py).         *)
(*                                                                         *)
(* One agent thread calls the hooks, turn after turn.  It lives in the     *)
(* gateway process, where an observation is handed to the adapter on the   *)
(* same thread, or in a process of its own (`cli').  Prompts reach the     *)
(* adapter on a way of their own, past the queue: `ask' is the prompt      *)
(* Hermes or the transport presents.  `copy' stands for those the hooks    *)
(* post of what is shown elsewhere, a question in the terminal too.        *)
(***************************************************************************)
EXTENDS Naturals, Sequences

CONSTANTS
  Place,       \* where the agent may live: a subset of {"gateway", "cli"}
  Depth,       \* QUEUE_DEPTH
  Turn,        \* what the hooks are given for turn_id, NoTurn perhaps too
  NoTurn,      \* no turn id
  Interrupts,  \* may a turn end in the middle of a tool or a prompt?
  Tools        \* what it calls: "clarify" asks a question in the terminal

ASSUME PathAssumption ==
  /\ Place \subseteq {"gateway", "cli"}
  /\ Depth \in Nat \ {0}
  /\ Interrupts \in BOOLEAN
  /\ Tools \subseteq {"bash", "clarify"}

Waiting == {"waiting_approval", "waiting_input"}
AgentState == Waiting \union {"idle", "thinking", "tool"}

\* What _on_observation makes of an event; the resolutions resume.  (The
\* measurements, api_request, change no state line and are left out.)
StateAfter ==
  [turn_started |-> "thinking", tool_started |-> "tool",
   tool_finished |-> "thinking", turn_ended |-> "idle",
   approval_requested |-> "waiting_approval",
   question_pending |-> "waiting_input"]

Event == DOMAIN StateAfter \union {"approval_resolved"}

\* What asks a human.
Prompt == {"approval_requested", "question_pending"}

\* LiveBus._apply: a resolution is "thinking", whatever was interrupted.
LiveAfter == [e \in Event |->
  IF e = "approval_resolved" THEN "thinking" ELSE StateAfter[e]]

VARIABLES
  place,      \* where the agent lives
  doing,      \* what the agent does: idle, thinking, tool, approval, question
  turn,       \* the id of its turn
  seen,       \* the keys of plugin._turn_seen
  outbox,     \* what the hook that runs has yet to observe
  gate,       \* has_subscriber() said yes, bus.observe() is still to come
  subscribed, \* is the adapter's handler on the bus of the agent's process?
  queue,      \* the dispatcher's queue
  posting,    \* the event its thread is posting, or "none"
  missed,     \* history: did an observation not arrive, or not in its turn?
  live,       \* bus.state.agent_state in the gateway process
  line,       \* adapter._state
  before,     \* adapter._state_before_wait
  prompts,    \* adapter._pending
  announcing  \* a resolve() is broadcasting before it resumes

\* What was reported and has not arrived, in the order of the reports.
Way == (IF posting = "none" THEN <<>> ELSE <<posting>>) \o queue \o outbox

Channel == INSTANCE ObservationChannel
  WITH After <- LiveAfter, local <- place = "gateway", way <- Way,
       faulty <- missed

agent   == <<doing, turn, seen>>
path    == <<outbox, gate, subscribed, queue, posting, missed>>
adapter == <<live, line, before, prompts, announcing>>
vars    == <<place, agent, path, adapter>>

Init ==
  /\ place \in Place
  /\ doing = "idle" /\ turn = NoTurn /\ seen = {}
  /\ outbox = <<>> /\ gate = FALSE
  /\ subscribed = (place = "gateway")
  /\ queue = <<>> /\ posting = "none"
  /\ missed = FALSE
  /\ live = "idle" /\ line = "idle" /\ before = "none"
  /\ prompts = {} /\ announcing = FALSE

-----------------------------------------------------------------------------
(* The state line.                                                         *)

\* _set_state(s) with self._state_before_wait = b.
SetState(s, b) ==
  /\ line' = s
  /\ before' = IF s # line /\ s \in Waiting /\ b = "none" THEN line ELSE b

\* Mutant: no "or idle" and the state before the wait is kept.
ResumeKeeping == SetState(IF before = "none" THEN "idle" ELSE before, before)

ResumeAfterWait == SetState(IF before = "none" THEN "idle" ELSE before, "none")

ResumeIfNone(rest) ==
  IF rest = {} THEN ResumeAfterWait ELSE UNCHANGED <<line, before>>

\* bus.observe and the adapter's _on_observation.
Observed(e) ==
  /\ live' = LiveAfter[e]
  /\ IF e = "approval_resolved" THEN ResumeAfterWait
                                ELSE SetState(StateAfter[e], before)

-----------------------------------------------------------------------------
(* The agent and the hooks Hermes calls.                                   *)

\* The agent goes on when the hook has returned.
Does(from, to) == outbox = <<>> /\ doing \in from /\ doing' = to
Reports(events) ==
  /\ outbox' = events
  /\ UNCHANGED <<place, gate, subscribed, queue, posting, missed>>

\* on_pre_api_request: a turn is announced with the first call that names it.
\* A new turn has an id of its own or none; an id that plugin.py has forgotten
\* stands for a new one.
PreApiRequest ==
  /\ Does({"idle", "thinking"}, "thinking")
  /\ turn' \in IF doing = "idle" THEN Turn \ seen ELSE {turn}
  /\ Reports(IF turn' \in seen \union {NoTurn} THEN <<>> ELSE <<"turn_started">>)
  /\ seen' = seen \union ({turn'} \ {NoTurn})
  /\ UNCHANGED adapter

PreToolCall ==
  /\ \E tool \in Tools :
       /\ Does({"thinking"}, IF tool = "clarify" THEN "question" ELSE "tool")
       /\ Reports(<<"tool_started">> \o
                  IF tool = "clarify" THEN <<"question_pending">> ELSE <<>>)
  /\ UNCHANGED <<turn, seen, adapter>>

PostToolCall ==
  /\ Does({"tool", "question"}, "thinking")
  /\ Reports(<<"tool_finished">>)
  /\ UNCHANGED <<turn, seen, adapter>>

\* on_session_end: a turn whose end does not name it is remembered for good.
SessionEnd ==
  /\ Does(IF Interrupts THEN {"thinking", "tool", "approval", "question"}
                        ELSE {"thinking"}, "idle")
  /\ Reports(<<"turn_ended">>)
  /\ turn' = NoTurn
  /\ \E id \in {turn} \union (Turn \cap {NoTurn}) : seen' = seen \ {id}
  /\ UNCHANGED adapter

\* In the gateway the pre-approval hook reports every prompt, in a process of
\* its own the transport posts the prompt and the hook keeps quiet.
AsksApproval ==
  /\ Does({"tool"}, "approval")
  /\ Reports(IF place = "gateway" THEN <<"approval_requested">> ELSE <<>>)
  /\ UNCHANGED <<turn, seen, adapter>>

\* No watch answered: the prompt is shown in the terminal and the hook's copy
\* of it is queued.
FallsBack ==
  /\ place = "cli" /\ "ask" \notin prompts
  /\ Does({"approval"}, "approval")
  /\ Reports(<<"approval_requested">>)
  /\ UNCHANGED <<turn, seen, adapter>>

\* Answered on another surface; the hook reports it.
AnsweredElsewhere ==
  /\ Does({"approval"}, "tool")
  /\ Reports(<<"approval_resolved">>)
  /\ UNCHANGED <<turn, seen, adapter>>

-----------------------------------------------------------------------------
(* observe(): by the bus or by the queue.                                  *)

\* has_subscriber() is asked under the lock ...
Checks ==
  /\ outbox # <<>> /\ ~gate /\ subscribed
  /\ gate' = TRUE
  /\ UNCHANGED <<place, agent, outbox, subscribed, queue, posting, missed,
                 adapter>>

\* ... and the handlers are called later; by then there may be none, and only
\* the bus itself keeps the observation.
Publishes ==
  /\ gate
  /\ gate' = FALSE /\ outbox' = Tail(outbox)
  /\ IF subscribed
     THEN Observed(Head(outbox)) /\ missed' = missed
     ELSE /\ live' = LiveAfter[Head(outbox)] /\ missed' = TRUE
          /\ UNCHANGED <<line, before>>
  /\ UNCHANGED <<place, agent, subscribed, queue, posting, prompts,
                 announcing>>

\* Mutant: put() instead of put_nowait().
PutsWaiting ==
  /\ Len(queue) < Depth
  /\ queue' = Append(queue, Head(outbox))
  /\ missed' = (missed \/ place = "gateway")

\* Mutant: a queue without a bound.
PutsAlways ==
  /\ queue' = Append(queue, Head(outbox))
  /\ missed' = (missed \/ place = "gateway")

\* A full queue drops the newest.  What is queued in the gateway process may
\* arrive after what is published on the bus later.
Puts ==
  /\ queue' = IF Len(queue) < Depth THEN Append(queue, Head(outbox))
                                    ELSE queue
  /\ missed' = (missed \/ place = "gateway" \/ Len(queue) >= Depth)

Submits ==
  /\ outbox # <<>> /\ ~gate /\ ~subscribed
  /\ Puts
  /\ outbox' = Tail(outbox)
  /\ UNCHANGED <<place, agent, gate, subscribed, posting, adapter>>

Gets ==
  /\ posting = "none" /\ queue # <<>>
  /\ posting' = Head(queue) /\ queue' = Tail(queue)
  /\ UNCHANGED <<place, agent, outbox, gate, subscribed, missed, adapter>>

\* Mutant: what could not be posted is queued again.
PostRetried ==
  /\ posting # "none"
  /\ posting' = "none" /\ missed' = TRUE
  /\ queue' = IF Len(queue) < Depth THEN Append(queue, posting) ELSE queue
  /\ UNCHANGED <<place, agent, outbox, gate, subscribed, adapter>>

PostFails ==
  /\ posting # "none"
  /\ posting' = "none" /\ missed' = TRUE
  /\ UNCHANGED <<place, agent, outbox, gate, subscribed, queue, adapter>>

\* POST /event: a prompt is registered, with a watch there to show it on or
\* not; anything else is observed.
Posts ==
  /\ posting # "none"
  /\ place = "gateway" => subscribed
  /\ posting' = "none"
  /\ IF posting \in Prompt
     THEN /\ SetState(StateAfter[posting], before)
          /\ \E watch \in BOOLEAN :
               prompts' = IF watch THEN prompts \union {"copy"} ELSE prompts
          /\ UNCHANGED live
     ELSE /\ Observed(posting)
          /\ UNCHANGED prompts
  /\ UNCHANGED <<place, agent, outbox, gate, subscribed, queue, missed,
                 announcing>>

\* disconnect() and connect() of the adapter in the agent's process.
Reconnects ==
  /\ place = "gateway"
  /\ subscribed' = ~subscribed
  /\ UNCHANGED <<place, agent, outbox, gate, queue, posting, missed, adapter>>

-----------------------------------------------------------------------------
(* Prompts at the adapter.                                                 *)

\* The prompt arrives, past the queue; without a watch it is refused, and the
\* line says waiting all the same.
Registers ==
  /\ doing = "approval" /\ "ask" \notin prompts
  /\ SetState("waiting_approval", before)
  /\ \E watch \in BOOLEAN :
       prompts' = IF watch THEN prompts \union {"ask"} ELSE prompts
  /\ UNCHANGED <<place, agent, path, live, announcing>>

\* resolve(), up to its first await.  The agent goes on with the answer, and
\* the hook reports the resolution.
WatchAnswers ==
  /\ "ask" \in prompts /\ ~announcing
  /\ prompts' = prompts \ {"ask"}
  /\ announcing' = TRUE
  /\ IF doing = "approval" /\ outbox = <<>>
     THEN Does({"approval"}, "tool") /\ Reports(<<"approval_resolved">>)
     ELSE UNCHANGED <<place, doing, path>>
  /\ UNCHANGED <<turn, seen, live, line, before>>

\* The copy can be answered too; the answer goes nowhere.
CopyAnswered ==
  /\ "copy" \in prompts /\ ~announcing
  /\ prompts' = prompts \ {"copy"}
  /\ announcing' = TRUE
  /\ UNCHANGED <<place, agent, path, live, line, before>>

Announced ==
  /\ announcing
  /\ announcing' = FALSE
  /\ ResumeIfNone(prompts)
  /\ UNCHANGED <<place, agent, path, live, prompts>>

\* The timer of a parked request pops it and resumes; the sweep, and a
\* resolution reported from elsewhere, only pop.  Hermes parks no request for
\* a prompt of its own gateway.
Expires(p) ==
  /\ p \in prompts
  /\ prompts' = prompts \ {p}
  /\ \/ (p = "copy" \/ place = "cli") /\ ResumeIfNone(prompts')
     \/ UNCHANGED <<line, before>>
  /\ UNCHANGED <<place, agent, path, live, announcing>>

-----------------------------------------------------------------------------

Hooks == \/ PreApiRequest \/ PreToolCall \/ PostToolCall
         \/ SessionEnd \/ AsksApproval \/ FallsBack \/ AnsweredElsewhere

Next == \/ Hooks
        \/ Checks \/ Publishes \/ Submits
        \/ Gets \/ PostFails \/ Posts \/ Reconnects
        \/ Registers \/ WatchAnswers \/ CopyAnswered \/ Announced
        \/ \E p \in prompts : Expires(p)

\* Only the agent's own thread is sure to run.
Spec == Init /\ [][Next]_vars /\ WF_vars(Checks \/ Publishes \/ Submits)

-----------------------------------------------------------------------------
(* Properties.                                                             *)

TypeOK ==
  /\ place \in Place
  /\ doing \in {"idle", "thinking", "tool", "approval", "question"}
  /\ turn \in Turn \union {NoTurn} /\ seen \subseteq Turn \ {NoTurn}
  /\ gate \in BOOLEAN /\ subscribed \in BOOLEAN
  /\ outbox \in Seq(Event) /\ Len(outbox) <= 2
  /\ queue \in Seq(Event) /\ Len(queue) <= Depth
  /\ posting \in Event \union {"none"}
  /\ missed \in BOOLEAN /\ announcing \in BOOLEAN
  /\ live \in AgentState /\ line \in AgentState
  /\ before \in AgentState \union {"none"}
  /\ prompts \subseteq {"ask", "copy"}

\* Everything reported has arrived, and no prompt or answer is under way.
Quiet == /\ outbox = <<>> /\ queue = <<>> /\ posting = "none"
         /\ prompts = {} /\ ~announcing

\* When the agent has stopped, nothing was dropped and no prompt is left,
\* the wrist says idle: no answer, expiry or copy of a prompt that comes late
\* brings a finished turn back.
IdleInTheEnd ==
  doing = "idle" /\ Quiet /\ ~missed => line = "idle" /\ live = "idle"

\* Observations arrive in the order in which they were reported, at most once,
\* whatever is dropped on the way; the exceptions are those of the channel.
ImplementsChannel == Channel!Spec

\* plugin.py:25, "Nothing blocks the agent": a hook with something to report
\* returns although dispatcher, listener and loop may all stand still.
HooksReturn == []<>(outbox = <<>>)

\* platform.py:830-831, "When the answer lands the agent resumes whatever it
\* was doing before": an agent inside a tool is not shown as idle.
AnswerResumesTheWork ==
  doing = "tool" /\ Quiet /\ ~missed => line # "idle"
=============================================================================
