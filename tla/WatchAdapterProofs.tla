------------------------- MODULE WatchAdapterProofs -------------------------
(***************************************************************************)
(* Theorems about WatchAdapter for every set of asks, ids, choices and     *)
(* sockets, for shared ids and for both behaviours of wait_for.            *)
(***************************************************************************)
EXTENDS WatchAdapter, TLAPS

LEMMA StateAfterType == \A e \in Observed : StateAfter[e] \in AgentState
<1>1. DOMAIN StateAfter =
        {"turn_started", "tool_started", "tool_finished", "turn_ended",
         "approval_requested", "question_pending", "session_ended",
         "loop_stopped"}
  BY DEF StateAfter
<1>2. \A e \in DOMAIN StateAfter : StateAfter[e] \in AgentState
  BY <1>1 DEF StateAfter, AgentState, Waiting, Working
<1> QED
  BY <1>2, EnvironmentAssumption

LEMMA WaitStateType == \A a \in Ask : WaitState(a) \in AgentState
BY DEF WaitState, AgentState, Waiting, Working

LEMMA SetStateType ==
  ASSUME NEW s \in AgentState, NEW before \in AgentState \union {"none"},
         agentState \in AgentState, SetState(s, before)
  PROVE  agentState' \in AgentState /\ beforeWait' \in AgentState \union {"none"}
BY DEF SetState

LEMMA ResumeType ==
  ASSUME TypeOK, ResumeAfterWait
  PROVE  agentState' \in AgentState /\ beforeWait' \in AgentState \union {"none"}
BY DEF ResumeAfterWait, SetState, TypeOK, AgentState, Waiting, Working

LEMMA WithoutType ==
  ASSUME TypeOK, NEW i
  PROVE  Without(i) \in [Id -> Ask \union {NoAsk}]
BY DEF Without, TypeOK

LEMMA SettleType ==
  ASSUME TypeOK, NEW S, NEW v \in Settled, Settle(S, v)
  PROVE  future' \in [Ask -> Futures]
BY DEF Settle, TypeOK, Futures

LEMMA DecideType ==
  ASSUME TypeOK, NEW i, NEW by \in {"watch", "elsewhere"}, NEW c \in Settled,
         Decide(i, by, c)
  PROVE  verdict' \in [Ask -> [by : {"nobody", "watch", "elsewhere"},
                               choice : Settled]]
BY DEF Decide, TypeOK

LEMMA InitTypeOK == Init => TypeOK
BY DEF Init, TypeOK, Phases, Futures, Replies, Settled, Idle, NoOne,
       AgentState, Waiting, Working

\* The steps of a presenter.
LEMMA AskTypeOK ==
  ASSUME TypeOK, NEW a \in Ask, AskStep(a)
  PROVE  TypeOK'
<1> USE AskAssumption
<1>1. CASE Prompt(a)
  BY <1>1, WaitStateType, SetStateType
  DEF Prompt, EnterState, TypeOK, Futures, Phases, conns, Ask
<1>2. CASE PromptRefused(a)
  BY <1>2, WaitStateType, SetStateType, WithoutType
  DEF PromptRefused, Refuse, EnterState, TypeOK, Phases, Replies, conns
<1>3. CASE PushDone(a)
  BY <1>3 DEF PushDone, TypeOK, Phases, conns, line
<1>4. CASE PushFails(a)
  BY <1>4, WithoutType
  DEF PushFails, Refuse, TypeOK, Phases, Replies, conns, line
<1>5. CASE DeadlinePasses(a)
  BY <1>5 DEF DeadlinePasses, TypeOK, conns, line
<1>6. CASE Answered(a)
  BY <1>6, WithoutType DEF Answered, Reply, TypeOK, Phases, Replies, conns, line
<1>7. CASE TimerFires(a)
  BY <1>7 DEF TimerFires, TypeOK, Phases, Futures, conns, line
<1>8. CASE CancelFuture(a)
  BY <1>8 DEF CancelFuture, TypeOK, Futures, conns, line
<1>9. CASE GiveUp(a)
  BY <1>9, WithoutType, ResumeType
  DEF GiveUp, ResumeIfNonePending, TypeOK, Phases, conns
<1>10. CASE ReplyTimeout(a)
  BY <1>10, WithoutType
  DEF ReplyTimeout, Reply, TypeOK, Phases, Replies, Settled, conns, line
<1>11. CASE RetireClarifyCard(a)
  BY <1>11, WithoutType DEF RetireClarifyCard, TypeOK, asks, conns, line
<1>12. CASE HandlerCancelled(a)
  BY <1>12, WithoutType, ResumeType
  DEF HandlerCancelled, ResumeIfNonePending, TypeOK, Phases, Replies, conns
<1> QED
  BY <1>1, <1>2, <1>3, <1>4, <1>5, <1>6, <1>7, <1>8, <1>9, <1>10, <1>11,
     <1>12 DEF AskStep

\* The steps of a socket.
LEMMA LinkTypeOK ==
  ASSUME TypeOK, NEW l \in Link, LinkStep(l)
  PROVE  TypeOK'
<1> DEFINE Tasks == [step : {"idle", "unblock", "announce"},
                     ask : Ask \union {NoAsk}]
<1>1. Idle \in Tasks
  BY DEF Idle
<1>2. CASE Join(l) \/ Renames(l) \/ StrayAuthorized(l) \/ StrayReplaced(l)
           \/ SocketCloses(l) \/ PingFails(l) \/ Revoked(l)
  BY <1>2 DEF Join, Renames, StrayAuthorized,
    StrayReplaced, SocketCloses, LoopEnds, PingFails, Revoked, TypeOK, asks,
    line
<1>3. CASE SocketCancelled(l)
  BY <1>1, <1>3 DEF SocketCancelled, LoopEnds, TypeOK, asks, line
<1>4. ASSUME NEW i \in Id, NEW c \in Choice, Answer(l, i, c)
      PROVE  TypeOK'
  <2>1. c \in Settled
    BY DEF Settled
  <2>2. pending' \in [Id -> Ask \union {NoAsk}]
    BY <1>4, WithoutType DEF Answer
  <2>3. future' \in [Ask -> Futures]
    BY <1>4, <2>1, SettleType DEF Answer
  <2>4. verdict' \in [Ask -> [by : {"nobody", "watch", "elsewhere"},
                             choice : Settled]]
    BY <1>4, <2>1, DecideType DEF Answer
  <2>5. task' \in [Link -> Tasks]
    BY <1>4 DEF Answer, TypeOK
  <2> QED
    BY <1>4, <2>2, <2>3, <2>4, <2>5 DEF Answer, TypeOK, line
<1>5. CASE Unblock(l)
  <2>1. reply' \in [Ask -> Replies]
    BY <1>5 DEF Unblock, TypeOK, Replies
  <2>2. task' \in [Link -> Tasks]
    BY <1>5 DEF Unblock, TypeOK
  <2> QED
    BY <1>5, <2>1, <2>2 DEF Unblock, TypeOK, line
<1>6. CASE UnblockFails(l)
  BY <1>1, <1>6 DEF UnblockFails, LoopEnds, TypeOK, asks, line
<1>7. CASE Announced(l)
  BY <1>1, <1>7, ResumeType DEF Announced, ResumeIfNonePending, TypeOK, asks
<1> QED
  BY <1>2, <1>3, <1>4, <1>5, <1>6, <1>7 DEF LinkStep

\* The steps nobody's presenter and no socket takes.
LEMMA OtherTypeOK ==
  ASSUME TypeOK,
         \/ ElsewhereStep
         \/ \E e \in Observed : Observe(e)
         \/ SweepStarts \/ SweepContinues
         \/ DisconnectBegins \/ DisconnectSettles \/ ListenerDown \/ Connect
  PROVE  TypeOK'
<1>1. ASSUME NEW i \in Id \union {""}, NEW c \in Settled, PostResolved(i, c)
      PROVE  TypeOK'
  <2>1. future' \in [Ask -> Futures]
    BY <1>1, SettleType DEF PostResolved, TypeOK
  <2>2. verdict' \in [Ask -> [by : {"nobody", "watch", "elsewhere"},
                             choice : Settled]]
    BY <1>1, DecideType DEF PostResolved
  <2>3. /\ agentState' \in AgentState
        /\ beforeWait' \in AgentState \union {"none"}
    BY <1>1, ResumeType DEF PostResolved, TypeOK
  <2> QED
    BY <1>1, <2>1, <2>2, <2>3, WithoutType DEF PostResolved, TypeOK, conns
<1>2. ASSUME NEW i \in Id \union {""}, NEW c \in Settled, ObserveResolved(i, c)
      PROVE  TypeOK'
  <2>1. verdict' \in [Ask -> [by : {"nobody", "watch", "elsewhere"},
                             choice : Settled]]
    BY <1>2, DecideType DEF ObserveResolved
  <2> QED
    BY <1>2, <2>1, ResumeType, WithoutType DEF ObserveResolved, TypeOK, conns
<1>3. ASSUME NEW e \in Observed, Observe(e)
      PROVE  TypeOK'
  BY <1>3, StateAfterType, SetStateType
  DEF Observe, EnterState, TypeOK, asks, conns
<1>4. ASSUME NEW a \in Ask, SweepEntry(a), sweep' \subseteq Ask
      PROVE  TypeOK'
  BY <1>4, WithoutType, SettleType DEF SweepEntry, TypeOK, Settled, conns, line
<1>5. CASE SweepStarts \/ SweepContinues
  BY <1>4, <1>5 DEF SweepStarts, SweepContinues, Expired, TypeOK
<1>6. CASE DisconnectBegins \/ ListenerDown \/ Connect
  BY <1>6 DEF DisconnectBegins, ListenerDown, Connect, TypeOK, asks, conns, line
<1>7. CASE DisconnectSettles
  BY <1>7, SettleType DEF DisconnectSettles, TypeOK, Settled, line
<1> QED
  BY <1>1, <1>2, <1>3, <1>5, <1>6, <1>7 DEF ElsewhereStep

LEMMA NextTypeOK == TypeOK /\ [Next]_vars => TypeOK'
<1>1. CASE Next
  BY <1>1, AskTypeOK, LinkTypeOK, OtherTypeOK DEF Next
<1>2. CASE UNCHANGED vars
  BY <1>2 DEF vars, asks, conns, line, TypeOK
<1> QED
  BY <1>1, <1>2

\* Every variable keeps its type.
THEOREM TypeCorrect == Spec => []TypeOK
BY InitTypeOK, NextTypeOK, PTL DEF Spec

-----------------------------------------------------------------------------
(* Links.                                                                  *)

\* No step leaves an authorized link without a read loop, save one whose entry
\* is under an id its client has given up.
THEOREM LinksAreReadAlways == Spec => []LinksAreRead
<1>1. Init => LinksAreRead
  BY DEF Init, LinksAreRead
<1>2. LinksAreRead /\ [Next]_vars => LinksAreRead'
  <2> SUFFICES ASSUME LinksAreRead, [Next]_vars
               PROVE  LinksAreRead'
    OBVIOUS
  <2> USE DEF LinksAreRead
  <2>1. ASSUME NEW a \in Ask, AskStep(a)
        PROVE  LinksAreRead'
    BY <2>1 DEF AskStep, Prompt, PromptRefused, PushDone, PushFails,
      DeadlinePasses, Answered, TimerFires, CancelFuture, GiveUp, ReplyTimeout,
      RetireClarifyCard, HandlerCancelled, conns
  <2>2. ASSUME NEW l \in Link, LinkStep(l)
        PROVE  LinksAreRead'
    BY <2>2 DEF LinkStep, Join, Renames, StrayAuthorized,
      StrayReplaced, SocketCloses, PingFails, Revoked,
      SocketCancelled, LoopEnds, Answer, Unblock, UnblockFails, Announced
  <2>3. CASE ElsewhereStep \/ (\E e \in Observed : Observe(e))
    BY <2>3 DEF ElsewhereStep, PostResolved, ObserveResolved, Observe, conns
  <2>4. CASE SweepStarts \/ SweepContinues
    BY <2>4 DEF SweepStarts, SweepContinues, SweepEntry, conns
  <2>5. CASE DisconnectBegins \/ DisconnectSettles \/ ListenerDown \/ Connect
    BY <2>5 DEF DisconnectBegins, DisconnectSettles, ListenerDown, Connect, conns
  <2>6. CASE UNCHANGED vars
    BY <2>6 DEF vars, conns
  <2> QED
    BY <2>1, <2>2, <2>3, <2>4, <2>5, <2>6 DEF Next
<1> QED
  BY <1>1, <1>2, PTL DEF Spec

-----------------------------------------------------------------------------
(* The registry.                                                           *)

\* Only in-gateway prompts are handed to the worker thread.
UnblocksHermes ==
  \A l \in Link : task[l].step = "unblock" => task[l].ask \in GatewayAsk

LEMMA NextUnblocks ==
  TypeOK /\ UnblocksHermes /\ [Next]_vars => UnblocksHermes'
<1> SUFFICES ASSUME TypeOK, UnblocksHermes, [Next]_vars
             PROVE  UnblocksHermes'
  OBVIOUS
<1> USE DEF UnblocksHermes
<1>1. ASSUME NEW l \in Link, LinkStep(l)
      PROVE  UnblocksHermes'
  <2>1. ASSUME NEW i \in Id, NEW c \in Choice, Answer(l, i, c)
        PROVE  UnblocksHermes'
    BY <2>1 DEF Answer, TypeOK
  <2>2. CASE Unblock(l)
    BY <2>2 DEF Unblock, TypeOK
  <2>3. CASE SocketCancelled(l) \/ UnblockFails(l) \/ Announced(l)
    BY <2>3 DEF SocketCancelled, UnblockFails, Announced, TypeOK, Idle
  <2>4. CASE Join(l) \/ Renames(l) \/ StrayAuthorized(l) \/ StrayReplaced(l)
             \/ SocketCloses(l) \/ PingFails(l) \/ Revoked(l)
    BY <2>4 DEF Join, Renames, StrayAuthorized,
      StrayReplaced, SocketCloses, PingFails, Revoked
  <2> QED
    BY <1>1, <2>1, <2>2, <2>3, <2>4 DEF LinkStep
<1>2. ASSUME ~\E l \in Link : LinkStep(l)
      PROVE  task' = task
  BY <1>2 DEF Next, vars, AskStep, Prompt, PromptRefused, PushDone, PushFails,
    DeadlinePasses, Answered, TimerFires, CancelFuture, GiveUp, ReplyTimeout,
    RetireClarifyCard, HandlerCancelled, ElsewhereStep, PostResolved,
    ObserveResolved, Observe, SweepStarts, SweepContinues, SweepEntry,
    DisconnectBegins, DisconnectSettles, ListenerDown, Connect, conns
<1> QED
  BY <1>1, <1>2

RegistryInv == TypeOK /\ RegistryHoldsLiveAsks /\ UnblocksHermes

LEMMA WithoutEntry ==
  ASSUME NEW i
  PROVE  \A j \in Id : Without(i)[j] = IF j = i THEN NoAsk ELSE pending[j]
BY DEF Without

\* A step that adds no entry and leaves the asks of the entries it keeps where
\* they were preserves the registry.
LEMMA RegistryShrinks ==
  ASSUME RegistryHoldsLiveAsks,
         \A i \in Id :
           \/ pending'[i] = NoAsk
           \/ /\ pending'[i] = pending[i]
              /\ phase'[pending[i]] = phase[pending[i]]
              /\ future'[pending[i]] = future[pending[i]]
              /\ reply'[pending[i]] = reply[pending[i]]
  PROVE  RegistryHoldsLiveAsks'
BY DEF RegistryHoldsLiveAsks, HttpAskIsLive

LEMMA AskKeepsRegistry ==
  ASSUME RegistryInv, NEW a \in Ask, AskStep(a)
  PROVE  RegistryHoldsLiveAsks'
<1> USE AskAssumption DEF RegistryInv
<1>1. CASE Prompt(a)
  <2>1. \A i \in Id : pending[i] # a
    BY <1>1 DEF Prompt, RegistryHoldsLiveAsks, HttpAskIsLive, Ask
  <2>2. /\ phase'[a] = "push" /\ reply' = reply
        /\ a \in HttpAsk => future'[a] = "open"
        /\ \A b \in Ask : b # a => phase'[b] = phase[b] /\ future'[b] = future[b]
    BY <1>1 DEF Prompt, TypeOK, Ask
  <2>3. \A i \in Id : pending'[i] = IF i = IdOf[a] THEN a ELSE pending[i]
    BY <1>1 DEF Prompt, TypeOK
  <2> QED
    BY <2>1, <2>2, <2>3 DEF RegistryHoldsLiveAsks, HttpAskIsLive, TypeOK
<1>2. CASE PromptRefused(a) \/ PushFails(a) \/ Answered(a) \/ GiveUp(a)
           \/ ReplyTimeout(a)
  <2>1. /\ pending' = Without(IdOf[a]) /\ future' = future
        /\ \A b \in Ask : b # a => phase'[b] = phase[b] /\ reply'[b] = reply[b]
    BY <1>2 DEF PromptRefused, PushFails, Refuse, Answered, GiveUp, ReplyTimeout,
                Reply, TypeOK
  <2>2. \A i \in Id : pending[i] = a => i = IdOf[a]
    BY DEF RegistryHoldsLiveAsks
  <2> QED
    BY <2>1, <2>2, WithoutEntry, RegistryShrinks DEF TypeOK
<1>3. CASE PushDone(a)
  BY <1>3 DEF PushDone, RegistryHoldsLiveAsks, HttpAskIsLive, TypeOK, Ask
<1>4. CASE DeadlinePasses(a)
  BY <1>4, RegistryShrinks DEF DeadlinePasses
<1>5. CASE TimerFires(a)
  BY <1>5 DEF TimerFires, RegistryHoldsLiveAsks, HttpAskIsLive, TypeOK
<1>6. CASE CancelFuture(a)
  BY <1>6 DEF CancelFuture, RegistryHoldsLiveAsks, HttpAskIsLive, TypeOK
<1>7. CASE RetireClarifyCard(a)
  BY <1>7, WithoutEntry, RegistryShrinks DEF RetireClarifyCard, asks
<1>8. CASE HandlerCancelled(a)
  <2>1. /\ phase'[a] = "done" /\ reply'[a] = "dropped" /\ future' = future
        /\ \A b \in Ask : b # a => phase'[b] = phase[b] /\ reply'[b] = reply[b]
    BY <1>8 DEF HandlerCancelled, TypeOK
  <2>2. \A i \in Id : pending[i] = a => i = IdOf[a]
    BY DEF RegistryHoldsLiveAsks
  <2>3. CASE phase[a] = "push"
    <3>1. pending' = pending /\ a \in HttpAsk
      BY <1>8, <2>3 DEF HandlerCancelled
    <3> QED
      BY <2>1, <2>3, <3>1 DEF RegistryHoldsLiveAsks, HttpAskIsLive, TypeOK
  <2>4. CASE phase[a] # "push"
    <3>1. pending' = Without(IdOf[a])
      BY <1>8, <2>4 DEF HandlerCancelled
    <3> QED
      BY <2>1, <2>2, <3>1, WithoutEntry, RegistryShrinks DEF TypeOK
  <2> QED
    BY <2>3, <2>4
<1> QED
  BY <1>1, <1>2, <1>3, <1>4, <1>5, <1>6, <1>7, <1>8 DEF AskStep

LEMMA SettledLeaves ==
  ASSUME RegistryInv, NEW S, NEW v, Settle(S, v),
         \A i \in Id : \/ pending'[i] = NoAsk
                       \/ pending'[i] = pending[i] /\ pending[i] \notin S,
         phase' = phase, reply' = reply
  PROVE  RegistryHoldsLiveAsks'
BY RegistryShrinks DEF RegistryInv, Settle, TypeOK

LEMMA OtherKeepsRegistry ==
  ASSUME RegistryInv,
         \/ \E l \in Link : LinkStep(l)
         \/ ElsewhereStep
         \/ \E e \in Observed : Observe(e)
         \/ SweepStarts \/ SweepContinues
         \/ DisconnectBegins \/ DisconnectSettles \/ ListenerDown \/ Connect
  PROVE  RegistryHoldsLiveAsks'
<1> DEFINE Untouched == /\ phase' = phase /\ future' = future
                        /\ reply' = reply /\ pending' = pending
<1>1. ASSUME Untouched
      PROVE  RegistryHoldsLiveAsks'
  BY <1>1, RegistryShrinks DEF RegistryInv
<1>2. \A i, j \in Id : pending[i] # NoAsk /\ pending[i] = pending[j] => i = j
  BY DEF RegistryInv, RegistryHoldsLiveAsks
<1>3. ASSUME NEW l \in Link, LinkStep(l)
      PROVE  RegistryHoldsLiveAsks'
  <2>1. ASSUME NEW i \in Id, NEW c \in Choice, Answer(l, i, c)
        PROVE  RegistryHoldsLiveAsks'
    <3>1. \A j \in Id : \/ pending'[j] = NoAsk
                        \/ pending'[j] = pending[j] /\ pending[j] \notin {pending[i]}
      BY <2>1, <1>2, WithoutEntry DEF Answer
    <3>2. Settle({pending[i]}, c) /\ phase' = phase /\ reply' = reply
      BY <2>1 DEF Answer
    <3> QED
      BY <3>1, <3>2, SettledLeaves
  <2>2. CASE Unblock(l)
    <3>1. /\ phase' = phase /\ future' = future /\ pending' = pending
          /\ \A b \in HttpAsk : reply'[b] = reply[b]
      BY <2>2, AskAssumption
      DEF Unblock, RegistryInv, UnblocksHermes, TypeOK, Ask
    <3> QED
      BY <3>1 DEF RegistryInv, RegistryHoldsLiveAsks, HttpAskIsLive
  <2>3. ASSUME ~Unblock(l), ~\E i \in Id, c \in Choice : Answer(l, i, c)
        PROVE  Untouched
    BY <1>3, <2>3 DEF LinkStep, Join, Renames, StrayAuthorized,
      StrayReplaced, SocketCloses, PingFails, Revoked,
      SocketCancelled, UnblockFails, Announced, asks
  <2> QED
    BY <2>1, <2>2, <2>3, <1>1
<1>4. ASSUME NEW i \in Id \union {""}, NEW c \in Settled, PostResolved(i, c)
      PROVE  RegistryHoldsLiveAsks'
  <2>1. CASE i \in Id
    <3>1. \A j \in Id : \/ pending'[j] = NoAsk
                        \/ pending'[j] = pending[j] /\ pending[j] \notin {pending[i]}
      BY <1>4, <2>1, <1>2, WithoutEntry DEF PostResolved
    <3>2. Settle({pending[i]}, c) /\ phase' = phase /\ reply' = reply
      BY <1>4, <2>1 DEF PostResolved
    <3> QED
      BY <3>1, <3>2, SettledLeaves
  <2>2. CASE i \notin Id
    BY <1>4, <2>2, WithoutEntry, RegistryShrinks DEF PostResolved, RegistryInv
  <2> QED
    BY <2>1, <2>2
<1>5. ASSUME NEW i \in Id \union {""}, NEW c \in Settled, ObserveResolved(i, c)
      PROVE  RegistryHoldsLiveAsks'
  BY <1>5, WithoutEntry, RegistryShrinks DEF ObserveResolved, RegistryInv
<1>6. ASSUME NEW a \in Ask, SweepEntry(a)
      PROVE  RegistryHoldsLiveAsks'
  <2>1. \A i \in Id : pending[i] = a => i = IdOf[a]
    BY AskAssumption DEF RegistryInv, RegistryHoldsLiveAsks
  <2> QED
    BY <1>6, <2>1, WithoutEntry, SettledLeaves DEF SweepEntry
<1>7. CASE SweepStarts \/ SweepContinues
  BY <1>6, <1>7 DEF SweepStarts, SweepContinues, Expired, RegistryInv, TypeOK
<1>8. CASE DisconnectSettles
  BY <1>8, SettledLeaves DEF DisconnectSettles
<1>9. CASE DisconnectBegins \/ ListenerDown \/ Connect
           \/ (\E e \in Observed : Observe(e))
  BY <1>1, <1>9 DEF DisconnectBegins, ListenerDown, Connect, Observe, asks
<1> QED
  BY <1>3, <1>4, <1>5, <1>7, <1>8, <1>9 DEF ElsewhereStep

LEMMA NextRegistry ==
  RegistryInv /\ [Next]_vars => RegistryHoldsLiveAsks'
<1>1. CASE UNCHANGED vars
  BY <1>1, RegistryShrinks DEF vars, asks, RegistryInv
<1>2. CASE Next
  BY <1>2, AskKeepsRegistry, OtherKeepsRegistry DEF Next
<1> QED
  BY <1>1, <1>2

LEMMA RegistryInvAlways == Spec => []RegistryInv
<1>1. Init => RegistryHoldsLiveAsks /\ UnblocksHermes
  BY DEF Init, RegistryHoldsLiveAsks, UnblocksHermes, Idle
<1>2. RegistryInv <=> TypeOK /\ RegistryHoldsLiveAsks /\ UnblocksHermes
  BY DEF RegistryInv
<1> QED
  BY <1>1, <1>2, TypeCorrect, NextRegistry, NextUnblocks, PTL DEF Spec

\* Nothing pending outlives the presenter that would tell its caller.
THEOREM RegistryIsLive == Spec => []RegistryHoldsLiveAsks
<1>1. RegistryInv => RegistryHoldsLiveAsks
  BY DEF RegistryInv
<1> QED
  BY <1>1, RegistryInvAlways, PTL

-----------------------------------------------------------------------------
(* Decisions.                                                              *)

\* A decision is only taken for an ask that is in the registry, and taking it
\* removes the ask, so there is at most one.
PendingIsUndecided ==
  /\ \A i \in Id : pending[i] # NoAsk => verdict[pending[i]] = NoOne
  /\ \A a \in Ask : phase[a] = "new" => verdict[a] = NoOne

\* A settled future holds the decision.
FutureIsDecision ==
  \A a \in HttpAsk : future[a] \in Choice =>
    /\ verdict[a].choice = future[a]
    /\ verdict[a].by = "watch" => OnMenu(a, future[a])

DecisionInv == PendingIsUndecided /\ FutureIsDecision /\ NoInventedAnswer

\* Steps that take no decision.
LEMMA UndecidedStep ==
  ASSUME RegistryInv, DecisionInv, verdict' = verdict,
         \A i \in Id : \/ pending'[i] \in {NoAsk, pending[i]}
                       \/ pending'[i] \in Ask /\ phase[pending'[i]] = "new",
         \A a \in Ask : phase'[a] = "new" => phase[a] = "new",
         \A a \in HttpAsk :
           /\ future'[a] = future[a] \/ future'[a] \notin Choice
           /\ \/ reply'[a] = reply[a] \/ reply'[a] \notin Choice
              \/ reply'[a] = future[a]
  PROVE  DecisionInv'
<1> USE DEF DecisionInv, Ask
<1>1. PendingIsUndecided'
  BY DEF PendingIsUndecided
<1>2. FutureIsDecision'
  BY DEF FutureIsDecision
<1>3. NoInventedAnswer'
  BY DEF NoInventedAnswer, FutureIsDecision
<1> QED
  BY <1>1, <1>2, <1>3

LEMMA EntryFacts ==
  ASSUME RegistryInv, NEW j \in Id, pending[j] # NoAsk
  PROVE  /\ pending[j] \in Ask
         /\ IdOf[pending[j]] = j
         /\ phase[pending[j]] # "new"
         /\ pending[j] \in HttpAsk => future[pending[j]] \in {"open", "cancelled"}
<1>1. pending[j] \in Ask
  BY DEF RegistryInv, TypeOK
<1> QED
  BY <1>1 DEF RegistryInv, RegistryHoldsLiveAsks, HttpAskIsLive, Ask

\* Steps that take one: on the watch, or elsewhere.
LEMMA DecisionStep ==
  ASSUME RegistryInv, DecisionInv,
         NEW i \in Id \union {""}, NEW by \in {"watch", "elsewhere"},
         NEW c \in Settled, Decide(i, by, c), pending' = Without(i),
         by = "watch" => i \in Id /\ OnMenu(pending[i], c),
         phase' = phase, \A a \in HttpAsk : reply'[a] = reply[a],
         future' = future \/ (i \in Id /\ Settle({pending[i]}, c))
  PROVE  DecisionInv'
<1>1. \A a \in Ask : (i \in Id => pending[i] # a) => verdict'[a] = verdict[a]
  BY DEF Decide
<1>2. \A a \in Ask : i \in Id /\ pending[i] = a /\ c \in Choice =>
        /\ verdict'[a].choice = c
        /\ verdict'[a].by = by
  BY DEF Decide
<1>3. HttpAsk \subseteq Ask /\ NoAsk \notin Ask
  BY AskAssumption DEF Ask
<1>4. PendingIsUndecided'
  <2>1. ASSUME NEW j \in Id, pending'[j] # NoAsk
        PROVE  verdict'[pending'[j]] = NoOne
    <3>1. i # j /\ pending'[j] = pending[j] /\ pending[j] # NoAsk
      BY <2>1, WithoutEntry
    <3>2. pending[j] \in Ask /\ IdOf[pending[j]] = j
      BY <3>1, EntryFacts
    <3>3. i \in Id => pending[i] # pending[j]
      BY <3>1, <3>2, EntryFacts
    <3>4. verdict[pending[j]] = NoOne
      BY <3>1 DEF DecisionInv, PendingIsUndecided
    <3> QED
      BY <1>1, <3>1, <3>2, <3>3, <3>4
  <2>2. ASSUME NEW a \in Ask, phase'[a] = "new"
        PROVE  verdict'[a] = NoOne
    <3>1. phase[a] = "new" /\ verdict[a] = NoOne
      BY <2>2 DEF DecisionInv, PendingIsUndecided
    <3>2. i \in Id => pending[i] # a
      BY <3>1, <1>3, EntryFacts
    <3> QED
      BY <1>1, <3>1, <3>2
  <2>3. NoOne' = NoOne
    BY DEF NoOne
  <2> QED
    BY <2>1, <2>2, <2>3 DEF PendingIsUndecided
<1>5. FutureIsDecision'
  <2> SUFFICES ASSUME NEW a \in HttpAsk, future'[a] \in Choice
               PROVE  /\ verdict'[a].choice = future'[a]
                      /\ verdict'[a].by = "watch" => OnMenu(a, future'[a])
    BY DEF FutureIsDecision, OnMenu
  <2>1. CASE i \in Id /\ pending[i] = a
    <3>1. future[a] \in {"open", "cancelled"}
      BY <2>1, <1>3, EntryFacts
    <3>2. future[a] \notin Choice
      BY <3>1, ChoiceAssumption
    <3>3. future'[a] = c /\ c \in Choice
      BY <2>1, <3>2, <1>3 DEF Settle
    <3> QED
      BY <2>1, <3>3, <1>2, <1>3 DEF OnMenu
  <2>2. CASE ~(i \in Id /\ pending[i] = a)
    <3>1. future'[a] = future[a] /\ verdict'[a] = verdict[a]
      BY <2>2, <1>1, <1>3 DEF Settle
    <3> QED
      BY <3>1 DEF DecisionInv, FutureIsDecision
  <2> QED
    BY <2>1, <2>2
<1>6. NoInventedAnswer'
  <2> SUFFICES ASSUME NEW a \in HttpAsk, reply'[a] \in Choice
               PROVE  verdict'[a] = verdict[a] /\ reply'[a] = reply[a]
    BY DEF DecisionInv, NoInventedAnswer, OnMenu
  <2>1. verdict[a].choice \in Choice
    BY DEF DecisionInv, NoInventedAnswer
  <2>2. verdict[a] # NoOne
    <3>1. NoOne.choice = "no_answer"
      BY DEF NoOne
    <3>2. "no_answer" \notin Choice
      BY ChoiceAssumption
    <3> QED
      BY <2>1, <3>1, <3>2
  <2>3. i \in Id => pending[i] # a
    BY <2>2, <1>3 DEF DecisionInv, PendingIsUndecided
  <2> QED
    BY <1>1, <1>3, <2>3
<1> QED
  BY <1>4, <1>5, <1>6 DEF DecisionInv

LEMMA NextDecisions ==
  RegistryInv /\ DecisionInv /\ [Next]_vars => DecisionInv'
<1> SUFFICES ASSUME RegistryInv, DecisionInv, [Next]_vars
             PROVE  DecisionInv'
  OBVIOUS
<1>1. HttpAsk \subseteq Ask /\ HttpAsk \cap GatewayAsk = {}
  BY AskAssumption DEF Ask
<1>2. /\ Choice \subseteq Settled
      /\ {"open", "cancelled", "no_answer", "unavailable", "dropped"}
           \cap Choice = {}
  BY ChoiceAssumption DEF Settled
<1>3. ASSUME NEW l \in Link, NEW i \in Id, NEW c \in Choice, Answer(l, i, c)
      PROVE  DecisionInv'
  <2>1. /\ Decide(i, "watch", c) /\ pending' = Without(i)
        /\ OnMenu(pending[i], c) /\ Settle({pending[i]}, c)
        /\ phase' = phase /\ reply' = reply
    BY <1>3 DEF Answer
  <2> QED
    BY <2>1, <1>2, DecisionStep
<1>4. ASSUME NEW i \in Id \union {""}, NEW c \in Settled,
             PostResolved(i, c) \/ ObserveResolved(i, c)
      PROVE  DecisionInv'
  <2>1. /\ Decide(i, "elsewhere", c) /\ pending' = Without(i)
        /\ future' = future \/ (i \in Id /\ Settle({pending[i]}, c))
        /\ phase' = phase /\ reply' = reply
    BY <1>4 DEF PostResolved, ObserveResolved
  <2> QED
    BY <2>1, DecisionStep
<1>5. ASSUME NEW a \in Ask, AskStep(a)
      PROVE  DecisionInv'
  <2>1. verdict' = verdict
    BY <1>5 DEF AskStep, Prompt, PromptRefused, PushDone, PushFails,
      DeadlinePasses, Answered, TimerFires, CancelFuture, GiveUp, ReplyTimeout,
      RetireClarifyCard, HandlerCancelled, asks
  <2>2. \A i \in Id : \/ pending'[i] \in {NoAsk, pending[i]}
                      \/ pending'[i] \in Ask /\ phase[pending'[i]] = "new"
    BY <1>5, WithoutEntry DEF AskStep, Prompt, PromptRefused, PushDone,
      PushFails, Refuse, DeadlinePasses, Answered, TimerFires, CancelFuture,
      GiveUp, ReplyTimeout, Reply, RetireClarifyCard, HandlerCancelled,
      RegistryInv, TypeOK
  <2>3. \A b \in Ask : phase'[b] = "new" => phase[b] = "new"
    BY <1>5 DEF AskStep, Prompt, PromptRefused, PushDone, PushFails, Refuse,
      DeadlinePasses, Answered, TimerFires, CancelFuture, GiveUp, ReplyTimeout,
      Reply, RetireClarifyCard, HandlerCancelled, asks, RegistryInv, TypeOK
  <2>4. \A b \in HttpAsk : future'[b] = future[b] \/ future'[b] \notin Choice
    BY <1>5, <1>1, <1>2 DEF AskStep, Prompt, PromptRefused, PushDone, PushFails,
      DeadlinePasses, Answered, TimerFires, CancelFuture, GiveUp, ReplyTimeout,
      RetireClarifyCard, HandlerCancelled, asks, RegistryInv, TypeOK
  <2>5. \A b \in HttpAsk : \/ reply'[b] = reply[b] \/ reply'[b] \notin Choice
                           \/ reply'[b] = future[b]
    BY <1>5, <1>1, <1>2 DEF AskStep, Prompt, PromptRefused, PushDone, PushFails,
      Refuse, DeadlinePasses, Answered, TimerFires, CancelFuture, GiveUp,
      ReplyTimeout, Reply, RetireClarifyCard, HandlerCancelled, asks,
      RegistryInv, TypeOK
  <2> QED
    BY <2>1, <2>2, <2>3, <2>4, <2>5, UndecidedStep
<1>6. ASSUME NEW l \in Link, Unblock(l)
      PROVE  DecisionInv'
  <2>1. \A b \in HttpAsk : reply'[b] = reply[b]
    BY <1>6, <1>1 DEF Unblock, UnblocksHermes, RegistryInv, TypeOK
  <2> QED
    BY <1>6, <2>1, UndecidedStep DEF Unblock
<1>7. ASSUME NEW a \in Ask, SweepEntry(a)
      PROVE  DecisionInv'
  <2>1. \A b \in HttpAsk : future'[b] = future[b] \/ future'[b] \notin Choice
    BY <1>7, <1>1, <1>2 DEF SweepEntry, Settle
  <2> QED
    BY <1>7, <2>1, WithoutEntry, UndecidedStep DEF SweepEntry
<1>8. CASE SweepStarts \/ SweepContinues
  BY <1>7, <1>8 DEF SweepStarts, SweepContinues, Expired, RegistryInv, TypeOK
<1>9. CASE DisconnectSettles
  <2>1. \A b \in HttpAsk : future'[b] = future[b] \/ future'[b] \notin Choice
    BY <1>9, <1>1, <1>2 DEF DisconnectSettles, Settle
  <2> QED
    BY <1>9, <2>1, UndecidedStep DEF DisconnectSettles
<1>10. ASSUME UNCHANGED <<phase, future, reply, verdict, pending>>
       PROVE  DecisionInv'
  BY <1>10, UndecidedStep
<1>11. ASSUME NEW l \in Link,
              \/ Join(l) \/ Renames(l) \/ StrayAuthorized(l) \/ StrayReplaced(l)
              \/ SocketCloses(l) \/ PingFails(l) \/ Revoked(l)
              \/ SocketCancelled(l) \/ UnblockFails(l) \/ Announced(l)
       PROVE  DecisionInv'
  BY <1>10, <1>11 DEF Join, Renames, StrayAuthorized,
      StrayReplaced, SocketCloses, PingFails, Revoked, SocketCancelled,
    UnblockFails, Announced, asks
<1>12. CASE DisconnectBegins \/ ListenerDown \/ Connect
            \/ (\E e \in Observed : Observe(e)) \/ UNCHANGED vars
  BY <1>10, <1>12 DEF DisconnectBegins, ListenerDown, Connect, Observe, vars, asks
<1> QED
  BY <1>3, <1>4, <1>5, <1>6, <1>8, <1>9, <1>11, <1>12
  DEF Next, LinkStep, ElsewhereStep

LEMMA DecisionInvAlways == Spec => [](RegistryInv /\ DecisionInv)
<1>1. Init => DecisionInv
  BY ChoiceAssumption, AskAssumption
  DEF Init, DecisionInv, PendingIsUndecided, FutureIsDecision,
      NoInventedAnswer, Ask
<1>2. RegistryInv /\ DecisionInv /\ [Next]_vars => DecisionInv'
  BY NextDecisions
<1> QED
  BY <1>1, <1>2, RegistryInvAlways, PTL DEF Spec

\* A caller is only told a choice a human made for it.
THEOREM NoAnswerIsInvented == Spec => []NoInventedAnswer
<1>1. DecisionInv => NoInventedAnswer
  BY DEF DecisionInv
<1> QED
  BY <1>1, DecisionInvAlways, PTL

-----------------------------------------------------------------------------
(* The state line.                                                         *)

LEMMA EnterKeepsParenthesis ==
  ASSUME WaitIsAParenthesis, TypeOK, NEW s \in AgentState, EnterState(s)
  PROVE  WaitIsAParenthesis'
BY DEF EnterState, SetState, WaitIsAParenthesis, TypeOK, AgentState, Waiting,
       Working

LEMMA ResumeKeepsParenthesis ==
  ASSUME WaitIsAParenthesis, ResumeAfterWait
  PROVE  WaitIsAParenthesis' /\ agentState' \notin Waiting
BY DEF ResumeAfterWait, SetState, WaitIsAParenthesis, AgentState, Waiting,
       Working

\* A step either leaves the state line alone, enters a state or resumes.
LEMMA LineStep ==
  ASSUME [Next]_vars
  PROVE  \/ UNCHANGED line
         \/ ResumeAfterWait
         \/ \E s \in AgentState : EnterState(s)
<1>1. ASSUME NEW a \in Ask, AskStep(a)
      PROVE  \/ UNCHANGED line
             \/ ResumeAfterWait
             \/ \E s \in AgentState : EnterState(s)
  BY <1>1, WaitStateType DEF AskStep, Prompt, PromptRefused, PushDone, PushFails,
    DeadlinePasses, Answered, TimerFires, CancelFuture, GiveUp, ReplyTimeout,
    RetireClarifyCard, HandlerCancelled, ResumeIfNonePending, line
<1>2. ASSUME NEW l \in Link, LinkStep(l)
      PROVE  UNCHANGED line \/ ResumeAfterWait
  BY <1>2 DEF LinkStep, Join, Renames, StrayAuthorized,
      StrayReplaced, SocketCloses, PingFails, Revoked,
    SocketCancelled, Answer, Unblock, UnblockFails, Announced,
    ResumeIfNonePending, line
<1>3. CASE ElsewhereStep
  BY <1>3 DEF ElsewhereStep, PostResolved, ObserveResolved, line
<1>4. ASSUME NEW e \in Observed, Observe(e)
      PROVE  \E s \in AgentState : EnterState(s)
  BY <1>4, StateAfterType DEF Observe
<1>5. CASE SweepStarts \/ SweepContinues
  BY <1>5 DEF SweepStarts, SweepContinues, SweepEntry
<1>6. CASE DisconnectBegins \/ DisconnectSettles \/ ListenerDown \/ Connect
           \/ UNCHANGED vars
  BY <1>6 DEF DisconnectBegins, DisconnectSettles, ListenerDown, Connect, vars
<1> QED
  BY <1>1, <1>2, <1>3, <1>4, <1>5, <1>6 DEF Next

\* A wait is a parenthesis: a resume always leaves it.
THEOREM WaitIsAlwaysAParenthesis == Spec => []WaitIsAParenthesis
<1>1. Init => WaitIsAParenthesis
  BY DEF Init, WaitIsAParenthesis, Waiting, Working
<1>2. TypeOK /\ WaitIsAParenthesis /\ [Next]_vars => WaitIsAParenthesis'
  <2> SUFFICES ASSUME TypeOK, WaitIsAParenthesis, [Next]_vars
               PROVE  WaitIsAParenthesis'
    OBVIOUS
  <2>1. CASE UNCHANGED line
    BY <2>1 DEF line, WaitIsAParenthesis
  <2> QED
    BY <2>1, LineStep, EnterKeepsParenthesis, ResumeKeepsParenthesis
<1> QED
  BY <1>1, <1>2, TypeCorrect, PTL DEF Spec

-----------------------------------------------------------------------------
(* Callers.                                                                *)

\* Whoever is parked on an open future can be answered.
THEOREM WaitersAreReachable == Spec => []NoLostWaiter
<1>1. Init => NoLostWaiter
  BY AskAssumption DEF Init, NoLostWaiter, Ask
<1>2. RegistryInv /\ NoLostWaiter /\ [Next]_vars => NoLostWaiter'
  <2> SUFFICES ASSUME RegistryInv, NoLostWaiter, [Next]_vars,
                      UniqueIds, ~CoLocated, NEW a \in HttpAsk,
                      phase'[a] \in {"push", "wait"}, future'[a] = "open"
               PROVE  pending'[IdOf[a]] = a
    BY DEF NoLostWaiter, UniqueIds
  <2>1. /\ a \in Ask /\ a \notin GatewayAsk /\ IdOf[a] \in Id
        /\ IdOf[a] # "" /\ "open" \notin Settled
    BY AskAssumption, ChoiceAssumption, EnvironmentAssumption DEF Ask, Settled
  <2>2. phase[a] \in {"push", "wait"} /\ future[a] = "open" =>
          pending[IdOf[a]] = a
    BY DEF NoLostWaiter
  <2>3. ASSUME NEW b \in Ask, AskStep(b)
        PROVE  pending'[IdOf[a]] = a
    <3>1. CASE b = a
      <4>1. CASE Prompt(a)
        BY <4>1, <2>1 DEF Prompt, RegistryInv, TypeOK
      <4>2. CASE ~Prompt(a)
        BY <2>3, <3>1, <4>2, <2>1, <2>2 DEF AskStep, PromptRefused, PushDone,
          PushFails, Refuse, DeadlinePasses, Answered, TimerFires, CancelFuture,
          GiveUp, ReplyTimeout, Reply, RetireClarifyCard, HandlerCancelled,
          asks, RegistryInv, TypeOK
      <4> QED
        BY <4>1, <4>2
    <3>2. CASE b # a
      <4>1. IdOf[b] # IdOf[a]
        BY <3>2, <2>1 DEF UniqueIds
      <4>2. phase'[a] = phase[a] /\ future'[a] = future[a]
        BY <2>3, <3>2, <2>1 DEF AskStep, Prompt, PromptRefused, PushDone,
          PushFails, Refuse, DeadlinePasses, Answered, TimerFires, CancelFuture,
          GiveUp, ReplyTimeout, Reply, RetireClarifyCard, HandlerCancelled,
          asks, RegistryInv, TypeOK
      <4>3. \/ pending' = pending \/ pending' = Without(IdOf[b])
            \/ pending' = [pending EXCEPT ![IdOf[b]] = b]
        BY <2>3 DEF AskStep, Prompt, PromptRefused, PushDone, PushFails, Refuse,
          DeadlinePasses, Answered, TimerFires, CancelFuture, GiveUp,
          ReplyTimeout, Reply, RetireClarifyCard, HandlerCancelled
      <4>4. pending'[IdOf[a]] = pending[IdOf[a]]
        <5>1. pending \in [Id -> Ask \union {NoAsk}]
          BY DEF RegistryInv, TypeOK
        <5>2. Without(IdOf[b])[IdOf[a]] = pending[IdOf[a]]
          BY <4>1, <2>1, WithoutEntry
        <5>3. [pending EXCEPT ![IdOf[b]] = b][IdOf[a]] = pending[IdOf[a]]
          BY <4>1, <2>1, <5>1
        <5> QED
          BY <4>3, <5>2, <5>3
      <4> QED
        BY <4>2, <4>4, <2>2
    <3> QED
      BY <3>1, <3>2
  <2>4. ASSUME NEW i, NEW v \in Settled, pending' = Without(i), phase' = phase,
               \/ Settle({pending[i]}, v)
               \/ Settle({a}, v)
               \/ future' = future /\ i # IdOf[a]
        PROVE  pending'[IdOf[a]] = a
    <3>1. future[a] = "open"
      BY <2>4, <2>1 DEF Settle
    <3>2. pending[IdOf[a]] = a
      BY <2>2, <2>4, <3>1
    <3>3. i # IdOf[a]
      BY <2>4, <3>1, <3>2, <2>1 DEF Settle
    <3> QED
      BY <2>4, <2>1, <3>2, <3>3, WithoutEntry
  <2>5. ASSUME NEW l \in Link, LinkStep(l)
        PROVE  pending'[IdOf[a]] = a
    <3>1. ASSUME NEW i \in Id, NEW c \in Choice, Answer(l, i, c)
          PROVE  pending'[IdOf[a]] = a
      BY <3>1, <2>4 DEF Answer, Settled
    <3>2. CASE UNCHANGED <<phase, future, pending>>
      BY <3>2, <2>2
    <3> QED
      BY <2>5, <3>1, <3>2 DEF LinkStep, Join, Renames, StrayAuthorized,
      StrayReplaced, SocketCloses, PingFails, Revoked,
        SocketCancelled, Unblock, UnblockFails, Announced, asks
  <2>6. CASE ElsewhereStep
    <3>1. PICK i \in Id \union {""}, c \in Settled : PostResolved(i, c)
      BY <2>6 DEF ElsewhereStep, ObserveResolved
    <3>2. CASE i \in Id
      BY <3>1, <3>2, <2>4 DEF PostResolved
    <3>3. CASE i \notin Id
      BY <3>1, <3>3, <2>1, <2>4 DEF PostResolved
    <3> QED
      BY <3>2, <3>3
  <2>7. ASSUME NEW b \in Ask, SweepEntry(b)
        PROVE  pending'[IdOf[a]] = a
    <3>1. CASE b = a
      BY <2>7, <3>1, <2>4 DEF SweepEntry, Settled
    <3>2. CASE b # a
      <4>1. IdOf[b] # IdOf[a] /\ future'[a] = future[a]
        BY <2>7, <3>2, <2>1 DEF SweepEntry, Settle, UniqueIds
      <4> QED
        BY <2>7, <4>1, <2>1, <2>2, WithoutEntry DEF SweepEntry
    <3> QED
      BY <3>1, <3>2
  <2>8. CASE SweepStarts \/ SweepContinues
    BY <2>8, <2>7 DEF SweepStarts, SweepContinues, Expired, RegistryInv, TypeOK
  <2>9. CASE DisconnectSettles
    <3>1. future[a] = "open" /\ phase[a] \in {"push", "wait"}
      BY <2>9, <2>1 DEF DisconnectSettles, Settle, Settled
    <3>2. future'[a] = "no_answer"
      BY <2>9, <3>1, <2>1, <2>2 DEF DisconnectSettles, Settle
    <3> QED
      BY <3>2
  <2>10. CASE UNCHANGED <<phase, future, pending>>
    BY <2>10, <2>2
  <2> QED
    BY <2>3, <2>5, <2>6, <2>8, <2>9, <2>10 DEF Next, DisconnectBegins,
      ListenerDown, Connect, Observe, vars, asks
<1> QED
  BY <1>1, <1>2, RegistryInvAlways, PTL DEF Spec

\* A decision taken on the watch is in the future of its ask, unless the timer
\* cancelled that future first, which it does only after the deadline.
HeardAsk(a) ==
  /\ phase[a] = "new" => future[a] = "none"
  /\ phase[a] \in {"late", "stats"} => overdue[a]
  /\ phase[a] = "stats" => TimerCancels \/ future[a] = "cancelled"
  /\ future[a] = "cancelled" => phase[a] \in {"late", "stats", "done"}
  /\ verdict[a].by = "watch" => future[a] \in {verdict[a].choice, "cancelled"}
  /\ phase[a] = "done" /\ verdict[a].by = "watch" =>
       \/ reply[a] \in {verdict[a].choice, "unavailable", "dropped"}
       \/ /\ reply[a] = "no_answer" /\ overdue[a]
          /\ TimerCancels \/ future[a] = "cancelled"

HeardInv == \A a \in HttpAsk : HeardAsk(a)

LEMMA HeardUnchanged ==
  ASSUME NEW a \in HttpAsk, HeardAsk(a),
         phase'[a] = phase[a], future'[a] = future[a], reply'[a] = reply[a],
         overdue'[a] = overdue[a], verdict'[a] = verdict[a]
  PROVE  HeardAsk(a)'
BY DEF HeardAsk

\* A future that a decision settled is not settled again.
LEMMA HeardSettled ==
  ASSUME NEW a \in HttpAsk, TypeOK, HeardAsk(a), NEW v \in Settled,
         phase[a] # "new",
         phase'[a] = phase[a], reply'[a] = reply[a], overdue'[a] = overdue[a],
         verdict'[a] = verdict[a],
         future'[a] = future[a] \/ (future[a] = "open" /\ future'[a] = v)
  PROVE  HeardAsk(a)'
<1>1. v # "cancelled" /\ "open" \notin Settled
  BY ChoiceAssumption DEF Settled
<1>2. verdict[a].choice \in Settled
  BY DEF TypeOK, Ask
<1>3. future'[a] = "cancelled" => future[a] = "cancelled"
  BY <1>1
<1>4. verdict[a].by = "watch" => future'[a] = future[a]
  BY <1>1, <1>2 DEF HeardAsk
<1>5. future[a] = "cancelled" => future'[a] = "cancelled"
  OBVIOUS
<1> QED
  BY <1>3, <1>4, <1>5 DEF HeardAsk

LEMMA HeardAskStep ==
  ASSUME RegistryInv, DecisionInv, HeardInv, NEW b \in Ask, AskStep(b),
         NEW a \in HttpAsk
  PROVE  HeardAsk(a)'
<1>1. a \in Ask /\ HeardAsk(a) /\ TypeOK
  BY DEF Ask, HeardInv, RegistryInv
<1>2. verdict' = verdict
  BY DEF AskStep, Prompt, PromptRefused, PushDone, PushFails, DeadlinePasses,
    Answered, TimerFires, CancelFuture, GiveUp, ReplyTimeout,
    RetireClarifyCard, HandlerCancelled, asks
<1>3. CASE b # a
  <2>1. /\ phase'[a] = phase[a] /\ future'[a] = future[a]
        /\ reply'[a] = reply[a] /\ overdue'[a] = overdue[a]
    BY <1>1, <1>3 DEF AskStep, Prompt, PromptRefused, PushDone, PushFails,
      Refuse, DeadlinePasses, Answered, TimerFires, CancelFuture, GiveUp,
      ReplyTimeout, Reply, RetireClarifyCard, HandlerCancelled, asks, TypeOK
  <2> QED
    BY <1>1, <1>2, <2>1, HeardUnchanged
<1>4. CASE b = a
  <2>0. /\ phase \in [Ask -> Phases] /\ future \in [Ask -> Futures]
        /\ reply \in [Ask -> Replies] /\ overdue \in [Ask -> BOOLEAN]
    BY <1>1 DEF TypeOK
  <2>1. CASE Prompt(a) \/ PromptRefused(a)
    <3>1. phase[a] = "new" /\ verdict[a].by = "nobody" /\ future[a] = "none"
      BY <2>1, <1>1 DEF Prompt, PromptRefused, DecisionInv, PendingIsUndecided,
        NoOne, HeardAsk
    <3>2. phase'[a] \in {"push", "done"} /\ future'[a] \in {"none", "open"}
      BY <2>0, <2>1, <3>1, <1>1 DEF Prompt, PromptRefused, Refuse
    <3> QED
      BY <3>1, <3>2, <1>2 DEF HeardAsk
  <2>2. CASE PushDone(a)
    BY <2>0, <2>2, <1>1, <1>2 DEF PushDone, HeardAsk
  <2>3. CASE PushFails(a)
    BY <2>0, <2>3, <1>1, <1>2 DEF PushFails, Refuse, HeardAsk
  <2>4. CASE DeadlinePasses(a)
    BY <2>0, <2>4, <1>1, <1>2 DEF DeadlinePasses, HeardAsk
  <2>5. CASE Answered(a)
    <3>1. "cancelled" \notin Settled
      BY ChoiceAssumption DEF Settled
    <3>2. /\ phase'[a] = "done" /\ reply'[a] = future[a]
          /\ future' = future /\ future[a] \in Settled
      BY <2>0, <2>5, <1>1 DEF Answered, Reply
    <3> QED
      BY <3>1, <3>2, <1>1, <1>2 DEF HeardAsk
  <2>6. CASE TimerFires(a)
    <3>1. /\ phase[a] = "wait" /\ phase'[a] = "late" /\ overdue[a]
          /\ overdue' = overdue /\ reply' = reply
          /\ \/ future'[a] = future[a]
             \/ future[a] = "open" /\ future'[a] = "cancelled"
      BY <2>0, <2>6, <1>1 DEF TimerFires
    <3> QED
      BY <3>1, <1>1, <1>2 DEF HeardAsk
  <2>7. CASE CancelFuture(a)
    BY <2>0, <2>7, <1>1, <1>2 DEF CancelFuture, HeardAsk
  <2>8. CASE GiveUp(a)
    BY <2>0, <2>8, <1>1, <1>2 DEF GiveUp, HeardAsk
  <2>9. CASE ReplyTimeout(a)
    BY <2>0, <2>9, <1>1, <1>2 DEF ReplyTimeout, Reply, HeardAsk
  <2>10. CASE RetireClarifyCard(a)
    BY <2>10, <1>1, HeardUnchanged DEF RetireClarifyCard, asks
  <2>11. CASE HandlerCancelled(a)
    BY <2>0, <2>11, <1>1, <1>2 DEF HandlerCancelled, HeardAsk
  <2> QED
    BY <1>4, <2>1, <2>2, <2>3, <2>4, <2>5, <2>6, <2>7, <2>8, <2>9, <2>10,
       <2>11 DEF AskStep
<1> QED
  BY <1>3, <1>4

\* Steps that take a decision for ask a.
LEMMA HeardDecision ==
  ASSUME RegistryInv, DecisionInv, NEW a \in HttpAsk, HeardAsk(a),
         NEW i \in Id, pending[i] = a, NEW by \in {"watch", "elsewhere"},
         NEW c \in Settled, Decide(i, by, c), by = "watch" => c \in Choice,
         phase' = phase, reply' = reply, overdue' = overdue,
         Settle({pending[i]}, c) \/ (by = "elsewhere" /\ future' = future)
  PROVE  HeardAsk(a)'
<1>1. a \in Ask /\ a # NoAsk /\ "cancelled" \notin Settled
  BY AskAssumption, ChoiceAssumption DEF Ask, Settled
<1>2. HttpAskIsLive(a)
  BY <1>1 DEF RegistryInv, RegistryHoldsLiveAsks
<1>3. /\ phase[a] # "new" /\ phase[a] # "stats"
      /\ phase[a] = "done" => reply[a] = "dropped"
      /\ future[a] \in {"open", "cancelled"}
  BY <1>2 DEF HttpAskIsLive
<1>4. verdict[a] = NoOne
  BY <1>1 DEF DecisionInv, PendingIsUndecided
<1>5. verdict'[a] = IF c \in Choice THEN [by |-> by, choice |-> c] ELSE NoOne
  BY <1>1, <1>4 DEF Decide
<1>6. /\ future'[a] = "cancelled" => future[a] = "cancelled"
      /\ by = "watch" => future'[a] \in {c, "cancelled"}
  BY <1>1, <1>3 DEF Settle
<1>7. verdict'[a].by = "watch" => by = "watch" /\ verdict'[a].choice = c
  BY <1>5 DEF NoOne
<1> QED
  BY <1>3, <1>6, <1>7 DEF HeardAsk

LEMMA NextHeard == RegistryInv /\ DecisionInv /\ HeardInv /\ [Next]_vars => HeardInv'
<1> SUFFICES ASSUME RegistryInv, DecisionInv, HeardInv, [Next]_vars,
                    NEW a \in HttpAsk
             PROVE  HeardAsk(a)'
  BY DEF HeardInv
<1>1. a \in Ask /\ a \notin GatewayAsk /\ HeardAsk(a) /\ TypeOK
  BY AskAssumption DEF Ask, HeardInv, RegistryInv
<1>2. ASSUME NEW i \in Id \union {""}, NEW by \in {"watch", "elsewhere"},
             NEW c \in Settled, Decide(i, by, c), ~(i \in Id /\ pending[i] = a),
             phase' = phase, reply' = reply, overdue' = overdue,
             future' = future \/ (i \in Id /\ Settle({pending[i]}, c))
      PROVE  HeardAsk(a)'
  <2>1. verdict'[a] = verdict[a] /\ future'[a] = future[a]
    BY <1>1, <1>2 DEF Decide, Settle
  <2> QED
    BY <1>1, <1>2, <2>1, HeardUnchanged
<1>3. ASSUME NEW l \in Link, NEW i \in Id, NEW c \in Choice, Answer(l, i, c)
      PROVE  HeardAsk(a)'
  <2>1. /\ c \in Settled /\ Decide(i, "watch", c) /\ Settle({pending[i]}, c)
        /\ phase' = phase /\ reply' = reply /\ overdue' = overdue
    BY <1>3 DEF Answer, Settled
  <2>2. CASE pending[i] = a
    BY <2>1, <2>2, <1>1, HeardDecision
  <2>3. CASE pending[i] # a
    BY <2>1, <2>3, <1>2
  <2> QED
    BY <2>2, <2>3
<1>4. ASSUME NEW i \in Id \union {""}, NEW c \in Settled,
             PostResolved(i, c) \/ ObserveResolved(i, c)
      PROVE  HeardAsk(a)'
  <2>1. /\ Decide(i, "elsewhere", c)
        /\ future' = future \/ (i \in Id /\ Settle({pending[i]}, c))
        /\ phase' = phase /\ reply' = reply /\ overdue' = overdue
    BY <1>4 DEF PostResolved, ObserveResolved
  <2>2. CASE i \in Id /\ pending[i] = a
    BY <2>1, <2>2, <1>1, HeardDecision
  <2>3. CASE ~(i \in Id /\ pending[i] = a)
    BY <2>1, <2>3, <1>2
  <2> QED
    BY <2>2, <2>3
<1>5. ASSUME NEW l \in Link, Unblock(l)
      PROVE  HeardAsk(a)'
  <2>1. reply'[a] = reply[a]
    BY <1>5, <1>1 DEF Unblock, RegistryInv, UnblocksHermes, TypeOK
  <2> QED
    BY <1>5, <1>1, <2>1, HeardUnchanged DEF Unblock
<1>6. ASSUME NEW S, Settle(S, "no_answer"),
             phase' = phase, reply' = reply, overdue' = overdue,
             verdict' = verdict
      PROVE  HeardAsk(a)'
  <2>1. "no_answer" \in Settled
    BY DEF Settled
  <2>2. \/ future'[a] = future[a]
        \/ future[a] = "open" /\ future'[a] = "no_answer"
    BY <1>6, <1>1 DEF Settle
  <2>3. CASE phase[a] # "new"
    BY <1>6, <1>1, <2>1, <2>2, <2>3, HeardSettled
  <2>4. CASE phase[a] = "new"
    <3>1. future'[a] = future[a]
      BY <1>1, <2>2, <2>4 DEF HeardAsk
    <3> QED
      BY <1>6, <1>1, <3>1, HeardUnchanged
  <2> QED
    BY <2>3, <2>4
<1>7. CASE SweepStarts \/ SweepContinues \/ DisconnectSettles
  BY <1>6, <1>7 DEF SweepStarts, SweepContinues, SweepEntry, DisconnectSettles
<1>8. ASSUME UNCHANGED <<phase, future, reply, overdue, verdict>>
      PROVE  HeardAsk(a)'
  BY <1>1, <1>8, HeardUnchanged
<1>9. ASSUME NEW l \in Link, LinkStep(l)
      PROVE  HeardAsk(a)'
  BY <1>3, <1>5, <1>8, <1>9 DEF LinkStep, Join, Renames, StrayAuthorized,
      StrayReplaced, SocketCloses, PingFails,
    Revoked, SocketCancelled, UnblockFails, Announced, asks
<1>10. CASE DisconnectBegins \/ ListenerDown \/ Connect
            \/ (\E e \in Observed : Observe(e)) \/ UNCHANGED vars
  BY <1>8, <1>10 DEF DisconnectBegins, ListenerDown, Connect, Observe, vars, asks
<1> QED
  BY <1>4, <1>7, <1>9, <1>10, HeardAskStep DEF Next, ElsewhereStep

\* An accepted answer reaches its caller, but for the three named cases.
THEOREM AnswersAreHeard == Spec => []AcceptedAnswerIsHeard
<1>1. Init => HeardInv
  BY DEF Init, HeardInv, HeardAsk, NoOne, Ask
<1>2. HeardInv => AcceptedAnswerIsHeard
  BY DEF HeardInv, HeardAsk, AcceptedAnswerIsHeard
<1> QED
  BY <1>1, <1>2, NextHeard, DecisionInvAlways, PTL DEF Spec

\* No step of the adapter itself ends the wait while a prompt is pending.
THEOREM WaitsEndTogether == Spec => WaitEndsWithTheLastPrompt
<1> DEFINE EndsWell == LeavesTheWait =>
      \/ IsEmpty(pending') \/ ElsewhereStep \/ \E e \in Observed : Observe(e)
<1>1. ASSUME NEW a \in Ask, AskStep(a)
      PROVE  EndsWell
  <2>1. UNCHANGED line \/ EnterState(WaitState(a)) \/ IsEmpty(pending')
    BY <1>1 DEF AskStep, Prompt, PromptRefused, PushDone, PushFails,
      DeadlinePasses, Answered, TimerFires, CancelFuture, GiveUp, ReplyTimeout,
      RetireClarifyCard, HandlerCancelled, ResumeIfNonePending, line
  <2> QED
    BY <2>1 DEF LeavesTheWait, EnterState, SetState, WaitState, Waiting, line
<1>2. ASSUME NEW l \in Link, LinkStep(l)
      PROVE  EndsWell
  BY <1>2 DEF LinkStep, Join, Renames, StrayAuthorized,
      StrayReplaced, SocketCloses, PingFails, Revoked,
    SocketCancelled, Answer, Unblock, UnblockFails, Announced,
    ResumeIfNonePending, IsEmpty, LeavesTheWait, line
<1>3. ASSUME \/ SweepStarts \/ SweepContinues \/ DisconnectBegins
             \/ DisconnectSettles \/ ListenerDown \/ Connect
      PROVE  EndsWell
  BY <1>3 DEF SweepStarts, SweepContinues, SweepEntry, DisconnectBegins,
    DisconnectSettles, ListenerDown, Connect, LeavesTheWait, line
<1>4. Next => EndsWell
  BY <1>1, <1>2, <1>3 DEF Next
<1>5. [Next]_vars => [EndsWell]_vars
  BY <1>4
<1> QED
  BY <1>5, PTL DEF Spec, WaitEndsWithTheLastPrompt

-----------------------------------------------------------------------------
(* The adapter implements the contract with its HTTP callers.              *)

LEMMA ContractStutters ==
  ASSUME \A a \in HttpAsk : /\ Status(a)' = Status(a)
                            /\ reply'[a] = reply[a] /\ verdict'[a] = verdict[a]
  PROVE  UNCHANGED Contract!vars
BY DEF Contract!vars

LEMMA ContractSubmits ==
  ASSUME NEW a \in HttpAsk, Prompt(a), TypeOK
  PROVE  Contract!Submit(a)
<1>1. a \in Ask /\ phase \in [Ask -> Phases]
  BY DEF Ask, TypeOK
<1>2. /\ phase[a] = "new" /\ phase' = [phase EXCEPT ![a] = "push"]
      /\ reply' = reply /\ verdict' = verdict
  BY DEF Prompt
<1>3. /\ Status(a) = "idle" /\ Status(a)' = "open"
      /\ \A b \in HttpAsk \ {a} : Status(b)' = Status(b)
  BY <1>1, <1>2 DEF Status, Ask
<1> QED
  BY <1>2, <1>3 DEF Contract!Submit

\* The presenter of ask a is done: the contract closes the ask.
LEMMA ContractCloses ==
  ASSUME NEW a \in HttpAsk, TypeOK, NEW v,
         phase' = [phase EXCEPT ![a] = "done"],
         reply' = [reply EXCEPT ![a] = v], verdict' = verdict,
         phase[a] # "done",
         IF phase[a] = "new" THEN v = "unavailable"
         ELSE v \in {"no_answer", "unavailable", "dropped", verdict[a].choice}
  PROVE  Contract!Reject(a) \/ Contract!Close(a)
<1>1. a \in Ask /\ phase \in [Ask -> Phases] /\ reply \in [Ask -> Replies]
  BY DEF Ask, TypeOK
<1>2. /\ Status(a)' = "closed"
      /\ Status(a) = IF phase[a] = "new" THEN "idle" ELSE "open"
      /\ \A b \in HttpAsk \ {a} : Status(b)' = Status(b)
  BY <1>1 DEF Status, Ask
<1>3. [b \in HttpAsk |-> Status(b)]'
        = [[b \in HttpAsk |-> Status(b)] EXCEPT ![a] = "closed"]
  BY <1>2
<1>4. [b \in HttpAsk |-> reply[b]]'
        = [[b \in HttpAsk |-> reply[b]] EXCEPT ![a] = v]
  BY <1>1 DEF Ask
<1>5. [b \in HttpAsk |-> verdict[b]]' = [b \in HttpAsk |-> verdict[b]]
  OBVIOUS
<1>6. CASE phase[a] = "new"
  BY <1>2, <1>3, <1>4, <1>5, <1>6 DEF Contract!Reject
<1>7. CASE phase[a] # "new"
  BY <1>2, <1>3, <1>4, <1>5, <1>7 DEF Contract!Close, Contract!Refusals
<1> QED
  BY <1>6, <1>7

\* A decision is taken once, by a human, on an open ask.
LEMMA ContractTakes ==
  ASSUME RegistryInv, DecisionInv, NEW i \in Id \union {""},
         NEW by \in {"watch", "elsewhere"}, NEW c \in Settled,
         Decide(i, by, c), phase' = phase, reply' = reply,
         by = "watch" => i \in Id /\ OnMenu(pending[i], c)
  PROVE  Contract!Step \/ UNCHANGED Contract!vars
<1>1. CASE i \in Id /\ pending[i] \in HttpAsk /\ c \in Choice
  <2> DEFINE a == pending[i]
  <2>1. a \in HttpAsk /\ a \in Ask /\ a # NoAsk
    BY <1>1, AskAssumption DEF Ask
  <2>2. Status(a) = "open" \/ reply[a] = "dropped"
    BY <1>1, <2>1 DEF RegistryInv, RegistryHoldsLiveAsks, HttpAskIsLive, Status
  <2>3. verdict[a] = NoOne
    BY <1>1, <2>1 DEF DecisionInv, PendingIsUndecided
  <2>4. [b \in HttpAsk |-> verdict[b]]'
          = [[b \in HttpAsk |-> verdict[b]] EXCEPT
               ![a] = [by |-> by, choice |-> c]]
    BY <1>1 DEF Decide, Ask
  <2>5. /\ [b \in HttpAsk |-> Status(b)]' = [b \in HttpAsk |-> Status(b)]
        /\ [b \in HttpAsk |-> reply[b]]' = [b \in HttpAsk |-> reply[b]]
    BY DEF Status
  <2>6. by = "watch" /\ Offered[a] # {} => c \in Offered[a]
    BY DEF OnMenu
  <2>7. Contract!Take(a, by, c)
    BY <2>1, <2>2, <2>3, <2>4, <2>5, <2>6
    DEF Contract!Take, Contract!Undecided, NoOne
  <2> QED
    BY <1>1, <2>1, <2>7 DEF Contract!Step
<1>2. CASE ~(i \in Id /\ pending[i] \in HttpAsk /\ c \in Choice)
  BY <1>2, ContractStutters DEF Decide, Status, Ask
<1> QED
  BY <1>1, <1>2

\* A step of the coroutine that presents an ask.
LEMMA ContractAskStep ==
  ASSUME RegistryInv, DecisionInv, NEW a \in Ask, AskStep(a)
  PROVE  Contract!Step \/ UNCHANGED Contract!vars
<1>1. /\ TypeOK /\ phase \in [Ask -> Phases] /\ reply \in [Ask -> Replies]
      /\ HttpAsk \subseteq Ask
  BY DEF RegistryInv, TypeOK, Ask
<1>2. CASE a \notin HttpAsk
  <2>1. \A b \in HttpAsk : /\ phase'[b] = phase[b] /\ reply'[b] = reply[b]
                           /\ verdict'[b] = verdict[b]
    BY <1>1, <1>2 DEF AskStep, Prompt, PromptRefused, PushDone, PushFails,
      Refuse, DeadlinePasses, Answered, TimerFires, CancelFuture, GiveUp,
      ReplyTimeout, Reply, RetireClarifyCard, HandlerCancelled, asks
  <2> QED
    BY <2>1, ContractStutters DEF Status
<1>3. CASE a \in HttpAsk
  <2>1. CASE Prompt(a)
    BY <1>1, <1>3, <2>1, ContractSubmits DEF Contract!Step
  <2>2. ASSUME NEW v,
               phase' = [phase EXCEPT ![a] = "done"], verdict' = verdict,
               reply' = [reply EXCEPT ![a] = v], phase[a] # "done",
               IF phase[a] = "new" THEN v = "unavailable" ELSE
                 v \in {"no_answer", "unavailable", "dropped",
                        verdict[a].choice}
        PROVE  Contract!Step
    BY <1>1, <1>3, <2>2, ContractCloses DEF Contract!Step
  <2>3. CASE PromptRefused(a) \/ PushFails(a)
    BY <1>3, <2>2, <2>3 DEF PromptRefused, PushFails, Refuse
  <2>4. CASE Answered(a)
    <3>1. /\ phase' = [phase EXCEPT ![a] = "done"] /\ verdict' = verdict
          /\ reply' = [reply EXCEPT ![a] = future[a]]
          /\ phase[a] \in {"wait", "late"} /\ future[a] \in Settled
      BY <2>4 DEF Answered, Reply
    <3>2. future[a] \in {"no_answer", verdict[a].choice}
      BY <1>3, <3>1 DEF Settled, DecisionInv, FutureIsDecision
    <3> QED
      BY <2>2, <3>1, <3>2
  <2>5. CASE ReplyTimeout(a)
    BY <2>2, <2>5 DEF ReplyTimeout, Reply
  <2>6. CASE HandlerCancelled(a)
    BY <2>2, <2>6 DEF HandlerCancelled
  <2>7. CASE \/ PushDone(a) \/ DeadlinePasses(a) \/ TimerFires(a)
             \/ CancelFuture(a) \/ GiveUp(a) \/ RetireClarifyCard(a)
    <3>1. \/ phase' = phase
          \/ \E p \in Phases \ {"new", "done"} :
               /\ phase[a] \notin {"new", "done"}
               /\ phase' = [phase EXCEPT ![a] = p]
      BY <1>3, <2>7 DEF PushDone, DeadlinePasses, TimerFires, CancelFuture,
        GiveUp, RetireClarifyCard, Phases, asks
    <3>2. reply' = reply /\ verdict' = verdict
      BY <2>7 DEF PushDone, DeadlinePasses, TimerFires, CancelFuture, GiveUp,
        RetireClarifyCard, asks
    <3>3. \A b \in HttpAsk : Status(b)' = Status(b)
      BY <1>1, <3>1 DEF Status
    <3> QED
      BY <3>2, <3>3, ContractStutters
  <2> QED
    BY <2>1, <2>3, <2>4, <2>5, <2>6, <2>7 DEF AskStep
<1> QED
  BY <1>2, <1>3

LEMMA ContractStep ==
  RegistryInv /\ DecisionInv /\ [Next]_vars => [Contract!Next]_(Contract!vars)
<1> SUFFICES ASSUME RegistryInv, DecisionInv, [Next]_vars
             PROVE  Contract!Step \/ UNCHANGED Contract!vars
  BY DEF Contract!Next
<1>1. ASSUME NEW a \in Ask, AskStep(a)
      PROVE  Contract!Step \/ UNCHANGED Contract!vars
  BY <1>1, ContractAskStep
<1>2. ASSUME NEW l \in Link, NEW i \in Id, NEW c \in Choice, Answer(l, i, c)
      PROVE  Contract!Step \/ UNCHANGED Contract!vars
  <2>1. /\ Decide(i, "watch", c) /\ OnMenu(pending[i], c) /\ c \in Settled
        /\ phase' = phase /\ reply' = reply
    BY <1>2 DEF Answer, Settled
  <2> QED
    BY <2>1, ContractTakes
<1>3. CASE ElsewhereStep
  <2>1. PICK i \in Id \union {""}, c \in Settled :
          /\ Decide(i, "elsewhere", c) /\ phase' = phase /\ reply' = reply
    BY <1>3 DEF ElsewhereStep, PostResolved, ObserveResolved
  <2> QED
    BY <2>1, ContractTakes
<1>4. ASSUME phase' = phase, verdict' = verdict,
             \A a \in HttpAsk : reply'[a] = reply[a]
      PROVE  UNCHANGED Contract!vars
  BY <1>4, ContractStutters DEF Status
<1>5. ASSUME NEW l \in Link, Unblock(l)
      PROVE  UNCHANGED Contract!vars
  <2>1. task[l].ask \notin HttpAsk
    BY <1>5, AskAssumption DEF Unblock, RegistryInv, UnblocksHermes
  <2> QED
    BY <1>4, <1>5, <2>1 DEF Unblock, RegistryInv, TypeOK, Ask
<1>6. ASSUME NEW l \in Link,
             \/ Join(l) \/ Renames(l) \/ StrayAuthorized(l) \/ StrayReplaced(l)
             \/ SocketCloses(l) \/ PingFails(l) \/ Revoked(l)
             \/ SocketCancelled(l) \/ UnblockFails(l) \/ Announced(l)
      PROVE  UNCHANGED Contract!vars
  BY <1>4, <1>6 DEF Join, Renames, StrayAuthorized,
      StrayReplaced, SocketCloses, PingFails, Revoked, SocketCancelled,
    UnblockFails, Announced, asks
<1>7. CASE \/ SweepStarts \/ SweepContinues \/ DisconnectBegins
           \/ DisconnectSettles \/ ListenerDown \/ Connect
           \/ (\E e \in Observed : Observe(e)) \/ UNCHANGED vars
  BY <1>4, <1>7 DEF SweepStarts, SweepContinues, SweepEntry, DisconnectBegins,
    DisconnectSettles, ListenerDown, Connect, Observe, vars, asks
<1> QED
  BY <1>1, <1>2, <1>3, <1>5, <1>6, <1>7 DEF Next, LinkStep

\* Every run of the adapter is, for its HTTP callers, a run of the contract.
THEOREM AdapterImplementsContract == Spec => ImplementsContract
<1>1. Init => Contract!Init
  BY DEF Init, Contract!Init, Contract!Undecided, NoOne, Status, Ask
<1> QED
  BY <1>1, ContractStep, DecisionInvAlways, PTL
  DEF Spec, ImplementsContract, Contract!Spec

\* What the refinement buys: whatever answers, expiries and shutdown do, a
\* decision and a reply are final, and the reply tells the decision or refuses.
THEOREM AdapterDecidesOnce ==
  Spec => DecisionsAreFinal /\ []Contract!ToldWhatWasDecided
<1>1. [Contract!Final]_(Contract!vars) => [KeepsDecisions]_<<verdict, reply>>
  BY DEF Contract!Final, Contract!vars, Contract!Undecided, NoOne, KeepsDecisions
<1> QED
  BY <1>1, AdapterImplementsContract, Contract!ContractIsFinal, PTL
  DEF ImplementsContract, DecisionsAreFinal, Contract!OnceAndForAll
=============================================================================
