# Verification of hermes-watch

TLA+ models, TLC runs and TLAPS proofs about hermes-watch: a Hermes gateway
plugin that shows agent activity on a Pixel Watch and lets its wearer approve
commands and answer questions. Paths below are relative to the repository root
(`bridge/`, `watch/`); `PROJECT.json` gives, for every definition, the lines it
is translated from.

## Inventory

| Component | State | Operations | What is hard, and what makes it correct |
|---|---|---|---|
| `platform.py` request registry (`HermesWatchAdapter`) | `_pending`, a future per HTTP request | `_handle_event`, `_send_exec_approval_prompt`, `send_clarify`, `retire_clarify_card`, `resolve`, `_sweep_expired`, `disconnect` | Coroutines interleave at every await; four parties settle the same future. One decision per request, told to the one who asked, and to nobody else |
| `platform.py` state line | `_state`, `_state_before_wait` | `_set_state`, `_resume_after_wait`, `_on_observation` | A wait is a parenthesis around what the agent was doing; written from the loop and, co-located, from the plugin's thread |
| `platform.py` links and pairing | `_links` by device id, `_approval_cache`, `_ever_authorized` | `_handle_watch`, `_on_hello`, `_on_text`, `_ping_loop`, `_delivery_targets`, `_is_authorized` | Reconnects overlap the old socket's clean-up; cached authorization. A message reaches paired devices only, a revoked one gets nothing |
| `platform.py` stats push | none of its own | `_stats_loop`, `_broadcast_stats` | Its awaits are where everything else interleaves |
| `plugin.py` approval transport and hooks | `_open_approvals` under a lock | `present_approval`, `on_pre_approval_request`, `on_post_approval_response` | Hook threads against the blocked transport thread; an approval settled elsewhere must clear the card |
| `plugin.py` dispatcher, `live.py` bus | bounded queue, handler list, `LiveState` | `submit`, `_run`, `subscribe`, `observe` | Drop on overflow, order of observations, subscription checked and used in two steps |
| `client.py` | none | `ask`, `post_event`, `send_message` | Every failure must look like "no human answered" |
| `protocol.py` | none | `validation_error` | Which answers a frame can carry at all |
| `settings.py`, `stats.py`, `cli.py` | files, a read-only database | load and merge, aggregate, print | Precedence of two files; sums and windows |
| Watch app `BridgeClient.kt` | socket, attempt, `closedByUs`, link state | connect, disconnect, reconnect, listener callbacks | Callbacks of an old socket after a new one was opened; lossy frame buffer |
| Watch app service and notifier | current snapshot, one approval card | `handleFrame`, `handleEvent`, `handleAnswer` | One card slot for several open requests; a card must not outlive its request |
| Watch app storage, tile, UI | key-value storage | read, render | Rendering only |

Interaction: a plugin in another process posts observations and blocking asks
to the adapter's loopback HTTP endpoint `/event`; a plugin in the gateway
process publishes observations on the `LiveBus`, which calls the adapter back
on the publishing thread. Hermes calls the adapter's methods for prompts it
raises itself. Watches hold WebSockets; the adapter broadcasts frames and
receives answers. Hermes' gateway, its pairing store, asyncio, aiohttp, OkHttp
and Android are external.

The hazards this code is exposed to are listed in `PROJECT.json`, each at its
line, with the properties that would catch it.

## Modules

| Module | Models | Proofs in |
|---|---|---|
| `WatchAdapter` | the registry of `platform.py`, the coroutines that present, answer, expire and cancel prompts, the state line, the lifecycle of sockets and listener | `WatchAdapterProofs` |
| `ApprovalContract` | what a process that blocks on `POST /event` may rely on | itself |
| `WatchLinks` | the link table, hello, the pairing look-up and its cache, pings and the delivery of messages (`platform.py`), `validation_error` (`protocol.py`) | `WatchLinksProofs` |
| `ApprovalPlugin` | the approval transport, the approval hooks and the dispatcher (`plugin.py`), `ask` (`client.py`); the listener at the other end is `ApprovalContract` | `ApprovalPluginProofs` |
| `ObservationPath` | from the hooks through bus or queue to the state line (`plugin.py`, `live.py`, `platform.py`) | `ObservationPathProofs` |
| `ObservationChannel` | what the way from hooks to live state promises | `ObservationPathProofs` |
| `StatsReport` | a snapshot's four reads of the session store (`stats.py`) | `StatsReportProofs` |
| `Measurements` | the live measurement and what is computed from it (`plugin.py`, `live.py`, `stats.py`) | `MeasurementsProofs` |
| `Settings` | which address is bound and which is posted to (`settings.py`, `platform.py`, `plugin.py`) | `SettingsProofs` |
| `WatchAdapterMC`, `WatchLinksMC`, `ApprovalPluginMC`, `StatsMC`, `SettingsMC` | finite instances | |

`ApprovalContract` joins two components: `WatchAdapter` is proved to implement
it, and `ApprovalPlugin`, whose listener it is, is proved to ask no more of it
than it grants. What is proved of the contract then holds on both sides. The
state line appears twice, from two sides: in `WatchAdapter` against prompts and
their coroutines, in `ObservationPath` against what the agent truly does.

### WatchAdapter

The adapter runs on one asyncio loop. What lies between two awaits is one
action; every await ends one. `phase[a]` says at which await the coroutine
presenting ask `a` is suspended, `task[l]` where the read loop of socket `l` is
inside `resolve()`, `sweep` which entries of its snapshot the stats loop has
still to visit, `listener` how far `disconnect()` has come.

| Model | Code |
|---|---|
| `pending` | `self._pending`, from id to ask |
| `future`, `reply` | the request's future; what the HTTP response said (for an in-gateway prompt: what Hermes' waiting thread was given) |
| `links` / `sockets` | the authorized members of `self._links` / the read loops behind them |
| `strays` | links with an entry under an id that their client has given up by a further hello |
| `agentState`, `beforeWait` | `self._state`, `self._state_before_wait` |
| `verdict` | history only: who decided what, when the adapter accepted it |
| `Prompt` … `PushFails` | `_register` and `_push_pending`, with the 503 exits |
| `Answered`, `TimerFires`, `CancelFuture`, `GiveUp`, `ReplyTimeout` | `asyncio.wait_for`, the `except` branch and the `finally` clause |
| `Answer`, `Unblock`, `UnblockFails`, `Announced` | `resolve()` up to its awaits: the future or the worker thread, the broadcast, the resume |
| `PostResolved`, `ObserveResolved`, `Observe` | resolutions and events over HTTP and over the bus |
| `SweepStarts`, `SweepContinues` | `_sweep_expired`, one entry per step, popping by id what a snapshot named |
| `DisconnectBegins` … `ListenerDown`, `Connect` | `disconnect()`: unsubscribe and cancel the loops; clear and settle; drain; down |

Abstractions. Time is one flag per ask, `overdue`: its deadline passed. It lets
the timer fire at any later moment, and before or after the sweep. Messages,
commands and payloads are not represented. A broadcast changes no state of the
adapter; it is an await. `wait_for` exists in two behaviours, chosen by
`TimerCancels`: from Python 3.12 an expired timer cancels the waiting task and
drops a result it has not picked up; before, the task looks at the future first.
Every property is stated so that it holds for both. `CoLocated` says whether a
plugin publishes on the adapter's bus. A link stands for a device of its own;
two sockets of one device are in `WatchLinks`. A client of `Renaming` may say
hello again under another id (`Renames`): `link.device_id` moves on, and every
exit of the read loop (`LoopEnds`) and a failed ping remove only the entry under
the id it has then. The entry left behind stays in `self._links` with the flag
of its link until another client takes the id over (`StrayReplaced`) or the
adapter disconnects; a look-up for a delivery may find it authorized later
(`StrayAuthorized`), by the id its client uses now. `strays` says which links
have such an entry, not how many. The resolution of two asks by one call of
`retire_clarify_card` is not modelled: clarify ids are unique. Two things of a
device are left to `WatchLinks`: its hello on a new socket while the old one is
inside `resolve()`, and one step that replaces a device's old socket by its new
one. Handlers run until the listener is down: a request whose body was still
arriving may register, and a socket may say hello, after `disconnect()` has
cleared both dictionaries.

### ApprovalContract

An asker submits, at most one human decision is taken for it and only while it
is open (or after its connection was cut, when nobody can know), and it is
closed once: with that decision or with one of three refusals (no answer, no
watch, dropped). `WatchAdapter` implements it under the mapping at the end of
that module: `phase` becomes idle, open or closed, `verdict` the decision,
`reply` the outcome. Its own properties are `OnceAndForAll`, that neither changes
once it is there, and `ToldWhatWasDecided`, that a choice that is told is the one
that was decided.

### WatchLinks

As in `WatchAdapter`, a step runs from one await to the next. Here the awaits
that matter are the pairing look-up in a worker thread and each send on a
socket.

| Model | Code |
|---|---|
| `links` | `self._links`, by device id |
| `open`, `device`, `flag` | read loops that have not ended; `link.device_id`; `link.authorized` |
| `approved` | the pairing store (external) |
| `cache`, `ever` | `self._approval_cache`, `self._ever_authorized` |
| `call` | the look-up, or the `resolve()`, a coroutine waits for |
| `job` | how far each `send()` is: looking up its targets, or pushing to the ones it found |
| `ping` | what the ping loop's copy of the table still holds |

There is no clock. A reading of the store is dated when it is asked for, and
`fresh` says that the date is less than `PAIRING_CACHE_S` old; `CacheExpires`
may happen at any moment. The history `since` says whether the store approved
the device at some moment of that period, which is what a revocation is
measured against. Labels, `last_pong` and message texts are left out.
`_delivery_targets` iterates the dictionary across awaits. A changed size makes
the whole `send()` fail (`BroadcastTorn`, Python's RuntimeError, which the
caller sees as a 500 and not as the 503 of an unreachable watch). A key that left
and another that entered may leave the size as it was and have the table rebuilt:
the iteration then passes over members that were there all along, meets the rest
in another order, or raises as well. `mixed` says that a key has entered or left
since the iteration began, and `Walk` allows each of these from then on, at any
of its resumptions. Only a value replaced under its key, as by a hello under
the same id, leaves the iteration alone.

### ApprovalPlugin

One worker thread of Hermes per request runs `present_approval`; `thread[r]`
names the statement it has reached. The two hooks run on other threads and share
`_open_approvals` (`open`) with it, and one dispatcher thread posts what the
hooks queue. `settled` is what Hermes acts on, first answer wins.
`SocketTimesOut` and the listener's own timer are told apart by counting ticks
while a thread is parked: the listener starts its timer when the push has ended
(`wait`), the socket when the request is sent (`age`), and what is due happens
before the next tick. The listener's steps are those of `ApprovalContract`;
`MayClose` adds that an ask is answered only after its push. That it is answered
when its timer is due is part of `Due`; a listener that stops answers early.
What the hook posts of a prompt shown elsewhere is an ask of its own at the
listener, the copy.

### ObservationPath

One agent thread calls the hooks of `plugin.py`, in the gateway process or in
one of its own. `outbox` is what the running hook has yet to observe. In the
gateway `Checks` and `Publishes` are `has_subscriber()` and `observe()`, two
critical sections between which the adapter may disconnect; otherwise `Submits`
puts into the bounded queue, whose thread posts to `/event` or fails to. Without
a subscriber only the bus itself keeps what is published. A posted prompt, of an
approval or a question, is registered and not observed; `copy` stands for all of
these. `seen` is `_turn_seen`, by turn id, and `turn` the id of the turn under
way: `Turn` is a set of ids and may contain `NoTurn`, a turn that Hermes does
not name, at its start or, for a named one, at its end. The guards `if turn_id`
are then in force: a nameless turn is not announced, and one whose end does not
name it stays in `seen`. The adapter's side is `line` and `before` (`_state`,
`_state_before_wait`), the prompts it holds and the broadcast of a `resolve()`
that has yet to resume. `missed` is history: an observation was dropped, or
overtook another.

`ObservationChannel` is the same way seen from its ends: a sequence to which a
hook appends one or two observations and from which the head arrives in the live
state, or is registered as a prompt, or anything is lost. Only in the gateway, and
only once something went by the queue, may a later one arrive first. `Way`, what
is posted, queued and left in the outbox, is that sequence.

### StatsReport and Measurements

`StatsReport` splits a snapshot at its queries: the current session over a
connection of its own, totals, split by model, split by day. Between any two of
them Hermes may start, account, end, hide or archive a session, and midnight
may pass. `newer` orders the sessions by their last activity, which is all that
the choice of the current one (`LastActive` of those that are open) needs of
clocks. Two token columns stand for four: one that ranks models and one that
does not; NULL is a value of either. `Measurements` follows provider calls of
two processes through the request hooks into `bus.state.measurement`, which
keeps of each value the call it was measured in; a report may be lost and the
gateway may restart. What a report says of each field (nothing, zero or a number)
is kept with the call, because the code tests them one by one: a missing one is
left out of the merge, a zero is merged, and counts as false where the prompt
tokens, the estimate and the duration are read (`Positive`), but not the output
tokens. `StatsMC` checks both in one run: they share no variable,
so letting one move per behaviour reaches the same states of each.

### Settings

Layers of host and port: defaults, `config.json`, `config.yaml`, environment.
`LoadConfig` is `load_config`; `Binds` is what the adapter makes of it (its own
section, then the environment, then the loaded settings); `WatchUrl` is where a
plugin posts, by `HERMES_WATCH_URL` if that is set in its environment. Ports are
three that are accepted and one at each end: "0", for which the system chooses
(`Bound`), and "99999" for all that `int()` takes and the range check of
`_validate_config`, or the bind itself, refuses. Files are edited and both
processes start and stop at any time, each with an environment of its own. The
port in `config.json` is assumed to be a number, as the setup command writes it.

## Runs

| Run | Instance | Shows |
|---|---|---|
| `two_callers` | 2 HTTP asks with own ids, 2 watches (symmetric), 2 choices of which one is off the first ask's menu, `wait_for` before 3.12 | `NoLostWaiter`, `AcceptedAnswerIsHeard`, `WaitEndsWithTheLastPrompt`, and that the adapter implements the contract |
| `shared_id` | 2 HTTP asks under one id, 1 watch, bus and two kinds of events, `wait_for` from 3.12 | `RegistryHoldsLiveAsks`, `NoInventedAnswer`, `WaitIsAParenthesis`, `DecisionsAreFinal` |
| `every_ask_ends` | 1 HTTP ask, 1 in-gateway question, 1 watch that may change its id, 1 choice, fairness | `TypeOK`, `LinksAreRead`, `EveryAskIsReplied`, `CardsAreSwept` |
| `links` | 2 sockets, one with a fixed name and one with a choice of two, a paired and a configured device, 1 `send()` at a time; at most 2 coroutines under way | `TableIsRead`, `RevocationIsTimely`, `BroadcastMissesNobody`, `NewerLinkStays` |
| `approvals` | 1 request through the transport with a menu of one of two choices and two responding surfaces, 1 on the terminal that no hook reports, a queue of one | `AnsweredByAHuman`, `OneResolutionPerCard`, `NoDuplicateCard`, `ListenerDecides`, `EveryPresentationEnds` |
| `observations` | the agent in the gateway or outside, turn after named turn, a queue of one | `IdleInTheEnd`, `HooksReturn`, and that the way implements the channel |
| `stats` | 2 sessions of 2 models, tokens 0 to 1 and NULL, 2 days, a split limited to one model; 2 processes, 2 provider calls whose response lacks nothing, one field or everything | `CountedOnce`, `SplitsNeverBehind`, `RateIsOfOneCall`, `ContextIsOfOneModel` |
| `settings` | 9 layers: each key set, unset and not a number, a wildcard and two addresses, both ends of the ports; with and without `HERMES_WATCH_URL` | `PluginFindsListener` |
| `answer_lost`, `stuck_wait`, `ghost_watch`, `double_resume` | the smallest instance of each | four statements of the repository that the code does not satisfy |

Each module has one type invariant besides, checked in one of its runs.

Bounds. In `WatchAdapter` each ask is presented once, which bounds every counter
there is; sockets come and go and the listener restarts without limit. Two asks
are enough for "another prompt is pending", for a stale snapshot of the sweep
and for a collision of ids; two watches for one to answer while the other drops.
In `WatchLinks` the numbers of sockets, devices and calls of `send()` are
bounded; sockets reopen and devices are revoked for ever. Two sockets of one
device is what an overlap of old and new needs, and two names what a renamed
client needs. Its run also has a state constraint (`FewUnderWay`): of the read
loops that wait for a look-up or for `resolve()`, the calls of `send()` and the
round of pings, at most `MaxUnderWay` are under way at a time. With two, every
pair of them is interleaved in every way, which is what the hazards listed for
the table and the cache are about; that a third changes nothing is what the
theorems of `WatchLinksProofs` show, which cover every safety property of the
run. `ApprovalPlugin` bounds the response hooks (`Responses`), and its times are
the smallest for which the listener's deadline and the socket's fall on
different ticks; with a queue of one, drops happen. `ObservationPath` has no
bound but `Depth`; `StatsReport` bounds days and tokens (`MaxDay`, `MaxTokens`),
`Measurements` the provider calls (`MaxCalls`) and what a response may lack
(`Responses`): two calls are what a mixture needs, one of each process or two of
one with a restart between them. The run `observations` has one turn id, which
each turn takes anew once the last has been forgotten; nameless turns are in
`double_resume` and in the theorems. `every_ask_ends` has one choice, since no
property of it tells two apart. The theorems below hold without any of these
bounds.

Deadlock is checked in every run but `approvals`, where a behaviour ends when
every request is settled and posted.

Fairness. `WatchAdapter`: time passes; a coroutine whose await has completed is
resumed; a due timer fires; a worker thread returns or raises; a stats tick
that stays enabled happens. That is the asyncio loop's own scheduling (weak
fairness: a ready callback stays ready). Nothing is assumed of watches, humans,
other processes or `disconnect()`. `ApprovalPlugin`: the worker thread of Hermes
runs on, time passes, and the listener ends its pushes and keeps its timers;
nothing is assumed of the watch, the terminal, the hooks or the dispatcher.
`ObservationPath`: only the agent's own thread runs on, so that `HooksReturn`
holds with dispatcher and listener at a standstill.

### Where code and description differ

* `answer_lost`: `client.py:134` says that None always means no human answered.
  An answer that arrives while the prompt is still being pushed is accepted and
  announced; if the watch's link then drops before `platform.py:727` looks, the
  caller gets 503.
* `stuck_wait`: `platform.py:734-738` and `test_platform.py:699` say an
  unanswered prompt leaves the wait state. If the sweep reaches the expired
  entry before the request's own timer, the future is settled with None, the
  handler returns normally and nothing leaves the wait. The refusal at line 727
  does not leave it either.
* `ghost_watch`: `docs/protocol.md:168` and `platform.py:729` have an approval
  refused at once when no watch is connected. A watch that said hello a second
  time under another id is in `_links` twice, and when it leaves, only the entry
  under its present id is removed (`platform.py:424-425`, `900`). The other stays
  authorized, counts as a connected watch, and the approval is parked for its
  whole timeout. `LinksAreRead` names this exception.
* `double_resume`: `platform.py:830-831` says that the agent resumes whatever it
  was doing before the prompt. In the gateway an answer on the watch resumes
  twice, once in `resolve()` and once when the hook's `approval.resolved` is
  observed: the first restores the tool and forgets it, the second finds
  nothing to restore. The agent runs the approved command and the wrist says
  idle.

One disagreement has no run, since one guard decides it: `platform.py:355` ("with
the watch's answer chips") and `test_platform.py:475` promise that a question can be
answered by a chip, while `protocol.py:115` lets only approval scopes, `reply`
and `cancel` through as a choice, so the frame of a chip is an error (`Valid`).

Other things met while modelling, which no text of the repository denies:

* A turn that is interrupted in a tool or a prompt (`Interrupts`), or a question
  asked in the terminal (`"clarify"` in `Tools`), can leave a stale state before
  the wait, and a prompt that ends late then brings the finished turn back on
  the wrist. `IdleInTheEnd` is stated, and proved, for the rest.
* A failed ping removes whatever link its device has by then; a broadcast goes
  by `link.authorized` and does not ask again. A look-up that is answered while
  the client changes its id sets the flag that the other id should have.
* A resolution that comes over the bus pops the entry and drops the choice
  (`platform.py:807`), so a request parked under that id would wait for its
  timeout. `plugin.py:9-13` has no transport run in the gateway process, so
  nothing is parked under an id that this process resolves.
* The copy of a prompt shown in the terminal stays on the wrist until it
  expires: the response hook knows it under no id (`plugin.py:326`).
* If Hermes fails to name a model's context window, the failure is cached for
  the life of the process; a response without usage leaves the tokens of an
  earlier call beside its own duration, and one without a duration the other way
  round; a context window without an estimate stands beside an earlier call's
  tokens. `RateIsOfOneCall` and `ContextIsOfOneModel` name these exceptions.
* A key set both in `config.yaml` and in the environment binds by the file and
  posts by the environment (`settings.py:129`, `platform.py:172-173`). With port
  0 the plugin posts to port 0, whatever the system chose. `PluginFindsListener`
  excepts both. A port that is no number is skipped by `load_config` and refused
  by the adapter.

## Proofs

The theorems hold for every value of the constants that satisfies the named
assumptions of each module. Where one needs more, its statement says so.

### WatchAdapterProofs

For every set of asks, ids, choices and sockets, shared or unique ids, both
behaviours of `wait_for` and with or without a co-located plugin: all seven
state invariants that the runs check, the action properties
`WaitEndsWithTheLastPrompt` and `DecisionsAreFinal`, and the refinement
`Spec => Contract!Spec`. The
assumptions are those named in `WatchAdapter`: HTTP and in-gateway asks are
distinct, every ask has an id and a kind, menus consist of choices, and the
marker strings are not choices.

The argument is one inductive invariant in three layers.

1. `RegistryInv` is `TypeOK`, `RegistryHoldsLiveAsks` and `UnblocksHermes`
   (only in-gateway prompts are handed to the worker thread). The last one is
   needed because an entry of a cut-off request is recognised by its reply, and
   `Unblock` writes replies.
2. `DecisionInv` adds `PendingIsUndecided` (taking a decision removes the
   entry, so an entry has none yet; this is what makes decisions unique) and
   `FutureIsDecision` (a future that holds a choice holds the decision).
   `NoInventedAnswer` follows with them and is not inductive without them.
3. `HeardInv` says where a decision taken on the watch is while its caller has
   not been told: in the future, unless the timer cancelled that future first,
   which it does only after the deadline. `AcceptedAnswerIsHeard` is its last
   conjunct.

`NoLostWaiter` is inductive over `RegistryInv`. `WaitIsAParenthesis` needs only
the types; `LineStep` reduces each of the adapter's actions to leaving the state
line alone, entering a state or resuming. The refinement uses the first two
layers: `ContractTakes` for the steps that decide, `ContractCloses` for those
that reply, `ContractStutters` for the rest. `DecisionsAreFinal` is then not
proved again but taken from the contract: `ContractIsFinal`, in
`ApprovalContract`, says that a decision and a reply never change, by an
invariant of its own (`ContractInv`); the mapping carries that over.

### WatchLinksProofs

Every property of the run `links`, for any number of sockets, names, devices and
concurrent calls of `send()`, clients that change their id included. `LinkInv`
adds to the types that entries and look-ups are about devices that were named
(`Named`) and that a coroutine waits for a look-up only where the code awaits
one (`Waits`). The two delivery properties need `SendInv`: every yes in the
cache carries the date of its reading (`Dated`), and each `send()` accounts for
the links that stayed in the table since it began: as long as no key has entered
or left, each is asked about, or still ahead of its iteration (`Accounted`).

### ApprovalPluginProofs

Every safety property of the run `approvals`, for any requests, menus, response
hooks and queue depth, and that the plugin keeps to the contract
(`PluginKeepsContract`): every step of its threads is one the contract allows,
so decisions and replies are final for its asks and copies too. `CardInv`: an
entry of `_open_approvals` exists only while its thread is presenting and before
anything was reported under its id. `AnswerInv`: until an ask is closed nothing
was told, and a choice that was told is the one that was decided; the transport
may then answer only with it. `ListenerDecides` and `NoDuplicateCard` are about
time and assume `Prompt`: a push ends before `ASK_GRACE` does. `HeldInv` bounds
the age of a parked request by the push and then by the listener's timeout,
which together stay below the socket's budget. For `NoDuplicateCard`, `Copied`
says that a copy is queued, being posted or open only for a request that Hermes
shows itself.

### ObservationPathProofs

`TypeOK` for every instance, nameless turns included, and `IdleInTheEnd` for a queue
of any depth where turns are not interrupted and no question is asked in the
terminal. The argument is about `Way`, the sequence of what is being posted,
queued and left in the outbox: steps of the queue leave it as it is, the agent
appends to it and the adapter consumes its head. `Follows` says that whatever an
approval leaves on the way, or has left in `before`, is followed by a resolution
unless the agent still waits, and that a turn that is over has `turn_ended` last.

`ImplementsChannel` is proved for every instance, with interrupted turns and
questions in the terminal. `ChannelInv` is what the mapping needs: in the gateway
nothing is queued or posted while nothing is `missed`. Each step then is one of
the channel's or a stutter; the work is in the sequences: `Longer` for a hook that
appends, `RemovedMiddle` and `FromOutbox` for an observation that leaves the way
before those ahead of it.

### StatsReportProofs, MeasurementsProofs, SettingsProofs

`CountedOnce`: sessions are never deleted and keep their day. `STypeOK`: a
report always finds the last active of the open sessions, because `newer` stays
a strict total order (`TouchOrders`) and a finite set has a last element
(`OneIsLast`). `SplitsNeverBehind` is about sums over sets, which `StatsReport`
takes from the community modules' folds. `SumOfAny` says that such a sum is any
member's value plus the sum of the rest, in whatever order the fold takes them;
from it `SumGrows`: a larger set of larger values has no smaller sum. The
induction over finite sets is done by a least counterexample (`LeastSet`), since
a smallest set without the property exists; the invariant `SplitInv` then says
that the sessions the totals counted are still among those a split chooses, and
that the sum taken then is at most what they add up to now; Hermes' writes keep
both, since no session is deleted or moved to another day and no counter falls
(`WritesKeep`).

`RateIsOfOneCall` and `ContextIsOfOneModel` (and the types), for any responses:
`Rated` and `Sized` say which two values of the measurement were last written by
one report, and `Ended` that a response is measured once. `PluginFindsListener`:
`Agreed` says that listener and plugin computed their addresses from the same
files and the same environment, and then the two computations differ only in the
wildcard.

### Left to TLC

Liveness: `EveryAskIsReplied`, `CardsAreSwept`, `EveryPresentationEnds` and
`HooksReturn`; fairness and `ENABLED` are beyond the prover. Every other property
of a passing run is a theorem.

## Not modelled, and why

* The watch app (Kotlin): its sockets, its one card slot and its lossy frame
  buffer are listed as hazards; nothing of it is modelled. The models end at
  the adapter's sockets, where a watch is free to send any frame and to come and
  go at any time, so no property rests on the app behaving well.
* `cli.py`, the tile, the UI and registration: pure I/O, rendering or
  declarative wiring. The fake watch and the tests are harness.
* Of `stats.py`: the context-length file, cost, and the estimate from the session
  row. They are read without further steps and combined into one number.
* Of `live.py`: titles, tool names and the rolling list of observations, which
  nothing reads.
* `_build_stats` runs beside the loop in a worker thread; an exception there is
  caught and costs one frame. Two hooks that start two dispatcher threads
  (`plugin.py:88`), and `_on_observation` split between bytecodes, are hazards
  with a note.
* Message texts and frame contents beyond what `validation_error` decides.

## Plan

What would add most next: `WatchCards`, the app's one card slot (events,
snapshots, optimistic clear, dropped frames) and `BridgeClient`, its reconnects,
composed with `WatchLinks` through a lossy channel. Properties: at most one live
socket feeds the UI; a request that stays open gets a card again. Among the
proofs: an abstraction of sockets that `WatchLinks` and `WatchAdapter` both
implement, as `ApprovalContract` is one of approvals; and the safety half of
`EveryAskIsReplied`, that an open ask always has a step that leads on.
