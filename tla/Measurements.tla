---------------------------- MODULE Measurements ----------------------------
(***************************************************************************)
(* The live figures: what the request hooks of plugin.py measure about a   *)
(* provider call, how LiveBus folds it into one measurement (live.py) and  *)
(* what throughput and context StatsEngine reads from it (stats.py).       *)
(*                                                                         *)
(* The agent of the gateway and one in a process of its own call           *)
(* providers at the same time.  A call is named by its number; of a value  *)
(* the model keeps which call it was measured in, and with the call what   *)
(* each of its reports said: nothing, zero or a number, each field of its  *)
(* own, because the readers test each one's truth.  The store half of the  *)
(* statistics is StatsReport.                                              *)
(***************************************************************************)
EXTENDS Naturals, Sequences

CONSTANTS
  Agents,    \* the processes that call a provider
  Gateway,   \* the one the adapter lives in
  Models,
  Responses, \* bound: what a response may say of its time and usage
  MaxCalls   \* bound: provider calls in a behaviour

Value == {"none", "zero", "some"}

\* The time and the usage of a response, each field missing or not.
AfterCall == [duration: Value, output: Value, prompt: Value]

ASSUME MeasurementsAssumption ==
  Gateway \in Agents /\ MaxCalls \in Nat \ {0} /\ Responses \subseteq AfterCall

Field == {"approx", "window", "duration", "output", "prompt"}

VARIABLES
  calls,        \* the provider calls, oldest first
  lookups,      \* plugin._context_windows, per process
  measurement   \* bus.state.measurement: the call of each value, or 0

mvars == <<calls, lookups, measurement>>

Call == [by: Agents, model: Models, open: BOOLEAN, window: {"none", "some"},
         approx: Value, duration: Value, output: Value, prompt: Value]

Nothing == [f \in Field |-> 0]

MInit ==
  /\ calls = <<>>
  /\ lookups = [a \in Agents |-> [m \in Models |-> "unasked"]]
  /\ measurement = Nothing

-----------------------------------------------------------------------------

\* Mutant: a zero counts as not measured.
KnownOnly(payload) == {f \in DOMAIN payload : payload[f] = "some"}

\* Values that are None are left out of the update.
Measured(payload) == {f \in DOMAIN payload : payload[f] # "none"}

Merge(n, payload) ==
  [f \in Field |-> IF f \in DOMAIN payload /\ f \in Measured(payload)
                   THEN n ELSE measurement[f]]

\* bus.observe("api_request", payload), unless the observation is lost.
Observe(n, payload) ==
  measurement' \in {measurement, Merge(n, payload)}

\* Mutant: what was never asked for counts as known.
WindowUnasked(a, m) == {lookups[a][m]}

\* _resolve_context_window: Hermes may know no window, or fail to answer.
\* Whatever it said is kept, also that it knew nothing.
Window(a, m) == IF lookups[a][m] = "unasked" THEN {"none", "some"}
                                             ELSE {lookups[a][m]}

\* Mutant: the window is reported when it is looked up and never again.
ReportedOnce(a, m, approx, w) ==
  [approx |-> approx,
   window |-> IF lookups[a][m] = "unasked" THEN w ELSE "none"]

BeforeCall(a, m, approx, w) == [approx |-> approx, window |-> w]

PreApiRequest(a, m) ==
  /\ \A n \in DOMAIN calls : calls[n].by = a => ~calls[n].open
  /\ Len(calls) < MaxCalls
  /\ \E w \in Window(a, m), approx \in Value :
       /\ calls' = Append(calls,
             [by |-> a, model |-> m, open |-> TRUE, window |-> w,
              approx |-> approx, duration |-> "none", output |-> "none",
              prompt |-> "none"])
       /\ lookups' = [lookups EXCEPT ![a][m] = w]
       /\ Observe(Len(calls) + 1, BeforeCall(a, m, approx, w))

PostApiRequest(n) ==
  /\ calls[n].open
  /\ \E after \in Responses :
       /\ calls' = [calls EXCEPT ![n].open = FALSE,
                                 ![n].duration = after.duration,
                                 ![n].output = after.output,
                                 ![n].prompt = after.prompt]
       /\ Observe(n, after)
  /\ UNCHANGED lookups

\* The provider fails: there is no response and no hook.
CallFails(n) ==
  /\ calls[n].open
  /\ calls' = [calls EXCEPT ![n].open = FALSE]
  /\ UNCHANGED <<lookups, measurement>>

\* The gateway restarts: nothing of this is stored.
Restarts ==
  /\ calls' = [n \in DOMAIN calls |->
                IF calls[n].by = Gateway THEN [calls[n] EXCEPT !.open = FALSE]
                                         ELSE calls[n]]
  /\ lookups' = [lookups EXCEPT ![Gateway] = [m \in Models |-> "unasked"]]
  /\ measurement' = Nothing

MNext ==
  \/ \E a \in Agents, m \in Models : PreApiRequest(a, m)
  \/ \E n \in DOMAIN calls : PostApiRequest(n) \/ CallFails(n)
  \/ Restarts

-----------------------------------------------------------------------------
(* What is read from it.                                                   *)

\* The call a field was measured in, if its value counts as true.
Positive(f) ==
  IF measurement[f] = 0 \/ calls[measurement[f]][f] # "some"
  THEN 0 ELSE measurement[f]

\* _throughput: is there a live rate?  Zero tokens have one, zero time not.
HasRate == Positive("duration") # 0 /\ measurement.output # 0

\* context_usage: the call whose tokens are shown, the exact ones first; a zero
\* counts for nothing, and no call is the estimate from the session store.
UsedFrom == IF Positive("prompt") # 0 THEN Positive("prompt")
                                      ELSE Positive("approx")

\* obs.context_window, before the cache file is asked.
WindowFrom == measurement.window

-----------------------------------------------------------------------------

MTypeOK ==
  /\ calls \in Seq(Call) /\ Len(calls) <= MaxCalls
  /\ lookups \in [Agents -> [Models -> {"unasked", "none", "some"}]]
  /\ measurement \in [Field -> 0..Len(calls)]

\* The rate divides the tokens of a call by the time of the same call, unless
\* the response of either named only one of the two: then the other stays that
\* of an earlier call.
RateIsOfOneCall ==
  HasRate /\ calls[measurement.duration].output # "none"
          /\ calls[measurement.output].duration # "none"
    => measurement.output = measurement.duration

\* When the last reports from before and after a call are of the same call,
\* Hermes knew a window for it and no later report named a window without an
\* estimate, the tokens are compared with the window of the model that used
\* them, whatever the other process reports.
ContextIsOfOneModel ==
  UsedFrom # 0 /\ measurement.approx = UsedFrom
               /\ calls[UsedFrom].window = "some"
               /\ (WindowFrom # 0 => calls[WindowFrom].approx # "none")
    => WindowFrom # 0 /\ calls[WindowFrom].model = calls[UsedFrom].model
=============================================================================
