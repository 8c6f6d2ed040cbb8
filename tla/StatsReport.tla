----------------------------- MODULE StatsReport -----------------------------
(***************************************************************************)
(* The statistics read from the session store: StatsEngine.snapshot of     *)
(* stats.py, while Hermes goes on writing.                                 *)
(*                                                                         *)
(* A snapshot reads the store four times: the current session over a       *)
(* connection of its own, then the totals, the split by model and the      *)
(* split by day, each a SELECT that sees what has been written by then.    *)
(* The actions under "Hermes" are external.                                *)
(***************************************************************************)
EXTENDS Integers, FiniteSets, Functions

CONSTANTS
  Sessions,
  ModelOf,     \* the model of each session
  NoRow, Null, \* no such session; a column without a value
  None,        \* no session is current
  WindowDays,  \* window_days
  ModelLimit,  \* LIMIT 8
  MaxDay,      \* bound: days that pass
  MaxTokens    \* bound: tokens of a session and column

ASSUME StatsAssumption ==
  /\ IsFiniteSet(Sessions) /\ DOMAIN ModelOf = Sessions
  /\ None \notin Sessions
  /\ WindowDays \in Nat /\ ModelLimit \in Nat \ {0}
  /\ MaxDay \in Nat /\ MaxTokens \in Nat

\* Two columns stand for the four: what is ranked by, input and output, and
\* what is only added up, the cached reads and writes.
Counter == {Null} \union 0..MaxTokens
Row == [status: {"open", "left"}, day: 0..MaxDay,
        fresh: Counter, cached: Counter]

ASSUME MarkerAssumption == NoRow \notin Row /\ Null \notin Nat

VARIABLES
  rows,    \* the table sessions
  newer,   \* pairs of its sessions: the first was active after the second
  today,
  build    \* the snapshot in the making

svars == <<rows, newer, today, build>>

Stored == {s \in Sessions : rows[s] # NoRow}

\* there: history, the sessions there were at the first read; split and whole:
\* history, does the split by model name every model, and had every row of the
\* split by day all its columns?
NoBuild == [read |-> "nothing", session |-> None, there |-> {},
            cutoff |-> 0, counted |-> {}, total |-> 0,
            models |-> 0, split |-> TRUE, days |-> 0, whole |-> TRUE]

SInit ==
  /\ rows = [s \in Sessions |-> NoRow]
  /\ newer = {} /\ today = 0
  /\ build = NoBuild

-----------------------------------------------------------------------------
(* Hermes.                                                                 *)

Or0(v) == IF v = Null THEN 0 ELSE v

Grows(old, new) == new = old \/ (new # Null /\ Or0(old) <= new)

\* last_activity_at: s is the last active from now on.
Touch(s) ==
  newer' = {p \in newer : s \notin {p[1], p[2]}} \union ({s} \X (Stored \ {s}))

Starts(s, fresh, cached) ==
  /\ rows[s] = NoRow
  /\ rows' = [rows EXCEPT ![s] = [status |-> "open", day |-> today,
                                  fresh |-> fresh, cached |-> cached]]
  /\ Touch(s)
  /\ UNCHANGED <<today, build>>

\* After a provider call the counters of the session grow.
Accounts(s, fresh, cached) ==
  /\ rows[s] # NoRow /\ rows[s].status = "open"
  /\ Grows(rows[s].fresh, fresh) /\ Grows(rows[s].cached, cached)
  /\ rows' = [rows EXCEPT ![s].fresh = fresh, ![s].cached = cached]
  /\ Touch(s)
  /\ UNCHANGED <<today, build>>

\* It ends, or is hidden or archived; the queries do not tell these apart.
Leaves(s) ==
  /\ rows[s] # NoRow /\ rows[s].status = "open"
  /\ rows' = [rows EXCEPT ![s].status = "left"]
  /\ UNCHANGED <<newer, today, build>>

DayPasses ==
  /\ today < MaxDay
  /\ today' = today + 1
  /\ UNCHANGED <<rows, newer, build>>

-----------------------------------------------------------------------------
(* The snapshot.                                                           *)

\* What a query finds goes into the snapshot.
Finds(b) == build' = b /\ UNCHANGED <<rows, newer, today>>

Open == {s \in Stored : rows[s].status = "open"}

LastActive(S) == CHOOSE s \in S : \A t \in S \ {s} : <<s, t>> \in newer

\* Mutant: the row instead of its id.
CurrentRow == IF Open = {} THEN None ELSE rows[LastActive(Open)]

\* current_session_id: the last active that has not ended.
CurrentSession == IF Open = {} THEN None ELSE LastActive(Open)

\* session_snapshot reads the session as well: it is there, no row is deleted.
ReadsSession ==
  /\ build.read \in {"nothing", "days"}
  /\ Finds([NoBuild EXCEPT !.read = "session", !.session = CurrentSession,
                          !.there = Stored])

\* Mutant: the session that is current by now is left out.
CurrentLeftOut == CurrentSession

\* The session that is shown is left out of the totals.
LeftOut == build.session

\* The WHERE clause, over the rows there are.
Chosen(cutoff, except) ==
  {s \in Stored : rows[s].day >= cutoff /\ s # except}

\* COALESCE(SUM(column), 0) of each column, added up.
Coalesced == [s \in Stored |-> Or0(rows[s].fresh) + Or0(rows[s].cached)]

\* SUM of the added columns: a row with a NULL counts nothing.
AddedUp == [s \in Stored |-> IF Null \in {rows[s].fresh, rows[s].cached}
                             THEN 0 ELSE rows[s].fresh + rows[s].cached]

ReadsTotals ==
  /\ build.read = "session"
  /\ LET cutoff == today - WindowDays
         found  == Chosen(cutoff, LeftOut)
     IN Finds([build EXCEPT !.read = "totals", !.cutoff = cutoff,
                            !.counted = found,
                            !.total = SumFunctionOnSet(Coalesced, found)])

\* The first ModelLimit models by the tokens ranked; ties fall as they may.
\* (A group without any ranked value is NULL and comes last, as 0 does.)
TopModels(found) ==
  LET group(m) == {s \in found : ModelOf[s] = m}
      ranked   == [s \in Stored |-> Or0(rows[s].fresh)]
      rank(m)  == SumFunctionOnSet(ranked, group(m))
      models   == {ModelOf[s] : s \in found}
  IN {top \in SUBSET models :
        /\ Cardinality(top) = IF Cardinality(models) < ModelLimit
                              THEN Cardinality(models) ELSE ModelLimit
        /\ \A m \in top, n \in models \ top : rank(m) >= rank(n)}

ReadsModels ==
  /\ build.read = "totals"
  /\ LET found == Chosen(build.cutoff, build.session)
     IN \E top \in TopModels(found) :
          Finds([build EXCEPT !.read = "models",
                   !.split = top = {ModelOf[s] : s \in found},
                   !.models = SumFunctionOnSet(Coalesced,
                                {s \in found : ModelOf[s] \in top})])

\* Mutant: the days are counted from now.
CutoffAgain == today - WindowDays

\* One cutoff serves the three queries.
Cutoff == build.cutoff

\* The days of the split together.
ReadsDays ==
  /\ build.read = "models"
  /\ LET found == Chosen(Cutoff, build.session)
     IN Finds([build EXCEPT !.read = "days",
                 !.days = SumFunctionOnSet(AddedUp, found),
                 !.whole = \A s \in found :
                             Null \notin {rows[s].fresh, rows[s].cached}])

-----------------------------------------------------------------------------

SNext ==
  \/ \E s \in Sessions, fresh, cached \in Counter :
       Starts(s, fresh, cached) \/ Accounts(s, fresh, cached)
  \/ \E s \in Sessions : Leaves(s)
  \/ DayPasses
  \/ ReadsSession \/ ReadsTotals \/ ReadsModels \/ ReadsDays

-----------------------------------------------------------------------------
(* Properties.                                                             *)

STypeOK ==
  /\ rows \in [Sessions -> Row \union {NoRow}]
  /\ newer \subseteq Stored \X Stored
  /\ \A s, t \in Stored : IF s = t THEN <<s, t>> \notin newer
                         ELSE (<<s, t>> \in newer) # (<<t, s>> \in newer)
  /\ \A r, s, t \in Stored :
       {<<r, s>>, <<s, t>>} \subseteq newer => <<r, t>> \in newer
  /\ today \in 0..MaxDay
  /\ build \in [read: {"nothing", "session", "totals", "models", "days"},
                session: Sessions \union {None}, there: SUBSET Sessions,
                cutoff: Int, counted: SUBSET Sessions, total: Nat,
                models: Nat, split: BOOLEAN, days: Nat, whole: BOOLEAN]

\* stats.py:306-308: this session and the last days can be read side by side.
\* Each session of the window that was there when the snapshot began is either
\* the one that is shown or counted in the totals, and never both, whatever
\* session starts, ends or becomes the current one between the two reads.
CountedOnce ==
  build.read \in {"totals", "models", "days"} =>
    \A s \in build.there : rows[s].day >= build.cutoff
      => (s = build.session) # (s \in build.counted)

\* The splits are read after the totals, and never fall behind them: what was
\* counted in total is in the split by model, if it names every model, and in
\* the split by day, if no row of it lacked a column.
SplitsNeverBehind ==
  /\ build.read \in {"models", "days"} /\ build.split
       => build.total <= build.models
  /\ build.read = "days" /\ build.whole
       => build.total <= build.days /\ build.models <= build.days
=============================================================================
