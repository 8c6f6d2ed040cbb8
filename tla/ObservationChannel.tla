------------------------- MODULE ObservationChannel -------------------------
(***************************************************************************)
(* What the way from the hooks to the gateway's live state promises: an    *)
(* observation arrives once, after all that was reported before it, or it  *)
(* is lost for good; nothing is repeated and nothing lost comes later.     *)
(* Only in the gateway process, after the adapter was away, may what is    *)
(* published on the bus overtake what is still queued.                     *)
(***************************************************************************)
EXTENDS Naturals, SequencesExt

CONSTANTS
  Prompt,  \* the observations that ask a human
  After    \* After[e]: the agent state that e says

VARIABLES
  local,  \* do the hooks run in the gateway process?
  way,    \* what was reported and has not arrived
  faulty, \* was one dropped, or left to the queue in the gateway?
  live    \* the agent state that arrived last

vars == <<local, way, faulty, live>>

Init ==
  /\ local \in BOOLEAN
  /\ way = <<>> /\ ~faulty
  /\ live = "idle"

\* One hook, one or two observations.
Report ==
  /\ IsStrictPrefix(way, way') /\ Len(way') <= Len(way) + 2
  /\ UNCHANGED <<local, faulty, live>>

\* It may arrive in the gateway and still miss the adapter.
Arrive(i) ==
  /\ i = 1 \/ (local /\ faulty)
  /\ way' = RemoveAt(way, i)
  /\ live' = After[way[i]]
  /\ faulty' \in {faulty, faulty \/ local}
  /\ UNCHANGED local

\* A prompt that is posted is registered and not observed.
Register ==
  /\ way # <<>> /\ Head(way) \in Prompt
  /\ way' = Tail(way)
  /\ UNCHANGED <<local, faulty, live>>

Lose(i) ==
  /\ way' = RemoveAt(way, i)
  /\ faulty' = TRUE
  /\ UNCHANGED <<local, live>>

\* It is left to the queue, and what comes later may overtake it.
Detour == local /\ faulty' = TRUE /\ UNCHANGED <<local, way, live>>

Next ==
  \/ Report \/ Register \/ Detour
  \/ \E i \in 1..Len(way) : Arrive(i) \/ Lose(i)

Spec == Init /\ [][Next]_vars
=============================================================================
