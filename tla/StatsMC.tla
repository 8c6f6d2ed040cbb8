------------------------------- MODULE StatsMC -------------------------------
(* The two halves of the statistics.  They share no variable, so a step of   *)
(* one commutes with every step of the other: it is enough to let one of     *)
(* them move in a behaviour.                                                 *)
EXTENDS StatsReport, Measurements, TLC

CONSTANTS s1, s2, m1, m2

MCModelOf == s1 :> m1 @@ s2 :> m2

\* Responses that lack one thing, or everything.
MCResponses ==
  {r \in AfterCall : \/ Cardinality({f \in DOMAIN r : r[f] # "some"}) <= 1
                     \/ \A f \in DOMAIN r : r[f] = "none"}

Init == SInit /\ MInit

Spec == /\ Init
        /\ [][\/ SNext /\ calls = <<>> /\ UNCHANGED mvars
              \/ MNext /\ Stored = {} /\ build = NoBuild /\ today = 0
                       /\ UNCHANGED svars]_<<svars, mvars>>
=============================================================================
