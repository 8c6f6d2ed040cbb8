---------------------------- MODULE WatchLinksMC ----------------------------
(* Finite instances of WatchLinks.                                         *)
EXTENDS WatchLinks

CONSTANTS s1, s2, d1, d2

\* A client that keeps its name and one that has a choice.
MCUrlOf == [s \in Socket |-> IF s = s1 THEN d1 ELSE NoDevice]
MCIdsOf == [s \in Socket |-> IF s = s1 THEN {d1} ELSE {d1, d2}]

\* At most MaxUnderWay coroutines are under way at a time: read loops that
\* wait for a look-up or for resolve(), calls of send(), a round of pings.
MaxUnderWay == 2
FewUnderWay ==
  Cardinality({s \in Socket : call[s] # NoCall})
    + Cardinality({k \in Sender : job[k].step # "idle"})
    + (IF ping = {} THEN 0 ELSE 1) <= MaxUnderWay
=============================================================================
