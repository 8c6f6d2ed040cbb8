--------------------------- MODULE WatchAdapterMC ---------------------------
(* Finite instances of WatchAdapter.                                       *)
EXTENDS WatchAdapter, TLC

CONSTANTS h1, h2, g1, i1, i2, i3, once, deny, w1, w2

\* Every ask has an id of its own, as present_approval's request ids are.
MCOwnIds == [a \in Ask |-> CASE a = h1 -> i1 [] a = h2 -> i2 [] OTHER -> i3]

\* The HTTP asks share one id: plugin.py:260 makes it from a prefix of the
\* request id, so a request presented again reuses it.
MCSharedId == [a \in Ask |-> IF a \in HttpAsk THEN i1 ELSE i3]

\* The in-gateway prompt is a clarify question.
MCKinds == [a \in Ask |-> IF a \in GatewayAsk THEN "question" ELSE "approval"]

\* h1 carries a menu; the others, like a hook's copy, carry none.
MCOffered == [a \in Ask |-> IF a = h1 THEN {once} ELSE {}]

\* Sockets are interchangeable.
MCSymmetry == Permutations(Link)
=============================================================================
