-------------------------- MODULE ApprovalPluginMC --------------------------
(* Finite instances of ApprovalPlugin.                                     *)
EXTENDS ApprovalPlugin

CONSTANTS r1, r2, once, always

\* Hermes offers r1 a menu of one.
MCAllowed == [r \in Request |-> IF r = r1 THEN {once} ELSE {}]

\* r1 may be answered on two surfaces; of r2 no answer is reported.
MCResponses == [r \in Request |-> IF r = r1 THEN 2 ELSE 0]
=============================================================================
