-------------------------- MODULE ApprovalContract --------------------------
(***************************************************************************)
(* What the listener promises a process that asks for a human decision and *)
(* blocks on POST /event (docs/protocol.md, client.py:121-150): each ask   *)
(* is closed at most once, at most one human decision is taken for it and  *)
(* only while it is open or its connection was cut, and it is closed       *)
(* either with that decision or with a refusal. An ask is never closed     *)
(* with a decision nobody took.                                            *)
(***************************************************************************)
EXTENDS TLAPS

CONSTANTS
  Asker,    \* the blocking requests
  Answers,  \* what a human can decide
  Menu      \* Menu[a]: the answers the watch may give to a; {} is any

VARIABLES
  status,   \* status[a]: "idle", "open" or "closed"
  decision, \* decision[a]: who decided what, by = "nobody" before
  outcome   \* outcome[a]: what the asker was told, "open" before

vars == <<status, decision, outcome>>

Undecided == [by |-> "nobody", choice |-> "no_answer"]
Refusals == {"no_answer", "unavailable", "dropped"}

Init ==
  /\ status = [a \in Asker |-> "idle"]
  /\ decision = [a \in Asker |-> Undecided]
  /\ outcome = [a \in Asker |-> "open"]

Submit(a) ==
  /\ status[a] = "idle"
  /\ status' = [status EXCEPT ![a] = "open"]
  /\ UNCHANGED <<decision, outcome>>

\* No watch to show it on: refused before it was ever open.
Reject(a) ==
  /\ status[a] = "idle"
  /\ status' = [status EXCEPT ![a] = "closed"]
  /\ outcome' = [outcome EXCEPT ![a] = "unavailable"]
  /\ UNCHANGED decision

Take(a, by, c) ==
  /\ status[a] = "open" \/ outcome[a] = "dropped"
  /\ decision[a] = Undecided
  /\ by = "watch" /\ Menu[a] # {} => c \in Menu[a]
  /\ decision' = [decision EXCEPT ![a] = [by |-> by, choice |-> c]]
  /\ UNCHANGED <<status, outcome>>

Close(a) ==
  /\ status[a] = "open"
  /\ status' = [status EXCEPT ![a] = "closed"]
  /\ \E o \in Refusals \union {decision[a].choice} :
       outcome' = [outcome EXCEPT ![a] = o]
  /\ UNCHANGED decision

Step ==
  \E a \in Asker :
    \/ Submit(a) \/ Reject(a) \/ Close(a)
    \/ \E by \in {"watch", "elsewhere"}, c \in Answers : Take(a, by, c)

\* Every step changes something; said first, so that TLC looks at no step that
\* an implementation takes for itself.
Next == vars' # vars /\ Step

Spec == Init /\ [][Next]_vars

-----------------------------------------------------------------------------
(* Properties.                                                             *)

\* What was decided and what the asker was told is final: no later answer,
\* expiry or shutdown changes either.
Final == \A a \in Asker :
  /\ decision[a] # Undecided => decision'[a] = decision[a]
  /\ outcome[a] # "open" => outcome'[a] = outcome[a]

OnceAndForAll == [][Final]_vars

\* An asker that was told a decision was told the one that was taken, and by
\* then its ask was closed.
ToldWhatWasDecided ==
  \A a \in Asker : outcome[a] # "open" =>
    /\ status[a] = "closed"
    /\ outcome[a] \notin Refusals => outcome[a] = decision[a].choice

-----------------------------------------------------------------------------
(* Proofs, for any askers, answers and menus.                              *)

\* The three tables are about the askers, and nobody is told anything before
\* the ask is closed.
Tables ==
  /\ status = [a \in Asker |-> status[a]]
  /\ decision = [a \in Asker |-> decision[a]]
  /\ outcome = [a \in Asker |-> outcome[a]]

ContractInv == Tables /\ ToldWhatWasDecided

LEMMA ContractInit == Init => ContractInv
  BY DEF Init, ContractInv, Tables, ToldWhatWasDecided

LEMMA ContractStep ==
  ASSUME ContractInv, [Next]_vars
  PROVE  ContractInv' /\ Final
  <1> USE DEF ContractInv, Final
  <1>1. ASSUME NEW a \in Asker, Submit(a)
        PROVE  /\ ContractInv' /\ UNCHANGED <<decision, outcome>>
    <2>1. /\ UNCHANGED <<decision, outcome>>
          /\ status' = [status EXCEPT ![a] = "open"] /\ status[a] = "idle"
      BY <1>1 DEF Submit
    <2> QED BY <2>1 DEF Tables, ToldWhatWasDecided
  <1>2. ASSUME NEW a \in Asker, Reject(a) \/ Close(a)
        PROVE  /\ ContractInv' /\ decision' = decision
               /\ \A b \in Asker : outcome[b] # "open" => outcome'[b] = outcome[b]
    <2>1. PICK o : /\ status' = [status EXCEPT ![a] = "closed"]
                   /\ outcome' = [outcome EXCEPT ![a] = o]
                   /\ o \in Refusals \union {decision[a].choice}
      BY <1>2 DEF Reject, Close, Refusals
    <2>2. status[a] # "closed" /\ decision' = decision
      BY <1>2 DEF Reject, Close
    <2>3. outcome[a] = "open" BY <2>2 DEF ToldWhatWasDecided
    <2>4. \A b \in Asker : /\ status'[b] = IF b = a THEN "closed" ELSE status[b]
                           /\ outcome'[b] = IF b = a THEN o ELSE outcome[b]
      BY <2>1 DEF Tables
    <2>5. Tables' BY <2>1, <2>2 DEF Tables
    <2>6. ToldWhatWasDecided' BY <2>1, <2>2, <2>4 DEF ToldWhatWasDecided
    <2> QED BY <2>2, <2>3, <2>4, <2>5, <2>6
  <1>3. ASSUME NEW a \in Asker, NEW by, NEW c, Take(a, by, c)
        PROVE  /\ ContractInv' /\ outcome' = outcome
               /\ \A b \in Asker : decision[b] # Undecided =>
                                   decision'[b] = decision[b]
    <2>1. /\ decision[a] = Undecided /\ UNCHANGED <<status, outcome>>
          /\ decision' = [decision EXCEPT ![a] = [by |-> by, choice |-> c]]
      BY <1>3 DEF Take
    <2>2. \A b \in Asker : b # a => decision'[b] = decision[b]
      BY <2>1 DEF Tables
    <2>3. outcome[a] # "open" => outcome[a] \in Refusals
      BY <2>1 DEF ToldWhatWasDecided, Undecided, Refusals
    <2>4. Tables' BY <2>1 DEF Tables
    <2>5. ToldWhatWasDecided' BY <2>1, <2>2, <2>3 DEF ToldWhatWasDecided
    <2> QED BY <2>1, <2>2, <2>4, <2>5
  <1>4. CASE UNCHANGED vars BY <1>4 DEF vars, Tables, ToldWhatWasDecided
  <1> QED BY <1>1, <1>2, <1>3, <1>4 DEF Next, Step

\* Whoever keeps the contract decides once and replies once, and never tells
\* a decision that was not taken.
THEOREM ContractIsFinal == Spec => OnceAndForAll /\ []ToldWhatWasDecided
  <1>1. ContractInv => ToldWhatWasDecided BY DEF ContractInv
  <1>2. ContractInv /\ [Next]_vars => [Final]_vars BY ContractStep
  <1>3. ContractInv /\ [Next]_vars => ContractInv' BY ContractStep
  <1> QED BY <1>1, <1>2, <1>3, ContractInit, PTL DEF Spec, OnceAndForAll
=============================================================================
