-------------------------- MODULE StatsReportProofs --------------------------
(* Theorems about StatsReport, for any sessions and any window.            *)
EXTENDS StatsReport, FiniteSetTheorems, Functions, TLAPS

-----------------------------------------------------------------------------
(* Sums.  SumFunctionOnSet picks the elements in an order of its own; the  *)
(* order does not matter, and sums of larger sets and of larger values are *)
(* larger.  Induction is over a least counterexample: the subsets of a     *)
(* finite set are well-founded.                                            *)

\* The element the fold takes first.
Pick(S) == CHOOSE x \in S : TRUE

\* g adds up w over every subset of S, as the fold does.
AddsUp(g, w, S) ==
  g = [s \in SUBSET S |->
         IF s = {} THEN 0 ELSE w[Pick(s)] + g[s \ {Pick(s)}]]

\* The sum is the value of the function the fold chooses.
LEMMA SumIsChosen ==
  ASSUME NEW w, NEW S
  PROVE  SumFunctionOnSet(w, S) = (CHOOSE g : AddsUp(g, w, S))[S]
  BY DEF SumFunctionOnSet, FoldFunctionOnSet, MapThenFoldSet, AddsUp, Pick

\* Among the finite sets that fail there is a least one.
LEMMA LeastSet ==
  ASSUME NEW S, IsFiniteSet(S), NEW Bad, Bad \subseteq SUBSET S, Bad # {}
  PROVE  \E T \in Bad : \A U \in Bad : U \subseteq T => U = T
  <1>1. IsWellFoundedOn(StrictSubsetOrdering(S), SUBSET S)
    BY FS_StrictSubsetOrderingWellFounded, FS_FiniteSubsetsOfFinite
  <1>2. PICK T \in Bad : \A U \in Bad : <<U, T>> \notin StrictSubsetOrdering(S)
    BY <1>1, WFMin
  <1> QED BY <1>2 DEF StrictSubsetOrdering

\* One step of the fold.
LEMMA AddsUpAt ==
  ASSUME NEW w, NEW S, NEW g, AddsUp(g, w, S), NEW s \in SUBSET S
  PROVE  g[s] = IF s = {} THEN 0 ELSE w[Pick(s)] + g[s \ {Pick(s)}]
  BY Zenon DEF AddsUp

\* Two such functions agree wherever both are defined.
LEMMA OneWay ==
  ASSUME NEW w, NEW S, NEW T, IsFiniteSet(S), T \subseteq S,
         NEW g, AddsUp(g, w, S), NEW h, AddsUp(h, w, T)
  PROVE  g[T] = h[T]
  <1> DEFINE Bad == {U \in SUBSET T : g[U] # h[U]}
  <1>1. SUFFICES ASSUME Bad # {} PROVE FALSE OBVIOUS
  <1>2. IsFiniteSet(T) BY FS_Subset
  <1>3. PICK U \in Bad : \A V \in Bad : V \subseteq U => V = U
    <2>1. Bad \subseteq SUBSET T OBVIOUS
    <2> HIDE DEF Bad
    <2> QED BY <1>1, <1>2, <2>1, LeastSet
  <1>4. \A V \in SUBSET T :
          /\ g[V] = IF V = {} THEN 0 ELSE w[Pick(V)] + g[V \ {Pick(V)}]
          /\ h[V] = IF V = {} THEN 0 ELSE w[Pick(V)] + h[V \ {Pick(V)}]
    <2> TAKE V \in SUBSET T
    <2>1. V \in SUBSET S OBVIOUS
    <2>2. g[V] = IF V = {} THEN 0 ELSE w[Pick(V)] + g[V \ {Pick(V)}]
      BY <2>1, AddsUpAt
    <2>3. h[V] = IF V = {} THEN 0 ELSE w[Pick(V)] + h[V \ {Pick(V)}]
      BY AddsUpAt
    <2> QED BY <2>2, <2>3
  <1>5. U # {} BY <1>4
  <1>6. Pick(U) \in U BY <1>5 DEF Pick
  <1> DEFINE V == U \ {Pick(U)}
  <1>7. V \in SUBSET T /\ V # U BY <1>6
  <1>8. g[V] = h[V] BY <1>3, <1>7
  <1> QED BY <1>4, <1>5, <1>8

\* There is such a function.
LEMMA SomeWay ==
  ASSUME NEW w, NEW S, IsFiniteSet(S)
  PROVE  \E g : AddsUp(g, w, S)
  <1> DEFINE Bad == {T \in SUBSET S : ~ \E g : AddsUp(g, w, T)}
  <1>1. SUFFICES ASSUME Bad # {} PROVE FALSE
    OBVIOUS
  <1>2. PICK T \in Bad : \A U \in Bad : U \subseteq T => U = T
    <2>1. Bad \subseteq SUBSET S OBVIOUS
    <2> HIDE DEF Bad
    <2> QED BY <1>1, <2>1, LeastSet
  <1> DEFINE G(U) == CHOOSE g : AddsUp(g, w, U)
             Rest(U) == U \ {Pick(U)}
             h == [U \in SUBSET T |-> IF U = {} THEN 0
                                      ELSE w[Pick(U)] + G(Rest(U))[Rest(U)]]
  <1>3. ASSUME NEW U \in SUBSET T, U # {} PROVE Rest(U) \in SUBSET T /\ Rest(U) # T
    BY <1>3 DEF Pick
  <1>4. \A U \in SUBSET T : U # T => AddsUp(G(U), w, U)
    BY <1>2
  <1>5. ASSUME NEW U \in SUBSET T, U # {}, U # T
        PROVE  G(U)[Rest(U)] = G(Rest(U))[Rest(U)]
    <2>1. AddsUp(G(U), w, U) /\ AddsUp(G(Rest(U)), w, Rest(U))
      BY <1>3, <1>4, <1>5
    <2>2. IsFiniteSet(U) BY FS_Subset
    <2> QED BY <2>1, <2>2, OneWay
  <1>6. ASSUME NEW U \in SUBSET T, U # T
        PROVE  G(U)[U] = h[U]
    <2>1. G(U)[U] = IF U = {} THEN 0 ELSE w[Pick(U)] + G(U)[Rest(U)]
      <3>1. AddsUp(G(U), w, U) BY <1>4, <1>6
      <3> HIDE DEF G
      <3> QED BY <3>1, AddsUpAt
    <2>2. h[U] = IF U = {} THEN 0 ELSE w[Pick(U)] + G(Rest(U))[Rest(U)]
      OBVIOUS
    <2> HIDE DEF G, h, Rest
    <2> QED BY <2>1, <2>2, <1>5, <1>6
  <1>7. \A U \in SUBSET T : h[U] = IF U = {} THEN 0 ELSE w[Pick(U)] + h[Rest(U)]
    <2>1. \A U \in SUBSET T :
            h[U] = IF U = {} THEN 0 ELSE w[Pick(U)] + G(Rest(U))[Rest(U)]
      OBVIOUS
    <2> HIDE DEF G, h, Rest
    <2> QED BY <2>1, <1>3, <1>6
  <1>8. AddsUp(h, w, T)
    <2>1. h = [U \in SUBSET T |-> h[U]] OBVIOUS
    <2> HIDE DEF G, h
    <2> QED BY <2>1, <1>7, Zenon DEF AddsUp
  <1> QED BY <1>2, <1>8

\* The sum is taken of the picked element and of the rest ...
LEMMA SumOfPicked ==
  ASSUME NEW w, NEW S, IsFiniteSet(S)
  PROVE  SumFunctionOnSet(w, S) =
           IF S = {} THEN 0
           ELSE w[Pick(S)] + SumFunctionOnSet(w, S \ {Pick(S)})
  <1> DEFINE G(U) == CHOOSE g : AddsUp(g, w, U)
             R == S \ {Pick(S)}
  <1>1. IsFiniteSet(R) BY FS_Subset
  <1>2. AddsUp(G(S), w, S) /\ AddsUp(G(R), w, R) BY <1>1, SomeWay
  <1>3. SumFunctionOnSet(w, S) = G(S)[S] /\ SumFunctionOnSet(w, R) = G(R)[R]
    BY SumIsChosen
  <1>4. G(S)[R] = G(R)[R] BY <1>2, OneWay
  <1>5. G(S)[S] = IF S = {} THEN 0 ELSE w[Pick(S)] + G(S)[R]
    BY <1>2 DEF AddsUp
  <1> QED BY <1>3, <1>4, <1>5

\* ... and of any element, if the values are integers.
LEMMA SumOfAny ==
  ASSUME NEW S, IsFiniteSet(S), NEW w, \A x \in S : w[x] \in Int
  PROVE  \A T \in SUBSET S :
           /\ SumFunctionOnSet(w, T) \in Int
           /\ \A x \in T : SumFunctionOnSet(w, T) =
                            w[x] + SumFunctionOnSet(w, T \ {x})
  <1> DEFINE sum(T) == SumFunctionOnSet(w, T)
             Fine(T) == sum(T) \in Int
                        /\ \A x \in T : sum(T) = w[x] + sum(T \ {x})
             Bad == {T \in SUBSET S : ~Fine(T)}
  <1>1. SUFFICES ASSUME Bad # {} PROVE FALSE OBVIOUS
  <1>2. PICK T \in Bad : \A U \in Bad : U \subseteq T => U = T
    <2>1. Bad \subseteq SUBSET S OBVIOUS
    <2> HIDE DEF Bad
    <2> QED BY <1>1, <2>1, LeastSet
  <1> DEFINE p == Pick(T)
  <1>3. \A U \in SUBSET T : U # T => Fine(U) BY <1>2
  <1>4. \A U \in SUBSET T :
          sum(U) = IF U = {} THEN 0 ELSE w[Pick(U)] + sum(U \ {Pick(U)})
    <2> TAKE U \in SUBSET T
    <2>1. IsFiniteSet(U) BY FS_Subset
    <2> QED BY <2>1, SumOfPicked
  <1>a. T \in SUBSET S /\ ~Fine(T) BY <1>2
  <1> HIDE DEF sum, Bad
  <1>5. T # {}
    <2>1. SUFFICES ASSUME T = {} PROVE FALSE OBVIOUS
    <2>2. sum(T) = 0 BY <1>4, <2>1
    <2> QED BY <1>a, <2>1, <2>2
  <1>6. p \in T BY <1>5 DEF Pick
  <1>7. sum(T) = w[p] + sum(T \ {p}) BY <1>4, <1>5
  <1>8. sum(T \ {p}) \in Int BY <1>3, <1>6
  <1>9. ASSUME NEW x \in T, x # p PROVE sum(T) = w[x] + sum(T \ {x})
    <2>1. sum(T \ {p}) = w[x] + sum((T \ {p}) \ {x}) BY <1>3, <1>6, <1>9
    <2>2. /\ sum(T \ {x}) \in Int
          /\ sum(T \ {x}) = w[p] + sum((T \ {x}) \ {p})
      BY <1>3, <1>6, <1>9
    <2>3. (T \ {p}) \ {x} = (T \ {x}) \ {p} OBVIOUS
    <2>4. sum((T \ {p}) \ {x}) \in Int
      BY <1>3, <1>6, <2>3
    <2>5. w[x] \in Int /\ w[p] \in Int BY <1>a, <1>6
    <2> DEFINE rest == sum((T \ {x}) \ {p})
    <2>6. sum(T) = w[p] + (w[x] + rest) BY <1>7, <2>1, <2>3
    <2>7. sum(T \ {x}) = w[p] + rest BY <2>2
    <2>8. rest \in Int BY <2>3, <2>4
    <2> HIDE DEF p, rest
    <2> QED BY <2>5, <2>6, <2>7, <2>8
  <1>10. w[p] \in Int BY <1>a, <1>6
  <1>11. Fine(T)
    <2>1. sum(T) \in Int
      <3> HIDE DEF p
      <3> QED BY <1>7, <1>8, <1>10
    <2>2. \A x \in T : sum(T) = w[x] + sum(T \ {x}) BY <1>7, <1>9
    <2> QED BY <2>1, <2>2
  <1> QED BY <1>a, <1>11

\* More elements and larger values make a larger sum.
LEMMA SumGrows ==
  ASSUME NEW T, IsFiniteSet(T), NEW S \in SUBSET T,
         NEW v, \A x \in S : v[x] \in Int,
         NEW w, \A x \in T : w[x] \in Nat,
         \A x \in S : v[x] <= w[x]
  PROVE  SumFunctionOnSet(v, S) <= SumFunctionOnSet(w, T)
  <1> DEFINE V(U) == SumFunctionOnSet(v, U)
             W(U) == SumFunctionOnSet(w, U)
             Bad == {U \in SUBSET T : ~(V(U \cap S) <= W(U))}
  <1>c. \A U \in SUBSET S : /\ V(U) \in Int
                            /\ \A x \in U : V(U) = v[x] + V(U \ {x})
    <2>1. IsFiniteSet(S) BY FS_Subset
    <2> QED BY <2>1, SumOfAny
  <1>d. \A U \in SUBSET T : /\ W(U) \in Int
                            /\ \A x \in U : W(U) = w[x] + W(U \ {x})
    <2>1. \A x \in T : w[x] \in Int OBVIOUS
    <2> QED BY <2>1, SumOfAny
  <1>e. \A U \in SUBSET T : U \cap S \in SUBSET S OBVIOUS
  <1>2. V({}) = 0 /\ W({}) = 0 BY FS_EmptySet, SumOfPicked
  <1>3. SUFFICES ASSUME Bad # {} PROVE FALSE BY <1>c, <1>d, <1>e
  <1>4. PICK U \in Bad : \A X \in Bad : X \subseteq U => X = U
    <2>1. Bad \subseteq SUBSET T OBVIOUS
    <2> HIDE DEF Bad
    <2> QED BY <1>3, <2>1, LeastSet
  <1>a. U \in SUBSET T /\ ~(V(U \cap S) <= W(U)) BY <1>4
  <1>b. \A X \in SUBSET U : X # U => V(X \cap S) <= W(X) BY <1>4
  <1> HIDE DEF V, W, Bad
  <1>5. PICK x \in U : TRUE
    <2>1. SUFFICES ASSUME U = {} PROVE FALSE OBVIOUS
    <2>2. V(U \cap S) = 0 /\ W(U) = 0 BY <1>2, <2>1
    <2> QED BY <1>a, <2>2
  <1> DEFINE X == U \ {x}
  <1>6. X \in SUBSET T /\ V(X \cap S) <= W(X) BY <1>a, <1>b
  <1>7. W(U) = w[x] + W(X) BY <1>d, <1>a
  <1>8. CASE x \in S
    <2>1. V(U \cap S) = v[x] + V((U \cap S) \ {x}) BY <1>c, <1>e, <1>a, <1>8
    <2>2. (U \cap S) \ {x} = X \cap S OBVIOUS
    <2>3. v[x] <= w[x] /\ v[x] \in Int /\ w[x] \in Nat BY <1>a, <1>8
    <2>4. V(X \cap S) \in Int /\ W(X) \in Int BY <1>c, <1>d, <1>e, <1>6
    <2>5. V(U \cap S) = v[x] + V(X \cap S)
      <3> HIDE DEF X
      <3> QED BY <2>1, <2>2
    <2> DEFINE vX == V(X \cap S)
               wX == W(X)
    <2>6. v[x] + vX <= w[x] + wX
      <3>1. vX \in Int /\ wX \in Int /\ vX <= wX BY <1>6, <2>4
      <3> HIDE DEF vX, wX
      <3> QED BY <2>3, <3>1
    <2> QED BY <1>a, <1>7, <2>5, <2>6
  <1>9. CASE x \notin S
    <2>1. U \cap S = X \cap S BY <1>9
    <2>2. w[x] \in Nat BY <1>a
    <2>3. V(X \cap S) \in Int /\ W(X) \in Int BY <1>c, <1>d, <1>e, <1>6
    <2> DEFINE vX == V(X \cap S)
               wX == W(X)
    <2>4. vX <= w[x] + wX
      <3>1. vX \in Int /\ wX \in Int /\ vX <= wX BY <1>6, <2>3
      <3> HIDE DEF vX, wX
      <3> QED BY <2>2, <3>1
    <2>5. V(U \cap S) = vX BY <2>1
    <2> QED BY <1>a, <1>7, <2>4, <2>5
  <1> QED BY <1>8, <1>9

\* A sum of natural numbers is one.
LEMMA SumIsNat ==
  ASSUME NEW S, IsFiniteSet(S), NEW w, \A x \in S : w[x] \in Nat
  PROVE  SumFunctionOnSet(w, S) \in Nat
  <1>1. SumFunctionOnSet(w, S) \in Int
    <2>1. \A x \in S : w[x] \in Int OBVIOUS
    <2> QED BY <2>1, SumOfAny
  <1>2. SumFunctionOnSet(w, {}) = 0 BY FS_EmptySet, SumOfPicked
  <1>3. SumFunctionOnSet(w, {}) <= SumFunctionOnSet(w, S) BY SumGrows
  <1> QED BY <1>1, <1>2, <1>3

-----------------------------------------------------------------------------
(* The snapshot.                                                           *)

SSpec == SInit /\ [][SNext]_svars

-----------------------------------------------------------------------------
(* Types.                                                                  *)

LEMMA StoredFinite == Stored \subseteq Sessions /\ IsFiniteSet(Stored)
  BY StatsAssumption, FS_Subset DEF Stored

\* Of any sessions one was active after all the others.
LEMMA OneIsLast ==
  ASSUME STypeOK, NEW S \in SUBSET Stored, S # {}
  PROVE  LastActive(S) \in S
  <1> DEFINE After(s) == {t \in S : <<t, s>> \in newer}
             All == {After(s) : s \in S}
  <1>1. PICK T \in All : \A U \in All : U \subseteq T => U = T
    <2>1. IsFiniteSet(S) BY StoredFinite, FS_Subset
    <2>2. All \subseteq SUBSET S /\ All # {} OBVIOUS
    <2> HIDE DEF All
    <2> QED BY <2>1, <2>2, LeastSet
  <1>2. PICK s \in S : T = After(s) OBVIOUS
  <1>3. \A t \in S \ {s} : <<s, t>> \in newer
    <2>1. SUFFICES ASSUME NEW t \in S \ {s}, <<s, t>> \notin newer PROVE FALSE
      OBVIOUS
    <2>2. t \in After(s) BY <2>1 DEF STypeOK
    <2>3. t \notin After(t) BY DEF STypeOK
    <2>4. After(t) \subseteq After(s)
      <3> SUFFICES ASSUME NEW u \in After(t) PROVE u \in After(s) OBVIOUS
      <3>1. {<<u, t>>, <<t, s>>} \subseteq newer BY <2>2
      <3>2. u \in Stored /\ t \in Stored /\ s \in Stored OBVIOUS
      <3> QED BY <3>1, <3>2 DEF STypeOK
    <2> QED BY <1>1, <1>2, <2>2, <2>3, <2>4
  <1> QED BY <1>3 DEF LastActive

\* A touched session is the last active of a strict order.
LEMMA TouchOrders ==
  ASSUME STypeOK, NEW s \in Sessions, Touch(s), Stored' = Stored \union {s}
  PROVE  /\ (newer \subseteq Stored \X Stored)'
         /\ (\A x, y \in Stored : IF x = y THEN <<x, y>> \notin newer
                ELSE (<<x, y>> \in newer) # (<<y, x>> \in newer))'
         /\ (\A x, y, z \in Stored :
              {<<x, y>>, <<y, z>>} \subseteq newer => <<x, z>> \in newer)'
  <1>1. \A x, y : <<x, y>> \in newer' <=>
          \/ <<x, y>> \in newer /\ s # x /\ s # y
          \/ x = s /\ y \in Stored \ {s}
    BY DEF Touch, STypeOK
  <1>2. newer' \subseteq Stored' \X Stored' BY DEF Touch, STypeOK
  <1>3. \A x, y \in Stored' : IF x = y THEN <<x, y>> \notin newer'
          ELSE (<<x, y>> \in newer') # (<<y, x>> \in newer')
    <2> TAKE x, y \in Stored'
    <2>1. (x = s \/ x \in Stored) /\ (y = s \/ y \in Stored) OBVIOUS
    <2>2. CASE x = s \/ y = s BY <1>1, <2>1, <2>2
    <2>3. CASE x # s /\ y # s
      <3>1. IF x = y THEN <<x, y>> \notin newer
            ELSE (<<x, y>> \in newer) # (<<y, x>> \in newer)
        BY <2>1, <2>3 DEF STypeOK
      <3>2. /\ <<x, y>> \in newer' <=> <<x, y>> \in newer
            /\ <<y, x>> \in newer' <=> <<y, x>> \in newer
        BY <1>1, <2>3
      <3> QED BY <3>1, <3>2
    <2> QED BY <2>2, <2>3
  <1>4. \A x, y, z \in Stored' :
          {<<x, y>>, <<y, z>>} \subseteq newer' => <<x, z>> \in newer'
    BY <1>1 DEF STypeOK
  <1> QED BY <1>2, <1>3, <1>4

\* What a query adds up is a natural number.
LEMMA Tokens ==
  ASSUME rows \in [Sessions -> Row \union {NoRow}]
  PROVE  /\ \A s \in Stored : Coalesced[s] \in Nat /\ AddedUp[s] \in Nat
         /\ \A S \in SUBSET Stored :
              /\ SumFunctionOnSet(Coalesced, S) \in Nat
              /\ SumFunctionOnSet(AddedUp, S) \in Nat
  <1>1. \A s \in Stored : rows[s] \in Row BY DEF Stored
  <1>2. \A s \in Stored : Coalesced[s] \in Nat
    BY <1>1, StatsAssumption DEF Coalesced, Row, Counter, Or0
  <1>3. \A s \in Stored : AddedUp[s] \in Nat
    BY <1>1, StatsAssumption DEF AddedUp, Row, Counter
  <1>4. ASSUME NEW S \in SUBSET Stored
        PROVE  /\ SumFunctionOnSet(Coalesced, S) \in Nat
               /\ SumFunctionOnSet(AddedUp, S) \in Nat
    <2>1. IsFiniteSet(S) BY StoredFinite, FS_Subset
    <2> QED BY <1>2, <1>3, <2>1, SumIsNat
  <1> QED BY <1>2, <1>3, <1>4

-----------------------------------------------------------------------------
(* What Hermes writes.                                                     *)

\* No row is deleted, none changes its day, and its tokens only grow.
RowsGrow ==
  \A s \in Stored : /\ s \in Stored' /\ rows'[s].day = rows[s].day
                    /\ Coalesced[s] <= Coalesced'[s]

LEMMA Writes ==
  ASSUME STypeOK, NEW s \in Sessions, NEW r \in Row,
         rows' = [rows EXCEPT ![s] = r],
         rows[s] # NoRow => /\ r.day = rows[s].day
                            /\ Or0(rows[s].fresh) <= Or0(r.fresh)
                            /\ Or0(rows[s].cached) <= Or0(r.cached)
  PROVE  /\ RowsGrow /\ rows' \in [Sessions -> Row \union {NoRow}]
         /\ Stored' = Stored \union {s}
  <1>1. \A x \in Sessions : rows'[x] = IF x = s THEN r ELSE rows[x]
    BY DEF STypeOK
  <1>2. r # NoRow BY MarkerAssumption
  <1>3. Stored' = Stored \union {s} BY <1>1, <1>2 DEF Stored
  <1>4. rows' \in [Sessions -> Row \union {NoRow}] BY <1>1 DEF STypeOK
  <1>5. ASSUME NEW x \in Stored PROVE Coalesced[x] <= Coalesced'[x]
    <2>1. /\ Coalesced[x] = Or0(rows[x].fresh) + Or0(rows[x].cached)
          /\ Coalesced'[x] = Or0(rows'[x].fresh) + Or0(rows'[x].cached)
      BY <1>3 DEF Coalesced
    <2>2. CASE x # s BY <1>1, <2>1, <2>2, <1>4, Tokens DEF STypeOK, Stored
    <2>3. CASE x = s
      <3>1. rows[s] \in Row /\ rows'[s] = r BY <1>1, <2>3 DEF STypeOK, Stored
      <3>2. /\ Or0(rows[s].fresh) \in Nat /\ Or0(rows[s].cached) \in Nat
            /\ Or0(r.fresh) \in Nat /\ Or0(r.cached) \in Nat
        BY <3>1, StatsAssumption DEF Row, Counter, Or0
      <3>3. rows[s] # NoRow BY <2>3 DEF Stored
      <3> QED BY <2>1, <2>3, <3>1, <3>2, <3>3
    <2> QED BY <2>2, <2>3
  <1>6. ASSUME NEW x \in Stored
        PROVE  x \in Stored' /\ rows'[x].day = rows[x].day
    BY <1>1, <1>3, MarkerAssumption DEF Stored
  <1> QED BY <1>3, <1>4, <1>5, <1>6 DEF RowsGrow

LEMMA HermesWrites ==
  ASSUME STypeOK, NEW s \in Sessions,
         NEW fresh \in Counter, NEW cached \in Counter,
         Starts(s, fresh, cached) \/ Accounts(s, fresh, cached) \/ Leaves(s)
  PROVE  STypeOK' /\ RowsGrow /\ UNCHANGED build
  <1>1. CASE Starts(s, fresh, cached)
    <2> DEFINE r == [status |-> "open", day |-> today, fresh |-> fresh,
                     cached |-> cached]
    <2>1. r \in Row BY DEF Row, STypeOK
    <2>2. /\ rows[s] = NoRow /\ rows' = [rows EXCEPT ![s] = r] /\ Touch(s)
          /\ UNCHANGED <<today, build>>
      BY <1>1 DEF Starts
    <2> HIDE DEF r
    <2>3. /\ RowsGrow /\ rows' \in [Sessions -> Row \union {NoRow}]
          /\ Stored' = Stored \union {s}
      BY <2>1, <2>2, Writes
    <2> QED BY <2>2, <2>3, TouchOrders DEF STypeOK
  <1>2. CASE Accounts(s, fresh, cached)
    <2> DEFINE r == [rows[s] EXCEPT !.fresh = fresh, !.cached = cached]
    <2>1. rows[s] \in Row BY <1>2 DEF Accounts, STypeOK
    <2>2. r \in Row /\ r.day = rows[s].day /\ r.fresh = fresh
          /\ r.cached = cached
      BY <2>1 DEF Row
    <2>3. /\ rows' = [rows EXCEPT ![s] = r] /\ Touch(s)
          /\ UNCHANGED <<today, build>>
          /\ Grows(rows[s].fresh, fresh) /\ Grows(rows[s].cached, cached)
      BY <1>2 DEF Accounts
    <2>4. /\ Or0(rows[s].fresh) <= Or0(fresh)
          /\ Or0(rows[s].cached) <= Or0(cached)
      BY <2>1, <2>3, StatsAssumption DEF Grows, Or0, Row, Counter
    <2> HIDE DEF r
    <2>5. /\ RowsGrow /\ rows' \in [Sessions -> Row \union {NoRow}]
          /\ Stored' = Stored \union {s}
      BY <2>2, <2>3, <2>4, Writes
    <2> QED BY <2>3, <2>5, TouchOrders DEF STypeOK
  <1>3. CASE Leaves(s)
    <2> DEFINE r == [rows[s] EXCEPT !.status = "left"]
    <2>1. rows[s] \in Row BY <1>3 DEF Leaves, STypeOK
    <2>2. /\ r \in Row /\ r.day = rows[s].day
          /\ r.fresh = rows[s].fresh /\ r.cached = rows[s].cached
      BY <2>1 DEF Row
    <2>3. /\ rows' = [rows EXCEPT ![s] = r] /\ s \in Stored
          /\ UNCHANGED <<newer, today, build>>
      BY <1>3 DEF Leaves, Stored
    <2>4. /\ Or0(rows[s].fresh) <= Or0(r.fresh)
          /\ Or0(rows[s].cached) <= Or0(r.cached)
      BY <2>1, <2>2, StatsAssumption DEF Or0, Row, Counter
    <2> HIDE DEF r
    <2>5. /\ RowsGrow /\ rows' \in [Sessions -> Row \union {NoRow}]
          /\ Stored' = Stored \union {s}
      BY <2>2, <2>3, <2>4, Writes
    <2>6. Stored' = Stored BY <2>3, <2>5
    <2> QED BY <2>3, <2>5, <2>6 DEF STypeOK
  <1> QED BY <1>1, <1>2, <1>3
-----------------------------------------------------------------------------
(* The reads.                                                              *)

Settled == {"totals", "models", "days"}

\* The rows did not change, so no sum did.
LEMMA SameRows ==
  ASSUME UNCHANGED rows
  PROVE  Stored' = Stored /\ Coalesced' = Coalesced /\ AddedUp' = AddedUp
  BY DEF Stored, Coalesced, AddedUp

LEMMA CurrentTyped ==
  ASSUME STypeOK PROVE CurrentSession \in Sessions \union {None}
  <1>1. Open \in SUBSET Stored BY DEF Open
  <1>2. Open # {} => LastActive(Open) \in Open BY <1>1, OneIsLast
  <1> QED BY <1>1, <1>2, StoredFinite DEF CurrentSession

LEMMA TypeStep == ASSUME STypeOK, [SNext]_svars PROVE STypeOK'
  <1> USE DEF STypeOK
  <1>1. ASSUME NEW s \in Sessions, NEW fresh \in Counter, NEW cached \in Counter,
               Starts(s, fresh, cached) \/ Accounts(s, fresh, cached)
        PROVE  STypeOK'
    BY <1>1, HermesWrites
  <1>2. ASSUME NEW s \in Sessions, Leaves(s) PROVE STypeOK'
    <2>1. Null \in Counter BY DEF Counter
    <2> QED BY <1>2, <2>1, HermesWrites
  <1>3. CASE DayPasses
    BY <1>3, StatsAssumption DEF DayPasses, Stored
  <1>4. CASE ReadsSession
    <2> DEFINE session == CurrentSession
               there == Stored
    <2>1. /\ build' = [NoBuild EXCEPT !.read = "session",
                         !.session = session, !.there = there]
          /\ UNCHANGED <<rows, newer, today>>
      BY <1>4 DEF ReadsSession, Finds
    <2>2. there \subseteq Sessions BY StoredFinite
    <2>3. session \in Sessions \union {None} BY CurrentTyped
    <2> HIDE DEF session, there
    <2>4. build' \in [read: {"nothing", "session", "totals", "models", "days"},
                      session: Sessions \union {None}, there: SUBSET Sessions,
                      cutoff: Int, counted: SUBSET Sessions, total: Nat,
                      models: Nat, split: BOOLEAN, days: Nat, whole: BOOLEAN]
      <3>1. build' = [read |-> "session", session |-> session, there |-> there,
                      cutoff |-> 0, counted |-> {}, total |-> 0, models |-> 0,
                      split |-> TRUE, days |-> 0, whole |-> TRUE]
        BY <2>1 DEF NoBuild
      <3> QED BY <3>1, <2>2, <2>3
    <2> QED BY <2>1, <2>4, SameRows
  <1>5. CASE ReadsTotals
    <2> DEFINE cutoff == today - WindowDays
               found == Chosen(cutoff, LeftOut)
               sum == SumFunctionOnSet(Coalesced, found)
    <2>1. /\ build' = [build EXCEPT !.read = "totals", !.cutoff = cutoff,
                         !.counted = found, !.total = sum]
          /\ UNCHANGED <<rows, newer, today>>
      BY <1>5 DEF ReadsTotals, Finds
    <2>2. found \in SUBSET Stored BY DEF Chosen
    <2>3. sum \in Nat BY <2>2, Tokens
    <2>4. cutoff \in Int BY StatsAssumption
    <2>5. found \subseteq Sessions BY <2>2, StoredFinite
    <2> HIDE DEF cutoff, found, sum
    <2> QED BY <2>1, <2>3, <2>4, <2>5, SameRows
  <1>6. CASE ReadsModels
    <2>1. PICK top :
            /\ build' = [build EXCEPT !.read = "models",
                 !.split = top = {ModelOf[s] : s \in
                                   Chosen(build.cutoff, build.session)},
                 !.models = SumFunctionOnSet(Coalesced,
                    {s \in Chosen(build.cutoff, build.session) :
                       ModelOf[s] \in top})]
            /\ UNCHANGED <<rows, newer, today>>
      BY <1>6 DEF ReadsModels, Finds
    <2> DEFINE named == {s \in Chosen(build.cutoff, build.session) :
                           ModelOf[s] \in top}
               sum == SumFunctionOnSet(Coalesced, named)
               all == top = {ModelOf[s] : s \in
                               Chosen(build.cutoff, build.session)}
    <2>2. named \in SUBSET Stored BY DEF Chosen
    <2>3. sum \in Nat BY <2>2, Tokens
    <2>4. all \in BOOLEAN OBVIOUS
    <2>5. build' = [build EXCEPT !.read = "models", !.split = all, !.models = sum]
      BY <2>1
    <2> HIDE DEF named, sum, all
    <2> QED BY <2>1, <2>3, <2>4, <2>5, SameRows
  <1>7. CASE ReadsDays
    <2> DEFINE found == Chosen(build.cutoff, build.session)
               sum == SumFunctionOnSet(AddedUp, found)
               all == \A s \in found : Null \notin {rows[s].fresh, rows[s].cached}
    <2>1. /\ build' = [build EXCEPT !.read = "days", !.days = sum, !.whole = all]
          /\ UNCHANGED <<rows, newer, today>>
      BY <1>7 DEF ReadsDays, Finds, Cutoff
    <2>2. found \in SUBSET Stored BY DEF Chosen
    <2>3. sum \in Nat BY <2>2, Tokens
    <2>4. all \in BOOLEAN OBVIOUS
    <2> HIDE DEF found, sum, all
    <2> QED BY <2>1, <2>3, <2>4, SameRows
  <1>8. CASE UNCHANGED svars BY <1>8, SameRows DEF svars
  <1> QED BY <1>1, <1>2, <1>3, <1>4, <1>5, <1>6, <1>7, <1>8 DEF SNext

\* The table stays a table whose sessions are ordered by their activity, and
\* the current session is always one of them or none: of the open sessions
\* one was active last.
THEOREM StatsTyped == SSpec => []STypeOK
  <1>1. SInit => STypeOK
    BY StatsAssumption DEF SInit, STypeOK, NoBuild, Stored
  <1> QED BY <1>1, TypeStep, PTL DEF SSpec
-----------------------------------------------------------------------------
(* The current session and the totals.                                     *)

\* Sessions are never deleted and keep their day: what was there at the first
\* read is there at the second, so it is shown or counted.
CountInv ==
  /\ build.there \subseteq Stored
  /\ build.read \in Settled =>
       \A s \in build.there : rows[s].day >= build.cutoff
         => (s = build.session <=> s \notin build.counted)

\* The splits are at least what was counted, and at most what there is now.
SplitInv ==
  build.read \in Settled =>
    /\ build.counted \subseteq Chosen(build.cutoff, build.session)
    /\ build.total <= SumFunctionOnSet(Coalesced, build.counted)
    /\ build.read # "totals" =>
         /\ build.split => build.total <= build.models
         /\ build.models <= SumFunctionOnSet(Coalesced,
                              Chosen(build.cutoff, build.session))
    /\ build.read = "days" /\ build.whole =>
         build.total <= build.days /\ build.models <= build.days

ReportInv == STypeOK /\ CountInv /\ SplitInv

LEMMA SumsGrow ==
  ASSUME STypeOK, STypeOK', RowsGrow,
         NEW S, S \subseteq Stored, NEW T, T \subseteq Stored', S \subseteq T
  PROVE  /\ SumFunctionOnSet(Coalesced, S) \in Nat
         /\ SumFunctionOnSet(Coalesced', T) \in Nat
         /\ SumFunctionOnSet(Coalesced, S) <= SumFunctionOnSet(Coalesced', T)
  <1>1. /\ \A s \in Stored : Coalesced[s] \in Nat
        /\ SumFunctionOnSet(Coalesced, S) \in Nat
    BY Tokens DEF STypeOK
  <1>2. \A s \in Stored' : Coalesced'[s] \in Nat
    <2>1. \A s \in Stored' : rows'[s] \in Row BY DEF Stored, STypeOK
    <2> QED BY <2>1, StatsAssumption DEF Coalesced, Row, Counter, Or0
  <1>3. IsFiniteSet(T)
    <2>1. T \subseteq Sessions BY DEF Stored
    <2> QED BY <2>1, StatsAssumption, FS_Subset
  <1> DEFINE old == Coalesced
             new == Coalesced'
  <1>4. /\ \A s \in S : old[s] \in Int /\ old[s] <= new[s]
        /\ \A s \in T : new[s] \in Nat
    BY <1>1, <1>2 DEF RowsGrow
  <1>5. SumFunctionOnSet(old, S) \in Nat BY <1>1
  <1> HIDE DEF old, new
  <1>6. SumFunctionOnSet(new, T) \in Nat BY <1>3, <1>4, SumIsNat
  <1>7. SumFunctionOnSet(old, S) <= SumFunctionOnSet(new, T)
    BY <1>3, <1>4, SumGrows
  <1> QED BY <1>5, <1>6, <1>7 DEF old, new

\* While Hermes writes, the snapshot in the making stays as it is.
LEMMA WritesKeep ==
  ASSUME ReportInv, STypeOK', RowsGrow, UNCHANGED build
  PROVE  ReportInv'
  <1>1. Stored \subseteq Stored' BY DEF RowsGrow
  <1>2. CountInv'
    BY <1>1 DEF ReportInv, CountInv, RowsGrow
  <1>3. SplitInv'
    <2>1. SUFFICES ASSUME build.read \in Settled PROVE SplitInv'
      BY DEF SplitInv
    <2> DEFINE C == Chosen(build.cutoff, build.session)
    <2>2. /\ build.counted \subseteq C
          /\ build.total <= SumFunctionOnSet(Coalesced, build.counted)
          /\ build.read # "totals" =>
               /\ build.split => build.total <= build.models
               /\ build.models <= SumFunctionOnSet(Coalesced, C)
          /\ build.read = "days" /\ build.whole =>
               build.total <= build.days /\ build.models <= build.days
      BY <2>1 DEF ReportInv, SplitInv
    <2> DEFINE D == Chosen(build.cutoff, build.session)'
    <2>3. /\ C \subseteq Stored /\ D \subseteq Stored' /\ C \subseteq D
          /\ build.counted \subseteq D
      BY <1>1, <2>2 DEF Chosen, RowsGrow
    <2>5. /\ SumFunctionOnSet(Coalesced, build.counted) \in Nat
          /\ SumFunctionOnSet(Coalesced', build.counted) \in Nat
          /\ SumFunctionOnSet(Coalesced, build.counted)
               <= SumFunctionOnSet(Coalesced', build.counted)
      <3> HIDE DEF C, D
      <3>1. /\ build.counted \subseteq Stored
            /\ build.counted \subseteq Stored'
        BY <2>2, <2>3
      <3> QED BY <3>1, SumsGrow DEF ReportInv
    <2>6. /\ SumFunctionOnSet(Coalesced, C) \in Nat
          /\ SumFunctionOnSet(Coalesced', D) \in Nat
          /\ SumFunctionOnSet(Coalesced, C) <= SumFunctionOnSet(Coalesced', D)
      <3> HIDE DEF C, D
      <3> QED BY <2>3, SumsGrow DEF ReportInv
    <2>8. build.total \in Nat /\ build.models \in Nat BY DEF ReportInv, STypeOK
    <2> DEFINE counted == SumFunctionOnSet(Coalesced', build.counted)
               now == SumFunctionOnSet(Coalesced', D)
    <2>9. /\ build.total <= counted
          /\ build.read # "totals" =>
               /\ build.split => build.total <= build.models
               /\ build.models <= now
      BY <2>2, <2>5, <2>6, <2>8
    <2> HIDE DEF counted, now, C
    <2>10. SplitInv' <=>
             /\ build.counted \subseteq D
             /\ build.total <= counted
             /\ build.read # "totals" =>
                  /\ build.split => build.total <= build.models
                  /\ build.models <= now
             /\ build.read = "days" /\ build.whole =>
                  build.total <= build.days /\ build.models <= build.days
      BY <2>1 DEF SplitInv, counted, now
    <2> QED BY <2>2, <2>3, <2>9, <2>10
  <1> QED BY <1>2, <1>3 DEF ReportInv

LEMMA SumsNow ==
  ASSUME STypeOK, NEW S, NEW T, T \subseteq Stored, S \subseteq T
  PROVE  /\ SumFunctionOnSet(Coalesced, S) \in Nat
         /\ SumFunctionOnSet(Coalesced, T) \in Nat
         /\ SumFunctionOnSet(Coalesced, S) <= SumFunctionOnSet(Coalesced, T)
  <1> DEFINE w == Coalesced
  <1>1. IsFiniteSet(T) BY StoredFinite, FS_Subset
  <1>2. \A s \in T : w[s] \in Nat BY Tokens DEF STypeOK
  <1> HIDE DEF w
  <1>3. SumFunctionOnSet(w, S) <= SumFunctionOnSet(w, T)
    <2>1. \A s \in S : w[s] \in Int /\ w[s] <= w[s] BY <1>2
    <2> QED BY <1>1, <1>2, <2>1, SumGrows
  <1>4. SumFunctionOnSet(w, S) \in Nat /\ SumFunctionOnSet(w, T) \in Nat
    <2>1. IsFiniteSet(S) /\ \A s \in S : w[s] \in Nat BY <1>1, <1>2, FS_Subset
    <2> QED BY <1>1, <1>2, <2>1, SumIsNat
  <1> QED BY <1>3, <1>4 DEF w

LEMMA TotalsKeep == ASSUME ReportInv, STypeOK', ReadsTotals PROVE ReportInv'
  <1> DEFINE cutoff == today - WindowDays
             found == Chosen(cutoff, build.session)
             sum == SumFunctionOnSet(Coalesced, found)
  <1>1. /\ build' = [build EXCEPT !.read = "totals", !.cutoff = cutoff,
                       !.counted = found, !.total = sum]
        /\ UNCHANGED <<rows, newer, today>>
    BY DEF ReadsTotals, Finds, LeftOut
  <1>2. /\ build'.read = "totals" /\ build'.cutoff = cutoff
        /\ build'.counted = found /\ build'.total = sum
        /\ build'.session = build.session /\ build'.there = build.there
    BY <1>1 DEF ReportInv, STypeOK
  <1>3. \A s \in Stored : s \in found <=>
          rows[s].day >= cutoff /\ s # build.session
    BY DEF Chosen
  <1>4. Stored' = Stored /\ Coalesced' = Coalesced /\ rows' = rows
    BY <1>1, SameRows
  <1>5. CountInv'
    <2> HIDE DEF cutoff, found, sum
    <2> QED BY <1>2, <1>3, <1>4 DEF ReportInv, CountInv
  <1>6. found \subseteq Stored BY DEF Chosen
  <1>7. Chosen(build.cutoff, build.session)' = found
    BY <1>2, <1>4 DEF Chosen
  <1>8. sum \in Nat BY <1>6, SumsNow DEF ReportInv
  <1>9. SplitInv'
    <2> DEFINE all == Coalesced
    <2>1. Coalesced' = all /\ sum = SumFunctionOnSet(all, found) BY <1>4
    <2> HIDE DEF cutoff, found, sum, all
    <2> QED BY <1>2, <1>7, <1>8, <2>1 DEF SplitInv
  <1> QED BY <1>5, <1>9 DEF ReportInv

\* A split by model that names every model is over all that was chosen.
LEMMA ModelsKeep == ASSUME ReportInv, STypeOK', ReadsModels PROVE ReportInv'
  <1> DEFINE found == Chosen(build.cutoff, build.session)
             now == SumFunctionOnSet(Coalesced, found)
             counted == SumFunctionOnSet(Coalesced, build.counted)
  <1>1. PICK top :
          /\ build' = [build EXCEPT !.read = "models",
               !.split = top = {ModelOf[s] : s \in found},
               !.models = SumFunctionOnSet(Coalesced,
                  {s \in found : ModelOf[s] \in top})]
          /\ UNCHANGED <<rows, newer, today>>
    BY DEF ReadsModels, Finds
  <1> DEFINE named == {s \in found : ModelOf[s] \in top}
             sum == SumFunctionOnSet(Coalesced, named)
             split == top = {ModelOf[s] : s \in found}
  <1>a. /\ build'.read = "models" /\ build'.models = sum
        /\ build'.split = split
        /\ build'.cutoff = build.cutoff /\ build'.counted = build.counted
        /\ build'.total = build.total
        /\ build'.session = build.session /\ build'.there = build.there
    <2> HIDE DEF sum, split
    <2>1. build' = [build EXCEPT !.read = "models", !.split = split,
                                 !.models = sum]
      BY <1>1 DEF sum, split
    <2> QED BY <2>1 DEF ReportInv, STypeOK
  <1>b. split => named = found OBVIOUS
  <1> HIDE DEF split
  <1>2. /\ build'.read = "models" /\ build'.models = sum
        /\ build'.split => named = found
        /\ build'.cutoff = build.cutoff /\ build'.counted = build.counted
        /\ build'.total = build.total
        /\ build'.session = build.session /\ build'.there = build.there
    BY <1>a, <1>b
  <1>3. build.read = "totals" BY DEF ReadsModels
  <1>4. Stored' = Stored /\ Coalesced' = Coalesced /\ rows' = rows
    BY <1>1, SameRows
  <1>5. CountInv'
    <2> HIDE DEF found, sum, named
    <2> QED BY <1>2, <1>3, <1>4 DEF ReportInv, CountInv, Settled
  <1>6. build.counted \subseteq found /\ build.total <= counted
    BY <1>3 DEF ReportInv, SplitInv, Settled
  <1>7. found \subseteq Stored /\ named \subseteq found BY DEF Chosen
  <1>8. counted \in Nat /\ now \in Nat /\ counted <= now
    <2> HIDE DEF found
    <2> QED BY <1>6, <1>7, SumsNow DEF ReportInv
  <1>9. sum \in Nat /\ sum <= now
    <2> HIDE DEF found, named
    <2> QED BY <1>7, SumsNow DEF ReportInv
  <1>10. build'.split => sum = now BY <1>2
  <1>11. build.total \in Nat BY DEF ReportInv, STypeOK
  <1>12. Chosen(build.cutoff, build.session)' = found
    BY <1>2, <1>4 DEF Chosen
  <1>13. SplitInv'
    <2> DEFINE all == Coalesced
    <2>1. Coalesced' = all /\ now = SumFunctionOnSet(all, found)
          /\ counted = SumFunctionOnSet(all, build.counted) BY <1>4
    <2> HIDE DEF found, sum, now, counted, named, all
    <2> QED BY <1>2, <1>6, <1>8, <1>9, <1>10, <1>11, <1>12, <2>1 DEF SplitInv
  <1> QED BY <1>5, <1>13 DEF ReportInv

\* Where no row lacks a column the columns added up are the tokens.
LEMMA DaysKeep == ASSUME ReportInv, STypeOK', ReadsDays PROVE ReportInv'
  <1> DEFINE found == Chosen(build.cutoff, build.session)
             now == SumFunctionOnSet(Coalesced, found)
             counted == SumFunctionOnSet(Coalesced, build.counted)
             sum == SumFunctionOnSet(AddedUp, found)
             all == \A s \in found : Null \notin {rows[s].fresh, rows[s].cached}
  <1>1. /\ build' = [build EXCEPT !.read = "days", !.days = sum, !.whole = all]
        /\ UNCHANGED <<rows, newer, today>>
    BY DEF ReadsDays, Finds, Cutoff
  <1>2. /\ build'.read = "days" /\ build'.days = sum /\ build'.whole = all
        /\ build'.split = build.split /\ build'.models = build.models
        /\ build'.cutoff = build.cutoff /\ build'.counted = build.counted
        /\ build'.total = build.total
        /\ build'.session = build.session /\ build'.there = build.there
    <2> HIDE DEF all, sum
    <2> QED BY <1>1 DEF ReportInv, STypeOK
  <1>3. build.read = "models" BY DEF ReadsDays
  <1>4. Stored' = Stored /\ Coalesced' = Coalesced /\ rows' = rows
    BY <1>1, SameRows
  <1>5. CountInv'
    <2> HIDE DEF found, sum, all
    <2> QED BY <1>2, <1>3, <1>4 DEF ReportInv, CountInv, Settled
  <1>6. /\ build.counted \subseteq found /\ build.total <= counted
        /\ build.split => build.total <= build.models
        /\ build.models <= now
    BY <1>3 DEF ReportInv, SplitInv, Settled
  <1>7. found \subseteq Stored BY DEF Chosen
  <1>8. counted \in Nat /\ now \in Nat /\ counted <= now
    <2> HIDE DEF found
    <2> QED BY <1>6, <1>7, SumsNow DEF ReportInv
  <1>9. sum \in Nat BY <1>7, Tokens DEF ReportInv, STypeOK
  <1>10. all => now <= sum
    <2>1. SUFFICES ASSUME all PROVE now <= sum OBVIOUS
    <2> DEFINE v == Coalesced
               w == AddedUp
    <2>2. \A s \in found : v[s] \in Int /\ w[s] \in Nat /\ v[s] <= w[s]
      <3> TAKE s \in found
      <3>1. s \in Stored BY <1>7
      <3>2. v[s] \in Nat /\ w[s] \in Nat BY <3>1, Tokens DEF ReportInv, STypeOK
      <3>3. v[s] = w[s] BY <2>1, <3>1 DEF Coalesced, AddedUp, Or0
      <3> QED BY <3>2, <3>3
    <2>3. IsFiniteSet(found) BY <1>7, StoredFinite, FS_Subset
    <2>4. now = SumFunctionOnSet(v, found) /\ sum = SumFunctionOnSet(w, found)
      OBVIOUS
    <2> HIDE DEF found, v, w, now, sum
    <2> QED BY <2>2, <2>3, <2>4, SumGrows
  <1>11. build.total \in Nat /\ build.models \in Nat
    BY DEF ReportInv, STypeOK
  <1>12. Chosen(build.cutoff, build.session)' = found
    BY <1>2, <1>4 DEF Chosen
  <1>13. SplitInv'
    <2> DEFINE tokens == Coalesced
    <2>1. Coalesced' = tokens /\ now = SumFunctionOnSet(tokens, found)
          /\ counted = SumFunctionOnSet(tokens, build.counted) BY <1>4
    <2>2. all => build.total <= sum /\ build.models <= sum
      <3> HIDE DEF found, sum, now, counted, all
      <3> QED BY <1>6, <1>8, <1>9, <1>10, <1>11
    <2> HIDE DEF found, sum, now, counted, all, tokens
    <2> QED BY <1>2, <1>6, <1>12, <2>1, <2>2 DEF SplitInv
  <1> QED BY <1>5, <1>13 DEF ReportInv

LEMMA ReportStep == ASSUME ReportInv, [SNext]_svars PROVE ReportInv'
  <1>1. STypeOK' BY TypeStep DEF ReportInv
  <1>2. ASSUME NEW s \in Sessions, NEW fresh \in Counter, NEW cached \in Counter,
               Starts(s, fresh, cached) \/ Accounts(s, fresh, cached)
        PROVE  ReportInv'
    BY <1>2, HermesWrites, WritesKeep DEF ReportInv
  <1>3. ASSUME NEW s \in Sessions, Leaves(s) PROVE ReportInv'
    <2>1. Null \in Counter BY DEF Counter
    <2> QED BY <1>3, <2>1, HermesWrites, WritesKeep DEF ReportInv
  <1>4. ASSUME UNCHANGED <<rows, build>> PROVE ReportInv'
    <2>1. Stored' = Stored /\ Coalesced' = Coalesced BY <1>4, SameRows
    <2>2. CountInv' BY <1>4, <2>1 DEF ReportInv, CountInv
    <2>3. Chosen(build.cutoff, build.session)'
            = Chosen(build.cutoff, build.session)
      BY <1>4, <2>1 DEF Chosen
    <2>4. SplitInv' BY <1>4, <2>1, <2>3 DEF ReportInv, SplitInv
    <2> QED BY <1>1, <2>2, <2>4 DEF ReportInv
  <1>5. CASE DayPasses BY <1>4, <1>5 DEF DayPasses
  <1>6. CASE ReadsSession
    <2> DEFINE session == CurrentSession
    <2>1. /\ build' = [NoBuild EXCEPT !.read = "session",
                         !.session = session, !.there = Stored]
          /\ UNCHANGED rows
      BY <1>6 DEF ReadsSession, Finds
    <2> HIDE DEF session
    <2>2. build'.read = "session" /\ build'.there = Stored BY <2>1 DEF NoBuild
    <2>3. CountInv' BY <2>1, <2>2, SameRows DEF CountInv, Settled
    <2>4. SplitInv' BY <2>2 DEF SplitInv, Settled
    <2> QED BY <1>1, <2>3, <2>4 DEF ReportInv
  <1>7. CASE ReadsTotals BY <1>1, <1>7, TotalsKeep
  <1>8. CASE ReadsModels BY <1>1, <1>8, ModelsKeep
  <1>9. CASE ReadsDays BY <1>1, <1>9, DaysKeep
  <1>10. CASE UNCHANGED svars BY <1>4, <1>10 DEF svars
  <1> QED BY <1>2, <1>3, <1>5, <1>6, <1>7, <1>8, <1>9, <1>10 DEF SNext

LEMMA ReportHolds == SSpec => []ReportInv
  <1>1. SInit => ReportInv
    BY StatsAssumption
    DEF SInit, ReportInv, STypeOK, CountInv, SplitInv, NoBuild, Stored, Settled
  <1> QED BY <1>1, ReportStep, PTL DEF SSpec

\* Each session of the window that was there when the snapshot began is shown
\* or counted, and never both, whatever Hermes writes between the reads.
THEOREM SessionsCountOnce == SSpec => []CountedOnce
  <1>1. ReportInv => CountedOnce
    BY StoredFinite DEF ReportInv, CountInv, CountedOnce, Settled
  <1> QED BY <1>1, ReportHolds, PTL

\* However many sessions are counted, and whatever Hermes writes in between,
\* a split that leaves nothing out is never behind the totals read before it.
THEOREM SplitsFollowTotals == SSpec => []SplitsNeverBehind
  <1>1. ReportInv => SplitsNeverBehind
    BY DEF ReportInv, SplitInv, SplitsNeverBehind, Settled
  <1> QED BY <1>1, ReportHolds, PTL
=============================================================================
