------------------------- MODULE MeasurementsProofs -------------------------
(* Theorems about Measurements, for any processes, models and bound.       *)
EXTENDS Measurements, TLAPS

MSpec == MInit /\ [][MNext]_mvars

\* What a response said is known when its call has ended.  Time and tokens
\* come together when both were said, and so do the estimate and the window:
\* the later of two reports said only one of the two when they differ.
Ended ==
  /\ measurement.duration # 0 => ~calls[measurement.duration].open
  /\ measurement.output # 0 => ~calls[measurement.output].open

Rated ==
  LET d == measurement.duration
      o == measurement.output
  IN d # 0 /\ calls[d].output # "none" =>
       /\ o # 0
       /\ calls[o].duration # "none" => o = d

Sized ==
  LET a == measurement.approx
      w == measurement.window
  IN a # 0 /\ calls[a].window = "some" =>
       /\ w # 0
       /\ calls[w].approx # "none" => w = a

MInv == MTypeOK /\ Ended /\ Rated /\ Sized

LEMMA MergeFact ==
  ASSUME MTypeOK, NEW n \in Nat, NEW m \in Nat, Len(calls) <= m, n <= m,
         NEW payload
  PROVE  /\ Merge(n, payload) \in [Field -> 0..m]
         /\ \A f \in Field : Merge(n, payload)[f] =
              IF f \in DOMAIN payload /\ f \in Measured(payload)
              THEN n ELSE measurement[f]
  <1>1. \A f \in Field : measurement[f] \in 0..m BY DEF MTypeOK
  <1> QED BY <1>1 DEF Merge

LEMMA BeforeFact ==
  ASSUME MTypeOK, NEW n \in Nat, NEW m \in Nat, Len(calls) <= m, n <= m,
         NEW a, NEW x, NEW approx \in Value, NEW w \in {"none", "some"}
  PROVE  LET r == Merge(n, BeforeCall(a, x, approx, w)) IN
         /\ r.approx = IF approx # "none" THEN n ELSE measurement.approx
         /\ r.window = IF w # "none" THEN n ELSE measurement.window
         /\ r.duration = measurement.duration /\ r.output = measurement.output
  BY MergeFact DEF BeforeCall, Measured, Field, Value

LEMMA AfterFact ==
  ASSUME MTypeOK, NEW n \in Nat, NEW m \in Nat, Len(calls) <= m, n <= m,
         NEW after \in AfterCall
  PROVE  LET r == Merge(n, after) IN
         /\ r.duration = IF after.duration # "none" THEN n
                                                   ELSE measurement.duration
         /\ r.output = IF after.output # "none" THEN n ELSE measurement.output
         /\ r.approx = measurement.approx /\ r.window = measurement.window
  BY MergeFact DEF AfterCall, Measured, Field, Value

LEMMA CallsFact ==
  ASSUME MTypeOK, NEW n \in DOMAIN calls
  PROVE  /\ n \in 1..Len(calls) /\ calls[n] \in Call /\ Len(calls) \in Nat
  BY DEF MTypeOK

LEMMA PreStep ==
  ASSUME MInv, NEW a \in Agents, NEW m \in Models, PreApiRequest(a, m)
  PROVE  MInv'
  <1>1. PICK w \in Window(a, m), approx \in Value :
          /\ calls' = Append(calls,
                [by |-> a, model |-> m, open |-> TRUE, window |-> w,
                 approx |-> approx, duration |-> "none", output |-> "none",
                 prompt |-> "none"])
          /\ lookups' = [lookups EXCEPT ![a][m] = w]
          /\ Observe(Len(calls) + 1, BeforeCall(a, m, approx, w))
    BY DEF PreApiRequest
  <1> DEFINE n == Len(calls) + 1
             c == [by |-> a, model |-> m, open |-> TRUE, window |-> w,
                   approx |-> approx, duration |-> "none", output |-> "none",
                   prompt |-> "none"]
  <1>2. MTypeOK /\ calls \in Seq(Call) /\ Len(calls) < MaxCalls
        /\ Len(calls) \in Nat
    BY DEF MInv, MTypeOK, PreApiRequest
  <1>3. w \in {"none", "some"}
    BY <1>2 DEF Window, MTypeOK
  <1>4. c \in Call BY <1>3 DEF Call, Value
  <1>5. /\ calls' \in Seq(Call) /\ Len(calls') = n /\ calls'[n] = c
        /\ \A i \in 1..Len(calls) : calls'[i] = calls[i]
    BY <1>1, <1>2, <1>4
  <1>6. lookups' \in [Agents -> [Models -> {"unasked", "none", "some"}]]
    BY <1>1, <1>2, <1>3 DEF MTypeOK
  <1>7. n <= MaxCalls BY <1>2, MeasurementsAssumption
  <1>8. c.window = w /\ c.approx = approx OBVIOUS
  <1> HIDE DEF c
  <1>9. \/ measurement' = measurement
        \/ measurement' = Merge(n, BeforeCall(a, m, approx, w))
    BY <1>1 DEF Observe
  <1>a. measurement \in [Field -> 0..Len(calls)] BY <1>2 DEF MTypeOK
  <1>b. /\ measurement' \in [Field -> 0..n]
        /\ measurement'.duration = measurement.duration
        /\ measurement'.output = measurement.output
        /\ \/ /\ measurement'.approx = measurement.approx
              /\ measurement'.window = measurement.window
           \/ /\ measurement'.approx =
                   (IF approx # "none" THEN n ELSE measurement.approx)
              /\ measurement'.window =
                   (IF w # "none" THEN n ELSE measurement.window)
    BY <1>2, <1>3, <1>9, <1>a, MergeFact, BeforeFact
  <1>c. MTypeOK' BY <1>5, <1>6, <1>7, <1>b DEF MTypeOK
  <1>d. /\ measurement.duration \in 0..Len(calls)
        /\ measurement.output \in 0..Len(calls)
        /\ measurement.approx \in 0..Len(calls)
        /\ measurement.window \in 0..Len(calls)
    BY <1>a DEF Field
  <1>e. Ended' BY <1>2, <1>5, <1>b, <1>d DEF MInv, Ended
  <1>f. Rated' BY <1>2, <1>5, <1>b, <1>d DEF MInv, Rated
  <1>g. Sized' BY <1>2, <1>3, <1>5, <1>8, <1>b, <1>d DEF MInv, Sized
  <1> QED BY <1>c, <1>e, <1>f, <1>g DEF MInv

LEMMA PostStep ==
  ASSUME MInv, NEW n \in DOMAIN calls, PostApiRequest(n)
  PROVE  MInv'
  <1>1. PICK after \in AfterCall :
          /\ calls' = [calls EXCEPT ![n].open = FALSE,
                                    ![n].duration = after.duration,
                                    ![n].output = after.output,
                                    ![n].prompt = after.prompt]
          /\ Observe(n, after)
    BY MeasurementsAssumption DEF PostApiRequest
  <1>2. MTypeOK /\ calls \in Seq(Call) /\ n \in 1..Len(calls)
        /\ Len(calls) \in Nat /\ calls[n] \in Call
    BY CallsFact DEF MInv, MTypeOK
  <1> DEFINE c == [calls[n] EXCEPT !.open = FALSE, !.duration = after.duration,
                                   !.output = after.output,
                                   !.prompt = after.prompt]
  <1>3. /\ c \in Call /\ ~c.open
        /\ c.duration = after.duration /\ c.output = after.output
        /\ c.window = calls[n].window /\ c.approx = calls[n].approx
    BY <1>2 DEF Call, AfterCall
  <1>4. calls' = [calls EXCEPT ![n] = c] BY <1>1
  <1> HIDE DEF c
  <1>5. /\ calls' \in Seq(Call) /\ Len(calls') = Len(calls)
        /\ \A i \in 1..Len(calls) : calls'[i] = IF i = n THEN c ELSE calls[i]
    BY <1>2, <1>3, <1>4
  <1>6. \/ measurement' = measurement \/ measurement' = Merge(n, after)
    BY <1>1 DEF Observe
  <1>7. measurement \in [Field -> 0..Len(calls)] BY <1>2 DEF MTypeOK
  <1>8. /\ measurement' \in [Field -> 0..Len(calls)]
        /\ measurement'.approx = measurement.approx
        /\ measurement'.window = measurement.window
        /\ \/ /\ measurement'.duration = measurement.duration
              /\ measurement'.output = measurement.output
           \/ /\ measurement'.duration =
                   (IF after.duration # "none" THEN n ELSE measurement.duration)
              /\ measurement'.output =
                   (IF after.output # "none" THEN n ELSE measurement.output)
    BY <1>2, <1>6, <1>7, MergeFact, AfterFact
  <1>9. MTypeOK' BY <1>2, <1>5, <1>8 DEF MTypeOK, PostApiRequest
  <1>a. /\ measurement.duration \in 0..Len(calls)
        /\ measurement.output \in 0..Len(calls)
        /\ measurement.approx \in 0..Len(calls)
        /\ measurement.window \in 0..Len(calls)
    BY <1>7 DEF Field
  <1>b. measurement.duration # n /\ measurement.output # n
    BY <1>2 DEF MInv, Ended, PostApiRequest
  <1>c. Ended'
    <2>1. \A i \in 1..Len(calls) : ~calls[i].open => ~calls'[i].open
      BY <1>3, <1>5
    <2>2. ~calls'[n].open /\ n # 0 BY <1>2, <1>3, <1>5
    <2>3. Ended BY DEF MInv
    <2>4. /\ measurement'.duration \in {measurement.duration, n}
          /\ measurement'.output \in {measurement.output, n}
      BY <1>8
    <2>5. /\ measurement.duration # 0 => measurement.duration \in 1..Len(calls)
          /\ measurement.output # 0 => measurement.output \in 1..Len(calls)
      BY <1>2, <1>a
    <2> QED BY <2>1, <2>2, <2>3, <2>4, <2>5 DEF Ended
  <1>d. Rated'
    <2> DEFINE d == measurement.duration
               o == measurement.output
    <2>1. d # 0 => d \in 1..Len(calls) /\ calls'[d] = calls[d]
      BY <1>2, <1>5, <1>a, <1>b
    <2>2. o # 0 => o \in 1..Len(calls) /\ calls'[o] = calls[o]
      BY <1>2, <1>5, <1>a, <1>b
    <2>3. calls'[n] = c /\ n # 0 BY <1>2, <1>5
    <2>4. Rated BY DEF MInv
    <2>5. CASE measurement'.duration = d /\ measurement'.output = o
      BY <2>1, <2>2, <2>4, <2>5 DEF Rated
    <2>6. CASE /\ measurement'.duration =
                    (IF after.duration # "none" THEN n ELSE d)
               /\ measurement'.output =
                    (IF after.output # "none" THEN n ELSE o)
      BY <1>3, <2>1, <2>2, <2>3, <2>4, <2>6 DEF Rated
    <2> QED BY <1>8, <2>5, <2>6
  <1>e. Sized'
    <2>1. /\ \A i \in 1..Len(calls) : /\ calls'[i].window = calls[i].window
                                      /\ calls'[i].approx = calls[i].approx
      BY <1>3, <1>5
    <2> QED BY <1>2, <1>8, <1>a, <2>1 DEF MInv, Sized
  <1> QED BY <1>9, <1>c, <1>d, <1>e DEF MInv

\* Steps that only end calls, and forget everything measured or nothing.
LEMMA EndStep ==
  ASSUME MInv, calls' \in Seq(Call), Len(calls') = Len(calls),
         \A i \in 1..Len(calls) : /\ calls'[i].window = calls[i].window
                                  /\ calls'[i].approx = calls[i].approx
                                  /\ calls'[i].duration = calls[i].duration
                                  /\ calls'[i].output = calls[i].output
                                  /\ calls'[i].open => calls[i].open,
         lookups' \in [Agents -> [Models -> {"unasked", "none", "some"}]],
         measurement' = measurement \/ measurement' = Nothing
  PROVE  MInv'
  <1>1. measurement \in [Field -> 0..Len(calls)] /\ Len(calls) \in Nat
    BY DEF MInv, MTypeOK
  <1>2. Nothing \in [Field -> 0..Len(calls)] BY <1>1 DEF Nothing
  <1>3. MTypeOK' BY <1>1, <1>2 DEF MInv, MTypeOK
  <1>4. CASE measurement' = measurement
    <2>1. /\ measurement.duration \in 0..Len(calls)
          /\ measurement.output \in 0..Len(calls)
          /\ measurement.approx \in 0..Len(calls)
          /\ measurement.window \in 0..Len(calls)
      BY <1>1 DEF Field
    <2>2. Ended' BY <1>1, <1>4, <2>1 DEF MInv, Ended
    <2>3. Rated' BY <1>1, <1>4, <2>1 DEF MInv, Rated
    <2>4. Sized' BY <1>1, <1>4, <2>1 DEF MInv, Sized
    <2> QED BY <1>3, <2>2, <2>3, <2>4 DEF MInv
  <1>5. CASE measurement' = Nothing
    <2>1. /\ measurement'.duration = 0 /\ measurement'.output = 0
          /\ measurement'.approx = 0
      BY <1>5 DEF Nothing, Field
    <2> QED BY <1>3, <2>1 DEF MInv, Ended, Rated, Sized
  <1> QED BY <1>4, <1>5

LEMMA MStep == ASSUME MInv, [MNext]_mvars PROVE MInv'
  <1>1. calls \in Seq(Call) /\ Len(calls) \in Nat
        /\ lookups \in [Agents -> [Models -> {"unasked", "none", "some"}]]
    BY DEF MInv, MTypeOK
  <1>2. ASSUME NEW n \in DOMAIN calls, CallFails(n) PROVE MInv'
    <2>1. calls' = [calls EXCEPT ![n].open = FALSE]
          /\ UNCHANGED <<lookups, measurement>>
      BY <1>2 DEF CallFails
    <2>2. n \in 1..Len(calls) /\ calls[n] \in Call BY CallsFact DEF MInv
    <2> DEFINE c == [calls[n] EXCEPT !.open = FALSE]
    <2>3. /\ c \in Call /\ c.window = calls[n].window
          /\ c.approx = calls[n].approx /\ c.duration = calls[n].duration
          /\ c.output = calls[n].output /\ ~c.open
      BY <2>2 DEF Call
    <2>4. calls' = [calls EXCEPT ![n] = c] BY <2>1
    <2> HIDE DEF c
    <2>5. /\ calls' \in Seq(Call) /\ Len(calls') = Len(calls)
          /\ \A i \in 1..Len(calls) : calls'[i] = IF i = n THEN c ELSE calls[i]
      BY <1>1, <2>2, <2>3, <2>4
    <2> QED BY <1>1, <2>1, <2>3, <2>5, EndStep
  <1>3. CASE Restarts
    <2> DEFINE ended(i) == [calls[i] EXCEPT !.open = FALSE]
               new(i) == IF calls[i].by = Gateway THEN ended(i) ELSE calls[i]
    <2>1. /\ calls' = [i \in DOMAIN calls |-> new(i)]
          /\ lookups' = [lookups EXCEPT ![Gateway] = [m \in Models |-> "unasked"]]
          /\ measurement' = Nothing
      BY <1>3 DEF Restarts
    <2>2. ASSUME NEW i \in 1..Len(calls)
          PROVE  /\ new(i) \in Call /\ new(i).window = calls[i].window
                 /\ new(i).approx = calls[i].approx
                 /\ new(i).duration = calls[i].duration
                 /\ new(i).output = calls[i].output
                 /\ new(i).open => calls[i].open
      <3>1. calls[i] \in Call BY <1>1
      <3> QED BY <3>1 DEF Call
    <2> HIDE DEF new
    <2>3. DOMAIN calls = 1..Len(calls) BY <1>1
    <2>4. /\ calls' \in Seq(Call) /\ Len(calls') = Len(calls)
          /\ \A i \in 1..Len(calls) : calls'[i] = new(i)
      BY <1>1, <2>1, <2>2, <2>3
    <2>5. lookups' \in [Agents -> [Models -> {"unasked", "none", "some"}]]
      BY <1>1, <2>1, MeasurementsAssumption
    <2> QED BY <2>1, <2>2, <2>4, <2>5, EndStep
  <1>4. CASE UNCHANGED mvars
    BY <1>4 DEF mvars, MInv, MTypeOK, Ended, Rated, Sized
  <1> QED BY <1>2, <1>3, <1>4, PreStep, PostStep DEF MNext

LEMMA MAlways == MSpec => []MInv
  <1>1. MInit => MInv
    BY MeasurementsAssumption
    DEF MInit, MInv, MTypeOK, Ended, Rated, Sized, Nothing, Field
  <1> QED BY <1>1, MStep, PTL DEF MSpec

\* The calls, their measurements and what the look-ups have cached keep their
\* types, through lost reports and restarts.
THEOREM MeasurementsTyped == MSpec => []MTypeOK
  <1>1. MInv => MTypeOK BY DEF MInv
  <1> QED BY <1>1, MAlways, PTL

\* The live rate never mixes two calls, unless a response named only the time
\* or only the tokens.
THEOREM RateNeverMixes == MSpec => []RateIsOfOneCall
  <1>1. MInv => RateIsOfOneCall
    BY DEF MInv, Rated, RateIsOfOneCall, HasRate, Positive
  <1> QED BY <1>1, MAlways, PTL

\* The context gauge compares tokens with the window of their own model, when
\* the last reports before and after a call are of the same call and no later
\* one named a window without an estimate.
THEOREM ContextNeverMixes == MSpec => []ContextIsOfOneModel
  <1>1. MInv => ContextIsOfOneModel
    BY DEF MInv, Sized, ContextIsOfOneModel, UsedFrom, WindowFrom, Positive
  <1> QED BY <1>1, MAlways, PTL
=============================================================================
