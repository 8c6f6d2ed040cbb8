-------------------------- MODULE WatchLinksProofs --------------------------
(* Theorems about WatchLinks, for any sockets, devices and senders.        *)
EXTENDS WatchLinks, TLAPS, FiniteSetTheorems

-----------------------------------------------------------------------------
(* Type correctness.                                                       *)

\* A link has a name before anything refers to it, a look-up belongs to the
\* coroutine that waits for it, and a client uses its own names.
Named ==
  /\ \A d \in Device : links[d] \in Socket => device[links[d]] \in Device
  /\ \A s \in Socket : flag[s] => device[s] \in Device
  /\ \A s \in Socket : device[s] \in IdsOf[s] \union {NoDevice}
  /\ \A s \in ping : device[s] \in Device

\* The look-ups: whom they are about and who waits for them.
Waits ==
  /\ \A c \in Caller : call[c] \in Lookup =>
       /\ device[call[c].link] \in Device
       /\ call[c].link \in Steady => call[c].dev = device[call[c].link]
       /\ c \in Socket => call[c].link = c
  /\ \A s \in Socket : call[s] # NoCall => s \in open
  /\ \A k \in Sender : (call[k] \in Lookup <=> job[k].step = "check")
                       /\ call[k] \notin Answer

LinkInv == TypeOK /\ Named /\ Waits

LEMMA Kinds ==
  ASSUME NEW c \in Caller, call \in [Caller -> Lookup \union Answer \union {NoCall}]
  PROVE  /\ Asks(c) <=> call[c] \in Lookup
         /\ Answers(c) <=> call[c] \in Answer
         /\ call[c] \in Lookup => call[c] \notin Answer
         /\ NoCall \notin Lookup \union Answer
  BY MarkerAssumption DEF Asks, Answers, Lookup, Answer

LEMMA SizeIsNat == Cardinality(Members) \in Nat
  <1>1. IsFiniteSet(Device) BY LinkAssumption
  <1>2. Members \subseteq Device BY DEF Members
  <1>3. IsFiniteSet(Members) BY <1>1, <1>2, FS_Subset
  <1> QED BY <1>3, FS_CardinalityType

LEMMA BlankType == Blank \in Job
  BY DEF Blank, Job


LEMMA FlagsFact ==
  ASSUME NEW F \in [Socket -> BOOLEAN], NEW J
  PROVE  /\ FlagsAfter(F, J) \in [Socket -> BOOLEAN]
         /\ \A s \in Socket : FlagsAfter(F, J)[s] =>
              F[s] \/ \E j \in J : j.link = s /\ j.ok
  BY DEF FlagsAfter

LEMMA EverFact ==
  ASSUME NEW J, \A j \in J : j.dev \in Device, ever \subseteq Device
  PROVE  /\ EverAfter(J) \subseteq Device /\ ever \subseteq EverAfter(J)
         /\ \A j \in J : j.ok => j.dev \in EverAfter(J)
  BY DEF EverAfter

LEMMA FindingFact ==
  ASSUME NEW C \in [Device -> Entry \union {NoEntry}], NEW l \in Socket,
         NEW d \in Device, Known(C, d)
  PROVE  /\ Finding(C, l, d) \in Judgement
         /\ Finding(C, l, d).link = l /\ Finding(C, l, d).dev = d
  <1>1. CASE d \in Allowed BY <1>1 DEF Finding, Judgement
  <1>2. CASE d \notin Allowed
    <2>1. C[d] \in Entry BY <1>2 DEF Known
    <2> QED BY <2>1, <1>2 DEF Finding, Judgement, Entry
  <1> QED BY <1>1, <1>2

LEMMA FoundFact ==
  ASSUME NEW c \in Caller, call[c] \in Lookup
  PROVE  /\ Found(c) \in Judgement
         /\ Found(c).link = call[c].link /\ Found(c).dev = call[c].dev
         /\ Found(c).ok => Found(c).since
  BY DEF Found, Judgement, Lookup

LEMMA CachedFact ==
  ASSUME NEW c \in Caller, call[c] \in Lookup,
         cache \in [Device -> Entry \union {NoEntry}]
  PROVE  /\ Cached(c) \in [Device -> Entry \union {NoEntry}]
         /\ \A d \in Device : Cached(c)[d] = cache[d] \/
              (Cached(c)[d] \in Entry /\ (Cached(c)[d].ok => Cached(c)[d].since))
  <1> DEFINE e == [ok |-> call[c].read = "yes", fresh |-> TRUE,
                   since |-> call[c].read = "yes"]
  <1>1. e \in Entry /\ (e.ok => e.since) BY DEF Entry
  <1>2. Cached(c) = [cache EXCEPT ![call[c].dev] = e] BY DEF Cached
  <1> HIDE DEF e
  <1> QED BY <1>1, <1>2 DEF Lookup

LEMMA ChangeFact ==
  ASSUME NEW table \in [Device -> Socket \union {NoLink}],
         job \in [Sender -> Job], Change(table)
  PROVE  /\ links' = table
         /\ job' \in [Sender -> Job]
         /\ \A k \in Sender :
              /\ job'[k].step = job[k].step /\ job'[k].to = job[k].to
              /\ job'[k].asked = job[k].asked
              /\ job'[k].late = job[k].late /\ job'[k].missed = job[k].missed
              /\ job[k].step = "check" =>
                   /\ job'[k].seen \subseteq job[k].seen
                   /\ job'[k].stayed = {m \in job[k].stayed : table[m[1]] = m[2]}
              /\ job'[k].left = job[k].left
  <1> DEFINE seen(k)   == {d \in job[k].seen : table[d] # NoLink}
             stayed(k) == {m \in job[k].stayed : table[m[1]] = m[2]}
             mixed(k)  == \/ job[k].mixed
                          \/ {d \in Device : table[d] # NoLink} # Members
             new(k)    == IF job[k].step # "check" THEN job[k]
                          ELSE [job[k] EXCEPT !.seen = seen(k),
                                              !.stayed = stayed(k),
                                              !.mixed = mixed(k)]
  <1>1. links' = table /\ job' = [k \in Sender |-> new(k)]
    BY DEF Change
  <1>2. ASSUME NEW k \in Sender
        PROVE  /\ new(k) \in Job
               /\ new(k).step = job[k].step /\ new(k).to = job[k].to
               /\ new(k).asked = job[k].asked /\ new(k).left = job[k].left
               /\ new(k).late = job[k].late /\ new(k).missed = job[k].missed
               /\ job[k].step = "check" => /\ new(k).seen = seen(k)
                                           /\ new(k).stayed = stayed(k)
    <2>1. seen(k) \subseteq job[k].seen /\ stayed(k) \subseteq job[k].stayed
      OBVIOUS
    <2>2. job[k] \in Job /\ mixed(k) \in BOOLEAN BY DEF Job
    <2> HIDE DEF seen, stayed, mixed
    <2> QED BY <2>1, <2>2 DEF Job
  <1>3. \A k \in Sender : job'[k] = new(k) BY <1>1
  <1> HIDE DEF new
  <1>4. job' \in [Sender -> Job] BY <1>1, <1>2
  <1>5. \A k \in Sender : seen(k) \subseteq job[k].seen OBVIOUS
  <1> QED BY <1>1, <1>2, <1>3, <1>4, <1>5

LEMMA AskedFact ==
  ASSUME NEW l \in Socket, NEW d \in Device, NEW hello \in BOOLEAN
  PROVE  /\ Asked(l, d, hello) \in Lookup
         /\ Asked(l, d, hello).link = l /\ Asked(l, d, hello).dev = d
  BY DEF Asked, Lookup


LEMMA InitLinks == Init => LinkInv
  BY LinkAssumption, BlankType, MarkerAssumption
  DEF Init, LinkInv, TypeOK, Named, Waits, Blank, Caller

LEMMA StoreStep ==
  ASSUME LinkInv, StoreNext PROVE LinkInv'
  <1> USE DEF LinkInv
  <1>1. ASSUME NEW d \in Device, Approve(d) PROVE LinkInv'
    <2>1. cache' \in [Device -> Entry \union {NoEntry}]
      <3>1. CASE cache[d] = NoEntry BY <1>1, <3>1 DEF TypeOK, Approve
      <3>2. CASE cache[d] # NoEntry
        <4>1. cache[d] \in Entry BY <3>2 DEF TypeOK
        <4>2. [cache[d] EXCEPT !.since = cache[d].ok] \in Entry
          BY <4>1 DEF Entry
        <4> QED BY <1>1, <3>2, <4>2 DEF TypeOK, Approve
      <3> QED BY <3>1, <3>2
    <2> QED BY <1>1, <2>1 DEF TypeOK, Named, Waits, Approve, conn
  <1>2. ASSUME NEW d \in Device, Revoke(d) PROVE LinkInv'
    BY <1>2 DEF TypeOK, Named, Waits, Revoke, conn
  <1>3. ASSUME NEW d \in Device, CacheExpires(d) PROVE LinkInv'
    <2>a. cache[d] \in Entry BY <1>3 DEF TypeOK, CacheExpires
    <2>b. [cache[d] EXCEPT !.fresh = FALSE,
                           !.since = cache[d].ok /\ d \in approved] \in Entry
      BY <2>a DEF Entry
    <2>1. cache' \in [Device -> Entry \union {NoEntry}]
      BY <1>3, <2>b DEF TypeOK, CacheExpires
    <2> QED BY <1>3, <2>1 DEF TypeOK, Named, Waits, CacheExpires, conn
  <1>4. ASSUME NEW c \in Caller, StoreReads(c) PROVE LinkInv'
    <2>1. PICK r \in {"yes", "no"} : call' = [call EXCEPT ![c].read = r]
      BY <1>4 DEF StoreReads
    <2>2. call[c] \in Lookup BY <1>4, Kinds DEF StoreReads, TypeOK
    <2>3. [call[c] EXCEPT !.read = r] \in Lookup BY <2>2 DEF Lookup
    <2>4. call' \in [Caller -> Lookup \union Answer \union {NoCall}]
      BY <2>1, <2>3 DEF TypeOK
    <2>5. \A x \in Caller : call'[x] = IF x = c THEN [call[c] EXCEPT !.read = r]
                                               ELSE call[x]
      BY <2>1 DEF TypeOK
    <2>6. TypeOK' BY <1>4, <2>4 DEF TypeOK, StoreReads, conn, store
    <2>7. Named' BY <1>4 DEF Named, StoreReads, conn
    <2>8. call'[c].link = call[c].link /\ call'[c].dev = call[c].dev
          /\ call'[c] \in Lookup /\ call'[c] \notin Answer
      BY <2>2, <2>3, <2>5, <2>4, MarkerAssumption DEF Lookup, Answer
    <2>9. Waits'
      BY <1>4, <2>2, <2>5, <2>8, MarkerAssumption
      DEF Waits, StoreReads, conn, Caller
    <2> QED BY <2>6, <2>7, <2>9
  <1> QED BY <1>1, <1>2, <1>3, <1>4 DEF StoreNext


\* A hello or a text names the link; other look-ups of it still agree.
LEMMA NewName ==
  ASSUME LinkInv, NEW s \in Socket, NEW d \in IdsOf[s],
         device' = [device EXCEPT ![s] = d]
  PROVE  /\ device' \in [Socket -> Device \union {NoDevice}]
         /\ d \in Device
         /\ \A x \in Socket : /\ device[x] \in Device => device'[x] \in Device
                              /\ device'[x] \in IdsOf[x] \union {NoDevice}
                              /\ x \in Steady /\ device[x] \in Device =>
                                   device'[x] = device[x]
  <1>1. IdsOf[s] \subseteq Device /\ IdsOf \in [Socket -> SUBSET Device]
    BY LinkAssumption
  <1>2. device \in [Socket -> Device \union {NoDevice}]
        /\ \A x \in Socket : device[x] \in IdsOf[x] \union {NoDevice}
    BY DEF LinkInv, TypeOK, Named
  <1>3. \A x \in Socket : device'[x] = IF x = s THEN d ELSE device[x]
    BY <1>2
  <1>4. s \in Steady /\ device[s] \in Device => device[s] = d
    BY <1>2, LinkAssumption DEF Steady
  <1> QED BY <1>1, <1>2, <1>3, <1>4

LEMMA OpensStep ==
  ASSUME LinkInv, NEW s \in Socket, Opens(s) PROVE LinkInv'
  <1>1. /\ device' = [device EXCEPT ![s] = UrlOf[s]]
        /\ flag' = [flag EXCEPT ![s] = FALSE] /\ open' = open \union {s}
        /\ UNCHANGED <<approved, cache, ever, links, call, job, ping>>
        /\ Forgotten(s)
    BY DEF Opens, store
  <1>2. UrlOf[s] \in IdsOf[s] \union {NoDevice} /\ IdsOf[s] \subseteq Device
    BY LinkAssumption
  <1>3. TypeOK' BY <1>1, <1>2 DEF LinkInv, TypeOK
  <1>4. \A x \in Socket : device'[x] = (IF x = s THEN UrlOf[s] ELSE device[x])
                          /\ flag'[x] = (IF x = s THEN FALSE ELSE flag[x])
    BY <1>1 DEF LinkInv, TypeOK
  <1>a. \A d \in Device : links'[d] \in Socket => device'[links'[d]] \in Device
    BY <1>1, <1>4 DEF LinkInv, Named, Forgotten
  <1>b. \A x \in Socket : flag'[x] => device'[x] \in Device
    BY <1>4 DEF LinkInv, Named
  <1>c. \A x \in Socket : device'[x] \in IdsOf[x] \union {NoDevice}
    BY <1>2, <1>4 DEF LinkInv, Named
  <1>d. \A x \in ping' : device'[x] \in Device
    BY <1>1, <1>4 DEF LinkInv, Named, TypeOK, Forgotten
  <1>5. Named' BY <1>a, <1>b, <1>c, <1>d DEF Named
  <1>6. \A c \in Caller : call[c] \in Lookup =>
          call[c].link # s /\ call[c].link \in Socket
    BY <1>1, Kinds DEF Forgotten, LinkInv, TypeOK, Lookup
  <1>7. Waits' BY <1>1, <1>4, <1>6 DEF LinkInv, Waits
  <1> QED BY <1>3, <1>5, <1>7 DEF LinkInv

LEMMA PopFact ==
  ASSUME LinkInv, NEW d, Pop(d)
  PROVE  /\ links' \in [Device -> Socket \union {NoLink}]
         /\ job' \in [Sender -> Job]
         /\ \A e \in Device : links'[e] = links[e] \/ links'[e] = NoLink
         /\ \A k \in Sender : job'[k].step = job[k].step
  <1>1. [links EXCEPT ![d] = NoLink] \in [Device -> Socket \union {NoLink}]
    BY DEF LinkInv, TypeOK
  <1>2. links' = [links EXCEPT ![d] = NoLink] BY DEF Pop, Change
  <1>3. Change([links EXCEPT ![d] = NoLink]) /\ job \in [Sender -> Job]
    BY DEF Pop, LinkInv, TypeOK
  <1>4. job' \in [Sender -> Job] /\ \A k \in Sender : job'[k].step = job[k].step
    BY <1>1, <1>3, ChangeFact
  <1> QED BY <1>1, <1>2, <1>4 DEF LinkInv, TypeOK

LEMMA ClosesStep ==
  ASSUME LinkInv, NEW s \in Socket, Closes(s) PROVE LinkInv'
  <1>1. /\ links' \in [Device -> Socket \union {NoLink}]
        /\ job' \in [Sender -> Job]
        /\ \A e \in Device : links'[e] = links[e] \/ links'[e] = NoLink
        /\ \A k \in Sender : job'[k].step = job[k].step
    BY PopFact DEF Closes, PopOwn, LinkInv, TypeOK
  <1>2. /\ UNCHANGED <<approved, cache, ever, call, ping>>
        /\ open' = open \ {s} /\ call[s] = NoCall
    BY DEF Closes, store, Reading
  <1>3. /\ device' \in [Socket -> Device \union {NoDevice}]
        /\ flag' \in [Socket -> BOOLEAN]
        /\ \A x \in Socket :
             \/ device'[x] = device[x] /\ flag'[x] = flag[x]
             \/ /\ x = s /\ device'[x] = NoDevice /\ flag'[x] = FALSE
                /\ Forgotten(s)'
    BY DEF Closes, LinkInv, TypeOK
  <1>4. TypeOK' BY <1>1, <1>2, <1>3 DEF LinkInv, TypeOK
  <1>5. Forgotten(s)' => /\ \A d \in Device : links'[d] # s
                         /\ s \notin ping'
                         /\ \A c \in Caller : call[c] \in Lookup =>
                              call[c].link # s
    BY <1>2, Kinds DEF Forgotten, Asks, LinkInv, TypeOK, Lookup
  <1>a. \A d \in Device : links'[d] \in Socket => device'[links'[d]] \in Device
    <2>1. SUFFICES ASSUME NEW d \in Device, links'[d] \in Socket
                   PROVE  device'[links'[d]] \in Device
      OBVIOUS
    <2>2. links'[d] = links[d] BY <2>1, <1>1, LinkAssumption
    <2>3. device[links'[d]] \in Device BY <2>1, <2>2 DEF LinkInv, Named
    <2>4. links'[d] = s => ~Forgotten(s)' BY <1>5
    <2> QED BY <2>1, <2>3, <2>4, <1>3
  <1>b. \A x \in Socket : flag'[x] => device'[x] \in Device
    BY <1>3 DEF LinkInv, Named
  <1>c. \A x \in Socket : device'[x] \in IdsOf[x] \union {NoDevice}
    BY <1>3 DEF LinkInv, Named
  <1>d. \A x \in ping' : device'[x] \in Device
    BY <1>2, <1>3, <1>5 DEF LinkInv, Named, TypeOK
  <1>6. Named' BY <1>a, <1>b, <1>c, <1>d DEF Named
  <1>7. \A c \in Caller : call[c] \in Lookup => call[c].link \in Socket
    BY DEF Lookup
  <1>8. Waits' BY <1>1, <1>2, <1>3, <1>5, <1>7 DEF LinkInv, Waits
  <1> QED BY <1>4, <1>6, <1>8 DEF LinkInv


LEMMA HelloKnownStep ==
  ASSUME LinkInv, NEW s \in Socket, NEW d \in Device, HelloKnown(s, d)
  PROVE  LinkInv'
  <1> DEFINE J == {Finding(cache, s, d)}
  <1>1. /\ s \in open /\ d \in IdsOf[s]
        /\ ever' = EverAfter(J) /\ flag' = FlagsAfter(flag, J)
        /\ device' = [device EXCEPT ![s] = d]
        /\ Change([links EXCEPT ![d] = s])
        /\ UNCHANGED <<approved, cache, open, call, ping>>
    BY DEF HelloKnown, Reading
  <1>2. Finding(cache, s, d) \in Judgement /\ Finding(cache, s, d).link = s
        /\ Finding(cache, s, d).dev = d
    BY FindingFact DEF HelloKnown, LinkInv, TypeOK
  <1>3. ever' \subseteq Device
    BY <1>1, <1>2, EverFact DEF LinkInv, TypeOK
  <1>4. flag' \in [Socket -> BOOLEAN] /\ \A x \in Socket : flag'[x] => flag[x] \/ x = s
    <2>1. flag \in [Socket -> BOOLEAN] BY DEF LinkInv, TypeOK
    <2>2. \A j \in J : j.link = s BY <1>2
    <2> QED BY <1>1, <2>1, <2>2, FlagsFact
  <1>5. [links EXCEPT ![d] = s] \in [Device -> Socket \union {NoLink}]
    BY DEF LinkInv, TypeOK
  <1>6. /\ links' = [links EXCEPT ![d] = s] /\ job' \in [Sender -> Job]
        /\ \A k \in Sender : job'[k].step = job[k].step
    BY <1>1, <1>5, ChangeFact DEF LinkInv, TypeOK
  <1>7. /\ device' \in [Socket -> Device \union {NoDevice}]
        /\ \A x \in Socket : /\ device[x] \in Device => device'[x] \in Device
                             /\ device'[x] \in IdsOf[x] \union {NoDevice}
                             /\ x \in Steady /\ device[x] \in Device =>
                                  device'[x] = device[x]
    BY <1>1, NewName
  <1>8. device'[s] = d BY <1>1 DEF LinkInv, TypeOK
  <1>9. TypeOK' BY <1>1, <1>3, <1>4, <1>5, <1>6, <1>7 DEF LinkInv, TypeOK
  <1>a. \A e \in Device : links'[e] \in Socket => device'[links'[e]] \in Device
    BY <1>6, <1>7, <1>8 DEF LinkInv, TypeOK, Named
  <1>b. \A x \in Socket : flag'[x] => device'[x] \in Device
    BY <1>4, <1>7, <1>8 DEF LinkInv, Named
  <1>d. \A x \in ping' : device'[x] \in Device
    BY <1>1, <1>7 DEF LinkInv, Named, TypeOK
  <1>e. Named' BY <1>7, <1>a, <1>b, <1>d DEF Named
  <1>f. \A c \in Caller : call[c] \in Lookup => call[c].link \in Socket
    BY DEF Lookup
  <1>g. Waits' BY <1>1, <1>6, <1>7, <1>f DEF LinkInv, Waits
  <1> QED BY <1>9, <1>e, <1>g DEF LinkInv

LEMMA TextKnownStep ==
  ASSUME LinkInv, NEW s \in Socket, NEW d \in Device, TextKnown(s, d)
  PROVE  LinkInv'
  <1> DEFINE J == {Finding(cache, s, d)}
  <1>1. /\ d \in IdsOf[s]
        /\ ever' = EverAfter(J) /\ flag' = FlagsAfter(flag, J)
        /\ device' = [device EXCEPT ![s] = d]
        /\ UNCHANGED <<approved, cache, open, links, call, job, ping>>
    BY DEF TextKnown
  <1>2. Finding(cache, s, d) \in Judgement /\ Finding(cache, s, d).link = s
        /\ Finding(cache, s, d).dev = d
    BY FindingFact DEF TextKnown, LinkInv, TypeOK
  <1>3. ever' \subseteq Device
    BY <1>1, <1>2, EverFact DEF LinkInv, TypeOK
  <1>4. flag' \in [Socket -> BOOLEAN] /\ \A x \in Socket : flag'[x] => flag[x] \/ x = s
    <2>1. flag \in [Socket -> BOOLEAN] BY DEF LinkInv, TypeOK
    <2>2. \A j \in J : j.link = s BY <1>2
    <2> QED BY <1>1, <2>1, <2>2, FlagsFact
  <1>7. /\ device' \in [Socket -> Device \union {NoDevice}]
        /\ \A x \in Socket : /\ device[x] \in Device => device'[x] \in Device
                             /\ device'[x] \in IdsOf[x] \union {NoDevice}
                             /\ x \in Steady /\ device[x] \in Device =>
                                  device'[x] = device[x]
    BY <1>1, NewName
  <1>8. device'[s] = d BY <1>1 DEF LinkInv, TypeOK
  <1>9. TypeOK' BY <1>1, <1>3, <1>4, <1>7 DEF LinkInv, TypeOK
  <1>b. \A x \in Socket : flag'[x] => device'[x] \in Device
    BY <1>4, <1>7, <1>8 DEF LinkInv, Named
  <1>d. \A x \in ping' : device'[x] \in Device
    BY <1>1, <1>7 DEF LinkInv, Named, TypeOK
  <1>e. Named' BY <1>1, <1>7, <1>b, <1>d DEF LinkInv, Named
  <1>f. \A c \in Caller : call[c] \in Lookup => call[c].link \in Socket
    BY DEF Lookup
  <1>g. Waits' BY <1>1, <1>7, <1>f DEF LinkInv, Waits
  <1> QED BY <1>9, <1>e, <1>g DEF LinkInv

LEMMA NamesStep ==
  ASSUME LinkInv, NEW s \in Socket, NEW d \in Device, NEW hello \in BOOLEAN,
         Names(s, d, hello)
  PROVE  LinkInv'
  <1>1. /\ s \in open /\ d \in IdsOf[s]
        /\ device' = [device EXCEPT ![s] = d]
        /\ call' = [call EXCEPT ![s] = Asked(s, d, hello)]
        /\ UNCHANGED <<approved, cache, ever, open, flag, links, job, ping>>
    BY DEF Names, Reading, store
  <1>2. Asked(s, d, hello) \in Lookup /\ Asked(s, d, hello).link = s
        /\ Asked(s, d, hello).dev = d
    BY AskedFact
  <1>7. /\ device' \in [Socket -> Device \union {NoDevice}]
        /\ \A x \in Socket : /\ device[x] \in Device => device'[x] \in Device
                             /\ device'[x] \in IdsOf[x] \union {NoDevice}
                             /\ x \in Steady /\ device[x] \in Device =>
                                  device'[x] = device[x]
    BY <1>1, NewName
  <1>8. device'[s] = d /\ \A c \in Caller : call'[c] = IF c = s
                                       THEN Asked(s, d, hello) ELSE call[c]
    BY <1>1 DEF LinkInv, TypeOK
  <1>9. TypeOK' BY <1>1, <1>2, <1>7 DEF LinkInv, TypeOK
  <1>b. \A x \in Socket : flag'[x] => device'[x] \in Device
    BY <1>1, <1>7 DEF LinkInv, Named
  <1>d. \A x \in ping' : device'[x] \in Device
    BY <1>1, <1>7 DEF LinkInv, Named, TypeOK
  <1>e. Named' BY <1>1, <1>7, <1>b, <1>d DEF LinkInv, Named
  <1>f. \A c \in Caller : call[c] \in Lookup => call[c].link \in Socket
    BY DEF Lookup
  <1>g. \A k \in Sender : k # s BY LinkAssumption
  <1>h. Waits'
    BY <1>1, <1>2, <1>7, <1>8, <1>f, <1>g DEF LinkInv, Waits, Caller
  <1> QED BY <1>9, <1>e, <1>h DEF LinkInv

\* What a coroutine that resumes with its finding leaves behind.
LEMMA JudgeFact ==
  ASSUME LinkInv, NEW J, ever' = EverAfter(J), flag' = FlagsAfter(flag, J),
         \A j \in J : /\ j.link \in Socket /\ j.dev \in Device
                      /\ device[j.link] \in Device
  PROVE  /\ ever' \subseteq Device /\ flag' \in [Socket -> BOOLEAN]
         /\ \A x \in Socket : flag'[x] => device[x] \in Device
  <1>1. ever \subseteq Device /\ flag \in [Socket -> BOOLEAN]
    BY DEF LinkInv, TypeOK
  <1>2. ever' \subseteq Device BY <1>1, EverFact
  <1>3. /\ flag' \in [Socket -> BOOLEAN]
        /\ \A x \in Socket : flag'[x] =>
             flag[x] \/ \E j \in J : j.link = x /\ j.ok
    BY <1>1, FlagsFact
  <1> QED BY <1>2, <1>3 DEF LinkInv, Named

LEMMA ReadFact ==
  ASSUME LinkInv, NEW c \in Caller, HasRead(c)
  PROVE  /\ call[c] \in Lookup /\ Found(c) \in Judgement
         /\ Found(c).link \in Socket /\ Found(c).dev \in Device
         /\ Found(c).link = call[c].link /\ Found(c).dev = call[c].dev
         /\ device[Found(c).link] \in Device
         /\ c \in Socket => Found(c).link = c
         /\ Cached(c) \in [Device -> Entry \union {NoEntry}]
  <1>1. call[c] \in Lookup BY Kinds DEF HasRead, LinkInv, TypeOK
  <1>2. call[c].link \in Socket /\ call[c].dev \in Device BY <1>1 DEF Lookup
  <1>3. cache \in [Device -> Entry \union {NoEntry}] BY DEF LinkInv, TypeOK
  <1>4. Cached(c) \in [Device -> Entry \union {NoEntry}]
    BY <1>1, <1>3, CachedFact
  <1>5. /\ device[call[c].link] \in Device
        /\ c \in Socket => call[c].link = c
    BY <1>1 DEF LinkInv, Waits
  <1> QED BY <1>1, <1>2, <1>4, <1>5, FoundFact

LEMMA NamesResumesStep ==
  ASSUME LinkInv, NEW s \in Socket, NamesResumes(s) PROVE LinkInv'
  <1> DEFINE J == {Found(s)}
  <1>1. /\ HasRead(s) /\ cache' = Cached(s)
        /\ ever' = EverAfter(J) /\ flag' = FlagsAfter(flag, J)
        /\ call' = [call EXCEPT ![s] = NoCall]
        /\ UNCHANGED <<approved, open, device, ping>>
    BY DEF NamesResumes
  <1>2. s \in Caller BY DEF Caller
  <1>3. /\ call[s] \in Lookup /\ Found(s).link = s
        /\ Found(s).dev \in Device /\ Found(s).dev = call[s].dev
        /\ device[s] \in Device /\ cache' \in [Device -> Entry \union {NoEntry}]
    BY <1>1, <1>2, ReadFact
  <1>4. \A j \in J : /\ j.link \in Socket /\ j.dev \in Device
                     /\ device[j.link] \in Device
    BY <1>3
  <1>5. /\ ever' \subseteq Device /\ flag' \in [Socket -> BOOLEAN]
        /\ \A x \in Socket : flag'[x] => device[x] \in Device
    BY <1>1, <1>4, JudgeFact
  <1>6. /\ links' \in [Device -> Socket \union {NoLink}]
        /\ job' \in [Sender -> Job]
        /\ \A e \in Device : links'[e] = links[e] \/ links'[e] = s
        /\ \A k \in Sender : job'[k].step = job[k].step
    <2>1. CASE call[s].hello
      <3>1. Change([links EXCEPT ![call[s].dev] = s])
        BY <1>1, <2>1 DEF NamesResumes
      <3>2. [links EXCEPT ![call[s].dev] = s] \in [Device -> Socket \union {NoLink}]
        BY DEF LinkInv, TypeOK
      <3>3. job \in [Sender -> Job] BY DEF LinkInv, TypeOK
      <3>4. /\ links' = [links EXCEPT ![call[s].dev] = s]
            /\ job' \in [Sender -> Job]
            /\ \A k \in Sender : job'[k].step = job[k].step
        BY <3>1, <3>2, <3>3, ChangeFact
      <3> QED BY <3>2, <3>4 DEF LinkInv, TypeOK
    <2>2. CASE ~call[s].hello
      BY <1>1, <2>2 DEF NamesResumes, LinkInv, TypeOK
    <2> QED BY <2>1, <2>2
  <1>7. \A c \in Caller : call'[c] = IF c = s THEN NoCall ELSE call[c]
    BY <1>1, <1>2 DEF LinkInv, TypeOK
  <1>8. TypeOK'
    BY <1>1, <1>3, <1>5, <1>6 DEF LinkInv, TypeOK
  <1>a. \A e \in Device : links'[e] \in Socket => device'[links'[e]] \in Device
    BY <1>1, <1>3, <1>6 DEF LinkInv, Named
  <1>9. Named' BY <1>1, <1>5, <1>a DEF LinkInv, Named
  <1>b. NoCall \notin Lookup \union Answer BY MarkerAssumption
  <1>c. \A k \in Sender : k # s BY LinkAssumption
  <1>d. Waits' BY <1>1, <1>6, <1>7, <1>b, <1>c DEF LinkInv, Waits, Caller
  <1> QED BY <1>8, <1>9, <1>d DEF LinkInv

LEMMA OnAnswerStep ==
  ASSUME LinkInv, NEW s \in Socket, NEW frame \in AnswerFrame,
         OnAnswer(s, frame)
  PROVE  LinkInv'
  <1> DEFINE a == [answers |-> device[s]]
  <1>1. /\ s \in open /\ flag[s] /\ call' = [call EXCEPT ![s] = a]
        /\ UNCHANGED <<approved, cache, ever, open, device, flag, links, job,
                       ping>>
    BY DEF OnAnswer, Reading, store, conn
  <1>2. device[s] \in Device BY <1>1 DEF LinkInv, Named
  <1>3. a \in Answer /\ a \notin Lookup BY <1>2 DEF Answer, Lookup
  <1> HIDE DEF a
  <1>4. TypeOK' BY <1>1, <1>3 DEF LinkInv, TypeOK
  <1>5. Named' BY <1>1 DEF LinkInv, Named
  <1>6. \A c \in Caller : call'[c] = IF c = s THEN a ELSE call[c]
    BY <1>1 DEF LinkInv, TypeOK
  <1>7. \A k \in Sender : k # s BY LinkAssumption
  <1>8. Waits' BY <1>1, <1>3, <1>6, <1>7 DEF LinkInv, Waits, Caller
  <1> QED BY <1>4, <1>5, <1>8 DEF LinkInv

LEMMA ResolvedStep ==
  ASSUME LinkInv, NEW s \in Socket, Resolved(s) PROVE LinkInv'
  <1>1. /\ call' = [call EXCEPT ![s] = NoCall]
        /\ UNCHANGED <<approved, cache, ever, open, device, flag, links, job,
                       ping>>
    BY DEF Resolved, store, conn
  <1>2. TypeOK' BY <1>1 DEF LinkInv, TypeOK
  <1>3. Named' BY <1>1 DEF LinkInv, Named
  <1>4. \A c \in Caller : call'[c] = IF c = s THEN NoCall ELSE call[c]
    BY <1>1 DEF LinkInv, TypeOK
  <1>5. NoCall \notin Lookup \union Answer BY MarkerAssumption
  <1>6. \A k \in Sender : k # s BY LinkAssumption
  <1>7. Waits' BY <1>1, <1>4, <1>5, <1>6 DEF LinkInv, Waits, Caller
  <1> QED BY <1>2, <1>3, <1>7 DEF LinkInv

LEMMA PingStartsStep == ASSUME LinkInv, PingStarts PROVE LinkInv'
  <1>1. /\ ping' = {links[d] : d \in Device} \ {NoLink}
        /\ UNCHANGED <<approved, cache, ever, open, device, flag, links, call,
                       job>>
    BY DEF PingStarts, store, conn
  <1>2. \A s \in ping' : s \in Socket /\ device[s] \in Device
    BY <1>1 DEF LinkInv, TypeOK, Named
  <1> QED BY <1>1, <1>2 DEF LinkInv, TypeOK, Named, Waits

LEMMA PingsStep ==
  ASSUME LinkInv, NEW s \in Socket, Pings(s) PROVE LinkInv'
  <1>1. /\ ping' = ping \ {s}
        /\ UNCHANGED <<approved, cache, ever, open, device, flag, call>>
        /\ UNCHANGED <<links, job>> \/ Pop(device[s])
    BY DEF Pings, store, conn
  <1>2. /\ links' \in [Device -> Socket \union {NoLink}]
        /\ job' \in [Sender -> Job]
        /\ \A e \in Device : links'[e] = links[e] \/ links'[e] = NoLink
        /\ \A k \in Sender : job'[k].step = job[k].step
    BY <1>1, PopFact DEF LinkInv, TypeOK
  <1>3. TypeOK' BY <1>1, <1>2 DEF LinkInv, TypeOK
  <1>4. NoLink \notin Socket BY LinkAssumption
  <1>5. Named' BY <1>1, <1>2, <1>4 DEF LinkInv, Named
  <1>6. Waits' BY <1>1, <1>2 DEF LinkInv, Waits
  <1> QED BY <1>3, <1>5, <1>6 DEF LinkInv

-----------------------------------------------------------------------------
(* The steps of send().                                                    *)

\* What a step of one send() does to the rest of the system: it moves its own
\* job and look-up, and may learn something about links and devices.
LEMMA SenderStep ==
  ASSUME LinkInv, NEW k \in Sender, NEW b \in Job,
         NEW v \in Lookup \union {NoCall},
         v \in Lookup <=> b.step = "check",
         v \in Lookup => /\ device[v.link] \in Device
                         /\ v.link \in Steady => v.dev = device[v.link],
         job' = [job EXCEPT ![k] = b], call' = [call EXCEPT ![k] = v],
         UNCHANGED <<approved, open, device, links, ping>>,
         cache' \in [Device -> Entry \union {NoEntry}],
         ever' \subseteq Device, flag' \in [Socket -> BOOLEAN],
         \A x \in Socket : flag'[x] => device[x] \in Device
  PROVE  LinkInv'
  <1>1. k \in Caller /\ \A s \in Socket : s # k
    BY LinkAssumption DEF Caller
  <1>2. /\ \A c \in Caller : call'[c] = IF c = k THEN v ELSE call[c]
        /\ \A i \in Sender : job'[i] = IF i = k THEN b ELSE job[i]
    BY DEF LinkInv, TypeOK
  <1>3. TypeOK' BY DEF LinkInv, TypeOK
  <1>4. Named' BY DEF LinkInv, Named
  <1>5. v \notin Answer BY MarkerAssumption DEF Lookup, Answer
  <1>6. \A c \in Caller : call'[c] \in Lookup =>
          /\ device[call'[c].link] \in Device
          /\ call'[c].link \in Steady => call'[c].dev = device[call'[c].link]
          /\ c \in Socket => call'[c].link = c
    BY <1>1, <1>2 DEF LinkInv, Waits
  <1>7. \A s \in Socket : call'[s] # NoCall => s \in open'
    BY <1>1, <1>2 DEF LinkInv, Waits, Caller
  <1>8. \A i \in Sender : /\ call'[i] \in Lookup <=> job'[i].step = "check"
                          /\ call'[i] \notin Answer
    BY <1>2, <1>5 DEF LinkInv, Waits, Caller
  <1>9. Waits' BY <1>6, <1>7, <1>8 DEF Waits
  <1> QED BY <1>3, <1>4, <1>9 DEF LinkInv

LEMMA JudgedFact ==
  ASSUME NEW b \in Job, NEW J, \A j \in J : j.link \in Socket
  PROVE  /\ Judged(b, J) \in Job
         /\ Judged(b, J).step = b.step /\ Judged(b, J).left = b.left
         /\ Judged(b, J).seen = b.seen /\ Judged(b, J).to = b.to
         /\ Judged(b, J).size = b.size /\ Judged(b, J).stayed = b.stayed
         /\ Judged(b, J).missed = b.missed /\ Judged(b, J).mixed = b.mixed
         /\ ~b.late /\ (\A j \in J : j.ok => j.since) => ~Judged(b, J).late
         /\ b.asked \subseteq Judged(b, J).asked
         /\ \A j \in J : j.link \in Judged(b, J).asked
  <1> DEFINE asked == b.asked \union {j.link : j \in J}
             late == b.late \/ \E j \in J : j.ok /\ ~j.since
  <1>1. Judged(b, J) = [b EXCEPT !.asked = asked, !.late = late]
    BY DEF Judged, Job
  <1>2. asked \subseteq Socket /\ late \in BOOLEAN BY DEF Job
  <1> HIDE DEF asked, late
  <1>3. Judged(b, J) \in Job BY <1>1, <1>2 DEF Job
  <1>4. /\ Judged(b, J).step = b.step /\ Judged(b, J).left = b.left
        /\ Judged(b, J).seen = b.seen /\ Judged(b, J).to = b.to
        /\ Judged(b, J).size = b.size /\ Judged(b, J).stayed = b.stayed
        /\ Judged(b, J).missed = b.missed /\ Judged(b, J).mixed = b.mixed
        /\ Judged(b, J).late = late /\ Judged(b, J).asked = asked
    BY <1>1 DEF Job
  <1> QED BY <1>3, <1>4 DEF asked, late

LEMMA BaseFact ==
  ASSUME NEW to \in Device \union {"all"}
  PROVE  /\ Base(to) \in Job /\ Base(to).step = "check"
         /\ Base(to).stayed = {} /\ Base(to).late = FALSE
         /\ Base(to).asked = {} /\ Base(to).seen = {} /\ Base(to).left = {}
         /\ Base(to).to = to /\ Base(to).missed = FALSE
  BY DEF Base, Blank, Job

LEMMA BaseAllFact ==
  ASSUME LinkInv
  PROVE  /\ BaseAll \in Job /\ BaseAll.step = "check"
         /\ BaseAll.stayed = {<<d, links[d]>> : d \in Members}
         /\ BaseAll.late = FALSE /\ BaseAll.missed = FALSE
         /\ BaseAll.asked = {} /\ BaseAll.seen = {} /\ BaseAll.left = {}
         /\ BaseAll.to = "all"
  <1> DEFINE n == Cardinality(Members)
             stayed == {<<d, links[d]>> : d \in Members}
  <1>1. n \in Nat BY SizeIsNat
  <1>2. stayed \subseteq Device \X Socket
    BY DEF Members, LinkInv, TypeOK
  <1>3. BaseAll = [Base("all") EXCEPT !.size = n, !.stayed = stayed]
    BY DEF BaseAll
  <1> HIDE DEF n, stayed
  <1>4. /\ BaseAll \in Job /\ BaseAll.step = "check"
        /\ BaseAll.stayed = stayed
        /\ BaseAll.late = FALSE /\ BaseAll.missed = FALSE
        /\ BaseAll.asked = {} /\ BaseAll.seen = {} /\ BaseAll.left = {}
        /\ BaseAll.to = "all"
    BY <1>1, <1>2, <1>3 DEF Base, Blank, Job
  <1> QED BY <1>4 DEF stayed

\* The job that Decide leaves.
Decided(b, targets) ==
  [Blank EXCEPT !.step = IF targets = {} THEN "idle" ELSE "push",
                !.to = b.to, !.left = targets, !.late = b.late,
                !.missed = ~b.mixed /\ \E m \in b.stayed : m[2] \notin b.asked]

LEMMA DecidedFact ==
  ASSUME NEW k \in Sender, NEW b \in Job, NEW targets \in SUBSET Socket,
         Decide(k, b, targets)
  PROVE  /\ job' = [job EXCEPT ![k] = Decided(b, targets)]
         /\ Decided(b, targets) \in Job
         /\ Decided(b, targets).step \in {"idle", "push"}
         /\ Decided(b, targets).late = b.late
         /\ b.mixed \/ (\A m \in b.stayed : m[2] \in b.asked)
              => ~Decided(b, targets).missed
  <1> DEFINE missed == ~b.mixed /\ \E m \in b.stayed : m[2] \notin b.asked
             step == IF targets = {} THEN "idle" ELSE "push"
             to   == b.to
             late == b.late
  <1>1. /\ missed \in BOOLEAN /\ step \in {"idle", "push"}
        /\ to \in Device \union {"all"} /\ late \in BOOLEAN
    BY DEF Job
  <1>2. job' = [job EXCEPT ![k] = Decided(b, targets)]
    BY DEF Decide, Decided
  <1>3. Decided(b, targets) = [Blank EXCEPT !.step = step, !.to = to,
                                 !.left = targets, !.late = late,
                                 !.missed = missed]
    BY DEF Decided
  <1> HIDE DEF missed, step, to, late
  <1>4. Decided(b, targets) = [step |-> step, to |-> to, size |-> 0, seen |-> {},
                               left |-> targets, stayed |-> {}, asked |-> {},
                               mixed |-> FALSE, late |-> late, missed |-> missed]
    BY <1>3 DEF Blank
  <1>5. /\ Decided(b, targets) \in Job
        /\ Decided(b, targets).step = step
        /\ Decided(b, targets).late = late
        /\ Decided(b, targets).missed = missed
    BY <1>1, <1>4 DEF Job
  <1> QED BY <1>1, <1>2, <1>5 DEF missed, late

LEMMA SendKnownStep ==
  ASSUME LinkInv, NEW k \in Sender, NEW d \in Device, SendKnown(k, d)
  PROVE  LinkInv'
  <1> DEFINE j == Finding(cache, links[d], device[links[d]])
             t == IF j.ok \/ j.dev \notin EverAfter({j}) THEN {j.link} ELSE {}
             b == Judged(Base(d), {j})
  <1>1. /\ job[k].step = "idle" /\ links[d] \in Socket
        /\ Known(cache, device[links[d]])
        /\ ever' = EverAfter({j}) /\ flag' = FlagsAfter(flag, {j})
        /\ Decide(k, b, t)
        /\ UNCHANGED <<approved, cache, open, device, links, call, ping>>
    BY DEF SendKnown, Free, DecideExact, LinkInv, TypeOK
  <1>2. device[links[d]] \in Device BY <1>1 DEF LinkInv, Named
  <1>3. j \in Judgement /\ j.link = links[d] /\ j.dev = device[links[d]]
    BY <1>1, <1>2, FindingFact DEF LinkInv, TypeOK
  <1>4. /\ ever' \subseteq Device /\ flag' \in [Socket -> BOOLEAN]
        /\ \A x \in Socket : flag'[x] => device[x] \in Device
    BY <1>1, <1>2, <1>3, JudgeFact
  <1>5. b \in Job
    <2>1. Base(d) \in Job BY BaseFact
    <2>2. \A i \in {j} : i.link \in Socket BY <1>1, <1>3
    <2> QED BY <2>1, <2>2, JudgedFact
  <1>6. t \in SUBSET Socket BY <1>1, <1>3
  <1> HIDE DEF b, t, j
  <1>7. /\ job' = [job EXCEPT ![k] = Decided(b, t)]
        /\ Decided(b, t) \in Job /\ Decided(b, t).step # "check"
    BY <1>1, <1>5, <1>6, DecidedFact
  <1>8. call[k] = NoCall
    BY <1>1 DEF LinkInv, Waits, TypeOK, Caller
  <1>9. call' = [call EXCEPT ![k] = NoCall] BY <1>1, <1>8 DEF LinkInv, TypeOK
  <1>a. NoCall \notin Lookup BY MarkerAssumption
  <1>b. cache' \in [Device -> Entry \union {NoEntry}]
    BY <1>1 DEF LinkInv, TypeOK
  <1> QED BY <1>1, <1>4, <1>7, <1>9, <1>a, <1>b, SenderStep

LEMMA SendAsksStep ==
  ASSUME LinkInv, NEW k \in Sender, NEW d \in Device, SendAsks(k, d)
  PROVE  LinkInv'
  <1> DEFINE v == Asked(links[d], device[links[d]], FALSE)
  <1>1. /\ links[d] \in Socket
        /\ job' = [job EXCEPT ![k] = Base(d)]
        /\ call' = [call EXCEPT ![k] = v]
        /\ UNCHANGED <<approved, cache, ever, open, device, flag, links, ping>>
    BY DEF SendAsks, store, conn, LinkInv, TypeOK
  <1>2. device[links[d]] \in Device BY <1>1 DEF LinkInv, Named
  <1>3. v \in Lookup /\ v.link = links[d] /\ v.dev = device[links[d]]
    BY <1>1, <1>2, AskedFact
  <1> HIDE DEF v
  <1>4. Base(d) \in Job /\ Base(d).step = "check" BY BaseFact
  <1>5. /\ cache' \in [Device -> Entry \union {NoEntry}]
        /\ ever' \subseteq Device /\ flag' \in [Socket -> BOOLEAN]
        /\ \A x \in Socket : flag'[x] => device[x] \in Device
    BY <1>1 DEF LinkInv, TypeOK, Named
  <1> QED BY <1>1, <1>2, <1>3, <1>4, <1>5, SenderStep

LEMMA SendResumesStep ==
  ASSUME LinkInv, NEW k \in Sender, SendResumes(k) PROVE LinkInv'
  <1> DEFINE j == Found(k)
             t == IF j.ok \/ j.dev \notin EverAfter({j}) THEN {j.link} ELSE {}
             b == Judged(job[k], {j})
  <1>1. /\ HasRead(k) /\ cache' = Cached(k)
        /\ ever' = EverAfter({j}) /\ flag' = FlagsAfter(flag, {j})
        /\ Decide(k, b, t) /\ call' = [call EXCEPT ![k] = NoCall]
        /\ UNCHANGED <<approved, open, device, links, ping>>
    BY DEF SendResumes, DecideExact
  <1>2. k \in Caller BY DEF Caller
  <1>3. /\ j.link \in Socket /\ j.dev \in Device /\ device[j.link] \in Device
        /\ cache' \in [Device -> Entry \union {NoEntry}]
    BY <1>1, <1>2, ReadFact
  <1>4. /\ ever' \subseteq Device /\ flag' \in [Socket -> BOOLEAN]
        /\ \A x \in Socket : flag'[x] => device[x] \in Device
    BY <1>1, <1>3, JudgeFact
  <1>5. b \in Job BY <1>3, JudgedFact DEF LinkInv, TypeOK
  <1>6. t \in SUBSET Socket BY <1>3
  <1> HIDE DEF b, t, j
  <1>7. /\ job' = [job EXCEPT ![k] = Decided(b, t)]
        /\ Decided(b, t) \in Job /\ Decided(b, t).step # "check"
    BY <1>1, <1>5, <1>6, DecidedFact
  <1>8. NoCall \notin Lookup BY MarkerAssumption
  <1> QED BY <1>1, <1>3, <1>4, <1>7, <1>8, SenderStep

LEMMA BroadcastTornStep ==
  ASSUME LinkInv, NEW k \in Sender, BroadcastTorn(k) PROVE LinkInv'
  <1>1. /\ HasRead(k) /\ cache' = Cached(k)
        /\ ever' = EverAfter({Found(k)}) /\ flag' = FlagsAfter(flag, {Found(k)})
        /\ job' = [job EXCEPT ![k] = Blank]
        /\ call' = [call EXCEPT ![k] = NoCall]
        /\ UNCHANGED <<approved, open, device, links, ping>>
    BY DEF BroadcastTorn
  <1>2. k \in Caller BY DEF Caller
  <1>3. /\ Found(k).link \in Socket /\ Found(k).dev \in Device
        /\ device[Found(k).link] \in Device
        /\ cache' \in [Device -> Entry \union {NoEntry}]
    BY <1>1, <1>2, ReadFact
  <1>4. /\ ever' \subseteq Device /\ flag' \in [Socket -> BOOLEAN]
        /\ \A x \in Socket : flag'[x] => device[x] \in Device
    BY <1>1, <1>3, JudgeFact
  <1>5. Blank \in Job /\ Blank.step # "check" BY BlankType DEF Blank
  <1>6. NoCall \notin Lookup BY MarkerAssumption
  <1> QED BY <1>1, <1>3, <1>4, <1>5, <1>6, SenderStep

LEMMA PushStep ==
  ASSUME LinkInv, NEW k \in Sender, NEW l \in Socket, Push(k, l)
  PROVE  LinkInv'
  <1> DEFINE b == IF job[k].left = {l} THEN Blank
                  ELSE [job[k] EXCEPT !.left = job[k].left \ {l}]
  <1>0. /\ job[k].step = "push"
        /\ UNCHANGED <<approved, cache, ever, open, device, flag, links, call,
                       ping>>
    BY DEF Push, store, conn
  <1>2. job[k] \in Job BY DEF LinkInv, TypeOK
  <1>1. job' = [job EXCEPT ![k] = b]
    BY DEF Push, LinkInv, TypeOK
  <1>3. b \in Job /\ b.step # "check"
    <2>1. CASE job[k].left = {l} BY <2>1, BlankType DEF Blank
    <2>2. CASE job[k].left # {l}
      <3>1. job[k].left \ {l} \in SUBSET Socket BY <1>2 DEF Job
      <3> QED BY <1>2, <1>0, <2>2, <3>1 DEF Job
    <2> QED BY <2>1, <2>2
  <1> HIDE DEF b
  <1>4. call[k] = NoCall
    BY <1>0 DEF LinkInv, Waits, TypeOK, Caller
  <1>5. call' = [call EXCEPT ![k] = NoCall] BY <1>0, <1>4 DEF LinkInv, TypeOK
  <1>6. NoCall \notin Lookup BY MarkerAssumption
  <1>7. /\ cache' \in [Device -> Entry \union {NoEntry}]
        /\ ever' \subseteq Device /\ flag' \in [Socket -> BOOLEAN]
        /\ \A x \in Socket : flag'[x] => device[x] \in Device
    BY <1>0 DEF LinkInv, TypeOK, Named
  <1> QED BY <1>0, <1>1, <1>3, <1>5, <1>6, <1>7, SenderStep

-----------------------------------------------------------------------------
(* The walk of a broadcast over the table.                                 *)

Findings(C, J, K) ==
  J \union {Finding(C, links[d], device[links[d]]) : d \in K}

\* The job after the members of K have been passed with findings F.
Walked(b, F) ==
  [Judged(b, F) EXCEPT !.left = @ \union {j.link : j \in {i \in F : i.ok}}]

Passed(b, F, K, d) == [Walked(b, F) EXCEPT !.seen = @ \union K \union {d}]

Passable(b, C) == {d \in Todo(b) : Known(C, device[links[d]])}

\* Where the step ends when it has passed the members of K.
WalkEnds(k, b, C, J, K) ==
  /\ ever' = EverAfter(Findings(C, J, K))
  /\ flag' = FlagsAfter(FlagsAfter(flag, J), Findings(C, J, K) \ J)
  /\ \/ /\ K = Todo(b) \/ b.mixed
        /\ Decide(k, Walked(b, Findings(C, J, K)),
                  Walked(b, Findings(C, J, K)).left)
        /\ call' = [call EXCEPT ![k] = NoCall]
     \/ \E d \in Todo(b) \ Passable(b, C) :
        /\ job' = [job EXCEPT ![k] = Passed(b, Findings(C, J, K), K, d)]
        /\ call' = [call EXCEPT ![k] =
                     Asked(links[d], device[links[d]], FALSE)]
     \/ /\ b.mixed
        /\ job' = [job EXCEPT ![k] = Blank]
        /\ call' = [call EXCEPT ![k] = NoCall]

LEMMA WalkCases ==
  ASSUME NEW k, NEW b, NEW C, NEW J, Walk(k, b, C, J)
  PROVE  \E K \in SUBSET Passable(b, C) : WalkEnds(k, b, C, J, K)
  BY Zenon DEF Walk, WalkEnds, Findings, Walked, Passed, Passable

LEMMA FindingsFact ==
  ASSUME LinkInv, NEW C \in [Device -> Entry \union {NoEntry}], NEW b,
         NEW J, \A j \in J : /\ j.link \in Socket /\ j.dev \in Device
                             /\ device[j.link] \in Device,
         NEW K \in SUBSET Passable(b, C)
  PROVE  /\ \A j \in Findings(C, J, K) : /\ j.link \in Socket /\ j.dev \in Device
                                         /\ device[j.link] \in Device
         /\ J \subseteq Findings(C, J, K)
         /\ \A d \in K : \E j \in Findings(C, J, K) : j.link = links[d]
  <1>1. ASSUME NEW d \in K
        PROVE  /\ links[d] \in Socket /\ device[links[d]] \in Device
               /\ Finding(C, links[d], device[links[d]]).link = links[d]
               /\ Finding(C, links[d], device[links[d]]).dev = device[links[d]]
    <2>1. links[d] \in Socket /\ device[links[d]] \in Device
          /\ Known(C, device[links[d]])
      BY DEF Passable, Todo, Members, LinkInv, TypeOK, Named
    <2> QED BY <2>1, FindingFact
  <1> QED BY <1>1 DEF Findings

LEMMA WalkedFact ==
  ASSUME NEW b \in Job, NEW F, \A j \in F : j.link \in Socket
  PROVE  /\ Walked(b, F) \in Job
         /\ Walked(b, F).step = b.step /\ Walked(b, F).seen = b.seen
         /\ Walked(b, F).to = b.to /\ Walked(b, F).stayed = b.stayed
         /\ Walked(b, F).missed = b.missed /\ Walked(b, F).mixed = b.mixed
         /\ ~b.late /\ (\A j \in F : j.ok => j.since) => ~Walked(b, F).late
         /\ b.asked \subseteq Walked(b, F).asked
         /\ \A j \in F : j.link \in Walked(b, F).asked
  <1> DEFINE x == Judged(b, F)
             left == x.left \union {j.link : j \in {i \in F : i.ok}}
  <1>1. /\ x \in Job /\ x.step = b.step /\ x.left = b.left
        /\ x.seen = b.seen /\ x.to = b.to /\ x.stayed = b.stayed
        /\ x.missed = b.missed /\ x.mixed = b.mixed
        /\ ~b.late /\ (\A j \in F : j.ok => j.since) => ~x.late
        /\ b.asked \subseteq x.asked /\ \A j \in F : j.link \in x.asked
    BY JudgedFact
  <1>2. left \in SUBSET Socket BY <1>1 DEF Job
  <1>3. Walked(b, F) = [x EXCEPT !.left = left] BY DEF Walked
  <1> HIDE DEF x, left
  <1>4. /\ Walked(b, F) \in Job
        /\ Walked(b, F).step = x.step /\ Walked(b, F).seen = x.seen
        /\ Walked(b, F).to = x.to /\ Walked(b, F).stayed = x.stayed
        /\ Walked(b, F).missed = x.missed /\ Walked(b, F).late = x.late
        /\ Walked(b, F).asked = x.asked /\ Walked(b, F).mixed = x.mixed
    BY <1>1, <1>2, <1>3 DEF Job
  <1> QED BY <1>1, <1>4

LEMMA PassedType ==
  ASSUME NEW b \in Job, NEW F, \A j \in F : j.link \in Socket,
         NEW K \in SUBSET Device, NEW d \in Device
  PROVE  /\ Passed(b, F, K, d) \in Job
         /\ Passed(b, F, K, d).step = b.step
  <1> DEFINE x == Walked(b, F)
             seen == x.seen \union K \union {d}
  <1>1. /\ x \in Job /\ x.step = b.step /\ x.seen = b.seen /\ x.to = b.to
        /\ x.stayed = b.stayed /\ x.missed = b.missed
    BY WalkedFact
  <1>2. seen \in SUBSET Device BY <1>1 DEF Job
  <1>3. Passed(b, F, K, d) = [x EXCEPT !.seen = seen] BY DEF Passed
  <1>4. seen = b.seen \union K \union {d} BY <1>1
  <1> HIDE DEF x, seen
  <1>5. /\ Passed(b, F, K, d) \in Job
        /\ Passed(b, F, K, d).step = x.step
        /\ Passed(b, F, K, d).seen = seen
        /\ Passed(b, F, K, d).to = x.to
        /\ Passed(b, F, K, d).stayed = x.stayed
        /\ Passed(b, F, K, d).missed = x.missed
        /\ Passed(b, F, K, d).late = x.late
        /\ Passed(b, F, K, d).asked = x.asked
    BY <1>1, <1>2, <1>3 DEF Job
  <1> QED BY <1>1, <1>4, <1>5 DEF x

LEMMA WalkStep ==
  ASSUME LinkInv, NEW k \in Sender, NEW b \in Job, b.step = "check",
         NEW C \in [Device -> Entry \union {NoEntry}],
         NEW J, \A j \in J : /\ j.link \in Socket /\ j.dev \in Device
                             /\ device[j.link] \in Device,
         Walk(k, b, C, J), cache' = C,
         UNCHANGED <<approved, open, device, links, ping>>
  PROVE  LinkInv'
  <1>0. PICK K \in SUBSET Passable(b, C) : WalkEnds(k, b, C, J, K)
    BY WalkCases
  <1> DEFINE F == Findings(C, J, K)
  <1>1. /\ ever' = EverAfter(F)
        /\ flag' = FlagsAfter(FlagsAfter(flag, J), F \ J)
        /\ \/ /\ Decide(k, Walked(b, F), Walked(b, F).left)
              /\ call' = [call EXCEPT ![k] = NoCall]
           \/ \E d \in Todo(b) :
              /\ job' = [job EXCEPT ![k] = Passed(b, F, K, d)]
              /\ call' = [call EXCEPT ![k] =
                           Asked(links[d], device[links[d]], FALSE)]
           \/ /\ job' = [job EXCEPT ![k] = Blank]
              /\ call' = [call EXCEPT ![k] = NoCall]
    BY <1>0 DEF WalkEnds
  <1>2. \A j \in F : /\ j.link \in Socket /\ j.dev \in Device
                     /\ device[j.link] \in Device
    BY FindingsFact
  <1>3. ever' \subseteq Device
    BY <1>1, <1>2, EverFact DEF LinkInv, TypeOK
  <1>4. /\ flag' \in [Socket -> BOOLEAN]
        /\ \A x \in Socket : flag'[x] => device[x] \in Device
    <2>1. flag \in [Socket -> BOOLEAN] BY DEF LinkInv, TypeOK
    <2> DEFINE G == FlagsAfter(flag, J)
    <2>2. /\ G \in [Socket -> BOOLEAN]
          /\ \A x \in Socket : G[x] => flag[x] \/ \E j \in J : j.link = x
      BY <2>1, FlagsFact
    <2> HIDE DEF G
    <2>3. /\ FlagsAfter(G, F \ J) \in [Socket -> BOOLEAN]
          /\ \A x \in Socket : FlagsAfter(G, F \ J)[x] =>
               G[x] \/ \E j \in F \ J : j.link = x
      BY <2>2, FlagsFact
    <2>4. flag' = FlagsAfter(G, F \ J) BY <1>1 DEF G
    <2>5. \A x \in Socket : flag'[x] =>
            flag[x] \/ (\E j \in J : j.link = x) \/ \E j \in F : j.link = x
      BY <2>2, <2>3, <2>4
    <2>6. \A x \in Socket : flag[x] => device[x] \in Device
      BY DEF LinkInv, Named
    <2> QED BY <1>2, <2>3, <2>4, <2>5, <2>6
  <1>5. Todo(b) \subseteq Device /\ K \in SUBSET Device
    BY DEF Todo, Members, Passable
  <1> HIDE DEF F
  <1>6. CASE /\ Decide(k, Walked(b, F), Walked(b, F).left)
             /\ call' = [call EXCEPT ![k] = NoCall]
    <2>1. Walked(b, F) \in Job BY <1>2, WalkedFact
    <2>2. Walked(b, F).left \in SUBSET Socket BY <2>1 DEF Job
    <2> DEFINE t == Walked(b, F).left
    <2>a. t \in SUBSET Socket /\ Decide(k, Walked(b, F), t) BY <1>6, <2>2
    <2> HIDE DEF t
    <2>3. /\ job' = [job EXCEPT ![k] = Decided(Walked(b, F), t)]
          /\ Decided(Walked(b, F), t) \in Job
          /\ Decided(Walked(b, F), t).step # "check"
      BY <2>1, <2>a, DecidedFact
    <2>4. NoCall \notin Lookup BY MarkerAssumption
    <2> QED BY <1>3, <1>4, <1>6, <2>3, <2>4, SenderStep
  <1>7. ASSUME NEW d \in Todo(b),
               job' = [job EXCEPT ![k] = Passed(b, F, K, d)],
               call' = [call EXCEPT ![k] =
                         Asked(links[d], device[links[d]], FALSE)]
        PROVE  LinkInv'
    <2>1. links[d] \in Socket /\ device[links[d]] \in Device
      BY DEF Todo, Members, LinkInv, TypeOK, Named
    <2> DEFINE v == Asked(links[d], device[links[d]], FALSE)
    <2>2. v \in Lookup /\ v.link = links[d] /\ v.dev = device[links[d]]
      BY <2>1, AskedFact
    <2>3. K \in SUBSET Device /\ d \in Device BY <1>5
    <2>a. \A j \in F : j.link \in Socket BY <1>2
    <2>4. Passed(b, F, K, d) \in Job /\ Passed(b, F, K, d).step = "check"
      BY <2>a, <2>3, PassedType
    <2>5. call' = [call EXCEPT ![k] = v] BY <1>7
    <2> HIDE DEF v
    <2> QED BY <1>3, <1>4, <1>7, <2>1, <2>2, <2>4, <2>5, SenderStep
  <1>8. CASE /\ job' = [job EXCEPT ![k] = Blank]
             /\ call' = [call EXCEPT ![k] = NoCall]
    <2>1. Blank \in Job /\ Blank.step # "check" BY BlankType DEF Blank
    <2>2. NoCall \notin Lookup BY MarkerAssumption
    <2> QED BY <1>3, <1>4, <1>8, <2>1, <2>2, SenderStep
  <1> QED BY <1>1, <1>6, <1>7, <1>8 DEF F

LEMMA BroadcastStartsStep ==
  ASSUME LinkInv, NEW k \in Sender, BroadcastStarts(k) PROVE LinkInv'
  <1>1. /\ Walk(k, BaseAll, cache, {})
        /\ UNCHANGED <<approved, cache, open, device, links, ping>>
    BY DEF BroadcastStarts
  <1>2. BaseAll \in Job /\ BaseAll.step = "check" BY BaseAllFact
  <1>3. cache \in [Device -> Entry \union {NoEntry}] BY DEF LinkInv, TypeOK
  <1> QED BY <1>1, <1>2, <1>3, WalkStep

LEMMA BroadcastResumesStep ==
  ASSUME LinkInv, NEW k \in Sender, BroadcastResumes(k) PROVE LinkInv'
  <1>1. /\ HasRead(k) /\ cache' = Cached(k)
        /\ Walk(k, job[k], Cached(k), {Found(k)})
        /\ UNCHANGED <<approved, open, device, links, ping>>
    BY DEF BroadcastResumes
  <1>2. k \in Caller BY DEF Caller
  <1>3. /\ Found(k).link \in Socket /\ Found(k).dev \in Device
        /\ device[Found(k).link] \in Device /\ call[k] \in Lookup
        /\ Cached(k) \in [Device -> Entry \union {NoEntry}]
    BY <1>1, <1>2, ReadFact
  <1>4. job[k] \in Job /\ job[k].step = "check"
    BY <1>3 DEF LinkInv, TypeOK, Waits
  <1>5. \A j \in {Found(k)} : /\ j.link \in Socket /\ j.dev \in Device
                              /\ device[j.link] \in Device
    BY <1>3
  <1> QED BY <1>1, <1>3, <1>4, <1>5, WalkStep

LEMMA LinkStep == ASSUME LinkInv, [Next]_vars PROVE LinkInv'
  <1>1. CASE StoreNext BY <1>1, StoreStep
  <1>2. ASSUME NEW s \in Socket, SocketNext(s) PROVE LinkInv'
    BY <1>2, OpensStep, ClosesStep, NamesResumesStep, ResolvedStep, PingsStep,
       HelloKnownStep, TextKnownStep, NamesStep, OnAnswerStep DEF SocketNext
  <1>3. CASE PingStarts BY <1>3, PingStartsStep
  <1>4. ASSUME NEW k \in Sender, SendNext(k) PROVE LinkInv'
    BY <1>4, SendKnownStep, SendAsksStep, SendResumesStep,
       BroadcastStartsStep, BroadcastResumesStep, BroadcastTornStep, PushStep
    DEF SendNext
  <1>5. CASE UNCHANGED vars
    BY <1>5 DEF vars, store, conn, LinkInv, TypeOK, Named, Waits
  <1> QED BY <1>1, <1>2, <1>3, <1>4, <1>5 DEF Next

\* Every variable keeps its type; the rest of LinkInv says whom the links,
\* flags and look-ups are about.
THEOREM LinksTyped == Spec => []TypeOK
  <1>1. Spec => []LinkInv BY InitLinks, LinkStep, PTL DEF Spec
  <1> QED BY <1>1, PTL DEF LinkInv

-----------------------------------------------------------------------------
(* The table.                                                              *)

\* What can change an entry: its own socket ends, a hello takes it, or a ping
\* of a link of that device fails.
Taken(s, d) == /\ links'[d] = s /\ s \in open'
               /\ s \in Steady => device'[s] = d
Dropped(s, d) == /\ links'[d] = NoLink /\ device[s] = d
                 /\ \/ links[d] = s /\ s \in open \ open'
                    \/ s \in ping \ ping'

LEMMA TableChanges ==
  ASSUME LinkInv, [Next]_vars, NEW d \in Device, links'[d] # links[d]
  PROVE  \E s \in Socket : Taken(s, d) \/ Dropped(s, d)
  <1>1. links \in [Device -> Socket \union {NoLink}] BY DEF LinkInv, TypeOK
  <1>2. \A e : Pop(e) => links'[d] = links[d] \/ (e = d /\ links'[d] = NoLink)
    BY <1>1 DEF Pop, Change
  <1>3. \A e, s : Change([links EXCEPT ![e] = s]) =>
          links'[d] = links[d] \/ (e = d /\ links'[d] = s)
    BY <1>1 DEF Change
  <1>4. ~StoreNext
    BY DEF StoreNext, Approve, Revoke, CacheExpires, StoreReads
  <1>5. ASSUME NEW s \in Socket, SocketNext(s)
        PROVE  Taken(s, d) \/ Dropped(s, d)
    <2>1. ~Opens(s) /\ ~Resolved(s) BY DEF Opens, Resolved
    <2>2. \A e \in Device : ~TextKnown(s, e) /\ \A h \in BOOLEAN : ~Names(s, e, h)
      BY DEF TextKnown, Names
    <2>3. \A f \in AnswerFrame : ~OnAnswer(s, f) BY DEF OnAnswer
    <2>4. CASE Closes(s)
      <3>1. s \in open \ open' /\ PopOwn(s) BY <2>4 DEF Closes, Reading
      <3>2. Pop(device[s]) /\ links[device[s]] = s BY <3>1 DEF PopOwn
      <3> QED BY <1>2, <3>1, <3>2 DEF Dropped
    <2>5. CASE Pings(s)
      <3>1. s \in ping \ ping' /\ Pop(device[s]) BY <2>5 DEF Pings
      <3> QED BY <1>2, <3>1 DEF Dropped
    <2>6. ASSUME NEW e \in Device, HelloKnown(s, e) PROVE Taken(s, d)
      <3>1. /\ s \in open' /\ device' = [device EXCEPT ![s] = e]
            /\ Change([links EXCEPT ![e] = s])
        BY <2>6 DEF HelloKnown, Reading
      <3>2. device'[s] = e BY <3>1 DEF LinkInv, TypeOK
      <3> QED BY <1>3, <3>1, <3>2 DEF Taken
    <2>7. CASE NamesResumes(s)
      <3>1. /\ HasRead(s) /\ UNCHANGED <<open, device>>
            /\ Change([links EXCEPT ![call[s].dev] = s])
        BY <2>7 DEF NamesResumes
      <3>2. s \in Caller BY DEF Caller
      <3>3. call[s] \in Lookup /\ call[s].link = s BY <3>1, <3>2, ReadFact
      <3>4. call[s] # NoCall BY <3>3, MarkerAssumption
      <3>5. s \in open /\ (s \in Steady => call[s].dev = device[s])
        BY <3>2, <3>3, <3>4 DEF LinkInv, Waits
      <3>6. links'[d] = s /\ call[s].dev = d BY <1>3, <3>1
      <3> QED BY <3>1, <3>5, <3>6 DEF Taken
    <2> QED BY <1>5, <2>1, <2>2, <2>3, <2>4, <2>5, <2>6, <2>7 DEF SocketNext
  <1>6. ~PingStarts BY DEF PingStarts
  <1>7. \A k \in Sender : ~SendNext(k)
    BY DEF SendNext, SendKnown, SendAsks, SendResumes, BroadcastStarts,
           BroadcastResumes, BroadcastTorn, Push
  <1>8. ~UNCHANGED vars BY DEF vars
  <1> QED BY <1>4, <1>5, <1>6, <1>7, <1>8 DEF Next

LEMMA NewerLinkStep ==
  ASSUME LinkInv, [Next]_vars, NEW d \in Device, links[d] # NoLink,
         links'[d] # links[d]
  PROVE  \/ links[d] \in open \ open' \/ links'[d] # NoLink
         \/ \E l \in ping \ ping' : device[l] = d
  BY TableChanges, LinkAssumption DEF Taken, Dropped

\* An older socket of a device that ends never takes the newer link with it.
THEOREM LinksNewerStays == Spec => NewerLinkStays
  <1>1. Spec => []LinkInv BY InitLinks, LinkStep, PTL DEF Spec
  <1>2. LinkInv /\ [Next]_vars =>
          [\A d \in Device :
             LET s == links[d] IN
             s # NoLink /\ links'[d] # s =>
               \/ s \in open \ open'
               \/ links'[d] # NoLink
               \/ \E l \in ping \ ping' : device[l] = d]_vars
    BY NewerLinkStep
  <1> QED BY <1>1, <1>2, PTL DEF Spec, NewerLinkStays

\* What TableIsRead asks of the entry d.
ReadAt(d) == links[d] # NoLink =>
  /\ device[links[d]] = d => links[d] \in open
  /\ links[d] \in Steady => device[links[d]] = d

\* While its entry stays, a link that takes its key for a name is reading the
\* frame that says so, and one that goes by it stops reading with its entry.
LEMMA EntryStep ==
  ASSUME LinkInv, [Next]_vars, NEW d \in Device, links'[d] = links[d], ReadAt(d)
  PROVE  ReadAt(d)'
  <1>a. /\ device \in [Socket -> Device \union {NoDevice}]
        /\ links \in [Device -> Socket \union {NoLink}]
        /\ NoLink \notin Socket /\ NoDevice \notin Device
    BY LinkAssumption DEF LinkInv, TypeOK
  <1> DEFINE s == links[d]
             Goal == /\ device'[s] = d => s \in open'
                     /\ s \in Steady => device'[s] = d
  <1>b. SUFFICES ASSUME s \in Socket PROVE Goal BY <1>a DEF ReadAt
  <1>c. /\ device[s] = d => s \in open
        /\ s \in Steady => device[s] = d
    BY <1>a, <1>b DEF ReadAt
  <1>d. ASSUME UNCHANGED conn PROVE Goal BY <1>c, <1>d DEF conn
  <1>2. CASE StoreNext
    BY <1>2, <1>d DEF StoreNext, Approve, Revoke, CacheExpires, StoreReads
  <1>3. ASSUME NEW x \in Socket, SocketNext(x) PROVE Goal
    <2>1. CASE Opens(x)
      <3>1. x # s BY <2>1 DEF Opens, Forgotten
      <3> QED BY <1>a, <1>b, <1>c, <2>1, <3>1 DEF Opens
    <2>2. CASE Closes(x)
      <3>1. CASE x = s
        <4>1. device[s] # d
          <5>1. SUFFICES ASSUME device[s] = d PROVE FALSE OBVIOUS
          <5>2. Pop(d) BY <1>a, <2>2, <3>1, <5>1 DEF Closes, PopOwn
          <5> QED BY <1>a, <1>b, <5>2 DEF Pop, Change
        <4>2. device'[s] = device[s] \/ device'[s] = NoDevice
          BY <1>a, <1>b, <2>2, <3>1 DEF Closes
        <4> QED BY <1>a, <1>c, <4>1, <4>2
      <3>2. CASE x # s
        <4>1. device'[s] = device[s] /\ (s \in open => s \in open')
          BY <1>a, <1>b, <2>2, <3>2 DEF Closes
        <4> QED BY <1>c, <4>1
      <3> QED BY <3>1, <3>2
    <2>3. CASE NamesResumes(x) \/ Resolved(x) \/ Pings(x)
               \/ \E f \in AnswerFrame : OnAnswer(x, f)
      <3>1. UNCHANGED <<open, device>>
        BY <2>3 DEF NamesResumes, Resolved, Pings, OnAnswer, conn
      <3> QED BY <1>c, <3>1
    <2>4. ASSUME NEW e \in IdsOf[x], device' = [device EXCEPT ![x] = e],
                 x \in open, open' = open
          PROVE  Goal
      <3>1. s \in Steady => device'[s] = d BY <1>b, <1>c, <2>4, NewName
      <3>2. s # x => device'[s] = device[s] BY <1>a, <1>b, <2>4
      <3> QED BY <1>c, <2>4, <3>1, <3>2
    <2>5. ASSUME NEW e \in Device, \/ HelloKnown(x, e) \/ TextKnown(x, e)
                                   \/ \E h \in BOOLEAN : Names(x, e, h)
          PROVE  Goal
      BY <2>4, <2>5 DEF HelloKnown, TextKnown, Names, Reading
    <2> QED BY <1>3, <2>1, <2>2, <2>3, <2>5 DEF SocketNext
  <1>4. CASE PingStarts BY <1>4, <1>d DEF PingStarts
  <1>5. ASSUME NEW k \in Sender, SendNext(k) PROVE Goal
    <2>1. UNCHANGED <<open, device>>
      BY <1>5 DEF SendNext, SendKnown, SendAsks, SendResumes, BroadcastStarts,
                  BroadcastResumes, BroadcastTorn, Push, conn
    <2> QED BY <1>c, <2>1
  <1>6. CASE UNCHANGED vars BY <1>6, <1>d DEF vars
  <1> QED BY <1>2, <1>3, <1>4, <1>5, <1>6 DEF Next

LEMMA TableStep ==
  ASSUME LinkInv, TableIsRead, [Next]_vars PROVE TableIsRead'
  <1>1. SUFFICES ASSUME NEW d \in Device PROVE ReadAt(d)'
    BY DEF TableIsRead, ReadAt
  <1>2. CASE links'[d] = links[d]
    BY <1>2, EntryStep DEF TableIsRead, ReadAt
  <1>3. CASE links'[d] # links[d]
    BY <1>3, TableChanges DEF Taken, Dropped, ReadAt
  <1> QED BY <1>2, <1>3

\* Every entry under the name its link goes by is a socket that is read, and
\* clients that keep their name have no other entry.
THEOREM LinksTableIsRead == Spec => []TableIsRead
  <1>1. Init => TableIsRead BY DEF Init, TableIsRead
  <1>2. Spec => []LinkInv BY InitLinks, LinkStep, PTL DEF Spec
  <1>3. LinkInv /\ TableIsRead /\ [Next]_vars => TableIsRead' BY TableStep
  <1> QED BY <1>1, <1>2, <1>3, PTL DEF Spec

-----------------------------------------------------------------------------
(* What a send() has been told, and whom a broadcast has asked about.      *)

\* In cache C a fresh yes is dated: the store said so from its date on.
Dated(C) == \A d \in Device :
  C[d] # NoEntry /\ C[d].fresh /\ C[d].ok => C[d].since

\* k used no stale yes.  While it is a broadcast under way, each link that has
\* stayed in the table is still to come, being asked about, or asked about.
Accounted(k) ==
  /\ ~job[k].late /\ ~job[k].missed
  /\ job[k].step = "check" => \A m \in job[k].stayed :
       /\ job[k].to = "all" /\ links[m[1]] = m[2]
       /\ m[1] \in job[k].seen => m[2] \in job[k].asked \union {call[k].link}

SendInv == Dated(cache) /\ \A k \in Sender : Accounted(k)

LEMMA FindingSince ==
  ASSUME NEW C \in [Device -> Entry \union {NoEntry}], Dated(C), NEW l,
         NEW d \in Device, Known(C, d)
  PROVE  Finding(C, l, d).ok => Finding(C, l, d).since
  <1>1. CASE d \in Allowed BY <1>1 DEF Finding
  <1>2. CASE d \notin Allowed
    <2>1. C[d] \in Entry /\ C[d] # NoEntry /\ C[d].fresh BY <1>2 DEF Known
    <2>2. C[d].ok => C[d].since BY <2>1 DEF Dated
    <2>3. Finding(C, l, d).ok <=> C[d].ok BY <1>2, <2>1 DEF Finding, Entry
    <2>4. Finding(C, l, d).since <=> C[d].since
      BY <1>2, <2>1 DEF Finding, Entry
    <2> QED BY <2>2, <2>3, <2>4
  <1> QED BY <1>1, <1>2

LEMMA CachedDated ==
  ASSUME LinkInv, NEW c \in Caller, HasRead(c), Dated(cache)
  PROVE  Dated(Cached(c))
  <1>1. call[c] \in Lookup BY ReadFact
  <1>2. \A d \in Device : Cached(c)[d] = cache[d] \/
          (Cached(c)[d] \in Entry /\ (Cached(c)[d].ok => Cached(c)[d].since))
    BY <1>1, CachedFact DEF LinkInv, TypeOK
  <1> QED BY <1>2 DEF Dated

LEMMA DatedStep == ASSUME LinkInv, Dated(cache), [Next]_vars PROVE Dated(cache')
  <1>1. ASSUME NEW d \in Device, Approve(d) PROVE Dated(cache')
    <2>1. CASE cache[d] = NoEntry BY <1>1, <2>1 DEF Approve
    <2>2. CASE cache[d] # NoEntry
      <3>1. cache[d] \in Entry BY <2>2 DEF LinkInv, TypeOK
      <3> DEFINE e == [cache[d] EXCEPT !.since = cache[d].ok]
      <3>2. e \in Entry /\ (e.ok => e.since) BY <3>1 DEF Entry
      <3>3. cache' = [cache EXCEPT ![d] = e] BY <1>1, <2>2 DEF Approve
      <3> HIDE DEF e
      <3>4. \A x \in Device : cache'[x] = IF x = d THEN e ELSE cache[x]
        BY <3>3 DEF LinkInv, TypeOK
      <3> QED BY <3>2, <3>4 DEF Dated
    <2> QED BY <2>1, <2>2
  <1>2. ASSUME NEW d \in Device, CacheExpires(d) PROVE Dated(cache')
    <2>1. cache[d] \in Entry BY <1>2 DEF CacheExpires, LinkInv, TypeOK
    <2> DEFINE e == [cache[d] EXCEPT !.fresh = FALSE,
                                     !.since = cache[d].ok /\ d \in approved]
    <2>2. ~e.fresh BY <2>1 DEF Entry
    <2>3. cache' = [cache EXCEPT ![d] = e] BY <1>2 DEF CacheExpires
    <2> HIDE DEF e
    <2>4. \A x \in Device : cache'[x] = IF x = d THEN e ELSE cache[x]
      BY <2>3 DEF LinkInv, TypeOK
    <2> QED BY <2>2, <2>4 DEF Dated
  <1>3. ASSUME NEW c \in Caller, HasRead(c), cache' = Cached(c)
        PROVE  Dated(cache')
    BY <1>3, CachedDated
  <1>4. ASSUME cache' = cache PROVE Dated(cache') BY <1>4
  <1>5. CASE StoreNext
    BY <1>1, <1>2, <1>4, <1>5 DEF StoreNext, Revoke, StoreReads, store
  <1>6. ASSUME NEW s \in Socket, SocketNext(s) PROVE Dated(cache')
    <2>1. CASE NamesResumes(s) BY <1>3, <2>1 DEF NamesResumes, Caller
    <2>2. CASE ~NamesResumes(s)
      BY <1>4, <1>6, <2>2
      DEF SocketNext, Opens, Closes, Resolved, Pings, HelloKnown, TextKnown,
          Names, OnAnswer, store
    <2> QED BY <2>1, <2>2
  <1>7. CASE PingStarts BY <1>4, <1>7 DEF PingStarts, store
  <1>8. ASSUME NEW k \in Sender, SendNext(k) PROVE Dated(cache')
    <2>1. CASE SendResumes(k) \/ BroadcastResumes(k) \/ BroadcastTorn(k)
      BY <1>3, <2>1 DEF SendResumes, BroadcastResumes, BroadcastTorn, Caller
    <2>2. CASE BroadcastStarts(k) BY <1>4, <2>2 DEF BroadcastStarts
    <2>3. CASE \/ \E d \in Device : SendKnown(k, d) \/ SendAsks(k, d)
               \/ \E l \in Socket : Push(k, l)
      BY <1>4, <2>3 DEF SendKnown, SendAsks, Push, store
    <2> QED BY <1>8, <2>1, <2>2, <2>3 DEF SendNext
  <1>9. CASE UNCHANGED vars BY <1>4, <1>9 DEF vars, store
  <1> QED BY <1>5, <1>6, <1>7, <1>8, <1>9 DEF Next

\* A step that only changes the table keeps the account of k.
LEMMA Kept ==
  ASSUME NEW k \in Sender, Accounted(k),
         job'[k].step = job[k].step, job'[k].to = job[k].to,
         job'[k].asked = job[k].asked, job'[k].late = job[k].late,
         job'[k].missed = job[k].missed,
         job[k].step = "check" =>
           /\ job'[k].seen \subseteq job[k].seen
           /\ \A m \in job'[k].stayed : m \in job[k].stayed /\ links'[m[1]] = m[2]
           /\ call'[k].link = call[k].link
  PROVE  Accounted(k)'
  BY DEF Accounted

LEMMA OthersKept ==
  ASSUME LinkInv, \A k \in Sender : Accounted(k),
         \/ UNCHANGED <<links, job>>
         \/ \E table \in [Device -> Socket \union {NoLink}] : Change(table),
         \A k \in Sender : call[k] \in Lookup => call'[k].link = call[k].link
  PROVE  \A k \in Sender : Accounted(k)'
  <1> SUFFICES ASSUME NEW k \in Sender PROVE Accounted(k)' OBVIOUS
  <1>1. job[k].step = "check" => call'[k].link = call[k].link
    BY DEF LinkInv, Waits
  <1>2. CASE UNCHANGED <<links, job>> BY <1>1, <1>2 DEF Accounted
  <1>3. ASSUME NEW table \in [Device -> Socket \union {NoLink}], Change(table)
        PROVE  Accounted(k)'
    <2>1. job \in [Sender -> Job] BY DEF LinkInv, TypeOK
    <2>2. /\ links' = table
          /\ job'[k].step = job[k].step /\ job'[k].to = job[k].to
          /\ job'[k].asked = job[k].asked
          /\ job'[k].late = job[k].late /\ job'[k].missed = job[k].missed
          /\ job[k].step = "check" =>
               /\ job'[k].seen \subseteq job[k].seen
               /\ job'[k].stayed = {m \in job[k].stayed : table[m[1]] = m[2]}
      BY <1>3, <2>1, ChangeFact
    <2> QED BY <1>1, <2>2, Kept
  <1> QED BY <1>2, <1>3

LEMMA OneSender ==
  ASSUME LinkInv, \A i \in Sender : Accounted(i), NEW k \in Sender, NEW b, NEW v,
         job' = [job EXCEPT ![k] = b], call' = [call EXCEPT ![k] = v],
         links' = links, ~b.late, ~b.missed,
         b.step = "check" => \A m \in b.stayed :
           /\ b.to = "all" /\ links[m[1]] = m[2]
           /\ m[1] \in b.seen => m[2] \in b.asked \union {v.link}
  PROVE  \A i \in Sender : Accounted(i)'
  <1>1. \A i \in Sender : /\ job'[i] = IF i = k THEN b ELSE job[i]
                          /\ call'[i] = IF i = k THEN v ELSE call[i]
    BY DEF LinkInv, TypeOK, Caller
  <1>2. Accounted(k)' BY <1>1 DEF Accounted
  <1>3. ASSUME NEW i \in Sender, i # k PROVE Accounted(i)'
    BY <1>1, <1>3 DEF Accounted
  <1> QED BY <1>2, <1>3

LEMMA WalkAccount ==
  ASSUME LinkInv, \A i \in Sender : Accounted(i), NEW k \in Sender,
         NEW b \in Job, ~b.late, ~b.missed, b.to = "all",
         NEW C \in [Device -> Entry \union {NoEntry}], Dated(C),
         NEW J, \A j \in J : /\ j.link \in Socket /\ j.dev \in Device
                             /\ device[j.link] \in Device
                             /\ j.ok => j.since,
         \A m \in b.stayed :
           /\ links[m[1]] = m[2]
           /\ m[1] \in b.seen => m[2] \in b.asked \union {j.link : j \in J},
         Walk(k, b, C, J), links' = links
  PROVE  \A i \in Sender : Accounted(i)'
  <1>1. PICK K \in SUBSET Passable(b, C) : WalkEnds(k, b, C, J, K)
    BY WalkCases
  <1> DEFINE F == Findings(C, J, K)
             w == Walked(b, F)
  <1>2. /\ \A j \in F : j.link \in Socket
        /\ J \subseteq F /\ \A d \in K : \E j \in F : j.link = links[d]
    <2>1. \A j \in J : /\ j.link \in Socket /\ j.dev \in Device
                       /\ device[j.link] \in Device
      OBVIOUS
    <2> QED BY <2>1, FindingsFact
  <1>3. \A j \in F : j.ok => j.since
    <2>1. ASSUME NEW d \in K
          PROVE  /\ Finding(C, links[d], device[links[d]]).ok =>
                    Finding(C, links[d], device[links[d]]).since
      <3>1. device[links[d]] \in Device /\ Known(C, device[links[d]])
        BY DEF Passable, Todo, Members, LinkInv, TypeOK, Named
      <3> QED BY <3>1, FindingSince
    <2> QED BY <2>1 DEF Findings
  <1>4. /\ w \in Job /\ w.step = b.step /\ w.seen = b.seen /\ w.to = b.to
        /\ w.stayed = b.stayed /\ w.missed = b.missed /\ w.mixed = b.mixed
        /\ ~b.late /\ (\A j \in F : j.ok => j.since) => ~w.late
        /\ b.asked \subseteq w.asked /\ \A j \in F : j.link \in w.asked
    BY <1>2, WalkedFact
  <1>5. ~w.late /\ ~w.missed BY <1>3, <1>4
  <1>6. \A m \in b.stayed : /\ m[1] \in Members /\ links[m[1]] = m[2]
    BY LinkAssumption DEF Job, Members
  <1>7. \A m \in b.stayed : m[1] \in b.seen \union K => m[2] \in w.asked
    BY <1>2, <1>4, <1>6
  <1>8. Todo(b) = Members \ b.seen /\ Members \subseteq Device
        /\ K \in SUBSET Device
    BY DEF Todo, Members, Passable
  <1>9. \/ /\ K = Todo(b) \/ b.mixed
           /\ Decide(k, w, w.left)
           /\ call' = [call EXCEPT ![k] = NoCall]
        \/ \E d \in Todo(b) :
           /\ job' = [job EXCEPT ![k] = Passed(b, F, K, d)]
           /\ call' = [call EXCEPT ![k] =
                        Asked(links[d], device[links[d]], FALSE)]
        \/ /\ job' = [job EXCEPT ![k] = Blank]
           /\ call' = [call EXCEPT ![k] = NoCall]
    BY <1>1 DEF WalkEnds
  <1> HIDE DEF F, w
  <1>a. CASE /\ K = Todo(b) \/ b.mixed
             /\ Decide(k, w, w.left)
             /\ call' = [call EXCEPT ![k] = NoCall]
    <2> DEFINE t == w.left
               e == Decided(w, t)
    <2>1. t \in SUBSET Socket /\ Decide(k, w, t) BY <1>4, <1>a DEF Job
    <2> HIDE DEF t
    <2>2. w \in Job BY <1>4
    <2>3. /\ job' = [job EXCEPT ![k] = Decided(w, t)]
          /\ Decided(w, t) \in Job
          /\ Decided(w, t).step \in {"idle", "push"}
          /\ Decided(w, t).late = w.late
          /\ w.mixed \/ (\A m \in w.stayed : m[2] \in w.asked)
               => ~Decided(w, t).missed
      BY <2>1, <2>2, DecidedFact
    <2>4. w.mixed \/ \A m \in w.stayed : m[2] \in w.asked
      BY <1>4, <1>6, <1>7, <1>8, <1>a
    <2>5. job' = [job EXCEPT ![k] = e] /\ e.step # "check"
          /\ ~e.late /\ ~e.missed
      BY <1>5, <2>3, <2>4
    <2> HIDE DEF e
    <2> QED BY <1>a, <2>5, OneSender
  <1>b. ASSUME NEW d \in Todo(b),
               job' = [job EXCEPT ![k] = Passed(b, F, K, d)],
               call' = [call EXCEPT ![k] =
                         Asked(links[d], device[links[d]], FALSE)]
        PROVE  \A i \in Sender : Accounted(i)'
    <2> DEFINE e == Passed(b, F, K, d)
               v == Asked(links[d], device[links[d]], FALSE)
    <2>1. d \in Device BY <1>8
    <2> DEFINE seen == w.seen \union K \union {d}
    <2>a. e = [w EXCEPT !.seen = seen] BY DEF Passed, w
    <2>b. w \in Job BY <1>4
    <2> HIDE DEF e, seen
    <2>2. /\ e.seen = seen /\ e.to = w.to
          /\ e.stayed = w.stayed /\ e.missed = w.missed
          /\ e.late = w.late /\ e.asked = w.asked
      BY <2>a, <2>b DEF Job
    <2>3. v.link = links[d] BY DEF Asked
    <2>4. ~e.late /\ ~e.missed BY <1>5, <2>2
    <2>5. ASSUME NEW m \in e.stayed
          PROVE  /\ e.to = "all" /\ links[m[1]] = m[2]
                 /\ m[1] \in e.seen => m[2] \in e.asked \union {v.link}
      <3>1. m \in b.stayed /\ e.to = "all" BY <1>4, <2>2
      <3>2. m[1] = d => m[2] = v.link BY <1>6, <2>3, <3>1
      <3>3. m[1] \in b.seen \union K => m[2] \in e.asked BY <1>7, <2>2, <3>1
      <3> QED BY <1>4, <1>6, <2>2, <3>1, <3>2, <3>3 DEF seen
    <2>6. job' = [job EXCEPT ![k] = e] /\ call' = [call EXCEPT ![k] = v]
      BY <1>b DEF e
    <2> HIDE DEF v
    <2> QED BY <2>4, <2>5, <2>6, OneSender
  <1>c. CASE /\ job' = [job EXCEPT ![k] = Blank]
             /\ call' = [call EXCEPT ![k] = NoCall]
    <2>1. ~Blank.late /\ ~Blank.missed /\ Blank.step # "check" BY DEF Blank
    <2> QED BY <1>c, <2>1, OneSender
  <1> QED BY <1>9, <1>a, <1>b, <1>c

LEMMA SendStep ==
  ASSUME LinkInv, SendInv, [Next]_vars PROVE \A i \in Sender : Accounted(i)'
  <1>a. Dated(cache) /\ \A i \in Sender : Accounted(i) BY DEF SendInv
  <1>b. /\ job \in [Sender -> Job]
        /\ links \in [Device -> Socket \union {NoLink}]
        /\ call \in [Caller -> Lookup \union Answer \union {NoCall}]
        /\ cache \in [Device -> Entry \union {NoEntry}]
    BY DEF LinkInv, TypeOK
  <1>c. ASSUME UNCHANGED <<links, job, call>>
        PROVE  \A i \in Sender : Accounted(i)'
    BY <1>a, <1>c DEF Accounted
  <1>d. ASSUME NEW k \in Sender, HasRead(k)
        PROVE  /\ job[k] \in Job /\ job[k].step = "check"
               /\ ~job[k].late /\ ~job[k].missed
               /\ \A m \in job[k].stayed :
                    /\ job[k].to = "all" /\ links[m[1]] = m[2]
                    /\ m[1] \in job[k].seen =>
                         m[2] \in job[k].asked \union {call[k].link}
               /\ call[k] \in Lookup /\ Found(k).link = call[k].link
               /\ Found(k).link \in Socket /\ Found(k).dev \in Device
               /\ device[Found(k).link] \in Device
               /\ Found(k).ok => Found(k).since
    <2>1. k \in Caller BY DEF Caller
    <2>2. /\ call[k] \in Lookup /\ Found(k).link = call[k].link
          /\ Found(k).link \in Socket /\ Found(k).dev \in Device
          /\ device[Found(k).link] \in Device
      BY <1>d, <2>1, ReadFact
    <2>3. Found(k).ok => Found(k).since BY DEF Found
    <2>4. job[k] \in Job /\ job[k].step = "check"
      BY <1>b, <2>2 DEF LinkInv, Waits
    <2> QED BY <1>a, <2>2, <2>3, <2>4 DEF Accounted
  <1>1. CASE StoreNext
    <2>1. ASSUME NEW c \in Caller, StoreReads(c)
          PROVE  \A i \in Sender : Accounted(i)'
      <3>1. PICK r : call' = [call EXCEPT ![c].read = r]
        BY <2>1 DEF StoreReads
      <3>2. UNCHANGED <<links, job>> BY <2>1 DEF StoreReads
      <3>3. \A k \in Sender : call[k] \in Lookup => call'[k].link = call[k].link
        BY <1>b, <3>1 DEF Lookup, Caller
      <3> QED BY <1>a, <3>2, <3>3, OthersKept
    <2> QED BY <1>1, <1>c, <2>1 DEF StoreNext, Approve, Revoke, CacheExpires
  <1>2. ASSUME NEW s \in Socket, SocketNext(s)
        PROVE  \A i \in Sender : Accounted(i)'
    <2>1. \A k \in Sender : k # s /\ k \in Caller
      BY LinkAssumption DEF Caller
    <2>2. \A v, k : call' = [call EXCEPT ![s] = v] /\ k \in Sender =>
            call'[k].link = call[k].link
      BY <1>b, <2>1
    <2>3. ASSUME \/ UNCHANGED <<links, job>> \/ \E d : Pop(d)
                 \/ \E d \in Device : Change([links EXCEPT ![d] = s]),
                 \A k \in Sender : call'[k].link = call[k].link
          PROVE  \A i \in Sender : Accounted(i)'
      <3>1. \A d : [links EXCEPT ![d] = NoLink]
                     \in [Device -> Socket \union {NoLink}]
        BY <1>b
      <3>2. \A d \in Device : [links EXCEPT ![d] = s]
                                \in [Device -> Socket \union {NoLink}]
        BY <1>b
      <3>3. \/ UNCHANGED <<links, job>>
            \/ \E table \in [Device -> Socket \union {NoLink}] : Change(table)
        BY <2>3, <3>1, <3>2 DEF Pop
      <3> QED BY <1>a, <2>3, <3>3, OthersKept
    <2>4. CASE Opens(s) \/ Closes(s) \/ Pings(s)
               \/ \E d \in Device : HelloKnown(s, d) \/ TextKnown(s, d)
      BY <2>3, <2>4 DEF Opens, Closes, PopOwn, Pings, HelloKnown, TextKnown
    <2>5. CASE NamesResumes(s)
      <3>1. HasRead(s) /\ call' = [call EXCEPT ![s] = NoCall]
            /\ \/ UNCHANGED <<links, job>>
               \/ Change([links EXCEPT ![call[s].dev] = s])
        BY <2>5 DEF NamesResumes
      <3>2. call[s].dev \in Device BY <3>1, ReadFact DEF Caller, Lookup
      <3> QED BY <2>2, <2>3, <3>1, <3>2
    <2>6. CASE Resolved(s) \/ \E f \in AnswerFrame : OnAnswer(s, f)
      BY <2>2, <2>3, <2>6 DEF Resolved, OnAnswer
    <2>7. CASE \E d \in Device, h \in BOOLEAN : Names(s, d, h)
      BY <2>2, <2>3, <2>7 DEF Names
    <2> QED BY <1>2, <2>4, <2>5, <2>6, <2>7 DEF SocketNext
  <1>3. CASE PingStarts BY <1>3, <1>c DEF PingStarts
  <1>4. ASSUME NEW k \in Sender, SendNext(k)
        PROVE  \A i \in Sender : Accounted(i)'
    <2>0. k \in Caller BY DEF Caller
    \* A send() to one device decides on one finding.
    <2>a. ASSUME NEW b \in Job, ~b.late, b.stayed = {}, NEW j, j.link \in Socket,
                 j.ok => j.since, NEW E, DecideExact(k, b, j, E),
                 NEW v, call' = [call EXCEPT ![k] = v], links' = links
          PROVE  \A i \in Sender : Accounted(i)'
      <3> DEFINE x == Judged(b, {j})
                 t == IF j.ok \/ j.dev \notin E THEN {j.link} ELSE {}
      <3>1. x \in Job /\ ~x.late /\ x.stayed = {} BY <2>a, JudgedFact
      <3>2. t \in SUBSET Socket /\ Decide(k, x, t) BY <2>a DEF DecideExact
      <3> HIDE DEF x, t
      <3>3. /\ job' = [job EXCEPT ![k] = Decided(x, t)]
            /\ Decided(x, t).step # "check"
            /\ ~Decided(x, t).late /\ ~Decided(x, t).missed
        BY <3>1, <3>2, DecidedFact
      <3> QED BY <1>a, <2>a, <3>3, OneSender
    <2>1. ASSUME NEW d \in Device, SendKnown(k, d)
          PROVE  \A i \in Sender : Accounted(i)'
      <3> DEFINE j == Finding(cache, links[d], device[links[d]])
      <3>1. /\ links[d] \in Socket /\ Known(cache, device[links[d]])
            /\ DecideExact(k, Base(d), j, EverAfter({j}))
            /\ UNCHANGED <<links, call>>
        BY <1>b, <2>1 DEF SendKnown
      <3>2. device[links[d]] \in Device BY <3>1 DEF LinkInv, Named
      <3>3. j.link \in Socket /\ (j.ok => j.since)
        BY <1>a, <1>b, <3>1, <3>2, FindingFact, FindingSince
      <3>4. Base(d) \in Job /\ ~Base(d).late /\ Base(d).stayed = {}
        BY BaseFact
      <3>5. call' = [call EXCEPT ![k] = call[k]] BY <1>b, <2>0, <3>1
      <3> HIDE DEF j
      <3> QED BY <2>a, <3>1, <3>3, <3>4, <3>5
    <2>2. ASSUME NEW d \in Device, SendAsks(k, d)
          PROVE  \A i \in Sender : Accounted(i)'
      <3>1. ~Base(d).late /\ ~Base(d).missed /\ Base(d).stayed = {}
        BY BaseFact
      <3> QED BY <1>a, <2>2, <3>1, OneSender DEF SendAsks
    <2>3. CASE SendResumes(k)
      <3>1. /\ HasRead(k) /\ job[k].to # "all"
            /\ DecideExact(k, job[k], Found(k), EverAfter({Found(k)}))
            /\ call' = [call EXCEPT ![k] = NoCall] /\ links' = links
        BY <2>3 DEF SendResumes
      <3>2. job[k].stayed = {} BY <1>d, <3>1
      <3> QED BY <1>d, <2>a, <3>1, <3>2
    <2>4. CASE BroadcastTorn(k)
      <3>1. ~Blank.late /\ ~Blank.missed /\ Blank.step # "check" BY DEF Blank
      <3> QED BY <1>a, <2>4, <3>1, OneSender DEF BroadcastTorn
    <2>5. CASE BroadcastStarts(k)
      <3>1. Walk(k, BaseAll, cache, {}) /\ links' = links
        BY <2>5 DEF BroadcastStarts
      <3>2. /\ BaseAll \in Job /\ ~BaseAll.late /\ ~BaseAll.missed
            /\ BaseAll.to = "all" /\ BaseAll.seen = {}
            /\ BaseAll.stayed = {<<d, links[d]>> : d \in Members}
        BY BaseAllFact
      <3>3. \A m \in BaseAll.stayed :
              /\ links[m[1]] = m[2] /\ m[1] \notin BaseAll.seen
        BY <3>2
      <3> QED BY <1>a, <1>b, <3>1, <3>2, <3>3, WalkAccount
    <2>6. CASE BroadcastResumes(k)
      <3> DEFINE J == {Found(k)}
      <3>1. /\ HasRead(k) /\ job[k].to = "all"
            /\ Walk(k, job[k], Cached(k), J) /\ links' = links
        BY <2>6 DEF BroadcastResumes
      <3>2. Dated(Cached(k)) BY <1>a, <2>0, <3>1, CachedDated
      <3>3. Cached(k) \in [Device -> Entry \union {NoEntry}]
        BY <2>0, <3>1, ReadFact
      <3>4. \A j \in J : /\ j.link \in Socket /\ j.dev \in Device
                         /\ device[j.link] \in Device
                         /\ j.ok => j.since
        BY <1>d, <3>1
      <3>5. {j.link : j \in J} = {call[k].link} BY <1>d, <3>1
      <3>6. \A m \in job[k].stayed :
              /\ links[m[1]] = m[2]
              /\ m[1] \in job[k].seen =>
                   m[2] \in job[k].asked \union {j.link : j \in J}
        BY <1>d, <3>1, <3>5
      <3>7. job[k] \in Job /\ ~job[k].late /\ ~job[k].missed
        BY <1>d, <3>1
      <3> HIDE DEF J
      <3> QED BY <1>a, <3>1, <3>2, <3>3, <3>4, <3>6, <3>7, WalkAccount
    <2>7. ASSUME NEW l \in Socket, Push(k, l)
          PROVE  \A i \in Sender : Accounted(i)'
      <3> DEFINE b == IF job[k].left = {l} THEN Blank
                      ELSE [job[k] EXCEPT !.left = job[k].left \ {l}]
      <3>1. /\ job[k].step = "push" /\ job[k] \in Job
            /\ UNCHANGED <<links, call>> /\ ~job[k].late /\ ~job[k].missed
        BY <1>a, <1>b, <2>7 DEF Push, conn, Accounted
      <3>2. job' = [job EXCEPT ![k] = b] BY <2>7 DEF Push
      <3>3. call' = [call EXCEPT ![k] = call[k]] BY <1>b, <2>0, <3>1
      <3>4. ~b.late /\ ~b.missed /\ b.step # "check"
        BY <3>1 DEF Blank, Job
      <3> HIDE DEF b
      <3> QED BY <1>a, <3>1, <3>2, <3>3, <3>4, OneSender
    <2> QED BY <1>4, <2>1, <2>2, <2>3, <2>4, <2>5, <2>6, <2>7 DEF SendNext
  <1>5. CASE UNCHANGED vars BY <1>5, <1>c DEF vars
  <1> QED BY <1>1, <1>2, <1>3, <1>4, <1>5 DEF Next

LEMMA SendInvHolds == Spec => []SendInv
  <1>1. Init => SendInv
    BY DEF Init, SendInv, Dated, Accounted, Blank
  <1>2. LinkInv /\ SendInv /\ [Next]_vars => SendInv'
    BY DatedStep, SendStep DEF SendInv, Dated, Accounted
  <1>3. Spec => []LinkInv BY InitLinks, LinkStep, PTL DEF Spec
  <1> QED BY <1>1, <1>2, <1>3, PTL DEF Spec

\* No send() goes by a yes the store had not given since the question's date.
THEOREM LinksRevokeInTime == Spec => []RevocationIsTimely
  <1>1. SendInv => RevocationIsTimely
    BY DEF SendInv, Accounted, RevocationIsTimely
  <1> QED BY <1>1, SendInvHolds, PTL

\* A broadcast that no device entered or left and that gets to its end has
\* asked about every link that was in the table all along.
THEOREM LinksBroadcastToAll == Spec => []BroadcastMissesNobody
  <1>1. SendInv => BroadcastMissesNobody
    BY DEF SendInv, Accounted, BroadcastMissesNobody
  <1> QED BY <1>1, SendInvHolds, PTL

=============================================================================
