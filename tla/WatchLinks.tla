----------------------------- MODULE WatchLinks -----------------------------
(***************************************************************************)
(* Who is connected, under which name, and who gets a message: the link    *)
(* table, the pairing cache and the delivery path of HermesWatchAdapter    *)
(* (bridge/hermes_watch/platform.py), with the frame validation of         *)
(* protocol.py.                                                            *)
(*                                                                         *)
(* A step runs from one await to the next.  The awaits that matter are the *)
(* pairing look-up in a worker thread (`call') and each send on a socket.  *)
(* A look-up answered by configuration or by a fresh cache entry does not  *)
(* await.                                                                  *)
(*                                                                         *)
(* There is no clock.  A reading of the pairing store is dated when it is  *)
(* asked for, and `fresh' says that its date is less than PAIRING_CACHE_S  *)
(* old.  The history field `since' of a yes says that the store did        *)
(* approve the device at a moment from that date on; of an expired entry,  *)
(* at a moment since it expired.                                           *)
(***************************************************************************)
EXTENDS FiniteSets, Naturals

CONSTANTS
  Socket,     \* WebSockets; each stands for one _WatchLink object at a time
  Device,     \* device ids
  IdsOf,      \* IdsOf[s]: the ids the client behind socket s may use
  UrlOf,      \* UrlOf[s]: the device its URL names, or NoDevice
  Allowed,    \* the devices configuration authorizes without pairing
  Sender,     \* concurrent calls of send()
  Scope,      \* APPROVAL_CHOICES
  Chip,       \* answers a question may offer that are not approval scopes
  NoLink, NoDevice, NoEntry, NoCall

ASSUME LinkAssumption ==
  /\ IdsOf \in [Socket -> SUBSET Device]
  /\ \A s \in Socket : UrlOf[s] \in IdsOf[s] \union {NoDevice}
  /\ IsFiniteSet(Device) /\ Allowed \subseteq Device
  /\ NoLink \notin Socket /\ NoDevice \notin Device
  /\ Socket \cap Sender = {}
  /\ "all" \notin Device
  /\ Chip \cap (Scope \union {"reply", "cancel"}) = {}

\* The clients that never change their name, as the watch app does not.
Steady == {s \in Socket : \A d, e \in IdsOf[s] : d = e}

Caller == Socket \union Sender
Reply  == {"reply", "cancel"}
Entry  == [ok : BOOLEAN, fresh : BOOLEAN, since : BOOLEAN]
Lookup == [link : Socket, dev : Device, read : {"asked", "yes", "no"},
           hello : BOOLEAN]
Judgement == [link : Socket, dev : Device, ok : BOOLEAN, since : BOOLEAN]
Answer == [answers : Device]
Job    == [step : {"idle", "check", "push"}, to : Device \union {"all"},
           size : Nat, seen : SUBSET Device, left : SUBSET Socket,
           stayed : SUBSET (Device \X Socket), asked : SUBSET Socket,
           mixed : BOOLEAN, late : BOOLEAN, missed : BOOLEAN]

ASSUME MarkerAssumption ==
  NoEntry \notin Entry /\ NoCall \notin Lookup \union Answer

VARIABLES
  approved,  \* the pairing store: the devices Hermes has approved
  cache,     \* self._approval_cache
  ever,      \* self._ever_authorized
  open,      \* the sockets whose read loop has not ended
  device,    \* link.device_id
  flag,      \* link.authorized
  links,     \* self._links
  call,      \* the pairing look-up a read loop or a send() waits for
  job,       \* where each send() is
  ping       \* the links of the ping loop's list still to be pinged

store == <<approved, cache, ever>>
conn  == <<open, device, flag>>
vars  == <<store, conn, links, call, job, ping>>

Blank == [step |-> "idle", to |-> "all", size |-> 0, seen |-> {},
          left |-> {}, stayed |-> {}, asked |-> {}, mixed |-> FALSE,
          late |-> FALSE, missed |-> FALSE]

Init ==
  /\ approved = {} /\ ever = {}
  /\ cache = [d \in Device |-> NoEntry]
  /\ open = {}
  /\ device = [s \in Socket |-> NoDevice]
  /\ flag = [s \in Socket |-> FALSE]
  /\ links = [d \in Device |-> NoLink]
  /\ call = [c \in Caller |-> NoCall]
  /\ job = [k \in Sender |-> Blank]
  /\ ping = {}

-----------------------------------------------------------------------------
(* The pairing store and the look-up, _is_authorized.  The store is never  *)
(* asked about a device in Allowed, so it does not matter what it says.    *)

\* c waits for a look-up, or for resolve().
Asks(c)    == call[c] # NoCall /\ "link" \in DOMAIN call[c]
Answers(c) == call[c] # NoCall /\ "answers" \in DOMAIN call[c]

Approve(d) ==
  /\ d \notin approved \union Allowed
  /\ approved' = approved \union {d}
  /\ cache' = IF cache[d] = NoEntry THEN cache
                                    ELSE [cache EXCEPT ![d].since = cache[d].ok]
  /\ UNCHANGED <<ever, conn, links, call, job, ping>>

Revoke(d) ==
  /\ d \in approved
  /\ approved' = approved \ {d}
  /\ UNCHANGED <<cache, ever, conn, links, call, job, ping>>

\* PAIRING_CACHE_S after its date an entry stops counting.
CacheExpires(d) ==
  /\ cache[d] # NoEntry /\ cache[d].fresh
  /\ cache' = [cache EXCEPT ![d].fresh = FALSE,
                               ![d].since = cache[d].ok /\ d \in approved]
  /\ UNCHANGED <<approved, ever, conn, links, call, job, ping>>

\* With cache C, d is looked up without an await ...
Known(C, d) == d \in Allowed \/ (C[d] # NoEntry /\ C[d].fresh)
\* ... and this is what is found.
Finding(C, l, d) ==
  [link |-> l, dev |-> d, ok |-> d \in Allowed \/ C[d].ok,
   since |-> d \in Allowed \/ C[d].since]

\* Mutant: the question is about the id the link had before.
AskedForOldId(l, d, hello) ==
  [link |-> l, dev |-> IF d \in Device THEN device[l] ELSE d,
   read |-> "asked", hello |-> hello]

\* Otherwise the caller waits for a worker thread.
Asked(l, d, hello) ==
  [link |-> l, dev |-> d, read |-> "asked", hello |-> hello]

\* The thread reads the store; an unreadable store means no.
StoreReads(c) ==
  /\ Asks(c) /\ call[c].read = "asked"
  /\ \E yes \in {FALSE, call[c].dev \in approved} :
       call' = [call EXCEPT ![c].read = IF yes THEN "yes" ELSE "no"]
  /\ UNCHANGED <<store, conn, links, job, ping>>

HasRead(c) == Asks(c) /\ call[c].read # "asked"

Found(c) == [link |-> call[c].link, dev |-> call[c].dev,
             ok |-> call[c].read = "yes", since |-> call[c].read = "yes"]

\* Mutant: the entry is dated when the answer arrives.
CachedWhenRead(c) ==
  [cache EXCEPT ![call[c].dev] =
     [ok |-> call[c].read = "yes", fresh |-> TRUE,
      since |-> call[c].read = "yes" /\ call[c].dev \in approved]]

\* The entry carries the date of the question: it may expire at once.
Cached(c) ==
  [cache EXCEPT ![call[c].dev] = [ok |-> call[c].read = "yes", fresh |-> TRUE,
                                  since |-> call[c].read = "yes"]]

\* What findings J leave in _ever_authorized and, as link.authorized, in F.
EverAfter(J) == ever \union {j.dev : j \in {i \in J : i.ok}}
FlagsAfter(F, J) == [s \in Socket |-> IF \E j \in J : j.link = s
                                      THEN \E j \in J : j.link = s /\ j.ok
                                      ELSE F[s]]

-----------------------------------------------------------------------------
(* Sockets: _handle_watch and the frames that change who is who.           *)

Members == {d \in Device : links[d] # NoLink}

\* Every send() inside its iteration over _links sees the table change: it is
\* mixed from the first key that enters or leaves; a value that is replaced
\* under its key leaves the order of a dictionary alone.
Change(table) ==
  /\ links' = table
  /\ job' = [k \in Sender |->
       IF job[k].step # "check" THEN job[k]
       ELSE [job[k] EXCEPT !.seen = {d \in @ : table[d] # NoLink},
                           !.stayed = {m \in @ : table[m[1]] = m[2]},
                           !.mixed = @ \/ {d \in Device : table[d] # NoLink}
                                            # Members]]

\* No table entry, ping or look-up of another coroutine leads to s.
Forgotten(s) == /\ \A d \in Device : links[d] # s
                /\ \A c \in Caller : Asks(c) => call[c].link # s
                /\ \A k \in Sender : s \notin job[k].left \union job[k].asked
                /\ s \notin ping

\* A new socket is a new object, so s stands for it once the former object is
\* forgotten.
Opens(s) ==
  /\ s \notin open /\ Forgotten(s)
  /\ open' = open \union {s}
  /\ device' = [device EXCEPT ![s] = UrlOf[s]]
  /\ flag' = [flag EXCEPT ![s] = FALSE]
  /\ UNCHANGED <<store, links, call, job, ping>>

\* Between two frames.
Reading(s) == s \in open /\ call[s] = NoCall

Pop(d) == Change([links EXCEPT ![d] = NoLink])

\* Mutant: the finally clause pops by device id, whoever is registered.
PopAny(s) == IF device[s] # NoDevice THEN Pop(device[s])
                                     ELSE UNCHANGED <<links, job>>
\* Mutant: no finally clause.
PopNone(s) == s \in Socket /\ UNCHANGED <<links, job>>

\* The finally clause drops the socket's own entry only.
PopOwn(s) == IF device[s] # NoDevice /\ links[device[s]] = s
             THEN Pop(device[s]) ELSE UNCHANGED <<links, job>>

\* The read loop ends.  The fields of an object that is forgotten do not
\* matter; they are reset so that equal situations are equal states.
Closes(s) ==
  /\ Reading(s)
  /\ open' = open \ {s}
  /\ PopOwn(s)
  /\ UNCHANGED <<store, call, ping>>
  /\ device' = IF Forgotten(s)' THEN [device EXCEPT ![s] = NoDevice]
                                ELSE device
  /\ flag' = IF Forgotten(s)' THEN [flag EXCEPT ![s] = FALSE] ELSE flag

\* _on_hello when the look-up does not await.
HelloKnown(s, d) ==
  /\ Reading(s) /\ d \in IdsOf[s] /\ Known(cache, d)
  /\ LET J == {Finding(cache, s, d)} IN
       ever' = EverAfter(J) /\ flag' = FlagsAfter(flag, J)
  /\ device' = [device EXCEPT ![s] = d]
  /\ Change([links EXCEPT ![d] = s])
  /\ UNCHANGED <<approved, cache, open, call, ping>>

\* _on_hello, or the first text of a socket without a name, when it does.
Names(s, d, hello) ==
  /\ Reading(s) /\ d \in IdsOf[s] /\ ~Known(cache, d)
  /\ hello \/ device[s] = NoDevice
  /\ device' = [device EXCEPT ![s] = d]
  /\ call' = [call EXCEPT ![s] = Asked(s, d, hello)]
  /\ UNCHANGED <<store, open, flag, links, job, ping>>

\* A hello enters the table after its look-up, a text does not.
NamesResumes(s) ==
  /\ HasRead(s)
  /\ cache' = Cached(s)
  /\ ever' = EverAfter({Found(s)}) /\ flag' = FlagsAfter(flag, {Found(s)})
  /\ call' = [call EXCEPT ![s] = NoCall]
  /\ IF call[s].hello THEN Change([links EXCEPT ![call[s].dev] = s])
                      ELSE UNCHANGED <<links, job>>
  /\ UNCHANGED <<approved, open, device, ping>>

TextKnown(s, d) ==
  /\ Reading(s) /\ d \in IdsOf[s] /\ device[s] = NoDevice
  /\ Known(cache, d)
  /\ LET J == {Finding(cache, s, d)} IN
       ever' = EverAfter(J) /\ flag' = FlagsAfter(flag, J)
  /\ device' = [device EXCEPT ![s] = d]
  /\ UNCHANGED <<approved, cache, open, links, call, job, ping>>

\* validation_error: an answer names a request and a known choice.
Valid(frame) == frame.id /\ frame.choice \in Scope \union Reply

\* _on_answer: the flag is not read again.  The read loop is inside resolve()
\* until it returns.
OnAnswer(s, frame) ==
  /\ Reading(s) /\ Valid(frame) /\ flag[s]
  /\ call' = [call EXCEPT ![s] = [answers |-> device[s]]]
  /\ UNCHANGED <<store, conn, links, job, ping>>

Resolved(s) ==
  /\ Answers(s)
  /\ call' = [call EXCEPT ![s] = NoCall]
  /\ UNCHANGED <<store, conn, links, job, ping>>

\* What link.send may return; the peer of an open socket may be gone.
Takes(s) == IF s \in open THEN BOOLEAN ELSE {FALSE}

PingStarts ==
  /\ ping = {}
  /\ ping' = {links[d] : d \in Device} \ {NoLink}
  /\ ping' # {}
  /\ UNCHANGED <<store, conn, links, call, job>>

\* A failed ping pops whatever is registered under the link's device id.
Pings(s) ==
  /\ s \in ping
  /\ ping' = ping \ {s}
  /\ \E took \in Takes(s) :
       IF took THEN UNCHANGED <<links, job>> ELSE Pop(device[s])
  /\ UNCHANGED <<store, conn, call>>

-----------------------------------------------------------------------------
(* send().                                                                 *)

Base(to) == [Blank EXCEPT !.to = to, !.step = "check"]
BaseAll  == [Base("all") EXCEPT !.size = Cardinality(Members),
                                !.stayed = {<<d, links[d]>> : d \in Members}]

\* History: b with the findings J; a target's approval may be out of date.
Judged(b, J) == [b EXCEPT !.asked = @ \union {j.link : j \in J},
                          !.late = @ \/ \E j \in J : j.ok /\ ~j.since]

\* The targets are known; with none the caller is told 503.
Decide(k, b, targets) ==
  job' = [job EXCEPT ![k] =
           [Blank EXCEPT !.step = IF targets = {} THEN "idle" ELSE "push",
                         !.to = b.to, !.left = targets, !.late = b.late,
                         !.missed = /\ ~b.mixed
                                    /\ \E m \in b.stayed : m[2] \notin b.asked]]

Free(k) == job[k].step = "idle"

\* A device that was authorized once and is not now gets nothing; a device
\* that never was gets what is addressed to it, its pairing code.
DecideExact(k, b, j, E) ==
  Decide(k, Judged(b, {j}),
         IF j.ok \/ j.dev \notin E THEN {j.link} ELSE {})

SendKnown(k, d) ==
  /\ Free(k) /\ links[d] # NoLink /\ Known(cache, device[links[d]])
  /\ LET j == Finding(cache, links[d], device[links[d]]) IN
       /\ ever' = EverAfter({j}) /\ flag' = FlagsAfter(flag, {j})
       /\ DecideExact(k, Base(d), j, EverAfter({j}))
  /\ UNCHANGED <<approved, cache, open, device, links, call, ping>>

SendAsks(k, d) ==
  /\ Free(k) /\ links[d] # NoLink /\ ~Known(cache, device[links[d]])
  /\ job' = [job EXCEPT ![k] = Base(d)]
  /\ call' = [call EXCEPT ![k] = Asked(links[d], device[links[d]], FALSE)]
  /\ UNCHANGED <<store, conn, links, ping>>

SendResumes(k) ==
  /\ HasRead(k) /\ job[k].to # "all"
  /\ cache' = Cached(k)
  /\ ever' = EverAfter({Found(k)}) /\ flag' = FlagsAfter(flag, {Found(k)})
  /\ DecideExact(k, job[k], Found(k), EverAfter({Found(k)}))
  /\ call' = [call EXCEPT ![k] = NoCall]
  /\ UNCHANGED <<approved, open, device, links, ping>>

\* Mutant: only links that were authorized already are asked about.
TodoAuthorized(b) == {d \in Members \ b.seen : flag[links[d]]}

Todo(b) == Members \ b.seen

\* From here to the next await the iteration over _links passes members with
\* a known answer, and stops at its end or at a member to be looked up.  C is
\* the cache, J what this step has found so far.  Once the table is mixed, an
\* insertion may have rebuilt it: the iteration may pass over members or raise
\* "dictionary keys changed" at any point.
Walk(k, b, C, J) ==
  LET todo     == Todo(b)
      known    == {d \in todo : Known(C, device[links[d]])}
      all(K)   == J \union {Finding(C, links[d], device[links[d]]) : d \in K}
      after(K) == [Judged(b, all(K)) EXCEPT
                     !.left = @ \union {j.link : j \in {i \in all(K) : i.ok}}]
  IN \E K \in SUBSET known :
       /\ ever' = EverAfter(all(K))
       /\ flag' = FlagsAfter(FlagsAfter(flag, J), all(K) \ J)
       /\ \/ /\ K = todo \/ b.mixed
             /\ Decide(k, after(K), after(K).left)
             /\ call' = [call EXCEPT ![k] = NoCall]
          \/ \E d \in todo \ known :
             /\ job' = [job EXCEPT ![k] =
                         [after(K) EXCEPT !.seen = @ \union K \union {d}]]
             /\ call' = [call EXCEPT ![k] =
                          Asked(links[d], device[links[d]], FALSE)]
          \/ /\ b.mixed
             /\ job' = [job EXCEPT ![k] = Blank]
             /\ call' = [call EXCEPT ![k] = NoCall]

BroadcastStarts(k) ==
  /\ Free(k)
  /\ Walk(k, BaseAll, cache, {})
  /\ UNCHANGED <<approved, cache, open, device, links, ping>>

BroadcastResumes(k) ==
  /\ HasRead(k) /\ job[k].to = "all"
  /\ Cardinality(Members) = job[k].size
  /\ cache' = Cached(k) /\ Walk(k, job[k], Cached(k), {Found(k)})
  /\ UNCHANGED <<approved, open, device, links, ping>>

\* "dictionary changed size during iteration": send() raises before it has
\* looked at another link.
BroadcastTorn(k) ==
  /\ HasRead(k) /\ job[k].to = "all"
  /\ Cardinality(Members) # job[k].size
  /\ cache' = Cached(k)
  /\ ever' = EverAfter({Found(k)}) /\ flag' = FlagsAfter(flag, {Found(k)})
  /\ job' = [job EXCEPT ![k] = Blank]
  /\ call' = [call EXCEPT ![k] = NoCall]
  /\ UNCHANGED <<approved, open, device, links, ping>>

\* One target after the other.
Push(k, l) ==
  /\ job[k].step = "push" /\ l \in job[k].left
  /\ job' = [job EXCEPT ![k] = IF job[k].left = {l} THEN Blank
                               ELSE [job[k] EXCEPT !.left = @ \ {l}]]
  /\ UNCHANGED <<store, conn, links, call, ping>>

-----------------------------------------------------------------------------

AnswerFrame == [id : BOOLEAN, choice : Scope \union Reply \union Chip]

StoreNext == \/ \E d \in Device : Approve(d) \/ Revoke(d) \/ CacheExpires(d)
             \/ \E c \in Caller : StoreReads(c)

SocketNext(s) ==
  \/ Opens(s) \/ Closes(s) \/ NamesResumes(s) \/ Resolved(s) \/ Pings(s)
  \/ \E d \in Device : \/ HelloKnown(s, d) \/ TextKnown(s, d)
                       \/ \E hello \in BOOLEAN : Names(s, d, hello)
  \/ \E frame \in AnswerFrame : OnAnswer(s, frame)

SendNext(k) ==
  \/ \E d \in Device : SendKnown(k, d) \/ SendAsks(k, d)
  \/ SendResumes(k)
  \/ BroadcastStarts(k) \/ BroadcastResumes(k) \/ BroadcastTorn(k)
  \/ \E l \in Socket : Push(k, l)

Next == \/ StoreNext
        \/ \E s \in Socket : SocketNext(s)
        \/ PingStarts
        \/ \E k \in Sender : SendNext(k)

Spec == Init /\ [][Next]_vars

-----------------------------------------------------------------------------
(* Properties.                                                             *)

TypeOK ==
  /\ approved \subseteq Device /\ ever \subseteq Device
  /\ cache \in [Device -> Entry \union {NoEntry}]
  /\ open \subseteq Socket
  /\ device \in [Socket -> Device \union {NoDevice}]
  /\ flag \in [Socket -> BOOLEAN]
  /\ links \in [Device -> Socket \union {NoLink}]
  /\ call \in [Caller -> Lookup \union Answer \union {NoCall}]
  /\ job \in [Sender -> Job]
  /\ ping \subseteq Socket

\* An entry of _links whose key is the id its link uses now leads to a socket
\* that is read, so that somebody will clean it up: neither a look-up that
\* returns late, nor a second hello, nor another socket's end or failed ping
\* leaves one behind.  Only an entry under an id its client has given up may
\* be without a reader, and a client that keeps its name leaves none.
TableIsRead ==
  \A d \in Device : links[d] # NoLink =>
    /\ device[links[d]] = d => links[d] \in open
    /\ links[d] \in Steady => device[links[d]] = d

\* Whatever races to fill the cache, a device counts as paired only if the
\* store approved it at some moment of the last PAIRING_CACHE_S, counted
\* from when the question was asked (platform.py:952-954).
RevocationIsTimely ==
  \A k \in Sender : ~job[k].late

\* A broadcast that no device entered or left meanwhile has, when it ends with
\* a list of targets, asked about every link that was in the table all along,
\* whichever entries were replaced under their keys or found revoked in the
\* meantime.  (Otherwise it may raise or pass over some: Walk, BroadcastTorn.)
BroadcastMissesNobody == \A k \in Sender : ~job[k].missed

\* The link of a connected watch is dropped only by its own read loop, by a
\* later hello under its name, or by the failed ping of a link of the same
\* device: an older socket that ends leaves a newer one alone
\* (platform.py:425).
NewerLinkStays ==
  [][\A d \in Device :
       LET s == links[d] IN
       s # NoLink /\ links'[d] # s =>
         \/ s \in open \ open'
         \/ links'[d] # NoLink
         \/ \E l \in ping \ ping' : device[l] = d]_vars
=============================================================================
