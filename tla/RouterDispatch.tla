---------------------------- MODULE RouterDispatch -----------------------------
(***************************************************************************)
(* The dispatch of lmml-router: a request takes a snapshot of the static   *)
(* and the discovered upstreams, probes all of them at once, weighs those  *)
(* that may serve it by their load and by the router's own counters, and   *)
(* is forwarded to the lightest.  Requests overlap; they share the table   *)
(* of discovered nodes and the counters, each behind a mutex.              *)
(*                                                                         *)
(* A node is seen through its answers: a change of its condition between   *)
(* two probes, or between a probe and the call, is a step of its own.      *)
(* Time passes in ticks, only to age the advertisements and the requests.  *)
(***************************************************************************)
EXTENDS Naturals, FiniteSets

CONSTANTS
  Request,       \* the proxied requests, all of one route and model
  Name,          \* names of upstreams
  Static,        \* the names of the configured upstreams
  Rank,          \* the order of the upstreams: static first, then by node id
  Url,           \* base URLs, each that of one node
  StaticUrl,     \* for each static name, its configured URL
  Advert,        \* the advertisements nodes send: [id : Name, url : Url]
  Load,          \* for each node, the running requests it reports
  UnknownLoad,   \* what stands for the load of a node that did not report it
  Ttl,           \* ticks after which an advertisement expires
  ProbeTimeout,  \* ticks a probe may take
  Initial,       \* how nodes may answer at the start
  MaxChanges,    \* bound: how often nodes change their condition
  None           \* no upstream

ASSUME NameAssumption ==
  /\ Static \subseteq Name
  /\ StaticUrl \in [Static -> Url]
  /\ Advert \subseteq [id : Name, url : Url]
  /\ None \notin Name

ASSUME RankAssumption ==
  /\ Rank \in [Name -> Nat]
  /\ \A m, n \in Name : m # n => Rank[m] # Rank[n]
  /\ \A m \in Static, n \in Name \ Static : Rank[m] < Rank[n]

ASSUME LoadAssumption ==
  /\ UnknownLoad \in Nat
  /\ Load \in [Url -> 0..UnknownLoad]

\* A node does not answer; answers that it is loading its model; is ready but
\* demands no key; is ready; is ready but fails to report its load; is ready
\* but lacks the route or the model.  Where approval is enforced, a node that
\* is not approved counts as loading.
Condition == {"Down", "Loading", "Open", "Fit", "Silent", "Unfit"}

ASSUME ConditionAssumption == Initial \subseteq [Url -> Condition]

ASSUME BoundAssumption ==
  /\ {Ttl, ProbeTimeout, MaxChanges} \subseteq Nat
  /\ IsFiniteSet(Request)

VARIABLES
  condition,   \* per node, how it answers
  changes,     \* how often nodes have changed their condition
  table,       \* DiscoveredNodeTable: per node id, its last advertisement and age
  silence,     \* history: per advertisement, the ticks since it was last sent
  stage,       \* per request, what its handler does
  wait,        \* per request, the ticks since it sent its probes
  candidate,   \* per request, its snapshot of the upstreams
  probe,       \* per request and candidate, the answers so far
  left,        \* per request, the candidates min_by_key has not looked at
  best,        \* per request, the candidate chosen so far
  running,     \* RouterCounters::running_by_upstream
  completed,   \* RouterCounters::completed_requests
  failed,      \* RouterCounters::failed_requests
  witnessed,   \* history: per request, the conditions each node had while it probed
  disturbed    \* history: whether a counter moved while the request weighed

nodes == <<condition, changes>>
heard == <<table, silence>>
handler == <<wait, candidate, probe, left, best>>
counters == <<running, completed, failed>>
vars == <<nodes, heard, stage, handler, counters, witnessed, disturbed>>

--------------------------------------------------------------------------------

Ready == {"Open", "Fit", "Silent", "Unfit"}

\* The conditions in which a node can serve a request.
Suitable(discovered) == {"Fit", "Silent"} \union (IF discovered THEN {} ELSE {"Open"})

Upstream == [url : Url, discovered : BOOLEAN]

Stage == {"New", "Probing", "Weighing", "Calling",
          "Completed", "Failed", "Refused", "Dropped", "Abandoned"}

\* The age of an expired advertisement, and a silence longer than any that
\* matters.
Expired == Ttl + 1
Long == Ttl + ProbeTimeout + 1

Health == {"Pending", "Ready", "Bad"}
Capabilities == {"Pending", "Fit", "Open", "Bad"}

NoProbe == [health |-> "Pending", load |-> 0, capabilities |-> "Pending"]

NoCandidates == [n \in Name |-> None]

NoProbes == [n \in Name |-> NoProbe]

NothingWitnessed == [u \in Url |-> {}]

NoBest == [name |-> None, weight |-> 0]

TypeOK ==
  /\ condition \in [Url -> Condition]
  /\ changes \in 0..MaxChanges
  /\ table \in [Name -> [url : Url, age : 0..Expired] \union {None}]
  /\ silence \in [Advert -> 0..Long]
  /\ stage \in [Request -> Stage]
  /\ wait \in [Request -> Nat]
  /\ candidate \in [Request -> [Name -> Upstream \union {None}]]
  /\ probe \in [Request -> [Name ->
       [health : Health, load : 0..UnknownLoad, capabilities : Capabilities]]]
  /\ left \in [Request -> SUBSET Name]
  /\ best \in [Request -> [name : Name \union {None}, weight : Nat]]
  /\ running \in [Name -> Nat]
  /\ completed \in Nat
  /\ failed \in Nat
  /\ witnessed \in [Request -> [Url -> SUBSET Condition]]
  /\ disturbed \in [Request -> BOOLEAN]

Init ==
  /\ condition \in Initial
  /\ changes = 0
  /\ table = [n \in Name |-> None]
  /\ silence = [a \in Advert |-> Long]
  /\ stage = [q \in Request |-> "New"]
  /\ wait = [q \in Request |-> 0]
  /\ candidate = [q \in Request |-> NoCandidates]
  /\ probe = [q \in Request |-> NoProbes]
  /\ left = [q \in Request |-> {}]
  /\ best = [q \in Request |-> NoBest]
  /\ running = [n \in Name |-> 0]
  /\ completed = 0
  /\ failed = 0
  /\ witnessed = [q \in Request |-> NothingWitnessed]
  /\ disturbed = [q \in Request |-> FALSE]

--------------------------------------------------------------------------------
(* The nodes, their advertisements and time. *)

Change(u, c) ==
  /\ changes < MaxChanges
  /\ c # condition[u]
  /\ condition' = [condition EXCEPT ![u] = c]
  /\ changes' = changes + 1
  /\ witnessed' = [q \in Request |->
       IF stage[q] = "Probing" THEN [witnessed[q] EXCEPT ![u] = @ \union {c}] ELSE witnessed[q]]
  /\ UNCHANGED <<heard, stage, handler, counters, disturbed>>

\* record: the listener receives a valid advertisement, which takes the place
\* of the last one of that node id.  One that is lost, and a listener that has
\* stopped, is this step not taken.
Hear(a) ==
  /\ table' = [table EXCEPT ![a.id] = [url |-> a.url, age |-> 0]]
  /\ silence' = [silence EXCEPT ![a] = 0]
  /\ UNCHANGED <<nodes, stage, handler, counters, witnessed, disturbed>>

Lesser(a, b) == IF a < b THEN a ELSE b

\* No probe takes longer than its timeout, and to weigh takes no time.
Tick ==
  /\ \A q \in Request : stage[q] # "Weighing"
  /\ \A q \in Request : stage[q] = "Probing" => wait[q] < ProbeTimeout
  /\ wait' = [q \in Request |-> IF stage[q] = "Probing" THEN wait[q] + 1 ELSE wait[q]]
  /\ table' = [n \in Name |->
       IF table[n] = None THEN None
       ELSE [table[n] EXCEPT !.age = Lesser(@ + 1, Expired)]]
  /\ silence' = [a \in Advert |-> Lesser(silence[a] + 1, Long)]
  /\ UNCHANGED <<nodes, stage, candidate, probe, left, best, counters, witnessed, disturbed>>

--------------------------------------------------------------------------------
(* effective_upstreams and the probes. *)

Live(n) == table[n] # None /\ table[n].age <= Ttl

EffectiveUpstreams(n) ==
  IF n \in Static THEN [url |-> StaticUrl[n], discovered |-> FALSE]
  ELSE IF Live(n) THEN [url |-> table[n].url, discovered |-> TRUE]
  ELSE None

\* The request has been read and parsed: discover_upstreams prunes the table,
\* takes the snapshot and sends the probes.
Discover(q) ==
  /\ stage[q] = "New"
  /\ stage' = [stage EXCEPT ![q] = "Probing"]
  /\ table' = [n \in Name |-> IF Live(n) THEN table[n] ELSE None]
  /\ candidate' = [candidate EXCEPT ![q] = [n \in Name |-> EffectiveUpstreams(n)]]
  /\ witnessed' = [witnessed EXCEPT ![q] = [u \in Url |-> {condition[u]}]]
  /\ UNCHANGED <<nodes, silence, wait, probe, left, best, counters, disturbed>>

Candidates(q) == {n \in Name : candidate[q][n] # None}

Node(q, n) == candidate[q][n].url

Probes(q, n) == stage[q] = "Probing" /\ n \in Candidates(q)

\* The load of a node as its probe finds it.
Reported(u) == IF condition[u] \in {"Down", "Silent"} THEN UnknownLoad ELSE Load[u]

\* The health and load probes: the node answers, refuses or lets the deadline
\* pass.
HealthAnswers(q, n) ==
  /\ Probes(q, n)
  /\ probe[q][n].health = "Pending"
  /\ probe' = [probe EXCEPT ![q][n] =
       [health |-> IF condition[Node(q, n)] \in Ready THEN "Ready" ELSE "Bad",
        load |-> Reported(Node(q, n)),
        capabilities |-> @.capabilities]]
  /\ UNCHANGED <<nodes, heard, stage, wait, candidate, left, best, counters, witnessed, disturbed>>

\* What a node reports of its capabilities, with or without a loaded model.
Capability(c) ==
  CASE c = "Open" -> "Open"
    [] c \in {"Fit", "Silent", "Loading"} -> "Fit"
    [] c \in {"Down", "Unfit"} -> "Bad"

\* The capabilities probe.
CapabilitiesAnswer(q, n) ==
  /\ Probes(q, n)
  /\ probe[q][n].capabilities = "Pending"
  /\ probe' = [probe EXCEPT ![q][n] =
       [health |-> @.health,
        load |-> @.load,
        capabilities |-> Capability(condition[Node(q, n)])]]
  /\ UNCHANGED <<nodes, heard, stage, wait, candidate, left, best, counters, witnessed, disturbed>>

--------------------------------------------------------------------------------
(* select_upstream: the filters, and the minimum over what passes them. *)

\* Mutant: a node whose load is not known is not routable.
RoutableLoaded(q, n) ==
  /\ probe[q][n].health = "Ready"
  /\ \/ probe[q][n].capabilities = "Fit"
     \/ probe[q][n].capabilities = "Open" /\ ~candidate[q][n].discovered
  /\ probe[q][n].load < UnknownLoad

\* is_ready and route_supported: the node is ready, serves the route and, if it
\* was discovered, demands the key.
Routable(q, n) ==
  /\ probe[q][n].health = "Ready"
  /\ \/ probe[q][n].capabilities = "Fit"
     \/ probe[q][n].capabilities = "Open" /\ ~candidate[q][n].discovered

\* All probes have answered or timed out.
Filter(q) ==
  /\ stage[q] = "Probing"
  /\ \A n \in Candidates(q) :
       probe[q][n].health # "Pending" /\ probe[q][n].capabilities # "Pending"
  /\ stage' = [stage EXCEPT ![q] = "Weighing"]
  /\ left' = [left EXCEPT ![q] = {n \in Candidates(q) : Routable(q, n)}]
  /\ UNCHANGED <<nodes, heard, wait, candidate, probe, best, counters, witnessed, disturbed>>

Weight(q, n) == probe[q][n].load + running[n]

\* min_by_key looks at the candidates in their order, takes the lock of the
\* counters for each, and keeps the first of the lightest.
Weigh(q, n) ==
  /\ stage[q] = "Weighing"
  /\ n \in left[q]
  /\ \A m \in left[q] : Rank[n] <= Rank[m]
  /\ left' = [left EXCEPT ![q] = @ \ {n}]
  /\ best' = [best EXCEPT ![q] =
       IF @.name = None \/ Weight(q, n) < @.weight
       THEN [name |-> n, weight |-> Weight(q, n)] ELSE @]
  /\ UNCHANGED <<nodes, heard, stage, wait, candidate, probe, counters, witnessed, disturbed>>

\* The probes are used up, or dropped with the handler.
Forget(q) ==
  /\ wait' = [wait EXCEPT ![q] = 0]
  /\ candidate' = [candidate EXCEPT ![q] = NoCandidates]
  /\ probe' = [probe EXCEPT ![q] = NoProbes]
  /\ witnessed' = [witnessed EXCEPT ![q] = NothingWitnessed]
  /\ UNCHANGED <<left, best>>

\* no_routable_upstream
Refuse(q) ==
  /\ stage[q] = "Weighing"
  /\ left[q] = {}
  /\ best[q].name = None
  /\ stage' = [stage EXCEPT ![q] = "Refused"]
  /\ Forget(q)
  /\ disturbed' = [disturbed EXCEPT ![q] = FALSE]
  /\ UNCHANGED <<nodes, heard, counters>>

--------------------------------------------------------------------------------
(* call_upstream. *)

\* The other requests that are weighing see q move a counter.
Disturb(q) == disturbed' = [r \in Request |-> r # q /\ stage[r] = "Weighing"]

\* increment_router_running, and the request goes out.
Call(q) ==
  /\ stage[q] = "Weighing"
  /\ left[q] = {}
  /\ best[q].name # None
  /\ stage' = [stage EXCEPT ![q] = "Calling"]
  /\ running' = [running EXCEPT ![best[q].name] = @ + 1]
  /\ Forget(q)
  /\ Disturb(q)
  /\ UNCHANGED <<nodes, heard, completed, failed>>

\* Mutant: an error takes its call off the running ones once more.
FinishTwice(q, success) ==
  /\ stage[q] = "Calling"
  /\ stage' = [stage EXCEPT ![q] = IF success THEN "Completed" ELSE "Failed"]
  /\ running' = [running EXCEPT ![best[q].name] = IF success THEN @ - 1 ELSE @ - 2]
  /\ completed' = IF success THEN completed + 1 ELSE completed
  /\ failed' = IF success THEN failed ELSE failed + 1
  /\ Forget(q)
  /\ Disturb(q)
  /\ UNCHANGED <<nodes, heard>>

\* finish_router_request: the upstream answered, failed or timed out.
Finish(q, success) ==
  /\ stage[q] = "Calling"
  /\ stage' = [stage EXCEPT ![q] = IF success THEN "Completed" ELSE "Failed"]
  /\ running' = [running EXCEPT ![best[q].name] = IF @ > 0 THEN @ - 1 ELSE 0]
  /\ completed' = IF success THEN completed + 1 ELSE completed
  /\ failed' = IF success THEN failed ELSE failed + 1
  /\ Forget(q)
  /\ Disturb(q)
  /\ UNCHANGED <<nodes, heard>>

\* The client goes away and the handler is dropped where it waits; after the
\* increment nothing takes it back.
Drop(q) ==
  /\ stage[q] \in {"Probing", "Calling"}
  /\ stage' = [stage EXCEPT ![q] = IF @ = "Probing" THEN "Dropped" ELSE "Abandoned"]
  /\ Forget(q)
  /\ UNCHANGED <<nodes, heard, counters, disturbed>>

--------------------------------------------------------------------------------

Handler(q) ==
  \/ Discover(q)
  \/ \E n \in Name :
       \/ HealthAnswers(q, n)
       \/ CapabilitiesAnswer(q, n)
       \/ Weigh(q, n)
  \/ Filter(q)
  \/ Refuse(q)
  \/ Call(q)
  \/ \E success \in BOOLEAN : Finish(q, success)
  \/ Drop(q)

Next ==
  \/ \E u \in Url, c \in Condition : Change(u, c)
  \/ \E a \in Advert : Hear(a)
  \/ Tick
  \/ \E q \in Request : Handler(q)

Spec == Init /\ [][Next]_vars

--------------------------------------------------------------------------------
(* Properties. *)

\* However requests overlap, fail and are dropped, the counter of an upstream
\* is the number of requests being forwarded to it plus those that were dropped
\* while they were, and the totals are those of the requests that ended.
CountersExact ==
  /\ \A n \in Name :
       running[n] = Cardinality({q \in Request :
                      stage[q] \in {"Calling", "Abandoned"} /\ best[q].name = n})
  /\ completed = Cardinality({q \in Request : stage[q] = "Completed"})
  /\ failed = Cardinality({q \in Request : stage[q] = "Failed"})

\* The requests about to be forwarded, and their upstream.
Chosen == {q \in Request : stage[q] = "Weighing" /\ left[q] = {} /\ best[q].name # None}

Target(q) == candidate[q][best[q].name]

\* "Static upstreams win over discovered upstreams on name collisions" and
\* discovered nodes expire: a request goes to a static upstream at its
\* configured URL or to a node that advertised itself, under that name and at
\* that URL, no longer ago than the expiry and the probes take.
RoutedKnown ==
  \A q \in Chosen :
    IF best[q].name \in Static
    THEN Target(q) = [url |-> StaticUrl[best[q].name], discovered |-> FALSE]
    ELSE silence[[id |-> best[q].name, url |-> Target(q).url]] <= Ttl + ProbeTimeout

\* Discovery only supplies candidates: a request goes to a node that, at some
\* moment since the request was received, was ready and, at some such moment,
\* served the route and, if discovered, demanded the key.
RoutedVerified ==
  \A q \in Chosen :
    /\ witnessed[q][Target(q).url] \intersect Ready # {}
    /\ witnessed[q][Target(q).url] \intersect (Suitable(Target(q).discovered) \union {"Loading"}) # {}

\* A request is refused only if none of its candidates could serve it all the
\* while it probed: no failing, slow or silent node keeps it from a good one.
SteadyServes ==
  [][\A q \in Request : stage[q] = "Weighing" /\ stage'[q] = "Refused" =>
       \A n \in Candidates(q) :
         ~(witnessed[q][Node(q, n)] \subseteq Suitable(candidate[q][n].discovered))]_vars

\* "Least-loaded ready workers are preferred": unless a counter moved while the
\* request weighed, it goes to a lightest of the nodes that may serve it, and a
\* node of unknown load comes last.
LightestChosen ==
  \A q \in Chosen : ~disturbed[q] =>
    \A n \in Candidates(q) : Routable(q, n) => Weight(q, best[q].name) <= Weight(q, n)

\* The requests that are being forwarded to an upstream.
InFlight(n) == {q \in Request : stage[q] = "Calling" /\ best[q].name = n}

\* "use node load plus router in-flight counters for conservative balancing":
\* the same by the requests that really are in flight.
LeastBusyChosen ==
  \A q \in Chosen : ~disturbed[q] =>
    \A n \in Candidates(q) : Routable(q, n) =>
      probe[q][best[q].name].load + Cardinality(InFlight(best[q].name))
        <= probe[q][n].load + Cardinality(InFlight(n))

================================================================================
