---------------------------- MODULE RouterCatalog -----------------------------
(***************************************************************************)
(* What lmml-router offers its clients: it is configured with upstreams    *)
(* and their keys, and answers /v1/models, /v1/capabilities, /v1/load and  *)
(* /v1/health from the probes of its nodes.  A client that read one of     *)
(* them sends a request for a model that it saw there.                     *)
(***************************************************************************)
EXTENDS Naturals, Sequences, FiniteSets, FiniteSetsExt

CONSTANTS
  NodeName,     \* names that upstream nodes and their keys may be given under
  KeyText,      \* bearer keys
  Specs,        \* the --upstream arguments: sequences of [name, valid]
  KeySpecs,     \* the --upstream-key arguments: sequences of [name, key]
  Model,        \* ids of models
  Names,        \* for each model, the texts a request may name it by
  Answers,      \* what a node may answer to the probes of the router
  RouterRoute,  \* the routes that are forwarded
  MaxReprobes,  \* bound on the changes of the answers
  NoKey         \* no key

VARIABLES
  routerArgs,   \* [specs, keys, discover, lan, secured]: the arguments given
  routerState,  \* "starting", "serving" or "failed"
  configured,   \* RouterConfig::upstreams
  defaultKey,   \* discovered_upstream_api_key
  answers,      \* for each upstream, what its node answers
  reprobes      \* how often that changed

catalogVars == <<routerArgs, routerState, configured, defaultKey, answers, reprobes>>

--------------------------------------------------------------------------------

Arguments == [specs : Specs, keys : KeySpecs, discover : BOOLEAN, lan : BOOLEAN,
              secured : BOOLEAN]

\* An answer: health, whether it verifies (approval, and the key demanded of a
\* discovered node), the routes and models of its capabilities, its load.
NodeAnswer == [ready : BOOLEAN, verified : BOOLEAN, capable : BOOLEAN,
               routes : SUBSET RouterRoute, models : SUBSET Model, running : Nat]

ASSUME CatalogAssumption ==
  /\ Specs \subseteq Seq([name : NodeName, valid : BOOLEAN])
  /\ KeySpecs \subseteq Seq([name : NodeName \union {"default"}, key : KeyText])
  /\ Answers \subseteq NodeAnswer

CatalogInit ==
  /\ routerArgs \in Arguments
  /\ routerState = "starting"
  /\ configured = <<>> /\ defaultKey = NoKey
  /\ answers = <<>> /\ reprobes = 0

--------------------------------------------------------------------------------
(* The start. *)

\* Mutant: a key is given to every upstream.
KeyOfAny(keys, name) ==
  LET own == {i \in DOMAIN keys : keys[i].name # "default"} IN
  IF own = {} THEN NoKey ELSE keys[Max(own)].key

\* apply_upstream_key_specs: of several keys for one name the last one holds.
KeyOf(keys, name) ==
  LET own == {i \in DOMAIN keys : keys[i].name = name} IN
  IF own = {} THEN NoKey ELSE keys[Max(own)].key

\* Only the first upstream of a name is found.
FirstOfName(specs, i) == \A j \in 1 .. i - 1 : specs[j].name # specs[i].name

KeysKnown(a) ==
  \A i \in DOMAIN a.keys :
    a.keys[i].name = "default" \/ \E j \in DOMAIN a.specs : a.specs[j].name = a.keys[i].name

\* RouterConfig::validate
RouterConfigValid(a) ==
  /\ a.specs # <<>> \/ a.discover
  /\ a.discover => KeyOf(a.keys, "default") # NoKey
  /\ a.lan => a.secured

\* The arguments are parsed, the keys handed out, the configuration validated.
StartRouter ==
  /\ routerState = "starting"
  /\ LET a == routerArgs IN
     IF (\A i \in DOMAIN a.specs : a.specs[i].valid) /\ KeysKnown(a) /\ RouterConfigValid(a)
     THEN /\ routerState' = "serving"
          /\ configured' = [i \in DOMAIN a.specs |->
               [name |-> a.specs[i].name,
                key |-> IF FirstOfName(a.specs, i) THEN KeyOf(a.keys, a.specs[i].name) ELSE NoKey]]
          /\ defaultKey' = KeyOf(a.keys, "default")
          /\ answers' \in [DOMAIN a.specs -> Answers]
     ELSE routerState' = "failed" /\ UNCHANGED <<configured, defaultKey, answers>>
  /\ UNCHANGED <<routerArgs, reprobes>>

\* discover_upstreams: a node answers its next probe otherwise; the answers
\* are kept in the order of the upstreams.
AnswerOtherwise(i, a) ==
  /\ routerState = "serving" /\ reprobes < MaxReprobes
  /\ answers' = [answers EXCEPT ![i] = a]
  /\ reprobes' = reprobes + 1
  /\ UNCHANGED <<routerArgs, routerState, configured, defaultKey>>

CatalogNext ==
  \/ StartRouter
  \/ \E i \in DOMAIN answers, a \in Answers : AnswerOtherwise(i, a)

CatalogSpec == CatalogInit /\ [][CatalogNext]_catalogVars

--------------------------------------------------------------------------------
(* The answers of the router. *)

\* UpstreamProbe::is_ready
ReadyNodes == {i \in DOMAIN answers : answers[i].ready /\ answers[i].verified}

\* The ready nodes whose capabilities could be read.
Offering == {i \in ReadyNodes : answers[i].capable}

\* aggregate_models; aggregate_capabilities has the same.
AggregateModels == UNION {answers[i].models : i \in Offering}

\* aggregate_capabilities: the routes of any of them.
AggregateRoutes == UNION {answers[i].routes : i \in Offering}

\* aggregate_load: what the nodes report besides the router's own counters.
AggregateRunning == MapThenSumSet(LAMBDA i : answers[i].running, ReadyNodes)

\* The status in /v1/health and /v1/load.
RouterHealthy == ReadyNodes # {}

\* model_supported: by a text in the id, the name or an alias of one of the
\* models; a node that lists no models is taken to have it.
ModelSupported(i, wanted) ==
  answers[i].models = {} \/ \E m \in answers[i].models : wanted \in Names[m]

\* select_upstream: the nodes that a request may be forwarded to.
RoutableNodes(route, wanted) ==
  {i \in Offering : route \in answers[i].routes /\ ModelSupported(i, wanted)}

--------------------------------------------------------------------------------

\* The type invariant; every node answers for itself.
CatalogTypeOK ==
  /\ routerArgs \in Arguments /\ routerState \in {"starting", "serving", "failed"}
  /\ configured \in Seq([name : NodeName, key : KeyText \union {NoKey}])
  /\ defaultKey \in KeyText \union {NoKey}
  /\ answers \in Seq(Answers) /\ DOMAIN answers = DOMAIN configured
  /\ AggregateRunning \in Nat

\* As every node serves all routes (NodeSnapshot::capabilities), whatever the
\* router offers can be had there: each model that it lists can be asked for by
\* any of its names on each route it supports, a request without a model goes
\* through whenever it reports to be ready and supports a route, and it supports
\* a route only while it is ready.
OfferedIsRoutable ==
  /\ \A m \in AggregateModels, route \in AggregateRoutes : \A wanted \in Names[m] :
       (\A i \in Offering : answers[i].routes = RouterRoute)
         => RoutableNodes(route, wanted) # {}
  /\ \A route \in AggregateRoutes :
       RouterHealthy /\ \E i \in Offering : route \in answers[i].routes

\* A node is probed and called with the key that was given for its name, and
\* with no other: not with that of another node, nor with the one for
\* discovered nodes.  (Of two upstreams of one name only the first gets it.)
KeysStayApart ==
  \A i \in DOMAIN configured :
    configured[i].key # NoKey =>
      \E j \in DOMAIN routerArgs.keys :
        routerArgs.keys[j] = [name |-> configured[i].name, key |-> configured[i].key]

(* What is offered can be routed to, with the key that belongs to it. *)
CatalogInv == CatalogTypeOK /\ OfferedIsRoutable /\ KeysStayApart

================================================================================
