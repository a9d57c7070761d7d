------------------------------ MODULE NodeAgent -------------------------------
(***************************************************************************)
(* The headless node API (lmml-node) and the chain of approval through it. *)
(* The node starts from a configuration that it validates, advertises      *)
(* itself, and handles each call as a fixed sequence of steps, with the    *)
(* upstream inference server behind its URL asked anew by each call.  What *)
(* answers at that URL may be replaced between any two steps: by a bare    *)
(* llama-server, by the gateway of another deployment, by nothing.  Where  *)
(* approval is enforced, a gateway proves itself by an attestation, signed *)
(* with its clock, which the node checks and relays to the router.         *)
(***************************************************************************)
EXTENDS Integers, Sequences

CONSTANTS
  NodeCall,        \* the calls of the node's HTTP API
  Config,      \* the configurations the node may be started with
  Deployment,  \* the deployments gateways serve; Bound is the one that the
  Bound,       \*   environment of node and router names
  Endpoint,    \* what may answer at the upstream URL
  Route,       \* the routes called
  Offset,      \* how far the gateway's clock may be ahead of the others
  Slack,       \* ticks a proof may be issued in the future (5 s)
  ProofTtl,         \* ticks a proof is valid (30 s)
  MaxTime,     \* bound on the time that passes
  MaxSwaps,    \* bound on the changes of the upstream
  NoProof      \* no attestation

ASSUME BindingAssumption == Bound \in Deployment
ASSUME TimeAssumption ==
  /\ Slack \in Nat /\ ProofTtl \in Nat \ {0} /\ Offset \subseteq Int
  /\ MaxTime \in Nat /\ MaxSwaps \in Nat
ASSUME RouteAssumption ==
  Route \subseteq {"chat", "messages", "infer", "control", "load", "models", "health"}

VARIABLES
  config,    \* NodeConfig, with whether the process enforces approval
  agent,     \* "starting", "serving" or "failed"
  upstream,  \* what answers at llama_base_url
  swaps,     \* how often that changed
  now,       \* the clock of the node and of the router
  offset,    \* how far the gateway's clock is ahead
  handled,   \* per call, where its handler is
  lastOpen   \* history: when the bound gateway, approved, was last at the URL

nodeVars == <<config, agent, upstream, swaps, now, offset, handled, lastOpen>>

--------------------------------------------------------------------------------

\* A key as given, the same with blanks around it, only blanks, none.
Key == {"plain", "padded", "blank", "none"}

NodeConfig ==
  [host : {"local", "lan", "wildcard"}, key : Key, unsafe : BOOLEAN, control : BOOLEAN,
   advertise : BOOLEAN, url : {"none", "http", "other"}, enforce : BOOLEAN]

\* What answers at a URL: nothing, a llama-server, or a gateway with its
\* deployment, admitted or not, which may demand a key for its API.
UpstreamState ==
  [kind : {"down", "bare"}] \union
  [kind : {"gateway"}, id : Deployment, open : BOOLEAN, demands : BOOLEAN]

ASSUME UpstreamAssumption == Config \subseteq NodeConfig /\ Endpoint \subseteq UpstreamState

Proof == [id : Deployment, issued : Int] \union {NoProof}

StepName == {"approve", "check", "authorize", "enabled", "body", "prompt", "translate",
             "health", "attest", "relay", "judge", "forward"}

\* A handler: the steps it has left, its caller's credential, and what it found.
Handling ==
  [stage : {"idle", "open", "served", "refused"},
   route : Route \union {"none"}, key : {"right", "wrong"},
   todo : Seq(StepName), proof : Proof, healthy : BOOLEAN, met : BOOLEAN]

NoHandling == [stage |-> "idle", route |-> "none", key |-> "wrong", todo |-> <<>>,
               proof |-> NoProof, healthy |-> FALSE, met |-> FALSE]

\* The type invariant; a proof is held only until it is checked or relayed.
NodeTypeOK ==
  /\ config \in Config /\ agent \in {"starting", "serving", "failed"}
  /\ upstream \in Endpoint /\ swaps \in 0 .. MaxSwaps
  /\ now \in 0 .. MaxTime /\ offset \in Offset
  /\ handled \in [NodeCall -> Handling]
  /\ lastOpen \in -1 .. MaxTime
  /\ \A c \in NodeCall : handled[c].stage = "open" /\ handled[c].proof # NoProof =>
       handled[c].route = "health" \/ Head(handled[c].todo) = "check"

\* api_key: blanks around it do not count, and nothing but blanks is no key.
ApiKey(c) == c.key \in {"plain", "padded"}

IsLocalBind(host) == host = "local"

\* The bound gateway, admitted.
Approved(e) == e.kind = "gateway" /\ e.id = Bound /\ e.open

NodeAgentInit ==
  /\ config \in Config
  /\ agent = "starting"
  /\ upstream \in Endpoint
  /\ swaps = 0 /\ now = 0 /\ offset \in Offset
  /\ handled = [c \in NodeCall |-> NoHandling]
  /\ lastOpen = IF Approved(upstream) THEN 0 ELSE -1

--------------------------------------------------------------------------------
(* Approval: the gateway's health answer and its attestation. *)

\* The answer of GET /health: a proof signed now, or none.
HealthProof(e) ==
  IF e.kind = "gateway" /\ e.open THEN [id |-> e.id, issued |-> now + offset] ELSE NoProof

\* verify_gateway_attestation and the comparison with the binding.
ProofHolds(p) ==
  /\ p # NoProof
  /\ p.id = Bound
  /\ now < p.issued + ProofTtl
  /\ p.issued <= now + Slack

\* A server at the URL that answers its health request with success.
Healthy(e) == e.kind = "bare" \/ (e.kind = "gateway" /\ e.open)

--------------------------------------------------------------------------------
(* The start. *)

\* advertised_public_url: given, or made from a host that others can reach.
PublicUrl(c) == c.url = "http" \/ (c.url = "none" /\ c.host = "lan")

\* NodeConfig::validate
ValidNodeConfig(c) ==
  /\ c.control => ApiKey(c)
  /\ ~IsLocalBind(c.host) => ApiKey(c) \/ c.unsafe
  /\ c.advertise => ApiKey(c) /\ PublicUrl(c)

\* NodeSnapshot::detect: the configuration, and the gateway if one is required.
StartNode ==
  /\ agent = "starting"
  /\ agent' = IF /\ ValidNodeConfig(config)
                 /\ config.enforce => ProofHolds(HealthProof(upstream))
              THEN "serving" ELSE "failed"
  /\ UNCHANGED <<config, upstream, swaps, now, offset, handled, lastOpen>>

\* The advertisement that the node sends: LanNodeAdvertisement as it matters.
Advertisement == [url |-> PublicUrl(config), auth |-> ApiKey(config)]

\* What the router takes into its table: validate_lan_advertisement.
Acceptable(a) == a.auth /\ a.url

--------------------------------------------------------------------------------
(* The handlers. *)

\* What each handler does, in its order; chat stands for the four routes that
\* are passed through, models for the capabilities too, and health for the
\* router's probe, with what the router makes of the answer.
StepsOf(route) ==
  CASE route = "chat"     -> <<"approve", "authorize", "body", "forward">>
    [] route = "messages" -> <<"approve", "authorize", "body", "translate", "forward">>
    [] route = "infer"    -> <<"authorize", "body", "approve", "prompt", "forward">>
    [] route = "control"  -> <<"authorize", "approve", "enabled", "body", "health">>
    [] route = "load"     -> <<"authorize", "health">>
    [] route = "models"   -> <<"authorize">>
    [] route = "health"   -> <<"health", "attest", "relay", "judge">>

Arrive(c, route, key) ==
  /\ agent = "serving" /\ handled[c].stage = "idle"
  /\ handled' = [handled EXCEPT ![c] =
       [NoHandling EXCEPT !.stage = "open", !.route = route, !.key = key,
                          !.todo = StepsOf(route), !.met = Approved(upstream)]]
  /\ UNCHANGED <<config, agent, upstream, swaps, now, offset, lastOpen>>

\* NodeCall c is at a step of its handler.
At(c, step) == handled[c].stage = "open" /\ handled[c].todo # <<>> /\ Head(handled[c].todo) = step

\* The handler of call c is then at h; all else stays.
Handle(c, h) ==
  /\ handled' = [handled EXCEPT ![c] = h]
  /\ UNCHANGED <<config, agent, upstream, swaps, now, offset, lastOpen>>

Pass(c) == [handled[c] EXCEPT !.todo = Tail(@)]
Refused(c) == [handled[c] EXCEPT !.stage = "refused", !.todo = <<>>, !.proof = NoProof]

\* ensure_approved_upstream, and for the health route the second request of the
\* handler: the gateway is asked, and answers with what it signs then.
AskGateway(c) ==
  \/ /\ At(c, "approve")
     /\ Handle(c, IF ~config.enforce THEN Pass(c)
                  ELSE [handled[c] EXCEPT !.todo = <<"check">> \o Tail(@),
                                          !.proof = HealthProof(upstream)])
  \/ /\ At(c, "attest")
     /\ Handle(c, [Pass(c) EXCEPT !.proof =
                     IF config.enforce THEN HealthProof(upstream) ELSE NoProof])

\* Mutant: the proof stays with the handler.
CheckProofKept(c) ==
  /\ At(c, "check")
  /\ \/ Handle(c, Refused(c))
     \/ /\ ProofHolds(handled[c].proof)
        /\ Handle(c, Pass(c))

\* The answer is there and is verified; no answer in time is a refusal.
CheckProof(c) ==
  /\ At(c, "check")
  /\ \/ Handle(c, Refused(c))
     \/ /\ ProofHolds(handled[c].proof)
        /\ Handle(c, [Pass(c) EXCEPT !.proof = NoProof])

\* Only a proof that the node has verified is relayed with its health.
RelayProof(c) ==
  /\ At(c, "relay")
  /\ \/ Handle(c, [Pass(c) EXCEPT !.proof = NoProof])
     \/ /\ ProofHolds(handled[c].proof)
        /\ Handle(c, Pass(c))

\* authorize: the right key in one of the two headers, if there is a key.
Authorize(c) ==
  /\ At(c, "authorize")
  /\ Handle(c, IF ApiKey(config) /\ handled[c].key = "wrong" THEN Refused(c) ELSE Pass(c))

\* Server control must be switched on.
CheckEnabled(c) ==
  /\ At(c, "enabled")
  /\ Handle(c, IF config.control THEN Pass(c) ELSE Refused(c))

\* The body is received, or breaks off, is too long or no JSON.
ReadBody(c) ==
  /\ At(c, "body")
  /\ \/ Handle(c, Pass(c))
     \/ Handle(c, Refused(c))

\* upstream_llama_healthy: what answers in time; a slow answer is none.
AskHealth(c) ==
  /\ At(c, "health")
  /\ \E healthy \in {Healthy(upstream), FALSE} :
       Handle(c, [Pass(c) EXCEPT !.healthy = healthy])

\* The key that a request carries to the upstream: proxy_infer sends none, and
\* no handler trims the one it sends.
CarriesKey(c) == handled[c].route # "infer" /\ config.key = "plain"

\* The upstream as it is now gets the request, and answers it or fails.
Accepts(c) ==
  \/ upstream.kind = "bare"
  \/ /\ upstream.kind = "gateway" /\ upstream.open
     /\ upstream.demands => CarriesKey(c)

Send(c) ==
  /\ At(c, "forward")
  /\ \/ Handle(c, [Refused(c) EXCEPT !.todo = <<"forward">>])
     \/ /\ Accepts(c)
        /\ Handle(c, [handled[c] EXCEPT !.stage = "served"])

ProxyJson(c) == handled[c].route = "chat" /\ Send(c)

\* anthropic_messages_inner: a request that cannot be translated is refused.
CallChat(c) ==
  /\ handled[c].route = "messages"
  /\ \/ At(c, "translate") /\ (Handle(c, Pass(c)) \/ Handle(c, Refused(c)))
     \/ Send(c)

\* proxy_infer: a prompt of blanks is refused.
ProxyInfer(c) ==
  /\ handled[c].route = "infer"
  /\ \/ At(c, "prompt") /\ (Handle(c, Pass(c)) \/ Handle(c, Refused(c)))
     \/ Send(c)

\* get_upstream_health of the router: the node's answer has arrived there.
Judge(c) ==
  /\ At(c, "judge")
  /\ Handle(c, [handled[c] EXCEPT
       !.stage = IF handled[c].healthy /\ (config.enforce => ProofHolds(handled[c].proof))
                 THEN "served" ELSE "refused"])

\* The last step of a handler that forwards nothing answers.
Answer(c) ==
  /\ handled[c].stage = "open" /\ handled[c].todo = <<>>
  /\ Handle(c, [handled[c] EXCEPT !.stage = "served"])

\* The client has its answer, or goes away before.
EndCall(c) ==
  /\ handled[c].stage # "idle"
  /\ Handle(c, NoHandling)

--------------------------------------------------------------------------------
(* Around the node. *)

\* Something else answers at the URL, or the gateway is admitted or revoked.
SwapUpstream(e) ==
  /\ swaps < MaxSwaps /\ e # upstream
  /\ upstream' = e
  /\ swaps' = swaps + 1
  /\ lastOpen' = IF Approved(e) THEN now ELSE lastOpen
  /\ handled' = [c \in NodeCall |->
       IF handled[c].stage = "open" /\ Approved(e)
       THEN [handled[c] EXCEPT !.met = TRUE] ELSE handled[c]]
  /\ UNCHANGED <<config, agent, now, offset>>

\* Time passes; it matters only where a proof has to be young.
PassTime ==
  /\ config.enforce /\ agent = "serving" /\ now < MaxTime
  /\ \A c \in NodeCall : handled[c].stage \in {"idle", "open"}
  /\ now' = now + 1
  /\ lastOpen' = IF Approved(upstream) THEN now + 1 ELSE lastOpen
  /\ UNCHANGED <<config, agent, upstream, swaps, offset, handled>>

HandlerStep(c) ==
  \/ AskGateway(c) \/ CheckProof(c) \/ RelayProof(c)
  \/ Authorize(c) \/ CheckEnabled(c) \/ ReadBody(c)
  \/ ProxyJson(c) \/ CallChat(c) \/ ProxyInfer(c)
  \/ AskHealth(c) \/ Judge(c) \/ Answer(c) \/ EndCall(c)

NodeNext ==
  \/ StartNode \/ PassTime
  \/ \E e \in Endpoint : SwapUpstream(e)
  \/ \E c \in NodeCall :
       \/ \E route \in Route, key \in {"right", "wrong"} : Arrive(c, route, key)
       \/ HandlerStep(c)

NodeSpec == NodeAgentInit /\ [][NodeNext]_nodeVars

--------------------------------------------------------------------------------

\* A request that the node has sent to its upstream, answered or not.
Forwarded(c) ==
  \/ handled[c].stage = "served" /\ handled[c].route \in {"chat", "messages", "infer"}
  \/ handled[c].stage = "refused" /\ handled[c].todo = <<"forward">>

\* Whatever answers at the URL in turn, on every route the node forwards only
\* requests with the key, where it has one, and under enforcement only after
\* the approved gateway of this deployment was at the URL since the call came.
\* (That it still is when the request goes out, nothing in the code ensures.)
ForwardedApproved ==
  \A c \in NodeCall : Forwarded(c) =>
    /\ ApiKey(config) => handled[c].key = "right"
    /\ config.enforce => handled[c].met

Greater(a, b) == IF a > b THEN a ELSE b

\* However long the answer of a probe takes on its way from the gateway through
\* the node to the router, and however their clocks differ, the router under
\* enforcement holds no node ready whose approved gateway was last seen a
\* proof's life ago, or as much longer as the gateway's clock is ahead.
ReadyIsRecent ==
  \A c \in NodeCall :
    handled[c].stage = "served" /\ handled[c].route = "health" /\ config.enforce =>
      /\ lastOpen # -1
      /\ now - lastOpen < ProofTtl + Greater(0, offset)

\* A node that advertises itself is one that routers can use: they take its
\* advertisement, and it refuses the calls that come without its key.
AdvertisedUsable ==
  agent = "serving" /\ config.advertise =>
    /\ Acceptable(Advertisement)
    /\ \A c \in NodeCall : handled[c].stage = "served" /\ handled[c].route # "health" =>
         handled[c].key = "right"

(* A request reaches what was approved, and what is advertised can be used. *)
NodeInv == NodeTypeOK /\ ForwardedApproved /\ ReadyIsRecent /\ AdvertisedUsable

================================================================================
