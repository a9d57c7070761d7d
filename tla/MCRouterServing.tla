---------------------------- MODULE MCRouterServing ---------------------------
(* The services between a client and a model, on small instances: the        *)
(* dispatch of the router and what it offers, the node, and its bridge for    *)
(* the Messages API.  Each behaviour is one of one part, with the others in   *)
(* their initial state.                                                       *)
EXTENDS MCRouterDispatch, NodeAgent, MessagesBridge, RouterCatalog

--------------------------------------------------------------------------------

(* A small instance of NodeAgent. *)

CONSTANTS bound, stranger   \* two deployments

\* All that may answer at the URL.
MCEndpoint ==
  {[kind |-> k] : k \in {"down", "bare"}} \union
  {[kind |-> "gateway", id |-> bound, open |-> TRUE, demands |-> x] : x \in BOOLEAN} \union
  {[kind |-> "gateway", id |-> bound, open |-> FALSE, demands |-> FALSE]} \union
  {[kind |-> "gateway", id |-> stranger, open |-> TRUE, demands |-> FALSE]}

\* Every configuration that differs in something a rule of the start looks at.
MCConfig ==
  {c \in NodeConfig : /\ ~c.advertise => c.url = "none"
                      /\ c.enforce => c.key # "blank" /\ c.host # "wildcard" /\ ~c.unsafe
                      /\ c.enforce => c.key = "plain" /\ ~c.advertise}

MCRoute == {"chat", "messages", "infer", "control", "load", "models", "health"}

MCOffset == {-1, 0, 2}

--------------------------------------------------------------------------------

(* A small instance of MessagesBridge. *)

\* First messages: a text, every kind of block, and a tool result that holds an
\* image or is empty.
MCPrompt ==
  {Plain(t) : t \in Text} \union
  {Blocks(<<b>>) : b \in {TextBlock(t) : t \in Text} \union {Thinking("words"), Redacted, Image}
     \union {ToolResult(c) : c \in {Plain("empty"), Blocks(<<TextBlock("words"), Image>>)}}} \union
  {Blocks(<<Redacted, TextBlock("words")>>)}

\* Answers: with a text or without, with up to two calls of tools.
MCReply ==
  [text : Text \union {Null}, calls : {<<>>, <<"object">>, <<"broken", "object">>},
   finish : {"stop", "length", "tool_calls"}, named : BOOLEAN, tokens : {7}]

--------------------------------------------------------------------------------

(* A small instance of RouterCatalog. *)

CONSTANTS m1, m2, k1, k2

Named(n, valid) == [name |-> n, valid |-> valid]
Keyed(n, k) == [name |-> n, key |-> k]

\* No upstream, two, one that is malformed, and two that infer one name.
MCSpecs == {<<>>, <<Named("a", TRUE), Named("b", TRUE)>>, <<Named("a", FALSE)>>,
            <<Named("a", TRUE), Named("a", TRUE)>>}

MCKeySpecs == {<<>>, <<Keyed("default", k1)>>, <<Keyed("a", k1), Keyed("default", k2)>>,
               <<Keyed("a", k1), Keyed("a", k2)>>, <<Keyed("b", k2)>>, <<Keyed("c", k1)>>}

\* A part of the name of both models, and the id of each.
MCNames == [m \in Model |-> {<<"id", m>>, <<"part">>}]

MCAnswers ==
  {[ready |-> r, verified |-> x, capable |-> TRUE, routes |-> RouterRoute, models |-> ms,
    running |-> 1] : r, x \in BOOLEAN, ms \in {{}, {m1}, {m1, m2}}} \union
  {[ready |-> TRUE, verified |-> TRUE, capable |-> c, routes |-> IF c THEN {"infer"} ELSE {},
    models |-> IF c THEN {m2} ELSE {}, running |-> 0] : c \in BOOLEAN}

--------------------------------------------------------------------------------

CONSTANT n1   \* a call of the node

VARIABLE part   \* the part that takes the steps

--------------------------------------------------------------------------------

\* A part that does not run starts in one of its initial states.
AgentIdle ==
  /\ config = CHOOSE c \in Config : TRUE
  /\ upstream = [kind |-> "down"] /\ offset = 0
BridgeIdle ==
  /\ talk = <<Message("user", Plain("words"))>>
  /\ asked = [stream |-> FALSE, tools |-> "none", choice |-> "none"]
CatalogIdle ==
  routerArgs = [specs |-> <<>>, keys |-> <<>>, discover |-> FALSE, lan |-> FALSE,
                secured |-> FALSE]

ServingInit ==
  /\ part \in {"dispatch", "agent", "bridge", "catalog"}
  /\ IF part = "agent" THEN TRUE ELSE AgentIdle
  /\ IF part = "bridge" THEN TRUE ELSE BridgeIdle
  /\ IF part = "catalog" THEN TRUE ELSE CatalogIdle
  /\ Init /\ NodeAgentInit /\ BridgeInit /\ CatalogInit

ServingNext ==
  /\ UNCHANGED part
  /\ \/ /\ part = "dispatch" /\ Next
        /\ UNCHANGED <<nodeVars, bridgeVars, catalogVars>>
     \/ /\ part = "agent" /\ NodeNext
        /\ UNCHANGED <<vars, bridgeVars, catalogVars>>
     \/ /\ part = "bridge" /\ BridgeNext
        /\ UNCHANGED <<vars, nodeVars, catalogVars>>
     \/ /\ part = "catalog" /\ CatalogNext
        /\ UNCHANGED <<vars, nodeVars, bridgeVars>>

ServingSpec == ServingInit /\ [][ServingNext]_<<part, vars, nodeVars, bridgeVars, catalogVars>>

================================================================================
