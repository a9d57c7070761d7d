---------------------------- MODULE OpenCodeConfig ----------------------------
(***************************************************************************)
(* The OpenCode configuration file as runtime_cli.rs of lmml-tui changes   *)
(* it: the patch that the application's state asks for, its merge into     *)
(* what the user has, and what counts as a conflict.  A configuration has  *)
(* provider entries, two top-level routes, and the rest, which is the      *)
(* user's.  Of a provider entry, the URL, the options that a user may      *)
(* have set, and the body (name, package, models, limits) are told apart.  *)
(***************************************************************************)

CONSTANTS
  Provider,  \* the keys of the provider object
  Full,      \* "llamacpp"
  Fast,      \* "llamacpp_fast"
  Url,       \* endpoints
  Body,      \* models with their limits
  Options,   \* values of the options other than baseURL
  Default,   \* the options that lmml writes
  Rest,      \* everything else in the file
  Absent     \* a key that is not there, or, in a patch, that is left alone

ASSUME ConfigAssumption ==
  /\ {Full, Fast} \subseteq Provider /\ Full # Fast
  /\ Default \in Options
  /\ Absent \notin Url \union Options \union Rest

\* What there may be under a key of the provider object.
Entry ==
  [url : Url \union {Absent}, options : Options \union {Absent}, body : Body]
NoEntry == [url |-> Absent, options |-> Absent, body |-> Absent]
EntryOrNone == Entry \union {NoEntry}

\* A route names a provider and a body of it.
Route == Provider \X Body
NoRoute == <<Absent, Absent>>

OpenCode ==
  [provider : [Provider -> EntryOrNone],
   model : Route \union {NoRoute},
   small : Route \union {NoRoute},
   rest : Rest \union {Absent}]

\* read_json_or_empty of a file that is not there.
EmptyConfig ==
  [provider |-> [n \in Provider |-> NoEntry], model |-> NoRoute, small |-> NoRoute,
   rest |-> Absent]

--------------------------------------------------------------------------------
(* The patch *)

\* desired_provider: the endpoint and the model of a profile.
Desired(server) == [url |-> server.url, options |-> Default, body |-> server.body]

Server == [url : Url, body : Body]

\* The application's state: a single server, or two with routes of their own.
Wanted == [dual : BOOLEAN, full : Server, fast : Server]

\* What the user lets be routed to lmml.
Routing == [model : BOOLEAN, small : BOOLEAN]

\* desired_opencode_patch: the fast provider is removed when there is a single
\* server.
Patched(w) ==
  [n \in Provider |->
     IF n = Full THEN Desired(w.full)
     ELSE IF n = Fast /\ w.dual THEN Desired(w.fast)
     ELSE NoEntry]

\* The keys of the patch's provider object.
Managed == {Full, Fast}

ModelRoute(w) == <<Full, w.full.body>>
SmallRoute(w) == IF w.dual THEN <<Fast, w.fast.body>> ELSE ModelRoute(w)

--------------------------------------------------------------------------------
(* The merge *)

\* merge_provider_config: options that are there stay, but for the URL.
MergedEntry(current, desired) ==
  IF current = NoEntry \/ desired = NoEntry THEN desired
  ELSE [desired EXCEPT !.options = IF current.options = Absent THEN @ ELSE current.options]

\* merge_opencode_config.
Merged(c, w, r) ==
  [c EXCEPT
     !.provider = [n \in Provider |-> IF n \in Managed
                                      THEN MergedEntry(c.provider[n], Patched(w)[n])
                                      ELSE c.provider[n]],
     !.model = IF r.model THEN ModelRoute(w) ELSE @,
     !.small = IF r.small THEN SmallRoute(w) ELSE @]

\* provider_conflicts: an entry differs from what is wanted in any way, or there
\* is one to remove.
ProviderConflicts(c, w) ==
  \E n \in Managed : c.provider[n] # NoEntry /\ c.provider[n] # Patched(w)[n]

--------------------------------------------------------------------------------
(* The Oh My OpenAgent file: one route for all agents, and the rest. *)

OpenAgent == [route : Route \union {NoRoute}, rest : Rest \union {Absent}]

\* patch_openagent.
Rerouted(a, w) == [a EXCEPT !.route = ModelRoute(w)]

================================================================================
