----------------------------- MODULE LaunchSettings -----------------------------
(***************************************************************************)
(* What a server is launched with (server_config and what it calls in      *)
(* app.rs, ModelState of lmml-state): one set of server settings, that the *)
(* user changes and that selecting a model with a profile replaces, one name *)
(* of the active profile for all models, and the safeguards that complete  *)
(* the arguments for some families of models.  Where approval is enforced  *)
(* a start writes the public port of the bundle into the settings          *)
(* (event_loop.rs); that is a matter of the environment, and here starts   *)
(* of both kinds may come in one behaviour.  An argument is a token; a     *)
(* context is long or not, and the other tuning is left out.               *)
(***************************************************************************)
EXTENDS Integers, Sequences

CONSTANTS
  Model,         \* paths of models
  SameFile,      \* for each the file name, as the least path that has it
  Qwen, NativeMtp, Prism, \* the models of these families
  SizeMb,        \* their sizes
  ProfileName, Text, \* names of profiles, and words an argument may be
  Builtin,       \* the built-in profiles, in order: name, model and server settings
  LegacyServer,  \* what an older version saved as the settings of those in Replaced
  Replaced,      \* the names of the profiles that older version saved
  LoadedProfile, \* profiles a state file may hold
  Endpoint, Arguments, \* what the user may enter
  PublicEndpoint, \* for each endpoint those with its host and the port of a bundle
  RetiredEndpoint, DefaultEndpoint, \* what older versions saved with a profile, and what for it
  Vram,          \* what detection may report
  MaxChanges       \* changes of the settings (a bound)

Word(word) == <<word>>
DraftFile(m) == <<"draft-beside", m>>
DraftFlag == {"-md", "--model-draft", "--spec-draft-model"}

(* An argument is a word, or the name of the draft model that lies beside a  *)
(* model; settings are where the server listens, its key, whether the        *)
(* context is long, the layers on the card, -1 if left open, and arguments.  *)
Argument == {Word(w) : w \in Text} \union {DraftFile(m) : m \in Model}
Settings ==
  [endpoint : Endpoint, key : BOOLEAN, long : BOOLEAN, layers : Int, args : Seq(Argument)]
Profiles == Seq([name : ProfileName, model : Model, server : Settings])

(* What the safeguards add. *)
SafeguardText ==
  {"--reasoning-format", "none", "-ctk", "-ctv", "q8_0", "--parallel", "1", "--temp", "1.0"}

ASSUME LaunchAssumption ==
  /\ SameFile \in [Model -> Model] /\ SizeMb \in [Model -> Nat \ {0}]
  /\ {Qwen, NativeMtp, Prism} \subseteq SUBSET Model
  /\ SafeguardText \subseteq Text
  /\ Builtin \in Profiles /\ Builtin # <<>> /\ LegacyServer \in Settings
  /\ PublicEndpoint \in [Endpoint -> SUBSET Endpoint]
  /\ {RetiredEndpoint, DefaultEndpoint} \subseteq Endpoint
  /\ LoadedProfile \subseteq Profiles /\ Arguments \subseteq Seq(Argument)
  /\ Vram \subseteq Nat /\ MaxChanges \in Nat

NoPath == "none"
OverheadMb == 768   \* MiB the estimate adds to a model

VARIABLES
  server,    \* state.server
  profiles,  \* state.model.profiles
  activeProfile,    \* state.model.active_profile
  chosen,  \* state.model.last_used
  saved,    \* the state file
  changes,     \* changes of the user
  entered    \* history: the endpoint the user or a bundle gave, as of the last load

launchVars == <<server, profiles, activeProfile, chosen, saved, changes, entered>>

--------------------------------------------------------------------------------

FirstOf(places) == CHOOSE i \in places : \A j \in places : i <= j

(* matches_model_path: the places in a table of the profiles of a model, by  *)
(* its path or by the same file name elsewhere.                              *)
Matching(table, m) == {i \in DOMAIN table : SameFile[table[i].model] = SameFile[m]}

ActiveOf(table, name, m) == {i \in Matching(table, m) : table[i].name = name}

(* runtime_profile_for_path: the active profile if it is one of the model,   *)
(* else the model's first.                                                   *)
ProfileFor(table, name, m) ==
  LET active == ActiveOf(table, name, m)
  IN table[FirstOf(IF active = {} THEN Matching(table, m) ELSE active)]

(* cycle_runtime_profile_for_path: the one after it, and the first again.    *)
NextProfile(table, name, m) ==
  LET active == ActiveOf(table, name, m)
      later == {i \in Matching(table, m) : active # {} /\ i > FirstOf(active)}
  IN table[FirstOf(IF later = {} THEN Matching(table, m) ELSE later)]

HasProfile(m) == Matching(profiles, m) # {}

\* Mutant: a profile brings its own endpoint.
ResolvedEndpointToo(m, profile, endpoint) == profile.server

(* resolved_profile_server: the tuning of the profile, the endpoint of the   *)
(* settings, and the draft model that lies beside the model.                 *)
ResolvedProfileServer(m, profile, endpoint) ==
  LET args == profile.server.args
  IN [profile.server EXCEPT
        !.endpoint = endpoint.endpoint,
        !.args = [i \in DOMAIN args |->
                    IF i > 1 /\ args[i - 1][1] \in DraftFlag /\ args[i][1] = "draft-beside"
                    THEN DraftFile(m) ELSE args[i]]]

(* ensure_builtin_profiles: a built-in profile is added if it is missing,    *)
(* and replaces what an older version saved under its name; what the user   *)
(* made of it stays.                                                         *)
SameTuning(s, t) == [s EXCEPT !.endpoint = t.endpoint] = t

Same(p, q) == p.name = q.name /\ p.model = q.model

Known(table, p) == \E i \in DOMAIN table : Same(table[i], p)

Current(table, i) ==
  LET q == table[i]
      builtins == {b \in DOMAIN Builtin : Same(Builtin[b], q)}
  IN IF /\ builtins # {} /\ \A j \in 1 .. i - 1 : ~Same(table[j], q)
        /\ q.name \in Replaced /\ SameTuning(q.server, LegacyServer)
     THEN [q EXCEPT !.server = Builtin[FirstOf(builtins)].server] ELSE q

Missing(table) ==
  LET upTo[n \in 0 .. Len(Builtin)] ==
        IF n = 0 THEN <<>>
        ELSE IF Known(table, Builtin[n]) THEN upTo[n - 1] ELSE Append(upTo[n - 1], Builtin[n])
  IN upTo[Len(Builtin)]

EnsureBuiltinProfiles(table) == [i \in DOMAIN table |-> Current(table, i)] \o Missing(table)

--------------------------------------------------------------------------------

ServerSettingsFor(m) ==
  IF HasProfile(m) THEN ResolvedProfileServer(m, ProfileFor(profiles, activeProfile, m), server)
  ELSE server

(* vram_fit_for_vram_mb: all layers, a share of eighty, or none.  A model    *)
(* that fits is launched with -1, which leaves the choice to llama-server.   *)
RecommendedLayers(m, mb) ==
  LET usable == mb - OverheadMb
      share == (usable * 80) \div SizeMb[m]
  IN IF SizeMb[m] + OverheadMb <= mb THEN 0 - 1
     ELSE IF mb > OverheadMb THEN IF share < 1 THEN 1 ELSE IF share > 80 THEN 80 ELSE share
     ELSE 0

ResolveGpuLayers(m, settings, mb) ==
  IF settings.layers # 0 - 1 THEN settings.layers
  ELSE IF mb >= 0 THEN RecommendedLayers(m, mb)
  ELSE 0 - 1

Given(args, flags) == \E i \in DOMAIN args : args[i][1] \in flags

PushMissing(args, flags, flag, value) ==
  IF Given(args, flags) THEN args ELSE args \o <<Word(flag), Word(value)>>

(* set_arg_pair: the value of the first of the flags, or a new pair. *)
SetArgPair(args, flags, flag, value) ==
  LET i == FirstOf({k \in DOMAIN args : args[k][1] \in flags})
  IN IF ~Given(args, flags) THEN args \o <<Word(flag), Word(value)>>
     ELSE IF i < Len(args) THEN [args EXCEPT ![i + 1] = Word(value)]
     ELSE Append(args, Word(value))

QwenSafeguards(m, long, args) ==
  IF m \notin Qwen THEN args
  ELSE LET reasoned == PushMissing(args, {"--reasoning-format"}, "--reasoning-format", "none")
           keys == PushMissing(reasoned, {"-ctk", "--cache-type-k"}, "-ctk", "q8_0")
       IN IF long THEN PushMissing(keys, {"-ctv", "--cache-type-v"}, "-ctv", "q8_0")
          ELSE reasoned

(* What makes the model draft: a flag with its value, or a mode. *)
DraftOption == DraftFlag \union {"--spec-draft-n-max"}

DraftMode(args, i) ==
  args[i][1] = "--spec-type" /\ i < Len(args) /\ args[i + 1][1] = "draft-mtp"

KeepArgument(args, s, i) ==
  IF s.skip THEN [out |-> s.out, skip |-> FALSE]
  ELSE IF args[i][1] \in DraftOption \/ DraftMode(args, i) THEN [out |-> s.out, skip |-> TRUE]
  ELSE [out |-> Append(s.out, args[i]), skip |-> FALSE]

WithoutDrafts(args) ==
  LET after[n \in 0 .. Len(args)] ==
        IF n = 0 THEN [out |-> <<>>, skip |-> FALSE] ELSE KeepArgument(args, after[n - 1], n)
  IN after[Len(args)].out

(* apply_mtp_compatibility_guard: a model that cannot draft for itself is    *)
(* not given the draft arguments another model's settings left behind.       *)
MtpGuard(m, args) ==
  IF HasProfile(m) \/ m \in NativeMtp THEN args ELSE WithoutDrafts(args)

PrismSafeguards(m, args) ==
  IF m \notin Prism \/ HasProfile(m) THEN args
  ELSE LET one == SetArgPair(args, {"--parallel", "-np"}, "--parallel", "1")
       IN SetArgPair(one, {"--temp"}, "--temp", "1.0")

(* server_config: what a start of the model passes to llama-server, if the   *)
(* largest card that was detected, now or when it was last looked for, has   *)
(* mb MiB; -1 if none is known.                                              *)
ServerConfig(m, mb) ==
  LET settings == ServerSettingsFor(m)
  IN [settings EXCEPT
        !.layers = ResolveGpuLayers(m, settings, mb),
        !.args = PrismSafeguards(m, MtpGuard(m, QwenSafeguards(m, settings.long, settings.args)))]

--------------------------------------------------------------------------------

(* repair_legacy_state: a profile no longer has the retired endpoint. *)
Repaired(q) ==
  [q EXCEPT !.server = IF q.server.endpoint = RetiredEndpoint
                       THEN [q.server EXCEPT !.endpoint = DefaultEndpoint] ELSE q.server]

(* new_with_state_and_first_run: the state as the file has it, with the      *)
(* profile of the model that was used last and the endpoint of the settings. *)
LoadedState(file) ==
  LET table == EnsureBuiltinProfiles([i \in DOMAIN file.profiles |-> Repaired(file.profiles[i])])
      name == IF file.active = "" THEN Builtin[1].name ELSE file.active
      m == file.chosen
      has == m # NoPath /\ Matching(table, m) # {}
      profile == ProfileFor(table, name, m)
  IN [server   |-> IF has THEN [profile.server EXCEPT !.endpoint = file.server.endpoint]
                   ELSE file.server,
      profiles |-> table,
      active   |-> IF has THEN profile.name ELSE name,
      chosen |-> m]

Load(file) ==
  LET loaded == LoadedState(file)
  IN /\ server = loaded.server /\ profiles = loaded.profiles
     /\ activeProfile = loaded.active /\ chosen = loaded.chosen

FreshServer(e) == [endpoint |-> e, key |-> FALSE, long |-> FALSE, layers |-> 0 - 1, args |-> <<>>]

LaunchInit ==
  /\ \E e \in Endpoint, known \in LoadedProfile :
       saved = [server |-> FreshServer(e), profiles |-> known, active |-> "", chosen |-> NoPath]
  /\ Load(saved)
  /\ changes = 0 /\ entered = saved.server.endpoint

(* save_state_after: the file is written, or it is not and the panel goes on. *)
SaveLaunch ==
  saved' \in {saved, [server |-> server', profiles |-> profiles, active |-> activeProfile',
                        chosen |-> chosen']}

SelectModel(m) ==
  /\ chosen' = m
  /\ IF HasProfile(m)
     THEN LET profile == ProfileFor(profiles, activeProfile, m)
          IN activeProfile' = profile.name /\ server' = ResolvedProfileServer(m, profile, server)
     ELSE UNCHANGED <<activeProfile, server>>
  /\ SaveLaunch
  /\ UNCHANGED <<profiles, changes, entered>>

(* Of the highlighted model, which need not be the one that was selected. *)
CycleRuntimeProfile(m) ==
  /\ HasProfile(m)
  /\ activeProfile' = NextProfile(profiles, activeProfile, m).name
  /\ server' = ResolvedProfileServer(m, ProfileFor(profiles, activeProfile', m), server)
  /\ UNCHANGED chosen /\ SaveLaunch
  /\ UNCHANGED <<profiles, changes, entered>>

(* One field of the Settings tab. *)
EditSettings ==
  /\ changes < MaxChanges /\ changes' = changes + 1
  /\ \/ \E e \in Endpoint : server' = [server EXCEPT !.endpoint = e] /\ entered' = e
     \/ /\ \/ \E a \in Arguments : server' = [server EXCEPT !.args = a]
           \/ server' = [server EXCEPT !.key = ~@]
           \/ server' = [server EXCEPT !.long = ~@]
           \/ server' = [server EXCEPT !.layers = IF @ = 0 - 1 THEN 20 ELSE 0 - 1]
        /\ UNCHANGED entered
  /\ UNCHANGED <<activeProfile, chosen>> /\ SaveLaunch
  /\ UNCHANGED profiles

(* StartServer or ConfirmModelSwap where approval is enforced, with a bundle *)
(* that can be read: its port is served from then on, and it is saved only   *)
(* along with a later change.                                                *)
ApprovedStart ==
  /\ \E e \in PublicEndpoint[server.endpoint] :
       server' = [server EXCEPT !.endpoint = e] /\ entered' = e
  /\ UNCHANGED <<profiles, activeProfile, chosen, saved, changes>>

ReloadState ==
  /\ LET loaded == LoadedState(saved)
     IN /\ server' = loaded.server /\ profiles' = loaded.profiles
        /\ activeProfile' = loaded.active /\ chosen' = loaded.chosen
  /\ entered' = saved.server.endpoint
  /\ UNCHANGED <<saved, changes>>

LaunchNext ==
  \/ \E m \in Model : SelectModel(m) \/ CycleRuntimeProfile(m)
  \/ EditSettings \/ ApprovedStart \/ ReloadState

LaunchSpec == LaunchInit /\ [][LaunchNext]_launchVars

--------------------------------------------------------------------------------

LaunchTypeOK ==
  /\ server.endpoint \in Endpoint /\ entered \in Endpoint /\ changes \in 0 .. MaxChanges
  /\ chosen \in Model \union {NoPath}
  /\ activeProfile = "" \/ \E i \in DOMAIN profiles : profiles[i].name = activeProfile
  /\ \A i \in DOMAIN Builtin : \E j \in DOMAIN profiles : profiles[j].name = Builtin[i].name

(* Where the server listens is what the user last entered, with the port of  *)
(* the bundle that was started since if there was one, whatever profiles     *)
(* were selected, cycled through or loaded afterwards.                       *)
EndpointKept == server.endpoint = entered

(* A model that has a profile is launched with the tuning of one of its own  *)
(* profiles and with the draft model beside it, whatever the settings were   *)
(* left at by another model or by the user.                                  *)
TunedByProfile ==
  \A m \in {x \in Model : HasProfile(x)} :
    LET config == ServerConfig(m, 0 - 1)
    IN \E i \in DOMAIN profiles :
         LET tuned == ResolvedProfileServer(m, profiles[i], server)
         IN /\ SameFile[profiles[i].model] = SameFile[m]
            /\ tuned.key = config.key /\ tuned.long = config.long
            /\ tuned.args = SubSeq(config.args, 1, Len(tuned.args))

Valued == DraftFlag \union {"--spec-type", "--spec-draft-n-max", "--temp", "--parallel", "-np",
                            "-ctk", "-ctv", "--reasoning-format"}

(* Each flag is followed by its value. *)
Paired(args) ==
  Len(args) % 2 = 0 /\ \A i \in DOMAIN args : (args[i][1] \in Valued) = (i % 2 = 1)

(* No draft argument that a profile left in the settings reaches a model     *)
(* without a profile that cannot draft for itself, nor does the mode if each *)
(* flag of the settings has its value.                                       *)
DraftOnlyForMtp ==
  \A m \in Model \ NativeMtp :
    ~HasProfile(m) =>
      LET args == ServerConfig(m, 0 - 1).args
      IN /\ ~Given(args, DraftOption)
         /\ Paired(ServerSettingsFor(m).args) => \A i \in DOMAIN args : ~DraftMode(args, i)

(* The safeguards leave flags and their values together. *)
PairsKept ==
  \A m \in Model : Paired(ServerSettingsFor(m).args) => Paired(ServerConfig(m, 0 - 1).args)

(* A model that does not fit the card is never launched with every layer on  *)
(* it, unless the user asked for the number of layers.                       *)
LayersFit ==
  \A m \in Model, mb \in Vram :
    ServerSettingsFor(m).layers = 0 - 1 /\ SizeMb[m] + OverheadMb > mb
      => ServerConfig(m, mb).layers \in 0 .. 79

TuningIn(table, q) ==
  \E j \in DOMAIN table : Same(table[j], q) /\ SameTuning(table[j].server, q.server)

(* A profile of the state file that the user tuned is there as it was tuned. *)
OwnProfilesKept ==
  \A i \in DOMAIN saved.profiles :
    SameTuning(saved.profiles[i].server, LegacyServer) \/ TuningIn(profiles, saved.profiles[i])

(* What a server is started with is what its model and its user ask for. *)
SettingsInv ==
  /\ LaunchTypeOK /\ EndpointKept /\ OwnProfilesKept
  /\ TunedByProfile /\ DraftOnlyForMtp /\ PairsKept /\ LayersFit

================================================================================
