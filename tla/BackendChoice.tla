------------------------------ MODULE BackendChoice ------------------------------
(***************************************************************************)
(* Which backend llama.cpp is built for (app.rs): the detection that is    *)
(* answered while the user does other things, the steps of the first run,  *)
(* the backend and the targets that are kept for each runtime flavor, and  *)
(* the configuration of a build, which looks for a CUDA toolkit of its     *)
(* own.  What a build does is in BuildPipeline; here it ends in one of its *)
(* events.                                                                 *)
(***************************************************************************)
EXTENDS HardwareProbe
LOCAL INSTANCE FiniteSetsExt

CONSTANT MaxBuildRuns  \* builds that are started (a bound)

Flavor == {"Upstream", "Prism"}
Undetected == [cuda |-> [kind |-> "none", archs |-> {}]]
NotBuilding == [flavor |-> "none"]

VARIABLES
  firstRun, step, \* first_run_onboarding, onboarding_step
  picked,         \* onboarding_backend
  profile,        \* detect_profile
  buildFlavor,    \* the flavor builds are for
  kept,           \* for each flavor, the persisted backend and record of its build
  building,       \* the build under way
  buildRuns,      \* builds that were started
  built           \* history: for each flavor, the backend of its last complete build

choiceVars ==
  <<probeVars, firstRun, step, picked, profile, buildFlavor, kept, building, buildRuns, built>>

--------------------------------------------------------------------------------

StepOrder ==
  <<"Scan", "HardwareSummary", "Backend", "ModelsDir", "StarterModel", "ServerPort", "Done">>

AutoBackend == Backend("Auto", {})
CpuFallback == Backend("CpuFallback", {})

(* The profile is the one that was detected in this session, if any was. *)
HasDetected == profile # Undetected

(* refresh_backend_for_detected_profile: the targets of the cards that were  *)
(* detected, if there are some for this kind of backend.                     *)
RefreshBackend(b) ==
  IF HasDetected /\ b.kind \in {"Cuda", "Rocm"} /\ RecommendedBackend(profile).kind = b.kind
     /\ RecommendedBackend(profile).archs # {}
  THEN RecommendedBackend(profile) ELSE b

RequestedBackend(f) ==
  LET b == kept[f].backend
  IN RefreshBackend(IF b # AutoBackend THEN b
                    ELSE IF HasDetected THEN RecommendedBackend(profile) ELSE CpuFallback)

(* nvcc_candidates: the toolkit on the path, then those that are installed. *)
DefaultToolkit == IF host.nvcc # 0 THEN host.nvcc
                  ELSE IF host.toolkits # <<>> THEN host.toolkits[1] ELSE 0

(* preferred_legacy_cuda_compiler: cards that are all old are built for with *)
(* the first toolkit that knows them and the current ones.                   *)
LegacyToolkit(b) ==
  LET old == {i \in DOMAIN host.toolkits : host.toolkits[i] \div 100 \in 11 .. 12}
  IN IF b.kind = "Cuda" /\ b.archs # {} /\ (\A a \in b.archs : a <= 75) /\ old # {}
     THEN host.toolkits[Min(old)] ELSE 0

SelectedToolkit(b) ==
  IF b.kind = "Cuda" /\ host.override # 0 THEN host.override ELSE LegacyToolkit(b)

ToolkitUsed(b) == IF SelectedToolkit(b) # 0 THEN SelectedToolkit(b) ELSE DefaultToolkit

(* cuda_backend_dropped_by_selected_toolkit *)
Dropped(b, toolkit) ==
  b.kind = "Cuda" /\ (\E a \in b.archs : a <= 72) /\ toolkit \div 100 >= 13

FallbackBackend == IF HasDetected THEN NonCudaBackend(profile) ELSE CpuFallback

\* Mutant: the toolkit on the path is asked whether it still knows the cards.
BuildConfigByDefault(f) ==
  LET requested == RequestedBackend(f)
  IN IF Dropped(requested, DefaultToolkit) THEN FallbackBackend ELSE requested

(* build_config *)
BuildConfigFor(f) ==
  LET requested == RequestedBackend(f)
  IN IF Dropped(requested, ToolkitUsed(requested)) THEN FallbackBackend ELSE requested

(* next_backend: the targets are left to detection. *)
NextBackend(b) ==
  Backend(CASE b.kind = "Cuda" -> "Metal"     [] b.kind = "Metal" -> "Rocm"
            [] b.kind = "Rocm" -> "Vulkan"    [] b.kind = "Vulkan" -> "CpuAvx2"
            [] b.kind = "CpuAvx2" -> "CpuAvx" [] b.kind = "CpuAvx" -> "CpuFallback"
            [] OTHER -> "Cuda", {})

--------------------------------------------------------------------------------

NothingBuilt == [backend |-> AutoBackend, hashed |-> FALSE, verified |-> FALSE]

(* A first run, or a state file of an earlier session that built nothing. *)
ChoiceInit ==
  /\ ProbeInit
  /\ firstRun \in BOOLEAN /\ step = "Scan" /\ picked = CpuFallback
  /\ profile = Undetected /\ buildFlavor = "Upstream"
  /\ kept = [f \in Flavor |-> NothingBuilt]
  /\ building = NotBuilding /\ buildRuns = 0
  /\ built = [f \in Flavor |-> AutoBackend]

(* sync_build_backend_after_detection: other targets than those of the       *)
(* selected flavor take their place, and its build is no longer current.     *)
SyncedWith(detected) ==
  LET b == kept[buildFlavor].backend
  IN IF detected.kind \in {"Cuda", "Rocm"} /\ b.kind = detected.kind
        /\ detected.archs # {} /\ detected.archs # b.archs
     THEN [kept EXCEPT ![buildFlavor] = [backend |-> detected, hashed |-> FALSE, verified |-> FALSE]]
     ELSE kept

DetectComplete ==
  /\ AllRead /\ probing' = FALSE /\ probe' = NothingRead
  /\ profile' = Detected
  /\ kept' = SyncedWith(RecommendedBackend(profile'))
  /\ IF firstRun
     THEN step' = "HardwareSummary" /\ picked' = RecommendedBackend(profile')
     ELSE UNCHANGED <<step, picked>>
  /\ UNCHANGED <<host, hostChanges, steady, firstRun, buildFlavor, building, buildRuns, built>>

(* At the start, by d or Enter in the first step, or by d on the tab. *)
Detect ==
  /\ firstRun => step = "Scan"
  /\ RunDetect
  /\ UNCHANGED <<firstRun, step, picked, profile, buildFlavor, kept, building, buildRuns, built>>

(* Enter, where it needs no answer of a probe; a directory or a port that is *)
(* refused leaves the step as it is.  What was picked is not looked at after *)
(* the first run.                                                            *)
OnboardingEnter ==
  /\ firstRun /\ step # "Scan"
  /\ IF step = "Done" THEN firstRun' = FALSE /\ picked' = CpuFallback /\ UNCHANGED step
     ELSE /\ step' = StepOrder[(CHOOSE i \in DOMAIN StepOrder : StepOrder[i] = step) + 1]
          /\ UNCHANGED <<firstRun, picked>>
  /\ kept' = IF step = "Backend" THEN [kept EXCEPT !["Upstream"].backend = picked] ELSE kept
  /\ UNCHANGED <<probeVars, profile, buildFlavor, building, buildRuns, built>>

OnboardingNextBackend ==
  /\ firstRun /\ step = "Backend" /\ picked' = NextBackend(picked)
  /\ UNCHANGED <<probeVars, firstRun, step, profile, buildFlavor, kept, building, buildRuns, built>>

OnboardingEsc ==
  /\ firstRun /\ firstRun' = FALSE /\ picked' = CpuFallback
  /\ UNCHANGED <<probeVars, step, profile, buildFlavor, kept, building, buildRuns, built>>

SwitchBuildFlavor ==
  /\ ~firstRun /\ buildFlavor' = IF buildFlavor = "Prism" THEN "Upstream" ELSE "Prism"
  /\ UNCHANGED <<probeVars, firstRun, step, picked, profile, kept, building, buildRuns, built>>

StartBuildRun ==
  /\ ~firstRun /\ building = NotBuilding /\ buildRuns < MaxBuildRuns
  /\ buildRuns' = buildRuns + 1
  /\ LET backend == BuildConfigFor(buildFlavor)
     IN building' = [flavor |-> buildFlavor, backend |-> backend,
                     toolkit |-> ToolkitUsed(backend)]
  /\ kept' = IF buildFlavor = "Prism" THEN [kept EXCEPT !["Prism"].verified = FALSE] ELSE kept
  /\ UNCHANGED <<probeVars, firstRun, step, picked, profile, buildFlavor, built>>

(* The event names the flavor and the backend that were built. *)
BuildCompletes ==
  /\ building # NotBuilding
  /\ kept' = [kept EXCEPT ![building.flavor] =
                [backend |-> building.backend, hashed |-> TRUE, verified |-> building.flavor = "Prism"]]
  /\ built' = [built EXCEPT ![building.flavor] = building.backend]
  /\ building' = NotBuilding
  /\ UNCHANGED <<probeVars, firstRun, step, picked, profile, buildFlavor, buildRuns>>

BuildStops ==
  /\ building # NotBuilding
  /\ \E cancelled \in BOOLEAN :
       kept' = [kept EXCEPT ![building.flavor].hashed = @ /\ ~cancelled,
                            ![building.flavor].verified = FALSE]
  /\ building' = NotBuilding
  /\ UNCHANGED <<probeVars, firstRun, step, picked, profile, buildFlavor, buildRuns, built>>

ProbeSteps ==
  /\ ReadsHost \/ HostChanges
  /\ UNCHANGED <<firstRun, step, picked, profile, buildFlavor, kept, building, buildRuns, built>>

ChoiceNext ==
  \/ ProbeSteps \/ Detect \/ DetectComplete
  \/ OnboardingEnter \/ OnboardingNextBackend \/ OnboardingEsc
  \/ SwitchBuildFlavor \/ StartBuildRun \/ BuildCompletes \/ BuildStops

ChoiceSpec == ChoiceInit /\ [][ChoiceNext]_choiceVars

--------------------------------------------------------------------------------

ChoiceTypeOK ==
  /\ step \in {StepOrder[i] : i \in DOMAIN StepOrder} /\ buildFlavor \in Flavor
  /\ \A b \in {picked, kept["Upstream"].backend, kept["Prism"].backend} :
       b.archs # {} => b.kind \in {"Cuda", "Rocm"}
  /\ building # NotBuilding => building.backend # AutoBackend
  /\ \A f \in Flavor : kept[f].verified => f = "Prism" /\ kept[f].hashed

(* The record of a flavor's build is kept only as long as the backend and    *)
(* the targets beside it are those it was built for, so that a build that is *)
(* skipped as up to date is one for the cards of the state.                  *)
RecordIsOfBuild ==
  \A f \in Flavor : kept[f].hashed => kept[f].backend = built[f]

(* No build is for cards that the toolkit it uses has dropped. *)
NoDroppedTarget == building # NotBuilding => ~Dropped(building.backend, building.toolkit)

(* What was detected is right, what is built can run on it, and what is       *)
(* recorded of a build is true.                                              *)
ChoiceInv ==
  ChoiceTypeOK /\ TargetsComparable /\ VramOfItsCard /\ NoDroppedTarget /\ RecordIsOfBuild

================================================================================
