-------------------------------- MODULE MCBuilds --------------------------------
(* What llama.cpp is built for and how it is built, on small instances.      *)
(* Each behaviour is one of one part, with the other in an initial state.    *)
EXTENDS BuildPipeline, BackendChoice, TLC

--------------------------------------------------------------------------------

(* Two builds, each of one of two configurations that are alike: of Prism in *)
(* a fresh tree, or of the other flavor in one that has been built.          *)

CONSTANTS a, alike   \* configurations

MCSymmetry == Permutations(BuildConfig)

--------------------------------------------------------------------------------

(* Hosts with cards of two makers, of which one is old.  On the second no    *)
(* toolkit is on the path, so that ROCm is recommended there, and the first  *)
(* is asked for another one than that on its path.  The third has cards of   *)
(* ROCm but no hipconfig.                                                    *)

L(key, value) == [key |-> key, value |-> value]

Agent(target) ==
  <<L("Agent", 0), L("Name", target), L("Marketing Name", 0), L("Isa", target)>>

CpuAgent == <<L("Agent", 0), L("Name", 0)>>

TwoAmd ==
  [rocminfo |-> CpuAgent \o Agent(1035) \o Agent(1100),
   rocmPackages |-> TRUE, rocmSmi |-> <<8, 24>>, amdSmi |-> <<>>]

OneAmd ==
  [rocminfo |-> Agent(1100), rocmPackages |-> TRUE,
   rocmSmi |-> <<0>>, amdSmi |-> <<24>>]

HostWith(cards, nvcc, override, toolkits, hipconfig, amd) ==
  [gpus |-> [i \in DOMAIN cards |-> [arch |-> cards[i], vram |-> 8]],
   nvcc |-> nvcc, override |-> override, toolkits |-> toolkits,
   hipconfig |-> hipconfig, rocminfo |-> amd.rocminfo, rocmPackages |-> amd.rocmPackages,
   rocmSmi |-> amd.rocmSmi, amdSmi |-> amd.amdSmi]

MCHost ==
  {HostWith(<<61>>, 1204, 1300, <<1300>>, TRUE, OneAmd),
   HostWith(<<61, 89>>, 0, 0, <<1300, 1208>>, TRUE, TwoAmd),
   HostWith(<<61>>, 0, 0, <<>>, FALSE, OneAmd)}

--------------------------------------------------------------------------------

VARIABLE part   \* the part that takes the steps

--------------------------------------------------------------------------------

BuildsInit ==
  /\ part \in {"build", "choice"}
  /\ BuildInit /\ ChoiceInit
  /\ IF part = "build" THEN (flavor = "Prism" <=> tree = NoBuild)
     ELSE flavor = "Upstream" /\ tree = NoBuild
  /\ part # "choice" => host = (CHOOSE h \in Host : TRUE) /\ ~firstRun

BuildsNext ==
  /\ UNCHANGED part
  /\ \/ part = "build" /\ BuildNext /\ UNCHANGED choiceVars
     \/ part = "choice" /\ ChoiceNext /\ UNCHANGED buildVars

BuildsSpec == BuildsInit /\ [][BuildsNext]_<<part, buildVars, choiceVars>>

================================================================================
