----------------------------- MODULE HardwareProbe -----------------------------
(***************************************************************************)
(* The detection of the host (lmml-detect): probes that run vendor tools   *)
(* concurrently, each of which sees the host at a moment of its own, what  *)
(* is read from their output, and the backend that is recommended from it. *)
(* A CUDA architecture is its number, without the suffix of accelerated    *)
(* variants; a toolkit is 100 * major + minor, 0 if there is none.  The    *)
(* probes of compilers, cmake, git, memory and disk only warn and are left *)
(* out; those of Vulkan and of the CPU always find the same.               *)
(***************************************************************************)
EXTENDS Naturals, Sequences, FiniteSets

CONSTANTS
  Host,          \* what a host may look like
  OtherBackend,  \* what it has besides cards of a known target: Vulkan or a kind of CPU
  MaxHostChanges \* how often it changes (a bound)

VARIABLES
  host,        \* the host as it is
  hostChanges, \* how often it changed
  probing,     \* App::detect_running: a detection is under way
  probe,       \* what each probe of it has read
  steady       \* history: whether the host stayed as it was since it began

probeVars == <<host, hostChanges, probing, probe, steady>>

--------------------------------------------------------------------------------

(* compute_cap_to_arch: the compute capabilities that have a name; any other *)
(* is 0.                                                                     *)
KnownArch ==
  {37, 50, 52, 53, 60, 61, 62, 70, 72, 75, 80, 86, 87, 89, 90, 100, 101, 102, 120}

(* normalize_cuda_arch: a target as a build recorded it, in the same spelling. *)
NormalizeArch(a) == IF a \in KnownArch THEN a ELSE 0

CudaArches(gpus) == {gpus[i].arch : i \in DOMAIN gpus} \ {0}

MinimumToolkit(a) ==
  CASE a <= 75 -> 900 [] a \in 80 .. 87 -> 1101 [] a = 89 -> 1108
    [] a = 90 -> 1200 [] a \in 100 .. 102 -> 1204 [] OTHER -> 1300

MaximumMajor(a) == IF a <= 72 THEN 12 ELSE 99

CudaCompatibility(nvcc, gpus) ==
  LET archs == CudaArches(gpus)
  IN IF nvcc = 0 THEN [kind |-> "NvccMissing", archs |-> {}]
     ELSE IF archs = {} THEN [kind |-> "NoGpu", archs |-> {}]
     ELSE IF \A a \in archs : nvcc >= MinimumToolkit(a) /\ nvcc \div 100 <= MaximumMajor(a)
     THEN [kind |-> "Compatible", archs |-> archs]
     ELSE [kind |-> "Incompatible", archs |-> {}]

--------------------------------------------------------------------------------

(* The output of rocminfo is a sequence of lines: an agent begins, has a     *)
(* name, which for a card is its target, a marketing name, and instruction   *)
(* sets whose long names hold targets too.  A target is its number, and 0 is *)
(* any text that is none.                                                    *)
GfxTarget == {1030, 1035, 1100}

NormalizeTarget(t) == IF t = 1035 THEN 1030 ELSE t

(* parse_rocm_targets: any word of the output that is a target. *)
RocmTargets(lines) ==
  {NormalizeTarget(lines[i].value) : i \in {j \in DOMAIN lines : lines[j].value \in GfxTarget}}

(* The device read so far is complete when its agent ends. *)
Flush(s) ==
  IF s.target = 0 THEN s
  ELSE [devices |-> Append(s.devices, [target |-> s.target, vram |-> 0]), target |-> 0]

ReadLine(s, l) ==
  CASE l.key = "Agent" -> Flush(s)
    [] l.key = "Name" /\ l.value \in GfxTarget -> [s EXCEPT !.target = NormalizeTarget(l.value)]
    [] OTHER -> s

(* parse_rocm_devices: an agent whose name is a target is a device. *)
RocmDevices(lines) ==
  LET after[n \in 0 .. Len(lines)] ==
        IF n = 0 THEN [devices |-> <<>>, target |-> 0] ELSE ReadLine(after[n - 1], lines[n])
  IN Flush(after[Len(lines)]).devices

DeviceTargets(devices) == {devices[i].target : i \in DOMAIN devices} \ {0}

(* The targets of the profile, and those of the probe before a launch.       *)
ProfileTargets(lines) ==
  IF RocmDevices(lines) # <<>> THEN DeviceTargets(RocmDevices(lines)) ELSE RocmTargets(lines)

LiveRocmTargets(h) == RocmTargets(h.rocminfo)
LiveCudaArchs(h) == CudaArches(h.gpus)

(* parse_rocm_smi_vram_csv, parse_amd_smi_monitor_vram: a row that cannot be *)
(* read, shown as 0, is left out.                                            *)
VramRows(rows) ==
  LET legible[n \in 0 .. Len(rows)] ==
        IF n = 0 THEN <<>>
        ELSE IF rows[n] > 0 THEN Append(legible[n - 1], rows[n]) ELSE legible[n - 1]
  IN legible[Len(rows)]

(* detect_rocm_vram: amd-smi is asked only if rocm-smi gave no row. *)
VramProbe(h) ==
  IF VramRows(h.rocmSmi) # <<>> THEN VramRows(h.rocmSmi) ELSE VramRows(h.amdSmi)

(* merge_rocm_vram: row by row, by position; a row too many is a device of   *)
(* its own.                                                                  *)
MergeVram(devices, rows) ==
  [i \in 1 .. IF Len(rows) > Len(devices) THEN Len(rows) ELSE Len(devices) |->
     IF i > Len(devices) THEN [target |-> 0, vram |-> rows[i]]
     ELSE IF i <= Len(rows) THEN [devices[i] EXCEPT !.vram = rows[i]]
     ELSE devices[i]]

(* What the tools print.  rocminfo names each agent once; a target that it   *)
(* prints elsewhere is that of an instruction set of one of the agents.      *)
NamesItsTargets(lines) ==
  LET Named == {i \in DOMAIN lines : lines[i].key = "Name" /\ lines[i].value \in GfxTarget} IN
  /\ \A i, j \in Named : i < j => \E k \in i + 1 .. j - 1 : lines[k].key = "Agent"
  /\ \A i \in DOMAIN lines : lines[i].value \in GfxTarget =>
       \E j \in Named : NormalizeTarget(lines[j].value) = NormalizeTarget(lines[i].value)

ASSUME HostAssumption ==
  /\ OtherBackend \in {"Vulkan", "CpuAvx2", "CpuAvx", "CpuFallback"}
  /\ \A h \in Host :
       /\ h.nvcc \in Nat /\ h.override \in Nat /\ h.toolkits \in Seq(Nat)
       /\ h.gpus \in Seq([arch : KnownArch \union {0}, vram : Nat])
       /\ h.rocminfo \in Seq([key : {"Agent", "Name", "Marketing Name", "Isa"}, value : Nat])
       /\ NamesItsTargets(h.rocminfo)
       /\ h.hipconfig \in BOOLEAN /\ h.rocmPackages \in BOOLEAN
       /\ h.rocmSmi \in Seq(Nat) /\ h.amdSmi \in Seq(Nat)

--------------------------------------------------------------------------------

RocmTool == {"cmake", "rocminfo", "smi"}
ProbeName == {"nvcc", "gpus", "hipconfig"} \union RocmTool

NothingRead == [p \in ProbeName |-> <<>>]

(* What a probe reads of the host it sees; the tools of ROCm are asked one   *)
(* after the other, hipconfig first.                                         *)
Reads(p, h) ==
  CASE p = "nvcc"      -> h.nvcc
    [] p = "gpus"      -> h.gpus
    [] p = "hipconfig" -> h.hipconfig
    [] p = "cmake"     -> h.rocmPackages
    [] p = "rocminfo"  -> h.rocminfo
    [] p = "smi"       -> VramProbe(h)

Before(p) ==
  CASE p = "cmake" -> {"hipconfig"} [] p = "rocminfo" -> {"cmake"}
    [] p = "smi" -> {"rocminfo"}    [] OTHER -> {}

HasRead(p) == probe[p] # <<>>
Answer(p) == probe[p][1]

(* detect_rocm returns if there is no hipconfig: the other tools of ROCm are *)
(* not asked.                                                                *)
Skipped == IF HasRead("hipconfig") /\ ~Answer("hipconfig") THEN RocmTool ELSE {}

(* detect_with_runner, once every probe has answered. *)
ProfileOf(Value(_)) ==
  LET targets == IF Value("hipconfig") THEN ProfileTargets(Value("rocminfo")) ELSE {}
  IN [cuda    |-> CudaCompatibility(Value("nvcc"), Value("gpus")),
      gpus    |-> Value("gpus"),
      rocm    |-> targets # {} /\ Value("cmake"),
      targets |-> targets,
      devices |-> IF Value("hipconfig")
                  THEN MergeVram(RocmDevices(Value("rocminfo")), Value("smi")) ELSE <<>>]

Detected == ProfileOf(Answer)

Backend(kind, archs) == [kind |-> kind, archs |-> archs]

NonCudaBackend(profile) ==
  IF profile.rocm THEN Backend("Rocm", profile.targets)
  ELSE Backend(OtherBackend, {})

(* SystemProfile::recommended_backend, on a host that is no Mac. *)
RecommendedBackend(profile) ==
  IF profile.cuda.kind = "Compatible" THEN Backend("Cuda", profile.cuda.archs)
  ELSE NonCudaBackend(profile)

--------------------------------------------------------------------------------

ProbeInit ==
  /\ host \in Host /\ hostChanges = 0
  /\ probing = FALSE /\ probe = NothingRead /\ steady = TRUE

RunDetect ==
  /\ ~probing
  /\ probing' = TRUE /\ probe' = NothingRead /\ steady' = TRUE
  /\ UNCHANGED <<host, hostChanges>>

ReadsHost ==
  /\ \E p \in ProbeName \ Skipped :
       /\ probing /\ ~HasRead(p) /\ \A q \in Before(p) : HasRead(q)
       /\ probe' = [probe EXCEPT ![p] = <<Reads(p, host)>>]
  /\ UNCHANGED <<host, hostChanges, probing, steady>>

AllRead == probing /\ \A p \in ProbeName \ Skipped : HasRead(p)

(* A card, a driver or a toolkit is added, removed or stops to answer. *)
HostChanges ==
  /\ hostChanges < MaxHostChanges /\ hostChanges' = hostChanges + 1
  /\ host' \in Host \ {host}
  /\ steady' = (steady /\ ~probing)
  /\ UNCHANGED <<probing, probe>>

--------------------------------------------------------------------------------

(* What a build is recorded to be for can be compared with what the probe    *)
(* before a launch finds: on the same host, the two ways to read the targets *)
(* of the cards agree.  Without hipconfig, which that probe does not need,   *)
(* the detection knows of no card of ROCm.                                   *)
TargetsComparable ==
  AllRead /\ steady =>
    /\ Detected.targets = IF host.hipconfig THEN LiveRocmTargets(host) ELSE {}
    /\ \A a \in CudaArches(Detected.gpus) :
         NormalizeArch(a) = a /\ a \in LiveCudaArchs(host)

(* If hipconfig is there and rocm-smi could read every card, each card has   *)
(* its own memory, and there are no other devices.                           *)
VramOfItsCard ==
  AllRead /\ steady /\ host.hipconfig
  /\ host.rocmSmi # <<>> /\ (\A i \in DOMAIN host.rocmSmi : host.rocmSmi[i] > 0)
  /\ Len(host.rocmSmi) = Len(RocmDevices(host.rocminfo))
    => /\ DOMAIN Detected.devices = DOMAIN host.rocmSmi
       /\ \A i \in DOMAIN Detected.devices : Detected.devices[i].vram = host.rocmSmi[i]

================================================================================
