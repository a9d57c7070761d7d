----------------------------- MODULE ApprovedLaunch -----------------------------
(***************************************************************************)
(* From an approval to a server that runs under it: `model                 *)
(* approve-template` (model_cli.rs) signs the identities of three          *)
(* configuration files, and `runtime serve-approved`, alone or with a      *)
(* bundle (main.rs), checks them, the files of the deployment snapshot and *)
(* what the server loaded before the gateway opens.  Every file is read at *)
(* a moment of its own, and the operator may change any of them between    *)
(* two.  The gateway from there on is GatewayAdmission.                    *)
(*                                                                         *)
(* A hash is what it is the hash of.                                       *)
(***************************************************************************)
EXTENDS Naturals

CONSTANTS
  ModelFile,   \* contents of the model file
  ServerFile,  \* contents of the llama-server executable
  NoContent,   \* no file
  Argv,        \* command lines of the server
  Prompts,     \* prompt configurations that the operator may write
  Runtimes,    \* runtime configurations that the operator may write
  Deployments, \* deployment manifests that the operator may write
  MaxRewrites, \* how often a configuration file is written again (a bound)
  MaxSwaps     \* how often a snapshot file is changed (a bound)

\* The renderer of a prompt configuration is the executable.
Prompt == [artifact : ModelFile, renderer : ServerFile]
Runtime == [prompt : Prompt, executable : ServerFile, argv : Argv]
Deployment ==
  [prompt : Prompt, runtime : Runtime, artifact : ModelFile,
   model : ModelFile, server : ServerFile]

ASSUME LaunchAssumption ==
  /\ Prompts \subseteq Prompt /\ Runtimes \subseteq Runtime
  /\ Deployments \subseteq Deployment
  /\ NoContent \notin ModelFile \union ServerFile
  /\ MaxRewrites \in Nat /\ MaxSwaps \in Nat

VARIABLES
  prompt, runtime, deployment, \* the configuration files
  modelFile, serverFile,       \* the files of the snapshot
  approvals, \* what the stored receipts approve
  bundle,    \* the bundle file
  approver,  \* what the approving command holds
  launcher,    \* what the launching command holds
  backend,   \* what the server process runs and has loaded
  rewrites, swaps,
  slipped,   \* whether a snapshot file was changed after it was last compared
  killed     \* whether the launch before was killed and its server left

configFiles == <<prompt, runtime, deployment>>
snapshotFiles == <<modelFile, serverFile>>
records == <<approvals, bundle>>
launchVars == <<configFiles, snapshotFiles, records, approver, launcher, backend,
                rewrites, swaps, slipped, killed>>

--------------------------------------------------------------------------------

Approval == [prompt : Prompts, runtime : Runtimes, deployment : Deployments]

ApproverStep == {"idle", "runtime", "deployment", "sign", "bundle", "write"}
LaunchStep ==
  {"idle", "resolve", "prompt", "runtime", "deployment", "model", "server", "admit",
   "bind", "execute", "spawn", "load", "compare", "activate", "serving"}

Blank == [prompt |-> CHOOSE p \in Prompts : TRUE, runtime |-> CHOOSE r \in Runtimes : TRUE,
          deployment |-> CHOOSE d \in Deployments : TRUE]
AnArgv == CHOOSE a \in Argv : TRUE
NoApprover == [step |-> "idle", held |-> Blank, argv |-> AnArgv]
NoLaunch == [step |-> "idle", held |-> Blank, argv |-> AnArgv, receipt |-> Blank]

\* A bundle names a receipt and the options of the launch.
BundleFile == [state : {"none", "torn", "whole"}, receipt : Approval, argv : Argv]
NoBundle == [state |-> "none", receipt |-> Blank, argv |-> AnArgv]

NoBackend == [server |-> NoContent, model |-> NoContent]

\* The type invariant; a server runs from its start on, and a bundle that can be
\* read names a receipt that is stored.
LaunchTypeOK ==
  /\ prompt \in Prompts /\ runtime \in Runtimes /\ deployment \in Deployments
  /\ modelFile \in ModelFile \union {NoContent}
  /\ serverFile \in ServerFile \union {NoContent}
  /\ approvals \subseteq Approval
  /\ bundle \in BundleFile
  /\ bundle.state = "whole" => bundle.receipt \in approvals
  /\ approver \in [step : ApproverStep, held : Approval, argv : Argv]
  /\ launcher \in [step : LaunchStep, held : Approval, argv : Argv, receipt : Approval]
  /\ backend \in [server : ServerFile \union {NoContent}, model : ModelFile \union {NoContent}]
  /\ launcher.step \in {"compare", "activate", "serving"} => backend # NoBackend
  /\ rewrites \in 0 .. MaxRewrites /\ swaps \in 0 .. MaxSwaps
  /\ slipped \in BOOLEAN /\ killed \in BOOLEAN

LaunchInit ==
  /\ prompt \in Prompts /\ runtime \in Runtimes /\ deployment \in Deployments
  /\ modelFile = deployment.model /\ serverFile = deployment.server
  /\ approvals = {} /\ bundle = NoBundle
  /\ approver = NoApprover /\ launcher = NoLaunch
  /\ backend = NoBackend
  /\ rewrites = 0 /\ swaps = 0 /\ slipped = FALSE /\ killed = FALSE

--------------------------------------------------------------------------------
(* model approve-template *)

Approving ==
  UNCHANGED <<configFiles, snapshotFiles, launcher, backend, rewrites, swaps, slipped, killed>>

ApproverReadsPrompt ==
  /\ approver.step = "idle"
  /\ \E a \in Argv :
       approver' = [approver EXCEPT !.step = "runtime", !.held.prompt = prompt, !.argv = a]
  /\ Approving /\ UNCHANGED records

ApproverReadsRuntime ==
  /\ approver.step = "runtime"
  /\ approver' = [approver EXCEPT !.step = "deployment", !.held.runtime = runtime]
  /\ Approving /\ UNCHANGED records

ApproverReadsDeployment ==
  /\ approver.step = "deployment"
  /\ approver' = [approver EXCEPT !.step = "sign", !.held.deployment = deployment]
  /\ Approving /\ UNCHANGED records

\* The receipt is signed and stored (store_approval_receipt is ApprovalAnchor).
\* That the three configurations belong together is not looked at.
SignReceipt ==
  /\ approver.step = "sign"
  /\ approvals' = approvals \union {approver.held}
  /\ approver' = [approver EXCEPT !.step = "bundle"]
  /\ Approving /\ UNCHANGED bundle

\* store_approval_bundle: no file of that name is replaced, also not a torn one.
CreateBundle ==
  /\ approver.step = "bundle"
  /\ bundle.state = "none"
  /\ bundle' = [bundle EXCEPT !.state = "torn"]
  /\ approver' = [approver EXCEPT !.step = "write"]
  /\ Approving /\ UNCHANGED approvals

WriteBundle ==
  /\ approver.step = "write"
  /\ bundle' = [state |-> "whole", receipt |-> approver.held, argv |-> approver.argv]
  /\ approver' = NoApprover
  /\ Approving /\ UNCHANGED approvals

\* It fails, is killed, or was asked for no bundle.
ApproverEnds ==
  /\ approver.step # "idle"
  /\ approver' = NoApprover
  /\ Approving /\ UNCHANGED records

--------------------------------------------------------------------------------
(* runtime serve-approved *)

Launching ==
  UNCHANGED <<configFiles, snapshotFiles, records, approver, rewrites, swaps>>

LaunchTo(next) == launcher' = [launcher EXCEPT !.step = next]

\* The receipt and the command line of a launch are those of its options ...
BeginLaunch ==
  /\ launcher.step = "idle"
  /\ backend = NoBackend
  /\ \E a \in Argv, r \in approvals :
       launcher' = [launcher EXCEPT !.step = "prompt", !.argv = a, !.receipt = r]
  /\ Launching /\ UNCHANGED <<backend, slipped, killed>>

\* ... or of a bundle: load_approval_bundle.
BeginBundleLaunch ==
  /\ launcher.step = "idle"
  /\ backend = NoBackend
  /\ bundle.state = "whole"
  /\ launcher' = [launcher EXCEPT !.step = "resolve", !.argv = bundle.argv,
                                 !.receipt = bundle.receipt]
  /\ Launching /\ UNCHANGED <<backend, slipped, killed>>

\* The configurations, as they are by now, name files of the snapshot.  All that
\* is kept of this is where the files are.
ResolveBundle ==
  /\ launcher.step = "resolve"
  /\ deployment.model = prompt.artifact /\ modelFile # NoContent
  /\ deployment.server = runtime.executable /\ serverFile # NoContent
  /\ LaunchTo("prompt")
  /\ Launching /\ UNCHANGED <<backend, slipped, killed>>

LaunchReadsPrompt ==
  /\ launcher.step = "prompt"
  /\ launcher' = [launcher EXCEPT !.step = "runtime", !.held.prompt = prompt]
  /\ Launching /\ UNCHANGED <<backend, slipped, killed>>

LaunchReadsRuntime ==
  /\ launcher.step = "runtime"
  /\ launcher' = [launcher EXCEPT !.step = "deployment", !.held.runtime = runtime]
  /\ Launching /\ UNCHANGED <<backend, slipped, killed>>

LaunchReadsDeployment ==
  /\ launcher.step = "deployment"
  /\ launcher' = [launcher EXCEPT !.step = "model", !.held.deployment = deployment]
  /\ Launching /\ UNCHANGED <<backend, slipped, killed>>

\* verify_deployment_snapshot, file by file.
VerifyModelFile ==
  /\ launcher.step = "model"
  /\ modelFile = launcher.held.deployment.model
  /\ LaunchTo("server")
  /\ Launching /\ UNCHANGED <<backend, slipped, killed>>

VerifyServerFile ==
  /\ launcher.step = "server"
  /\ serverFile = launcher.held.deployment.server
  /\ LaunchTo("admit")
  /\ Launching /\ UNCHANGED <<backend, slipped, killed>>

\* A receipt that is verified, not revoked and approves what is held, in the
\* words of compute_admission_status.
AdmitLaunch ==
  /\ launcher.step = "admit"
  /\ launcher.held = launcher.receipt
  /\ LaunchTo("bind")
  /\ Launching /\ UNCHANGED <<backend, slipped, killed>>

\* The configurations name each other, the model and the executable, which are
\* files of the snapshot.
Bound(h) ==
  /\ h.deployment.model = h.prompt.artifact
  /\ h.deployment.artifact = h.prompt.artifact
  /\ h.deployment.server = h.runtime.executable
  /\ h.runtime.prompt = h.prompt
  /\ h.deployment.prompt = h.prompt
  /\ h.deployment.runtime = h.runtime

\* The model is hashed, found in the snapshot and parsed, the executable is asked
\* for its capabilities, and the command line is the approved one.
BindLaunch ==
  /\ launcher.step = "bind"
  /\ Bound(launcher.held)
  /\ modelFile = launcher.held.prompt.artifact
  /\ launcher.argv = launcher.held.runtime.argv
  /\ LaunchTo("execute")
  /\ Launching /\ UNCHANGED <<backend, slipped, killed>>

\* The executable is hashed once more, and is the approved renderer.
CompareExecutable ==
  /\ launcher.step = "execute"
  /\ serverFile = launcher.held.runtime.executable
  /\ launcher.held.prompt.renderer = launcher.held.runtime.executable
  /\ LaunchTo("spawn")
  /\ Launching /\ UNCHANGED <<backend, slipped, killed>>

\* start_with_gateway_and_env, with the environment that is approved.
SpawnBackend ==
  /\ launcher.step = "spawn"
  /\ serverFile # NoContent
  /\ backend' = [backend EXCEPT !.server = serverFile]
  /\ LaunchTo("load")
  /\ Launching /\ UNCHANGED <<slipped, killed>>

\* The server loads the model, and answers.
LoadModel ==
  /\ launcher.step = "load"
  /\ modelFile # NoContent
  /\ backend' = [backend EXCEPT !.model = modelFile]
  /\ LaunchTo("compare")
  /\ Launching /\ UNCHANGED <<slipped, killed>>

\* The bytes of the model are those that were hashed before.
ModelUnchanged == modelFile = launcher.held.prompt.artifact

CompareModel ==
  /\ launcher.step = "compare"
  /\ ModelUnchanged
  /\ LaunchTo("activate")
  /\ Launching /\ UNCHANGED <<backend, slipped, killed>>

\* The loaded libraries are the declared ones; activate_if_approved reads the
\* receipt again.
ActivateLaunch ==
  /\ launcher.step = "activate"
  /\ launcher.held = launcher.receipt
  /\ LaunchTo("serving")
  /\ Launching /\ UNCHANGED <<backend, slipped, killed>>

\* A check before the start says no, or a file cannot be read.
RefuseLaunch ==
  /\ launcher.step \in {"resolve", "prompt", "runtime", "deployment", "model", "server", "admit", "bind",
                     "execute", "spawn"}
  /\ launcher' = NoLaunch
  /\ slipped' = FALSE
  /\ Launching /\ UNCHANGED <<backend, killed>>

\* Mutant: the server is left running.
StopBackendNever == UNCHANGED backend

\* ServerHandle::stop, or the end of a start that failed.
StopBackend == backend' = NoBackend

\* The server does not start or answer, its model or its libraries are others,
\* the approval is gone, or the user interrupts it.
StopLaunch ==
  /\ launcher.step \in {"load", "compare", "activate", "serving"}
  /\ launcher' = NoLaunch
  /\ StopBackend
  /\ slipped' = FALSE
  /\ Launching /\ UNCHANGED killed

\* The command is killed, and a server that runs goes on without it.
LaunchKilled ==
  /\ launcher.step # "idle"
  /\ launcher' = NoLaunch
  /\ killed' = (backend # NoBackend)
  /\ slipped' = FALSE
  /\ Launching /\ UNCHANGED backend

\* Somebody ends the server that is left.
LeftServerEnds ==
  /\ launcher.step = "idle"
  /\ backend # NoBackend
  /\ backend' = NoBackend
  /\ killed' = FALSE
  /\ Launching /\ UNCHANGED <<launcher, slipped>>

--------------------------------------------------------------------------------
(* The operator *)

RewriteConfig ==
  /\ rewrites < MaxRewrites
  /\ rewrites' = rewrites + 1
  /\ \/ prompt' \in Prompts \ {prompt} /\ UNCHANGED <<runtime, deployment>>
     \/ runtime' \in Runtimes \ {runtime} /\ UNCHANGED <<prompt, deployment>>
     \/ deployment' \in Deployments \ {deployment} /\ UNCHANGED <<prompt, runtime>>
  /\ UNCHANGED <<snapshotFiles, records, approver, launcher, backend, swaps, slipped, killed>>

\* A file of the snapshot is replaced.  A model that is put back before it is
\* hashed, and an executable that was hashed already, are not noticed.
SwapFile ==
  /\ swaps < MaxSwaps
  /\ swaps' = swaps + 1
  /\ \/ /\ modelFile' \in (ModelFile \union {NoContent}) \ {modelFile}
        /\ slipped' = (slipped \/ launcher.step = "compare")
        /\ UNCHANGED serverFile
     \/ /\ serverFile' \in (ServerFile \union {NoContent}) \ {serverFile}
        /\ slipped' = (slipped \/ launcher.step = "spawn")
        /\ UNCHANGED modelFile
  /\ UNCHANGED <<configFiles, records, approver, launcher, backend, rewrites, killed>>

ApproverNext ==
  \/ ApproverReadsPrompt
  \/ ApproverReadsRuntime
  \/ ApproverReadsDeployment
  \/ SignReceipt
  \/ CreateBundle
  \/ WriteBundle
  \/ ApproverEnds

LaunchNext ==
  \/ ApproverNext
  \/ BeginLaunch
  \/ BeginBundleLaunch
  \/ ResolveBundle
  \/ LaunchReadsPrompt
  \/ LaunchReadsRuntime
  \/ LaunchReadsDeployment
  \/ VerifyModelFile
  \/ VerifyServerFile
  \/ AdmitLaunch
  \/ BindLaunch
  \/ CompareExecutable
  \/ SpawnBackend
  \/ LoadModel
  \/ CompareModel
  \/ ActivateLaunch
  \/ RefuseLaunch
  \/ StopLaunch
  \/ LaunchKilled
  \/ LeftServerEnds
  \/ RewriteConfig
  \/ SwapFile

LaunchSpec == LaunchInit /\ [][LaunchNext]_launchVars

--------------------------------------------------------------------------------
(* Properties. *)

\* What serves is what one receipt approved: the model that the server loaded and
\* the executable that it runs are those of the approved configurations, though
\* every file may have changed between any two of the checks, unless one changed
\* after its last comparison.
ServedAsApproved ==
  launcher.step = "serving" =>
    /\ launcher.held \in approvals
    /\ ~slipped => backend = [server |-> launcher.held.runtime.executable,
                              model |-> launcher.held.prompt.artifact]

\* What serves is one deployment: of configurations that were approved but do not
\* belong together none is opened, though the approval does not look at that.
ServedTogether ==
  launcher.step = "serving" =>
    /\ launcher.held.runtime.prompt = launcher.held.prompt
    /\ launcher.held.deployment.prompt = launcher.held.prompt
    /\ launcher.held.deployment.runtime = launcher.held.runtime
    /\ launcher.held.deployment.artifact = launcher.held.prompt.artifact
    /\ launcher.held.prompt.renderer = launcher.held.deployment.server

\* A launch that was refused at any of its checks, did not come up or was
\* interrupted leaves no server behind; only one that was killed does.
RefusedLeavesNone == launcher.step = "idle" /\ ~killed => backend = NoBackend

(* A server that is up was approved as it runs, as a whole, and one that was *)
(* refused leaves nothing behind.                                            *)
LaunchInv == LaunchTypeOK /\ ServedAsApproved /\ ServedTogether /\ RefusedLeavesNone

================================================================================
