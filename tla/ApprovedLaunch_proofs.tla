-------------------------- MODULE ApprovedLaunch_proofs --------------------------
(***************************************************************************)
(* Proofs about what an approved server rests on: the launch, from the     *)
(* approval on, the publication of the deployment snapshot, and the        *)
(* evidence about an admitted artifact, for any contents, configurations,  *)
(* publishers, commands and number of changes.                             *)
(***************************************************************************)
EXTENDS ApprovedLaunch, DeploymentSnapshot, ModelEvidence, TLAPS

(* The launch. *)

\* The steps of a launch from the admission on, from the binding on, and with a
\* server.
AdmittedStep == {"bind", "execute", "spawn", "load", "compare", "activate", "serving"}
BoundStep == AdmittedStep \ {"bind"}
BackendStep == {"load", "compare", "activate", "serving"}

\* A bundle that is about to be written names a receipt that is stored, and so
\* does a launch.
ReceiptsStored ==
  /\ approver.step \in {"bundle", "write"} => approver.held \in approvals
  /\ launcher.step # "idle" => launcher.receipt \in approvals
  /\ launcher.step \in AdmittedStep => launcher.held = launcher.receipt

LaunchBound ==
  /\ launcher.step \in BoundStep => Bound(launcher.held)
  /\ launcher.step \in BoundStep \ {"execute"} =>
       launcher.held.prompt.renderer = launcher.held.runtime.executable

\* The server is there when the step says so, and what it runs and has loaded
\* is what was compared or is still to be compared.
BackendFollows ==
  /\ launcher.step \notin BackendStep /\ ~killed => backend = NoBackend
  /\ launcher.step # "idle" => ~killed
  /\ launcher.step = "spawn" /\ ~slipped => serverFile = launcher.held.runtime.executable
  /\ launcher.step \in BackendStep =>
       /\ backend.server \in ServerFile
       /\ ~slipped => backend.server = launcher.held.runtime.executable
  /\ launcher.step = "compare" /\ ~slipped => backend.model = modelFile
  /\ launcher.step \in {"activate", "serving"} /\ ~slipped =>
       backend.model = launcher.held.prompt.artifact

KilledLeaves == killed => backend # NoBackend

LaunchIInv == LaunchTypeOK /\ ReceiptsStored /\ LaunchBound /\ BackendFollows /\ KilledLeaves

--------------------------------------------------------------------------------

LEMMA LaunchToFields ==
  ASSUME LaunchTypeOK, NEW s \in LaunchStep, LaunchTo(s)
  PROVE  /\ launcher' \in [step : LaunchStep, held : Approval, argv : Argv, receipt : Approval]
         /\ launcher'.step = s /\ launcher'.held = launcher.held
         /\ launcher'.argv = launcher.argv /\ launcher'.receipt = launcher.receipt
  BY DEF LaunchTypeOK, LaunchTo

LEMMA Blanks ==
  ASSUME LaunchTypeOK
  PROVE  Blank \in Approval /\ AnArgv \in Argv
<1>1. prompt \in Prompts /\ runtime \in Runtimes /\ deployment \in Deployments
  BY DEF LaunchTypeOK
<1>2. runtime.argv \in Argv
  BY <1>1, LaunchAssumption DEF Runtime
<1> QED  BY <1>1, <1>2 DEF Blank, AnArgv, Approval

LEMMA HeldTyped ==
  ASSUME NEW h \in Approval, NEW p \in Prompts, NEW r \in Runtimes, NEW d \in Deployments
  PROVE  /\ [h EXCEPT !.prompt = p] \in Approval
         /\ [h EXCEPT !.runtime = r] \in Approval
         /\ [h EXCEPT !.deployment = d] \in Approval
  BY DEF Approval

\* What reading a configuration changes.
LEMMA ApproverReads ==
  ASSUME LaunchTypeOK, ApproverReadsPrompt \/ ApproverReadsRuntime \/ ApproverReadsDeployment
  PROVE  /\ \E s \in {"runtime", "deployment", "sign"}, h \in Approval, a \in Argv :
              approver' = [step |-> s, held |-> h, argv |-> a]
         /\ Approving /\ UNCHANGED records
<1> USE DEF LaunchTypeOK
<1>0. /\ [approver.held EXCEPT !.prompt = prompt] \in Approval
      /\ [approver.held EXCEPT !.runtime = runtime] \in Approval
      /\ [approver.held EXCEPT !.deployment = deployment] \in Approval
      /\ approver.argv \in Argv
  BY HeldTyped
<1>1. CASE ApproverReadsPrompt
  <2>1. \E a \in Argv :
          approver' = [step |-> "runtime", held |-> [approver.held EXCEPT !.prompt = prompt], argv |-> a]
    BY <1>1 DEF ApproverReadsPrompt
  <2> QED  BY <1>0, <1>1, <2>1 DEF ApproverReadsPrompt
<1>2. CASE ApproverReadsRuntime
  <2>1. approver' = [step |-> "deployment", argv |-> approver.argv,
                     held |-> [approver.held EXCEPT !.runtime = runtime]]
    BY <1>2 DEF ApproverReadsRuntime
  <2> QED  BY <1>0, <1>2, <2>1 DEF ApproverReadsRuntime
<1>3. CASE ApproverReadsDeployment
  <2>1. approver' = [step |-> "sign", argv |-> approver.argv,
                     held |-> [approver.held EXCEPT !.deployment = deployment]]
    BY <1>3 DEF ApproverReadsDeployment
  <2> QED  BY <1>0, <1>3, <2>1 DEF ApproverReadsDeployment
<1> QED  BY <1>1, <1>2, <1>3

LEMMA LaunchReads ==
  ASSUME LaunchTypeOK, LaunchReadsPrompt \/ LaunchReadsRuntime \/ LaunchReadsDeployment
  PROVE  /\ \E s \in {"runtime", "deployment", "model"}, h \in Approval :
              launcher' = [step |-> s, held |-> h, argv |-> launcher.argv, receipt |-> launcher.receipt]
         /\ launcher.step \in {"prompt", "runtime", "deployment"}
         /\ Launching /\ UNCHANGED <<backend, slipped, killed>>
<1> USE DEF LaunchTypeOK
<1>0. /\ [launcher.held EXCEPT !.prompt = prompt] \in Approval
      /\ [launcher.held EXCEPT !.runtime = runtime] \in Approval
      /\ [launcher.held EXCEPT !.deployment = deployment] \in Approval
  BY HeldTyped
<1>1. CASE LaunchReadsPrompt
  <2>1. launcher' = [step |-> "runtime", argv |-> launcher.argv, receipt |-> launcher.receipt,
                     held |-> [launcher.held EXCEPT !.prompt = prompt]]
    BY <1>1 DEF LaunchReadsPrompt
  <2> QED  BY <1>0, <1>1, <2>1 DEF LaunchReadsPrompt
<1>2. CASE LaunchReadsRuntime
  <2>1. launcher' = [step |-> "deployment", argv |-> launcher.argv, receipt |-> launcher.receipt,
                     held |-> [launcher.held EXCEPT !.runtime = runtime]]
    BY <1>2 DEF LaunchReadsRuntime
  <2> QED  BY <1>0, <1>2, <2>1 DEF LaunchReadsRuntime
<1>3. CASE LaunchReadsDeployment
  <2>1. launcher' = [step |-> "model", argv |-> launcher.argv, receipt |-> launcher.receipt,
                     held |-> [launcher.held EXCEPT !.deployment = deployment]]
    BY <1>3 DEF LaunchReadsDeployment
  <2> QED  BY <1>0, <1>3, <2>1 DEF LaunchReadsDeployment
<1> QED  BY <1>1, <1>2, <1>3

LEMMA LaunchBegins ==
  ASSUME LaunchTypeOK
  PROVE  /\ BeginLaunch => \E a \in Argv, r \in approvals :
              launcher' = [step |-> "prompt", held |-> launcher.held, argv |-> a, receipt |-> r]
         /\ BeginBundleLaunch =>
              /\ bundle.state = "whole"
              /\ launcher' = [step |-> "resolve", held |-> launcher.held, argv |-> bundle.argv,
                              receipt |-> bundle.receipt]
         /\ BeginLaunch \/ BeginBundleLaunch =>
              /\ launcher.step = "idle" /\ backend = NoBackend
              /\ Launching /\ UNCHANGED <<backend, slipped, killed>>
  BY DEF LaunchTypeOK, BeginLaunch, BeginBundleLaunch

LEMMA BundleFields ==
  ASSUME LaunchTypeOK
  PROVE  bundle.receipt \in Approval /\ bundle.argv \in Argv
  BY DEF LaunchTypeOK, BundleFile

LEMMA LaunchStepKeeps ==
  ASSUME LaunchIInv, LaunchNext
  PROVE  LaunchIInv'
<1> USE LaunchAssumption
    DEF LaunchIInv, LaunchTypeOK, ReceiptsStored, LaunchBound, BackendFollows, KilledLeaves,
        AdmittedStep, BoundStep, BackendStep, LaunchStep, ApproverStep, Launching, Approving,
        configFiles, snapshotFiles, records, NoBackend
<1>0. Blank \in Approval /\ AnArgv \in Argv
  BY Blanks
<1>1. CASE ApproverReadsPrompt
  BY <1>0, <1>1, ApproverReads
<1>2. CASE ApproverReadsRuntime
  BY <1>0, <1>2, ApproverReads
<1>3. CASE ApproverReadsDeployment
  BY <1>0, <1>3, ApproverReads
<1>4. CASE SignReceipt
  BY <1>0, <1>4, LaunchToFields DEF SignReceipt, Approval
<1>5. CASE CreateBundle
  BY <1>0, <1>5, LaunchToFields DEF CreateBundle, BundleFile
<1>6. CASE WriteBundle
  BY <1>0, <1>6, LaunchToFields DEF WriteBundle, BundleFile, NoApprover
<1>7. CASE ApproverEnds
  BY <1>0, <1>7, LaunchToFields DEF ApproverEnds, NoApprover
<1>8. CASE BeginLaunch
  BY <1>0, <1>8, LaunchBegins
<1>9. CASE BeginBundleLaunch
  <2>1. bundle.receipt \in Approval /\ bundle.argv \in Argv
    BY BundleFields
  <2>2. bundle.state = "whole"
    BY <1>9, LaunchBegins
  <2>3. bundle.receipt \in approvals
    BY <2>2
  <2> QED  BY <1>9, <2>1, <2>3, LaunchBegins
<1>10. CASE ResolveBundle
  BY <1>0, <1>10, LaunchToFields DEF ResolveBundle
<1>11. CASE LaunchReadsPrompt
  BY <1>0, <1>11, LaunchReads
<1>12. CASE LaunchReadsRuntime
  BY <1>0, <1>12, LaunchReads
<1>13. CASE LaunchReadsDeployment
  BY <1>0, <1>13, LaunchReads
<1>14. CASE VerifyModelFile
  BY <1>0, <1>14, LaunchToFields DEF VerifyModelFile
<1>15. CASE VerifyServerFile
  BY <1>0, <1>15, LaunchToFields DEF VerifyServerFile
<1>16. CASE AdmitLaunch
  BY <1>0, <1>16, LaunchToFields DEF AdmitLaunch
<1>17. CASE BindLaunch
  BY <1>0, <1>17, LaunchToFields DEF BindLaunch, Approval, Prompt, Runtime, Bound
<1>18. CASE CompareExecutable
  BY <1>0, <1>18, LaunchToFields DEF CompareExecutable, Approval, Prompt, Runtime, Bound
<1>19. CASE SpawnBackend
  BY <1>0, <1>19, LaunchToFields DEF SpawnBackend, Approval, Prompt, Runtime, Bound
<1>20. CASE LoadModel
  BY <1>0, <1>20, LaunchToFields DEF LoadModel, Approval, Prompt, Runtime, Bound
<1>21. CASE CompareModel
  BY <1>0, <1>21, LaunchToFields DEF CompareModel, ModelUnchanged, Approval, Prompt, Runtime, Bound
<1>22. CASE ActivateLaunch
  BY <1>0, <1>22, LaunchToFields DEF ActivateLaunch, Approval, Prompt, Runtime, Bound
<1>23. CASE RefuseLaunch
  BY <1>0, <1>23, LaunchToFields DEF RefuseLaunch, NoLaunch
<1>24. CASE StopLaunch
  BY <1>0, <1>24, LaunchToFields DEF StopLaunch, NoLaunch, StopBackend
<1>25. CASE LaunchKilled
  BY <1>0, <1>25, LaunchToFields DEF LaunchKilled, NoLaunch
<1>26. CASE LeftServerEnds
  BY <1>0, <1>26, LaunchToFields DEF LeftServerEnds
<1>27. CASE RewriteConfig
  BY <1>0, <1>27, LaunchToFields DEF RewriteConfig
<1>28. CASE SwapFile
  <2>1. slipped' \in BOOLEAN /\ (slipped => slipped')
    BY <1>28 DEF SwapFile
  <2>2. CASE serverFile' = serverFile
    <3>1. launcher.step = "compare" => slipped'
      BY <1>28, <2>2 DEF SwapFile
    <3> QED  BY <1>28, <2>1, <2>2, <3>1 DEF SwapFile
  <2>3. CASE modelFile' = modelFile
    <3>1. launcher.step = "spawn" => slipped'
      BY <1>28, <2>3 DEF SwapFile
    <3> QED  BY <1>28, <2>1, <2>3, <3>1 DEF SwapFile
  <2> QED  BY <1>28, <2>2, <2>3 DEF SwapFile
<1> QED  BY <1>1, <1>2, <1>3, <1>4, <1>5, <1>6, <1>7, <1>8, <1>9, <1>10, <1>11, <1>12, <1>13, <1>14, <1>15, <1>16, <1>17, <1>18, <1>19, <1>20, <1>21, <1>22, <1>23, <1>24, <1>25, <1>26, <1>27, <1>28 DEF LaunchNext, ApproverNext
\* Every reachable state satisfies the inductive invariant: from an approval to a
\* server that runs, each check made leaves behind what the later ones rest on.
THEOREM LaunchIInvCorrect == LaunchSpec => []LaunchIInv
<1>1. LaunchInit => LaunchIInv
  <2> SUFFICES ASSUME LaunchInit PROVE LaunchIInv
    OBVIOUS
  <2>1. Blank \in Approval /\ AnArgv \in Argv
    <3>1. runtime.argv \in Argv
      BY LaunchAssumption DEF LaunchInit, Runtime
    <3> QED  BY <3>1 DEF LaunchInit, Blank, AnArgv, Approval
  <2>2. bundle \in BundleFile /\ bundle.state = "none"
    BY <2>1 DEF LaunchInit, NoBundle, BundleFile
  <2>3. /\ approver \in [step : ApproverStep, held : Approval, argv : Argv]
        /\ approver.step = "idle"
    BY <2>1 DEF LaunchInit, NoApprover, ApproverStep
  <2>4. /\ launcher \in [step : LaunchStep, held : Approval, argv : Argv, receipt : Approval]
        /\ launcher.step = "idle"
    BY <2>1 DEF LaunchInit, NoLaunch, LaunchStep
  <2>5. modelFile \in ModelFile /\ serverFile \in ServerFile
    BY LaunchAssumption DEF LaunchInit, Deployment
  <2>6. backend = NoBackend /\ ~killed /\ slipped = FALSE /\ killed = FALSE
    BY DEF LaunchInit
  <2>7. LaunchTypeOK
    <3>1. backend \in [server : ServerFile \union {NoContent}, model : ModelFile \union {NoContent}]
      BY <2>6 DEF NoBackend
    <3>2. /\ prompt \in Prompts /\ runtime \in Runtimes /\ deployment \in Deployments
          /\ approvals = {} /\ rewrites = 0 /\ swaps = 0
      BY DEF LaunchInit
    <3>3. rewrites \in 0 .. MaxRewrites /\ swaps \in 0 .. MaxSwaps
      BY <3>2, LaunchAssumption
    <3> QED  BY <2>2, <2>3, <2>4, <2>5, <2>6, <3>1, <3>2, <3>3 DEF LaunchTypeOK
  <2> QED  BY <2>3, <2>4, <2>6, <2>7
              DEF LaunchIInv, ReceiptsStored, LaunchBound, BackendFollows, KilledLeaves,
                  AdmittedStep, BoundStep, BackendStep
<1>2. LaunchIInv /\ [LaunchNext]_launchVars => LaunchIInv'
  <2> SUFFICES ASSUME LaunchIInv, [LaunchNext]_launchVars PROVE LaunchIInv'
    OBVIOUS
  <2>1. CASE LaunchNext
    BY <2>1, LaunchStepKeeps
  <2>2. CASE UNCHANGED launchVars
    BY <2>2 DEF launchVars, configFiles, snapshotFiles, records, LaunchIInv, LaunchTypeOK,
                ReceiptsStored, LaunchBound, BackendFollows, KilledLeaves
  <2> QED  BY <2>1, <2>2
<1> QED  BY <1>1, <1>2, PTL DEF LaunchSpec

\* What serves is one deployment that one stored receipt approves, run by the
\* executable and with the model of that receipt, unless a file was changed after
\* its last comparison; a launch that did not come up leaves no server.  For any
\* contents, configurations and number of changes between any two of the checks.
THEOREM LaunchCorrect == LaunchSpec => []LaunchInv
<1>1. LaunchIInv => LaunchInv
  <2> SUFFICES ASSUME LaunchIInv PROVE LaunchInv
    OBVIOUS
  <2>1. ServedAsApproved
    <3> SUFFICES ASSUME launcher.step = "serving"
                 PROVE  /\ launcher.held \in approvals
                        /\ ~slipped => backend = [server |-> launcher.held.runtime.executable,
                                                  model |-> launcher.held.prompt.artifact]
      BY DEF ServedAsApproved
    <3>1. launcher.held \in approvals
      BY DEF LaunchIInv, ReceiptsStored, AdmittedStep
    <3>2. ~slipped => /\ backend.server = launcher.held.runtime.executable
                      /\ backend.model = launcher.held.prompt.artifact
      BY DEF LaunchIInv, BackendFollows, BackendStep
    <3>3. backend \in [server : ServerFile \union {NoContent}, model : ModelFile \union {NoContent}]
      BY DEF LaunchIInv, LaunchTypeOK
    <3> QED  BY <3>1, <3>2, <3>3
  <2>2. ServedTogether
    BY DEF ServedTogether, LaunchIInv, LaunchBound, BoundStep, AdmittedStep, Bound
  <2>3. RefusedLeavesNone
    BY DEF RefusedLeavesNone, LaunchIInv, BackendFollows, BackendStep
  <2> QED  BY <2>1, <2>2, <2>3 DEF LaunchInv, LaunchIInv
<1> QED  BY <1>1, LaunchIInvCorrect, PTL

--------------------------------------------------------------------------------
(* The publication of the snapshot. *)

\* What a publisher has done so far is what it goes on from.
PublisherProgress(k) ==
  LET q == publisher[k] IN
    /\ q.step \in {"idle", "lookup", "rename"} => q.place = 1
    /\ q.step = "hash" /\ q.place = 2 => q.identity[1] \in Bytes
    /\ q.step = "copy" /\ q.place = 2 => q.copied[1] = q.identity[1]
    /\ q.step = "rename" => q.copied = q.identity
    /\ q.step = "verify" => q.identity \in visible
    /\ q.step = "verify" /\ q.place = 2 /\ k \notin unsteady =>
         published[q.identity][1] = q.identity[1]

SnapshotIInv == SnapshotInv /\ \A k \in Publisher : PublisherProgress(k)

--------------------------------------------------------------------------------

LEMMA TwoParts == Part = {1, 2}
  BY DEF Part

LEMMA HashedEntry ==
  ASSUME NEW q \in Publication, NEW b, NEW p
  PROVE  [q EXCEPT !.identity[p] = b] =
           [step |-> q.step, place |-> q.place, copied |-> q.copied,
            identity |-> [q.identity EXCEPT ![p] = b]]
  BY DEF Publication

LEMMA CopiedEntry ==
  ASSUME NEW q \in Publication, NEW b, NEW p
  PROVE  [q EXCEPT !.copied[p] = b] =
           [step |-> q.step, place |-> q.place, identity |-> q.identity,
            copied |-> [q.copied EXCEPT ![p] = b]]
  BY DEF Publication

LEMMA OnwardToSecond ==
  ASSUME NEW k, NEW t, NEW e, NEW s, NEW i, NEW c,
         e = [step |-> s, place |-> 1, identity |-> i, copied |-> c],
         publisher[k].place = 1, Onward(k, t, e)
  PROVE  publisher' = [publisher EXCEPT ![k] = [step |-> s, place |-> 2, identity |-> i, copied |-> c]]
<1>1. publisher[k].place + 1 = 2 /\ 2 \in Part
  BY DEF Part
<1>2. [e EXCEPT !.place = 2] = [step |-> s, place |-> 2, identity |-> i, copied |-> c]
  OBVIOUS
<1> QED  BY <1>1, <1>2 DEF Onward

LEMMA OnwardToEnd ==
  ASSUME NEW k, NEW t, NEW e, NEW s, NEW i, NEW c,
         e = [step |-> s, place |-> 2, identity |-> i, copied |-> c],
         publisher[k].place = 2, Onward(k, t, e)
  PROVE  publisher' = [publisher EXCEPT ![k] = [step |-> t, place |-> 1, identity |-> i, copied |-> c]]
<1>1. publisher[k].place + 1 \notin Part
  BY DEF Part
<1>2. [e EXCEPT !.place = 1, !.step = t] = [step |-> t, place |-> 1, identity |-> i, copied |-> c]
  <2> DEFINE f == [e EXCEPT !.place = 1, !.step = t]
  <2>1. f = [x \in {"step", "place", "identity", "copied"} |->
               IF x = "step" THEN t ELSE IF x = "place" THEN 1 ELSE e[x]]
    OBVIOUS
  <2> QED  BY <2>1
<1> QED  BY <1>1, <1>2 DEF Onward

\* A publisher that goes on keeps the invariant if its new place has what it
\* goes on from.
LEMMA PublisherGoesOn ==
  ASSUME SnapshotIInv, NEW k \in Publisher, NEW r \in Publication,
         publisher' = [publisher EXCEPT ![k] = r],
         Unpublished, UNCHANGED <<input, inputEdits, unsteady>>,
         r.step \notin {"idle", "hash"} => r.identity \in Content,
         PublisherProgress(k)'
  PROVE  SnapshotIInv'
BY DEF SnapshotIInv, SnapshotInv, SnapshotTypeOK, SnapshotWhole, PublisherProgress, Unpublished

\* A step of a publisher keeps the invariant.
LEMMA SnapshotStepKeeps ==
  ASSUME SnapshotIInv, NEW k \in Publisher, SnapshotStep(k)
  PROVE  SnapshotIInv'
<1> DEFINE q == publisher[k]
<1> USE SnapshotAssumption, TwoParts
    DEF SnapshotIInv, SnapshotInv, SnapshotTypeOK, SnapshotWhole, PublisherProgress, Publication,
        Content, Tree
<1>0. q \in Publication
  OBVIOUS
<1>1. CASE BeginPublish(k)
  BY <1>1 DEF BeginPublish, Unpublished
<1>2. CASE HashInput(k)
  <2>1. input[q.place] \in Bytes /\ q.step = "hash"
    BY <1>0, <1>2 DEF HashInput
  <2>e. Onward(k, "lookup",
               [step |-> q.step, place |-> q.place, copied |-> q.copied,
                identity |-> [q.identity EXCEPT ![q.place] = input[q.place]]])
    <3>1. Onward(k, "lookup", [q EXCEPT !.identity[q.place] = input[q.place]])
      BY <1>2 DEF HashInput
    <3> QED  BY <1>0, <3>1, HashedEntry
  <2>2. CASE q.place = 1
    <3> DEFINE r == [step |-> "hash", place |-> 2, copied |-> q.copied,
                     identity |-> [q.identity EXCEPT ![1] = input[1]]]
    <3>1. publisher' = [publisher EXCEPT ![k] = r]
      BY <2>1, <2>e, <2>2, OnwardToSecond
    <3>2. r \in Publication /\ r.identity[1] \in Bytes
      BY <1>0, <2>1, <2>2
    <3>3. PublisherProgress(k)'
      BY <3>1, <3>2
    <3> QED  BY <1>2, <3>1, <3>2, <3>3, PublisherGoesOn DEF HashInput
  <2>3. CASE q.place = 2
    <3> DEFINE r == [step |-> "lookup", place |-> 1, copied |-> q.copied,
                     identity |-> [q.identity EXCEPT ![2] = input[2]]]
    <3>1. publisher' = [publisher EXCEPT ![k] = r]
      BY <2>1, <2>e, <2>3, OnwardToEnd
    <3>2. r \in Publication /\ r.identity \in Content
      BY <1>0, <2>1, <2>3
    <3>3. PublisherProgress(k)'
      BY <3>1, <3>2
    <3> QED  BY <1>2, <3>1, <3>2, <3>3, PublisherGoesOn DEF HashInput
  <2> QED  BY <1>0, <2>2, <2>3
<1>3. CASE LookUp(k)
  BY <1>3 DEF LookUp, Unpublished
<1>4. CASE VerifyPublished(k)
  BY <1>4 DEF VerifyPublished, SameAsPublished, Unpublished
<1>5. CASE FindPublished(k)
  BY <1>5 DEF FindPublished, Leave, NoPublication, NoTree, Unpublished
<1>6. CASE CopyInput(k)
  <2>1. input[q.place] \in Bytes /\ q.step = "copy" /\ input[q.place] = q.identity[q.place]
    BY <1>0, <1>6 DEF CopyInput, CopiedAsHashed
  <2>e. Onward(k, "rename",
               [step |-> q.step, place |-> q.place, identity |-> q.identity,
                copied |-> [q.copied EXCEPT ![q.place] = input[q.place]]])
    <3>1. Onward(k, "rename", [q EXCEPT !.copied[q.place] = input[q.place]])
      BY <1>6 DEF CopyInput
    <3> QED  BY <1>0, <3>1, CopiedEntry
  <2>2. CASE q.place = 1
    <3> DEFINE r == [step |-> "copy", place |-> 2, identity |-> q.identity,
                     copied |-> [q.copied EXCEPT ![1] = input[1]]]
    <3>1. publisher' = [publisher EXCEPT ![k] = r]
      BY <2>1, <2>e, <2>2, OnwardToSecond
    <3>2. r \in Publication /\ r.copied[1] = r.identity[1] /\ r.identity \in Content
      BY <1>0, <2>1, <2>2
    <3>3. PublisherProgress(k)'
      BY <3>1, <3>2
    <3> QED  BY <1>6, <3>1, <3>2, <3>3, PublisherGoesOn DEF CopyInput
  <2>3. CASE q.place = 2
    <3> DEFINE r == [step |-> "rename", place |-> 1, identity |-> q.identity,
                     copied |-> [q.copied EXCEPT ![2] = input[2]]]
    <3>1. publisher' = [publisher EXCEPT ![k] = r]
      BY <2>1, <2>e, <2>3, OnwardToEnd
    <3>2. r \in Publication /\ r.copied = r.identity /\ r.identity \in Content
      BY <1>0, <2>1, <2>3
    <3>3. PublisherProgress(k)'
      BY <3>1, <3>2
    <3> QED  BY <1>6, <3>1, <3>2, <3>3, PublisherGoesOn DEF CopyInput
  <2> QED  BY <1>0, <2>2, <2>3
<1>7. CASE PublishTree(k)
  BY <1>7 DEF PublishTree, Leave, NoPublication, NoTree
<1>8. CASE TreeTaken(k)
  BY <1>8 DEF TreeTaken, NoTree, Unpublished
<1>9. CASE PublishFails(k)
  BY <1>9 DEF PublishFails, Leave, NoPublication, NoTree, Unpublished
<1> QED  BY <1>1, <1>2, <1>3, <1>4, <1>5, <1>6, <1>7, <1>8, <1>9 DEF SnapshotStep

\* What a publisher has hashed, copied and found is what its next step rests on.
THEOREM SnapshotIInvCorrect == SnapshotSpec => []SnapshotIInv
<1> USE SnapshotAssumption, TwoParts
    DEF SnapshotIInv, SnapshotInv, SnapshotTypeOK, SnapshotWhole, PublisherProgress, Publication,
        Content, Tree
<1>1. SnapshotInit => SnapshotIInv
  BY DEF SnapshotInit, NoPublication, NoTree
<1>2. SnapshotIInv /\ [SnapshotNext]_snapshotVars => SnapshotIInv'
  <2> SUFFICES ASSUME SnapshotIInv, [SnapshotNext]_snapshotVars
               PROVE  SnapshotIInv'
    OBVIOUS
  <2>1. CASE UNCHANGED snapshotVars
    BY <2>1 DEF snapshotVars
  <2>2. ASSUME NEW p \in Part, EditInput(p)
        PROVE  SnapshotIInv'
    BY <2>2 DEF EditInput, Unpublished
  <2>3. ASSUME NEW c \in Content, NEW p \in Part, DamagePublished(c, p)
        PROVE  SnapshotIInv'
    BY <2>3 DEF DamagePublished
  <2> QED  BY <2>1, <2>2, <2>3, SnapshotStepKeeps DEF SnapshotNext
<1> QED  BY <1>1, <1>2, PTL DEF SnapshotSpec

\* What is visible under an identity is a whole tree of it, for any number of
\* publishers and edits of the input.
THEOREM SnapshotCorrect == SnapshotSpec => []SnapshotInv
<1>1. SnapshotIInv => SnapshotInv
  BY DEF SnapshotIInv
<1> QED  BY <1>1, SnapshotIInvCorrect, PTL

\* A publisher that says a deployment is there ends on the tree of the identity
\* it hashed, unless that was damaged while it looked.
THEOREM PublicationCorrect == SnapshotSpec => PublicationHolds
<1>1. SnapshotIInv /\ [SnapshotNext]_snapshotVars =>
        [\A k \in Publisher :
           (FindPublished(k) \/ PublishTree(k)) /\ k \notin unsteady =>
             published'[publisher[k].identity] = publisher[k].identity]_snapshotVars
  <2> SUFFICES ASSUME SnapshotIInv, NEW k \in Publisher, k \notin unsteady,
                      FindPublished(k) \/ PublishTree(k)
               PROVE  published'[publisher[k].identity] = publisher[k].identity
    OBVIOUS
  <2> USE SnapshotAssumption, TwoParts
      DEF SnapshotIInv, SnapshotInv, SnapshotTypeOK, PublisherProgress, Publication, Content, Tree
  <2>1. CASE FindPublished(k)
    BY <2>1 DEF FindPublished, SameAsPublished, Unpublished
  <2>2. CASE PublishTree(k)
    BY <2>2 DEF PublishTree
  <2> QED  BY <2>1, <2>2
<1> QED  BY <1>1, SnapshotIInvCorrect, PTL DEF SnapshotSpec, PublicationHolds

--------------------------------------------------------------------------------
(* Evidence about an admitted artifact. *)

RuntimeRecord ==
  [pid : ProcessId \union {"none"}, endpoint : Endpoint \union {"none"},
   identity : Process \union {Exited}]

WitnessRecord ==
  [step : EvidenceStep, command : {"none", "register", "request", "baseline"},
   subject : RuntimeId \union {0}, runtime : RuntimeRecord, held : BOOLEAN, since : 0 .. 2,
   todo : SUBSET RuntimeId, passed : SUBSET RuntimeId, outputs : Seq(FileBytes),
   extra : ExtraArgs \union {{}}]

\* A runtime of which the binding of its process is complete.
Named(t) == t.pid \in ProcessId /\ t.endpoint \in Endpoint
Identified(t) == t.identity.model = "artifact" /\ t.identity.context > 0

Enrolled(rs) == {r \in RuntimeId : rs[r] # NoRuntime}

\* What command w works on, when rs are the registered runtimes.
WorksOn(w, rs) ==
  /\ w.step = "idle" => w = Bystander
  /\ w.command = "none" => w.step = "idle"
  /\ w.command = "register" =>
       /\ w.step \notin {"idle", "next", "case"}
       /\ Named(w.runtime) /\ w.subject \in RuntimeId
       /\ w.step \notin {"hash", "inspect"} => Identified(w.runtime)
  /\ w.command = "request" =>
       /\ w.step \notin {"idle", "case"}
       /\ w.todo \union w.passed \subseteq Enrolled(rs)
       /\ w.todo \cap w.passed = {}
       /\ w.step \notin {"next", "store"} =>
            /\ w.subject \in Enrolled(rs) \ (w.todo \union w.passed)
            /\ w.runtime = rs[w.subject] /\ Named(w.runtime)

\* What it has seen is so, or was so when it asked the endpoint, as long as the world
\* changed at most once: what it looks at before that and after it cannot both have
\* been in place if one of the two was not in between.
Watches(w, f, ps) ==
  LET whole == f = Admitted
      same == ps[w.runtime.pid] = w.runtime.identity
  IN w.command \in {"register", "request"} =>
       /\ w.step = "inspect" /\ w.command = "register" => (w.since = 0 => whole)
       /\ w.step = "hash" /\ w.command = "request" => (w.since = 0 => same)
       /\ w.step \in {"health", "serve"} =>
            /\ w.since = 0 => whole /\ same
            /\ w.since = 1 => whole \/ same
       /\ w.step = "rehash" =>
            /\ w.since = 0 => w.held /\ whole /\ same
            /\ w.since = 1 => w.held \/ (whole /\ ~same) \/ (~whole /\ same)
       /\ w.step = "reinspect" =>
            /\ w.since = 0 => w.held /\ same
            /\ w.since = 1 => w.held \/ ~same
       /\ w.step = "store" /\ w.command = "register" => w.held \/ w.since = 2
       /\ w.step = "next" /\ w.subject \in w.passed => w.held \/ w.since = 2

\* The outputs of a baseline so far are of the admitted bytes, or they are no longer
\* there when the file is hashed again.
AllAdmitted(w) == \A i \in DOMAIN w.outputs : w.outputs[i] = Admitted

Runs(w, f) ==
  w.command = "baseline" =>
    /\ w.step \in {"hash", "case", "rehash", "store"}
    /\ \A a \in w.extra : ~Reserved(a)
    /\ w.extra \in ExtraArgs
    /\ w.step = "hash" => w.outputs = <<>>
    /\ w.step = "case" => Len(w.outputs) < Cases
    /\ w.step \in {"rehash", "store"} => Len(w.outputs) = Cases
    /\ w.step \in {"case", "rehash"} =>
         /\ w.since = 0 => f = Admitted /\ AllAdmitted(w)
         /\ w.since = 1 => f # Admitted \/ AllAdmitted(w)
    /\ w.step = "store" => AllAdmitted(w) \/ w.since = 2

WitnessOK(w, f, ps, rs) ==
  w \in WitnessRecord /\ WorksOn(w, rs) /\ Watches(w, f, ps) /\ Runs(w, f)

LeaseKept == lease # NoLease => lease.runtime \in Enrolled(runtimes) /\ lease.of = runtimes[lease.runtime]

EvidenceStores ==
  /\ file \in FileBytes
  /\ process \in [ProcessId -> Process \union {Exited}]
  /\ runtimes \in [RuntimeId -> RuntimeRecord]
  /\ \A r \in RuntimeId : runtimes[r] = NoRuntime \/ (Named(runtimes[r]) /\ Identified(runtimes[r]))
  /\ LeaseKept
  /\ baseline # NoBaseline => Len(baseline.outputs) = Cases
  /\ FixedOnce
  /\ changes \in 0 .. MaxChange

EvidenceIInv ==
  /\ EvidenceStores
  /\ witness = [k \in Witness |-> witness[k]]
  /\ \A k \in Witness : WitnessOK(witness[k], file, process, runtimes)

\* A command is in one place, and what the others know stays.
LEMMA EvidenceTurn ==
  ASSUME EvidenceIInv, NEW k \in Witness, NEW w,
         Turn(k, w), WitnessOK(w, file', process', runtimes'), EvidenceStores',
         UNCHANGED <<file, process>>,
         \A r \in Enrolled(runtimes) : r \in Enrolled(runtimes') /\ runtimes'[r] = runtimes[r]
  PROVE  EvidenceIInv'
<1>1. witness' = [witness EXCEPT ![k] = w]
  BY DEF Turn
<1>2. witness' = [j \in Witness |-> witness'[j]] /\ witness'[k] = w
  BY <1>1 DEF EvidenceIInv
<1>3. ASSUME NEW j \in Witness, j # k
      PROVE  WitnessOK(witness'[j], file', process', runtimes')
  <2>1. witness'[j] = witness[j]
    BY <1>1, <1>3
  <2>2. WitnessOK(witness[j], file, process, runtimes)
    BY DEF EvidenceIInv
  <2>3. WorksOn(witness[j], runtimes')
    BY <2>2 DEF WitnessOK, WorksOn
  <2> QED
    BY <2>1, <2>2, <2>3 DEF WitnessOK, Watches, Runs
<1> QED
  BY <1>2, <1>3 DEF EvidenceIInv

\* A step of a command that only looks.
LEMMA ObservingTurn ==
  ASSUME EvidenceIInv, NEW k \in Witness, NEW w, Turn(k, w), Observing,
         WitnessOK(w, file, process, runtimes)
  PROVE  EvidenceIInv'
<1>1. EvidenceStores'
  BY DEF EvidenceIInv, EvidenceStores, Observing, LeaseKept, FixedOnce, Enrolled
<1> QED
  BY <1>1, EvidenceTurn DEF Observing

LEMMA BystanderOK ==
  ASSUME EvidenceIInv
  PROVE  WitnessOK(Bystander, file, process, runtimes)
<1>1. Bystander \in WitnessRecord
  BY DEF Bystander, WitnessRecord, EvidenceStep, RuntimeRecord, NoRuntime
<1> QED
  BY <1>1 DEF WitnessOK, WorksOn, Watches, Runs, Bystander

LEMMA BystanderFields ==
  /\ Bystander \in WitnessRecord /\ NoRuntime \in RuntimeRecord
  /\ Bystander.todo = {} /\ Bystander.passed = {} /\ Bystander.outputs = <<>>
  /\ Bystander.since = 0
<1>1. Bystander \in WitnessRecord
  BY DEF Bystander, WitnessRecord, EvidenceStep, RuntimeRecord, NoRuntime
<1> QED
  BY <1>1 DEF Bystander, RuntimeRecord, NoRuntime

\* What a command goes by.
LEMMA WitnessTyped ==
  ASSUME EvidenceIInv, NEW k \in Witness
  PROVE  /\ witness[k] \in WitnessRecord
         /\ WorksOn(witness[k], runtimes)
         /\ Watches(witness[k], file, process)
         /\ Runs(witness[k], file)
  BY DEF EvidenceIInv, WitnessOK

\* A check that fails ends the command, or brings a request to its next runtime.
LEMMA RejectOK ==
  ASSUME EvidenceIInv, NEW k \in Witness, Reject(k), Observing,
         witness[k].step \notin {"idle", "next", "store"}
  PROVE  EvidenceIInv'
<1>1. CASE witness[k].command = "request"
  <2> DEFINE w == [witness[k] EXCEPT !.step = "next"]
  <2>1. Turn(k, w)
    BY <1>1 DEF Reject, Proceed
  <2>2. w \in WitnessRecord
    BY WitnessTyped DEF WitnessRecord, EvidenceStep
  <2>3. /\ w.step = "next" /\ w.command = "request" /\ w.todo = witness[k].todo
        /\ w.passed = witness[k].passed /\ w.subject = witness[k].subject
    BY <1>1, WitnessTyped DEF WitnessRecord
  <2>4. WorksOn(w, runtimes)
    BY <1>1, <2>3, WitnessTyped DEF WorksOn
  <2>5. w.subject \notin w.passed
    BY <1>1, <2>3, WitnessTyped DEF WorksOn
  <2>6. Watches(w, file, process) /\ Runs(w, file)
    BY <2>3, <2>5 DEF Watches, Runs
  <2> HIDE DEF w
  <2> QED
    BY <2>1, <2>2, <2>4, <2>6, ObservingTurn DEF WitnessOK
<1>2. CASE witness[k].command # "request"
  BY <1>2, BystanderOK, ObservingTurn DEF Reject
<1> QED
  BY <1>1, <1>2

--------------------------------------------------------------------------------

LEMMA BeginRegisterKeeps ==
  ASSUME EvidenceIInv, NEW k \in Witness, BeginRegister(k)
  PROVE  EvidenceIInv'
<1>1. PICK r \in RuntimeId, i \in ProcessId, e \in Endpoint :
        Turn(k, [Bystander EXCEPT !.step = "hash", !.command = "register", !.subject = r,
                                  !.runtime = [NoRuntime EXCEPT !.pid = i, !.endpoint = e]])
  BY DEF BeginRegister
<1> DEFINE t == [NoRuntime EXCEPT !.pid = i, !.endpoint = e]
           w == [Bystander EXCEPT !.step = "hash", !.command = "register", !.subject = r,
                                  !.runtime = t]
<1>2. t \in RuntimeRecord /\ t.pid = i /\ t.endpoint = e
  BY BystanderFields DEF RuntimeRecord
<1> HIDE DEF t
<1>3. /\ w \in WitnessRecord
      /\ w.step = "hash" /\ w.command = "register" /\ w.subject = r /\ w.runtime = t
  BY <1>2, BystanderFields DEF WitnessRecord, EvidenceStep
<1>4. WorksOn(w, runtimes) /\ Watches(w, file, process) /\ Runs(w, file)
  BY <1>2, <1>3 DEF WorksOn, Watches, Runs, Named
<1>5. Turn(k, w)
  BY <1>1 DEF t
<1> HIDE DEF w
<1> QED
  BY <1>3, <1>4, <1>5, ObservingTurn DEF WitnessOK, BeginRegister

LEMMA BeginRequestKeeps ==
  ASSUME EvidenceIInv, NEW k \in Witness, BeginRequest(k)
  PROVE  EvidenceIInv'
<1> DEFINE w == [Bystander EXCEPT !.step = "next", !.command = "request",
                                  !.todo = {r \in RuntimeId : runtimes[r] # NoRuntime}]
<1>1. /\ w \in WitnessRecord
      /\ w.step = "next" /\ w.command = "request" /\ w.todo = Enrolled(runtimes)
      /\ w.passed = {} /\ w.since = 0
  BY BystanderFields DEF WitnessRecord, EvidenceStep, Enrolled
<1>3. WorksOn(w, runtimes) /\ Watches(w, file, process) /\ Runs(w, file)
  BY <1>1 DEF WorksOn, Watches, Runs
<1>4. Turn(k, w)
  BY DEF BeginRequest
<1> HIDE DEF w
<1> QED
  BY <1>1, <1>3, <1>4, ObservingTurn DEF WitnessOK, BeginRequest

LEMMA NextRuntimeKeeps ==
  ASSUME EvidenceIInv, NEW k \in Witness, NextRuntime(k)
  PROVE  EvidenceIInv'
<1>0. witness[k].step = "next" /\ Observing
  BY DEF NextRuntime, In
<1>c. witness[k].command = "request"
  BY <1>0, WitnessTyped DEF WorksOn, Runs, WitnessRecord
<1>1. CASE witness[k].todo = {}
  <2> DEFINE w == [witness[k] EXCEPT !.step = "store"]
  <2>1. Turn(k, w)
    BY <1>1 DEF NextRuntime, Proceed
  <2>2. w \in WitnessRecord
    BY WitnessTyped DEF WitnessRecord, EvidenceStep
  <2>3. /\ w.step = "store" /\ w.command = "request" /\ w.todo = witness[k].todo
        /\ w.passed = witness[k].passed
    BY <1>c, WitnessTyped DEF WitnessRecord
  <2>4. WorksOn(w, runtimes)
    BY <1>c, <2>3, WitnessTyped DEF WorksOn
  <2>5. Watches(w, file, process) /\ Runs(w, file)
    BY <2>3 DEF Watches, Runs
  <2> HIDE DEF w
  <2> QED
    BY <1>0, <2>1, <2>2, <2>4, <2>5, ObservingTurn DEF WitnessOK
<1>2. CASE witness[k].todo # {}
  <2>1. PICK r \in witness[k].todo :
          Turn(k, [witness[k] EXCEPT !.step = "inspect", !.subject = r, !.held = FALSE,
                                     !.since = 0, !.todo = @ \ {r}, !.runtime = runtimes[r]])
    BY <1>2 DEF NextRuntime
  <2> DEFINE w == [witness[k] EXCEPT !.step = "inspect", !.subject = r, !.held = FALSE,
                                     !.since = 0, !.todo = @ \ {r}, !.runtime = runtimes[r]]
  <2>2. r \in Enrolled(runtimes) /\ r \in RuntimeId /\ r \notin witness[k].passed
    BY <1>c, WitnessTyped DEF WorksOn, Enrolled
  <2>3. Named(runtimes[r]) /\ runtimes[r] \in RuntimeRecord
    BY <2>2 DEF EvidenceIInv, EvidenceStores, Enrolled
  <2>4. w \in WitnessRecord
    <3>1. witness[k] \in WitnessRecord /\ "inspect" \in EvidenceStep /\ FALSE \in BOOLEAN
          /\ 0 \in 0 .. 2 /\ runtimes[r] \in RuntimeRecord /\ r \in RuntimeId
      BY <2>2, <2>3, WitnessTyped DEF EvidenceStep
    <3>2. witness[k].todo \ {r} \in SUBSET RuntimeId
      BY <3>1 DEF WitnessRecord
    <3> QED
      BY <3>1, <3>2 DEF WitnessRecord
  <2>5. /\ w.step = "inspect" /\ w.command = "request" /\ w.todo = witness[k].todo \ {r}
        /\ w.passed = witness[k].passed /\ w.subject = r /\ w.runtime = runtimes[r]
    BY <1>c, WitnessTyped DEF WitnessRecord
  <2>6. WorksOn(w, runtimes)
    BY <1>c, <2>2, <2>3, <2>5, WitnessTyped DEF WorksOn
  <2>7. Watches(w, file, process) /\ Runs(w, file)
    BY <2>5 DEF Watches, Runs
  <2>8. Turn(k, w)
    BY <2>1
  <2> HIDE DEF w
  <2> QED
    BY <1>0, <2>4, <2>6, <2>7, <2>8, ObservingTurn DEF WitnessOK
<1> QED
  BY <1>1, <1>2

\* What follows the first hash.
AfterHash(command) ==
  CASE command = "register" -> "inspect" [] command = "request" -> "health" [] OTHER -> "case"

LEMMA CheckHashKeeps ==
  ASSUME EvidenceIInv, NEW k \in Witness, CheckHash(k)
  PROVE  EvidenceIInv'
<1>0. witness[k].step = "hash" /\ Observing
  BY DEF CheckHash, In
<1>1. CASE file = Admitted
  <2> DEFINE w == [witness[k] EXCEPT !.step = AfterHash(witness[k].command)]
  <2>1. Turn(k, w)
    BY <1>1 DEF CheckHash, Proceed, AfterHash
  <2>2. w \in WitnessRecord
    BY WitnessTyped DEF WitnessRecord, EvidenceStep, AfterHash
  <2>3. /\ w.step = AfterHash(w.command) /\ w.command = witness[k].command
        /\ w.todo = witness[k].todo /\ w.passed = witness[k].passed
        /\ w.subject = witness[k].subject /\ w.runtime = witness[k].runtime
        /\ w.since = witness[k].since /\ w.held = witness[k].held
        /\ w.outputs = witness[k].outputs /\ w.extra = witness[k].extra
    BY WitnessTyped DEF WitnessRecord
  <2>c. w.command \in {"register", "request", "baseline"}
    BY <1>0, <2>3, WitnessTyped DEF WorksOn, WitnessRecord
  <2>4. WorksOn(w, runtimes)
    BY <1>0, <2>3, <2>c, WitnessTyped DEF WorksOn, AfterHash
  <2>5. Watches(w, file, process)
    BY <1>0, <1>1, <2>3, <2>c, WitnessTyped DEF Watches, AfterHash
  <2>6. Runs(w, file)
    <3>1. SUFFICES ASSUME w.command = "baseline"
                   PROVE  Runs(w, file)
      BY DEF Runs
    <3>2. w.step = "case" /\ w.outputs = <<>>
      BY <1>0, <2>3, <3>1, WitnessTyped DEF Runs, AfterHash
    <3>3. Len(w.outputs) < Cases /\ AllAdmitted(w)
      BY <3>2, EvidenceAssumption DEF AllAdmitted
    <3> QED
      BY <1>0, <1>1, <2>3, <3>1, <3>2, <3>3, WitnessTyped DEF Runs
  <2> HIDE DEF w
  <2> QED
    BY <1>0, <2>1, <2>2, <2>4, <2>5, <2>6, ObservingTurn DEF WitnessOK
<1>2. CASE file # Admitted
  BY <1>0, <1>2, RejectOK DEF CheckHash
<1> QED
  BY <1>1, <1>2

LEMMA InspectProcessKeeps ==
  ASSUME EvidenceIInv, NEW k \in Witness, InspectProcess(k)
  PROVE  EvidenceIInv'
<1> DEFINE v == witness[k]
           p == process[v.runtime.pid]
<1>0. v.step = "inspect" /\ Observing
  BY DEF InspectProcess, In
<1>c. v.command \in {"register", "request"}
  BY <1>0, WitnessTyped DEF WorksOn, Runs, WitnessRecord
<1>n. Named(v.runtime) /\ v \in WitnessRecord
  BY <1>0, <1>c, WitnessTyped DEF WorksOn
<1>p. p \in Process \union {Exited}
  BY <1>n DEF EvidenceIInv, EvidenceStores, Named
<1>1. CASE v.command = "register" /\ Identifies(p)
          /\ Turn(k, [v EXCEPT !.step = "health", !.runtime.identity = p])
  <2> DEFINE w == [v EXCEPT !.step = "health", !.runtime.identity = p]
  <2>1. w \in WitnessRecord
    BY <1>n, <1>p DEF WitnessRecord, RuntimeRecord, EvidenceStep
  <2>2. /\ w.step = "health" /\ w.command = "register" /\ w.subject = v.subject
        /\ w.runtime.pid = v.runtime.pid /\ w.runtime.endpoint = v.runtime.endpoint
        /\ w.runtime.identity = p /\ w.since = v.since
    BY <1>1, <1>n DEF WitnessRecord, RuntimeRecord
  <2>3. WorksOn(w, runtimes)
    BY <1>0, <1>1, <2>2, WitnessTyped DEF WorksOn, Named, Identified, Identifies
  <2>4. Watches(w, file, process)
    BY <1>0, <1>1, <2>2, WitnessTyped DEF Watches
  <2>5. Runs(w, file)
    BY <2>2 DEF Runs
  <2>6. Turn(k, w)
    BY <1>1
  <2> HIDE DEF w
  <2> QED
    BY <1>0, <2>1, <2>3, <2>4, <2>5, <2>6, ObservingTurn DEF WitnessOK
<1>2. CASE v.command = "request" /\ p = v.runtime.identity /\ Proceed(k, "hash")
  <2> DEFINE w == [v EXCEPT !.step = "hash"]
  <2>1. w \in WitnessRecord
    BY <1>n DEF WitnessRecord, EvidenceStep
  <2>2. /\ w.step = "hash" /\ w.command = "request" /\ w.subject = v.subject
        /\ w.runtime = v.runtime /\ w.since = v.since
        /\ w.todo = v.todo /\ w.passed = v.passed
    BY <1>2, <1>n DEF WitnessRecord
  <2>3. WorksOn(w, runtimes)
    BY <1>0, <1>2, <2>2, WitnessTyped DEF WorksOn
  <2>4. Watches(w, file, process)
    BY <1>2, <2>2 DEF Watches
  <2>5. Runs(w, file)
    BY <2>2 DEF Runs
  <2>6. Turn(k, w)
    BY <1>2 DEF Proceed
  <2> HIDE DEF w
  <2> QED
    BY <1>0, <2>1, <2>3, <2>4, <2>5, <2>6, ObservingTurn DEF WitnessOK
<1>3. CASE Reject(k)
  BY <1>0, <1>3, RejectOK
<1> QED
  BY <1>c, <1>1, <1>2, <1>3 DEF InspectProcess

\* A look at what a command goes by that lets it go on, with nothing else changed.
LEMMA GoesOnOK ==
  ASSUME EvidenceIInv, NEW k \in Witness, NEW step \in EvidenceStep, Proceed(k, step),
         Observing,
         witness[k].step \in {"health", "rehash", "reinspect"},
         step = (IF witness[k].step = "health" THEN "serve"
                 ELSE IF witness[k].step = "reinspect" \/ witness[k].command = "baseline"
                 THEN "store" ELSE "reinspect"),
         witness[k].step = "rehash" => file = Admitted,
         witness[k].step = "reinspect" =>
           /\ witness[k].command = "register"
           /\ process[witness[k].runtime.pid] = witness[k].runtime.identity
  PROVE  EvidenceIInv'
<1> DEFINE v == witness[k]
           w == [v EXCEPT !.step = step]
<1>1. Turn(k, w)
  BY DEF Proceed
<1>2. w \in WitnessRecord /\ v \in WitnessRecord
  BY WitnessTyped DEF WitnessRecord
<1>3. /\ w.step = step /\ w.command = v.command /\ w.todo = v.todo /\ w.passed = v.passed
      /\ w.subject = v.subject /\ w.runtime = v.runtime /\ w.since = v.since
      /\ w.held = v.held /\ w.outputs = v.outputs /\ w.extra = v.extra
  BY <1>2 DEF WitnessRecord
<1>c. v.command \in {"register", "request", "baseline"}
  BY <1>2, WitnessTyped DEF WorksOn, WitnessRecord
<1>4. WorksOn(w, runtimes)
  BY <1>3, <1>c, WitnessTyped DEF WorksOn
<1>s. v.since \in 0 .. 2 /\ v.held \in BOOLEAN
  BY <1>2 DEF WitnessRecord
<1>5. Watches(w, file, process)
  <2>1. Watches(v, file, process)
    BY WitnessTyped
  <2>2. CASE v.step = "health"
    BY <1>3, <2>1, <2>2 DEF Watches
  <2>3. CASE v.step = "rehash"
    BY <1>3, <1>c, <2>1, <2>3 DEF Watches
  <2>4. CASE v.step = "reinspect"
    BY <1>3, <1>c, <1>s, <2>1, <2>4 DEF Watches
  <2> QED
    BY <2>2, <2>3, <2>4
<1>6. Runs(w, file)
  <2>1. Runs(v, file)
    BY WitnessTyped
  <2>2. AllAdmitted(w) <=> AllAdmitted(v)
    BY <1>3 DEF AllAdmitted
  <2> QED
    BY <1>3, <1>s, <2>1, <2>2 DEF Runs
<1> HIDE DEF w
<1> QED
  BY <1>1, <1>2, <1>4, <1>5, <1>6, ObservingTurn DEF WitnessOK

LEMMA AskHealthKeeps ==
  ASSUME EvidenceIInv, NEW k \in Witness, AskHealth(k)
  PROVE  EvidenceIInv'
<1>0. witness[k].step = "health" /\ Observing
  BY DEF AskHealth, In
<1>1. CASE Proceed(k, "serve")
  BY <1>0, <1>1, GoesOnOK DEF EvidenceStep
<1>2. CASE Reject(k)
  BY <1>0, <1>2, RejectOK
<1> QED
  BY <1>1, <1>2 DEF AskHealth

LEMMA CheckHashAgainKeeps ==
  ASSUME EvidenceIInv, NEW k \in Witness, CheckHashAgain(k)
  PROVE  EvidenceIInv'
<1>0. witness[k].step = "rehash" /\ Observing
  BY DEF CheckHashAgain, In
<1> DEFINE step == IF witness[k].command = "baseline" THEN "store" ELSE "reinspect"
<1>1. CASE file = Admitted /\ Proceed(k, step)
  BY <1>0, <1>1, GoesOnOK DEF EvidenceStep
<1>2. CASE Reject(k)
  BY <1>0, <1>2, RejectOK
<1> QED
  BY <1>1, <1>2 DEF CheckHashAgain

LEMMA AskServedKeeps ==
  ASSUME EvidenceIInv, NEW k \in Witness, AskServed(k)
  PROVE  EvidenceIInv'
<1> DEFINE v == witness[k]
           now == file = Admitted /\ process[v.runtime.pid] = v.runtime.identity
           w == [v EXCEPT !.step = "rehash", !.held = now]
<1>0. v.step = "serve" /\ Observing
  BY DEF AskServed, In
<1>c. v.command \in {"register", "request"} /\ v \in WitnessRecord /\ v.since \in 0 .. 2
  BY <1>0, WitnessTyped DEF WorksOn, Runs, WitnessRecord
<1>1. CASE Turn(k, w)
  <2>1. w \in WitnessRecord
    BY <1>c DEF WitnessRecord, EvidenceStep
  <2>2. /\ w.step = "rehash" /\ w.command = v.command /\ w.todo = v.todo
        /\ w.passed = v.passed /\ w.subject = v.subject /\ w.runtime = v.runtime
        /\ w.since = v.since /\ w.held = now
    BY <1>c DEF WitnessRecord
  <2>3. WorksOn(w, runtimes)
    BY <1>0, <1>c, <2>2, WitnessTyped DEF WorksOn
  <2>4. Watches(w, file, process)
    BY <1>0, <1>c, <2>2, WitnessTyped DEF Watches
  <2>5. Runs(w, file)
    BY <1>c, <2>2 DEF Runs
  <2> HIDE DEF w
  <2> QED
    BY <1>0, <1>1, <2>1, <2>3, <2>4, <2>5, ObservingTurn DEF WitnessOK
<1>2. CASE Reject(k)
  BY <1>0, <1>2, RejectOK
<1> QED
  BY <1>1, <1>2 DEF AskServed

LEMMA InspectAgainKeeps ==
  ASSUME EvidenceIInv, NEW k \in Witness, InspectAgain(k)
  PROVE  EvidenceIInv'
<1> DEFINE v == witness[k]
           w == [v EXCEPT !.step = "next", !.passed = @ \union {v.subject}]
<1>0. v.step = "reinspect" /\ Observing
  BY DEF InspectAgain, In
<1>c. v.command \in {"register", "request"} /\ v \in WitnessRecord /\ v.since \in 0 .. 2
  BY <1>0, WitnessTyped DEF WorksOn, Runs, WitnessRecord
<1>1. CASE Reject(k)
  BY <1>0, <1>1, RejectOK
<1>2. CASE /\ process[v.runtime.pid] = v.runtime.identity
           /\ v.command = "register" /\ Proceed(k, "store")
  BY <1>0, <1>2, GoesOnOK DEF EvidenceStep
<1>3. CASE /\ process[v.runtime.pid] = v.runtime.identity
           /\ v.command = "request" /\ Turn(k, w)
  <2>0. v.subject \in Enrolled(runtimes) \ (v.todo \union v.passed)
        /\ v.todo \union v.passed \subseteq Enrolled(runtimes) /\ v.todo \cap v.passed = {}
    BY <1>0, <1>3, WitnessTyped DEF WorksOn
  <2>1. w \in WitnessRecord
    BY <1>c, <2>0 DEF WitnessRecord, EvidenceStep, Enrolled
  <2>2. /\ w.step = "next" /\ w.command = v.command /\ w.todo = v.todo
        /\ w.passed = v.passed \union {v.subject} /\ w.since = v.since /\ w.held = v.held
    BY <1>c DEF WitnessRecord
  <2>3. WorksOn(w, runtimes)
    BY <1>3, <2>0, <2>2 DEF WorksOn
  <2>4. v.held \/ v.since = 2
    BY <1>0, <1>c, <1>3, WitnessTyped DEF Watches
  <2>5. Watches(w, file, process)
    BY <2>2, <2>4 DEF Watches
  <2>6. Runs(w, file)
    BY <1>c, <2>2 DEF Runs
  <2> HIDE DEF w
  <2> QED
    BY <1>0, <1>3, <2>1, <2>3, <2>5, <2>6, ObservingTurn DEF WitnessOK
<1> QED
  BY <1>c, <1>1, <1>2, <1>3 DEF InspectAgain

LEMMA StoreRuntimeKeeps ==
  ASSUME EvidenceIInv, NEW k \in Witness, StoreRuntime(k)
  PROVE  EvidenceIInv'
<1> DEFINE v == witness[k]
<1>0. /\ v.step = "store" /\ v.command = "register" /\ Turn(k, Bystander)
      /\ UNCHANGED <<file, process, lease, baseline, changes>>
  BY DEF StoreRuntime, In
<1>1. /\ v.runtime \in RuntimeRecord /\ Named(v.runtime) /\ Identified(v.runtime)
      /\ v.subject \in RuntimeId
  BY <1>0, WitnessTyped DEF WorksOn, WitnessRecord
<1>2. /\ runtimes' \in [RuntimeId -> RuntimeRecord]
      /\ \A r \in RuntimeId : runtimes'[r] = NoRuntime
                              \/ (Named(runtimes'[r]) /\ Identified(runtimes'[r]))
      /\ \A r \in Enrolled(runtimes) : r \in Enrolled(runtimes') /\ runtimes'[r] = runtimes[r]
  <2>1. CASE runtimes[v.subject] = NoRuntime
             /\ runtimes' = [runtimes EXCEPT ![v.subject] = v.runtime]
    BY <1>1, <2>1 DEF EvidenceIInv, EvidenceStores, Enrolled
  <2>2. CASE UNCHANGED runtimes
    BY <2>2 DEF EvidenceIInv, EvidenceStores, Enrolled
  <2> QED
    BY <2>1, <2>2 DEF StoreRuntime
<1>3. LeaseKept'
  BY <1>0, <1>2 DEF LeaseKept, EvidenceIInv, EvidenceStores
<1>4. EvidenceStores'
  BY <1>0, <1>2, <1>3 DEF EvidenceStores, EvidenceIInv, FixedOnce
<1>5. WitnessOK(Bystander, file', process', runtimes')
  <2>1. Bystander \in WitnessRecord
    BY BystanderOK DEF WitnessOK
  <2> QED
    BY <2>1 DEF WitnessOK, WorksOn, Watches, Runs, Bystander
<1> QED
  BY <1>0, <1>2, <1>4, <1>5, EvidenceTurn

LEMMA IssueLeaseKeeps ==
  ASSUME EvidenceIInv, NEW k \in Witness, IssueLease(k)
  PROVE  EvidenceIInv'
<1> DEFINE v == witness[k]
<1>0. /\ v.step = "store" /\ v.command = "request" /\ Turn(k, Bystander)
      /\ UNCHANGED <<file, process, runtimes, baseline, changes>>
  BY DEF IssueLease, In
<1>1. v.passed \subseteq Enrolled(runtimes)
  BY <1>0, WitnessTyped DEF WorksOn
<1>2. LeaseKept'
  <2>1. CASE UNCHANGED lease
    BY <1>0, <2>1 DEF LeaseKept, EvidenceIInv, EvidenceStores, Enrolled
  <2>2. CASE \E r \in v.passed : lease' = [runtime |-> r, of |-> runtimes[r]]
    BY <1>0, <1>1, <2>2 DEF LeaseKept, Enrolled
  <2> QED
    BY <2>1, <2>2 DEF IssueLease
<1>3. EvidenceStores'
  BY <1>0, <1>2 DEF EvidenceStores, EvidenceIInv, FixedOnce
<1>4. WitnessOK(Bystander, file', process', runtimes')
  <2>1. Bystander \in WitnessRecord
    BY BystanderOK DEF WitnessOK
  <2> QED
    BY <2>1 DEF WitnessOK, WorksOn, Watches, Runs, Bystander
<1> QED
  BY <1>0, <1>3, <1>4, EvidenceTurn DEF Enrolled

LEMMA BeginBaselineKeeps ==
  ASSUME EvidenceIInv, NEW k \in Witness, BeginBaseline(k)
  PROVE  EvidenceIInv'
<1>1. PICK args \in ExtraArgs :
        /\ \A a \in args : ~Reserved(a)
        /\ Turn(k, [Bystander EXCEPT !.step = "hash", !.command = "baseline", !.extra = args])
  BY DEF BeginBaseline
<1> DEFINE w == [Bystander EXCEPT !.step = "hash", !.command = "baseline", !.extra = args]
<1>3. /\ w \in WitnessRecord
      /\ w.step = "hash" /\ w.command = "baseline" /\ w.outputs = <<>> /\ w.extra = args
  BY BystanderFields DEF WitnessRecord, EvidenceStep
<1>4. WorksOn(w, runtimes) /\ Watches(w, file, process) /\ Runs(w, file)
  BY <1>1, <1>3 DEF WorksOn, Watches, Runs
<1>5. Turn(k, w)
  BY <1>1
<1> HIDE DEF w
<1> QED
  BY <1>3, <1>4, <1>5, ObservingTurn DEF WitnessOK, BeginBaseline

LEMMA RunCaseKeeps ==
  ASSUME EvidenceIInv, NEW k \in Witness, RunCase(k)
  PROVE  EvidenceIInv'
<1> DEFINE v == witness[k]
           next == IF Len(v.outputs) + 1 = Cases THEN "rehash" ELSE "case"
           w == [v EXCEPT !.step = next, !.outputs = Append(@, file)]
<1>0. v.step = "case" /\ Observing
  BY DEF RunCase, In
<1>c. v.command = "baseline" /\ v \in WitnessRecord /\ v.since \in 0 .. 2
  BY <1>0, WitnessTyped DEF WorksOn, WitnessRecord
<1>1. CASE Turn(k, Bystander)
  BY <1>0, <1>1, BystanderOK, ObservingTurn
<1>2. CASE Turn(k, w)
  <2>0. file \in FileBytes /\ v.outputs \in Seq(FileBytes) /\ Len(v.outputs) < Cases
    BY <1>0, <1>c, WitnessTyped DEF EvidenceIInv, EvidenceStores, WitnessRecord, Runs
  <2>a. next \in EvidenceStep /\ Append(v.outputs, file) \in Seq(FileBytes)
    BY <2>0 DEF EvidenceStep
  <2>1. w \in WitnessRecord
    BY <1>c, <2>a DEF WitnessRecord
  <2>2. /\ w.step = next /\ w.command = "baseline" /\ w.since = v.since
        /\ w.outputs = Append(v.outputs, file) /\ w.extra = v.extra
    BY <1>c DEF WitnessRecord
  <2>3. WorksOn(w, runtimes) /\ Watches(w, file, process)
    BY <2>2 DEF WorksOn, Watches
  <2>4. file = Admitted /\ AllAdmitted(v) => AllAdmitted(w)
    BY <2>0, <2>2 DEF AllAdmitted
  <2>5. Len(w.outputs) = Len(v.outputs) + 1 /\ Cases \in Nat
    BY <2>0, <2>2, EvidenceAssumption
  <2>6. /\ w.step = "case" => Len(w.outputs) < Cases
        /\ w.step = "rehash" => Len(w.outputs) = Cases
    BY <2>0, <2>2, <2>5
  <2>7. Runs(w, file)
    BY <1>0, <1>c, <2>2, <2>4, <2>6, WitnessTyped DEF Runs
  <2> HIDE DEF w
  <2> QED
    BY <1>0, <1>2, <2>1, <2>3, <2>7, ObservingTurn DEF WitnessOK
<1> QED
  BY <1>1, <1>2 DEF RunCase

LEMMA StoreBaselineKeeps ==
  ASSUME EvidenceIInv, NEW k \in Witness, StoreBaseline(k)
  PROVE  EvidenceIInv'
<1> DEFINE v == witness[k]
<1>0. /\ v.step = "store" /\ v.command = "baseline" /\ Turn(k, Bystander)
      /\ UNCHANGED <<file, process, runtimes, lease, changes>>
  BY DEF StoreBaseline, In
<1>1. Len(v.outputs) = Cases /\ v.extra \in ExtraArgs /\ \A a \in v.extra : ~Reserved(a)
  BY <1>0, WitnessTyped DEF Runs
<1>2. \A a \in v.extra : a.flag \notin FixedFlag
  BY <1>1, EvidenceAssumption DEF ArgumentOK, Reserved, ReservedFlag, ShortFlag, FixedFlag
<1>3. (baseline # NoBaseline => Len(baseline.outputs) = Cases)' /\ FixedOnce'
  <2>1. CASE UNCHANGED baseline
    BY <2>1 DEF EvidenceIInv, EvidenceStores, FixedOnce
  <2>2. CASE baseline' = [outputs |-> v.outputs, extra |-> v.extra]
    BY <1>1, <1>2, <2>2 DEF FixedOnce
  <2> QED
    BY <2>1, <2>2 DEF StoreBaseline
<1>4. EvidenceStores'
  BY <1>0, <1>3 DEF EvidenceStores, EvidenceIInv, LeaseKept, Enrolled
<1>5. WitnessOK(Bystander, file', process', runtimes')
  <2>1. Bystander \in WitnessRecord
    BY BystanderOK DEF WitnessOK
  <2> QED
    BY <2>1 DEF WitnessOK, WorksOn, Watches, Runs, Bystander
<1> QED
  BY <1>0, <1>4, <1>5, EvidenceTurn DEF Enrolled

\* One change of the world is of the file or of one process, never of both.
LEMMA ChangeKeeps ==
  ASSUME EvidenceIInv, Change
  PROVE  EvidenceIInv'
<1>1. /\ changes < MaxChange /\ changes' = changes + 1
      /\ UNCHANGED <<runtimes, lease, baseline>>
      /\ witness' = [k \in Witness |->
           IF In(k, "idle") \/ witness[k].since = 2 THEN witness[k]
           ELSE [witness[k] EXCEPT !.since = @ + 1]]
  BY DEF Change
<1>2. /\ file' \in FileBytes /\ process' \in [ProcessId -> Process \union {Exited}]
      /\ UNCHANGED file \/ UNCHANGED process
  BY DEF Change, EvidenceIInv, EvidenceStores
<1>3. EvidenceStores'
  BY <1>1, <1>2, EvidenceAssumption DEF EvidenceStores, EvidenceIInv, LeaseKept, Enrolled, FixedOnce
<1>4. ASSUME NEW k \in Witness
      PROVE  WitnessOK(witness'[k], file', process', runtimes')
  <2> DEFINE v == witness[k]
             w == witness'[k]
  <2>1. v \in WitnessRecord /\ v.since \in 0 .. 2
    BY WitnessTyped DEF WitnessRecord
  <2>2. CASE In(k, "idle")
    <3>1. w = Bystander
      BY <1>1, <2>2, WitnessTyped DEF WorksOn, In
    <3>2. Bystander \in WitnessRecord
      BY BystanderOK DEF WitnessOK
    <3> QED
      BY <3>1, <3>2 DEF WitnessOK, WorksOn, Watches, Runs, Bystander
  <2>3. CASE v.since = 2
    <3>1. w = v
      BY <1>1, <2>3
    <3> QED
      BY <1>1, <2>1, <2>3, <3>1, WitnessTyped DEF WitnessOK, WorksOn, Watches, Runs
  <2>4. CASE v.since # 2 /\ ~In(k, "idle")
    <3>1. w = [v EXCEPT !.since = @ + 1]
      BY <1>1, <2>4
    <3>2. w \in WitnessRecord
      BY <2>1, <2>4, <3>1 DEF WitnessRecord
    <3>3. /\ w.since = v.since + 1 /\ w.step = v.step /\ w.command = v.command
          /\ w.todo = v.todo /\ w.passed = v.passed /\ w.subject = v.subject
          /\ w.runtime = v.runtime /\ w.held = v.held
          /\ w.outputs = v.outputs /\ w.extra = v.extra
      BY <2>1, <3>1 DEF WitnessRecord
    <3>4. WorksOn(w, runtimes')
      BY <1>1, <2>4, <3>3, WitnessTyped DEF WorksOn, In
    <3>5. Watches(w, file', process')
      <4>1. Watches(v, file, process)
        BY WitnessTyped
      <4>2. CASE UNCHANGED file
        BY <2>1, <2>4, <3>3, <4>1, <4>2 DEF Watches
      <4>3. CASE UNCHANGED process
        BY <2>1, <2>4, <3>3, <4>1, <4>3 DEF Watches
      <4> QED
        BY <1>2, <4>2, <4>3
    <3>6. Runs(w, file')
      <4>1. Runs(v, file)
        BY WitnessTyped
      <4>2. AllAdmitted(w) <=> AllAdmitted(v)
        BY <3>3 DEF AllAdmitted
      <4> QED
        BY <2>1, <2>4, <3>3, <4>1, <4>2 DEF Runs
    <3> QED
      BY <3>2, <3>4, <3>5, <3>6 DEF WitnessOK
  <2> QED
    BY <2>2, <2>3, <2>4
<1>5. witness' = [k \in Witness |-> witness'[k]]
  BY <1>1
<1> QED
  BY <1>3, <1>4, <1>5 DEF EvidenceIInv

LEMMA EvidenceInitHolds == EvidenceInit => EvidenceIInv
<1> SUFFICES ASSUME EvidenceInit
             PROVE  EvidenceIInv
  OBVIOUS
<1>1. witness = [k \in Witness |-> Bystander]
  BY DEF EvidenceInit
<1>2. Bystander \in WitnessRecord
  BY DEF Bystander, WitnessRecord, EvidenceStep, RuntimeRecord, NoRuntime
<1>3. WitnessOK(Bystander, file, process, runtimes)
  BY <1>2 DEF WitnessOK, WorksOn, Watches, Runs, Bystander
<1>4. runtimes \in [RuntimeId -> RuntimeRecord]
  BY DEF EvidenceInit, RuntimeRecord, NoRuntime
<1>5. EvidenceStores
  BY <1>4, EvidenceAssumption
  DEF EvidenceInit, EvidenceStores, LeaseKept, FixedOnce, NoBaseline
<1> QED
  BY <1>1, <1>3, <1>5 DEF EvidenceIInv

\* What a command has seen is so, or was so together, for any number of commands,
\* runtimes and processes.
THEOREM EvidenceIInvCorrect == EvidenceSpec => []EvidenceIInv
<1>1. EvidenceIInv /\ [EvidenceNext]_evidenceVars => EvidenceIInv'
  <2> SUFFICES ASSUME EvidenceIInv, [EvidenceNext]_evidenceVars
               PROVE  EvidenceIInv'
    OBVIOUS
  <2>1. CASE Change
    BY <2>1, ChangeKeeps
  <2>2. ASSUME NEW k \in Witness, WitnessStep(k)
        PROVE  EvidenceIInv'
    BY <2>2, BeginRegisterKeeps, BeginRequestKeeps, NextRuntimeKeeps, CheckHashKeeps,
       InspectProcessKeeps, AskHealthKeeps, AskServedKeeps, CheckHashAgainKeeps,
       InspectAgainKeeps, StoreRuntimeKeeps, IssueLeaseKeeps, BeginBaselineKeeps,
       RunCaseKeeps, StoreBaselineKeeps DEF WitnessStep
  <2>3. CASE UNCHANGED evidenceVars
    BY <2>3 DEF evidenceVars, EvidenceIInv, EvidenceStores, LeaseKept, FixedOnce
  <2> QED
    BY <2>1, <2>2, <2>3 DEF EvidenceNext
<1> QED
  BY <1>1, EvidenceInitHolds, PTL DEF EvidenceSpec

\* What is recorded of a server, a lease or a baseline belongs together, though it is
\* looked at piece by piece, unless the world changed twice meanwhile.
THEOREM EvidenceCorrect == EvidenceSpec => []EvidenceInv
<1>1. EvidenceIInv => EvidenceInv
  <2> SUFFICES ASSUME EvidenceIInv
               PROVE  EvidenceInv
    OBVIOUS
  <2>1. EvidenceTypeOK
    BY WitnessTyped
    DEF EvidenceTypeOK, EvidenceIInv, EvidenceStores, LeaseKept, Named, Identified,
        WitnessRecord
  <2>2. RegisteredTogether /\ LeasedTogether
    BY WitnessTyped DEF RegisteredTogether, LeasedTogether, Watches, In
  <2>3. BaselineOfOneArtifact
    BY WitnessTyped DEF BaselineOfOneArtifact, Runs, AllAdmitted, In
  <2>4. FixedOnce
    BY DEF EvidenceIInv, EvidenceStores
  <2> QED
    BY <2>1, <2>2, <2>3, <2>4 DEF EvidenceInv
<1> QED
  BY <1>1, EvidenceIInvCorrect, PTL

================================================================================
