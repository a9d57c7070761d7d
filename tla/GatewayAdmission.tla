--------------------------- MODULE GatewayAdmission ----------------------------
(***************************************************************************)
(* The admission state of lmml-gateway (struct GatewayAdmission) and every *)
(* task that touches it: the HTTP handlers and the response streams, the   *)
(* launcher that activates the gateway, and a revocation by the lifecycle. *)
(*                                                                         *)
(* `status`, `store` and `active` are three separate RwLocks, so each read *)
(* or write of one of them is a step of its own.  A refresh reads the      *)
(* approval files on a blocking thread and writes the verdict back later;  *)
(* nothing orders the refreshes of different tasks.  The approval files    *)
(* belong to the operator, who may change them at any moment.              *)
(***************************************************************************)
EXTENDS Naturals

CONSTANTS
  Request,          \* the HTTP requests
  Receipt,          \* the signed receipts the operator may install
  Decision,         \* what each receipt decides about this deployment
  InstalledReceipt, \* the receipt installed when the gateway is built
  Launcher,         \* the task of run_runtime_serve_approved
  RevokeCall,       \* when revoke() is called: "Never", "AfterLaunch", "Anytime"
  MaxEdits          \* bound: how often the operator changes the files

Task == Request \union {Launcher}

ASSUME ReceiptAssumption ==
  /\ Decision \in [Receipt -> {"Approved", "Rejected", "Mismatch"}]
  /\ InstalledReceipt \in Receipt

ASSUME TaskAssumption == Launcher \notin Request

ASSUME RevokeAssumption == RevokeCall \in {"Never", "AfterLaunch", "Anytime"}

ASSUME EditsAssumption == MaxEdits \in Nat

VARIABLES
  receipt,     \* file: the installed receipt
  revoked,     \* file: the receipts named by the revocation state
  edits,       \* how often the operator has changed the files
  status,      \* lock: the last verdict written
  store,       \* lock: whether the approval store is still attached
  active,      \* lock: whether the gateway was activated
  check,       \* per task, the progress of its status() or refresh()
  stage,       \* per request, the progress of its handler
  launch,      \* the progress of the launcher
  revocation,  \* the progress of revoke()
  approved,    \* history: the receipts that once were installed and unrevoked
  born,        \* history: how a request was started, see Start
  late         \* history: per request, what it did after revoke() returned

files == <<receipt, revoked, edits, approved>>
locks == <<status, store, active>>
vars == <<files, locks, check, stage, launch, revocation, born, late>>

--------------------------------------------------------------------------------

Verdict == {"Approved", "Rejected", "Invalidated", "Revoked", "Blocked"}

\* Mutant: the decision is looked at before the revocation.
AdmissionVerdictDecisionFirst(x, isRevoked) ==
  IF Decision[x] = "Approved" THEN "Approved"
  ELSE IF isRevoked THEN "Revoked" ELSE "Rejected"

\* compute_admission_status: revocation first, then the decision, then the
\* identities the receipt is bound to.
AdmissionVerdict(x, isRevoked) ==
  CASE isRevoked                                   -> "Revoked"
    [] ~isRevoked /\ Decision[x] = "Rejected"      -> "Rejected"
    [] ~isRevoked /\ Decision[x] = "Mismatch"      -> "Invalidated"
    [] ~isRevoked /\ Decision[x] = "Approved"      -> "Approved"

CheckPoint == {"Idle", "Store", "Receipt", "Revocation", "Write", "Status", "Active"}

Check == [at : CheckPoint, receipt : Receipt, verdict : Verdict]

\* A check that is not running; its data is never read.
NoCheck == [at |-> "Idle", receipt |-> InstalledReceipt, verdict |-> "Blocked"]

\* The entry of status() and of activate_if_approved(): refresh() comes first.
BeginCheck == [NoCheck EXCEPT !.at = "Store"]

\* The stages in which a request waits for the answer of status().
Checking == {"HealthCheck", "ModelsCheck", "ChatCheck", "LoopCheck", "YieldCheck"}

Stage == Checking \union
         {"New", "Body", "Send", "Sent", "Ready", "Wait", "Yield", "Closed"}

\* Where an Approved answer lets a handler go on.
AfterGrant ==
  [HealthCheck |-> "Closed", ModelsCheck |-> "Send", ChatCheck |-> "Body",
   LoopCheck |-> "Wait", YieldCheck |-> "Yield"]

\* The stages a request can be in only because status() answered Approved,
\* with work left that no further check guards.
Holding == {r \in Request : stage[r] \in {"Body", "Send", "Wait", "Yield"}}

TypeOK ==
  /\ receipt \in Receipt
  /\ revoked \subseteq Receipt
  /\ edits \in 0..MaxEdits
  /\ status \in Verdict
  /\ store \in BOOLEAN
  /\ active \in BOOLEAN
  /\ check \in [Task -> Check]
  /\ stage \in [Request -> Stage]
  /\ launch \in {"Loading", "Activating", "SetActive", "Serving", "Failed"}
  /\ revocation \in {"Idle", "Status", "Active", "Done"}
  /\ approved \subseteq Receipt
  /\ born \in [Request -> {"None", "Quiet", "Racing"}]
  /\ late \in [Request -> Nat]

\* GatewayAdmission::pending_with_store, with the Blocked status the launcher
\* passes, after the receipt was approved before the launch.
Init ==
  /\ receipt = InstalledReceipt
  /\ revoked = {}
  /\ edits = 0
  /\ status = "Blocked"
  /\ store = TRUE
  /\ active = FALSE
  /\ check = [p \in Task |-> NoCheck]
  /\ stage = [r \in Request |-> "New"]
  /\ launch = "Loading"
  /\ revocation = "Idle"
  /\ approved = {InstalledReceipt}
  /\ born = [r \in Request |-> "None"]
  /\ late = [r \in Request |-> 0]

--------------------------------------------------------------------------------
(* The operator and the approval files. *)

InstallReceipt(x) ==
  /\ edits < MaxEdits
  /\ x # receipt
  /\ receipt' = x
  /\ approved' = IF x \in revoked THEN approved ELSE approved \union {x}
  /\ edits' = edits + 1
  /\ born' = [r \in Request |-> "None"]
  /\ UNCHANGED <<revoked, locks, check, stage, launch, revocation, late>>

\* Revocations are only ever added.
PublishRevocation(x) ==
  /\ edits < MaxEdits
  /\ x \notin revoked
  /\ revoked' = revoked \union {x}
  /\ edits' = edits + 1
  /\ UNCHANGED <<receipt, approved, locks, check, stage, launch, revocation, born, late>>

--------------------------------------------------------------------------------
(* refresh() and status(), the same for every task that calls them. *)

Advance(p, c) == check' = [check EXCEPT ![p] = c]

\* Mutant: the cached status is good enough, nothing is read again.
CloneStoreCached(p) ==
  /\ check[p].at = "Store"
  /\ Advance(p, [check[p] EXCEPT !.at = IF store /\ status # "Approved" THEN "Receipt" ELSE "Status"])
  /\ UNCHANGED <<files, locks, stage, launch, revocation, born, late>>

CloneStore(p) ==
  /\ check[p].at = "Store"
  /\ Advance(p, [check[p] EXCEPT !.at = IF store THEN "Receipt" ELSE "Status"])
  /\ UNCHANGED <<files, locks, stage, launch, revocation, born, late>>

\* The trust root and the receipt load and verify.
ReadReceipt(p) ==
  /\ check[p].at = "Receipt"
  /\ Advance(p, [check[p] EXCEPT !.at = "Revocation", !.receipt = receipt])
  /\ UNCHANGED <<files, locks, stage, launch, revocation, born, late>>

\* The revocation state loads, and the verdict is computed.
ReadRevocation(p) ==
  /\ check[p].at = "Revocation"
  /\ Advance(p, [check[p] EXCEPT
       !.at = "Write",
       !.verdict = AdmissionVerdict(check[p].receipt, check[p].receipt \in revoked)])
  /\ UNCHANGED <<files, locks, stage, launch, revocation, born, late>>

\* A file is missing, damaged or not signed by the trust root, or the
\* blocking task failed: the verdict is Blocked.
ReadFails(p) ==
  /\ check[p].at \in {"Receipt", "Revocation"}
  /\ Advance(p, [check[p] EXCEPT !.at = "Write", !.verdict = "Blocked"])
  /\ UNCHANGED <<files, locks, stage, launch, revocation, born, late>>

WriteStatus(p) ==
  /\ check[p].at = "Write"
  /\ status' = check[p].verdict
  /\ Advance(p, [check[p] EXCEPT !.at = "Status"])
  /\ UNCHANGED <<files, store, active, stage, launch, revocation, born, late>>

\* A request clones the status, and reads `active` in a later step.
ReadStatus(r) ==
  /\ check[r].at = "Status"
  /\ Advance(r, [check[r] EXCEPT !.at = "Active", !.verdict = status])
  /\ UNCHANGED <<files, locks, stage, launch, revocation, born, late>>

\* Mutant: status() does not look at `active`.
AdmitsWhileLoading(r) == check[r].verdict = "Approved"

Admits(r) == check[r].verdict = "Approved" /\ active

\* The answer of status(): the handler goes on or refuses.
ReadActive(r) ==
  /\ check[r].at = "Active"
  /\ Advance(r, NoCheck)
  /\ stage' = [stage EXCEPT ![r] = IF Admits(r) THEN AfterGrant[@] ELSE "Closed"]
  /\ UNCHANGED <<files, locks, launch, revocation, born, late>>

Refresh(p) ==
  \/ CloneStore(p)
  \/ ReadReceipt(p)
  \/ ReadRevocation(p)
  \/ ReadFails(p)
  \/ WriteStatus(p)

--------------------------------------------------------------------------------
(* The handlers health, models and chat_completions, and forward_response. *)

\* A task whose refresh may still write an approval read before now.
CarriesApproval(p) ==
  \/ check[p].at = "Write" /\ check[p].verdict = "Approved"
  \/ check[p].at = "Revocation" /\ check[p].receipt \notin revoked

\* The history `born` records a request that arrives while the installed
\* receipt is revoked: "Racing" if some refresh in flight may still write an
\* older approval, "Quiet" if none does.
Start(r, endpoint) ==
  /\ stage[r] = "New"
  /\ launch # "Failed"
  /\ stage' = [stage EXCEPT ![r] = endpoint]
  /\ Advance(r, BeginCheck)
  /\ born' = [born EXCEPT ![r] =
       IF receipt \notin revoked THEN "None"
       ELSE IF \E p \in Task : CarriesApproval(p) THEN "Racing"
       ELSE "Quiet"]
  /\ UNCHANGED <<files, locks, launch, revocation, late>>

\* What r does now counts as late when revoke() has returned.
CountLate(r) ==
  late' = IF revocation = "Done" THEN [late EXCEPT ![r] = @ + 1] ELSE late

\* chat_completions: the body is read, parsed and validated.
ReceiveBody(r) ==
  /\ stage[r] = "Body"
  /\ \E next \in {"Send", "Closed"} : stage' = [stage EXCEPT ![r] = next]
  /\ UNCHANGED <<files, locks, check, launch, revocation, born, late>>

\* The request goes to the backend.
Dispatch(r) ==
  /\ stage[r] = "Send"
  /\ stage' = [stage EXCEPT ![r] = "Sent"]
  /\ CountLate(r)
  /\ UNCHANGED <<files, locks, check, launch, revocation, born>>

\* Mutant: the stream waits for its first chunk without a check.
RespondUnchecked(r) ==
  /\ stage[r] = "Sent"
  /\ \E next \in {"Wait", "Closed"} : stage' = [stage EXCEPT ![r] = next]
  /\ UNCHANGED <<files, locks, check, launch, revocation, born, late>>

\* The backend answers and the body stream is handed to the client, or the
\* backend fails or times out.
Respond(r) ==
  /\ stage[r] = "Sent"
  /\ \E next \in {"Ready", "Closed"} : stage' = [stage EXCEPT ![r] = next]
  /\ UNCHANGED <<files, locks, check, launch, revocation, born, late>>

\* The client takes data and the stream is polled: the head of its loop.
Poll(r) ==
  /\ stage[r] = "Ready"
  /\ \/ /\ stage' = [stage EXCEPT ![r] = "LoopCheck"]
        /\ Advance(r, BeginCheck)
     \/ /\ stage' = [stage EXCEPT ![r] = "Closed"]   \* past the deadline
        /\ UNCHANGED check
  /\ UNCHANGED <<files, locks, launch, revocation, born, late>>

\* A chunk of the backend, checked once more before it is forwarded.
Chunk(r) ==
  /\ stage[r] = "Wait"
  /\ stage' = [stage EXCEPT ![r] = "YieldCheck"]
  /\ Advance(r, BeginCheck)
  /\ UNCHANGED <<files, locks, launch, revocation, born, late>>

\* 250 ms without a chunk: the loop starts over.
ChunkTimeout(r) ==
  /\ stage[r] = "Wait"
  /\ \/ /\ stage' = [stage EXCEPT ![r] = "LoopCheck"]
        /\ Advance(r, BeginCheck)
     \/ /\ stage' = [stage EXCEPT ![r] = "Closed"]   \* past the deadline
        /\ UNCHANGED check
  /\ UNCHANGED <<files, locks, launch, revocation, born, late>>

\* The backend's response ends or breaks.
BackendEnds(r) ==
  /\ stage[r] = "Wait"
  /\ stage' = [stage EXCEPT ![r] = "Closed"]
  /\ UNCHANGED <<files, locks, check, launch, revocation, born, late>>

Deliver(r) ==
  /\ stage[r] = "Yield"
  /\ stage' = [stage EXCEPT ![r] = "Ready"]
  /\ CountLate(r)
  /\ UNCHANGED <<files, locks, check, launch, revocation, born>>

\* The client goes away: the handler or the stream is dropped where it is,
\* and the verdict of its refresh, if one runs, is never written.
Disconnect(r) ==
  /\ stage[r] \notin {"New", "Closed"}
  /\ stage' = [stage EXCEPT ![r] = "Closed"]
  /\ Advance(r, NoCheck)
  /\ UNCHANGED <<files, locks, launch, revocation, born, late>>

--------------------------------------------------------------------------------
(* The launcher and revoke(). *)

\* The model bytes and the loaded libraries are verified after the load; then
\* activate_if_approved() is called.  Otherwise the runtime is stopped.
FinishLoading ==
  /\ launch = "Loading"
  /\ \/ launch' = "Activating" /\ Advance(Launcher, BeginCheck)
     \/ launch' = "Failed" /\ UNCHANGED check
  /\ UNCHANGED <<files, locks, stage, revocation, born, late>>

ActivateDecides ==
  /\ check[Launcher].at = "Status"
  /\ launch' = IF status = "Approved" THEN "SetActive" ELSE "Failed"
  /\ Advance(Launcher, NoCheck)
  /\ UNCHANGED <<files, locks, stage, revocation, born, late>>

SetActive ==
  /\ launch = "SetActive"
  /\ active' = TRUE
  /\ launch' = "Serving"
  /\ UNCHANGED <<files, status, store, check, stage, revocation, born, late>>

MayRevoke ==
  \/ RevokeCall = "Anytime"
  \/ RevokeCall = "AfterLaunch" /\ launch \in {"Serving", "Failed"}

RevokeStore ==
  /\ MayRevoke
  /\ revocation = "Idle"
  /\ store' = FALSE
  /\ revocation' = "Status"
  /\ UNCHANGED <<files, status, active, check, stage, launch, born, late>>

RevokeStatus ==
  /\ revocation = "Status"
  /\ status' = "Revoked"
  /\ revocation' = "Active"
  /\ UNCHANGED <<files, store, active, check, stage, launch, born, late>>

RevokeActive ==
  /\ revocation = "Active"
  /\ active' = FALSE
  /\ revocation' = "Done"
  /\ UNCHANGED <<files, status, store, check, stage, launch, born, late>>

--------------------------------------------------------------------------------

Operator == \E x \in Receipt : InstallReceipt(x) \/ PublishRevocation(x)

\* The steps of a request that its own task takes without waiting for its
\* client: every await in them is bounded by a timeout.
OwnStep(r) ==
  \/ Refresh(r)
  \/ ReadStatus(r)
  \/ ReadActive(r)
  \/ Dispatch(r)
  \/ Respond(r)
  \/ Chunk(r)
  \/ ChunkTimeout(r)
  \/ BackendEnds(r)
  \/ Deliver(r)

\* The steps that need the client.
ClientStep(r) ==
  \/ \E endpoint \in {"HealthCheck", "ModelsCheck", "ChatCheck"} : Start(r, endpoint)
  \/ ReceiveBody(r)
  \/ Poll(r)
  \/ Disconnect(r)

LauncherStep ==
  \/ FinishLoading
  \/ Refresh(Launcher)
  \/ ActivateDecides
  \/ SetActive

RevokeStep == RevokeStore \/ RevokeStatus \/ RevokeActive

Next ==
  \/ Operator
  \/ \E r \in Request : OwnStep(r) \/ ClientStep(r)
  \/ LauncherStep
  \/ RevokeStep

Spec == Init /\ [][Next]_vars

\* The runtime keeps polling every task that is ready, and a client that is
\* being streamed to keeps reading.  A revoke() that was called goes on; nothing
\* is assumed of the operator, of new requests or of request bodies.
Fairness ==
  /\ \A r \in Request : WF_vars(OwnStep(r)) /\ WF_vars(Poll(r))
  /\ WF_vars(RevokeStatus \/ RevokeActive)

FairSpec == Spec /\ Fairness

--------------------------------------------------------------------------------
(* Properties. *)

\* Nothing is served between the start of the gateway and its activation: a
\* request is past a check only when the launcher has seen the post-load
\* verification through (status() hides an Approved verdict until then).
SilentUntilActivated == Holding # {} => launch = "Serving"

\* A refresh computes Approved only for a receipt that approves the deployment
\* and that at some moment was installed and not revoked, although it reads the
\* receipt and the revocation state at different times.
NoPhantomApproval ==
  \A p \in Task :
    check[p].at = "Write" /\ check[p].verdict = "Approved"
      => check[p].receipt \in approved /\ Decision[check[p].receipt] = "Approved"

\* A request that arrives after its receipt was revoked is not admitted,
\* provided no refresh that read the older files is still in flight.
QuietRevocationHolds ==
  \A r \in Request : born[r] = "Quiet" => r \notin Holding /\ stage[r] # "Sent"

\* "Signed approval state that the gateway revalidates for every request":
\* no request that arrives after the receipt was revoked is admitted.
RevalidatedPerRequest ==
  \A r \in Request : born[r] # "None" => r \notin Holding /\ stage[r] # "Sent"

\* Once revoke() has returned, no check of any task succeeds: neither new nor
\* streamed work is admitted.
NoAdmissionAfterRevoke ==
  [][revocation = "Done" => Holding' \subseteq Holding]_vars

\* What was admitted before revoke() returned does at most one more thing:
\* one dispatch or one chunk.
LateWorkBounded == \A r \in Request : late[r] <= 1

\* The three locks and the refreshes implement a gate that never reopens.
gate ==
  IF active THEN "Open" ELSE IF revocation = "Done" THEN "Shut" ELSE "Pending"

Gate == INSTANCE AdmissionGate WITH passes <- Holding

ImplementsGate == Gate!Spec

\* A stream whose receipt stays revoked is closed, whether or not the backend
\* sends another chunk.
StreamsEnd ==
  \A r \in Request :
    (receipt \in revoked /\ stage[r] \in {"Ready", "LoopCheck", "Wait", "YieldCheck", "Yield"})
      ~> (stage[r] = "Closed" \/ receipt \notin revoked)

================================================================================
