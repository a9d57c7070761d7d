------------------------ MODULE GatewayAdmission_proofs ------------------------
(***************************************************************************)
(* Proofs about GatewayAdmission, for any number of requests, receipts and *)
(* edits of the approval files.                                            *)
(***************************************************************************)
EXTENDS GatewayAdmission, TLAPS

\* A task is inside status() or refresh() exactly while its caller waits for
\* the answer; the launcher's refresh never reaches the read of `active`.
Shape ==
  /\ \A r \in Request : check[r].at # "Idle" <=> stage[r] \in Checking
  /\ check[Launcher].at # "Idle" <=> launch = "Activating"
  /\ check[Launcher].at # "Active"

Inv == TypeOK /\ Shape

LEMMA VerdictType ==
  ASSUME NEW x \in Receipt, NEW S
  PROVE  AdmissionVerdict(x, x \in S) \in Verdict
BY ReceiptAssumption DEF AdmissionVerdict, Verdict

\* The steps of refresh() are steps of one task's check.
LEMMA RefreshInv ==
  ASSUME Inv, NEW p \in Task, Refresh(p)
  PROVE  Inv'
<1> USE DEF Inv, TypeOK, Shape, files, locks, Check, CheckPoint
<1>1. ASSUME NEW c \in Check, Advance(p, c), c.at \notin {"Idle", "Active"},
             check[p].at \notin {"Idle", "Active"}
      PROVE  /\ check' \in [Task -> Check]
             /\ \A r \in Request : check'[r].at # "Idle" <=> check[r].at # "Idle"
             /\ check'[Launcher].at # "Idle" <=> check[Launcher].at # "Idle"
             /\ check'[Launcher].at # "Active"
  BY <1>1 DEF Advance, Task
<1>2. CASE CloneStore(p)
  BY <1>1, <1>2 DEF CloneStore
<1>3. CASE ReadReceipt(p)
  BY <1>1, <1>3 DEF ReadReceipt
<1>4. CASE ReadRevocation(p)
  <2>0. check[p].receipt \in Receipt
    OBVIOUS
  <2>1. AdmissionVerdict(check[p].receipt, check[p].receipt \in revoked) \in Verdict
    BY <2>0, VerdictType
  <2> QED BY <1>1, <1>4, <2>1 DEF ReadRevocation
<1>5. CASE ReadFails(p)
  BY <1>1, <1>5 DEF ReadFails, Verdict
<1>6. CASE WriteStatus(p)
  BY <1>1, <1>6 DEF WriteStatus
<1> QED BY <1>2, <1>3, <1>4, <1>5, <1>6 DEF Refresh

LEMMA NoCheckType == NoCheck \in Check /\ NoCheck.at = "Idle"
BY ReceiptAssumption DEF NoCheck, Check, CheckPoint, Verdict

LEMMA BeginCheckType == BeginCheck \in Check /\ BeginCheck.at = "Store"
BY ReceiptAssumption DEF BeginCheck, NoCheck, Check, CheckPoint, Verdict

LEMMA InitInv == Init => Inv
<1> SUFFICES ASSUME Init PROVE Inv
  OBVIOUS
<1>1. TypeOK
  <2>1. check \in [Task -> Check] /\ stage \in [Request -> Stage]
    BY NoCheckType DEF Init, Stage
  <2>2. edits \in 0..MaxEdits
    BY EditsAssumption DEF Init
  <2> QED BY <2>1, <2>2, ReceiptAssumption DEF Init, TypeOK, Verdict
<1>2. \A p \in Task : check[p].at = "Idle"
  BY NoCheckType DEF Init
<1>3. Shape
  BY <1>2 DEF Init, Shape, Checking, Task
<1> QED BY <1>1, <1>3 DEF Inv

LEMMA NextInv == Inv /\ [Next]_vars => Inv'
<1> SUFFICES ASSUME Inv, [Next]_vars PROVE Inv'
  OBVIOUS
<1> USE TaskAssumption, NoCheckType, BeginCheckType
    DEF Inv, TypeOK, Shape, files, locks, Task
<1>1. CASE UNCHANGED vars
  BY <1>1 DEF vars
<1>2. CASE Operator
  BY <1>2, EditsAssumption DEF Operator, InstallReceipt, PublishRevocation
<1>3. ASSUME NEW r \in Request, OwnStep(r) PROVE Inv'
  <2>1. CASE Refresh(r)
    BY <2>1, RefreshInv
  <2>2. CASE ReadStatus(r)
    BY <2>2 DEF ReadStatus, Advance, Check, CheckPoint
  <2>3. CASE ReadActive(r)
    BY <2>3 DEF ReadActive, Advance, AfterGrant, Checking, Stage
  <2>4. CASE Dispatch(r) \/ Respond(r) \/ BackendEnds(r) \/ Deliver(r)
    BY <2>4 DEF Dispatch, Respond, BackendEnds, Deliver, CountLate, Checking, Stage
  <2>5. CASE Chunk(r)
    BY <2>5 DEF Chunk, Advance, Checking, Stage
  <2>6. CASE ChunkTimeout(r)
    BY <2>6 DEF ChunkTimeout, Advance, Checking, Stage
  <2> QED BY <1>3, <2>1, <2>2, <2>3, <2>4, <2>5, <2>6 DEF OwnStep
<1>4. ASSUME NEW r \in Request, ClientStep(r) PROVE Inv'
  <2>1. ASSUME NEW e \in {"HealthCheck", "ModelsCheck", "ChatCheck"}, Start(r, e)
        PROVE  Inv'
    BY <2>1 DEF Start, Advance, Checking, Stage
  <2>2. CASE ReceiveBody(r)
    BY <2>2 DEF ReceiveBody, Checking, Stage
  <2>3. CASE Poll(r)
    BY <2>3 DEF Poll, Advance, Checking, Stage
  <2>4. CASE Disconnect(r)
    BY <2>4 DEF Disconnect, Advance, Checking, Stage
  <2> QED BY <1>4, <2>1, <2>2, <2>3, <2>4 DEF ClientStep
<1>5. CASE LauncherStep
  <2>1. CASE FinishLoading
    BY <2>1 DEF FinishLoading, Advance
  <2>2. CASE Refresh(Launcher)
    BY <2>2, RefreshInv
  <2>3. CASE ActivateDecides
    BY <2>3 DEF ActivateDecides, Advance
  <2>4. CASE SetActive
    BY <2>4 DEF SetActive
  <2> QED BY <1>5, <2>1, <2>2, <2>3, <2>4 DEF LauncherStep
<1>6. CASE RevokeStep
  BY <1>6 DEF RevokeStep, RevokeStore, RevokeStatus, RevokeActive, Verdict
<1> QED BY <1>1, <1>2, <1>3, <1>4, <1>5, <1>6 DEF Next

\* Every variable keeps its type, and a check runs only for a caller that
\* waits for it.
THEOREM TypeCorrect == Spec => []TypeOK
<1>1. Inv => TypeOK
  BY DEF Inv
<1> QED BY <1>1, InitInv, NextInv, PTL DEF Spec

THEOREM InvCorrect == Spec => []Inv
BY InitInv, NextInv, PTL DEF Spec

--------------------------------------------------------------------------------
(* Before activation. *)

ActivationInv ==
  /\ active => launch = "Serving"
  /\ SilentUntilActivated

\* How the requests that hold a pass change in a step: somebody gains one only
\* by a check that is answered while the gateway is active.
LEMMA HoldingStep ==
  ASSUME Inv, [Next]_vars
  PROVE  \/ Holding' \subseteq Holding
         \/ active /\ \E r \in Request : Holding' = Holding \union {r}
<1> USE DEF Inv, TypeOK, Shape, Holding
<1>1. CASE UNCHANGED vars
  BY <1>1 DEF vars
<1>2. CASE Operator \/ LauncherStep \/ RevokeStep
  BY <1>2 DEF Operator, InstallReceipt, PublishRevocation, LauncherStep,
     FinishLoading, Refresh, CloneStore, ReadReceipt, ReadRevocation, ReadFails,
     WriteStatus, ActivateDecides, SetActive, RevokeStep, RevokeStore,
     RevokeStatus, RevokeActive
<1>3. ASSUME NEW r \in Request, OwnStep(r)
      PROVE  Holding' \subseteq Holding \/ (active /\ Holding' = Holding \union {r})
  <2>1. CASE Refresh(r) \/ ReadStatus(r)
    BY <2>1 DEF Refresh, CloneStore, ReadReceipt, ReadRevocation, ReadFails,
       WriteStatus, ReadStatus
  <2>2. CASE ReadActive(r)
    <3>1. CASE Admits(r)
      <4>1. active /\ stage' = [stage EXCEPT ![r] = AfterGrant[stage[r]]]
        BY <2>2, <3>1 DEF ReadActive, Admits
      <4>2. AfterGrant[stage[r]] \in {"Closed", "Send", "Body", "Wait", "Yield"}
        BY <2>2, <3>1 DEF ReadActive, AfterGrant, Checking
      <4> QED BY <4>1, <4>2
    <3>2. CASE ~Admits(r)
      BY <2>2, <3>2 DEF ReadActive
    <3> QED BY <3>1, <3>2
  <2>3. CASE Dispatch(r) \/ Respond(r) \/ BackendEnds(r) \/ Deliver(r)
    BY <2>3 DEF Dispatch, Respond, BackendEnds, Deliver
  <2>4. CASE Chunk(r) \/ ChunkTimeout(r)
    BY <2>4 DEF Chunk, ChunkTimeout
  <2> QED BY <1>3, <2>1, <2>2, <2>3, <2>4 DEF OwnStep
<1>4. ASSUME NEW r \in Request, ClientStep(r) PROVE Holding' \subseteq Holding
  BY <1>4 DEF ClientStep, Start, ReceiveBody, Poll, Disconnect
<1> QED BY <1>1, <1>2, <1>3, <1>4 DEF Next

LEMMA ActiveStep ==
  ASSUME Inv, [Next]_vars
  PROVE  /\ active' => active \/ (launch = "SetActive" /\ launch' = "Serving")
         /\ launch = "Serving" => launch' = "Serving"
<1> USE DEF Inv, TypeOK, Shape, locks
<1>1. CASE UNCHANGED vars
  BY <1>1 DEF vars
<1>2. CASE Operator \/ RevokeStep
  BY <1>2 DEF Operator, InstallReceipt, PublishRevocation, RevokeStep,
     RevokeStore, RevokeStatus, RevokeActive
<1>3. ASSUME NEW p \in Task, Refresh(p) PROVE UNCHANGED <<active, launch>>
  BY <1>3 DEF Refresh, CloneStore, ReadReceipt, ReadRevocation, ReadFails, WriteStatus
<1>4. ASSUME NEW r \in Request, OwnStep(r) \/ ClientStep(r)
      PROVE  UNCHANGED <<active, launch>>
  BY <1>3, <1>4 DEF Task, OwnStep, ClientStep, ReadStatus, ReadActive, Dispatch,
     Respond, Chunk, ChunkTimeout, BackendEnds, Deliver, Start, ReceiveBody,
     Poll, Disconnect
<1>5. CASE LauncherStep
  BY <1>3, <1>5 DEF Task, LauncherStep, FinishLoading, ActivateDecides, SetActive
<1> QED BY <1>1, <1>2, <1>4, <1>5 DEF Next

\* No request gets past a check before the post-load verification is through,
\* however requests, refreshes and the launcher interleave.
THEOREM NothingServedEarly == Spec => []SilentUntilActivated
<1>1. Init => ActivationInv
  BY DEF Init, ActivationInv, SilentUntilActivated, Holding
<1>2. Inv /\ ActivationInv /\ [Next]_vars => ActivationInv'
  <2> SUFFICES ASSUME Inv, ActivationInv, [Next]_vars PROVE ActivationInv'
    OBVIOUS
  <2>1. (active => launch = "Serving")'
    BY ActiveStep DEF ActivationInv
  <2>2. SilentUntilActivated'
    BY ActiveStep, HoldingStep DEF ActivationInv, SilentUntilActivated
  <2> QED BY <2>1, <2>2 DEF ActivationInv
<1>3. ActivationInv => SilentUntilActivated
  BY DEF ActivationInv
<1> QED BY <1>1, <1>2, <1>3, InvCorrect, PTL DEF Spec

--------------------------------------------------------------------------------
(* After revoke(). *)

\* When revoke() is not called while the launcher is activating, `active` can
\* not be set after revoke() has cleared it, so what the history counts as late
\* has no check left that could succeed.
RevokedInv ==
  /\ active => launch = "Serving"
  /\ revocation # "Idle" => launch \in {"Serving", "Failed"}
  /\ revocation = "Done" => ~active
  /\ \A r \in Request :
       \/ late[r] = 0
       \/ /\ late[r] = 1
          /\ revocation = "Done"
          /\ stage[r] \in {"Sent", "Ready", "LoopCheck", "Wait", "YieldCheck", "Closed"}

LEMMA RevokedInit == Init => RevokedInv
BY DEF Init, RevokedInv

LEMMA RevokedNext ==
  ASSUME RevokeCall # "Anytime", Inv, RevokedInv, [Next]_vars
  PROVE  RevokedInv'
<1> USE TaskAssumption DEF Inv, TypeOK, Shape, RevokedInv, files, locks, Task
<1>1. CASE UNCHANGED vars
  BY <1>1 DEF vars
<1>2. CASE Operator
  BY <1>2 DEF Operator, InstallReceipt, PublishRevocation
<1>3. ASSUME NEW p \in Task, Refresh(p) PROVE RevokedInv'
  BY <1>3 DEF Refresh, CloneStore, ReadReceipt, ReadRevocation, ReadFails, WriteStatus
<1>4. ASSUME NEW r \in Request, OwnStep(r) PROVE RevokedInv'
  <2>1. CASE Refresh(r)
    BY <1>3, <2>1
  <2>2. CASE ReadStatus(r)
    BY <2>2 DEF ReadStatus
  <2>3. CASE ReadActive(r)
    <3>1. CASE Admits(r)
      <4>1. active /\ UNCHANGED <<launch, revocation, active, late>>
            /\ stage' = [stage EXCEPT ![r] = AfterGrant[stage[r]]]
        BY <2>3, <3>1 DEF ReadActive, Admits
      <4> QED BY <4>1
    <3>2. CASE ~Admits(r)
      BY <2>3, <3>2 DEF ReadActive
    <3> QED BY <3>1, <3>2
  <2>4. CASE Dispatch(r)
    BY <2>4 DEF Dispatch, CountLate
  <2>5. CASE Deliver(r)
    BY <2>5 DEF Deliver, CountLate
  <2>6. CASE Respond(r) \/ BackendEnds(r) \/ Chunk(r) \/ ChunkTimeout(r)
    BY <2>6 DEF Respond, BackendEnds, Chunk, ChunkTimeout
  <2> QED BY <1>4, <2>1, <2>2, <2>3, <2>4, <2>5, <2>6 DEF OwnStep
<1>5. ASSUME NEW r \in Request, ClientStep(r) PROVE RevokedInv'
  BY <1>5 DEF ClientStep, Start, ReceiveBody, Poll, Disconnect
<1>6. CASE LauncherStep
  BY <1>3, <1>6 DEF LauncherStep, FinishLoading, ActivateDecides, SetActive
<1>7. CASE RevokeStep
  BY <1>7, RevokeAssumption DEF RevokeStep, RevokeStore, RevokeStatus, RevokeActive, MayRevoke
<1> QED BY <1>1, <1>2, <1>4, <1>5, <1>6, <1>7 DEF Next

LEMMA RevokedCorrect ==
  ASSUME RevokeCall # "Anytime" PROVE Spec => []RevokedInv
<1>1. Inv /\ RevokedInv /\ [Next]_vars => RevokedInv'
  BY RevokedNext
<1> QED BY <1>1, RevokedInit, InvCorrect, PTL DEF Spec

\* A request admitted before revoke() returned dispatches or delivers at most
\* once afterwards.
THEOREM LateWork ==
  ASSUME RevokeCall # "Anytime" PROVE Spec => []LateWorkBounded
<1>1. RevokedInv => LateWorkBounded
  <2> SUFFICES ASSUME RevokedInv, NEW r \in Request PROVE late[r] <= 1
    BY DEF LateWorkBounded
  <2>1. late[r] = 0 \/ late[r] = 1
    BY DEF RevokedInv
  <2> QED BY <2>1
<1> QED BY <1>1, RevokedCorrect, PTL

\* After revoke() no check succeeds any more.
THEOREM RevokedStaysShut ==
  ASSUME RevokeCall # "Anytime" PROVE Spec => NoAdmissionAfterRevoke
<1>1. Inv /\ RevokedInv /\ [Next]_vars
        => [revocation = "Done" => Holding' \subseteq Holding]_vars
  BY HoldingStep DEF RevokedInv
<1> QED BY <1>1, RevokedCorrect, InvCorrect, PTL DEF Spec, NoAdmissionAfterRevoke

--------------------------------------------------------------------------------
(* The refinement. *)

LEMMA GateStep ==
  ASSUME Inv, RevokedInv, [Next]_vars
  PROVE  [Gate!Next]_<<gate, Holding>>
<1> USE DEF Inv, TypeOK, Shape, RevokedInv
<1> DEFINE Spent(r) == Holding' = Holding \/ (r \in Holding /\ Holding' = Holding \ {r})
<1>1. CASE UNCHANGED vars
  BY <1>1 DEF vars, locks, gate, Holding
<1>2. ASSUME UNCHANGED <<active, revocation>>,
             NEW r \in Request, Spent(r) \/ (active /\ Holding' = Holding \union {r})
      PROVE  [Gate!Next]_<<gate, Holding>>
  <2>1. gate' = gate
    BY <1>2 DEF gate
  <2>2. active => gate = "Open"
    BY DEF gate
  <2> QED BY <1>2, <2>1, <2>2 DEF Gate!Next, Gate!Admit, Gate!Spend
<1>3. CASE Operator
  BY <1>3 DEF Operator, InstallReceipt, PublishRevocation, locks, gate, Holding
<1>4. ASSUME NEW p \in Task, Refresh(p)
      PROVE  UNCHANGED <<active, revocation, launch, stage>>
  BY <1>4 DEF Refresh, CloneStore, ReadReceipt, ReadRevocation, ReadFails,
     WriteStatus, locks
<1>5. ASSUME NEW r \in Request, OwnStep(r)
      PROVE  /\ UNCHANGED <<active, revocation>>
             /\ Spent(r) \/ (active /\ Holding' = Holding \union {r})
  <2>1. CASE Refresh(r)
    BY <1>4, <2>1 DEF Task, Holding
  <2>2. CASE ReadStatus(r)
    BY <2>2 DEF ReadStatus, locks, Holding
  <2>3. CASE ReadActive(r)
    <3>1. stage[r] \in Checking /\ UNCHANGED <<active, revocation>>
      BY <2>3 DEF ReadActive, locks
    <3>2. CASE Admits(r)
      <4>1. active /\ stage' = [stage EXCEPT ![r] = AfterGrant[stage[r]]]
        BY <2>3, <3>2 DEF ReadActive, Admits
      <4>2. AfterGrant[stage[r]] \in {"Closed", "Send", "Body", "Wait", "Yield"}
        BY <3>1 DEF AfterGrant, Checking
      <4>3. Holding' = Holding \/ Holding' = Holding \union {r}
        BY <3>1, <4>1, <4>2 DEF Holding, Checking
      <4> QED BY <3>1, <4>1, <4>3
    <3>3. CASE ~Admits(r)
      BY <2>3, <3>1, <3>3 DEF ReadActive, Holding, Checking
    <3> QED BY <3>2, <3>3
  <2>4. CASE Dispatch(r) \/ Respond(r) \/ BackendEnds(r) \/ Deliver(r)
    BY <2>4 DEF Dispatch, Respond, BackendEnds, Deliver, locks, Holding
  <2>5. CASE Chunk(r) \/ ChunkTimeout(r)
    BY <2>5 DEF Chunk, ChunkTimeout, locks, Holding
  <2> QED BY <1>5, <2>1, <2>2, <2>3, <2>4, <2>5 DEF OwnStep
<1>6. ASSUME NEW r \in Request, ClientStep(r)
      PROVE  UNCHANGED <<active, revocation>> /\ Spent(r)
  BY <1>6 DEF ClientStep, Start, ReceiveBody, Poll, Disconnect, locks, Holding
<1>7. CASE LauncherStep
  <2>1. CASE SetActive
    <3>1. gate = "Pending" /\ gate' = "Open" /\ Holding' = Holding
      BY <2>1 DEF SetActive, gate, Holding
    <3> QED BY <3>1 DEF Gate!Next, Gate!Open
  <2>2. CASE FinishLoading \/ ActivateDecides \/ Refresh(Launcher)
    BY <1>4, <2>2 DEF Task, FinishLoading, ActivateDecides, locks, gate, Holding
  <2> QED BY <1>7, <2>1, <2>2 DEF LauncherStep
<1>8. CASE RevokeStep
  <2>1. CASE RevokeStore \/ RevokeStatus
    BY <2>1 DEF RevokeStore, RevokeStatus, gate, Holding
  <2>2. CASE RevokeActive
    <3>1. gate' = "Shut" /\ Holding' = Holding
      BY <2>2 DEF RevokeActive, gate, Holding
    <3> QED BY <3>1 DEF Gate!Next, Gate!Shut
  <2> QED BY <1>8, <2>1, <2>2 DEF RevokeStep
<1> QED BY <1>1, <1>2, <1>3, <1>5, <1>6, <1>7, <1>8 DEF Next

\* Three locks, refreshes that overtake one another and streams that outlive
\* their first check implement a gate that opens once and never reopens.
THEOREM GateImplemented ==
  ASSUME RevokeCall # "Anytime" PROVE Spec => ImplementsGate
<1>1. Init => Gate!Init
  BY DEF Init, Gate!Init, gate, Holding
<1>2. Inv /\ RevokedInv /\ [Next]_vars => [Gate!Next]_<<gate, Holding>>
  BY GateStep
<1> QED BY <1>1, <1>2, RevokedCorrect, InvCorrect, PTL
        DEF Spec, ImplementsGate, Gate!Spec, Gate!vars

--------------------------------------------------------------------------------
(* The approval files. *)

\* A receipt seen unrevoked was unrevoked when it was installed, because
\* revocations are only added and a refresh reads them after the receipt.
PhantomInv ==
  /\ receipt \notin revoked => receipt \in approved
  /\ \A p \in Task :
       check[p].at = "Revocation" /\ check[p].receipt \notin revoked
         => check[p].receipt \in approved
  /\ NoPhantomApproval

LEMMA PhantomNext ==
  ASSUME Inv, PhantomInv, [Next]_vars
  PROVE  PhantomInv'
<1> USE TaskAssumption DEF Inv, TypeOK, Shape, PhantomInv, NoPhantomApproval, files, locks, Task
<1>1. CASE UNCHANGED vars
  BY <1>1 DEF vars
<1>2. CASE Operator
  <2>1. ASSUME NEW x \in Receipt, InstallReceipt(x) PROVE PhantomInv'
    BY <2>1 DEF InstallReceipt
  <2>2. ASSUME NEW x \in Receipt, PublishRevocation(x) PROVE PhantomInv'
    BY <2>2 DEF PublishRevocation
  <2> QED BY <1>2, <2>1, <2>2 DEF Operator
<1>3. ASSUME NEW p \in Task, NEW c \in Check, Advance(p, c),
             c.at = "Write" /\ c.verdict = "Approved"
               => c.receipt \in approved /\ Decision[c.receipt] = "Approved",
             c.at = "Revocation" /\ c.receipt \notin revoked => c.receipt \in approved,
             UNCHANGED files
      PROVE  PhantomInv'
  BY <1>3 DEF Advance
<1>4. NoCheck \in Check /\ NoCheck.at = "Idle"
  BY NoCheckType
<1>5. BeginCheck \in Check /\ BeginCheck.at = "Store"
  BY BeginCheckType
<1>6. ASSUME NEW p \in Task, Refresh(p) PROVE PhantomInv'
  <2>1. CASE CloneStore(p)
    <3> DEFINE c == [check[p] EXCEPT !.at = IF store THEN "Receipt" ELSE "Status"]
    <3>1. c \in Check /\ c.at \in {"Receipt", "Status"}
      BY DEF Check, CheckPoint
    <3>2. Advance(p, c) /\ UNCHANGED files
      BY <2>1 DEF CloneStore
    <3> HIDE DEF c
    <3> QED BY <1>3, <3>1, <3>2
  <2>2. CASE ReadReceipt(p)
    BY <1>3, <2>2 DEF ReadReceipt, Check, CheckPoint
  <2>3. CASE ReadRevocation(p)
    <3> DEFINE x == check[p].receipt
               v == AdmissionVerdict(x, x \in revoked)
    <3>0. x \in Receipt
      BY DEF Check
    <3>1. x \in Receipt /\ v \in Verdict
      BY <3>0, VerdictType
    <3>2. v = "Approved" => x \notin revoked /\ Decision[x] = "Approved"
      BY <3>1, ReceiptAssumption DEF AdmissionVerdict
    <3>3. x \notin revoked => x \in approved
      BY <2>3 DEF ReadRevocation
    <3> QED BY <1>3, <2>3, <3>1, <3>2, <3>3 DEF ReadRevocation, Check, CheckPoint
  <2>4. CASE ReadFails(p)
    BY <1>3, <2>4 DEF ReadFails, Check, CheckPoint, Verdict
  <2>5. CASE WriteStatus(p)
    <3> DEFINE c == [check[p] EXCEPT !.at = "Status"]
    <3>1. c \in Check /\ c.at = "Status"
      BY DEF Check, CheckPoint
    <3>2. Advance(p, c) /\ UNCHANGED files
      BY <2>5 DEF WriteStatus
    <3> HIDE DEF c
    <3> QED BY <1>3, <3>1, <3>2
  <2> QED BY <1>6, <2>1, <2>2, <2>3, <2>4, <2>5 DEF Refresh
<1>7. ASSUME NEW r \in Request, OwnStep(r) PROVE PhantomInv'
  <2>1. CASE Refresh(r)
    BY <1>6, <2>1
  <2>2. CASE ReadStatus(r)
    BY <1>3, <2>2 DEF ReadStatus, Check, CheckPoint
  <2>3. CASE ReadActive(r)
    BY <1>3, <1>4, <2>3 DEF ReadActive
  <2>4. CASE Dispatch(r) \/ Respond(r) \/ BackendEnds(r) \/ Deliver(r)
    BY <2>4 DEF Dispatch, Respond, BackendEnds, Deliver
  <2>5. CASE Chunk(r)
    BY <1>3, <1>5, <2>5 DEF Chunk
  <2>6. CASE ChunkTimeout(r)
    BY <1>3, <1>5, <2>6 DEF ChunkTimeout
  <2> QED BY <1>7, <2>1, <2>2, <2>3, <2>4, <2>5, <2>6 DEF OwnStep
<1>8. ASSUME NEW r \in Request, ClientStep(r) PROVE PhantomInv'
  <2>1. ASSUME NEW e \in {"HealthCheck", "ModelsCheck", "ChatCheck"}, Start(r, e)
        PROVE  PhantomInv'
    BY <1>3, <1>5, <2>1 DEF Start
  <2>2. CASE ReceiveBody(r)
    BY <2>2 DEF ReceiveBody
  <2>3. CASE Poll(r)
    BY <1>3, <1>5, <2>3 DEF Poll
  <2>4. CASE Disconnect(r)
    BY <1>3, <1>4, <2>4 DEF Disconnect
  <2> QED BY <1>8, <2>1, <2>2, <2>3, <2>4 DEF ClientStep
<1>9. CASE LauncherStep
  <2>1. CASE FinishLoading
    BY <1>3, <1>5, <2>1 DEF FinishLoading
  <2>2. CASE ActivateDecides
    BY <1>3, <1>4, <2>2 DEF ActivateDecides
  <2>3. CASE SetActive
    BY <2>3 DEF SetActive
  <2> QED BY <1>6, <1>9, <2>1, <2>2, <2>3 DEF LauncherStep
<1>10. CASE RevokeStep
  BY <1>10 DEF RevokeStep, RevokeStore, RevokeStatus, RevokeActive
<1> QED BY <1>1, <1>2, <1>7, <1>8, <1>9, <1>10 DEF Next

\* Approved is never computed for a receipt that was not, at one moment, both
\* installed and unrevoked: the order in which a refresh reads the files
\* makes up for their not being read together.
THEOREM NoPhantom == Spec => []NoPhantomApproval
<1>1. Init => PhantomInv
  <2> SUFFICES ASSUME Init PROVE PhantomInv
    OBVIOUS
  <2>1. \A p \in Task : check[p].at = "Idle"
    BY DEF Init, NoCheck
  <2> QED BY <2>1 DEF Init, PhantomInv, NoPhantomApproval
<1>2. Inv /\ PhantomInv /\ [Next]_vars => PhantomInv'
  BY PhantomNext
<1>3. PhantomInv => NoPhantomApproval
  BY DEF PhantomInv
<1> QED BY <1>1, <1>2, <1>3, InvCorrect, PTL DEF Spec

--------------------------------------------------------------------------------
(* Requests that arrive after a revocation. *)

\* Without a carrier of an older approval none can appear, so the verdict a
\* quiet request writes itself is the one it reads, or another refusal.
QuietInv ==
  /\ revocation = "Idle"
  /\ store
  /\ \A r \in Request : born[r] = "Quiet" =>
       /\ receipt \in revoked
       /\ \A p \in Task : ~CarriesApproval(p)
       /\ stage[r] \in {"HealthCheck", "ModelsCheck", "ChatCheck", "Closed"}
       /\ check[r].at = "Status" => status # "Approved"
       /\ check[r].at = "Active" => check[r].verdict # "Approved"

LEMMA QuietNext ==
  ASSUME RevokeCall = "Never", Inv, QuietInv, [Next]_vars
  PROVE  QuietInv'
<1> USE TaskAssumption
    DEF Inv, TypeOK, Shape, QuietInv, CarriesApproval, files, locks, Task
<1>1. CASE UNCHANGED vars
  BY <1>1 DEF vars
<1>2. CASE Operator
  <2>1. ASSUME NEW x \in Receipt, InstallReceipt(x) PROVE QuietInv'
    BY <2>1 DEF InstallReceipt
  <2>2. ASSUME NEW x \in Receipt, PublishRevocation(x) PROVE QuietInv'
    BY <2>2 DEF PublishRevocation
  <2> QED BY <1>2, <2>1, <2>2 DEF Operator
\* A step of one task's check, with the request stages and the files as they are.
<1>3. ASSUME NEW p \in Task, NEW c \in Check, Advance(p, c),
             UNCHANGED <<files, store, revocation, born>>,
             stage' = stage,
             c.at = "Write" => c.verdict # "Approved" \/ receipt \notin revoked \/ CarriesApproval(p),
             c.at = "Revocation" => c.receipt \in revoked \/ receipt \notin revoked,
             c.at = "Status" => status' # "Approved" \/ CarriesApproval(p),
             c.at = "Active" => c.verdict = status,
             c.at = "Active" => check[p].at = "Status",
             status' = status \/ CarriesApproval(p) \/ status' # "Approved"
      PROVE  QuietInv'
  BY <1>3 DEF Advance
<1>4. ASSUME NEW p \in Task, Refresh(p) PROVE QuietInv'
  <2>1. CASE CloneStore(p)
    <3> DEFINE c == [check[p] EXCEPT !.at = IF store THEN "Receipt" ELSE "Status"]
    <3>1. c \in Check /\ c.at = "Receipt"
      BY DEF Check, CheckPoint
    <3>2. Advance(p, c) /\ UNCHANGED <<files, locks, stage, revocation, born>>
      BY <2>1 DEF CloneStore
    <3> HIDE DEF c
    <3> QED BY <1>3, <3>1, <3>2
  <2>2. CASE ReadReceipt(p)
    BY <1>3, <2>2 DEF ReadReceipt, Check, CheckPoint
  <2>3. CASE ReadRevocation(p)
    <3> DEFINE x == check[p].receipt
    <3>1. check[p] \in Check /\ x \in Receipt /\ "Write" \in CheckPoint
      BY DEF Check, CheckPoint
    <3>2. PICK v \in Verdict : v = AdmissionVerdict(x, x \in revoked)
      BY <3>1, VerdictType
    <3>3. v # "Approved" \/ CarriesApproval(p)
      BY <2>3, <3>1, <3>2, ReceiptAssumption DEF ReadRevocation, AdmissionVerdict
    <3> DEFINE c == [check[p] EXCEPT !.at = "Write", !.verdict = v]
    <3>4. Advance(p, c) /\ UNCHANGED <<files, locks, stage, revocation, born>>
      BY <2>3, <3>2 DEF ReadRevocation
    <3>5. c \in Check /\ c.at = "Write" /\ c.verdict = v
      BY <3>1 DEF Check
    <3> HIDE DEF c
    <3> QED BY <1>3, <3>3, <3>4, <3>5
  <2>4. CASE ReadFails(p)
    BY <1>3, <2>4 DEF ReadFails, Check, CheckPoint, Verdict
  <2>5. CASE WriteStatus(p)
    <3> DEFINE c == [check[p] EXCEPT !.at = "Status"]
    <3>1. c \in Check /\ c.at = "Status"
      BY DEF Check, CheckPoint
    <3>2. /\ Advance(p, c)
          /\ UNCHANGED <<files, store, stage, revocation, born>>
          /\ status' # "Approved" \/ CarriesApproval(p)
      BY <2>5 DEF WriteStatus
    <3> HIDE DEF c
    <3> QED BY <1>3, <3>1, <3>2
  <2> QED BY <1>4, <2>1, <2>2, <2>3, <2>4, <2>5 DEF Refresh
<1>5. ASSUME NEW r \in Request, OwnStep(r) PROVE QuietInv'
  <2>1. CASE Refresh(r)
    BY <1>4, <2>1
  <2>2. CASE ReadStatus(r)
    <3> DEFINE c == [check[r] EXCEPT !.at = "Active", !.verdict = status]
    <3>1. c \in Check /\ c.at = "Active" /\ c.verdict = status
      <4>1. "Active" \in CheckPoint
        BY DEF CheckPoint
      <4>2. check[r] \in Check /\ status \in Verdict
        OBVIOUS
      <4> HIDE DEF Inv, TypeOK, Shape, QuietInv
      <4> QED BY <4>1, <4>2 DEF Check
    <3>2. Advance(r, c) /\ UNCHANGED <<files, locks, stage, revocation, born>>
          /\ check[r].at = "Status"
      BY <2>2 DEF ReadStatus
    <3> HIDE DEF c
    <3> QED BY <1>3, <3>1, <3>2
  <2>3. CASE ReadActive(r)
    BY <2>3, NoCheckType DEF ReadActive, Advance, Admits
  <2>4. CASE Dispatch(r) \/ Respond(r) \/ BackendEnds(r) \/ Deliver(r)
    BY <2>4 DEF Dispatch, Respond, BackendEnds, Deliver
  <2>5. CASE Chunk(r) \/ ChunkTimeout(r)
    <3>1. born[r] # "Quiet" /\ UNCHANGED <<files, locks, revocation, born>>
      BY <2>5 DEF Chunk, ChunkTimeout
    <3>2. Advance(r, BeginCheck) \/ check' = check
      BY <2>5 DEF Chunk, ChunkTimeout
    <3>3. \A q \in Request \ {r} : stage'[q] = stage[q]
      BY <2>5 DEF Chunk, ChunkTimeout
    <3> QED BY <3>1, <3>2, <3>3, BeginCheckType DEF Advance
  <2> QED BY <1>5, <2>1, <2>2, <2>3, <2>4, <2>5 DEF OwnStep
<1>6. ASSUME NEW r \in Request, ClientStep(r) PROVE QuietInv'
  <2>1. ASSUME NEW e \in {"HealthCheck", "ModelsCheck", "ChatCheck"}, Start(r, e)
        PROVE  QuietInv'
    BY <2>1, BeginCheckType DEF Start, Advance
  <2>2. CASE ReceiveBody(r)
    BY <2>2 DEF ReceiveBody
  <2>3. CASE Poll(r)
    BY <2>3, BeginCheckType DEF Poll, Advance
  <2>4. CASE Disconnect(r)
    BY <2>4, NoCheckType DEF Disconnect, Advance
  <2> QED BY <1>6, <2>1, <2>2, <2>3, <2>4 DEF ClientStep
<1>7. CASE LauncherStep
  <2>1. CASE FinishLoading
    BY <2>1, BeginCheckType DEF FinishLoading, Advance
  <2>2. CASE ActivateDecides
    BY <2>2, NoCheckType DEF ActivateDecides, Advance
  <2>3. CASE SetActive
    BY <2>3 DEF SetActive
  <2> QED BY <1>4, <1>7, <2>1, <2>2, <2>3 DEF LauncherStep
<1>8. CASE RevokeStep
  BY <1>8 DEF RevokeStep, RevokeStore, RevokeStatus, RevokeActive, MayRevoke
<1> QED BY <1>1, <1>2, <1>5, <1>6, <1>7, <1>8 DEF Next

\* In the shipped program, which never calls revoke(), a request that arrives
\* after its receipt was revoked is refused unless a slower refresh that read
\* the older files is still in flight.
THEOREM QuietRevocation ==
  ASSUME RevokeCall = "Never" PROVE Spec => []QuietRevocationHolds
<1>1. Init => QuietInv
  BY DEF Init, QuietInv
<1>2. Inv /\ QuietInv /\ [Next]_vars => QuietInv'
  BY QuietNext
<1>3. QuietInv => QuietRevocationHolds
  BY DEF QuietInv, QuietRevocationHolds, Holding
<1> QED BY <1>1, <1>2, <1>3, InvCorrect, PTL DEF Spec

================================================================================
