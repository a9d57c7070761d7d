----------------------- MODULE SuccessorAdmission_proofs -----------------------
(***************************************************************************)
(* Proofs of the properties of the lineage of a model: SuccessorAdmission, *)
(* SuccessorPipeline and ArtifactDerivation, for any calls, paths,         *)
(* payloads, reports, checkpoints and commands.                            *)
(*                                                                         *)
(* The heart of the argument about SuccessorAdmission is ownership: a      *)
(* canonical record always has exactly one owner, the call that created it *)
(* and has not withdrawn it.  When calls are made one after the other, an  *)
(* owner that may still withdraw the record excludes every admission       *)
(* record.  The others are introduced below.                               *)
(***************************************************************************)
EXTENDS SuccessorAdmission, SuccessorPipeline, ArtifactDerivation, Integers,
        SequenceTheorems, TLAPS

\* The calls that created the canonical record and have not withdrawn it.
Owner(j) == created[j] /\ phase[j] # "Failed"

\* A call in one of these phases is past the publication of the canonical record.
Past == {"Admission", "Rollback", "Ok", "Failed", "RollbackFailed", "Crashed"}

OwnerInv ==
  /\ \A j \in Job : created[j] => phase[j] \in Past
  /\ \A j \in Job : phase[j] = "Rollback" => created[j]
  /\ CreatorOwnsCanonical
  /\ \A j, k \in Job : Owner(j) /\ Owner(k) => j = k
  /\ file[Canonical] # None => \E j \in Job : Owner(j)

Inv == TypeOK /\ OwnerInv

USE DEF Preflight, Publication, Active, Ended, After

--------------------------------------------------------------------------------

LEMMA InitInv == Init => Inv
<1> SUFFICES ASSUME Init PROVE Inv
  OBVIOUS
<1>1. TypeOK
  BY PathAssumption DEF Init, TypeOK
<1>2. OwnerInv
  BY PathAssumption DEF Init, OwnerInv, CreatorOwnsCanonical, Owner
<1> QED BY <1>1, <1>2 DEF Inv

LEMMA TypeStep ==
  ASSUME TypeOK, NEW j \in Job, Step(j), overlapped' \in BOOLEAN PROVE TypeOK'
<1> USE DEF TypeOK
<1>1. File(j) \in Path /\ Content(j) \in Payload
  BY PathAssumption, PayloadAssumption DEF File, Content, OnCanonical
<1>2. CASE Look(j)
  BY <1>2 DEF Look, Goto, Proceed
<1>3. CASE Compare(j)
  BY <1>3 DEF Compare, Goto, Proceed, Fail
<1>4. CASE Link(j)
  <2>1. file' \in [Path -> Payload \union {None}]
    BY <1>1, <1>4 DEF Link
  <2>2. created' \in [Job -> BOOLEAN]
    BY <1>4 DEF Link
  <2>3. phase' \in [Job -> Active \union Ended] /\ at' \in [Job -> {"Look", "Compare", "Link"}]
    <3>1. CASE Proceed(j)
      <4>1. After[phase[j]] \in {"Admission", "Ok"}
        BY <1>4 DEF Link
      <4> QED BY <3>1, <4>1 DEF Goto, Proceed
    <3>2. CASE Goto(j, phase[j], "Compare")
      BY <3>2 DEF Goto
    <3> QED BY <1>4, <3>1, <3>2 DEF Link
  <2> QED BY <2>1, <2>2, <2>3
<1>5. CASE IoError(j)
  BY <1>5 DEF IoError, Goto, Fail
<1>6. CASE RollbackCompare(j)
  BY <1>6 DEF RollbackCompare, Goto
<1>7. CASE RollbackRemove(j)
  BY <1>7 DEF RollbackRemove, Goto
<1>8. CASE RollbackError(j)
  BY <1>8 DEF RollbackError, Goto
<1>9. CASE Crash(j)
  BY <1>9 DEF Crash, Goto
<1> QED BY <1>2, <1>3, <1>4, <1>5, <1>6, <1>7, <1>8, <1>9 DEF Step

\* A step moves one call on, and changes a record in one of three ways: the
\* call creates the canonical record, it creates its admission record, or it
\* withdraws the canonical record.
Moves(j) ==
  /\ \A k \in Job : k # j => phase'[k] = phase[k] /\ created'[k] = created[k]
  /\ phase[j] \in Active
  /\ phase'[j] # "CheckCanonical" \/ phase[j] = "CheckCanonical"

Stays(j) ==
  /\ file' = file
  /\ created' = created
  /\ phase'[j] = "Rollback" => phase[j] = "Rollback" \/ created[j]
  /\ phase'[j] = "Failed" => phase[j] # "Rollback" /\ ~(phase[j] = "Admission" /\ created[j])
  /\ phase[j] \in Past => phase'[j] \in Past
  /\ phase'[j] = "Admission" /\ phase[j] # "Admission" => file[Canonical] = Bundle[j].canonical
  /\ phase'[j] = "Ok" => phase[j] = "Admission" /\ file[Target[j]] = Bundle[j].admission

Creates(j) ==
  /\ phase[j] = "Canonical" /\ phase'[j] = "Admission"
  /\ file[Canonical] = None
  /\ file' = [file EXCEPT ![Canonical] = Bundle[j].canonical]
  /\ created'[j]

Admits(j) ==
  /\ phase[j] = "Admission" /\ phase'[j] = "Ok"
  /\ file[Target[j]] = None
  /\ file' = [file EXCEPT ![Target[j]] = Bundle[j].admission]
  /\ created' = created

Withdraws(j) ==
  /\ phase[j] = "Rollback" /\ phase'[j] = "Failed"
  /\ file' = [file EXCEPT ![Canonical] = None]
  /\ created' = created

LEMMA StepKinds ==
  ASSUME TypeOK, NEW j \in Job, Step(j)
  PROVE  Moves(j) /\ (Stays(j) \/ Creates(j) \/ Admits(j) \/ Withdraws(j))
<1> USE DEF TypeOK, Moves, Past
<1>2. CASE Look(j)
  BY <1>2 DEF Look, Goto, Proceed, Stays
<1>3. CASE Compare(j)
  BY <1>3 DEF Compare, Goto, Proceed, Fail, Stays, File, Content, OnCanonical
<1>4. CASE Link(j)
  <2>1. CASE file[File(j)] = None /\ phase[j] = "Canonical"
    BY <1>4, <2>1 DEF Link, Goto, Proceed, File, Content, OnCanonical, Creates
  <2>2. CASE file[File(j)] = None /\ phase[j] = "Admission"
    <3>1. created' = created
      BY <1>4, <2>2 DEF Link
    <3> QED BY <1>4, <2>2, <3>1 DEF Link, Goto, Proceed, File, Content, OnCanonical, Admits
  <2>3. CASE file[File(j)] # None
    BY <1>4, <2>3 DEF Link, Goto, Stays
  <2> QED BY <1>4, <2>1, <2>2, <2>3 DEF Link
<1>5. CASE IoError(j)
  BY <1>5 DEF IoError, Goto, Fail, Stays
<1>6. CASE RollbackCompare(j)
  BY <1>6 DEF RollbackCompare, Goto, Stays
<1>7. CASE RollbackRemove(j)
  BY <1>7 DEF RollbackRemove, Goto, Withdraws
<1>8. CASE RollbackError(j)
  BY <1>8 DEF RollbackError, Goto, Stays
<1>9. CASE Crash(j)
  BY <1>9 DEF Crash, Goto, Stays, Running
<1> QED BY <1>2, <1>3, <1>4, <1>5, <1>6, <1>7, <1>8, <1>9 DEF Step

LEMMA OwnerStep ==
  ASSUME Inv, NEW j \in Job, Step(j) PROVE OwnerInv'
<1>1. Moves(j) /\ (Stays(j) \/ Creates(j) \/ Admits(j) \/ Withdraws(j))
  BY StepKinds DEF Inv
<1> USE PathAssumption, PayloadAssumption
    DEF Inv, TypeOK, OwnerInv, CreatorOwnsCanonical, Owner, Moves, Past
<1>2. CASE Stays(j)
  BY <1>1, <1>2 DEF Stays
<1>3. CASE Creates(j)
  <2>1. \A k \in Job : ~(created[k] /\ phase[k] # "Failed")
    BY <1>3 DEF Creates
  <2>2. \A k \in Job : created'[k] /\ phase'[k] # "Failed" => k = j
    BY <1>1, <2>1
  <2>3. file'[Canonical] = Bundle[j].canonical
    BY <1>3 DEF Creates
  <2> QED BY <1>1, <1>3, <2>2, <2>3 DEF Creates
<1>4. CASE Admits(j)
  <2>1. file'[Canonical] = file[Canonical]
    BY <1>4 DEF Admits
  <2>2. created' = created /\ phase[j] = "Admission" /\ phase'[j] = "Ok"
    BY <1>4 DEF Admits
  <2>3. \A k \in Job : (phase'[k] # "Failed" <=> phase[k] # "Failed")
    BY <1>1, <2>2
  <2>4. \A k \in Job : phase[k] \in Past => phase'[k] \in Past
    BY <1>1, <2>2
  <2>5. \A k \in Job : phase'[k] = "Rollback" => phase[k] = "Rollback"
    BY <1>1, <2>2
  <2> QED BY <2>1, <2>2, <2>3, <2>4, <2>5
<1>5. CASE Withdraws(j)
  <2>1. \A k \in Job : k # j => ~(created[k] /\ phase[k] # "Failed")
    BY <1>5 DEF Withdraws
  <2>2. file'[Canonical] = None
    BY <1>5 DEF Withdraws
  <2> QED BY <1>1, <1>5, <2>1, <2>2 DEF Withdraws
<1> QED BY <1>1, <1>2, <1>3, <1>4, <1>5

LEMMA NextInv == Inv /\ [Next]_vars => Inv'
<1> SUFFICES ASSUME Inv, [Next]_vars PROVE Inv'
  OBVIOUS
<1>1. CASE Next
  <2>1. PICK j \in Job : Step(j)
    BY <1>1 DEF Next
  <2>2. overlapped' \in BOOLEAN
    BY <1>1 DEF Next, Inv, TypeOK
  <2> QED BY <2>1, <2>2, TypeStep, OwnerStep DEF Inv
<1>2. CASE UNCHANGED vars
  BY <1>2 DEF Inv, TypeOK, OwnerInv, CreatorOwnsCanonical, Owner, vars
<1> QED BY <1>1, <1>2

--------------------------------------------------------------------------------

\* Every reachable state is well typed.
THEOREM TypeCorrect == Spec => []TypeOK
<1>1. Inv => TypeOK
  BY DEF Inv
<1> QED BY <1>1, InitInv, NextInv, PTL DEF Spec

\* However the calls interleave, crash or fail, rollback_exact (lifecycle.rs)
\* finds the record its call created, and no call removes another's record.
THEOREM CreatorOwns == Spec => []CreatorOwnsCanonical
<1>1. Inv => CreatorOwnsCanonical
  BY DEF Inv, OwnerInv
<1> QED BY <1>1, InitInv, NextInv, PTL DEF Spec

\* A record is created or withdrawn, never replaced by another content: the
\* look at the free name and the link into place cannot be fooled.
THEOREM RecordsNeverReplaced == Spec => NeverReplaced
<1>1. Inv /\ [Next]_vars
        => [\A p \in Path : file'[p] # file[p] => file[p] = None \/ file'[p] = None]_vars
  <2> SUFFICES ASSUME Inv, Next, NEW p \in Path, file'[p] # file[p]
               PROVE  file[p] = None \/ file'[p] = None
    OBVIOUS
  <2>1. PICK j \in Job : Step(j)
    BY DEF Next
  <2>2. Stays(j) \/ Creates(j) \/ Admits(j) \/ Withdraws(j)
    BY <2>1, StepKinds DEF Inv
  <2> QED
    BY <2>2, PathAssumption DEF Inv, TypeOK, Stays, Creates, Admits, Withdraws
<1> QED BY <1>1, InitInv, NextInv, PTL DEF Spec, NeverReplaced

\* When all calls have ended, none by a crash or a failed removal, a canonical
\* record is there only if a call that published that content was admitted.
THEOREM UnadmittedHidden == Spec => []UnadmittedNotExposed
<1>1. Inv => UnadmittedNotExposed
  <2> SUFFICES ASSUME Inv,
                      \A j \in Job : ~Running(j) /\ phase[j] \notin {"Crashed", "RollbackFailed"},
                      file[Canonical] # None
               PROVE  \E j \in Job : phase[j] = "Ok" /\ Bundle[j].canonical = file[Canonical]
    BY DEF UnadmittedNotExposed
  <2>1. PICK j \in Job : Owner(j)
    BY DEF Inv, OwnerInv
  <2>2. phase[j] = "Ok"
    BY <2>1 DEF Inv, OwnerInv, Owner, Past, Running
  <2> QED BY <2>1, <2>2 DEF Inv, OwnerInv, CreatorOwnsCanonical, Owner
<1> QED BY <1>1, InitInv, NextInv, PTL DEF Spec

--------------------------------------------------------------------------------
(* As long as calls have not overlapped. *)

SomeAdmission == \E p \in Path \ {Canonical} : file[p] # None

SerialInv ==
  /\ \A j \in Job : phase[j] = "Admission" => file[Canonical] = Bundle[j].canonical
  /\ \A j \in Job : phase[j] = "Ok" => Bundled(j)
  /\ SomeAdmission =>
       \A j \in Job : phase[j] \in {"Admission", "Rollback"} => ~created[j]
  /\ SomeAdmission => file[Canonical] # None

LEMMA SerialStep ==
  ASSUME Inv, SerialInv, [Next]_vars, ~overlapped' PROVE SerialInv'
<1>1. CASE UNCHANGED vars
  BY <1>1 DEF SerialInv, Bundled, SomeAdmission, vars
<1>2. CASE Next
  <2>1. PICK j \in Job : Step(j) /\ \A k \in Job \ {j} : ~Running(k)
    BY <1>2 DEF Next
  <2>2. Moves(j) /\ (Stays(j) \/ Creates(j) \/ Admits(j) \/ Withdraws(j))
    BY <2>1, StepKinds DEF Inv
  <2>3. \A k \in Job : k # j => phase[k] \notin {"Admission", "Rollback"}
    BY <2>1 DEF Running
  <2>4. \A k \in Job : k # j => phase'[k] \notin {"Admission", "Rollback"}
    BY <2>2, <2>3 DEF Moves
  <2> USE PathAssumption, PayloadAssumption
      DEF Inv, TypeOK, SerialInv, Bundled, SomeAdmission
  <2>5. CASE Stays(j)
    <3>1. \A k \in Job : phase'[k] = "Ok" => phase[k] = "Ok" \/ k = j
      BY <2>2 DEF Moves
    <3>2. SomeAdmission' <=> SomeAdmission
      BY <2>5 DEF Stays
    <3>3. phase'[j] \in {"Admission", "Rollback"} /\ created'[j] =>
            phase[j] \in {"Admission", "Rollback"} /\ created[j]
      BY <2>2, <2>5 DEF Stays, Moves, OwnerInv, Past
    <3> QED BY <2>2, <2>4, <2>5, <3>1, <3>2, <3>3 DEF Stays, Moves
  <2>6. CASE Creates(j)
    <3>1. ~SomeAdmission
      BY <2>6 DEF Creates
    <3>2. ~SomeAdmission'
      BY <2>6, <3>1 DEF Creates
    <3>3. \A k \in Job : phase[k] # "Ok"
      BY <3>1
    <3>4. \A k \in Job : phase'[k] # "Ok"
      BY <2>2, <2>6, <3>3 DEF Moves, Creates
    <3>5. file'[Canonical] = Bundle[j].canonical
      BY <2>6 DEF Creates
    <3> QED BY <2>4, <3>2, <3>4, <3>5
  <2>7. CASE Admits(j)
    <3>1. file'[Canonical] = file[Canonical] /\ file[Canonical] = Bundle[j].canonical
      BY <2>7 DEF Admits
    <3>2. \A k \in Job : phase'[k] = "Ok" => phase[k] = "Ok" \/ k = j
      BY <2>2 DEF Moves
    <3>3. \A k \in Job : phase[k] = "Ok" => file'[Target[k]] = Bundle[k].admission
      BY <2>7 DEF Admits
    <3>4. file'[Target[j]] = Bundle[j].admission
      BY <2>7 DEF Admits
    <3>5. phase'[j] = "Ok"
      BY <2>7 DEF Admits
    <3> QED BY <2>4, <3>1, <3>2, <3>3, <3>4, <3>5
  <2>8. CASE Withdraws(j)
    <3>1. ~SomeAdmission
      BY <2>8 DEF Withdraws, OwnerInv
    <3>2. ~SomeAdmission'
      BY <2>8, <3>1 DEF Withdraws
    <3>3. \A k \in Job : phase[k] # "Ok"
      BY <3>1
    <3>4. \A k \in Job : phase'[k] \notin {"Ok", "Admission"}
      BY <2>2, <2>4, <2>8, <3>3 DEF Moves, Withdraws
    <3> QED BY <3>2, <3>4
  <2> QED BY <2>2, <2>5, <2>6, <2>7, <2>8
<1> QED BY <1>1, <1>2

LEMMA SerialInit == Init => SerialInv
BY PathAssumption DEF Init, SerialInv, Bundled, SomeAdmission

LEMMA SerialNext ==
  Inv /\ (~overlapped => SerialInv) /\ [Next]_vars => (~overlapped' => SerialInv')
<1> SUFFICES ASSUME Inv, ~overlapped => SerialInv, [Next]_vars, ~overlapped'
             PROVE  SerialInv'
  OBVIOUS
<1>1. ~overlapped
  BY DEF Next, vars
<1> QED BY <1>1, SerialStep

\* As long as calls have not overlapped, whatever crashes and errors they met,
\* both records of a successful call are there.
THEOREM SerialBundleKept == Spec => []BundleKept
<1>1. (~overlapped => SerialInv) => BundleKept
  BY DEF SerialInv, BundleKept
<1>2. Init => (~overlapped => SerialInv)
  BY SerialInit
<1>3. Inv /\ (~overlapped => SerialInv) /\ [Next]_vars => (~overlapped => SerialInv)'
  BY SerialNext
<1> QED BY <1>1, <1>2, <1>3, InitInv, NextInv, PTL DEF Spec

\* The two files implement the life of a lineage record, in which an admitted
\* lineage is never withdrawn unless calls have overlapped.
THEOREM RecordImplemented == Spec => ImplementsRecord
<1>1. Init => Record!Init
  BY PathAssumption DEF Init, Record!Init, lineage
<1>2. Inv /\ (~overlapped => SerialInv) /\ [Next]_vars
        => [Record!Next]_<<lineage, overlapped>>
  <2> SUFFICES ASSUME Inv, ~overlapped => SerialInv, [Next]_vars
               PROVE  [Record!Next]_<<lineage, overlapped>>
    OBVIOUS
  <2>1. CASE UNCHANGED vars
    BY <2>1 DEF vars, lineage
  <2>2. CASE Next /\ overlapped'
    <3>1. overlapped' = TRUE /\ lineage' \in {"Absent", "Provisional", "Admitted"}
      BY <2>2 DEF Next, Inv, TypeOK, lineage
    <3> QED BY <3>1 DEF Record!Next, Record!Contend, Record!Stages
  <2>3. CASE Next /\ ~overlapped'
    <3>1. PICK j \in Job : Step(j)
      BY <2>3 DEF Next
    <3>2. SerialInv /\ overlapped' = overlapped
      BY <2>3 DEF Next
    <3>3. Stays(j) \/ Creates(j) \/ Admits(j) \/ Withdraws(j)
      BY <3>1, StepKinds DEF Inv
    <3> USE <3>2, PathAssumption, PayloadAssumption
        DEF Inv, TypeOK, SerialInv, SomeAdmission, lineage, Record!Next
    <3>4. CASE Stays(j)
      BY <3>4 DEF Stays
    <3>5. CASE Creates(j)
      BY <3>5 DEF Creates, Record!Publish
    <3>6. CASE Admits(j)
      <4>1. file'[Target[j]] # None /\ Target[j] \in Path \ {Canonical}
        BY <3>6 DEF Admits
      <4>2. lineage' = "Admitted" /\ lineage \in {"Provisional", "Admitted"}
        BY <3>6, <4>1 DEF Admits
      <4> QED BY <4>2 DEF Record!Admit
    <3>7. CASE Withdraws(j)
      <4>1. ~SomeAdmission
        BY <3>7 DEF Withdraws, OwnerInv
      <4>2. lineage' = "Absent" /\ lineage \in {"Provisional", "Absent"}
        BY <3>7, <4>1 DEF Withdraws
      <4> QED BY <4>2 DEF Record!Withdraw
    <3> QED BY <3>3, <3>4, <3>5, <3>6, <3>7
  <2> QED BY <2>1, <2>2, <2>3
<1>3. Init => (~overlapped => SerialInv)
  BY SerialInit
<1>4. Inv /\ (~overlapped => SerialInv) /\ [Next]_vars => (~overlapped => SerialInv)'
  BY SerialNext
<1> QED
  BY <1>1, <1>2, <1>3, <1>4, InitInv, NextInv, PTL DEF Spec, ImplementsRecord, Record!Spec

-----------------------------------------------------------------------------
(* The records of a successor.  Every record a command writes was checked  *)
(* against the records it names, and it holds copies of those, so what is   *)
(* true of a link when it is written stays true whatever happens later to   *)
(* the records it was made from.  What was examined of a file is true of    *)
(* the content that was hashed only as long as nobody replaces the file, so *)
(* that is carried for the calm commands alone, look by look.               *)

\* The numbers of a report are numbers; nothing is said of whether they are right.
ReportTyped(s) ==
  s.kind = "successor" /\ \A r \in s.regression : {r.candidate, r.parent, r.maximum} \subseteq Int

\* What register_candidate writes is a link of the chain.
CandidateChained(c) ==
  LET t == c.training
      a == t.authorization
  IN /\ CandidateHolds(c) /\ TrainingHolds(t)
     /\ a.base = t.base /\ t.base = c.parent /\ a.dataset = t.dataset
     /\ a.inventory = t.inventory
     /\ a.time <= t.time /\ t.time <= c.time
     /\ c.merged.structure = "of the base"

\* What `model successor admit` publishes is a link, too.
SuccessorChained(s) ==
  LET c == s.candidate
      t == s.training
  IN /\ SuccessorHolds(s) /\ ReportTyped(s)
     /\ c.training = t /\ c.parent = s.parent /\ c.merged = s.merged /\ c.time <= s.time
     /\ s.dataset = t.dataset /\ s.inventory = t.inventory
     /\ {r.case : r \in s.regression} = {x.case : x \in s.baseline.cases}

\* The looks that register_training, register_candidate and admit take after their
\* other checks.
TrainingStep == {"training list", "training scan", "training store"}
CandidateStep ==
  {"candidate list", "candidate scan", "candidate headers", "candidate hash",
   "candidate weights", "candidate store"}
AdmissionStep == {"admission headers", "admission hash", "admission weights", "admission store"}

StageSteps ==
  {"idle", "training", "authorization", "import", "import hash", "merge",
   "baseline", "report", "provenance", "payload"}
    \union TrainingStep \union CandidateStep \union AdmissionStep

\* What a command holds at a step.
HeldInv(step, read) ==
  /\ DOMAIN read = Kept
  /\ step \in {"provenance", "payload"} => ReportTyped(read["report"])
  /\ step \in TrainingStep => TrainingHolds(read["training"])
  /\ step \in CandidateStep => CandidateChained(read["candidate"])
  /\ step \in AdmissionStep =>
       SuccessorChained(read["report"]) /\ read["report"].candidate = read["candidate"]

\* What the adapter file a and the merged checkpoint m are at a step of a calm command.
CalmInv(step, read, a, m) ==
  /\ step \in {"import hash", "merge"} => read["structure"] = m.structure
  /\ step = "merge" => read["files"] = m
  /\ step \in TrainingStep => read["training"].adapter = a
  /\ step \in CandidateStep =>
       /\ read["candidate"].training.adapter = a /\ read["candidate"].merged.files = m
       /\ m.structure = "of the base"
  /\ step \in TrainingStep \union CandidateStep =>
       a.lora \/ step \in {"training list", "candidate list"}
  /\ step \in TrainingStep \union CandidateStep =>
       a.finite \/ step \in {"training list", "candidate list", "training scan", "candidate scan"}
  /\ step \in {"candidate store", "admission store"} => m.finite
  /\ step \in AdmissionStep \ {"admission headers"} =>
       m.structure = read["candidate"].merged.structure
  /\ step \in {"admission weights", "admission store"} => m = read["candidate"].merged.files

\* What is true of the file of a role.
RoleInv(role, value) ==
  value # Absent =>
    /\ value.kind = IF role = "report" THEN "successor" ELSE role
    /\ role = "candidate" => "kind" \in DOMAIN value
    /\ role = "report" => ReportTyped(value)
    /\ role = "successor" => SuccessorHolds(value) /\ SuccessorChained(value)

RecordInv == DOMAIN record = Role /\ \A role \in Role : RoleInv(role, record[role])

StageInv ==
  /\ DOMAIN stage = Stage /\ calm \subseteq Stage
  /\ \A k \in Stage : stage[k].step \in StageSteps /\ HeldInv(stage[k].step, stage[k].read)
  /\ \A k \in calm : CalmInv(stage[k].step, stage[k].read, adapter, merged)

FilesInv ==
  /\ adapter \in Adapter /\ merged \in Merged
  /\ \A c \in written : CandidateChained(c)
  /\ \A r \in sound : FilesHold(r)
  /\ replacements \in 0 .. MaxReplacement /\ swaps \in 0 .. MaxSwap

PipelineIInv == RecordInv /\ StageInv /\ FilesInv

\* A record of a role changes into one that is right.
LEMMA RecordSet ==
  ASSUME RecordInv, NEW role \in Role, NEW value, RoleInv(role, value),
         record' = [record EXCEPT ![role] = value]
  PROVE  RecordInv'
<1>1. DOMAIN record' = Role /\ \A r \in Role : record'[r] = IF r = role THEN value ELSE record[r]
  BY DEF RecordInv
<1> QED BY <1>1 DEF RecordInv

LEMMA RecordStored ==
  ASSUME RecordInv, NEW role \in Role, NEW value, RoleInv(role, value), Store(role, value)
  PROVE  RecordInv'
<1>1. CASE record' = record
  BY <1>1 DEF RecordInv
<1>2. CASE record' = [record EXCEPT ![role] = value]
  BY <1>2, RecordSet
<1> QED BY <1>1, <1>2 DEF Store

\* A command takes a step and the files stay.
LEMMA StageMoves ==
  ASSUME StageInv, NEW k \in Stage, NEW step \in StageSteps, NEW read,
         stage' = [stage EXCEPT ![k] = [step |-> step, read |-> read]],
         HeldInv(step, read), UNCHANGED <<adapter, merged>>, calm' \subseteq calm \union {k},
         k \in calm' => CalmInv(step, read, adapter, merged)
  PROVE  StageInv'
<1> DEFINE new == [step |-> step, read |-> read]
<1>1. new.step = step /\ new.read = read
  OBVIOUS
<1>2. stage' = [stage EXCEPT ![k] = new]
  OBVIOUS
<1> HIDE DEF new
<1>3. DOMAIN stage' = Stage /\ \A j \in Stage : stage'[j] = IF j = k THEN new ELSE stage[j]
  BY <1>2 DEF StageInv
<1>4. calm' \subseteq Stage
  BY DEF StageInv
<1>5. ASSUME NEW j \in Stage PROVE stage'[j].step \in StageSteps /\ HeldInv(stage'[j].step, stage'[j].read)
  BY <1>1, <1>3, <1>5 DEF StageInv
<1>6. ASSUME NEW j \in calm' PROVE CalmInv(stage'[j].step, stage'[j].read, adapter', merged')
  <2>1. CASE j = k
    BY <1>1, <1>3, <1>6, <2>1
  <2>2. CASE j # k
    BY <1>3, <1>4, <1>6, <2>2 DEF StageInv
  <2> QED BY <2>1, <2>2
<1> QED BY <1>3, <1>4, <1>5, <1>6 DEF StageInv

LEMMA StageEnds ==
  ASSUME StageInv, NEW k \in Stage, End(k), UNCHANGED <<adapter, merged>> PROVE StageInv'
<1> DEFINE read == [role \in Kept |-> Absent]
<1>1. stage' = [stage EXCEPT ![k] = [step |-> "idle", read |-> read]] /\ calm' = calm \ {k}
  BY DEF End, Idle
<1>2. DOMAIN read = Kept
  OBVIOUS
<1> HIDE DEF read
<1>3. "idle" \in StageSteps /\ HeldInv("idle", read)
  BY <1>2 DEF HeldInv, StageSteps, TrainingStep, CandidateStep, AdmissionStep
<1> QED BY <1>1, <1>3, StageMoves

\* What a command holds when it holds one thing more.
LEMMA HoldingOne ==
  ASSUME StageInv, NEW k \in Stage, NEW role \in Kept, NEW value,
         NEW read, read = [stage[k].read EXCEPT ![role] = value]
  PROVE  /\ DOMAIN read = Kept /\ read[role] = value
         /\ \A other \in Kept \ {role} : read[other] = Held(k, other)
BY DEF StageInv, HeldInv, Held

LEMMA OnlyReading == ASSUME RecordInv, FilesInv, OnlyReads PROVE RecordInv' /\ FilesInv'
<1>1. UNCHANGED <<record, adapter, merged, written, sound, replacements, swaps>>
  BY DEF OnlyReads
<1> QED BY <1>1 DEF RecordInv, FilesInv

LEMMA GivesUp == ASSUME PipelineIInv, NEW k \in Stage, GiveUp(k) PROVE PipelineIInv'
BY StageEnds, OnlyReading DEF PipelineIInv, GiveUp, OnlyReads

\* One record more is read, and nothing was looked at so far.
LEMMA ReadsOne ==
  ASSUME PipelineIInv, NEW k \in Stage, NEW step \in StageSteps, NEW role \in Kept, NEW value,
         Holding(k, step, role, value), OnlyReads, UNCHANGED calm,
         \/ step \in {"training", "authorization", "import", "baseline", "report"}
         \/ step = "provenance" /\ role = "report" /\ ReportTyped(value)
         \/ step = "payload" /\ role # "report" /\ Doing(k, "provenance")
  PROVE  PipelineIInv'
<1> DEFINE read == [stage[k].read EXCEPT ![role] = value]
<1>0. read = [stage[k].read EXCEPT ![role] = value]
  OBVIOUS
<1>2. stage' = [stage EXCEPT ![k] = [step |-> step, read |-> read]]
  BY DEF Holding
<1> HIDE DEF read
<1>1. /\ DOMAIN read = Kept /\ read[role] = value
      /\ \A other \in Kept \ {role} : read[other] = Held(k, other)
  BY <1>0, HoldingOne DEF PipelineIInv
<1>3. step \in {"provenance", "payload"} => ReportTyped(read["report"])
  <2>1. Doing(k, "provenance") => ReportTyped(Held(k, "report"))
    BY DEF PipelineIInv, StageInv, HeldInv, Doing, Held
  <2> QED BY <1>1, <2>1 DEF Kept, Role
<1>4. step \notin TrainingStep /\ step \notin CandidateStep /\ step \notin AdmissionStep
      /\ step \notin {"import hash", "merge"}
  BY DEF TrainingStep, CandidateStep, AdmissionStep
<1>5. HeldInv(step, read)
  BY <1>1, <1>3, <1>4 DEF HeldInv
<1>6. CalmInv(step, read, adapter, merged)
  BY <1>4 DEF CalmInv, CandidateStep, AdmissionStep
<1>7. StageInv'
  BY <1>2, <1>5, <1>6, StageMoves DEF PipelineIInv, OnlyReads
<1> QED BY <1>7, OnlyReading DEF PipelineIInv

\* A look at a file has found what it looks for.
LEMMA GoesOn ==
  ASSUME PipelineIInv, NEW k \in Stage, NEW step \in StageSteps,
         GoOn(k, step), OnlyReads, calm' \subseteq calm \union {k},
         HeldInv(step, stage[k].read),
         k \in calm' => CalmInv(step, stage[k].read, adapter, merged)
  PROVE  PipelineIInv'
BY StageMoves, OnlyReading DEF PipelineIInv, GoOn, OnlyReads

-----------------------------------------------------------------------------

LEMMA PipelineReads ==
  ASSUME PipelineIInv, NEW k \in Stage,
         BeginTraining(k) \/ BeginCandidate(k) \/ ReadAuthorization(k)
           \/ BeginAdmission(k) \/ ReadBaseline(k) \/ ReadReport(k) \/ ReadTraining(k)
  PROVE  PipelineIInv'
<1>1. Role \subseteq Kept /\ Role =
        {"authorization", "training", "candidate", "baseline", "report", "successor"}
  BY DEF Role, Kept
<1>2. {"training", "authorization", "import", "baseline", "report", "provenance", "payload"}
        \subseteq StageSteps
  BY DEF StageSteps
<1>3. ASSUME NEW step \in {"training", "authorization", "import", "baseline", "report"},
             NEW role \in Role, NEW value, Holding(k, step, role, value), OnlyReads, UNCHANGED calm
      PROVE  PipelineIInv'
  <2>1. role \in Kept /\ step \in StageSteps
    BY <1>1, <1>2
  <2> QED BY ONLY PipelineIInv, k \in Stage, <1>3, <2>1, ReadsOne
<1>4. ASSUME BeginTraining(k) PROVE PipelineIInv'
  BY <1>1, <1>3, <1>4 DEF BeginTraining
<1>5. ASSUME BeginCandidate(k) PROVE PipelineIInv'
  BY <1>1, <1>3, <1>5 DEF BeginCandidate
<1>6. ASSUME BeginAdmission(k) PROVE PipelineIInv'
  BY <1>1, <1>3, <1>6 DEF BeginAdmission
<1>7. ASSUME ReadAuthorization(k) \/ ReadBaseline(k) PROVE PipelineIInv'
  BY <1>1, <1>3, <1>7, GivesUp DEF ReadAuthorization, ReadBaseline, ReadRecord
<1>8. ASSUME ReadReport(k) PROVE PipelineIInv'
  <2>1. record["report"] # Absent => ReportTyped(record["report"])
    BY DEF PipelineIInv, RecordInv, RoleInv, Role
  <2>2. \/ GiveUp(k)
        \/ /\ Holding(k, "provenance", "report", record["report"]) /\ OnlyReads /\ UNCHANGED calm
           /\ record["report"] # Absent
    BY <1>8 DEF ReadReport, ReadRecord
  <2>3. "provenance" \in StageSteps /\ "report" \in Kept
    BY <1>1, <1>2
  <2>4. CASE GiveUp(k)
    BY <2>4, GivesUp
  <2>5. CASE ~GiveUp(k)
    BY ONLY PipelineIInv, k \in Stage, <2>1, <2>2, <2>3, <2>5, ReadsOne
  <2> QED BY <2>4, <2>5
<1>9. ASSUME ReadTraining(k) PROVE PipelineIInv'
  <2>1. \/ GiveUp(k)
        \/ /\ Holding(k, "payload", "training", record["training"]) /\ OnlyReads /\ UNCHANGED calm
           /\ Doing(k, "provenance")
    BY <1>9 DEF ReadTraining, ReadRecord
  <2>2. "payload" \in StageSteps /\ "training" \in Kept
    BY <1>1, <1>2
  <2>3. CASE GiveUp(k)
    BY <2>3, GivesUp
  <2>4. CASE ~GiveUp(k)
    BY ONLY PipelineIInv, k \in Stage, <2>1, <2>2, <2>4, ReadsOne
  <2> QED BY <2>3, <2>4
<1> QED BY <1>4, <1>5, <1>6, <1>7, <1>8, <1>9

LEMMA PipelineAuthorizes ==
  ASSUME PipelineIInv, NEW k \in Stage, AuthorizeTraining(k) PROVE PipelineIInv'
<1>1. PICK a \in Authorizations, base \in Base : AuthorizedBase(a, base) /\ Store("authorization", a)
  BY DEF AuthorizeTraining
<1>2. a.kind = "authorization"
  BY <1>1 DEF AuthorizedBase, AuthorizationHolds
<1>3. RoleInv("authorization", a)
  BY <1>2 DEF RoleInv
<1>4. RecordInv'
  BY <1>1, <1>3, RecordStored DEF Role, PipelineIInv
<1>5. StageInv' /\ FilesInv'
  BY DEF AuthorizeTraining, FilesInv, StageInv, PipelineIInv
<1> QED BY <1>4, <1>5 DEF PipelineIInv

\* The looks at the adapter file, ...
LEMMA PipelineLists ==
  ASSUME PipelineIInv, NEW k \in Stage, ListAdapter(k) PROVE PipelineIInv'
<1> USE DEF TrainingStep, CandidateStep, AdmissionStep
<1>1. HeldInv(stage[k].step, stage[k].read)
      /\ (k \in calm => CalmInv(stage[k].step, stage[k].read, adapter, merged))
  BY DEF PipelineIInv, StageInv
<1>2. CASE GiveUp(k)
  BY <1>2, GivesUp
<1>3. CASE /\ Doing(k, "training list") /\ adapter.lora
           /\ GoOn(k, "training scan") /\ OnlyReads /\ UNCHANGED calm
  <2>1. "training scan" \in StageSteps /\ HeldInv("training scan", stage[k].read)
    BY <1>1, <1>3 DEF HeldInv, Doing, StageSteps
  <2>2. k \in calm => CalmInv("training scan", stage[k].read, adapter, merged)
    BY <1>1, <1>3 DEF CalmInv, Doing, Held
  <2> QED BY <1>3, <2>1, <2>2, GoesOn
<1>4. CASE /\ Doing(k, "candidate list") /\ adapter.lora
           /\ GoOn(k, "candidate scan") /\ OnlyReads /\ UNCHANGED calm
  <2>1. "candidate scan" \in StageSteps /\ HeldInv("candidate scan", stage[k].read)
    BY <1>1, <1>4 DEF HeldInv, Doing, StageSteps
  <2>2. k \in calm => CalmInv("candidate scan", stage[k].read, adapter, merged)
    BY <1>1, <1>4 DEF CalmInv, Doing, Held
  <2> QED BY <1>4, <2>1, <2>2, GoesOn
<1> QED BY <1>2, <1>3, <1>4 DEF ListAdapter, LookAt

LEMMA PipelineScans ==
  ASSUME PipelineIInv, NEW k \in Stage, ScanAdapter(k) PROVE PipelineIInv'
<1> USE DEF TrainingStep, CandidateStep, AdmissionStep
<1>1. HeldInv(stage[k].step, stage[k].read)
      /\ (k \in calm => CalmInv(stage[k].step, stage[k].read, adapter, merged))
  BY DEF PipelineIInv, StageInv
<1>2. CASE GiveUp(k)
  BY <1>2, GivesUp
<1>3. CASE /\ Doing(k, "training scan") /\ adapter.finite
           /\ GoOn(k, "training store") /\ OnlyReads /\ UNCHANGED calm
  <2>1. "training store" \in StageSteps /\ HeldInv("training store", stage[k].read)
    BY <1>1, <1>3 DEF HeldInv, Doing, StageSteps
  <2>2. k \in calm => CalmInv("training store", stage[k].read, adapter, merged)
    BY <1>1, <1>3 DEF CalmInv, Doing, Held
  <2> QED BY <1>3, <2>1, <2>2, GoesOn
<1>4. CASE /\ Doing(k, "candidate scan") /\ adapter.finite
           /\ GoOn(k, "candidate headers") /\ OnlyReads /\ UNCHANGED calm
  <2>1. "candidate headers" \in StageSteps /\ HeldInv("candidate headers", stage[k].read)
    BY <1>1, <1>4 DEF HeldInv, Doing, StageSteps
  <2>2. k \in calm => CalmInv("candidate headers", stage[k].read, adapter, merged)
    BY <1>1, <1>4 DEF CalmInv, Doing, Held
  <2> QED BY <1>4, <2>1, <2>2, GoesOn
<1> QED BY <1>2, <1>3, <1>4 DEF ScanAdapter, LookAt

\* ... and at the merged checkpoint.
LEMMA PipelineHeaders ==
  ASSUME PipelineIInv, NEW k \in Stage, ReadHeaders(k) PROVE PipelineIInv'
<1> USE DEF TrainingStep, CandidateStep, AdmissionStep
<1>1. HeldInv(stage[k].step, stage[k].read)
      /\ (k \in calm => CalmInv(stage[k].step, stage[k].read, adapter, merged))
  BY DEF PipelineIInv, StageInv
<1>2. CASE GiveUp(k)
  BY <1>2, GivesUp
<1>3. CASE /\ Doing(k, "candidate headers") /\ merged.structure = Held(k, "candidate").merged.structure
           /\ GoOn(k, "candidate hash") /\ OnlyReads /\ UNCHANGED calm
  <2>1. "candidate hash" \in StageSteps /\ HeldInv("candidate hash", stage[k].read)
    BY <1>1, <1>3 DEF HeldInv, Doing, StageSteps
  <2>2. k \in calm => CalmInv("candidate hash", stage[k].read, adapter, merged)
    BY <1>1, <1>3 DEF CalmInv, Doing, Held
  <2> QED BY <1>3, <2>1, <2>2, GoesOn
<1>4. CASE /\ Doing(k, "admission headers") /\ merged.structure = Held(k, "candidate").merged.structure
           /\ GoOn(k, "admission hash") /\ OnlyReads /\ UNCHANGED calm
  <2>1. "admission hash" \in StageSteps /\ HeldInv("admission hash", stage[k].read)
    BY <1>1, <1>4 DEF HeldInv, Doing, StageSteps
  <2>2. k \in calm => CalmInv("admission hash", stage[k].read, adapter, merged)
    BY <1>1, <1>4 DEF CalmInv, Doing, Held
  <2> QED BY <1>4, <2>1, <2>2, GoesOn
<1> QED BY <1>2, <1>3, <1>4 DEF ReadHeaders, LookAt

LEMMA PipelineHashes ==
  ASSUME PipelineIInv, NEW k \in Stage, HashMerged(k) PROVE PipelineIInv'
<1> USE DEF TrainingStep, CandidateStep, AdmissionStep
<1>1. HeldInv(stage[k].step, stage[k].read)
      /\ (k \in calm => CalmInv(stage[k].step, stage[k].read, adapter, merged))
  BY DEF PipelineIInv, StageInv
<1>2. CASE GiveUp(k)
  BY <1>2, GivesUp
<1>3. CASE /\ Doing(k, "candidate hash") /\ merged = Held(k, "candidate").merged.files
           /\ GoOn(k, "candidate weights") /\ OnlyReads /\ UNCHANGED calm
  <2>1. "candidate weights" \in StageSteps /\ HeldInv("candidate weights", stage[k].read)
    BY <1>1, <1>3 DEF HeldInv, Doing, StageSteps
  <2>2. k \in calm => CalmInv("candidate weights", stage[k].read, adapter, merged)
    BY <1>1, <1>3 DEF CalmInv, Doing, Held
  <2> QED BY <1>3, <2>1, <2>2, GoesOn
<1>4. CASE /\ Doing(k, "admission hash") /\ merged = Held(k, "candidate").merged.files
           /\ GoOn(k, "admission weights") /\ OnlyReads /\ UNCHANGED calm
  <2>1. "admission weights" \in StageSteps /\ HeldInv("admission weights", stage[k].read)
    BY <1>1, <1>4 DEF HeldInv, Doing, StageSteps
  <2>2. k \in calm => CalmInv("admission weights", stage[k].read, adapter, merged)
    BY <1>1, <1>4 DEF CalmInv, Doing, Held
  <2> QED BY <1>4, <2>1, <2>2, GoesOn
<1> QED BY <1>2, <1>3, <1>4 DEF HashMerged, LookAt

LEMMA PipelineWeighs ==
  ASSUME PipelineIInv, NEW k \in Stage, ScanMerged(k) PROVE PipelineIInv'
<1> USE DEF TrainingStep, CandidateStep, AdmissionStep
<1>1. HeldInv(stage[k].step, stage[k].read)
      /\ (k \in calm => CalmInv(stage[k].step, stage[k].read, adapter, merged))
  BY DEF PipelineIInv, StageInv
<1>2. CASE GiveUp(k)
  BY <1>2, GivesUp
<1>3. CASE /\ Doing(k, "candidate weights") /\ merged.finite
           /\ GoOn(k, "candidate store") /\ OnlyReads /\ UNCHANGED calm
  <2>1. "candidate store" \in StageSteps /\ HeldInv("candidate store", stage[k].read)
    BY <1>1, <1>3 DEF HeldInv, Doing, StageSteps
  <2>2. k \in calm => CalmInv("candidate store", stage[k].read, adapter, merged)
    BY <1>1, <1>3 DEF CalmInv, Doing, Held
  <2> QED BY <1>3, <2>1, <2>2, GoesOn
<1>4. CASE /\ Doing(k, "admission weights") /\ merged.finite
           /\ GoOn(k, "admission store") /\ OnlyReads /\ UNCHANGED calm
  <2>1. "admission store" \in StageSteps /\ HeldInv("admission store", stage[k].read)
    BY <1>1, <1>4 DEF HeldInv, Doing, StageSteps
  <2>2. k \in calm => CalmInv("admission store", stage[k].read, adapter, merged)
    BY <1>1, <1>4 DEF CalmInv, Doing, Held
  <2> QED BY <1>4, <2>1, <2>2, GoesOn
<1> QED BY <1>2, <1>3, <1>4 DEF ScanMerged, LookAt

-----------------------------------------------------------------------------

\* The ends of the commands.
LEMMA Finishes ==
  ASSUME PipelineIInv, NEW k \in Stage, NEW role \in Role, NEW value, Finish(k, role, value),
         RoleInv(role, value), k \in calm => FilesHold(value),
         \A c \in written' \ written : CandidateChained(c)
  PROVE  PipelineIInv'
<1>1. RecordInv'
  BY RecordStored DEF PipelineIInv, Finish
<1>2. StageInv'
  BY StageEnds DEF PipelineIInv, Finish
<1>3. \A r \in sound' : FilesHold(r)
  BY DEF PipelineIInv, FilesInv, Finish
<1>4. FilesInv'
  BY <1>3 DEF PipelineIInv, FilesInv, Finish
<1> QED BY <1>1, <1>2, <1>4 DEF PipelineIInv

LEMMA PipelineStoresTraining ==
  ASSUME PipelineIInv, NEW k \in Stage, StoreTraining(k) PROVE PipelineIInv'
<1> DEFINE t == Held(k, "training")
<1>1. TrainingHolds(t) /\ (k \in calm => t.adapter = adapter /\ AdapterHolds(adapter))
  BY DEF StoreTraining, PipelineIInv, StageInv, HeldInv, CalmInv, TrainingStep, Doing, Held,
         AdapterHolds
<1>2. Finish(k, "training", t) /\ written' = written
  BY DEF StoreTraining
<1> HIDE DEF t
<1>3. t.kind = "training"
  BY <1>1 DEF TrainingHolds
<1>4. k \in calm => FilesHold(t)
  BY <1>1, <1>3 DEF FilesHold
<1> QED BY <1>2, <1>3, <1>4, Finishes DEF Role, RoleInv

LEMMA PipelineStoresCandidate ==
  ASSUME PipelineIInv, NEW k \in Stage, StoreCandidate(k) PROVE PipelineIInv'
<1> DEFINE c == Held(k, "candidate")
<1>1. /\ CandidateChained(c)
      /\ k \in calm => /\ c.training.adapter = adapter /\ c.merged.files = merged
                       /\ AdapterHolds(adapter) /\ MergedHolds(merged)
  BY DEF StoreCandidate, PipelineIInv, StageInv, HeldInv, CalmInv, CandidateStep, Doing, Held,
         AdapterHolds, MergedHolds
<1>2. Finish(k, "candidate", c) /\ \A d \in written' \ written : d = c
  BY DEF StoreCandidate
<1> HIDE DEF c
<1>3. c.kind = "candidate" /\ "kind" \in DOMAIN c
  BY <1>1 DEF CandidateChained, CandidateHolds
<1>4. k \in calm => FilesHold(c)
  BY <1>1, <1>3 DEF FilesHold
<1> QED BY <1>1, <1>2, <1>3, <1>4, Finishes DEF Role, RoleInv

LEMMA PipelineAdmits ==
  ASSUME PipelineIInv, NEW k \in Stage, Admit(k) PROVE PipelineIInv'
<1> DEFINE s == Held(k, "report")
           c == Held(k, "candidate")
<1>1. /\ SuccessorChained(s) /\ s.candidate = c
      /\ k \in calm => /\ merged = c.merged.files /\ merged.structure = c.merged.structure
                       /\ merged.finite
  BY DEF Admit, PipelineIInv, StageInv, HeldInv, CalmInv, AdmissionStep, Doing, Held
<1>2. Finish(k, "successor", s) /\ written' = written
  BY DEF Admit
<1> HIDE DEF s, c
<1>3. s.kind = "successor" /\ s.merged = c.merged /\ SuccessorHolds(s)
  BY <1>1 DEF SuccessorChained, ReportTyped
<1>4. k \in calm => FilesHold(s)
  BY <1>1, <1>3 DEF FilesHold
<1>5. RoleInv("successor", s)
  BY <1>1, <1>3 DEF RoleInv
<1> QED BY <1>2, <1>4, <1>5, Finishes DEF Role

-----------------------------------------------------------------------------

\* The checks before the looks.
LEMMA PipelineTrains ==
  ASSUME PipelineIInv, NEW k \in Stage, RegisterTraining(k) PROVE PipelineIInv'
<1>1. PICK t : \/ /\ Follows(t, Held(k, "authorization")) /\ t.adapter = adapter
                  /\ Holding(k, "training list", "training", t)
                  /\ OnlyReads /\ calm' = calm \union {k}
               \/ GiveUp(k)
  BY DEF RegisterTraining, TrainedOn
<1>2. CASE GiveUp(k)
  BY <1>2, GivesUp
<1>3. CASE /\ Follows(t, Held(k, "authorization")) /\ t.adapter = adapter
           /\ Holding(k, "training list", "training", t)
           /\ OnlyReads /\ calm' = calm \union {k}
  <2> DEFINE read == [stage[k].read EXCEPT !["training"] = t]
  <2>1. read = [stage[k].read EXCEPT !["training"] = t]
    OBVIOUS
  <2>2. stage' = [stage EXCEPT ![k] = [step |-> "training list", read |-> read]]
    BY <1>3 DEF Holding
  <2> HIDE DEF read
  <2>3. DOMAIN read = Kept /\ read["training"] = t
    BY <2>1, HoldingOne DEF PipelineIInv, Kept, Role
  <2>4. TrainingHolds(t)
    BY <1>3 DEF Follows
  <2>5. HeldInv("training list", read) /\ "training list" \in StageSteps
    BY <2>3, <2>4 DEF HeldInv, StageSteps, TrainingStep, CandidateStep, AdmissionStep
  <2>6. CalmInv("training list", read, adapter, merged)
    BY <1>3, <2>3 DEF CalmInv, TrainingStep, CandidateStep, AdmissionStep
  <2>7. StageInv'
    BY <1>3, <2>2, <2>5, <2>6, StageMoves DEF PipelineIInv, OnlyReads
  <2> QED BY <1>3, <2>7, OnlyReading DEF PipelineIInv
<1> QED BY <1>1, <1>2, <1>3

LEMMA PipelineImports ==
  ASSUME PipelineIInv, NEW k \in Stage, ImportMerged(k) \/ ImportHash(k) PROVE PipelineIInv'
<1> USE DEF TrainingStep, CandidateStep, AdmissionStep
<1>1. CASE GiveUp(k)
  BY <1>1, GivesUp
<1>2. CASE /\ Holding(k, "import hash", "structure", merged.structure)
           /\ OnlyReads /\ calm' = calm \union {k}
  <2> DEFINE read == [stage[k].read EXCEPT !["structure"] = merged.structure]
  <2>1. read = [stage[k].read EXCEPT !["structure"] = merged.structure]
    OBVIOUS
  <2>2. stage' = [stage EXCEPT ![k] = [step |-> "import hash", read |-> read]]
    BY <1>2 DEF Holding
  <2> HIDE DEF read
  <2>3. DOMAIN read = Kept /\ read["structure"] = merged.structure
    BY <2>1, HoldingOne DEF PipelineIInv, Kept
  <2>4. HeldInv("import hash", read) /\ "import hash" \in StageSteps
    BY <2>3 DEF HeldInv, StageSteps
  <2>5. CalmInv("import hash", read, adapter, merged)
    BY <2>3 DEF CalmInv
  <2>6. StageInv'
    BY <1>2, <2>2, <2>4, <2>5, StageMoves DEF PipelineIInv, OnlyReads
  <2> QED BY <1>2, <2>6, OnlyReading DEF PipelineIInv
<1>3. CASE ImportHash(k)
  <2> DEFINE read == [stage[k].read EXCEPT !["files"] = merged]
  <2>1. read = [stage[k].read EXCEPT !["files"] = merged]
    OBVIOUS
  <2>2. stage' = [stage EXCEPT ![k] = [step |-> "merge", read |-> read]] /\ OnlyReads /\ calm' = calm
    BY <1>3 DEF ImportHash, Holding
  <2> HIDE DEF read
  <2>3. DOMAIN read = Kept /\ read["files"] = merged /\ read["structure"] = Held(k, "structure")
    BY <2>1, HoldingOne DEF PipelineIInv, Kept
  <2>4. HeldInv("merge", read) /\ "merge" \in StageSteps
    BY <2>3 DEF HeldInv, StageSteps
  <2>5. k \in calm => Held(k, "structure") = merged.structure
    BY <1>3 DEF PipelineIInv, StageInv, CalmInv, ImportHash, Doing, Held
  <2>6. k \in calm => CalmInv("merge", read, adapter, merged)
    BY <2>3, <2>5 DEF CalmInv
  <2>7. StageInv'
    BY <2>2, <2>4, <2>6, StageMoves DEF PipelineIInv, OnlyReads
  <2> QED BY <2>2, <2>7, OnlyReading DEF PipelineIInv
<1> QED BY <1>1, <1>2, <1>3 DEF ImportMerged

LEMMA PipelineMerges ==
  ASSUME PipelineIInv, NEW k \in Stage, MergeCandidate(k) PROVE PipelineIInv'
<1> DEFINE a == Held(k, "authorization")
           t == Held(k, "training")
           C(base, delta, measured, time) ==
             [kind |-> "candidate", parent |-> base, training |-> t,
              merged |-> [structure |-> Held(k, "structure"), files |-> Held(k, "files"),
                          parent |-> base],
              delta |-> delta, drift |-> [measured |-> measured, tolerance |-> 0],
              time |-> time]
           Checked(c, base) ==
             /\ AuthorizedBase(a, base) /\ Follows(t, a) /\ TrainedOn(t, base, adapter)
             /\ MergedFrom(c, t) /\ c.merged.structure = "of the base"
           Goes(c) ==
             Holding(k, "candidate list", "candidate", c) /\ OnlyReads /\ UNCHANGED calm
<1>1. PICK base \in Base, delta \in 0 .. 1, measured \in 0 .. 1, time \in Time :
        LET c == C(base, delta, measured, time) IN (Checked(c, base) /\ Goes(c)) \/ GiveUp(k)
  BY DEF MergeCandidate
<1> DEFINE c == C(base, delta, measured, time)
<1>2. /\ c.training = t
      /\ c.merged.structure = Held(k, "structure") /\ c.merged.files = Held(k, "files")
  OBVIOUS
<1>3. (Checked(c, base) /\ Goes(c)) \/ GiveUp(k)
  BY <1>1
<1> HIDE DEF c, C
<1>4. CASE GiveUp(k)
  BY <1>4, GivesUp
<1>5. CASE Checked(c, base) /\ Goes(c)
  <2>1. CandidateChained(c) /\ c.merged.structure = "of the base" /\ t.adapter = adapter
    BY <1>2, <1>5 DEF CandidateChained, Follows, TrainedOn, MergedFrom, AuthorizedBase
  <2>2. Goes(c)
    BY <1>5
  <2> HIDE DEF t, a, Checked
  <2> DEFINE read == [stage[k].read EXCEPT !["candidate"] = c]
  <2>3. read = [stage[k].read EXCEPT !["candidate"] = c]
    OBVIOUS
  <2>4. stage' = [stage EXCEPT ![k] = [step |-> "candidate list", read |-> read]]
    BY <2>2 DEF Holding
  <2> HIDE DEF read
  <2>5. DOMAIN read = Kept /\ read["candidate"] = c
    BY <2>3, HoldingOne DEF PipelineIInv, Kept, Role
  <2>6. HeldInv("candidate list", read) /\ "candidate list" \in StageSteps
    BY <2>1, <2>5 DEF HeldInv, StageSteps, TrainingStep, CandidateStep, AdmissionStep
  <2>7. k \in calm => Held(k, "structure") = merged.structure /\ Held(k, "files") = merged
    BY DEF PipelineIInv, StageInv, CalmInv, MergeCandidate, Doing, Held
  <2>8. k \in calm => CalmInv("candidate list", read, adapter, merged)
    BY <1>2, <2>1, <2>5, <2>7 DEF CalmInv, TrainingStep, CandidateStep, AdmissionStep
  <2>9. StageInv'
    BY <2>2, <2>4, <2>6, <2>8, StageMoves DEF PipelineIInv, OnlyReads
  <2> QED BY <2>2, <2>9, OnlyReading DEF PipelineIInv
<1> QED BY <1>3, <1>4, <1>5

LEMMA PipelineChecks ==
  ASSUME PipelineIInv, NEW k \in Stage, CheckAdmission(k) PROVE PipelineIInv'
<1> DEFINE c == Held(k, "candidate")
           s == Held(k, "report")
           t == Held(k, "training")
           b == Held(k, "baseline")
           Checked == Compared(s, b) /\ AdmitsCandidate(s, c) /\ MergedFrom(c, t) /\ Proven(s, c, t)
           Goes == GoOn(k, "admission headers") /\ OnlyReads /\ calm' = calm \union {k}
<1>1. (Checked /\ Goes) \/ GiveUp(k)
  BY DEF CheckAdmission
<1>2. DOMAIN stage[k].read = Kept /\ ReportTyped(s)
  BY DEF PipelineIInv, StageInv, HeldInv, CheckAdmission, Doing, Held
<1>3. CASE GiveUp(k)
  BY <1>3, GivesUp
<1>4. CASE Checked /\ Goes
  <2>1. SuccessorChained(s) /\ s.candidate = c
    <3> HIDE DEF s, c, t, b
    <3>1. SuccessorHolds(s) /\ s.training = t /\ c.training = t /\ s.candidate = c /\ s.baseline = b
          /\ s.dataset = t.dataset /\ s.inventory = t.inventory /\ s.parent = c.parent
          /\ s.merged = c.merged /\ {r.case : r \in s.regression} = {x.case : x \in b.cases}
      BY <1>4 DEF Compared, AdmitsCandidate, Proven
    <3>2. c.time <= s.time
      BY <1>4 DEF AdmitsCandidate
    <3> QED BY <1>2, <3>1, <3>2 DEF SuccessorChained
  <2>2. HeldInv("admission headers", stage[k].read) /\ "admission headers" \in StageSteps
    BY <1>2, <2>1 DEF HeldInv, StageSteps, TrainingStep, CandidateStep, AdmissionStep, Held
  <2>3. CalmInv("admission headers", stage[k].read, adapter, merged)
    BY DEF CalmInv, TrainingStep, CandidateStep, AdmissionStep
  <2> QED BY <1>4, <2>2, <2>3, GoesOn
<1> QED BY <1>1, <1>3, <1>4

-----------------------------------------------------------------------------

LEMMA PipelineReplaces == ASSUME PipelineIInv, Replace PROVE PipelineIInv'
<1>1. ASSUME NEW role \in {"authorization", "training", "baseline"}, NEW value,
             record' = [record EXCEPT ![role] = value], value.kind = role
      PROVE  RecordInv'
  <2>1. RoleInv(role, value)
    BY <1>1 DEF RoleInv
  <2> QED BY <1>1, <2>1, RecordSet DEF Role, PipelineIInv
<1>2. ASSUME NEW a \in {x \in Authorizations : AuthorizationHolds(x)},
             record' = [record EXCEPT !["authorization"] = a]
      PROVE  RecordInv'
  BY <1>1, <1>2 DEF AuthorizationHolds
<1>3. ASSUME NEW a \in Authorizations, NEW t \in TrainingReports(a),
             record' = [record EXCEPT !["training"] = t]
      PROVE  RecordInv'
  BY <1>1, <1>3, PipelineAssumption
<1>4. ASSUME NEW b \in Baselines, record' = [record EXCEPT !["baseline"] = b]
      PROVE  RecordInv'
  BY <1>1, <1>4, PipelineAssumption
<1>5. ASSUME NEW t, record["candidate"] # Absent,
             record' = [record EXCEPT !["candidate"].training = t]
      PROVE  RecordInv'
  <2> DEFINE value == [record["candidate"] EXCEPT !.training = t]
  <2>1. record["candidate"].kind = "candidate" /\ "kind" \in DOMAIN record["candidate"]
    BY <1>5 DEF PipelineIInv, RecordInv, RoleInv, Role
  <2>2. value.kind = "candidate" /\ "kind" \in DOMAIN value
    BY <2>1
  <2>3. record' = [record EXCEPT !["candidate"] = value]
    BY <1>5
  <2> HIDE DEF value
  <2>4. RoleInv("candidate", value)
    BY <2>2 DEF RoleInv
  <2> QED BY <2>3, <2>4, RecordSet DEF Role, PipelineIInv
<1>6. UNCHANGED <<stage, written, sound>>
  BY DEF Replace
<1>7. CASE ReplaceRecord
  <2>1. RecordInv'
    BY <1>2, <1>3, <1>4, <1>5, <1>7 DEF ReplaceRecord
  <2>2. StageInv'
    BY <1>6, <1>7 DEF ReplaceRecord, PipelineIInv, StageInv
  <2>3. replacements' \in 0 .. MaxReplacement
    <3>1. /\ replacements \in 0 .. MaxReplacement /\ replacements < MaxReplacement
          /\ replacements' = replacements + 1 /\ MaxReplacement \in Nat
      BY <1>7, PipelineAssumption DEF ReplaceRecord, PipelineIInv, FilesInv
    <3> QED BY <3>1
  <2>4. FilesInv'
    BY <1>6, <1>7, <2>3 DEF ReplaceRecord, PipelineIInv, FilesInv
  <2> QED BY <2>1, <2>2, <2>4 DEF PipelineIInv
<1>8. CASE ReplaceFile
  <2>1. RecordInv'
    BY <1>8 DEF ReplaceFile, PipelineIInv, RecordInv
  <2>2. StageInv'
    BY <1>6, <1>8 DEF ReplaceFile, PipelineIInv, StageInv
  <2>3. swaps' \in 0 .. MaxSwap
    <3>1. swaps \in 0 .. MaxSwap /\ swaps < MaxSwap /\ swaps' = swaps + 1 /\ MaxSwap \in Nat
      BY <1>8, PipelineAssumption DEF ReplaceFile, PipelineIInv, FilesInv
    <3> QED BY <3>1
  <2>4. FilesInv'
    BY <1>6, <1>8, <2>3 DEF ReplaceFile, PipelineIInv, FilesInv
  <2> QED BY <2>1, <2>2, <2>4 DEF PipelineIInv
<1> QED BY <1>7, <1>8 DEF Replace

\* A report that a regression run has written is one by its form.
ReportsTyped == \A c, t, b : \A s \in AdmissionReports(c, t, b) : ReportTyped(s)

LEMMA PipelineSupplies == ASSUME PipelineIInv, Supply, ReportsTyped PROVE PipelineIInv'
<1>1. StageInv' /\ FilesInv'
  BY DEF Supply, PipelineIInv, StageInv, FilesInv
<1>2. CASE \E b \in Baselines : record' = [record EXCEPT !["baseline"] = b]
  <2>1. PICK b \in Baselines : record' = [record EXCEPT !["baseline"] = b]
    BY <1>2
  <2>2. RoleInv("baseline", b)
    BY PipelineAssumption DEF RoleInv
  <2> QED BY <1>1, <2>1, <2>2, RecordSet DEF Role, PipelineIInv
<1>3. CASE \E s : ReportTyped(s) /\ record' = [record EXCEPT !["report"] = s]
  <2>1. PICK s : ReportTyped(s) /\ record' = [record EXCEPT !["report"] = s]
    BY <1>3
  <2>2. RoleInv("report", s)
    BY <2>1 DEF RoleInv, ReportTyped
  <2> QED BY <1>1, <2>1, <2>2, RecordSet DEF Role, PipelineIInv
<1> QED BY <1>2, <1>3 DEF Supply, ReportsTyped

LEMMA PipelineInitInv == PipelineInit => PipelineIInv
<1> SUFFICES ASSUME PipelineInit PROVE PipelineIInv
  OBVIOUS
<1>1. RecordInv
  BY DEF PipelineInit, RecordInv, RoleInv
<1>2. StageInv
  <2> DEFINE read == [role \in Kept |-> Absent]
  <2>1. DOMAIN read = Kept /\ Idle = [step |-> "idle", read |-> read]
    BY DEF Idle
  <2> HIDE DEF read
  <2>2. Idle.step = "idle" /\ DOMAIN Idle.read = Kept
    BY <2>1
  <2>3. "idle" \in StageSteps /\ HeldInv("idle", Idle.read)
    BY <2>2 DEF HeldInv, StageSteps, TrainingStep, CandidateStep, AdmissionStep
  <2> QED BY <2>2, <2>3 DEF PipelineInit, StageInv
<1>3. FilesInv
  BY PipelineAssumption DEF PipelineInit, FilesInv
<1> QED BY <1>1, <1>2, <1>3 DEF PipelineIInv

LEMMA PipelineNextInv ==
  ASSUME ReportsTyped PROVE PipelineIInv /\ [PipelineNext]_pipelineVars => PipelineIInv'
<1> SUFFICES ASSUME PipelineIInv, [PipelineNext]_pipelineVars PROVE PipelineIInv'
  OBVIOUS
<1>1. ASSUME NEW k \in Stage, StageStep(k) PROVE PipelineIInv'
  BY <1>1, PipelineReads, PipelineAuthorizes, PipelineTrains, PipelineLists, PipelineScans,
     PipelineHeaders, PipelineHashes, PipelineWeighs, PipelineStoresTraining, PipelineImports,
     PipelineMerges, PipelineStoresCandidate, PipelineChecks, PipelineAdmits
     DEF StageStep
<1>2. CASE Supply \/ Replace
  BY <1>2, PipelineSupplies, PipelineReplaces
<1>3. CASE UNCHANGED pipelineVars
  BY <1>3 DEF pipelineVars, PipelineIInv, RecordInv, StageInv, FilesInv
<1> QED BY <1>1, <1>2, <1>3 DEF PipelineNext

\* By its own numbers, no case of an admitted successor is worse than allowed.
LEMMA ResultBounded ==
  ASSUME NEW r, ResultHolds(r), {r.candidate, r.parent, r.maximum} \subseteq Int
  PROVE  r.candidate <= r.parent + r.maximum
<1>1. r.candidate \in Int /\ r.parent \in Int /\ r.maximum \in Int
  OBVIOUS
<1>2. r.delta = r.candidate - r.parent /\ r.delta <= r.maximum
  BY DEF ResultHolds
<1> QED BY <1>1, <1>2

LEMMA PipelineInvHolds == PipelineIInv => PipelineInv
<1> SUFFICES ASSUME PipelineIInv PROVE PipelineInv
  OBVIOUS
<1> DEFINE s == record["successor"]
<1>1. s # Absent => SuccessorChained(s) /\ SuccessorHolds(s) /\ ReportTyped(s)
  BY DEF PipelineIInv, RecordInv, RoleInv, Role, SuccessorChained
<1>2. \A c \in written : CandidateChained(c)
  BY DEF PipelineIInv, FilesInv
<1>3. PipelineTypeOK
  <2>1. \A role \in Role :
          record[role] = Absent \/ record[role].kind = IF role = "report" THEN "successor" ELSE role
    BY DEF PipelineIInv, RecordInv, RoleInv
  <2>2. \A c \in written : CandidateHolds(c) /\ TrainingHolds(c.training)
    BY <1>2 DEF CandidateChained
  <2> QED BY <1>1, <2>1, <2>2
          DEF PipelineTypeOK, PipelineIInv, RecordInv, StageInv, FilesInv, StageSteps,
              TrainingStep, CandidateStep, AdmissionStep
<1> HIDE DEF s
<1>4. ASSUME s # Absent, s.candidate \in written PROVE ChainHolds(s)
  <2>1. SuccessorChained(s) /\ CandidateChained(s.candidate)
    BY <1>1, <1>2, <1>4
  <2>2. InventoryHolds(s.inventory)
    BY <1>1, <1>4 DEF SuccessorHolds
  <2> QED BY <2>1, <2>2 DEF ChainHolds, SuccessorChained, CandidateChained, InventoryHolds
<1>5. ASSUME s # Absent, NEW c \in s.baseline.cases
      PROVE  \E r \in s.regression : r.case = c.case /\ r.candidate <= r.parent + r.maximum
  <2>1. PICK r \in s.regression : r.case = c.case
    <3>1. {r.case : r \in s.regression} = {x.case : x \in s.baseline.cases}
      BY <1>1, <1>5 DEF SuccessorChained
    <3> QED BY <1>5, <3>1
  <2>2. ResultHolds(r) /\ {r.candidate, r.parent, r.maximum} \subseteq Int
    BY <1>1, <1>5 DEF SuccessorHolds, ReportTyped
  <2> QED BY <2>1, <2>2, ResultBounded
<1>6. s # Absent => s.training = s.candidate.training
  BY <1>1 DEF SuccessorChained
<1>7. ExaminedAsHashed
  BY DEF ExaminedAsHashed, PipelineIInv, FilesInv
<1> QED BY <1>3, <1>4, <1>5, <1>6, <1>7
        DEF PipelineInv, AdmittedChainHolds, ComparedOnEveryCase, OneTrainingRecord, s

\* Every stored report, candidate and successor, and every one that a command under way
\* has checked, is a link of the chain of records; a command during which nobody replaced
\* the adapter file or the merged checkpoint has seen one content of each in all its
\* looks (lifecycle.rs, adapter.rs and model_cli/successor.rs).  The numbers of a report only have
\* to be numbers.
THEOREM PipelineIInvCorrect == ASSUME ReportsTyped PROVE PipelineSpec => []PipelineIInv
<1>1. PipelineInit => PipelineIInv
  BY PipelineInitInv
<1>2. PipelineIInv /\ [PipelineNext]_pipelineVars => PipelineIInv'
  BY PipelineNextInv
<1> QED BY <1>1, <1>2, PTL DEF PipelineSpec

\* Whoever replaces records or files: a successor admitted on a candidate that a command
\* wrote is chained to its training, authorization and base by its records, it was
\* compared on every case of its baseline, and a training has one record.  Of the contents
\* that a record names by hash, its adapter has LoRA tensors and numbers only, and its
\* merged checkpoint the structure of the base and numbers, when nobody replaced a file
\* while the command that stored the record looked at them.
THEOREM PipelineCorrect == ASSUME ReportsTyped PROVE PipelineSpec => []PipelineInv
BY PipelineIInvCorrect, PipelineInvHolds, PTL
-----------------------------------------------------------------------------
(* The artifacts of a checkpoint.  As long as nobody else touches the files *)
(* the output of a derivation has one owner, from the link to the record or *)
(* the removal, and no record names it before; what the owner records is    *)
(* what it made.  A candidate is recorded before it is admitted, so what is *)
(* admitted is what its record says.                                        *)

DeriverState ==
  [step : DerivationStep, command : {"none", "derive", "admit", "verify"},
   lineage : Lineage \union {"none"}, id : RecordId \union {"none"},
   path : OutputPath \union {NoPath}, defer : BOOLEAN,
   hash : Gguf \union {NoGguf}, opened : Gguf \union {NoGguf}, changed : 0 .. 2,
   todo : Seq(RecordId), seen : SUBSET RecordId]

DerivationTyped ==
  /\ canonical \subseteq Lineage
  /\ outputs \in [OutputPath -> Gguf \union {NoGguf}]
  /\ candidates \in [RecordId -> ArtifactRecord \union {NoRecord}]
  /\ artifacts \in [RecordId -> ArtifactRecord \union {NoRecord} \union {Anchor(l) : l \in Lineage}]
  /\ approvals \in [Lineage -> {"none", "matching", "other"}]
  /\ deriver \in [Deriver -> DeriverState]
  /\ loose \subseteq OutputPath

StoreKinds ==
  /\ \A i \in RecordId : candidates[i].kind \in {"none", "candidate"}
  /\ \A i \in RecordId : artifacts[i].kind \in {"none", "gguf", "source"}
  /\ \A i \in RecordId : artifacts[i].kind = "source" => artifacts[i] = Anchor(i)

Counted == touches \in Nat /\ kills \in Nat /\ touches + kills <= MaxDisturbance

\* What the place of a command says of it.
PlacedAs(d, admitted) ==
  /\ d.step # "idle" => d.lineage \in Lineage /\ d.command # "none"
  /\ d.step \in {"free", "convert", "open", "publish", "register", "rollback"} =>
       d.command = "derive"
  /\ d.step \in {"belongs", "inspect", "recheck"} => d.command \in {"admit", "verify"}
  /\ d.step = "load" => d.command = "admit"
  /\ d.step \in {"anchor", "append"} => d.command \in {"derive", "admit"}
  /\ d.command = "derive" => d.path \in OutputPath /\ d.id \in RecordId
  /\ d.step \notin {"idle", "gate"} /\ d.lineage \in Successor =>
       admitted[d.lineage] = "matching"
  /\ d.step \in {"open", "publish", "register", "anchor", "append"} => d.hash \in Gguf

\* The step of a command between the verification of a candidate and its record.
Examines(d) ==
  \/ d.step \in {"inspect", "load", "recheck"}
  \/ d.step \in {"anchor", "append"} /\ d.command = "admit"

\* The candidates that a command is to look at are recorded.
ListedIn(d, store) ==
  /\ \A n \in 1 .. Len(d.todo) : d.todo[n] \in RecordId /\ store[d.todo[n]] # NoRecord
  /\ d.step \in {"gate", "source", "belongs"} /\ d.command \in {"admit", "verify"} =>
       d.todo # <<>>
  /\ Examines(d) =>
       /\ d.id \in RecordId /\ store[d.id] # NoRecord
       /\ d.path = store[d.id].path /\ d.hash = store[d.id].hash
       /\ d.lineage = store[d.id].lineage

\* What the backend opened is what is going to be recorded.
OpenedFrom(d, files) ==
  /\ d.command = "derive" =>
       /\ d.step = "publish" /\ ~d.defer => d.opened = d.hash
       /\ d.step \in {"anchor", "append"} => d.opened = d.hash
  /\ d.command = "admit" =>
       /\ d.step \in {"inspect", "load"} /\ d.changed = 0 => files[d.path] = d.hash
       /\ d.step = "recheck" /\ d.changed = 0 => d.opened = d.hash
       /\ d.step = "recheck" /\ d.changed = 1 => d.opened = d.hash \/ files[d.path] = d.opened
       /\ d.step \in {"anchor", "append"} => d.opened = d.hash \/ d.changed = 2

\* Every record of a file.
FilesOf(cs, as) ==
  {r \in ArtifactRecord : \E i \in RecordId : r = cs[i] \/ r = as[i]}
FileRecords == FilesOf(candidates, artifacts)

OfManifest(l) == [lineage |-> l, form |-> "canonical"]
MadeFrom(d) ==
  d.step \in {"open", "publish", "register", "anchor", "append"} => d.hash = OfManifest(d.lineage)

OwnsPath(d, p) ==
  /\ d.command = "derive" /\ d.path = p
  /\ d.step \in {"register", "anchor", "append", "rollback"}

\* As long as nobody else touches the files, the one command that owns an output
\* made it from the checkpoint, and nobody has recorded it yet.
OwnedAlone(k, p) ==
  /\ deriver[k].step # "rollback" => outputs[p] = deriver[k].hash
  /\ outputs[p] # NoGguf
  /\ \A j \in Deriver : OwnsPath(deriver[j], p) => j = k
  /\ \A r \in FileRecords : r.path # p
SaysTrue(r) == outputs[r.path] = r.hash /\ r.hash = OfManifest(r.lineage)

Untouched ==
  touches = 0 =>
    /\ canonical = Lineage
    /\ \A k \in Deriver : MadeFrom(deriver[k])
    /\ \A k \in Deriver, p \in OutputPath : OwnsPath(deriver[k], p) => OwnedAlone(k, p)
    /\ \A r \in FileRecords : SaysTrue(r)

Gated == \A r \in FileRecords : r.lineage \in Successor => approvals[r.lineage] = "matching"

Answered ==
  \A p \in OutputPath : outputs[p] # NoGguf =>
    p \in loose \/ (\E k \in Deriver : OwnsPath(deriver[k], p)) \/ \E r \in FileRecords : r.path = p

CommandHolds(k) ==
  /\ PlacedAs(deriver[k], approvals)
  /\ ListedIn(deriver[k], candidates)
  /\ OpenedFrom(deriver[k], outputs)

DerivationIInv ==
  /\ DerivationTyped /\ StoreKinds /\ Counted
  /\ \A k \in Deriver : CommandHolds(k)
  /\ Untouched /\ Gated /\ Answered

-----------------------------------------------------------------------------

LEMMA Forms ==
  ASSUME NEW r \in ArtifactRecord
  PROVE  /\ r.kind \in {"candidate", "gguf"} /\ r.lineage \in Lineage
         /\ r.path \in OutputPath /\ r.hash \in Gguf
         /\ r # NoRecord /\ \A l : r # Anchor(l)
BY DEF ArtifactRecord, NoRecord, Anchor

LEMMA NoGgufApart == NoGguf \notin Gguf
BY DEF NoGguf, Gguf, Foreign

\* A file of a checkpoint is none of no form.
LEMMA CanonicalIsGguf == ASSUME NEW l \in Lineage PROVE OfManifest(l) \in Gguf
BY DEF OfManifest, Gguf

\* Another command's change of files changes nothing of a command but the count.
SameBut(d, e) ==
  /\ e.step = d.step /\ e.command = d.command /\ e.lineage = d.lineage /\ e.id = d.id
  /\ e.path = d.path /\ e.defer = d.defer /\ e.hash = d.hash /\ e.opened = d.opened
  /\ e.todo = d.todo

Noticed(d, e, paths) ==
  /\ e \in DeriverState /\ SameBut(d, e)
  /\ d.changed <= e.changed
  /\ d.command = "admit" /\ d.path \in paths /\ d.changed < 2 => e.changed = d.changed + 1
  /\ ~(d.command = "admit" /\ d.path \in paths) => e = d

LEMMA NoticingEffect ==
  ASSUME NEW j \in Deriver, deriver[j] \in DeriverState, NEW paths
  PROVE  Noticed(deriver[j], Noticing(j, paths), paths)
<1> DEFINE d == deriver[j]
<1>1. CASE d.command = "admit" /\ d.path \in paths /\ d.changed < 2
  <2>1. Noticing(j, paths) = [d EXCEPT !.changed = d.changed + 1]
    BY <1>1 DEF Noticing
  <2>2. d.changed + 1 \in 0 .. 2 /\ d.changed \in 0 .. 2
    BY <1>1 DEF DeriverState
  <2>3. QED BY <1>1, <2>1, <2>2 DEF DeriverState, Noticed, SameBut
<1>2. CASE ~(d.command = "admit" /\ d.path \in paths /\ d.changed < 2)
  <2>1. Noticing(j, paths) = d
    BY <1>2 DEF Noticing
  <2>2. d.changed \in 0 .. 2
    BY DEF DeriverState
  <2>3. QED BY <1>2, <2>1, <2>2 DEF Noticed, SameBut
<1>3. QED BY <1>1, <1>2

LEMMA ContinueEffect ==
  ASSUME deriver \in [Deriver -> DeriverState], NEW k \in Deriver, NEW s \in DeriverState,
         NEW paths, Continue(k, s, paths)
  PROVE  /\ deriver' \in [Deriver -> DeriverState] /\ deriver'[k] = s
         /\ \A j \in Deriver \ {k} : Noticed(deriver[j], deriver'[j], paths)
<1>1. \A j \in Deriver : Noticed(deriver[j], Noticing(j, paths), paths)
  BY NoticingEffect
<1>2. \A j \in Deriver : Noticing(j, paths) \in DeriverState
  BY <1>1 DEF Noticed
<1>3. QED
  BY <1>1, <1>2 DEF Continue

LEMMA IdleState == NoDerivation \in DeriverState
<1>1. <<>> \in Seq(RecordId)
  BY EmptySeq
<1>2. QED
  BY <1>1 DEF NoDerivation, DeriverState, DerivationStep

LEMMA IdleHolds ==
  ASSUME NEW adm, NEW store, NEW files
  PROVE  /\ PlacedAs(NoDerivation, adm) /\ ListedIn(NoDerivation, store)
         /\ OpenedFrom(NoDerivation, files)
         /\ \A p : ~OwnsPath(NoDerivation, p)
         /\ MadeFrom(NoDerivation)
<1>1. Len(<<>>) = 0
  OBVIOUS
<1>2. QED
  BY <1>1 DEF NoDerivation, PlacedAs, ListedIn, OpenedFrom, OwnsPath, MadeFrom, Examines

\* Records are only added, an admission stays, and no other file changes.
Growing(paths) ==
  /\ \A i \in RecordId : candidates[i] # NoRecord => candidates'[i] = candidates[i]
  /\ \A l \in Lineage : approvals[l] = "matching" => approvals'[l] = "matching"
  /\ \A p \in OutputPath : p \notin paths => outputs'[p] = outputs[p]

LEMMA OthersHold ==
  ASSUME DerivationTyped, NEW j \in Deriver, CommandHolds(j), NEW paths, Growing(paths),
         Noticed(deriver[j], deriver'[j], paths)
  PROVE  CommandHolds(j)'
<1> DEFINE d == deriver[j]
           e == deriver'[j]
<1>1. /\ d \in DeriverState /\ e \in DeriverState /\ SameBut(d, e)
  BY DEF DerivationTyped, Noticed
<1>2. PlacedAs(e, approvals')
  <2>1. PlacedAs(d, approvals)
    BY DEF CommandHolds
  <2>2. d.lineage \in Lineage /\ approvals[d.lineage] = "matching"
          => approvals'[d.lineage] = "matching"
    BY DEF Growing
  <2>3. QED BY <1>1, <2>1, <2>2 DEF PlacedAs, SameBut
<1>3. ListedIn(e, candidates')
  <2>1. ListedIn(d, candidates)
    BY DEF CommandHolds
  <2>2. \A i \in RecordId : candidates[i] # NoRecord =>
          candidates'[i] # NoRecord /\ candidates'[i] = candidates[i]
    BY DEF Growing
  <2>3. Examines(e) <=> Examines(d)
    BY <1>1 DEF Examines, SameBut
  <2>4. Examines(d) => d.id \in RecordId /\ candidates[d.id] # NoRecord
    BY <2>1 DEF ListedIn
  <2>5. QED BY <1>1, <2>1, <2>2, <2>3, <2>4 DEF ListedIn, SameBut
<1>4. OpenedFrom(e, outputs')
  <2>1. OpenedFrom(d, outputs) /\ ListedIn(d, candidates)
    BY DEF CommandHolds
  <2>2. d.step \in {"inspect", "load", "recheck"} => d.path \in OutputPath
    <3>1. Examines(d) => d.id \in RecordId /\ candidates[d.id] # NoRecord
                           /\ d.path = candidates[d.id].path
      BY <2>1 DEF ListedIn
    <3>2. \A i \in RecordId : candidates[i] # NoRecord => candidates[i].path \in OutputPath
      BY Forms DEF DerivationTyped
    <3>3. QED BY <3>1, <3>2 DEF Examines
  <2>3. d.changed \in 0 .. 2 /\ e.changed \in 0 .. 2 /\ d.changed <= e.changed
    BY <1>1 DEF DeriverState, Noticed
  <2>4. d.command = "admit" /\ d.path \in paths /\ d.changed < 2 => e.changed = d.changed + 1
    BY DEF Noticed
  <2>5. d.path \in OutputPath /\ d.path \notin paths => outputs'[d.path] = outputs[d.path]
    BY DEF Growing
  <2>6. ~(d.command = "admit" /\ d.path \in paths) => e.changed = d.changed
    BY DEF Noticed
  <2>7. QED BY <1>1, <2>1, <2>2, <2>3, <2>4, <2>5, <2>6 DEF OpenedFrom, SameBut
<1>5. QED
  BY <1>2, <1>3, <1>4 DEF CommandHolds

\* What a command owns and made depends on nothing that others change.
LEMMA NoticedOwns ==
  ASSUME NEW d, NEW e, NEW paths, Noticed(d, e, paths)
  PROVE  /\ \A p : OwnsPath(e, p) <=> OwnsPath(d, p)
         /\ MadeFrom(e) <=> MadeFrom(d)
         /\ e.step = d.step /\ e.hash = d.hash
BY DEF Noticed, SameBut, OwnsPath, MadeFrom

\* A command that only reads.
LEMMA LookingKeeps ==
  ASSUME DerivationIInv, NEW k \in Deriver, NEW s \in DeriverState,
         Continue(k, s, {}), Looking,
         PlacedAs(s, approvals), ListedIn(s, candidates), OpenedFrom(s, outputs),
         \A p : ~OwnsPath(deriver[k], p), \A p : ~OwnsPath(s, p),
         touches = 0 => MadeFrom(s)
  PROVE  DerivationIInv'
<1> USE DEF Looking, Outside, KeepFiles, KeepRecords
<1>1. /\ deriver' \in [Deriver -> DeriverState] /\ deriver'[k] = s
      /\ \A j \in Deriver \ {k} : Noticed(deriver[j], deriver'[j], {})
  BY ContinueEffect DEF DerivationIInv, DerivationTyped
<1>2. DerivationTyped' /\ StoreKinds' /\ Counted'
  BY <1>1 DEF DerivationIInv, DerivationTyped, StoreKinds, Counted
<1>3. ASSUME NEW j \in Deriver PROVE CommandHolds(j)'
  <2>1. CASE j = k
    BY <1>1, <2>1 DEF CommandHolds
  <2>2. CASE j # k
    <3>1. Growing({})
      BY DEF Growing
    <3>2. QED BY <1>1, <2>2, <3>1, OthersHold DEF DerivationIInv
  <2>3. QED BY <2>1, <2>2
<1>4. \A j \in Deriver : \A p : OwnsPath(deriver'[j], p) <=> OwnsPath(deriver[j], p)
  BY <1>1, NoticedOwns
<1>5. \A j \in Deriver : touches = 0 /\ MadeFrom(deriver[j]) => MadeFrom(deriver'[j])
  BY <1>1, NoticedOwns
<1>6. \A j \in Deriver : \A p : OwnsPath(deriver[j], p) =>
        deriver'[j].step = deriver[j].step /\ deriver'[j].hash = deriver[j].hash
  BY <1>1, NoticedOwns
<1>7. FileRecords' = FileRecords
  BY DEF FileRecords
<1>8. \A j \in Deriver, p \in OutputPath :
        OwnsPath(deriver[j], p) /\ OwnedAlone(j, p) => OwnedAlone(j, p)'
  BY <1>4, <1>6, <1>7 DEF OwnedAlone
<1>9. \A r \in FileRecords : SaysTrue(r) => SaysTrue(r)'
  BY DEF SaysTrue
<1>10. Untouched'
  BY <1>4, <1>5, <1>7, <1>8, <1>9 DEF Untouched, DerivationIInv
<1>11. Gated'
  BY <1>7 DEF Gated, DerivationIInv
<1>12. Answered'
  BY <1>4, <1>7 DEF Answered, DerivationIInv
<1>13. QED
  BY <1>2, <1>3, <1>10, <1>11, <1>12 DEF DerivationIInv

LEMMA LookAndStop ==
  ASSUME DerivationIInv, NEW k \in Deriver, Stop(k), Looking,
         \A p : ~OwnsPath(deriver[k], p)
  PROVE  DerivationIInv'
BY IdleState, IdleHolds, LookingKeeps DEF Stop

LEMMA Commands ==
  ASSUME DerivationIInv, NEW k \in Deriver
  PROVE  /\ deriver[k] \in DeriverState
         /\ PlacedAs(deriver[k], approvals) /\ ListedIn(deriver[k], candidates)
         /\ OpenedFrom(deriver[k], outputs)
         /\ deriver[k].step \notin {"register", "anchor", "append", "rollback"} =>
              \A p : ~OwnsPath(deriver[k], p)
BY DEF DerivationIInv, DerivationTyped, CommandHolds, OwnsPath

\* A step that only changes the place.
LEMMA LookAndGo ==
  ASSUME DerivationIInv, NEW k \in Deriver, NEW step \in DerivationStep, Go(k, step), Looking,
         PlacedAs([deriver[k] EXCEPT !.step = step], approvals),
         ListedIn([deriver[k] EXCEPT !.step = step], candidates),
         OpenedFrom([deriver[k] EXCEPT !.step = step], outputs),
         deriver[k].step \notin {"register", "anchor", "append", "rollback"},
         step \notin {"open", "publish", "register", "anchor", "append", "rollback"}
  PROVE  DerivationIInv'
<1> DEFINE s == [deriver[k] EXCEPT !.step = step]
<1>1. deriver[k] \in DeriverState
  BY Commands
<1>2. s \in DeriverState /\ s.step = step
  BY <1>1 DEF DeriverState
<1>3. (\A p : ~OwnsPath(deriver[k], p)) /\ (\A p : ~OwnsPath(s, p)) /\ MadeFrom(s)
  BY <1>2 DEF OwnsPath, MadeFrom
<1>4. Continue(k, s, {})
  BY DEF Go
<1> HIDE DEF s
<1>5. PlacedAs(s, approvals) /\ ListedIn(s, candidates) /\ OpenedFrom(s, outputs)
  BY DEF s
<1>6. QED
  BY <1>2, <1>3, <1>4, <1>5, LookingKeeps

LEMMA StartDeriveStep ==
  ASSUME DerivationIInv, NEW k \in Deriver, StartDerive(k)
  PROVE  DerivationIInv'
<1>1. PICK l \in Lineage, i \in ArtifactId, p \in OutputPath, defer \in BOOLEAN :
        Continue(k, [NoDerivation EXCEPT
          !.step = "gate", !.command = "derive", !.lineage = l, !.id = i, !.path = p,
          !.defer = defer], {})
  BY DEF StartDerive
<1> DEFINE s == [NoDerivation EXCEPT
              !.step = "gate", !.command = "derive", !.lineage = l, !.id = i, !.path = p,
              !.defer = defer]
<1>2. s \in DeriverState
  BY IdleState DEF DeriverState, DerivationStep, RecordId
<1>3. PlacedAs(s, approvals) /\ (\A q : ~OwnsPath(s, q)) /\ MadeFrom(s)
  BY DEF PlacedAs, NoDerivation, OwnsPath, MadeFrom, RecordId
<1>4. ListedIn(s, candidates)
  <2>1. Len(<<>>) = 0 OBVIOUS
  <2>2. QED BY <2>1 DEF ListedIn, NoDerivation, Examines
<1>5. OpenedFrom(s, outputs)
  BY DEF OpenedFrom, NoDerivation
<1>6. (\A q : ~OwnsPath(deriver[k], q)) /\ Looking
  BY Commands DEF StartDerive, At
<1> HIDE DEF s
<1>7. Continue(k, s, {})
  BY <1>1 DEF s
<1>8. QED
  BY <1>2, <1>3, <1>4, <1>5, <1>6, <1>7, LookingKeeps

LEMMA StartAdmitStep ==
  ASSUME DerivationIInv, NEW k \in Deriver, StartAdmit(k) \/ StartVerify(k)
  PROVE  DerivationIInv'
<1>1. PICK l \in Lineage, c \in {"admit", "verify"}, todo \in Seq(RecordId) :
        /\ Continue(k, [NoDerivation EXCEPT
             !.step = "gate", !.command = c, !.lineage = l, !.todo = todo], {})
        /\ todo # <<>>
        /\ \A n \in 1 .. Len(todo) : todo[n] \in RecordId /\ candidates[todo[n]] # NoRecord
  <2>1. CASE StartAdmit(k)
    <3>1. PICK l \in Lineage, i \in {j \in RecordId : candidates[j] # NoRecord} :
            Continue(k, [NoDerivation EXCEPT
              !.step = "gate", !.command = "admit", !.lineage = l, !.todo = <<i>>], {})
      BY <2>1 DEF StartAdmit
    <3>2. /\ <<i>> \in Seq(RecordId) /\ <<i>> # <<>> /\ Len(<<i>>) = 1
          /\ <<i>>[1] = i
      OBVIOUS
    <3>3. \A n \in 1 .. Len(<<i>>) : n = 1
      BY <3>2
    <3>4. \A n \in 1 .. Len(<<i>>) : <<i>>[n] \in RecordId /\ candidates[<<i>>[n]] # NoRecord
      BY <3>2, <3>3
    <3>5. QED BY <3>1, <3>2, <3>4
  <2>2. CASE StartVerify(k)
    <3>1. PICK l \in Lineage, i \in {c \in RecordId : candidates[c] # NoRecord},
               j \in {c \in RecordId : candidates[c] # NoRecord} :
            \E todo \in {<<i>>, <<i, j>>} :
              Continue(k, [NoDerivation EXCEPT
                !.step = "gate", !.command = "verify", !.lineage = l, !.todo = todo], {})
      BY <2>2 DEF StartVerify
    <3> PICK todo \in {<<i>>, <<i, j>>} :
              Continue(k, [NoDerivation EXCEPT
                !.step = "gate", !.command = "verify", !.lineage = l, !.todo = todo], {})
      BY <3>1
    <3>2. CASE todo = <<i>>
      <4>1. /\ <<i>> \in Seq(RecordId) /\ <<i>> # <<>> /\ Len(<<i>>) = 1
            /\ <<i>>[1] = i
        OBVIOUS
      <4>2. \A n \in 1 .. Len(<<i>>) : n = 1
        BY <4>1
      <4>3. \A n \in 1 .. Len(<<i>>) : <<i>>[n] \in RecordId /\ candidates[<<i>>[n]] # NoRecord
        BY <4>1, <4>2
      <4>4. QED BY <3>2, <4>1, <4>3
    <3>3. CASE todo = <<i, j>>
      <4>1. /\ <<i, j>> \in Seq(RecordId) /\ <<i, j>> # <<>> /\ Len(<<i, j>>) = 2
            /\ <<i, j>>[1] = i /\ <<i, j>>[2] = j
        OBVIOUS
      <4>2. \A n \in 1 .. Len(<<i, j>>) : n = 1 \/ n = 2
        BY <4>1
      <4>3. \A n \in 1 .. Len(<<i, j>>) :
              <<i, j>>[n] \in RecordId /\ candidates[<<i, j>>[n]] # NoRecord
        BY <4>1, <4>2
      <4>4. QED BY <3>3, <4>1, <4>3
    <3>4. QED BY <3>2, <3>3
  <2>3. QED BY <2>1, <2>2
<1> DEFINE s == [NoDerivation EXCEPT
              !.step = "gate", !.command = c, !.lineage = l, !.todo = todo]
<1>2. s \in DeriverState
  BY IdleState DEF DeriverState, DerivationStep
<1>3. PlacedAs(s, approvals) /\ (\A q : ~OwnsPath(s, q)) /\ MadeFrom(s)
  BY DEF PlacedAs, NoDerivation, OwnsPath, MadeFrom
<1>4. ListedIn(s, candidates)
  BY <1>1 DEF ListedIn, NoDerivation, Examines
<1>5. OpenedFrom(s, outputs)
  BY DEF OpenedFrom, NoDerivation
<1>6. (\A q : ~OwnsPath(deriver[k], q)) /\ Looking
  BY Commands DEF StartAdmit, StartVerify, At
<1> HIDE DEF s
<1>7. Continue(k, s, {})
  BY <1>1 DEF s
<1>8. QED
  BY <1>2, <1>3, <1>4, <1>5, <1>6, <1>7, LookingKeeps

\* The steps that go on to another place, or stop.
LEMMA GateStep ==
  ASSUME DerivationIInv, NEW k \in Deriver,
         Gate(k) \/ CheckOutputAndTools(k) \/ VerifySource(k) \/ InspectCandidate(k)
  PROVE  DerivationIInv'
<1> DEFINE d == deriver[k]
<1>1. /\ d \in DeriverState /\ PlacedAs(d, approvals) /\ ListedIn(d, candidates)
      /\ OpenedFrom(d, outputs)
  BY Commands
<1>2. PICK next \in DerivationStep : Go(k, next) \/ Stop(k)
  BY DEF Gate, CheckOutputAndTools, VerifySource, InspectCandidate, DerivationStep
<1>3. Looking /\ d.step \in {"gate", "free", "source", "inspect"}
  BY DEF Gate, CheckOutputAndTools, VerifySource, InspectCandidate, At
<1>4. CASE Stop(k)
  BY <1>3, <1>4, Commands, LookAndStop
<1>5. ASSUME NEW step \in {"free", "source", "convert", "belongs", "load", "recheck"}, Go(k, step),
             PlacedAs([d EXCEPT !.step = step], approvals),
             d.command \in {"admit", "verify"} \/ step \in {"free", "source", "convert"},
             d.command = "derive" => step \in {"free", "source", "convert"},
             step = "load" \/ step = "recheck" => d.step = "inspect",
             step = "recheck" => d.command = "verify",
             step \in {"source", "belongs"} => d.step \in {"gate", "source", "free"},
             d.step = "free" => d.command = "derive"
      PROVE  DerivationIInv'
  <2> DEFINE s == [d EXCEPT !.step = step]
  <2>1. /\ s.step = step /\ s.command = d.command /\ s.lineage = d.lineage /\ s.id = d.id
        /\ s.path = d.path /\ s.defer = d.defer /\ s.hash = d.hash /\ s.opened = d.opened
        /\ s.todo = d.todo /\ s.changed = d.changed
    BY <1>1 DEF DeriverState
  <2> HIDE DEF s
  <2>2. ListedIn(s, candidates)
    BY <1>1, <1>5, <2>1 DEF ListedIn, Examines
  <2>3. OpenedFrom(s, outputs)
    BY <1>1, <1>5, <2>1 DEF OpenedFrom
  <2>4. QED
    BY <1>3, <1>5, <2>2, <2>3, LookAndGo DEF s, DerivationStep
<1>6. ASSUME Gate(k), ~Stop(k) PROVE DerivationIInv'
  <2>1. /\ d.lineage \in Successor => approvals[d.lineage] = "matching"
        /\ d.step = "gate"
        /\ Go(k, IF d.command = "derive" THEN "free" ELSE "source")
    BY <1>6 DEF Gate, At
  <2>2. d.command \in {"derive", "admit", "verify"}
    BY <1>1, <2>1 DEF PlacedAs, DeriverState
  <2>3. CASE d.command = "derive"
    <3>1. Go(k, "free")
      BY <2>1, <2>3
    <3>2. PlacedAs([d EXCEPT !.step = "free"], approvals)
      BY <1>1, <2>1, <2>3 DEF PlacedAs, DeriverState
    <3>3. QED BY <1>5, <2>1, <2>3, <3>1, <3>2
  <2>4. CASE d.command # "derive"
    <3>1. Go(k, "source")
      BY <2>1, <2>4
    <3>2. PlacedAs([d EXCEPT !.step = "source"], approvals)
      BY <1>1, <2>1, <2>4 DEF PlacedAs, DeriverState
    <3>3. QED BY <1>5, <2>1, <2>2, <2>4, <3>1, <3>2
  <2>5. QED BY <2>3, <2>4
<1>7. ASSUME CheckOutputAndTools(k), ~Stop(k) PROVE DerivationIInv'
  <2>1. Go(k, "source") /\ d.step = "free"
    BY <1>7 DEF CheckOutputAndTools, At
  <2>2. d.command = "derive"
    BY <1>1, <2>1 DEF PlacedAs
  <2>3. PlacedAs([d EXCEPT !.step = "source"], approvals)
    BY <1>1, <2>1, <2>2 DEF PlacedAs, DeriverState
  <2>4. QED BY <1>5, <2>1, <2>2, <2>3
<1>8. ASSUME VerifySource(k), ~Stop(k) PROVE DerivationIInv'
  <2>1. Go(k, IF d.command = "derive" THEN "convert" ELSE "belongs") /\ d.step = "source"
    BY <1>8 DEF VerifySource, At
  <2>2. d.command \in {"derive", "admit", "verify"}
    BY <1>1, <2>1 DEF PlacedAs, DeriverState
  <2>3. CASE d.command = "derive"
    <3>1. Go(k, "convert")
      BY <2>1, <2>3
    <3>2. PlacedAs([d EXCEPT !.step = "convert"], approvals)
      BY <1>1, <2>1, <2>3 DEF PlacedAs, DeriverState
    <3>3. QED BY <1>5, <2>1, <2>3, <3>1, <3>2
  <2>4. CASE d.command # "derive"
    <3>1. Go(k, "belongs")
      BY <2>1, <2>4
    <3>2. PlacedAs([d EXCEPT !.step = "belongs"], approvals)
      BY <1>1, <2>1, <2>2, <2>4 DEF PlacedAs, DeriverState
    <3>3. QED BY <1>5, <2>1, <2>2, <2>4, <3>1, <3>2
  <2>5. QED BY <2>3, <2>4
<1>9. ASSUME InspectCandidate(k), ~Stop(k) PROVE DerivationIInv'
  <2>1. Go(k, IF d.command = "admit" THEN "load" ELSE "recheck") /\ d.step = "inspect"
    BY <1>9 DEF InspectCandidate, At
  <2>2. d.command \in {"admit", "verify"}
    BY <1>1, <2>1 DEF PlacedAs, DeriverState
  <2>3. CASE d.command = "admit"
    <3>1. Go(k, "load")
      BY <2>1, <2>3
    <3>2. PlacedAs([d EXCEPT !.step = "load"], approvals)
      BY <1>1, <2>1, <2>3 DEF PlacedAs, DeriverState
    <3>3. QED BY <1>5, <2>1, <2>3, <3>1, <3>2
  <2>4. CASE d.command # "admit"
    <3>1. Go(k, "recheck")
      BY <2>1, <2>4
    <3>2. PlacedAs([d EXCEPT !.step = "recheck"], approvals)
      BY <1>1, <2>1, <2>2, <2>4 DEF PlacedAs, DeriverState
    <3>3. QED BY <1>5, <2>1, <2>2, <2>4, <3>1, <3>2
  <2>5. QED BY <2>3, <2>4
<1>10. QED
  BY <1>4, <1>6, <1>7, <1>8, <1>9

LEMMA ConvertStep ==
  ASSUME DerivationIInv, NEW k \in Deriver, Convert(k) \/ OpenOutput(k)
  PROVE  DerivationIInv'
<1> DEFINE d == deriver[k]
<1>1. /\ d \in DeriverState /\ PlacedAs(d, approvals) /\ ListedIn(d, candidates)
      /\ OpenedFrom(d, outputs) /\ Looking /\ d.step \in {"convert", "open"}
      /\ \A p : ~OwnsPath(d, p)
  BY Commands DEF Convert, OpenOutput, At
<1>2. d.command = "derive" /\ d.lineage \in Lineage
  BY <1>1 DEF PlacedAs
<1>3. CASE Stop(k)
  BY <1>1, <1>3, LookAndStop
<1>4. ASSUME NEW s \in DeriverState, Continue(k, s, {}),
             s.step \in {"open", "publish"}, s.hash \in Gguf,
             s.step = "publish" /\ ~s.defer => s.opened = s.hash,
             touches = 0 => s.hash = OfManifest(d.lineage),
             s.command = d.command, s.lineage = d.lineage, s.id = d.id, s.path = d.path,
             s.todo = d.todo
      PROVE  DerivationIInv'
  <2>1. PlacedAs(s, approvals)
    BY <1>1, <1>2, <1>4 DEF PlacedAs
  <2>2. ListedIn(s, candidates)
    BY <1>1, <1>2, <1>4 DEF ListedIn, Examines
  <2>3. OpenedFrom(s, outputs)
    BY <1>2, <1>4 DEF OpenedFrom
  <2>4. (\A p : ~OwnsPath(s, p)) /\ (touches = 0 => MadeFrom(s))
    BY <1>4 DEF OwnsPath, MadeFrom
  <2>5. QED BY <1>1, <1>4, <2>1, <2>2, <2>3, <2>4, LookingKeeps
<1>5. ASSUME Convert(k), ~Stop(k) PROVE DerivationIInv'
  <2> DEFINE form == IF d.lineage \in canonical THEN "canonical" ELSE "edited"
             step == IF d.defer THEN "publish" ELSE "open"
             hash == [lineage |-> d.lineage, form |-> form]
             s == [d EXCEPT !.step = step, !.hash = hash]
  <2>1. Continue(k, s, {})
    BY <1>5 DEF Convert
  <2>2. hash \in Gguf
    BY <1>2 DEF Gguf
  <2>3. touches = 0 => hash = OfManifest(d.lineage)
    BY <1>2 DEF DerivationIInv, Untouched, OfManifest
  <2>4. step \in {"open", "publish"} /\ (step = "publish" => d.defer)
    OBVIOUS
  <2> HIDE DEF hash, step
  <2>5. /\ s \in DeriverState /\ s.step = step /\ s.hash = hash /\ s.defer = d.defer
        /\ s.command = d.command /\ s.lineage = d.lineage /\ s.id = d.id /\ s.path = d.path
        /\ s.todo = d.todo
    BY <1>1, <2>2, <2>4 DEF DeriverState, DerivationStep
  <2> HIDE DEF s
  <2>6. QED BY <1>4, <2>1, <2>2, <2>3, <2>4, <2>5
<1>6. ASSUME OpenOutput(k), ~Stop(k) PROVE DerivationIInv'
  <2> DEFINE s == [d EXCEPT !.step = "publish", !.opened = d.hash]
  <2>1. Continue(k, s, {}) /\ d.step = "open"
    BY <1>6 DEF OpenOutput, At
  <2>2. d.hash \in Gguf
    BY <1>1, <2>1 DEF PlacedAs
  <2>3. /\ s \in DeriverState /\ s.step = "publish" /\ s.hash = d.hash /\ s.opened = d.hash
        /\ s.command = d.command /\ s.lineage = d.lineage /\ s.id = d.id /\ s.path = d.path
        /\ s.todo = d.todo
    BY <1>1, <2>2 DEF DeriverState, DerivationStep
  <2>4. touches = 0 => d.hash = OfManifest(d.lineage)
    BY <2>1 DEF DerivationIInv, Untouched, MadeFrom
  <2> HIDE DEF s
  <2>5. QED BY <1>4, <2>1, <2>2, <2>3, <2>4
<1>7. QED
  BY <1>3, <1>5, <1>6

LEMMA BelongsStep ==
  ASSUME DerivationIInv, NEW k \in Deriver, CandidateBelongs(k)
  PROVE  DerivationIInv'
<1> DEFINE d == deriver[k]
           i == Head(d.todo)
           c == candidates[i]
           s == [d EXCEPT !.step = "inspect", !.id = i, !.path = c.path,
                          !.hash = c.hash, !.changed = 0, !.opened = NoGguf,
                          !.seen = d.seen \union {i}, !.todo = Tail(d.todo)]
<1>1. /\ d \in DeriverState /\ PlacedAs(d, approvals) /\ ListedIn(d, candidates)
      /\ Looking /\ d.step = "belongs" /\ \A p : ~OwnsPath(d, p)
  BY Commands DEF CandidateBelongs, At
<1>2. d.command \in {"admit", "verify"} /\ d.todo # <<>> /\ d.todo \in Seq(RecordId)
  BY <1>1 DEF PlacedAs, ListedIn, DeriverState
<1>3. /\ i = d.todo[1] /\ Tail(d.todo) \in Seq(RecordId)
      /\ Len(Tail(d.todo)) = Len(d.todo) - 1 /\ Len(d.todo) \in Nat \ {0}
      /\ \A n \in 1 .. Len(Tail(d.todo)) : Tail(d.todo)[n] = d.todo[n + 1]
  BY <1>2, HeadTailProperties, EmptySeq, LenProperties
<1>4. i \in RecordId /\ c # NoRecord
  BY <1>1, <1>3 DEF ListedIn
<1>5. c \in ArtifactRecord
  BY <1>4 DEF DerivationIInv, DerivationTyped
<1>6. c.path \in OutputPath /\ c.hash \in Gguf /\ c.lineage \in Lineage
  BY <1>5, Forms
<1>7. CASE Stop(k)
  BY <1>1, <1>7, LookAndStop
<1>8. CASE ~Stop(k)
  <2>1. Continue(k, s, {}) /\ c.lineage = d.lineage /\ outputs[c.path] = c.hash
    BY <1>8 DEF CandidateBelongs
  <2> HIDE DEF i, c
  <2>2. d.seen \union {i} \in SUBSET RecordId
    BY <1>1, <1>4 DEF DeriverState
  <2>3. /\ s \in DeriverState /\ s.step = "inspect" /\ s.id = i /\ s.path = c.path
        /\ s.hash = c.hash /\ s.todo = Tail(d.todo) /\ s.command = d.command
        /\ s.lineage = d.lineage
    <3> DEFINE seen == d.seen \union {i}
               todo == Tail(d.todo)
    <3>1. todo \in Seq(RecordId) /\ seen \in SUBSET RecordId
      BY <1>3, <2>2
    <3> HIDE DEF seen, todo
    <3>2. s = [d EXCEPT !.step = "inspect", !.id = i, !.path = c.path, !.hash = c.hash,
                        !.changed = 0, !.opened = NoGguf, !.seen = seen, !.todo = todo]
      BY DEF seen, todo
    <3> HIDE DEF s
    <3>3. s = [step |-> "inspect", command |-> d.command, lineage |-> d.lineage, id |-> i,
               path |-> c.path, defer |-> d.defer, hash |-> c.hash, opened |-> NoGguf,
               changed |-> 0, todo |-> todo, seen |-> seen]
      BY <1>1, <3>2 DEF DeriverState
    <3>4. s \in DeriverState
      BY <1>1, <1>4, <1>6, <3>1, <3>3 DEF DeriverState, DerivationStep
    <3>5. QED BY <3>3, <3>4 DEF todo
  <2> HIDE DEF s
  <2>4. PlacedAs(s, approvals)
    BY <1>1, <1>2, <2>3 DEF PlacedAs
  <2>5. \A n \in 1 .. Len(s.todo) : s.todo[n] \in RecordId /\ candidates[s.todo[n]] # NoRecord
    <3>1. \A n \in 1 .. Len(d.todo) : d.todo[n] \in RecordId /\ candidates[d.todo[n]] # NoRecord
      BY <1>1 DEF ListedIn
    <3> DEFINE t == Tail(d.todo)
    <3>2. /\ Len(t) = Len(d.todo) - 1 /\ Len(d.todo) \in Nat \ {0} /\ s.todo = t
          /\ \A n \in 1 .. Len(t) : t[n] = d.todo[n + 1]
      BY <1>3, <2>3
    <3> HIDE DEF t
    <3>3. \A n \in 1 .. Len(t) : n + 1 \in 1 .. Len(d.todo)
      BY <3>2
    <3>4. QED BY <3>1, <3>2, <3>3
  <2>6. c = candidates[i]
    BY DEF c
  <2>7. ListedIn(s, candidates)
    BY <1>4, <2>1, <2>3, <2>5, <2>6 DEF ListedIn, Examines
  <2>8. OpenedFrom(s, outputs)
    BY <1>2, <2>1, <2>3 DEF OpenedFrom
  <2>9. (\A p : ~OwnsPath(s, p)) /\ MadeFrom(s)
    BY <2>3 DEF OwnsPath, MadeFrom
  <2>10. QED BY <1>1, <2>1, <2>3, <2>4, <2>7, <2>8, <2>9, LookingKeeps
<1>9. QED BY <1>7, <1>8

LEMMA LoadStep ==
  ASSUME DerivationIInv, NEW k \in Deriver, LoadCandidate(k)
  PROVE  DerivationIInv'
<1> DEFINE d == deriver[k]
           found == outputs[d.path]
           s == [d EXCEPT !.step = "recheck", !.opened = found]
<1>1. /\ d \in DeriverState /\ PlacedAs(d, approvals) /\ ListedIn(d, candidates)
      /\ OpenedFrom(d, outputs) /\ Looking /\ d.step = "load" /\ \A p : ~OwnsPath(d, p)
  BY Commands DEF LoadCandidate, At
<1>2. CASE Stop(k)
  BY <1>1, <1>2, LookAndStop
<1>3. CASE ~Stop(k)
  <2>1. Continue(k, s, {})
    BY <1>3 DEF LoadCandidate
  <2>2. d.id \in RecordId /\ candidates[d.id] # NoRecord /\ d.path = candidates[d.id].path
    BY <1>1 DEF ListedIn, Examines
  <2>3. d.path \in OutputPath
    BY <2>2, Forms DEF DerivationIInv, DerivationTyped
  <2>4. found \in Gguf \union {NoGguf}
    BY <2>3 DEF DerivationIInv, DerivationTyped
  <2> HIDE DEF found
  <2>5. /\ s \in DeriverState /\ s.step = "recheck" /\ s.opened = found /\ s.hash = d.hash
        /\ s.todo = d.todo /\ s.command = d.command /\ s.lineage = d.lineage
        /\ s.id = d.id /\ s.path = d.path /\ s.changed = d.changed
    BY <1>1, <2>4 DEF DeriverState, DerivationStep
  <2> HIDE DEF s
  <2>6. d.command = "admit"
    BY <1>1 DEF PlacedAs
  <2>7. PlacedAs(s, approvals)
    BY <1>1, <2>5, <2>6 DEF PlacedAs
  <2>8. ListedIn(s, candidates)
    BY <1>1, <2>5 DEF ListedIn, Examines
  <2>9. found = outputs[d.path]
    BY DEF found
  <2>10. OpenedFrom(s, outputs)
    BY <1>1, <2>5, <2>6, <2>9 DEF OpenedFrom
  <2>11. (\A p : ~OwnsPath(s, p)) /\ MadeFrom(s)
    BY <2>5 DEF OwnsPath, MadeFrom
  <2>12. QED BY <1>1, <2>1, <2>5, <2>7, <2>8, <2>10, <2>11, LookingKeeps
<1>4. QED BY <1>2, <1>3

LEMMA RecheckStep ==
  ASSUME DerivationIInv, NEW k \in Deriver, Recheck(k)
  PROVE  DerivationIInv'
<1> DEFINE d == deriver[k]
           s == Passed(d)
<1>1. /\ d \in DeriverState /\ PlacedAs(d, approvals) /\ ListedIn(d, candidates)
      /\ OpenedFrom(d, outputs) /\ Looking /\ d.step = "recheck" /\ \A p : ~OwnsPath(d, p)
  BY Commands DEF Recheck, At
<1>2. CASE Stop(k)
  BY <1>1, <1>2, LookAndStop
<1>3. CASE ~Stop(k)
  <2>1. Continue(k, s, {}) /\ s.step # "idle" /\ outputs[d.path] = d.hash
    BY <1>3 DEF Recheck
  <2>2. d.command \in {"admit", "verify"}
    BY <1>1 DEF PlacedAs
  <2>3. PICK step \in {"anchor", "belongs"} :
          /\ s = [d EXCEPT !.step = step]
          /\ step = "anchor" <=> d.command = "admit"
          /\ step = "belongs" => d.todo # <<>>
    <3> DEFINE step == IF d.command = "admit" THEN "anchor"
                       ELSE IF d.todo # <<>> THEN "belongs" ELSE "idle"
    <3>0. s = [d EXCEPT !.step = step]
      BY DEF Passed
    <3>5. /\ d.command = "admit" => step = "anchor"
          /\ d.command # "admit" /\ d.todo # <<>> => step = "belongs"
          /\ d.command # "admit" /\ d.todo = <<>> => step = "idle"
      OBVIOUS
    <3> HIDE DEF step, s
    <3>1. CASE d.command = "admit"
      BY <3>0, <3>1, <3>5
    <3>2. CASE d.command # "admit" /\ d.todo # <<>>
      BY <3>0, <3>2, <3>5
    <3>3. CASE d.command # "admit" /\ d.todo = <<>>
      <4>1. s = [d EXCEPT !.step = "idle"]
        BY <3>0, <3>3, <3>5
      <4>2. QED BY <1>1, <2>1, <4>1 DEF DeriverState
    <3>4. QED BY <3>1, <3>2, <3>3
  <2>4. /\ s \in DeriverState /\ s.step = step /\ s.opened = d.opened /\ s.hash = d.hash
        /\ s.todo = d.todo /\ s.command = d.command /\ s.lineage = d.lineage
        /\ s.id = d.id /\ s.path = d.path /\ s.changed = d.changed
    BY <1>1, <2>3 DEF DeriverState, DerivationStep
  <2> HIDE DEF s
  <2>5. d.id \in RecordId /\ candidates[d.id] # NoRecord /\ d.hash = candidates[d.id].hash
        /\ d.lineage = candidates[d.id].lineage /\ d.path = candidates[d.id].path
    BY <1>1 DEF ListedIn, Examines
  <2>6. candidates[d.id] \in ArtifactRecord
    BY <2>5 DEF DerivationIInv, DerivationTyped
  <2>7. d.hash \in Gguf
    BY <2>5, <2>6, Forms
  <2>8. PlacedAs(s, approvals)
    BY <1>1, <2>2, <2>3, <2>4, <2>7 DEF PlacedAs
  <2>9. ListedIn(s, candidates)
    BY <1>1, <2>2, <2>3, <2>4 DEF ListedIn, Examines
  <2>10. d.changed \in 0 .. 2
    BY <1>1 DEF DeriverState
  <2>11. OpenedFrom(s, outputs)
    BY <1>1, <2>1, <2>2, <2>3, <2>4, <2>10 DEF OpenedFrom
  <2>12. \A p : ~OwnsPath(s, p)
    BY <2>2, <2>4 DEF OwnsPath
  <2>13. candidates[d.id] \in FileRecords
    BY <2>5, <2>6 DEF FileRecords, FilesOf
  <2>14. touches = 0 => MadeFrom(s)
    BY <2>4, <2>5, <2>13 DEF MadeFrom, DerivationIInv, Untouched, SaysTrue
  <2>15. QED BY <1>1, <2>1, <2>4, <2>8, <2>9, <2>11, <2>12, <2>14, LookingKeeps
<1>4. QED BY <1>2, <1>3

-----------------------------------------------------------------------------
(* What a command that writes does to the others.                          *)

\* The others keep what they own and made.
OthersKept(k) ==
  \A j \in Deriver \ {k} :
    /\ \A p : OwnsPath(deriver'[j], p) <=> OwnsPath(deriver[j], p)
    /\ MadeFrom(deriver[j]) => MadeFrom(deriver'[j])
    /\ deriver'[j].step = deriver[j].step /\ deriver'[j].hash = deriver[j].hash

LEMMA WritingEffect ==
  ASSUME DerivationIInv, NEW k \in Deriver, NEW s \in DeriverState, NEW paths,
         Continue(k, s, paths), Growing(paths),
         PlacedAs(s, approvals'), ListedIn(s, candidates'), OpenedFrom(s, outputs')
  PROVE  /\ deriver' \in [Deriver -> DeriverState] /\ deriver'[k] = s
         /\ \A j \in Deriver : CommandHolds(j)'
         /\ OthersKept(k)
<1>1. /\ deriver' \in [Deriver -> DeriverState] /\ deriver'[k] = s
      /\ \A j \in Deriver \ {k} : Noticed(deriver[j], deriver'[j], paths)
  BY ContinueEffect DEF DerivationIInv, DerivationTyped
<1>2. ASSUME NEW j \in Deriver PROVE CommandHolds(j)'
  <2>1. CASE j = k
    BY <1>1, <2>1 DEF CommandHolds
  <2>2. CASE j # k
    BY <1>1, <2>2, OthersHold DEF DerivationIInv
  <2>3. QED BY <2>1, <2>2
<1>3. OthersKept(k)
  BY <1>1, NoticedOwns DEF OthersKept
<1>4. QED BY <1>1, <1>2, <1>3

\* The record of a checkpoint is none of a file.
LEMMA SourceAdded ==
  ASSUME NEW cs, NEW as,
         as \in [RecordId -> ArtifactRecord \union {NoRecord} \union {Anchor(l) : l \in Lineage}],
         NEW l \in Lineage, as[l] \in {NoRecord, Anchor(l)}
  PROVE  FilesOf(cs, [as EXCEPT ![l] = Anchor(l)]) = FilesOf(cs, as)
<1>1. l \in RecordId
  BY DEF RecordId
<1>2. \A r \in ArtifactRecord : r # NoRecord /\ r # Anchor(l)
  BY Forms
<1> DEFINE after == [as EXCEPT ![l] = Anchor(l)]
<1>3. \A i \in RecordId : i # l => after[i] = as[i]
  BY <1>1
<1>4. after[l] = Anchor(l)
  BY <1>1
<1> HIDE DEF after
<1>5. ASSUME NEW r \in ArtifactRecord
      PROVE  (\E i \in RecordId : r = cs[i] \/ r = after[i])
               <=> \E i \in RecordId : r = cs[i] \/ r = as[i]
  BY <1>1, <1>2, <1>3, <1>4
<1>6. FilesOf(cs, after) = FilesOf(cs, as)
  BY <1>5 DEF FilesOf
<1>7. QED BY <1>6 DEF after

LEMMA RecordedForm ==
  ASSUME NEW kind \in {"candidate", "gguf"}, NEW d, d.lineage \in Lineage,
         d.path \in OutputPath, d.hash \in Gguf
  PROVE  /\ Recorded(kind, d) \in ArtifactRecord
         /\ Recorded(kind, d).kind = kind /\ Recorded(kind, d).lineage = d.lineage
         /\ Recorded(kind, d).path = d.path /\ Recorded(kind, d).hash = d.hash
BY DEF Recorded, ArtifactRecord

\* The command that has published an output is the only one, and no record has it.
LEMMA OwnersAlone ==
  ASSUME DerivationIInv, touches = 0, NEW j \in Deriver, NEW p \in OutputPath,
         OwnsPath(deriver[j], p)
  PROVE  OwnedAlone(j, p)
BY DEF DerivationIInv, Untouched

ArtifactStore(as) ==
  /\ as \in [RecordId -> ArtifactRecord \union {NoRecord} \union {Anchor(l) : l \in Lineage}]
  /\ \A i \in RecordId : as[i].kind \in {"none", "gguf", "source"}
  /\ \A i \in RecordId : as[i].kind = "source" => as[i] = Anchor(i)

-----------------------------------------------------------------------------
(* The actions that write.                                                 *)

\* A command that owns its output goes on to record it or to take it back.
LEMMA OwnerGoes ==
  ASSUME DerivationIInv, NEW k \in Deriver, NEW step \in {"append", "rollback"},
         Go(k, step), Outside, KeepFiles, UNCHANGED candidates,
         deriver[k].step \in {"register", "anchor", "append"},
         step = "append" => deriver[k].step = "anchor",
         step = "rollback" => deriver[k].command = "derive",
         ArtifactStore(artifacts'),
         FileRecords' = FileRecords
  PROVE  DerivationIInv'
<1> DEFINE d == deriver[k]
           s == [d EXCEPT !.step = step]
<1>1. /\ d \in DeriverState /\ PlacedAs(d, approvals) /\ ListedIn(d, candidates)
      /\ OpenedFrom(d, outputs)
  BY Commands
<1>2. Continue(k, s, {})
  BY DEF Go
<1>3. /\ s \in DeriverState /\ s.step = step /\ s.command = d.command /\ s.lineage = d.lineage
      /\ s.id = d.id /\ s.path = d.path /\ s.defer = d.defer /\ s.hash = d.hash
      /\ s.opened = d.opened /\ s.todo = d.todo /\ s.changed = d.changed
  BY <1>1 DEF DeriverState, DerivationStep
<1> HIDE DEF s
<1>4. PlacedAs(s, approvals)
  BY <1>1, <1>3 DEF PlacedAs
<1>5. ListedIn(s, candidates)
  BY <1>1, <1>3 DEF ListedIn, Examines
<1>6. OpenedFrom(s, outputs)
  BY <1>1, <1>3 DEF OpenedFrom
<1>7. Growing({})
  BY DEF Growing, Outside, KeepFiles
<1>8. /\ deriver' \in [Deriver -> DeriverState] /\ deriver'[k] = s
      /\ \A j \in Deriver : CommandHolds(j)'
      /\ OthersKept(k)
  BY <1>2, <1>3, <1>4, <1>5, <1>6, <1>7, WritingEffect DEF Outside, KeepFiles
<1>9. DerivationTyped' /\ StoreKinds' /\ Counted'
  BY <1>8 DEF DerivationIInv, DerivationTyped, StoreKinds, Counted, Outside, KeepFiles,
              ArtifactStore
<1>10. \A p : OwnsPath(s, p) <=> OwnsPath(d, p)
  BY <1>3 DEF OwnsPath
<1>11. MadeFrom(d) => MadeFrom(s)
  BY <1>3 DEF MadeFrom
<1>12. \A j \in Deriver :
         /\ \A p : OwnsPath(deriver'[j], p) <=> OwnsPath(deriver[j], p)
         /\ MadeFrom(deriver[j]) => MadeFrom(deriver'[j])
         /\ deriver'[j].step # "rollback" /\ (\E p : OwnsPath(deriver[j], p))
              => deriver[j].step # "rollback" /\ deriver'[j].hash = deriver[j].hash
  BY <1>3, <1>8, <1>10, <1>11 DEF OthersKept
<1>13. \A j \in Deriver, p \in OutputPath :
         OwnsPath(deriver[j], p) /\ OwnedAlone(j, p) => OwnedAlone(j, p)'
  BY <1>12 DEF OwnedAlone, KeepFiles
<1>14. \A r \in FileRecords : SaysTrue(r) => SaysTrue(r)'
  BY DEF SaysTrue, KeepFiles
<1>15. Untouched'
  BY <1>12, <1>13, <1>14 DEF Untouched, DerivationIInv, Outside
<1>16. Gated' /\ Answered'
  BY <1>12 DEF Gated, Answered, DerivationIInv, Outside, KeepFiles
<1>17. QED
  BY <1>8, <1>9, <1>15, <1>16 DEF DerivationIInv

LEMMA EnsureStep ==
  ASSUME DerivationIInv, NEW k \in Deriver, EnsureSource(k)
  PROVE  DerivationIInv'
<1> DEFINE d == deriver[k]
           l == d.lineage
<1>1. /\ d \in DeriverState /\ PlacedAs(d, approvals) /\ d.step = "anchor" /\ l \in Lineage
      /\ Outside /\ KeepFiles /\ UNCHANGED candidates
  BY Commands DEF EnsureSource, At, PlacedAs
<1>2. ArtifactStore(artifacts)
  BY DEF DerivationIInv, DerivationTyped, StoreKinds, ArtifactStore
<1>3. CASE artifacts[l] \in {NoRecord, Anchor(l)} /\ artifacts' = [artifacts EXCEPT ![l] = Anchor(l)]
             /\ Go(k, "append")
  <2>1. FilesOf(candidates, [artifacts EXCEPT ![l] = Anchor(l)]) = FilesOf(candidates, artifacts)
    BY <1>1, <1>2, <1>3, SourceAdded DEF ArtifactStore
  <2>2. FileRecords' = FileRecords
    BY <1>1, <1>3, <2>1 DEF FileRecords
  <2>3. l \in RecordId /\ Anchor(l).kind = "source"
    BY <1>1 DEF RecordId, Anchor
  <2>4. Anchor(l) \in ArtifactRecord \union {NoRecord} \union {Anchor(m) : m \in Lineage}
    BY <1>1
  <2>5. \A i \in RecordId : artifacts'[i] = IF i = l THEN Anchor(l) ELSE artifacts[i]
    BY <1>2, <1>3 DEF ArtifactStore
  <2>6. artifacts' \in [RecordId -> ArtifactRecord \union {NoRecord} \union {Anchor(m) : m \in Lineage}]
    BY <1>2, <1>3, <2>4 DEF ArtifactStore
  <2>7. ArtifactStore(artifacts')
    BY <1>2, <2>3, <2>5, <2>6 DEF ArtifactStore
  <2>8. QED BY <1>1, <1>3, <2>2, <2>7, OwnerGoes
<1>4. CASE FailRegistration(k) /\ UNCHANGED artifacts
  <2>1. CASE d.command = "derive"
    BY <1>1, <1>2, <1>4, <2>1, OwnerGoes DEF FailRegistration, FileRecords
  <2>2. CASE d.command # "derive"
    BY <1>1, <1>4, <2>2, LookAndStop DEF FailRegistration, Looking, KeepRecords, OwnsPath
  <2>3. QED BY <2>1, <2>2
<1>5. QED
  BY <1>3, <1>4 DEF EnsureSource

\* The record of a file that is what it says.
LEMMA RecordKeeps ==
  ASSUME DerivationIInv, NEW k \in Deriver, NEW r \in ArtifactRecord,
         deriver[k].step \in {"register", "append"},
         Stop(k), Outside, KeepFiles,
         r.lineage = deriver[k].lineage, r.path = deriver[k].path, r.hash = deriver[k].hash,
         FileRecords' = FileRecords \union {r},
         candidates' \in [RecordId -> ArtifactRecord \union {NoRecord}],
         \A i \in RecordId : candidates'[i].kind \in {"none", "candidate"},
         \A i \in RecordId : candidates[i] # NoRecord => candidates'[i] = candidates[i],
         ArtifactStore(artifacts')
  PROVE  DerivationIInv'
<1> DEFINE d == deriver[k]
<1>1. /\ d \in DeriverState /\ PlacedAs(d, approvals) /\ ListedIn(d, candidates)
  BY Commands
<1>2. Growing({})
  BY DEF Growing, Outside, KeepFiles
<1>3. /\ deriver' \in [Deriver -> DeriverState] /\ deriver'[k] = NoDerivation
      /\ \A j \in Deriver : CommandHolds(j)'
      /\ OthersKept(k)
  <2>1. NoDerivation \in DeriverState
    BY IdleState
  <2>2. /\ PlacedAs(NoDerivation, approvals') /\ ListedIn(NoDerivation, candidates')
        /\ OpenedFrom(NoDerivation, outputs')
    BY IdleHolds
  <2>3. Continue(k, NoDerivation, {})
    BY DEF Stop
  <2>4. QED BY <1>2, <2>1, <2>2, <2>3, WritingEffect
<1>4. DerivationTyped' /\ StoreKinds' /\ Counted'
  BY <1>3 DEF DerivationIInv, DerivationTyped, StoreKinds, Counted, Outside, KeepFiles,
              ArtifactStore
<1>5. d.command = "derive" \/ (d.command = "admit" /\ Examines(d))
  BY <1>1 DEF PlacedAs, Examines
<1>6. r.path \in OutputPath /\ r.hash \in Gguf /\ r.lineage \in Lineage
  BY Forms
<1>7. d.command = "derive" => OwnsPath(d, r.path)
  BY DEF OwnsPath
<1>8. d.command = "admit" =>
        \E c \in FileRecords : c.path = r.path /\ c.hash = r.hash /\ c.lineage = r.lineage
  <2>1. SUFFICES ASSUME d.command = "admit"
                 PROVE  \E c \in FileRecords : c.path = r.path /\ c.hash = r.hash /\ c.lineage = r.lineage
    OBVIOUS
  <2>2. /\ d.id \in RecordId /\ candidates[d.id] # NoRecord
        /\ d.path = candidates[d.id].path /\ d.hash = candidates[d.id].hash
        /\ d.lineage = candidates[d.id].lineage
    BY <1>1, <1>5, <2>1 DEF ListedIn
  <2>3. candidates[d.id] \in FileRecords
    BY <2>2 DEF FileRecords, FilesOf, DerivationIInv, DerivationTyped
  <2>4. QED BY <2>2, <2>3
<1>9. ASSUME touches = 0 PROVE SaysTrue(r)'
  <2>1. CASE d.command = "derive"
    <3>1. OwnedAlone(k, r.path)
      BY <1>6, <1>7, <1>9, <2>1, OwnersAlone
    <3>2. outputs[r.path] = r.hash
      BY <3>1 DEF OwnedAlone
    <3>3. r.hash = OfManifest(r.lineage)
      BY <1>9 DEF DerivationIInv, Untouched, MadeFrom
    <3>4. QED BY <3>2, <3>3 DEF SaysTrue, KeepFiles
  <2>2. CASE d.command = "admit"
    <3>1. PICK c \in FileRecords : c.path = r.path /\ c.hash = r.hash /\ c.lineage = r.lineage
      BY <1>8, <2>2
    <3>2. SaysTrue(c)
      BY <1>9 DEF DerivationIInv, Untouched
    <3>3. QED BY <3>1, <3>2 DEF SaysTrue, KeepFiles
  <2>3. QED BY <1>5, <2>1, <2>2
<1>10. ASSUME touches = 0, NEW j \in Deriver, NEW p \in OutputPath, OwnsPath(deriver'[j], p)
       PROVE  OwnedAlone(j, p)'
  <2>1. j # k /\ OwnsPath(deriver[j], p)
    BY <1>3, <1>10, IdleHolds DEF OthersKept
  <2>2. OwnedAlone(j, p)
    BY <1>10, <2>1, OwnersAlone
  <2>3. r.path # p
    <3>1. CASE d.command = "derive"
      BY <1>7, <2>1, <2>2, <3>1 DEF OwnedAlone
    <3>2. CASE d.command = "admit"
      BY <1>8, <2>2, <3>2 DEF OwnedAlone
    <3>3. QED BY <1>5, <3>1, <3>2
  <2>4. \A i \in Deriver : OwnsPath(deriver'[i], p) => OwnsPath(deriver[i], p)
    BY <1>3, IdleHolds DEF OthersKept
  <2>5. deriver'[j].step = deriver[j].step /\ deriver'[j].hash = deriver[j].hash
    BY <1>3, <2>1 DEF OthersKept
  <2>6. QED BY <2>2, <2>3, <2>4, <2>5 DEF OwnedAlone, KeepFiles
<1>11. \A r2 \in FileRecords : SaysTrue(r2) => SaysTrue(r2)'
  BY DEF SaysTrue, KeepFiles
<1>12. \A j \in Deriver : MadeFrom(deriver[j]) => MadeFrom(deriver'[j])
  BY <1>3, IdleHolds DEF OthersKept
<1>13. Untouched'
  BY <1>9, <1>10, <1>11, <1>12 DEF Untouched, DerivationIInv, Outside
<1>14. Gated'
  BY <1>1 DEF Gated, DerivationIInv, Outside, PlacedAs
<1>15. Answered'
  <2>1. ASSUME NEW p \in OutputPath, OwnsPath(d, p) PROVE r.path = p
    BY <2>1 DEF OwnsPath
  <2>2. \A j \in Deriver : \A p : j # k /\ OwnsPath(deriver[j], p) => OwnsPath(deriver'[j], p)
    BY <1>3 DEF OthersKept
  <2>3. QED BY <2>1, <2>2 DEF Answered, DerivationIInv, KeepFiles
<1>16. QED
  BY <1>3, <1>4, <1>13, <1>14, <1>15 DEF DerivationIInv

LEMMA RegisterStep ==
  ASSUME DerivationIInv, NEW k \in Deriver, RegisterCandidate(k)
  PROVE  DerivationIInv'
<1> DEFINE d == deriver[k]
           r == Recorded("candidate", d)
<1>1. /\ d \in DeriverState /\ PlacedAs(d, approvals) /\ d.step = "register"
      /\ Outside /\ KeepFiles /\ UNCHANGED artifacts
  BY Commands DEF RegisterCandidate, At
<1>2. /\ d.command = "derive" /\ d.lineage \in Lineage /\ d.path \in OutputPath
      /\ d.hash \in Gguf /\ d.id \in RecordId
  BY <1>1 DEF PlacedAs
<1>3. ArtifactStore(artifacts) /\ candidates \in [RecordId -> ArtifactRecord \union {NoRecord}]
      /\ \A i \in RecordId : candidates[i].kind \in {"none", "candidate"}
  BY DEF DerivationIInv, DerivationTyped, StoreKinds, ArtifactStore
<1>4. /\ r \in ArtifactRecord /\ r.kind = "candidate" /\ r.lineage = d.lineage
      /\ r.path = d.path /\ r.hash = d.hash
  BY <1>2, RecordedForm
<1> HIDE DEF r
<1>5. CASE MayAppend(candidates, d) /\ candidates' = [candidates EXCEPT ![d.id] = r] /\ Stop(k)
  <2>1. candidates[d.id] = NoRecord
    BY <1>5 DEF MayAppend
  <2>2. FilesOf(candidates', artifacts) = FilesOf(candidates, artifacts) \union {r}
    <3>1. \A i \in RecordId : candidates'[i] = IF i = d.id THEN r ELSE candidates[i]
      BY <1>3, <1>5
    <3>2. candidates[d.id] \notin ArtifactRecord
      BY <2>1, Forms
    <3>3. QED BY <1>2, <1>4, <3>1, <3>2 DEF FilesOf
  <2>3. FileRecords' = FileRecords \union {r}
    BY <1>1, <1>5, <2>2 DEF FileRecords
  <2>4. candidates' \in [RecordId -> ArtifactRecord \union {NoRecord}]
    BY <1>2, <1>3, <1>4, <1>5
  <2>5. \A i \in RecordId : candidates'[i] = IF i = d.id THEN r ELSE candidates[i]
    BY <1>3, <1>5
  <2>6. QED BY <1>1, <1>3, <1>4, <1>5, <2>1, <2>3, <2>4, <2>5, RecordKeeps
<1>6. CASE Go(k, "rollback") /\ UNCHANGED candidates
  BY <1>1, <1>2, <1>3, <1>6, OwnerGoes DEF FileRecords
<1>7. QED
  BY <1>5, <1>6 DEF RegisterCandidate, r

LEMMA AppendStep ==
  ASSUME DerivationIInv, NEW k \in Deriver, AppendArtifact(k)
  PROVE  DerivationIInv'
<1> DEFINE d == deriver[k]
           r == Recorded("gguf", d)
<1>1. /\ d \in DeriverState /\ PlacedAs(d, approvals) /\ ListedIn(d, candidates)
      /\ d.step = "append" /\ Outside /\ KeepFiles /\ UNCHANGED candidates
  BY Commands DEF AppendArtifact, At
<1>2. ArtifactStore(artifacts) /\ candidates \in [RecordId -> ArtifactRecord \union {NoRecord}]
      /\ \A i \in RecordId : candidates[i].kind \in {"none", "candidate"}
  BY DEF DerivationIInv, DerivationTyped, StoreKinds, ArtifactStore
<1>3. d.command \in {"derive", "admit"} /\ d.lineage \in Lineage /\ d.hash \in Gguf
  BY <1>1 DEF PlacedAs
<1>4. d.path \in OutputPath /\ d.id \in RecordId
  <2>1. CASE d.command = "derive"
    BY <1>1, <2>1 DEF PlacedAs
  <2>2. CASE d.command = "admit"
    <3>1. d.id \in RecordId /\ candidates[d.id] # NoRecord /\ d.path = candidates[d.id].path
      BY <1>1, <2>2 DEF ListedIn, Examines
    <3>2. QED BY <1>2, <3>1, Forms
  <2>3. QED BY <1>3, <2>1, <2>2
<1>5. /\ r \in ArtifactRecord /\ r.kind = "gguf" /\ r.lineage = d.lineage
      /\ r.path = d.path /\ r.hash = d.hash
  BY <1>3, <1>4, RecordedForm
<1> HIDE DEF r
<1>6. CASE MayAppend(artifacts, d) /\ artifacts' = [artifacts EXCEPT ![d.id] = r] /\ Stop(k)
  <2>1. artifacts[d.id] = NoRecord
    BY <1>6 DEF MayAppend
  <2>2. FilesOf(candidates, artifacts') = FilesOf(candidates, artifacts) \union {r}
    <3>1. \A i \in RecordId : artifacts'[i] = IF i = d.id THEN r ELSE artifacts[i]
      BY <1>2, <1>6 DEF ArtifactStore
    <3>2. artifacts[d.id] \notin ArtifactRecord
      BY <2>1, Forms
    <3>3. QED BY <1>4, <1>5, <3>1, <3>2 DEF FilesOf
  <2>3. FileRecords' = FileRecords \union {r}
    BY <1>1, <1>6, <2>2 DEF FileRecords
  <2>4. artifacts' \in [RecordId -> ArtifactRecord \union {NoRecord} \union {Anchor(l) : l \in Lineage}]
    BY <1>2, <1>5, <1>6 DEF ArtifactStore
  <2>5. \A i \in RecordId : artifacts'[i] = IF i = d.id THEN r ELSE artifacts[i]
    BY <1>2, <1>6 DEF ArtifactStore
  <2>6. ArtifactStore(artifacts')
    BY <1>2, <1>5, <2>4, <2>5 DEF ArtifactStore
  <2>7. QED BY <1>1, <1>2, <1>5, <1>6, <2>3, <2>6, RecordKeeps
<1>7. CASE FailRegistration(k) /\ UNCHANGED artifacts
  <2>1. CASE d.command = "derive"
    BY <1>1, <1>2, <1>7, <2>1, OwnerGoes DEF FailRegistration, FileRecords
  <2>2. CASE d.command # "derive"
    BY <1>1, <1>7, <2>2, LookAndStop DEF FailRegistration, Looking, KeepRecords, OwnsPath
  <2>3. QED BY <2>1, <2>2
<1>8. QED
  BY <1>6, <1>7 DEF AppendArtifact, r

\* The link is made; the command goes on, or ends without having removed it.
LEMMA LinkKeeps ==
  ASSUME DerivationIInv, NEW k \in Deriver, NEW s \in DeriverState,
         deriver[k].step = "publish", outputs[deriver[k].path] = NoGguf,
         Continue(k, s, {deriver[k].path}), Outside, KeepRecords,
         outputs' = [outputs EXCEPT ![deriver[k].path] = deriver[k].hash],
         loose' \subseteq OutputPath,
         \A p \in loose : p # deriver[k].path /\ outputs[p] # NoGguf => p \in loose',
         OwnsPath(s, deriver[k].path) \/ deriver[k].path \in loose',
         \A p : p # deriver[k].path => ~OwnsPath(s, p),
         s.step # "rollback", s.hash = deriver[k].hash \/ s = NoDerivation,
         MadeFrom(deriver[k]) => MadeFrom(s),
         PlacedAs(s, approvals), ListedIn(s, candidates), OpenedFrom(s, outputs')
  PROVE  DerivationIInv'
<1> DEFINE d == deriver[k]
<1>1. d \in DeriverState /\ PlacedAs(d, approvals)
  BY Commands
<1>2. d.command = "derive" /\ d.path \in OutputPath /\ d.hash \in Gguf
  BY <1>1 DEF PlacedAs
<1>3. outputs \in [OutputPath -> Gguf \union {NoGguf}]
  BY DEF DerivationIInv, DerivationTyped
<1>4. outputs'[d.path] = d.hash /\ \A p \in OutputPath : p # d.path => outputs'[p] = outputs[p]
  BY <1>2, <1>3
<1>5. Growing({d.path})
  BY <1>4 DEF Growing, Outside, KeepRecords
<1>6. /\ deriver' \in [Deriver -> DeriverState] /\ deriver'[k] = s
      /\ \A j \in Deriver : CommandHolds(j)'
      /\ OthersKept(k)
  BY <1>5, WritingEffect DEF Outside, KeepRecords
<1>7. outputs' \in [OutputPath -> Gguf \union {NoGguf}]
  BY <1>2, <1>3
<1>8. DerivationTyped' /\ StoreKinds' /\ Counted'
  BY <1>6, <1>7 DEF DerivationIInv, DerivationTyped, StoreKinds, Counted, Outside, KeepRecords
<1>9. FileRecords' = FileRecords
  BY DEF FileRecords, KeepRecords
<1>10. ~OwnsPath(d, d.path)
  BY DEF OwnsPath
<1>11. ASSUME touches = 0
       PROVE  (\A r \in FileRecords : r.path # d.path) /\ \A j \in Deriver : ~OwnsPath(deriver[j], d.path)
  <2>1. ASSUME NEW r \in FileRecords PROVE r.path # d.path
    <3>1. SaysTrue(r) /\ r.hash \in Gguf
      BY <1>11, Forms DEF DerivationIInv, Untouched, FileRecords, FilesOf
    <3>2. QED BY <3>1, NoGgufApart DEF SaysTrue
  <2>2. ASSUME NEW j \in Deriver, OwnsPath(deriver[j], d.path) PROVE FALSE
    BY <1>2, <1>11, <2>2, OwnersAlone DEF OwnedAlone
  <2>3. QED BY <2>1, <2>2
<1>12. ASSUME touches = 0, NEW j \in Deriver, NEW p \in OutputPath, OwnsPath(deriver'[j], p)
       PROVE  OwnedAlone(j, p)'
  <2>1. CASE j = k
    <3>1. p = d.path /\ s # NoDerivation
      BY <1>6, <1>12, <2>1, IdleHolds
    <3>2. outputs'[p] = s.hash /\ outputs'[p] # NoGguf
      BY <1>2, <1>4, <3>1, NoGgufApart
    <3>3. \A i \in Deriver : OwnsPath(deriver'[i], p) => i = k
      BY <1>6, <1>11, <1>12, <3>1 DEF OthersKept
    <3>4. QED BY <1>6, <1>9, <1>11, <1>12, <2>1, <3>1, <3>2, <3>3 DEF OwnedAlone
  <2>2. CASE j # k
    <3>1. OwnsPath(deriver[j], p) /\ p # d.path
      BY <1>6, <1>11, <1>12, <2>2 DEF OthersKept
    <3>2. OwnedAlone(j, p) /\ outputs'[p] = outputs[p]
      BY <1>4, <1>12, <3>1, OwnersAlone
    <3>3. \A i \in Deriver : OwnsPath(deriver'[i], p) => i = j
      BY <1>6, <3>1, <3>2 DEF OthersKept, OwnedAlone
    <3>4. deriver'[j].step = deriver[j].step /\ deriver'[j].hash = deriver[j].hash
      BY <1>6, <2>2 DEF OthersKept
    <3>5. QED BY <1>9, <3>2, <3>3, <3>4 DEF OwnedAlone
  <2>3. QED BY <2>1, <2>2
<1>13. ASSUME touches = 0, NEW r \in FileRecords PROVE SaysTrue(r)'
  <2>1. SaysTrue(r) /\ r.path # d.path /\ r.path \in OutputPath
    BY <1>11, <1>13, Forms DEF DerivationIInv, Untouched, FileRecords, FilesOf
  <2>2. QED BY <1>4, <2>1 DEF SaysTrue
<1>14. \A j \in Deriver : MadeFrom(deriver[j]) => MadeFrom(deriver'[j])
  BY <1>6 DEF OthersKept
<1>15. Untouched'
  BY <1>9, <1>12, <1>13, <1>14 DEF Untouched, DerivationIInv, Outside
<1>16. Gated'
  BY <1>9 DEF Gated, DerivationIInv, Outside
<1>17. Answered'
  <2>1. ASSUME NEW p \in OutputPath, outputs'[p] # NoGguf
        PROVE  p \in loose' \/ (\E j \in Deriver : OwnsPath(deriver'[j], p)) \/ \E r \in FileRecords : r.path = p
    <3>1. CASE p = d.path
      BY <1>6, <3>1
    <3>2. CASE p # d.path
      <4>1. p \in loose \/ (\E j \in Deriver : OwnsPath(deriver[j], p)) \/ \E r \in FileRecords : r.path = p
        BY <1>4, <2>1, <3>2 DEF DerivationIInv, Answered
      <4>2. ~OwnsPath(deriver[k], p)
        BY DEF OwnsPath
      <4>3. QED BY <1>4, <1>6, <2>1, <3>2, <4>1, <4>2 DEF OthersKept
    <3>3. QED BY <3>1, <3>2
  <2>2. QED BY <1>9, <2>1 DEF Answered
<1>18. QED
  BY <1>6, <1>8, <1>15, <1>16, <1>17 DEF DerivationIInv

LEMMA PublishStep ==
  ASSUME DerivationIInv, NEW k \in Deriver, Publish(k)
  PROVE  DerivationIInv'
<1> DEFINE d == deriver[k]
           linked == [outputs EXCEPT ![d.path] = d.hash]
<1>1. /\ d \in DeriverState /\ PlacedAs(d, approvals) /\ ListedIn(d, candidates)
      /\ OpenedFrom(d, outputs) /\ d.step = "publish" /\ Outside /\ KeepRecords
      /\ \A p : ~OwnsPath(d, p)
  BY Commands DEF Publish, At
<1>2. d.command = "derive" /\ d.path \in OutputPath /\ d.hash \in Gguf /\ d.lineage \in Lineage
  BY <1>1 DEF PlacedAs
<1>3. CASE Stop(k) /\ KeepFiles
  BY <1>1, <1>3, LookAndStop DEF Looking
<1>4. ASSUME NEW paths, Leave(linked, paths), paths \subseteq {d.path}
      PROVE  /\ outputs' = linked /\ loose' \subseteq OutputPath
             /\ \A p \in loose : p # d.path /\ outputs[p] # NoGguf => p \in loose'
             /\ d.path \in paths => d.path \in loose'
  <2>1. /\ outputs \in [OutputPath -> Gguf \union {NoGguf}] /\ loose \subseteq OutputPath
    BY DEF DerivationIInv, DerivationTyped
  <2>2. QED
    BY <1>2, <1>4, <2>1, NoGgufApart DEF Leave
<1>5. CASE /\ Leave(linked, {}) /\ outputs[d.path] = NoGguf
           /\ Continue(k, [d EXCEPT !.step = IF d.defer THEN "register" ELSE "anchor",
                                    !.defer = FALSE], {d.path})
  <2> DEFINE step == IF d.defer THEN "register" ELSE "anchor"
             s == [d EXCEPT !.step = step, !.defer = FALSE]
  <2>1. Continue(k, s, {d.path})
    BY <1>5
  <2>2. step \in {"register", "anchor"} /\ (step = "anchor" => ~d.defer)
    BY <1>1 DEF DeriverState
  <2> HIDE DEF step
  <2>3. /\ s \in DeriverState /\ s.step = step /\ s.command = d.command
        /\ s.lineage = d.lineage /\ s.id = d.id /\ s.path = d.path /\ s.hash = d.hash
        /\ s.opened = d.opened /\ s.todo = d.todo
    BY <1>1, <2>2 DEF DeriverState, DerivationStep
  <2> HIDE DEF s, linked
  <2>4. PlacedAs(s, approvals)
    BY <1>1, <1>2, <2>2, <2>3 DEF PlacedAs
  <2>5. ListedIn(s, candidates)
    BY <1>1, <1>2, <2>2, <2>3 DEF ListedIn, Examines
  <2>6. OpenedFrom(s, outputs')
    BY <1>1, <1>2, <2>2, <2>3 DEF OpenedFrom
  <2>7. OwnsPath(s, d.path) /\ (\A p : p # d.path => ~OwnsPath(s, p))
        /\ (MadeFrom(d) => MadeFrom(s)) /\ s.step # "rollback"
    BY <1>1, <1>2, <2>2, <2>3 DEF OwnsPath, MadeFrom
  <2>8. /\ outputs' = linked /\ loose' \subseteq OutputPath
        /\ \A p \in loose : p # d.path /\ outputs[p] # NoGguf => p \in loose'
    BY <1>4, <1>5
  <2>9. QED
    BY <1>1, <1>5, <2>1, <2>3, <2>4, <2>5, <2>6, <2>7, <2>8, LinkKeeps DEF linked
<1>6. CASE Leave(linked, {d.path}) /\ Continue(k, NoDerivation, {d.path}) /\ outputs[d.path] = NoGguf
  <2>1. /\ outputs' = linked /\ loose' \subseteq OutputPath /\ d.path \in loose'
        /\ \A p \in loose : p # d.path /\ outputs[p] # NoGguf => p \in loose'
    BY <1>4, <1>6
  <2>2. NoDerivation.step # "rollback"
    BY DEF NoDerivation
  <2>3. QED
    BY <1>1, <1>6, <2>1, <2>2, IdleState, IdleHolds, LinkKeeps
<1>7. QED
  BY <1>3, <1>5, <1>6 DEF Publish

\* A command ends, and what it owned stays where it is.
LEMMA AbandonKeeps ==
  ASSUME DerivationIInv, NEW k \in Deriver, Stop(k), KeepRecords,
         Leave(outputs, {p \in OutputPath : OwnsPath(deriver[k], p)}),
         UNCHANGED <<canonical, approvals, touches>>, Counted'
  PROVE  DerivationIInv'
<1>1. Growing({}) /\ outputs' = outputs
  BY DEF Growing, KeepRecords, Leave
<1>2. /\ deriver' \in [Deriver -> DeriverState] /\ deriver'[k] = NoDerivation
      /\ \A j \in Deriver : CommandHolds(j)'
      /\ OthersKept(k)
  <2>1. Continue(k, NoDerivation, {})
    BY DEF Stop
  <2>2. QED BY <1>1, <2>1, IdleState, IdleHolds, WritingEffect
<1>3. loose' = {p \in loose \union {q \in OutputPath : OwnsPath(deriver[k], q)} : outputs[p] # NoGguf}
  BY DEF Leave
<1>4. DerivationTyped' /\ StoreKinds'
  BY <1>1, <1>2, <1>3 DEF DerivationIInv, DerivationTyped, StoreKinds, KeepRecords
<1>5. FileRecords' = FileRecords
  BY DEF FileRecords, KeepRecords
<1>6. \A j \in Deriver : \A p : OwnsPath(deriver'[j], p) => OwnsPath(deriver[j], p) /\ j # k
  BY <1>2, IdleHolds DEF OthersKept
<1>7. \A j \in Deriver : MadeFrom(deriver[j]) => MadeFrom(deriver'[j])
  BY <1>2, IdleHolds DEF OthersKept
<1>8. \A j \in Deriver, p \in OutputPath :
        OwnsPath(deriver'[j], p) /\ OwnedAlone(j, p) => OwnedAlone(j, p)'
  BY <1>1, <1>2, <1>5, <1>6 DEF OwnedAlone, OthersKept
<1>9. \A r \in FileRecords : SaysTrue(r) => SaysTrue(r)'
  BY <1>1 DEF SaysTrue
<1>10. Untouched'
  BY <1>5, <1>6, <1>7, <1>8, <1>9 DEF Untouched, DerivationIInv
<1>11. Gated'
  BY <1>5 DEF Gated, DerivationIInv
<1>12. Answered'
  <2>1. ASSUME NEW p \in OutputPath, outputs'[p] # NoGguf
        PROVE  p \in loose' \/ (\E j \in Deriver : OwnsPath(deriver'[j], p)) \/ \E r \in FileRecords : r.path = p
    <3>1. p \in loose \/ (\E j \in Deriver : OwnsPath(deriver[j], p)) \/ \E r \in FileRecords : r.path = p
      BY <1>1, <2>1 DEF DerivationIInv, Answered
    <3>2. p \in loose \/ OwnsPath(deriver[k], p) => p \in loose'
      BY <1>1, <1>3, <2>1
    <3>3. QED BY <1>2, <3>1, <3>2 DEF OthersKept
  <2>2. QED BY <1>5, <2>1 DEF Answered
<1>13. QED
  BY <1>2, <1>4, <1>10, <1>11, <1>12 DEF DerivationIInv

LEMMA RollBackStep ==
  ASSUME DerivationIInv, NEW k \in Deriver, RollBack(k)
  PROVE  DerivationIInv'
<1> DEFINE d == deriver[k]
           q == d.path
<1>1. /\ d \in DeriverState /\ PlacedAs(d, approvals) /\ d.step = "rollback" /\ Outside /\ KeepRecords
  BY Commands DEF RollBack, At
<1>2. d.command = "derive" /\ q \in OutputPath /\ OwnsPath(d, q)
  BY <1>1 DEF PlacedAs, OwnsPath
<1>3. \A p : OwnsPath(d, p) => p = q
  BY DEF OwnsPath
<1>4. CASE Leave(outputs, {q}) /\ Stop(k)
  <2>1. {p \in OutputPath : OwnsPath(d, p)} = {q}
    BY <1>2, <1>3
  <2>2. Counted'
    BY <1>1 DEF Counted, DerivationIInv, Outside
  <2>3. Leave(outputs, {p \in OutputPath : OwnsPath(d, p)})
    BY <1>4, <2>1
  <2>4. QED
    BY <1>1, <1>4, <2>2, <2>3, AbandonKeeps DEF Outside
<1>5. CASE Leave([outputs EXCEPT ![q] = NoGguf], {}) /\ Continue(k, NoDerivation, {q})
  <2>1. outputs \in [OutputPath -> Gguf \union {NoGguf}] /\ loose \subseteq OutputPath
    BY DEF DerivationIInv, DerivationTyped
  <2>2. outputs' = [outputs EXCEPT ![q] = NoGguf]
    BY <1>5 DEF Leave
  <2>3. outputs'[q] = NoGguf /\ \A p \in OutputPath : p # q => outputs'[p] = outputs[p]
    BY <1>2, <2>1, <2>2
  <2>4. outputs' \in [OutputPath -> Gguf \union {NoGguf}]
    BY <2>1, <2>2
  <2>5. loose' = {p \in loose : outputs'[p] # NoGguf}
    BY <1>5, <2>2 DEF Leave
  <2>6. Growing({q})
    BY <1>1, <2>3 DEF Growing, Outside, KeepRecords
  <2>7. /\ deriver' \in [Deriver -> DeriverState] /\ deriver'[k] = NoDerivation
        /\ \A j \in Deriver : CommandHolds(j)'
        /\ OthersKept(k)
    BY <1>5, <2>6, IdleState, IdleHolds, WritingEffect
  <2>8. DerivationTyped' /\ StoreKinds' /\ Counted'
    BY <1>1, <2>1, <2>4, <2>5, <2>7 DEF DerivationIInv, DerivationTyped, StoreKinds, Counted, Outside, KeepRecords
  <2>9. FileRecords' = FileRecords
    BY <1>1 DEF FileRecords, KeepRecords
  <2>10. \A j \in Deriver : \A p : OwnsPath(deriver'[j], p) => OwnsPath(deriver[j], p) /\ j # k
    BY <2>7, IdleHolds DEF OthersKept
  <2>11. \A j \in Deriver : MadeFrom(deriver[j]) => MadeFrom(deriver'[j])
    BY <2>7, IdleHolds DEF OthersKept
  <2>12. touches = 0 => OwnedAlone(k, q)
    BY <1>2, OwnersAlone
  <2>13. ASSUME touches = 0, NEW j \in Deriver, NEW p \in OutputPath, OwnsPath(deriver'[j], p)
         PROVE  OwnedAlone(j, p)'
    <3>1. OwnsPath(deriver[j], p) /\ j # k
      BY <2>10, <2>13
    <3>2. OwnedAlone(j, p)
      BY <2>13, <3>1, OwnersAlone
    <3>3. p # q
      BY <2>12, <2>13, <3>1 DEF OwnedAlone
    <3>4. deriver'[j].step = deriver[j].step /\ deriver'[j].hash = deriver[j].hash
      BY <2>7, <3>1 DEF OthersKept
    <3>5. outputs'[p] = outputs[p]
      BY <2>3, <3>3
    <3>6. QED BY <2>9, <2>10, <3>2, <3>4, <3>5 DEF OwnedAlone
  <2>14. ASSUME touches = 0, NEW r \in FileRecords PROVE SaysTrue(r)'
    <3>1. SaysTrue(r) /\ r.path \in OutputPath
      BY <2>14, Forms DEF DerivationIInv, Untouched, FileRecords, FilesOf
    <3>2. r.path # q
      BY <2>12, <2>14 DEF OwnedAlone
    <3>3. QED BY <2>3, <3>1, <3>2 DEF SaysTrue
  <2>15. Untouched'
    BY <1>1, <2>9, <2>11, <2>13, <2>14 DEF Untouched, DerivationIInv, Outside
  <2>16. Gated'
    BY <1>1, <2>9 DEF Gated, DerivationIInv, Outside
  <2>17. Answered'
    <3>1. ASSUME NEW p \in OutputPath, outputs'[p] # NoGguf
          PROVE  p \in loose' \/ (\E j \in Deriver : OwnsPath(deriver'[j], p)) \/ \E r \in FileRecords : r.path = p
      <4>1. p # q /\ outputs[p] # NoGguf
        BY <2>3, <3>1
      <4>2. p \in loose \/ (\E j \in Deriver : OwnsPath(deriver[j], p)) \/ \E r \in FileRecords : r.path = p
        BY <4>1 DEF DerivationIInv, Answered
      <4>3. ~OwnsPath(d, p)
        BY <1>3, <4>1
      <4>4. QED BY <2>5, <2>7, <3>1, <4>2, <4>3 DEF OthersKept
    <3>2. QED BY <2>9, <3>1 DEF Answered
  <2>18. QED
    BY <2>7, <2>8, <2>15, <2>16, <2>17 DEF DerivationIInv
<1>6. QED
  BY <1>4, <1>5 DEF RollBack

LEMMA KillStep ==
  ASSUME DerivationIInv, NEW k \in Deriver, KillDeriver(k)
  PROVE  DerivationIInv'
<1>1. Counted'
  BY DerivationAssumption DEF KillDeriver, Counted, DerivationIInv
<1>2. {p \in OutputPath : Owns(k, p)} = {p \in OutputPath : OwnsPath(deriver[k], p)}
  BY DEF Owns, OwnsPath
<1>3. Leave(outputs, {p \in OutputPath : OwnsPath(deriver[k], p)})
  BY <1>2 DEF KillDeriver
<1>4. QED
  BY <1>1, <1>3, AbandonKeeps DEF KillDeriver

\* What somebody else does.
LEMMA EnvironmentStep ==
  ASSUME DerivationIInv, TouchSource \/ TouchOutput \/ ApproveSuccessor
  PROVE  DerivationIInv'
<1>1. FileRecords' = FileRecords /\ KeepRecords
  BY DEF TouchSource, TouchOutput, ApproveSuccessor, FileRecords, KeepRecords
<1>2. outputs \in [OutputPath -> Gguf \union {NoGguf}] /\ loose \subseteq OutputPath
      /\ deriver \in [Deriver -> DeriverState] /\ canonical \subseteq Lineage
  BY DEF DerivationIInv, DerivationTyped
<1>3. CASE TouchSource
  <2>1. Growing({})
    BY <1>3 DEF TouchSource, Growing, KeepFiles, KeepRecords
  <2>2. \A j \in Deriver : Noticed(deriver[j], deriver'[j], {})
    BY <1>2, <1>3 DEF TouchSource, Noticed, SameBut, DeriverState
  <2>3. \A j \in Deriver : CommandHolds(j)'
    BY <2>1, <2>2, OthersHold DEF DerivationIInv
  <2>4. Counted' /\ touches' # 0
    BY <1>3, DerivationAssumption DEF TouchSource, Counted, DerivationIInv
  <2>5. DerivationTyped' /\ StoreKinds'
    BY <1>2, <1>3 DEF TouchSource, DerivationIInv, DerivationTyped, StoreKinds, KeepFiles, KeepRecords
  <2>6. Untouched' /\ Gated' /\ Answered'
    BY <1>1, <1>3, <2>4 DEF TouchSource, DerivationIInv, Untouched, Gated, Answered, KeepFiles
  <2>7. QED BY <2>3, <2>4, <2>5, <2>6 DEF DerivationIInv
<1>4. CASE TouchOutput
  <2>1. PICK q \in OutputPath, found \in {NoGguf, Foreign} \union [lineage : Lineage, form : {"canonical"}] :
          /\ Leave([outputs EXCEPT ![q] = found], {q})
          /\ deriver' = [j \in Deriver |-> Noticing(j, {q})]
    BY <1>4 DEF TouchOutput
  <2>2. found \in Gguf \union {NoGguf}
    BY <2>1 DEF Gguf
  <2>3. outputs' = [outputs EXCEPT ![q] = found]
    BY <2>1 DEF Leave
  <2>4. outputs' \in [OutputPath -> Gguf \union {NoGguf}]
        /\ \A p \in OutputPath : p # q => outputs'[p] = outputs[p]
    BY <1>2, <2>2, <2>3
  <2>5. loose' = {p \in loose \union {q} : outputs'[p] # NoGguf}
    BY <2>1, <2>3 DEF Leave
  <2>6. \A j \in Deriver : Noticed(deriver[j], deriver'[j], {q})
    BY <1>2, <2>1, NoticingEffect
  <2>7. deriver' \in [Deriver -> DeriverState]
    BY <1>2, <2>1, NoticingEffect DEF Noticed
  <2>8. Growing({q})
    BY <1>4, <2>4 DEF TouchOutput, Growing, KeepRecords
  <2>9. \A j \in Deriver : CommandHolds(j)'
    BY <2>6, <2>8, OthersHold DEF DerivationIInv
  <2>10. Counted' /\ touches' # 0
    BY <1>4, DerivationAssumption DEF TouchOutput, Counted, DerivationIInv
  <2>11. DerivationTyped' /\ StoreKinds'
    BY <1>2, <1>4, <2>4, <2>5, <2>7 DEF TouchOutput, DerivationIInv, DerivationTyped, StoreKinds, KeepRecords
  <2>12. \A j \in Deriver : \A p : OwnsPath(deriver'[j], p) <=> OwnsPath(deriver[j], p)
    BY <2>6, NoticedOwns
  <2>13. Answered'
    BY <1>1, <2>4, <2>5, <2>12 DEF DerivationIInv, Answered
  <2>14. Untouched' /\ Gated'
    BY <1>1, <1>4, <2>10 DEF TouchOutput, DerivationIInv, Untouched, Gated
  <2>15. QED BY <2>9, <2>10, <2>11, <2>13, <2>14 DEF DerivationIInv
<1>5. CASE ApproveSuccessor
  <2>1. PICK l \in Successor, verdict \in {"matching", "other"} :
          approvals[l] = "none" /\ approvals' = [approvals EXCEPT ![l] = verdict]
    BY <1>5 DEF ApproveSuccessor
  <2>2. approvals \in [Lineage -> {"none", "matching", "other"}] /\ l \in Lineage
    BY DerivationAssumption DEF DerivationIInv, DerivationTyped
  <2>3. approvals' \in [Lineage -> {"none", "matching", "other"}]
        /\ \A m \in Lineage : approvals[m] = "matching" => approvals'[m] = "matching"
    BY <2>1, <2>2
  <2>4. Growing({})
    BY <1>5, <2>3 DEF ApproveSuccessor, Growing, KeepFiles, KeepRecords
  <2>5. \A j \in Deriver : Noticed(deriver[j], deriver'[j], {})
    BY <1>2, <1>5 DEF ApproveSuccessor, Noticed, SameBut, DeriverState
  <2>6. \A j \in Deriver : CommandHolds(j)'
    BY <2>4, <2>5, OthersHold DEF DerivationIInv
  <2>7. DerivationTyped' /\ StoreKinds' /\ Counted'
    BY <1>2, <1>5, <2>3 DEF ApproveSuccessor, DerivationIInv, DerivationTyped, StoreKinds, Counted, KeepFiles, KeepRecords
  <2>8. Untouched' /\ Answered'
    BY <1>1, <1>5 DEF ApproveSuccessor, DerivationIInv, Untouched, OwnedAlone, SaysTrue, Answered, KeepFiles
  <2>9. Gated'
    <3>1. \A r \in FileRecords : r.lineage \in Lineage
      BY Forms DEF FileRecords, FilesOf
    <3>2. QED BY <1>1, <2>3, <3>1 DEF DerivationIInv, Gated
  <2>10. QED BY <2>6, <2>7, <2>8, <2>9 DEF DerivationIInv
<1>6. QED
  BY <1>3, <1>4, <1>5

-----------------------------------------------------------------------------

LEMMA DerivationInitially == DerivationInit => DerivationIInv
<1> SUFFICES ASSUME DerivationInit PROVE DerivationIInv
  OBVIOUS
<1> USE DEF DerivationInit
<1>1. DerivationTyped /\ Counted
  BY IdleState, DerivationAssumption DEF DerivationTyped, Counted
<1>2. StoreKinds
  BY DEF StoreKinds, NoRecord
<1>3. \A k \in Deriver : CommandHolds(k)
  BY IdleHolds DEF CommandHolds
<1>4. FileRecords = {}
  BY Forms DEF FileRecords, FilesOf
<1>5. \A k \in Deriver : MadeFrom(deriver[k]) /\ \A p : ~OwnsPath(deriver[k], p)
  BY IdleHolds
<1>6. Untouched /\ Gated /\ Answered
  BY <1>4, <1>5 DEF Untouched, Gated, Answered
<1>7. QED
  BY <1>1, <1>2, <1>3, <1>6 DEF DerivationIInv

LEMMA DerivationStays ==
  DerivationIInv /\ [DerivationNext]_derivationVars => DerivationIInv'
<1> SUFFICES ASSUME DerivationIInv, [DerivationNext]_derivationVars PROVE DerivationIInv'
  OBVIOUS
<1>1. CASE UNCHANGED derivationVars
  BY <1>1 DEF derivationVars, DerivationIInv, DerivationTyped, StoreKinds, Counted, CommandHolds,
              Untouched, OwnedAlone, SaysTrue, Gated, Answered, FileRecords
<1>2. ASSUME NEW k \in Deriver, KillDeriver(k) \/ DeriverStep(k) PROVE DerivationIInv'
  BY <1>2, KillStep, StartDeriveStep, StartAdmitStep, GateStep, ConvertStep, PublishStep,
     RegisterStep, EnsureStep, AppendStep, RollBackStep, BelongsStep, LoadStep, RecheckStep
  DEF DeriverStep
<1>3. QED
  BY <1>1, <1>2, EnvironmentStep DEF DerivationNext

LEMMA DerivationImplied == DerivationIInv => DerivationInv
<1> SUFFICES ASSUME DerivationIInv PROVE DerivationInv
  OBVIOUS
<1>1. \A i \in RecordId : Registered(i) = {r \in {candidates[i], artifacts[i]} : r \in ArtifactRecord}
  BY DEF Registered
<1>2. \A i \in RecordId : \A r \in Registered(i) : r \in FileRecords
  BY DEF FileRecords, FilesOf, Registered
<1>3. DerivationTypeOK
  BY DEF DerivationIInv, DerivationTyped, StoreKinds, Counted, DerivationTypeOK, DeriverState
<1>4. OpenedAsRecorded
  <2>1. SUFFICES ASSUME NEW k \in Deriver, At(k, "append")
                 PROVE  deriver[k].opened = deriver[k].hash \/ deriver[k].changed >= 2
    BY DEF OpenedAsRecorded
  <2>2. PlacedAs(deriver[k], approvals) /\ OpenedFrom(deriver[k], outputs)
    BY Commands
  <2>3. QED BY <2>1, <2>2 DEF At, PlacedAs, OpenedFrom
<1>5. SuccessorGate
  BY <1>2 DEF SuccessorGate, DerivationIInv, Gated
<1>6. RecordsHold
  BY <1>2 DEF RecordsHold, DerivationIInv, Untouched, SaysTrue, OfManifest
<1>7. NoOrphanOutput
  <2>1. \A p : (\E r \in FileRecords : r.path = p) =>
          \E i \in RecordId : \E r \in Registered(i) : r.path = p
    BY DEF FileRecords, FilesOf, Registered
  <2>2. \A k \in Deriver, p \in OutputPath : OwnsPath(deriver[k], p) <=> Owns(k, p)
    BY DEF Owns, OwnsPath
  <2>3. QED BY <2>1, <2>2 DEF DerivationIInv, Answered, NoOrphanOutput
<1>8. QED
  BY <1>3, <1>4, <1>5, <1>6, <1>7 DEF DerivationInv

\* What each place of `model derive`, `model admit-candidate` and `model
\* verify-candidate` says of the files and the records holds, however commands
\* interleave and are killed, and whatever is done to the files meanwhile.
THEOREM DerivationIInvCorrect == DerivationSpec => []DerivationIInv
BY DerivationInitially, DerivationStays, PTL DEF DerivationSpec

\* What is registered is what the backend opened, only of an admitted lineage; records
\* and files agree while nobody else touches the files, and no output is an orphan
\* that a command could have removed.
THEOREM DerivationCorrect == DerivationSpec => []DerivationInv
BY DerivationIInvCorrect, DerivationImplied, PTL
================================================================================
