----------------------------- MODULE SuccessorPipeline -----------------------------
(***************************************************************************)
(* From a training authorization to an admitted successor lineage: the     *)
(* commands `model successor authorize`, `register-training`,              *)
(* `register-candidate` and `admit` (model_cli/successor.rs of lmml-tui)   *)
(* with the checks of lmml-substrate/lifecycle.rs and lifecycle/.          *)
(* Each command reads several records and files, one after the other, and  *)
(* somebody may replace any of them before, between and during commands.   *)
(* A hash is the content it is taken of: a record holds the records it     *)
(* names.  A file is opened anew for each thing the code asks of it: the   *)
(* adapter to hash it, to list its tensors and to scan its weights, the    *)
(* merged checkpoint to read its headers, to hash it and to scan it, and   *)
(* each is a step.  How the two files of an admission are published is     *)
(* SuccessorAdmission; here it is one step.                                *)
(***************************************************************************)
EXTENDS Naturals, Sequences, FiniteSets
LOCAL INSTANCE SequencesExt

CONSTANTS
  Stage,       \* the running commands
  Base,        \* manifests of canonical checkpoints
  Time,        \* time stamps, naturals
  Authorizations, \* what training may be asked for, see Authorization
  TrainingReports(_), \* the reports of a trainer who was given an authorization
  AdmissionReports(_, _, _), \* what a report says of a candidate, a training record and a
                             \* baseline
  Baselines,   \* baselines that were frozen
  Adapter,     \* contents of an adapter file: see AdapterHolds
  Merged,      \* contents of a merged checkpoint: see MergedHolds
  MaxReplacement, \* how often a record is replaced from outside (a bound)
  MaxSwap      \* how often the adapter file or the merged checkpoint is (a bound)

ASSUME PipelineAssumption ==
  /\ \A a \in Authorizations : \A t \in TrainingReports(a) : t.kind = "training"
  /\ \A b \in Baselines : b.kind = "baseline"
  /\ MaxReplacement \in Nat /\ MaxSwap \in Nat

Absent == [kind |-> "no file"]

VARIABLES
  record,  \* the files of the records, by their role
  adapter, merged, \* the adapter file and the merged checkpoint
  stage,   \* for each command, what it has read
  written, \* history: the candidate records a command wrote
  calm,    \* history: the commands since whose first look at the adapter file or the
           \* merged checkpoint neither was replaced
  sound,   \* history: the records a command stored that was calm to its end
  replacements, swaps

pipelineVars == <<record, adapter, merged, stage, written, calm, sound, replacements, swaps>>

Role == {"authorization", "training", "candidate", "baseline", "report", "successor"}

\* What a command keeps: records, and of the checkpoint it imports the structure its
\* headers give and the content that was hashed.
Kept == Role \union {"structure", "files"}

--------------------------------------------------------------------------------
(* The records and what is checked of each of them alone.                  *)

\* matches_allowlist: the name itself or, before a '*', what it starts with.  A
\* name is the sequence of its parts.
Matches(name, entry) ==
  IF entry.wild THEN IsPrefix(entry.name, name) ELSE entry.name = name

LoraPart == {"lora_A", "lora_B", "lora_embedding_A", "lora_embedding_B"}
IsLora(name) == \E i \in 2 .. Len(name) : name[i] \in LoraPart

\* validate_trainable_inventory
InventoryHolds(inventory) ==
  /\ inventory.allow # <<>> /\ inventory.names # <<>>
  /\ IsInjective(inventory.allow) /\ IsInjective(inventory.names)
  /\ \A e \in ToSet(inventory.allow) : e.name # <<>>
  /\ \A n \in ToSet(inventory.names) :
       n # <<>> /\ IsLora(n) /\ \E e \in ToSet(inventory.allow) : Matches(n, e)

\* An authorization: of this base, this data and these parameters.
AuthorizationHolds(a) ==
  /\ DOMAIN a = {"kind", "base", "dataset", "inventory", "time"}
  /\ a.kind = "authorization" /\ InventoryHolds(a.inventory)

\* A report of a run: its authorization, what was trained, and the adapter.
TrainingHolds(t) ==
  /\ DOMAIN t = {"kind", "authorization", "base", "dataset", "inventory", "adapter",
                 "finite", "time"}
  /\ t.kind = "training" /\ InventoryHolds(t.inventory) /\ t.finite

\* A candidate: what was merged, and the manifest of the merged checkpoint.
CandidateHolds(c) ==
  /\ DOMAIN c = {"kind", "parent", "training", "merged", "delta", "drift", "time"}
  /\ c.kind = "candidate" /\ c.merged.parent = c.parent
  /\ c.delta > 0 /\ c.drift.measured <= c.drift.tolerance

\* A baseline: its cases, each with the hash of its output.
BaselineHolds(b) ==
  /\ DOMAIN b = {"kind", "parent", "cases"}
  /\ b.kind = "baseline" /\ b.cases # {} /\ Cardinality({c.case : c \in b.cases}) = Cardinality(b.cases)

\* One case of a regression run passes by its numbers, which are the report's own.
ResultHolds(r) ==
  /\ r.maximum >= 0 /\ r.delta = r.candidate - r.parent
  /\ r.passed /\ r.delta <= r.maximum

SuccessorHolds(s) ==
  /\ DOMAIN s = {"kind", "parent", "candidate", "training", "baseline", "dataset",
                 "inventory", "merged", "regression", "time"}
  /\ s.kind = "successor" /\ s.regression # {} /\ InventoryHolds(s.inventory)
  /\ Cardinality({r.case : r \in s.regression}) = Cardinality(s.regression)
  /\ \A r \in s.regression : ResultHolds(r)

\* An adapter file has LoRA tensors only, and no weight that is not a number.
AdapterHolds(file) == file.lora /\ file.finite

\* validate_successor_structure, and validate_finite_checkpoint.
MergedHolds(files) == files.structure = "of the base" /\ files.finite

--------------------------------------------------------------------------------
(* What is checked of two of them.                                         *)

\* validate_training_authorization_against_base
AuthorizedBase(a, base) == AuthorizationHolds(a) /\ a.base = base

\* validate_training_run_against_authorization
Follows(t, a) ==
  /\ TrainingHolds(t) /\ AuthorizationHolds(a)
  /\ t.authorization = a /\ t.base = a.base /\ t.dataset = a.dataset
  /\ t.inventory = a.inventory /\ t.time >= a.time

\* validate_training_run_against_base, before it opens the adapter file again.
TrainedOn(t, base, file) == TrainingHolds(t) /\ t.base = base /\ t.adapter = file

\* validate_candidate_against_training
MergedFrom(c, t) ==
  /\ CandidateHolds(c) /\ c.parent = t.base /\ c.time >= t.time

\* validate_successor_admission
AdmitsCandidate(s, c) ==
  /\ SuccessorHolds(s) /\ s.parent = c.parent /\ s.merged = c.merged /\ s.time >= c.time

\* validate_successor_provenance
Proven(s, c, t) ==
  /\ SuccessorHolds(s) /\ CandidateHolds(c) /\ TrainingHolds(t)
  /\ s.training = t /\ c.training = t /\ s.candidate = c
  /\ s.dataset = t.dataset /\ s.inventory = t.inventory

\* validate_successor_baseline
Compared(s, b) ==
  /\ SuccessorHolds(s) /\ BaselineHolds(b)
  /\ s.parent = b.parent /\ s.baseline = b
  /\ {r.case : r \in s.regression} = {c.case : c \in b.cases}

--------------------------------------------------------------------------------

Idle == [step |-> "idle", read |-> [role \in Kept |-> Absent]]

PipelineTypeOK ==
  /\ DOMAIN record = Role
  /\ \A role \in Role :
       record[role] = Absent \/ record[role].kind = IF role = "report" THEN "successor" ELSE role
  /\ record["successor"] # Absent => SuccessorHolds(record["successor"])
  /\ adapter \in Adapter /\ merged \in Merged
  /\ \A k \in Stage : stage[k].step \in
       {"idle", "training", "training list", "training scan", "training store",
        "authorization", "import", "import hash", "merge",
        "candidate list", "candidate scan", "candidate headers", "candidate hash",
        "candidate weights", "candidate store",
        "baseline", "report", "provenance", "payload",
        "admission headers", "admission hash", "admission weights", "admission store"}
  /\ \A c \in written : CandidateHolds(c) /\ TrainingHolds(c.training)
  /\ calm \subseteq Stage
  /\ replacements \in 0 .. MaxReplacement /\ swaps \in 0 .. MaxSwap

PipelineInit ==
  /\ record = [role \in Role |-> Absent]
  /\ adapter \in Adapter /\ merged \in Merged
  /\ stage = [k \in Stage |-> Idle]
  /\ written = {} /\ calm = {} /\ sound = {}
  /\ replacements = 0 /\ swaps = 0

Doing(k, step) == stage[k].step = step
Held(k, role) == stage[k].read[role]

\* A command goes on, with what it holds or with one thing more, or it ends.
GoOn(k, step) ==
  stage' = [stage EXCEPT ![k] = [step |-> step, read |-> stage[k].read]]
Holding(k, step, role, value) ==
  stage' = [stage EXCEPT ![k] =
              [step |-> step, read |-> [stage[k].read EXCEPT ![role] = value]]]
End(k) == stage' = [stage EXCEPT ![k] = Idle] /\ calm' = calm \ {k}

OnlyReads == UNCHANGED <<record, adapter, merged, written, sound, replacements, swaps>>
GiveUp(k) == End(k) /\ OnlyReads

\* One look at a file: the command goes on when it finds what it looks for.
LookAt(k, step, holds, next) ==
  /\ Doing(k, step)
  /\ IF holds THEN GoOn(k, next) /\ OnlyReads /\ UNCHANGED calm ELSE GiveUp(k)

\* store_json: a record that is there stays; the same one may come again.
Stored(role, value) == record[role] \in {Absent, value}
Store(role, value) ==
  IF Stored(role, value)
  THEN record' = [record EXCEPT ![role] = value] ELSE UNCHANGED record

\* The end of a command: the record it made is stored.
Finish(k, role, value) ==
  /\ Store(role, value) /\ End(k)
  /\ sound' = sound \union (IF k \in calm /\ Stored(role, value) THEN {value} ELSE {})
  /\ UNCHANGED <<adapter, merged, replacements, swaps>>

\* validate_adapter_safetensors: the adapter file is opened for the names of its
\* tensors, which have to be those of the report, too, and for its weights.
ListAdapter(k) ==
  \/ LookAt(k, "training list", adapter.lora, "training scan")
  \/ LookAt(k, "candidate list", adapter.lora, "candidate scan")

\* Mutant: the report of the run has said that all is finite.
ScanAdapterTrusted(k) ==
  \/ LookAt(k, "training scan", Held(k, "training").finite, "training store")
  \/ LookAt(k, "candidate scan", Held(k, "training").finite, "candidate headers")

ScanAdapter(k) ==
  \/ LookAt(k, "training scan", adapter.finite, "training store")
  \/ LookAt(k, "candidate scan", adapter.finite, "candidate headers")

\* verify_successor_candidate_payload: the merged checkpoint is imported, which reads
\* its headers and then its content, compared with the candidate, and scanned.
ReadHeaders(k) ==
  LET as == merged.structure = Held(k, "candidate").merged.structure
  IN \/ LookAt(k, "candidate headers", as, "candidate hash")
     \/ LookAt(k, "admission headers", as, "admission hash")

HashMerged(k) ==
  LET as == merged = Held(k, "candidate").merged.files
  IN \/ LookAt(k, "candidate hash", as, "candidate weights")
     \/ LookAt(k, "admission hash", as, "admission weights")

ScanMerged(k) ==
  \/ LookAt(k, "candidate weights", merged.finite, "candidate store")
  \/ LookAt(k, "admission weights", merged.finite, "admission store")

\* authorize_training
AuthorizeTraining(k) ==
  /\ Doing(k, "idle")
  /\ \E a \in Authorizations, base \in Base :
       AuthorizedBase(a, base) /\ Store("authorization", a)
  /\ UNCHANGED <<adapter, merged, stage, written, calm, sound, replacements, swaps>>

\* register_training reads the authorization, ...
BeginTraining(k) ==
  /\ Doing(k, "idle")
  /\ record["authorization"] # Absent
  /\ Holding(k, "training", "authorization", record["authorization"])
  /\ OnlyReads /\ UNCHANGED calm

\* ... and the report, checks them and hashes the adapter file, ...
RegisterTraining(k) ==
  /\ Doing(k, "training")
  /\ \E t \in UNION {TrainingReports(a) : a \in Authorizations}, base \in Base :
       IF /\ AuthorizedBase(Held(k, "authorization"), base)
          /\ Follows(t, Held(k, "authorization")) /\ TrainedOn(t, base, adapter)
       THEN /\ Holding(k, "training list", "training", t)
            /\ OnlyReads /\ calm' = calm \union {k}
       ELSE GiveUp(k)

\* ... and stores the report when that has passed the other two looks.
StoreTraining(k) ==
  /\ Doing(k, "training store")
  /\ Finish(k, "training", Held(k, "training")) /\ UNCHANGED written

\* register_candidate reads the training record and the authorization it names, ...
BeginCandidate(k) ==
  /\ Doing(k, "idle")
  /\ record["training"] # Absent /\ TrainingHolds(record["training"])
  /\ Holding(k, "authorization", "training", record["training"])
  /\ OnlyReads /\ UNCHANGED calm

ReadRecord(k, step, role, next) ==
  /\ Doing(k, step)
  /\ IF record[role] # Absent
     THEN Holding(k, next, role, record[role]) /\ OnlyReads /\ UNCHANGED calm ELSE GiveUp(k)

ReadAuthorization(k) == ReadRecord(k, "authorization", "authorization", "import")

\* ... verifies the checkpoint of the base and imports the merged one, first the
\* headers and then the content, ...
ImportMerged(k) ==
  /\ Doing(k, "import")
  /\ \/ Holding(k, "import hash", "structure", merged.structure)
        /\ OnlyReads /\ calm' = calm \union {k}
     \/ GiveUp(k)

ImportHash(k) ==
  /\ Doing(k, "import hash")
  /\ Holding(k, "merge", "files", merged)
  /\ OnlyReads /\ UNCHANGED calm

\* ... makes the candidate, checks it against the records and hashes the adapter file
\* (lifecycle.rs checks the candidate only after its looks at the adapter, with the same end), ...
MergeCandidate(k) ==
  /\ Doing(k, "merge")
  /\ \E base \in Base, delta \in 0 .. 1, measured \in 0 .. 1, time \in Time :
       LET t == Held(k, "training")
           c == [kind |-> "candidate", parent |-> base, training |-> t,
                 merged |-> [structure |-> Held(k, "structure"), files |-> Held(k, "files"),
                             parent |-> base],
                 delta |-> delta, drift |-> [measured |-> measured, tolerance |-> 0],
                 time |-> time]
       IN IF /\ AuthorizedBase(Held(k, "authorization"), base)
             /\ Follows(t, Held(k, "authorization")) /\ TrainedOn(t, base, adapter)
             /\ MergedFrom(c, t) /\ c.merged.structure = "of the base"
          THEN Holding(k, "candidate list", "candidate", c) /\ OnlyReads /\ UNCHANGED calm
          ELSE GiveUp(k)

\* ... and stores it when the adapter file and the merged checkpoint have been looked at
\* once more.
StoreCandidate(k) ==
  LET c == Held(k, "candidate")
  IN /\ Doing(k, "candidate store")
     /\ Finish(k, "candidate", c)
     /\ written' = written \union (IF Stored("candidate", c) THEN {c} ELSE {})

\* admit reads the candidate, the baseline, the report and the training record, ...
BeginAdmission(k) ==
  /\ Doing(k, "idle")
  /\ record["candidate"] # Absent /\ CandidateHolds(record["candidate"])
  /\ Holding(k, "baseline", "candidate", record["candidate"])
  /\ OnlyReads /\ UNCHANGED calm

ReadBaseline(k) == ReadRecord(k, "baseline", "baseline", "report")
ReadReport(k) == ReadRecord(k, "report", "report", "provenance")
ReadTraining(k) == ReadRecord(k, "provenance", "training", "payload")

\* ... checks them against each other, ...
CheckAdmission(k) ==
  LET c == Held(k, "candidate")
      s == Held(k, "report")
      t == Held(k, "training")
  IN /\ Doing(k, "payload")
     /\ IF /\ Compared(s, Held(k, "baseline")) /\ AdmitsCandidate(s, c) /\ MergedFrom(c, t)
           /\ Proven(s, c, t)
        THEN GoOn(k, "admission headers") /\ OnlyReads /\ calm' = calm \union {k}
        ELSE GiveUp(k)

\* ... and when the merged checkpoint is the candidate's publishes the canonical record
\* and the admission.
Admit(k) ==
  /\ Doing(k, "admission store")
  /\ Finish(k, "successor", Held(k, "report")) /\ UNCHANGED written

StageStep(k) ==
  \/ AuthorizeTraining(k) \/ BeginTraining(k) \/ RegisterTraining(k) \/ StoreTraining(k)
  \/ ListAdapter(k) \/ ScanAdapter(k) \/ ReadHeaders(k) \/ HashMerged(k) \/ ScanMerged(k)
  \/ BeginCandidate(k) \/ ReadAuthorization(k) \/ ImportMerged(k) \/ ImportHash(k)
  \/ MergeCandidate(k) \/ StoreCandidate(k)
  \/ BeginAdmission(k) \/ ReadBaseline(k) \/ ReadReport(k) \/ ReadTraining(k)
  \/ CheckAdmission(k) \/ Admit(k)

--------------------------------------------------------------------------------
(* The environment.                                                        *)

\* A baseline is frozen, a regression run writes its report.
Supply ==
  /\ \/ \E b \in Baselines : record["baseline"] = Absent /\ record' = [record EXCEPT !["baseline"] = b]
     \/ /\ record["candidate"] # Absent /\ record["baseline"] # Absent /\ record["report"] = Absent
        /\ \E s \in AdmissionReports(record["candidate"], record["training"], record["baseline"]) :
             record' = [record EXCEPT !["report"] = s]
  /\ UNCHANGED <<adapter, merged, stage, written, calm, sound, replacements, swaps>>

\* Somebody replaces a record, ...
ReplaceRecord ==
  /\ replacements < MaxReplacement /\ replacements' = replacements + 1
  /\ \/ \E a \in {x \in Authorizations : AuthorizationHolds(x)} :
          /\ record["authorization"] \notin {Absent, a}
          /\ record' = [record EXCEPT !["authorization"] = a]
     \/ \E a \in Authorizations : \E t \in TrainingReports(a) :
          /\ record["training"] \notin {Absent, t}
          /\ record' = [record EXCEPT !["training"] = t]
     \/ \E b \in Baselines :
          /\ record["baseline"] \notin {Absent, b}
          /\ record' = [record EXCEPT !["baseline"] = b]
     \/ \E a \in Authorizations : \E t \in TrainingReports(a) :
          /\ record["candidate"] # Absent
          /\ record' = [record EXCEPT !["candidate"].training = t]
  /\ UNCHANGED <<adapter, merged, calm, swaps>>

\* ... or a file.
ReplaceFile ==
  /\ swaps < MaxSwap /\ swaps' = swaps + 1
  /\ \/ adapter' \in Adapter \ {adapter} /\ UNCHANGED merged
     \/ merged' \in Merged \ {merged} /\ UNCHANGED adapter
  /\ calm' = {} /\ UNCHANGED <<record, replacements>>

Replace == (ReplaceRecord \/ ReplaceFile) /\ UNCHANGED <<stage, written, sound>>

PipelineNext == Supply \/ Replace \/ \E k \in Stage : StageStep(k)

PipelineSpec == PipelineInit /\ [][PipelineNext]_pipelineVars

--------------------------------------------------------------------------------

\* What an admission stands for, said of the whole chain of records behind it.
ChainHolds(s) ==
  LET c == s.candidate
      t == c.training
      a == t.authorization
  IN /\ a.base = t.base /\ t.base = c.parent /\ c.parent = s.parent
     /\ a.dataset = t.dataset /\ t.dataset = s.dataset
     /\ a.inventory = s.inventory
     /\ \A n \in ToSet(s.inventory.names) : IsLora(n)
     /\ a.time <= t.time /\ t.time <= c.time /\ c.time <= s.time

\* authorize_training .. admit: the commands are run apart and each checks only some
\* of the links, `admit` none to the authorization; still a successor that is admitted
\* on a candidate which register_candidate wrote was trained as it had been authorized,
\* on that base, in that order, whatever was replaced between and during the commands.
AdmittedChainHolds ==
  LET s == record["successor"]
  IN s # Absent /\ s.candidate \in written => ChainHolds(s)

\* What the record r says of the files it names by their hashes.
FilesHold(r) ==
  /\ r.kind = "training" => AdapterHolds(r.adapter)
  /\ r.kind = "candidate" => AdapterHolds(r.training.adapter) /\ MergedHolds(r.merged.files)
  /\ r.kind = "successor" =>
       r.merged.files.finite /\ r.merged.files.structure = r.merged.structure

\* validate_adapter_safetensors, verify_successor_candidate_payload: a file is hashed in
\* one look and examined in others; when nobody replaced one in between, what was
\* examined is what the record names, in particular the LoRA tensors of the adapter, the
\* structure of the merged checkpoint, and numbers for weights.
ExaminedAsHashed == \A r \in sound : FilesHold(r)

\* validate_successor_baseline: an admitted successor was compared on every case of the
\* baseline it names and is no worse by more than the report allows, by its own numbers.
ComparedOnEveryCase ==
  LET s == record["successor"]
  IN s # Absent =>
       \A c \in s.baseline.cases :
         \E r \in s.regression : r.case = c.case /\ r.candidate <= r.parent + r.maximum

\* read_and_parse_hashed: the training record that an admission is checked against is
\* the one that was read for its candidate, though it is read again by its path.
OneTrainingRecord ==
  LET s == record["successor"] IN s # Absent => s.training = s.candidate.training

\* The records of a successor that was admitted form a chain, of the files they name.
PipelineInv ==
  PipelineTypeOK /\ AdmittedChainHolds /\ ExaminedAsHashed /\ ComparedOnEveryCase
    /\ OneTrainingRecord

================================================================================
