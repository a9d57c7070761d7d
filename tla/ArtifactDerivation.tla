----------------------------- MODULE ArtifactDerivation -----------------------------
(***************************************************************************)
(* GGUF artifacts made from an imported checkpoint: `model derive`,        *)
(* `model admit-candidate` and `model verify-candidate` of lmml-tui        *)
(* (model_cli/derive.rs and derive/) with the immutable records of         *)
(* lmml-substrate/storage.rs.  A command reads the records, the checkpoint *)
(* and the output file one after the other, runs the converter and the     *)
(* backend in between, and may be killed; somebody else may touch files.   *)
(* A hash is the content it is taken of.  The id of the record of a        *)
(* lineage's checkpoint, "<lineage>-safetensors", is the lineage.          *)
(***************************************************************************)
EXTENDS Naturals, Sequences, FiniteSets

CONSTANTS
  Deriver,     \* the running commands
  Lineage, Successor,  \* checkpoint lineages, and those that have a parent
  ArtifactId,  \* ids a user gives to artifacts, the one of a checkpoint possibly
  OutputPath,  \* where outputs are written
  MaxDisturbance \* how often somebody else changes a file, edits the checkpoint or
                 \* kills a command, taken together (a bound)

ASSUME DerivationAssumption ==
  /\ Successor \subseteq Lineage
  /\ MaxDisturbance \in Nat

RecordId == ArtifactId \union Lineage
Foreign == [lineage |-> "none", form |-> "foreign"]
Gguf == [lineage : Lineage, form : {"canonical", "edited"}] \union {Foreign}
NoGguf == [lineage |-> "none", form |-> "none"]
NoPath == "no path"

ArtifactRecord == [kind : {"candidate", "gguf"}, lineage : Lineage, path : OutputPath, hash : Gguf]
Anchor(l) == [kind |-> "source", lineage |-> l, path |-> NoPath, hash |-> NoGguf]
NoRecord == [kind |-> "none", lineage |-> "none", path |-> NoPath, hash |-> NoGguf]

VARIABLES
  canonical,  \* the lineages whose checkpoint is the one of its manifest
  outputs,    \* the file at each output path
  candidates, artifacts, \* the records of each id
  approvals,  \* for each lineage, its successor admission: "none", "matching" or "other"
  deriver,    \* for each command, what it is doing
  loose,      \* paths with a file that no command answers for
  touches, kills

derivationVars ==
  <<canonical, outputs, candidates, artifacts, approvals, deriver, loose, touches, kills>>

\* "output" is the private temporary file, "opened" what the backend opened and
\* "changed" how often the file at "path" was changed since "hash" was taken.
NoDerivation ==
  [step |-> "idle", command |-> "none", lineage |-> "none", id |-> "none", path |-> NoPath,
   defer |-> FALSE, hash |-> NoGguf, opened |-> NoGguf, changed |-> 0,
   todo |-> <<>>, seen |-> {}]

DerivationStep ==
  {"idle", "gate", "free", "source", "convert", "open", "publish", "register",
   "belongs", "inspect", "load", "recheck", "anchor", "append", "rollback"}

DerivationTypeOK ==
  /\ canonical \subseteq Lineage
  /\ outputs \in [OutputPath -> Gguf \union {NoGguf}]
  /\ candidates \in [RecordId -> ArtifactRecord \union {NoRecord}]
  /\ artifacts \in [RecordId -> ArtifactRecord \union {NoRecord} \union {Anchor(l) : l \in Lineage}]
  /\ \A i \in RecordId : candidates[i].kind \in {"none", "candidate"}
  /\ \A i \in RecordId : artifacts[i].kind \in {"none", "gguf", "source"}
  /\ \A i \in RecordId : artifacts[i].kind = "source" => artifacts[i] = Anchor(i)
  /\ approvals \in [Lineage -> {"none", "matching", "other"}]
  /\ \A k \in Deriver :
       /\ deriver[k].step \in DerivationStep
       /\ deriver[k].command \in {"none", "derive", "admit", "verify"}
       /\ deriver[k].path \in OutputPath \union {NoPath}
       /\ deriver[k].hash \in Gguf \union {NoGguf}
  /\ loose \subseteq OutputPath
  /\ touches \in Nat /\ kills \in Nat /\ touches + kills <= MaxDisturbance

DerivationInit ==
  /\ canonical = Lineage
  /\ outputs = [p \in OutputPath |-> NoGguf]
  /\ candidates = [i \in RecordId |-> NoRecord] /\ artifacts = [i \in RecordId |-> NoRecord]
  /\ approvals = [l \in Lineage |-> "none"]
  /\ deriver = [k \in Deriver |-> NoDerivation]
  /\ loose = {} /\ touches = 0 /\ kills = 0

At(k, step) == deriver[k].step = step
Noticing(j, paths) ==
  IF deriver[j].command = "admit" /\ deriver[j].path \in paths /\ deriver[j].changed < 2
  THEN [deriver[j] EXCEPT !.changed = @ + 1] ELSE deriver[j]

\* Command k goes on, and the files at "paths" have changed.
Continue(k, state, paths) ==
  deriver' = [j \in Deriver |-> IF j = k THEN state ELSE Noticing(j, paths)]
Go(k, step) == Continue(k, [deriver[k] EXCEPT !.step = step], {})
Stop(k) == Continue(k, NoDerivation, {})

Outside == UNCHANGED <<canonical, approvals, touches, kills>>
KeepFiles == UNCHANGED <<outputs, loose>>
KeepRecords == UNCHANGED <<candidates, artifacts>>
Looking == Outside /\ KeepFiles /\ KeepRecords

--------------------------------------------------------------------------------
(* What every command does first.                                          *)

\* derive_model
StartDerive(k) ==
  /\ At(k, "idle")
  /\ \E l \in Lineage, i \in ArtifactId, p \in OutputPath, defer \in BOOLEAN :
       Continue(k, [NoDerivation EXCEPT
         !.step = "gate", !.command = "derive", !.lineage = l, !.id = i, !.path = p,
         !.defer = defer], {})
  /\ Looking

\* admit_with: the record of one candidate and the manifest of a lineage are read.
StartAdmit(k) ==
  /\ At(k, "idle")
  /\ \E l \in Lineage, i \in {j \in RecordId : candidates[j] # NoRecord} :
       Continue(k, [NoDerivation EXCEPT
         !.step = "gate", !.command = "admit", !.lineage = l, !.todo = <<i>>], {})
  /\ Looking

\* verify: one or more candidates.
StartVerify(k) ==
  /\ At(k, "idle")
  /\ \E l \in Lineage, i, j \in {c \in RecordId : candidates[c] # NoRecord} :
     \E todo \in {<<i>>, <<i, j>>} :
       Continue(k, [NoDerivation EXCEPT
         !.step = "gate", !.command = "verify", !.lineage = l, !.todo = todo], {})
  /\ Looking

\* Mutant: an admission of another checkpoint of the lineage will do.
GateAny(k) ==
  /\ At(k, "gate")
  /\ IF deriver[k].lineage \in Successor => approvals[deriver[k].lineage] # "none"
     THEN Go(k, IF deriver[k].command = "derive" THEN "free" ELSE "source") ELSE Stop(k)
  /\ Looking

\* require_admitted_successor
Gate(k) ==
  /\ At(k, "gate")
  /\ IF deriver[k].lineage \in Successor => approvals[deriver[k].lineage] = "matching"
     THEN Go(k, IF deriver[k].command = "derive" THEN "free" ELSE "source") ELSE Stop(k)
  /\ Looking

\* What derive_model_with finds of the programs it needs: the converter, for a
\* quantized output a quantizer that offers the quantization, and, when a container
\* converts, its runtime and an image which has what the converter imports.
Tools ==
  [converter : BOOLEAN, quantized : BOOLEAN, quantizer : BOOLEAN, offers : BOOLEAN,
   container : {"none", "missing", "there"}, image : {"unnamed", "named"}, imports : BOOLEAN]
ToolsUsable(t) ==
  /\ t.converter
  /\ t.container = "none" => t.image = "unnamed"
  /\ t.container # "missing"
  /\ t.quantized => t.quantizer /\ t.offers
  /\ t.container = "there" => t.imports
ToolVerdicts == {ToolsUsable(t) : t \in Tools}

CheckOutputAndTools(k) ==
  /\ At(k, "free")
  /\ \E usable \in ToolVerdicts :
       IF outputs[deriver[k].path] = NoGguf /\ usable THEN Go(k, "source") ELSE Stop(k)
  /\ Looking

\* verify_safetensors, see CheckpointImport.
VerifySource(k) ==
  /\ At(k, "source")
  /\ IF deriver[k].lineage \in canonical
     THEN Go(k, IF deriver[k].command = "derive" THEN "convert" ELSE "belongs") ELSE Stop(k)
  /\ Looking

--------------------------------------------------------------------------------
(* model derive                                                            *)

\* The converter reads the checkpoint as it is now; it and the quantizer may fail,
\* or leave a file without the structure of a GGUF.
Convert(k) ==
  LET l == deriver[k].lineage
      form == IF l \in canonical THEN "canonical" ELSE "edited"
  IN /\ At(k, "convert")
     /\ \/ Continue(k, [deriver[k] EXCEPT
               !.step = IF deriver[k].defer THEN "publish" ELSE "open",
               !.hash = [lineage |-> l, form |-> form]], {})
        \/ Stop(k)
     /\ Looking

\* admit_with_server starts the backend on the file and asks it for its health and
\* for the model it serves, until the deadline.
OpenOutput(k) ==
  /\ At(k, "open")
  /\ \/ Continue(k, [deriver[k] EXCEPT !.step = "publish", !.opened = deriver[k].hash], {})
     \/ Stop(k)
  /\ Looking

Leave(files, paths) == /\ outputs' = files
                       /\ loose' = {p \in loose \union paths : files[p] # NoGguf}

\* publish_no_clobber: a hard link, then the temporary name is removed; when that
\* fails the link is removed again, which may fail, too.
Publish(k) ==
  LET d == deriver[k]
      linked == [outputs EXCEPT ![d.path] = d.hash]
  IN /\ At(k, "publish")
     /\ IF outputs[d.path] # NoGguf THEN Stop(k) /\ KeepFiles
        ELSE \/ /\ Leave(linked, {})
                /\ Continue(k, [d EXCEPT !.step = IF d.defer THEN "register" ELSE "anchor",
                                         !.defer = FALSE], {d.path})
             \/ Stop(k) /\ KeepFiles
             \/ Leave(linked, {d.path}) /\ Continue(k, NoDerivation, {d.path})
     /\ Outside /\ KeepRecords

\* persist_immutable: a record is added; that of an id which has one differs, in the
\* time of its creation at least.  No artifact is its own parent.
MayAppend(store, d) == store[d.id] = NoRecord /\ d.id # d.lineage

Recorded(kind, d) ==
  [kind |-> kind, lineage |-> d.lineage, path |-> d.path, hash |-> d.hash]

\* candidate::record
RegisterCandidate(k) ==
  LET d == deriver[k]
  IN /\ At(k, "register")
     /\ \/ /\ MayAppend(candidates, d)
           /\ candidates' = [candidates EXCEPT ![d.id] = Recorded("candidate", d)]
           /\ Stop(k)
        \/ Go(k, "rollback") /\ UNCHANGED candidates
     /\ Outside /\ KeepFiles /\ UNCHANGED artifacts

\* A failed registration of a derivation takes its output back; a failed
\* registration of a candidate leaves the candidate.
FailRegistration(k) == IF deriver[k].command = "derive" THEN Go(k, "rollback") ELSE Stop(k)

\* ensure_source_artifact: the record of the checkpoint is there or is added.
EnsureSource(k) ==
  LET l == deriver[k].lineage
  IN /\ At(k, "anchor")
     /\ \/ /\ artifacts[l] \in {NoRecord, Anchor(l)}
           /\ artifacts' = [artifacts EXCEPT ![l] = Anchor(l)]
           /\ Go(k, "append")
        \/ FailRegistration(k) /\ UNCHANGED artifacts
     /\ Outside /\ KeepFiles /\ UNCHANGED candidates

AppendArtifact(k) ==
  LET d == deriver[k]
  IN /\ At(k, "append")
     /\ \/ /\ MayAppend(artifacts, d)
           /\ artifacts' = [artifacts EXCEPT ![d.id] = Recorded("gguf", d)]
           /\ Stop(k)
        \/ FailRegistration(k) /\ UNCHANGED artifacts
     /\ Outside /\ KeepFiles /\ UNCHANGED candidates

\* The output is removed, whoever's it is by now, or cannot be removed.
RollBack(k) ==
  LET p == deriver[k].path
  IN /\ At(k, "rollback")
     /\ \/ /\ Leave([outputs EXCEPT ![p] = NoGguf], {})
           /\ Continue(k, NoDerivation, {p})
        \/ Leave(outputs, {p}) /\ Stop(k)
     /\ Outside /\ KeepRecords

--------------------------------------------------------------------------------
(* model admit-candidate and model verify-candidate                        *)

\* read_candidate and validate_candidate_record of the next candidate: no id twice,
\* of this lineage, and the file has the recorded hash.
CandidateBelongs(k) ==
  LET d == deriver[k]
      i == Head(d.todo)
      c == candidates[i]
  IN /\ At(k, "belongs")
     /\ IF i \notin d.seen /\ c.lineage = d.lineage /\ outputs[c.path] = c.hash
        THEN Continue(k, [d EXCEPT !.step = "inspect", !.id = i, !.path = c.path,
                                   !.hash = c.hash, !.changed = 0, !.opened = NoGguf,
                                   !.seen = @ \union {i}, !.todo = Tail(@)], {})
        ELSE Stop(k)
     /\ Looking

\* validate_gguf_structure reads the file again.
InspectCandidate(k) ==
  LET d == deriver[k]
      file == outputs[d.path]
  IN /\ At(k, "inspect")
     /\ \/ /\ file # NoGguf
           /\ Go(k, IF d.command = "admit" THEN "load" ELSE "recheck")
        \/ Stop(k)
     /\ Looking

\* The backend opens the file, a third reading.
LoadCandidate(k) ==
  LET file == outputs[deriver[k].path]
  IN /\ At(k, "load")
     /\ \/ /\ file # NoGguf
           /\ Continue(k, [deriver[k] EXCEPT !.step = "recheck", !.opened = file], {})
        \/ Stop(k)
     /\ Looking

Passed(d) ==
  [d EXCEPT !.step = IF d.command = "admit" THEN "anchor"
                     ELSE IF d.todo # <<>> THEN "belongs" ELSE "idle"]

\* verify_candidate_payload; then the next candidate, the registration, or the report.
Recheck(k) ==
  LET d == deriver[k]
  IN /\ At(k, "recheck")
     /\ IF outputs[d.path] = d.hash
        THEN IF Passed(d).step = "idle" THEN Stop(k) ELSE Continue(k, Passed(d), {})
        ELSE Stop(k)
     /\ Looking

DeriverStep(k) ==
  \/ StartDerive(k) \/ StartAdmit(k) \/ StartVerify(k)
  \/ Gate(k) \/ CheckOutputAndTools(k) \/ VerifySource(k)
  \/ Convert(k) \/ OpenOutput(k) \/ Publish(k) \/ RegisterCandidate(k)
  \/ EnsureSource(k) \/ AppendArtifact(k) \/ RollBack(k)
  \/ CandidateBelongs(k) \/ InspectCandidate(k) \/ LoadCandidate(k) \/ Recheck(k)

--------------------------------------------------------------------------------
(* The environment.                                                        *)

Owns(k, p) ==
  /\ deriver[k].command = "derive" /\ deriver[k].path = p
  /\ deriver[k].step \in {"register", "anchor", "append", "rollback"}

KillDeriver(k) ==
  /\ touches + kills < MaxDisturbance /\ ~At(k, "idle")
  /\ Leave(outputs, {p \in OutputPath : Owns(k, p)})
  /\ kills' = kills + 1
  /\ Stop(k)
  /\ KeepRecords /\ UNCHANGED <<canonical, approvals, touches>>

\* Somebody edits the checkpoint or puts it back.
TouchSource ==
  /\ touches + kills < MaxDisturbance /\ touches' = touches + 1
  /\ \E l \in Lineage :
       canonical' = IF l \in canonical THEN canonical \ {l} ELSE canonical \union {l}
  /\ KeepFiles /\ KeepRecords /\ UNCHANGED <<approvals, deriver, kills>>

\* Somebody replaces, removes or creates an output.
TouchOutput ==
  /\ touches + kills < MaxDisturbance /\ touches' = touches + 1
  /\ \E p \in OutputPath :
     \E file \in {NoGguf, Foreign} \union [lineage : Lineage, form : {"canonical"}] :
       /\ file # outputs[p]
       /\ Leave([outputs EXCEPT ![p] = file], {p})
       /\ deriver' = [j \in Deriver |-> Noticing(j, {p})]
  /\ KeepRecords /\ UNCHANGED <<canonical, approvals, kills>>

\* `model admit` of a successor, see SuccessorPipeline: the record stays.
ApproveSuccessor ==
  /\ \E l \in Successor, verdict \in {"matching", "other"} :
       /\ approvals[l] = "none"
       /\ approvals' = [approvals EXCEPT ![l] = verdict]
  /\ KeepFiles /\ KeepRecords /\ UNCHANGED <<canonical, deriver, touches, kills>>

DerivationNext ==
  \/ TouchSource \/ TouchOutput \/ ApproveSuccessor
  \/ \E k \in Deriver : KillDeriver(k) \/ DeriverStep(k)

DerivationSpec == DerivationInit /\ [][DerivationNext]_derivationVars

--------------------------------------------------------------------------------

Registered(i) == {r \in {candidates[i], artifacts[i]} : r \in ArtifactRecord}

\* verify_candidate_payload and derive's private file: what is registered as admitted
\* is what the backend opened, though the file is read three times, unless it was
\* changed and changed back while the command ran.
OpenedAsRecorded ==
  \A k \in Deriver :
    At(k, "append") => deriver[k].opened = deriver[k].hash \/ deriver[k].changed >= 2

\* require_admitted_successor: nothing is derived from a successor lineage before it
\* is admitted, and nothing from one whose admission is of another checkpoint.
SuccessorGate ==
  \A i \in RecordId : \A r \in Registered(i) :
    r.lineage \in Successor => approvals[r.lineage] = "matching"

\* publish_no_clobber before the record, and the removal after a failed record: as
\* long as nobody else touches the files, every record names a file with the
\* recorded bytes, made from the checkpoint of the manifest, however the commands
\* interleave and wherever one of them is killed.
RecordsHold ==
  touches = 0 =>
    \A i \in RecordId : \A r \in Registered(i) :
      outputs[r.path] = r.hash /\ r.hash = [lineage |-> r.lineage, form |-> "canonical"]

\* The rollbacks of derive_model_with and candidate::record: an output without a
\* record belongs to a command that still runs, to one that was killed or could not
\* remove it, or to somebody else.
NoOrphanOutput ==
  \A p \in OutputPath :
    outputs[p] # NoGguf =>
      \/ p \in loose
      \/ \E k \in Deriver : Owns(k, p)
      \/ \E i \in RecordId : \E r \in Registered(i) : r.path = p

\* Every output has its record and is what it says.
DerivationInv ==
  DerivationTypeOK /\ OpenedAsRecorded /\ SuccessorGate /\ RecordsHold /\ NoOrphanOutput

================================================================================
