-------------------------- MODULE SuccessorAdmission ---------------------------
(***************************************************************************)
(* store_admitted_successor of lmml-substrate: a process registers the     *)
(* canonical record and the admission record of one successor lineage.     *)
(*                                                                         *)
(* Several processes (the command `model successor admit`, run twice, or   *)
(* again after it was killed) share the directory.  Every look at a file,  *)
(* every read and every publication is a step of its own; a publication    *)
(* itself is atomic, because the payload is written to a temporary file    *)
(* that persist_noclobber links into place only if the name is free.       *)
(***************************************************************************)

CONSTANTS
  Job,        \* the calls of store_admitted_successor
  Path,       \* the paths of the records
  Canonical,  \* the path of the lineage's canonical record
  Payload,    \* the contents of records
  None,       \* no file
  Target,     \* for each job, the path of its admission record
  Bundle      \* for each job, the payloads of its two records

ASSUME PathAssumption == Canonical \in Path /\ Target \in [Job -> Path \ {Canonical}]

ASSUME PayloadAssumption ==
  /\ None \notin Payload
  /\ Bundle \in [Job -> [canonical : Payload, admission : Payload]]

VARIABLES
  file,      \* the content of each path
  phase,     \* what each job is doing, or how it ended
  at,        \* within a phase: "Look" at the path, "Compare" its content, "Link"
  created,   \* whether the job itself created the canonical record
  overlapped \* history: whether a job moved while another one was running

vars == <<file, phase, at, created, overlapped>>

--------------------------------------------------------------------------------

Preflight == {"CheckCanonical", "CheckAdmission"}
Publication == {"Canonical", "Admission"}
Active == Preflight \union Publication \union {"Rollback"}
Ended == {"Ok", "Failed", "RollbackFailed", "Crashed"}

\* Mutant: the admission record is published first.
AfterAdmissionFirst ==
  [CheckCanonical |-> "CheckAdmission", CheckAdmission |-> "Admission",
   Admission |-> "Canonical", Canonical |-> "Ok"]

\* The order of the call: both conflicts are looked for before anything is
\* published, and the canonical record goes first.
After ==
  [CheckCanonical |-> "CheckAdmission", CheckAdmission |-> "Canonical",
   Canonical |-> "Admission", Admission |-> "Ok"]

OnCanonical(j) == phase[j] \in {"CheckCanonical", "Canonical", "Rollback"}

File(j) == IF OnCanonical(j) THEN Canonical ELSE Target[j]

Content(j) == IF OnCanonical(j) THEN Bundle[j].canonical ELSE Bundle[j].admission

\* A job that has taken its first step and has not ended.
Running(j) ==
  /\ phase[j] \in Active
  /\ <<phase[j], at[j]>> # <<"CheckCanonical", "Look">>

TypeOK ==
  /\ file \in [Path -> Payload \union {None}]
  /\ phase \in [Job -> Active \union Ended]
  /\ at \in [Job -> {"Look", "Compare", "Link"}]
  /\ created \in [Job -> BOOLEAN]
  /\ overlapped \in BOOLEAN

Init ==
  /\ file = [p \in Path |-> None]
  /\ phase = [j \in Job |-> "CheckCanonical"]
  /\ at = [j \in Job |-> "Look"]
  /\ created = [j \in Job |-> FALSE]
  /\ overlapped = FALSE

--------------------------------------------------------------------------------

Goto(j, next, place) ==
  /\ phase' = [phase EXCEPT ![j] = next]
  /\ at' = [at EXCEPT ![j] = place]

Proceed(j) == Goto(j, After[phase[j]], "Look")

\* Mutant: an error of the admission record ends the call like any other.
FailNoRollback(j) == Goto(j, "Failed", "Look")

\* An error of the admission record withdraws the canonical record, if this
\* call created it.
Fail(j) ==
  IF phase[j] = "Admission" /\ created[j]
  THEN Goto(j, "Rollback", "Compare")
  ELSE Goto(j, "Failed", "Look")

\* path.is_file(): a record that is there is compared, a free name passes the
\* preflight or is written.
Look(j) ==
  /\ phase[j] \in Preflight \union Publication
  /\ at[j] = "Look"
  /\ \/ file[File(j)] # None /\ Goto(j, phase[j], "Compare")
     \/ file[File(j)] = None /\ phase[j] \in Preflight /\ Proceed(j)
     \/ file[File(j)] = None /\ phase[j] \in Publication /\ Goto(j, phase[j], "Link")
  /\ UNCHANGED <<file, created>>

\* The record is read: the same content will do, any other is a conflict, and
\* one that has been withdrawn meanwhile is an I/O error.
Compare(j) ==
  /\ phase[j] \in Preflight \union Publication
  /\ at[j] = "Compare"
  /\ IF file[File(j)] = Content(j) THEN Proceed(j) ELSE Fail(j)
  /\ UNCHANGED <<file, created>>

\* persist_noclobber: the name is taken, or somebody else took it since Look.
Link(j) ==
  /\ phase[j] \in Publication
  /\ at[j] = "Link"
  /\ \/ /\ file[File(j)] = None
        /\ file' = [file EXCEPT ![File(j)] = Content(j)]
        /\ created' = [created EXCEPT ![j] = IF phase[j] = "Canonical" THEN TRUE ELSE @]
        /\ Proceed(j)
     \/ /\ file[File(j)] # None
        /\ Goto(j, phase[j], "Compare")
        /\ UNCHANGED <<file, created>>

\* An I/O error (no space, no permission) at any step before the end.
IoError(j) ==
  /\ phase[j] \in Preflight \union Publication
  /\ Fail(j)
  /\ UNCHANGED <<file, created>>

\* rollback_exact: the record is read once more before it is removed.
RollbackCompare(j) ==
  /\ phase[j] = "Rollback"
  /\ at[j] = "Compare"
  /\ IF file[Canonical] = Bundle[j].canonical
     THEN Goto(j, "Rollback", "Link")
     ELSE Goto(j, "RollbackFailed", "Look")
  /\ UNCHANGED <<file, created>>

\* The removal takes away what has the name now.
RollbackRemove(j) ==
  /\ phase[j] = "Rollback"
  /\ at[j] = "Link"
  /\ file' = [file EXCEPT ![Canonical] = None]
  /\ Goto(j, "Failed", "Look")
  /\ UNCHANGED created

RollbackError(j) ==
  /\ phase[j] = "Rollback"
  /\ Goto(j, "RollbackFailed", "Look")
  /\ UNCHANGED <<file, created>>

\* The process is killed.
Crash(j) ==
  /\ Running(j)
  /\ Goto(j, "Crashed", "Look")
  /\ UNCHANGED <<file, created>>

Step(j) ==
  \/ Look(j)
  \/ Compare(j)
  \/ Link(j)
  \/ IoError(j)
  \/ RollbackCompare(j)
  \/ RollbackRemove(j)
  \/ RollbackError(j)
  \/ Crash(j)

Next ==
  \E j \in Job :
    /\ Step(j)
    /\ overlapped' = IF \E k \in Job \ {j} : Running(k) THEN TRUE ELSE overlapped

Spec == Init /\ [][Next]_vars

--------------------------------------------------------------------------------
(* Properties. *)

\* "without replacing its lineage record": a record changes only by coming
\* into being or by being withdrawn, whoever else looked at the free name.
NeverReplaced ==
  [][\A p \in Path : file'[p] # file[p] => file[p] = None \/ file'[p] = None]_vars

\* As long as the call that created the canonical record has not withdrawn it
\* itself, the record is there with that call's content: the second look of
\* rollback_exact always agrees, and nobody's record is removed by another.
CreatorOwnsCanonical ==
  \A j \in Job :
    created[j] /\ phase[j] # "Failed" => file[Canonical] = Bundle[j].canonical

\* "that exact new record is removed so an unadmitted lineage is not exposed
\* as canonical state": when all calls have ended, none of them by a crash or a
\* failed removal, a canonical record is there only if a call that published
\* that same content was admitted.
UnadmittedNotExposed ==
  (\A j \in Job : ~Running(j) /\ phase[j] \notin {"Crashed", "RollbackFailed"})
    => file[Canonical] = None
       \/ \E j \in Job : phase[j] = "Ok" /\ Bundle[j].canonical = file[Canonical]

\* Both records of a call are there.
Bundled(j) ==
  /\ file[Canonical] = Bundle[j].canonical
  /\ file[Target[j]] = Bundle[j].admission

\* "Register the canonical and admission records for one successor as a
\* checked bundle": as long as calls have not overlapped, whatever errors and
\* kills they met, both records of a call that succeeded are there.
BundleKept == ~overlapped => \A j \in Job : phase[j] = "Ok" => Bundled(j)

\* What a reader sees of the lineage.
lineage ==
  IF file[Canonical] = None THEN "Absent"
  ELSE IF \A p \in Path \ {Canonical} : file[p] = None THEN "Provisional"
  ELSE "Admitted"

Record == INSTANCE SuccessorRecord WITH contended <- overlapped

\* The two files, published one after the other, implement the life of a
\* lineage record, in which an admitted lineage is never withdrawn.
ImplementsRecord == Record!Spec

================================================================================
