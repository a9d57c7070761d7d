----------------------------- MODULE TrustRotation -----------------------------
(***************************************************************************)
(* The rotation of the approval trust root: the command                    *)
(* `model rotate-approval-trust-root` and store_trust_root_rotation of     *)
(* lmml-substrate, which publishes the replacement root and the migration  *)
(* that the old key signed.  A published file is opened with create_new    *)
(* and then written.  Calls may overlap, fail at any step and be killed.   *)
(***************************************************************************)
EXTENDS Naturals

CONSTANTS
  Call,          \* the calls of store_trust_root_rotation
  Command,       \* those of them made by the command
  RotationPath,  \* the output files
  KeyPath,       \* for each command, where it writes the new private key
  RootPath,      \* for each call, where the replacement root goes
  MigrationPath, \* for each call, where the migration goes
  NewRoot,       \* for each call, the replacement root
  Migration,     \* for each call, the signed migration
  NewEpoch,      \* for each call of the library, the key epoch it asks for
  OldEpoch,      \* the key epoch of the pinned root
  NoCall         \* no file

ASSUME CallAssumption == Command \subseteq Call

ASSUME RotationPathAssumption ==
  /\ KeyPath \in [Command -> RotationPath]
  /\ RootPath \in [Call -> RotationPath]
  /\ MigrationPath \in [Call -> RotationPath]
  /\ \A c, d \in Call : RootPath[c] # MigrationPath[d]

ASSUME EpochAssumption == NewEpoch \in [Call -> Nat \ {0}] /\ OldEpoch \in Nat \ {0}

ASSUME NoneAssumption == NoCall \notin Call

VARIABLES
  creator,       \* the call that created each file, or NoCall
  wholeFiles,    \* the roots and migrations that are completely written
  rotationPhase, \* what each call is doing, or how it ended
  rotationAt     \* within "Root" and "Migration": "Create", "Compare", "Write"

rotationVars == <<creator, wholeFiles, rotationPhase, rotationAt>>

--------------------------------------------------------------------------------

RotationActive == {"Key", "Verify", "Root", "Migration", "RemoveRoot", "Protect"}
RotationEnded == {"Rotated", "KeyFailed", "NotAdvancing", "Failed", "RootLeft", "Crashed"}

First(c) == IF c \in Command THEN "Key" ELSE "Verify"

RotationRunning(c) == rotationPhase[c] \in RotationActive \ {First(c)}

\* The file at work, and whether it holds what call c publishes there.
Out(c) == IF rotationPhase[c] = "Root" THEN RootPath[c] ELSE MigrationPath[c]

HasRoot(c) ==
  /\ RootPath[c] \in wholeFiles
  /\ NewRoot[creator[RootPath[c]]] = NewRoot[c]

HasMigration(c) ==
  /\ MigrationPath[c] \in wholeFiles
  /\ Migration[creator[MigrationPath[c]]] = Migration[c]

\* The type invariant: a written file exists, and a call is in the middle of a
\* publication only while it publishes.
RotationTypeOK ==
  /\ creator \in [RotationPath -> Call \union {NoCall}]
  /\ wholeFiles \subseteq {p \in RotationPath : creator[p] # NoCall}
  /\ rotationPhase \in [Call -> RotationActive \union RotationEnded]
  /\ rotationAt \in [Call -> {"Create", "Compare", "Write"}]
  /\ \A c \in Call : rotationAt[c] # "Create" => rotationPhase[c] \in {"Root", "Migration"}

RotationInit ==
  /\ creator = [p \in RotationPath |-> NoCall]
  /\ wholeFiles = {}
  /\ rotationPhase = [c \in Call |-> First(c)]
  /\ rotationAt = [c \in Call |-> "Create"]

--------------------------------------------------------------------------------

RotationGoto(c, next, place) ==
  /\ rotationPhase' = [rotationPhase EXCEPT ![c] = next]
  /\ rotationAt' = [rotationAt EXCEPT ![c] = place]

\* write_private_key: the key of the generated root, never over another file.
\* How far a key is written is not followed.
WriteKey(c) ==
  /\ rotationPhase[c] = "Key"
  /\ \/ /\ creator[KeyPath[c]] = NoCall
        /\ creator' = [creator EXCEPT ![KeyPath[c]] = c]
        /\ \E next \in {"Verify", "KeyFailed"} : RotationGoto(c, next, "Create")
     \/ /\ RotationGoto(c, "KeyFailed", "Create")
        /\ UNCHANGED creator
  /\ UNCHANGED wholeFiles

\* The root that generate_approval_trust_root makes has key epoch 1.
KeyEpoch(c) == IF c \in Command THEN 1 ELSE NewEpoch[c]

\* The migration is signed by the pinned key; its root has to be newer.
Verify(c) ==
  /\ rotationPhase[c] = "Verify"
  /\ IF KeyEpoch(c) > OldEpoch
     THEN RotationGoto(c, "Root", "Create")
     ELSE RotationGoto(c, "NotAdvancing", "Create")
  /\ UNCHANGED <<creator, wholeFiles>>

RotationProceed(c) == RotationGoto(c, IF rotationPhase[c] = "Root" THEN "Migration" ELSE "Protect", "Create")

\* An error of the migration removes the root, whoever published it.
RotationFail(c) == RotationGoto(c, IF rotationPhase[c] = "Migration" THEN "RemoveRoot" ELSE "Failed", "Create")

\* persist_immutable: create_new succeeds, or the file is there already.
Create(c) ==
  /\ rotationPhase[c] \in {"Root", "Migration"}
  /\ rotationAt[c] = "Create"
  /\ IF creator[Out(c)] = NoCall
     THEN creator' = [creator EXCEPT ![Out(c)] = c] /\ RotationGoto(c, rotationPhase[c], "Write")
     ELSE RotationGoto(c, rotationPhase[c], "Compare") /\ UNCHANGED creator
  /\ UNCHANGED wholeFiles

\* The bytes go into the created file, whether or not it still has its name.
Write(c) ==
  /\ rotationPhase[c] \in {"Root", "Migration"}
  /\ rotationAt[c] = "Write"
  /\ wholeFiles' = IF creator[Out(c)] = c THEN wholeFiles \union {Out(c)} ELSE wholeFiles
  /\ RotationProceed(c)
  /\ UNCHANGED creator

\* Mutant: a file that is there already will do.
CompareSkipped(c) ==
  /\ rotationPhase[c] \in {"Root", "Migration"}
  /\ rotationAt[c] = "Compare"
  /\ RotationProceed(c)
  /\ UNCHANGED <<creator, wholeFiles>>

\* Only the complete same content will do; a torn file is a conflict.
RotationCompare(c) ==
  /\ rotationPhase[c] \in {"Root", "Migration"}
  /\ rotationAt[c] = "Compare"
  /\ IF (IF rotationPhase[c] = "Root" THEN HasRoot(c) ELSE HasMigration(c))
     THEN RotationProceed(c)
     ELSE RotationFail(c)
  /\ UNCHANGED <<creator, wholeFiles>>

RotationIoError(c) ==
  /\ rotationPhase[c] \in {"Root", "Migration"}
  /\ RotationFail(c)
  /\ UNCHANGED <<creator, wholeFiles>>

\* The removal of the root; its own error is ignored.
RemoveRoot(c) ==
  /\ rotationPhase[c] = "RemoveRoot"
  /\ \/ /\ creator' = [creator EXCEPT ![RootPath[c]] = NoCall]
        /\ wholeFiles' = wholeFiles \ {RootPath[c]}
        /\ RotationGoto(c, "Failed", "Create")
     \/ /\ RotationGoto(c, "RootLeft", "Create")
        /\ UNCHANGED <<creator, wholeFiles>>

\* protect_file on both; an error leaves them in place.
RotationProtect(c) ==
  /\ rotationPhase[c] = "Protect"
  /\ \E end \in {"Rotated", "RootLeft"} : RotationGoto(c, end, "Create")
  /\ UNCHANGED <<creator, wholeFiles>>

RotationCrash(c) ==
  /\ RotationRunning(c)
  /\ RotationGoto(c, "Crashed", "Create")
  /\ UNCHANGED <<creator, wholeFiles>>

RotationStep(c) ==
  \/ c \in Command /\ WriteKey(c)
  \/ Verify(c)
  \/ Create(c)
  \/ Write(c)
  \/ RotationCompare(c)
  \/ RotationIoError(c)
  \/ RemoveRoot(c)
  \/ RotationProtect(c)
  \/ RotationCrash(c)

RotationNext == \E c \in Call : RotationStep(c)

RotationSpec == RotationInit /\ [][RotationNext]_rotationVars

--------------------------------------------------------------------------------
(* Properties. *)

\* After a rotation succeeded its root and its migration are both there,
\* complete, and stay there.
RotatedKept ==
  \A c \in Call : rotationPhase[c] = "Rotated" => HasRoot(c) /\ HasMigration(c)

\* When all calls have ended, none of them by a crash or with the root left
\* behind, a complete replacement root is there only if it was rotated to.
NoOrphanRoot ==
  (\A c \in Call : rotationPhase[c] \notin RotationActive \union {"Crashed", "RootLeft"}) =>
    \A c \in Call :
      HasRoot(c) => \E d \in Call : rotationPhase[d] = "Rotated" /\ RootPath[d] = RootPath[c]

\* The documented command rotates the root: it is not refused for the epoch of
\* the root that it generates itself.
CommandAdvances == \A c \in Command : rotationPhase[c] # "NotAdvancing"

\* What a rotation records stays, and no new root is without its record.
RotationInv == RotationTypeOK /\ RotatedKept /\ NoOrphanRoot

================================================================================
