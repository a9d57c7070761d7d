---------------------------- MODULE MCTrustRotation ----------------------------
(* Small instances of TrustRotation for TLC. *)
EXTENDS TrustRotation

CONSTANTS c1, c2, c3, c4   \* calls

MCRotationPath == {"root", "other root", "migration", "key"}

MCKeyPath == [c \in Command |-> "key"]

\* Two calls for the same files; the others have a root file of their own.
MCRootPath ==
  [c \in Call |-> IF c \in {c1, c2} THEN "root" ELSE "other root"]
MCMigrationPath == [c \in Call |-> "migration"]

\* Every call brings a root of its own, as the command does, or all the same
\* one.  The migrations differ at least in the time they were signed.
MCFresh == [c \in Call |-> c]

\* A caller of the library sets the next epoch.
MCNewEpoch == [c \in Call |-> 2]

================================================================================
