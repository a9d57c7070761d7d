--------------------------- MODULE DeploymentSnapshot ---------------------------
(***************************************************************************)
(* The publication of a deployment snapshot: publish_deployment_snapshot   *)
(* of lmml-substrate.  The inputs are hashed, copied to a directory of the *)
(* publisher's own, checked there, and renamed to a directory whose name   *)
(* is the hash of the inputs.  Publishers run at the same time, fail and   *)
(* are killed, inputs are edited while they are copied, and published      *)
(* files may be damaged.                                                   *)
(***************************************************************************)
EXTENDS Naturals

CONSTANTS
  Publisher,  \* the processes that publish
  Bytes,      \* contents of a file
  NoBytes,    \* no file
  MaxInputEdits,   \* how often an input is edited (a bound)
  MaxDamages  \* how often a published file is damaged (a bound)

ASSUME SnapshotAssumption ==
  NoBytes \notin Bytes /\ MaxInputEdits \in Nat /\ MaxDamages \in Nat

\* The relative paths of a snapshot, in the order in which they are copied.
Part == 1 .. 2

Content == [Part -> Bytes]
Tree == [Part -> Bytes \union {NoBytes}]

VARIABLES
  input,     \* the files to publish
  published, \* for each identity, the files of the directory with that name
  visible,   \* the identities whose directory exists
  publisher, \* for each publisher, what it is doing
  inputEdits, damages,
  damaged,   \* the identities of which a published file was ever damaged
  unsteady   \* the publishers that were comparing such a directory meanwhile

snapshotVars ==
  <<input, published, visible, publisher, inputEdits, damages, damaged, unsteady>>

--------------------------------------------------------------------------------

NoTree == [p \in Part |-> NoBytes]
NoPublication == [step |-> "idle", place |-> 1, identity |-> NoTree, copied |-> NoTree]

Publication ==
  [step : {"idle", "hash", "lookup", "verify", "copy", "rename"}, place : Part,
   identity : Tree, copied : Tree]

\* The type invariant; past the hashes, an identity is complete.
SnapshotTypeOK ==
  /\ input \in Tree
  /\ published \in [Content -> Tree]
  /\ visible \subseteq Content
  /\ publisher \in [Publisher -> Publication]
  /\ \A k \in Publisher :
       publisher[k].step \notin {"idle", "hash"} => publisher[k].identity \in Content
  /\ inputEdits \in 0 .. MaxInputEdits /\ damages \in 0 .. MaxDamages
  /\ damaged \subseteq Content /\ unsteady \subseteq Publisher

SnapshotInit ==
  /\ input \in Content
  /\ published = [c \in Content |-> NoTree]
  /\ visible = {}
  /\ publisher = [k \in Publisher |-> NoPublication]
  /\ inputEdits = 0 /\ damages = 0
  /\ damaged = {} /\ unsteady = {}

--------------------------------------------------------------------------------

\* The call of k is over; a directory of its own that it leaves is removed by
\* the next call that needs its name.
Leave(k) ==
  /\ publisher' = [publisher EXCEPT ![k] = NoPublication]
  /\ unsteady' = unsteady \ {k}

Unpublished == UNCHANGED <<published, visible, damages, damaged>>

BeginPublish(k) ==
  /\ publisher[k].step = "idle"
  /\ publisher' = [publisher EXCEPT ![k].step = "hash"]
  /\ Unpublished /\ UNCHANGED <<input, inputEdits, unsteady>>

\* To the next part, or to step t after the last one.
Onward(k, t, entry) ==
  LET q == publisher[k] IN
    publisher' = [publisher EXCEPT ![k] =
                    IF q.place + 1 \in Part
                    THEN [entry EXCEPT !.place = q.place + 1]
                    ELSE [entry EXCEPT !.place = 1, !.step = t]]

\* One input after another is hashed: the hashes are the identity.
HashInput(k) ==
  LET q == publisher[k] IN
    /\ q.step = "hash"
    /\ input[q.place] # NoBytes
    /\ Onward(k, "lookup", [q EXCEPT !.identity[q.place] = input[q.place]])
    /\ Unpublished /\ UNCHANGED <<input, inputEdits, unsteady>>

\* A directory of that name is compared, or one is prepared.
LookUp(k) ==
  LET q == publisher[k] IN
    /\ q.step = "lookup"
    /\ publisher' = [publisher EXCEPT ![k].step =
                       IF q.identity \in visible THEN "verify" ELSE "copy"]
    /\ Unpublished /\ UNCHANGED <<input, inputEdits, unsteady>>

\* Mutant: a published file is not compared.
SameAsPublishedAlways(k) == TRUE

\* verify_snapshot, of one file.
SameAsPublished(k) ==
  LET q == publisher[k] IN published[q.identity][q.place] = q.identity[q.place]

VerifyPublished(k) ==
  LET q == publisher[k] IN
    /\ q.step = "verify"
    /\ q.place = 1
    /\ SameAsPublished(k)
    /\ publisher' = [publisher EXCEPT ![k].place = 2]
    /\ Unpublished /\ UNCHANGED <<input, inputEdits, unsteady>>

\* The last file is compared: the snapshot was published already.
FindPublished(k) ==
  LET q == publisher[k] IN
    /\ q.step = "verify"
    /\ q.place = 2
    /\ SameAsPublished(k)
    /\ Leave(k)
    /\ Unpublished /\ UNCHANGED <<input, inputEdits>>

\* Mutant: the copy is not checked against the hash.
CopiedAsHashedAlways(k) == TRUE

\* The copy is what was hashed.
CopiedAsHashed(k) ==
  LET q == publisher[k] IN input[q.place] = q.identity[q.place]

\* An input is copied and checked, and made read-only.
CopyInput(k) ==
  LET q == publisher[k] IN
    /\ q.step = "copy"
    /\ input[q.place] # NoBytes
    /\ CopiedAsHashed(k)
    /\ Onward(k, "rename", [q EXCEPT !.copied[q.place] = input[q.place]])
    /\ Unpublished /\ UNCHANGED <<input, inputEdits, unsteady>>

\* The directory gets its name.
PublishTree(k) ==
  LET q == publisher[k] IN
    /\ q.step = "rename"
    /\ q.identity \notin visible
    /\ published' = [published EXCEPT ![q.identity] = q.copied]
    /\ visible' = visible \union {q.identity}
    /\ Leave(k)
    /\ UNCHANGED <<input, inputEdits, damages, damaged>>

\* Another publisher was first.  That is an error of its own where the system
\* calls it a directory that is not empty.
TreeTaken(k) ==
  LET q == publisher[k] IN
    /\ q.step = "rename"
    /\ q.identity \in visible
    /\ publisher' = [publisher EXCEPT ![k].step = "verify", ![k].copied = NoTree]
    /\ Unpublished /\ UNCHANGED <<input, inputEdits, unsteady>>

\* An error of any step: a file is missing, changed or not writable.
PublishFails(k) ==
  /\ publisher[k].step # "idle"
  /\ Leave(k)
  /\ Unpublished /\ UNCHANGED <<input, inputEdits>>

EditInput(p) ==
  /\ inputEdits < MaxInputEdits
  /\ inputEdits' = inputEdits + 1
  /\ \E b \in (Bytes \union {NoBytes}) \ {input[p]} : input' = [input EXCEPT ![p] = b]
  /\ Unpublished /\ UNCHANGED <<publisher, unsteady>>

\* A published file is read-only; somebody changes it nevertheless.
DamagePublished(c, p) ==
  /\ damages < MaxDamages
  /\ c \in visible
  /\ damages' = damages + 1
  /\ \E b \in (Bytes \union {NoBytes}) \ {published[c][p]} :
       published' = [published EXCEPT ![c][p] = b]
  /\ damaged' = damaged \union {c}
  /\ unsteady' = unsteady \union
       {k \in Publisher : publisher[k].step = "verify" /\ publisher[k].identity = c}
  /\ UNCHANGED <<input, visible, publisher, inputEdits>>

SnapshotStep(k) ==
  \/ BeginPublish(k)
  \/ HashInput(k)
  \/ LookUp(k)
  \/ VerifyPublished(k)
  \/ FindPublished(k)
  \/ CopyInput(k)
  \/ PublishTree(k)
  \/ TreeTaken(k)
  \/ PublishFails(k)

SnapshotNext ==
  \/ \E k \in Publisher : SnapshotStep(k)
  \/ \E p \in Part : EditInput(p)
  \/ \E c \in Content, p \in Part : DamagePublished(c, p)

SnapshotSpec == SnapshotInit /\ [][SnapshotNext]_snapshotVars

--------------------------------------------------------------------------------
(* Properties. *)

\* A directory holds what its name says from the moment it is there, whatever is
\* edited meanwhile, until somebody damages it: no half of one input set and
\* half of another, and no half of a copy.
SnapshotWhole == \A c \in visible \ damaged : published[c] = c

\* A call that succeeds leaves a directory of the right content, also if it was
\* there before and was damaged, unless it is damaged while it is compared.
PublicationHolds ==
  [][\A k \in Publisher :
       (FindPublished(k) \/ PublishTree(k)) /\ k \notin unsteady =>
         published'[publisher[k].identity] = publisher[k].identity]_snapshotVars

(* What is published is a whole snapshot. *)
SnapshotInv == SnapshotTypeOK /\ SnapshotWhole

================================================================================
