----------------------------- MODULE CheckpointImport -----------------------------
(***************************************************************************)
(* The import of a Safetensors checkpoint into a manifest, and the         *)
(* verification of a checkpoint against its manifest: lib.rs and           *)
(* storage.rs of lmml-substrate with the `model import` and `model verify` *)
(* commands.  A checkpoint is a directory of several files which the       *)
(* commands read one at a time, headers and hashes apart, while somebody   *)
(* may edit them.  A hash is the content it is taken of.                   *)
(***************************************************************************)
EXTENDS Integers, FiniteSets

CONSTANTS
  Importer,  \* the running commands
  Tensor,    \* tensor names, naturals in their order
  Shard,     \* shard file names, naturals in their order
  ShardBody, \* contents of a shard file, see BodyOK
  Map,       \* the tensor-to-shard maps an index may hold
  Asset,     \* contents of the tokenizer files
  MaxCheckpointEdits, \* how often the checkpoint is edited (a bound)
  MaxManifestEdits    \* how often the manifest is edited (a bound)

\* A shard file: where each tensor of its header lies in the payload, the bytes
\* its shape and type ask for, the length of the payload, and the weights.
Region == [start : Nat, stop : Nat, size : Nat]
BodyOK(b) ==
  /\ DOMAIN b = {"header", "length", "weights"}
  /\ DOMAIN b.header \subseteq Tensor /\ IsFiniteSet(DOMAIN b.header)
  /\ \A t \in DOMAIN b.header : b.header[t] \in Region
  /\ b.length \in Nat

ASSUME CheckpointAssumption ==
  /\ Tensor \subseteq Nat /\ Shard \subseteq Nat /\ IsFiniteSet(Shard) /\ Shard # {}
  /\ \A b \in ShardBody : BodyOK(b)
  /\ \A f \in Map : DOMAIN f \subseteq Tensor /\ \A t \in DOMAIN f : f[t] \in Shard
  /\ MaxCheckpointEdits \in Nat /\ MaxManifestEdits \in Nat

NoShardFile == [header |-> <<>>, length |-> 0, weights |-> "no file"]
NoMap == [given |-> FALSE, of |-> <<>>]
Index == [given : {TRUE}, of : Map] \union {NoMap}

VARIABLES
  checkpoint, \* the files of the directory
  manifests,  \* the manifest registered for the lineage with its seal, {} or one
  importer,   \* for each command, what it is doing
  checkpointEdits, manifestEdits,
  disturbed   \* the commands during which the checkpoint was edited

checkpointVars ==
  <<checkpoint, manifests, importer, checkpointEdits, manifestEdits, disturbed>>

Checkpoint ==
  [config : {"object", "other"}, index : Index,
   files : [Shard -> ShardBody \union {NoShardFile}], assets : SUBSET Asset]

NoReading ==
  [step |-> "idle", command |-> "none", index |-> NoMap, left |-> {}, shards |-> <<>>,
   tensors |-> <<>>, assets |-> {}, expected |-> {}]

--------------------------------------------------------------------------------
(* The checks of one shard file.                                           *)

\* The tensors are sorted by their start; the sort keeps the order of the names.
Precedes(b, s, t) ==
  \/ b.header[s].start < b.header[t].start
  \/ b.header[s].start = b.header[t].start /\ s < t

\* Where the walk over the sorted tensors is once it has passed those of a set.
Cursor(b, passed) ==
  IF passed = {} THEN 0
  ELSE b.header[CHOOSE t \in passed : \A o \in passed \ {t} : Precedes(b, o, t)].stop

\* validate_tensor_layout: each tensor starts where the one before it stopped.
LayoutHolds(b) ==
  /\ \A t \in DOMAIN b.header :
       LET r == b.header[t]
       IN /\ r.start = Cursor(b, {s \in DOMAIN b.header : Precedes(b, s, t)})
          /\ r.start <= r.stop /\ r.stop - r.start = r.size
  /\ Cursor(b, DOMAIN b.header) = b.length

HeaderReads(b) == b # NoShardFile /\ DOMAIN b.header # {} /\ LayoutHolds(b)

\* What the layout is for: every byte of the payload belongs to one tensor.
Tiles(b) ==
  /\ \A t \in DOMAIN b.header :
       LET r == b.header[t]
       IN r.start <= r.stop /\ r.stop <= b.length /\ r.stop - r.start = r.size
  /\ \A byte \in 0 .. b.length - 1 :
       Cardinality({t \in DOMAIN b.header :
                      b.header[t].start <= byte /\ byte < b.header[t].stop}) = 1

HasEmptyTensor(b) == \E t \in DOMAIN b.header : b.header[t].size = 0

--------------------------------------------------------------------------------
(* What a manifest says of a checkpoint.                                   *)

Present(c) == {s \in Shard : c.files[s] # NoShardFile}
Referenced(index, present) ==
  IF index.given THEN {index.of[t] : t \in DOMAIN index.of} ELSE present

\* A checkpoint that can be imported, said of the directory as a whole.
WellFormed(c) ==
  /\ c.config = "object" /\ c.assets # {} /\ Present(c) # {}
  /\ \A s \in Present(c) : DOMAIN c.files[s].header # {} /\ Tiles(c.files[s])
  /\ \A s, o \in Present(c) :
       s # o => DOMAIN c.files[s].header \intersect DOMAIN c.files[o].header = {}
  /\ IF c.index.given
     THEN /\ \A s \in Present(c) : \A t \in DOMAIN c.files[s].header :
               t \in DOMAIN c.index.of /\ c.index.of[t] = s
          /\ \A t \in DOMAIN c.index.of :
               c.index.of[t] \in Present(c) /\ t \in DOMAIN c.files[c.index.of[t]].header
     ELSE Cardinality(Present(c)) = 1

\* The manifest says of each tensor where it is and of each file what is in it.
Describes(m, c) ==
  /\ m.index = c.index /\ m.assets = c.assets
  /\ DOMAIN m.shards = Present(c)
  /\ \A s \in Present(c) : m.shards[s] = c.files[s]
  /\ DOMAIN m.tensors = UNION {DOMAIN c.files[s].header : s \in Present(c)}
  /\ \A t \in DOMAIN m.tensors :
       LET s == m.tensors[t].shard
       IN /\ s \in Present(c) /\ t \in DOMAIN c.files[s].header
          /\ m.tensors[t].size = c.files[s].header[t].size

ManifestOf(r) ==
  [index |-> r.index, shards |-> r.shards, tensors |-> r.tensors, assets |-> r.assets]

\* validate_substrate_manifest: complete, every tensor of a shard that is listed,
\* and the seal is the hash of the rest.  (Names and counts that contradict each
\* other are an edit the seal shows, too.)
ManifestValid(stored) ==
  LET m == stored.manifest
  IN /\ DOMAIN m.shards # {} /\ DOMAIN m.tensors # {} /\ m.assets # {}
     /\ \A t \in DOMAIN m.tensors : m.tensors[t].shard \in DOMAIN m.shards
     /\ stored.seal = m

Sealed(m) == [manifest |-> m, seal |-> m]

--------------------------------------------------------------------------------

ImportTypeOK ==
  /\ checkpoint \in Checkpoint
  /\ Cardinality(manifests) <= 1
  /\ \A stored \in manifests :
       /\ DOMAIN stored.seal.shards \subseteq Shard
       /\ DOMAIN stored.seal.tensors \subseteq Tensor
       /\ manifestEdits = 0 => ManifestValid(stored)
  /\ \A k \in Importer :
       /\ importer[k].step \in
            {"idle", "config", "index", "list", "header", "hash", "seal", "register",
             "compare", "verified", "refused", "unread"}
       /\ importer[k].left \subseteq Shard
  /\ checkpointEdits \in 0 .. MaxCheckpointEdits
  /\ manifestEdits \in 0 .. MaxManifestEdits
  /\ disturbed \subseteq Importer

ImportInit ==
  /\ checkpoint \in Checkpoint
  /\ manifests = {}
  /\ importer = [k \in Importer |-> NoReading]
  /\ checkpointEdits = 0 /\ manifestEdits = 0 /\ disturbed = {}

Read(k, step) == importer[k].step = step
Become(k, reading) == importer' = [importer EXCEPT ![k] = reading]
Unedited == UNCHANGED <<checkpoint, checkpointEdits, manifestEdits>>
Quiet == Unedited /\ UNCHANGED <<manifests, disturbed>>
Refuse(k) ==
  Become(k, [NoReading EXCEPT !.step = "refused", !.command = importer[k].command,
                              !.expected = importer[k].expected])

BeginImport(k) ==
  /\ Read(k, "idle")
  /\ Become(k, [NoReading EXCEPT !.step = "config", !.command = "import"])
  /\ disturbed' = disturbed \ {k}
  /\ Unedited /\ UNCHANGED manifests

\* read_substrate_manifest: `model verify` reads a manifest first; `model inspect`
\* and `model lineage` do no more.
BeginVerify(k) ==
  /\ Read(k, "idle")
  /\ \E stored \in manifests :
       IF ManifestValid(stored)
       THEN Become(k, [NoReading EXCEPT !.step = "config", !.command = "verify",
                                        !.expected = {stored.manifest}])
       ELSE Become(k, [NoReading EXCEPT !.step = "unread", !.command = "verify"])
  /\ disturbed' = disturbed \ {k}
  /\ Unedited /\ UNCHANGED manifests

ReadConfig(k) ==
  /\ Read(k, "config")
  /\ IF checkpoint.config = "object"
     THEN Become(k, [importer[k] EXCEPT !.step = "index"])
     ELSE Refuse(k)
  /\ Quiet

ReadIndex(k) ==
  /\ Read(k, "index")
  /\ Become(k, [importer[k] EXCEPT !.step = "list", !.index = checkpoint.index])
  /\ Quiet

\* The shards in the directory are those of the index, or the only one.
ListShards(k) ==
  LET present == Present(checkpoint)
  IN /\ Read(k, "list")
     /\ IF /\ Referenced(importer[k].index, present) = present
           /\ importer[k].index.given \/ Cardinality(present) = 1
        THEN Become(k, [importer[k] EXCEPT
                          !.step = IF present = {} THEN "seal" ELSE "header",
                          !.left = present])
        ELSE Refuse(k)
     /\ Quiet

Current(k) == CHOOSE s \in importer[k].left : \A o \in importer[k].left : s <= o

\* The header of the next shard: its layout, the index, and no tensor twice.
ReadHeader(k) ==
  LET r == importer[k]
      s == Current(k)
      b == checkpoint.files[s]
      names == DOMAIN b.header
  IN /\ Read(k, "header")
     /\ IF /\ HeaderReads(b)
           /\ r.index.given =>
                \A t \in names : t \in DOMAIN r.index.of /\ r.index.of[t] = s
           /\ names \intersect DOMAIN r.tensors = {}
        THEN Become(k, [r EXCEPT
               !.step = "hash",
               !.tensors = [t \in names \union DOMAIN r.tensors |->
                  IF t \in names THEN [shard |-> s, size |-> b.header[t].size]
                                 ELSE r.tensors[t]]])
        ELSE Refuse(k)
     /\ Quiet

\* The same file is read again for its size and its hash.
HashShard(k) ==
  LET r == importer[k]
      s == Current(k)
      b == checkpoint.files[s]
  IN /\ Read(k, "hash")
     /\ IF b = NoShardFile THEN Refuse(k)
        ELSE Become(k, [r EXCEPT
               !.step = IF r.left = {s} THEN "seal" ELSE "header",
               !.left = @ \ {s},
               !.shards = [o \in DOMAIN r.shards \union {s} |->
                             IF o = s THEN b ELSE r.shards[o]]])
     /\ Quiet

\* Mutant: a checkpoint without a tokenizer is sealed.
SealAny(k) ==
  /\ Read(k, "seal")
  /\ Become(k, [importer[k] EXCEPT
       !.step = IF importer[k].command = "import" THEN "register" ELSE "compare",
       !.assets = checkpoint.assets])
  /\ Quiet

\* The index names no tensor that no shard has; the tokenizer is hashed; the
\* manifest is checked and sealed.
Seal(k) ==
  LET r == importer[k]
  IN /\ Read(k, "seal")
     /\ IF /\ r.index.given => DOMAIN r.index.of = DOMAIN r.tensors
           /\ checkpoint.assets # {}
           /\ DOMAIN r.shards # {} /\ DOMAIN r.tensors # {}
        THEN Become(k, [r EXCEPT
               !.step = IF r.command = "import" THEN "register" ELSE "compare",
               !.assets = checkpoint.assets])
        ELSE Refuse(k)
     /\ Quiet

\* An existing manifest of the lineage stays; the same one may come again.
Register(k) ==
  LET m == ManifestOf(importer[k])
  IN /\ Read(k, "register")
     /\ IF manifests \subseteq {Sealed(m)}
        THEN /\ manifests' = {Sealed(m)}
             /\ Become(k, NoReading)
        ELSE Refuse(k) /\ UNCHANGED manifests
     /\ Unedited /\ UNCHANGED disturbed

\* verify_safetensors: the manifest of the files as they are now is the same.
CompareManifest(k) ==
  /\ Read(k, "compare")
  /\ Become(k, [importer[k] EXCEPT
       !.step = IF importer[k].expected = {ManifestOf(importer[k])} THEN "verified" ELSE "refused"])
  /\ Quiet

\* The verdict is printed.
Report(k) ==
  /\ importer[k].step \in {"verified", "refused", "unread"}
  /\ Become(k, NoReading)
  /\ Quiet

ImportStep(k) ==
  \/ BeginImport(k) \/ BeginVerify(k)
  \/ ReadConfig(k) \/ ReadIndex(k) \/ ListShards(k) \/ ReadHeader(k) \/ HashShard(k)
  \/ Seal(k) \/ Register(k) \/ CompareManifest(k) \/ Report(k)

\* Somebody replaces one file.
EditCheckpoint ==
  /\ checkpointEdits < MaxCheckpointEdits
  /\ \/ \E s \in Shard, b \in ShardBody \union {NoShardFile} :
          checkpoint' = [checkpoint EXCEPT !.files[s] = b]
     \/ \E i \in Index : checkpoint' = [checkpoint EXCEPT !.index = i]
     \/ \E a \in SUBSET Asset : checkpoint' = [checkpoint EXCEPT !.assets = a]
  /\ checkpoint' # checkpoint
  /\ checkpointEdits' = checkpointEdits + 1
  /\ disturbed' = {k \in Importer : ~Read(k, "idle")}
  /\ UNCHANGED <<manifests, importer, manifestEdits>>

\* Somebody edits the manifest, with or without its seal.
EditManifest ==
  /\ manifestEdits < MaxManifestEdits
  /\ \E stored \in manifests : \E m \in
       {[stored.manifest EXCEPT !.shards[s] = b] : s \in DOMAIN stored.manifest.shards,
                                                   b \in ShardBody}
       \union {[stored.manifest EXCEPT !.tensors = <<>>]} :
       \E seal \in {stored.seal, m} :
         manifests' = {[manifest |-> m, seal |-> seal]}
  /\ manifests' # manifests
  /\ manifestEdits' = manifestEdits + 1
  /\ UNCHANGED <<checkpoint, importer, checkpointEdits, disturbed>>

ImportNext == EditCheckpoint \/ EditManifest \/ \E k \in Importer : ImportStep(k)

ImportSpec == ImportInit /\ [][ImportNext]_checkpointVars

--------------------------------------------------------------------------------

\* import_safetensors_with_parent, checked against a definition that does not
\* sort and does not walk: an import during which nothing was edited ends with a
\* manifest that describes the checkpoint, and is refused for a checkpoint that
\* is not well formed, or has an empty tensor (whose place the sort may miss).
ImportAgrees ==
  \A k \in Importer \ disturbed :
    /\ importer[k].step \in {"register", "compare"} =>
         WellFormed(checkpoint) /\ Describes(ManifestOf(importer[k]), checkpoint)
    /\ importer[k].step = "refused" /\ importer[k].command = "import" /\ manifests = {} =>
         \/ ~WellFormed(checkpoint)
         \/ \E s \in Present(checkpoint) : HasEmptyTensor(checkpoint.files[s])

\* verify_safetensors: a manifest whose import read the files while they were
\* replaced, so that headers and hashes are of different files, is not accepted
\* afterwards, and neither is one that was edited: a verification that nothing
\* disturbs passes exactly when the manifest describes the checkpoint.
VerdictIsRight ==
  \A k \in Importer \ disturbed :
    /\ importer[k].step = "verified" =>
         \A m \in importer[k].expected : Describes(m, checkpoint)
    /\ importer[k].step = "refused" /\ importer[k].command = "verify" =>
         \/ ~WellFormed(checkpoint)
         \/ \E s \in Present(checkpoint) : HasEmptyTensor(checkpoint.files[s])
         \/ \A m \in importer[k].expected : ~Describes(m, checkpoint)

\* A manifest that is registered is of the checkpoint, and a verdict is right.
ImportInv == ImportTypeOK /\ ImportAgrees /\ VerdictIsRight

================================================================================
