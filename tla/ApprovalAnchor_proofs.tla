------------------------- MODULE ApprovalAnchor_proofs -------------------------
(***************************************************************************)
(* Proofs of the properties of ApprovalAnchor, for any writers and any     *)
(* records.  The first part holds however the calls interleave; the second *)
(* is about calls made one after the other, each of which may be killed or *)
(* fail at any step.  The last is about the rotation of the trust root.    *)
(***************************************************************************)
EXTENDS ApprovalAnchor, TrustRotation, TLAPS

\* The phases of a call whose record is completely written.
Persistent == {"ReadEpoch", "OpenTmp", "WriteTmp", "Protect", "Rename", "Stored"}

\* The phases before the call may create an inode.
Early == {"Check", "Create", "Compare", "Write", "ReadEpoch", "OpenTmp"}

Own(w) == record[Name(Work[w])] = Work[w]

RecordInv ==
  /\ \A w \in Writer : writerPhase[w] \in Persistent \union {"Write"} => Own(w)
  /\ \A w \in Writer : writerPhase[w] \in Persistent => Name(Work[w]) \in whole

AnchorInodeInv ==
  \A w \in Writer : writerPhase[w] \in Early => anchorFile # w /\ tmpFile # w

\* Only a receipt reads the epoch again.
KindInv ==
  \A w \in Writer : writerPhase[w] = "ReadEpoch" => Work[w].kind = "Receipt"

Inv == AnchorTypeOK /\ RecordInv /\ AnchorInodeInv /\ KindInv

USE DEF AnchorActive, AnchorEnded, Persistent, Early

--------------------------------------------------------------------------------

LEMMA WorkType ==
  ASSUME NEW w \in Writer
  PROVE  /\ Work[w] \in ApprovalRecord
         /\ Name(Work[w]) \in Names
         /\ Work[w].sequence \in Nat /\ Work[w].epoch \in Nat
         /\ Work[w].kind \in {"Receipt", "Revocation"}
BY WorkAssumption DEF Names, ApprovalRecord

LEMMA InitInv == AnchorInit => Inv
<1> SUFFICES ASSUME AnchorInit PROVE Inv
  OBVIOUS
<1>1. AnchorTypeOK
  BY DEF AnchorInit, AnchorTypeOK, AnchorInode, Stamp
<1>2. RecordInv /\ AnchorInodeInv /\ KindInv
  BY NoInodeAssumption DEF AnchorInit, RecordInv, AnchorInodeInv, KindInv
<1> QED BY <1>1, <1>2 DEF Inv

LEMMA TypeStep ==
  ASSUME Inv, NEW w \in Writer, AnchorStep(w), together' \in BOOLEAN PROVE AnchorTypeOK'
<1>1. /\ Work[w] \in ApprovalRecord /\ Name(Work[w]) \in Names
      /\ Work[w].sequence \in Nat /\ Work[w].epoch \in Nat
  BY WorkType
<1> USE DEF Inv, AnchorTypeOK, AnchorGoto
<1>2. CASE CheckAnchor(w)
  BY <1>2 DEF CheckAnchor
<1>3. CASE CreateRecord(w)
  BY <1>1, <1>3 DEF CreateRecord
<1>4. CASE CompareRecord(w)
  BY <1>1, <1>4 DEF CompareRecord, Persisted
<1>5. CASE WriteRecord(w)
  BY <1>1, <1>5 DEF WriteRecord, Persisted
<1>6. CASE ReadEpoch(w)
  <2>1. CASE Anchor = Empty
    BY <1>6, <2>1 DEF ReadEpoch
  <2>2. CASE Anchor # Empty
    <3>1. Anchor[1] \in Nat
      BY <2>2 DEF Anchor, Stamp
    <3> QED BY <1>6, <2>2, <3>1 DEF ReadEpoch
  <2> QED BY <2>1, <2>2
<1>7. CASE OpenTmp(w)
  <2> DEFINE i == IF tmpFile = NoInode THEN w ELSE tmpFile
  <2>1. i \in AnchorInode
    BY DEF AnchorInode
  <2> HIDE DEF i
  <2>2. /\ fd' = [fd EXCEPT ![w] = i] /\ tmpFile' = i
        /\ data' = [data EXCEPT ![i] = Empty]
    BY <1>7 DEF OpenTmp, i
  <2> QED BY <1>7, <2>1, <2>2 DEF OpenTmp
<1>8. CASE WriteTmp(w)
  <2>1. <<epoch[w], Work[w].sequence>> \in Stamp
    BY <1>1 DEF Stamp
  <2> QED BY <1>8, <2>1 DEF WriteTmp
<1>9. CASE Protect(w)
  BY <1>9 DEF Protect
<1>10. CASE Rename(w)
  BY <1>10 DEF Rename, AnchorInode
<1>11. CASE Stop(w)
  BY <1>11 DEF Stop
<1> QED
  BY <1>2, <1>3, <1>4, <1>5, <1>6, <1>7, <1>8, <1>9, <1>10, <1>11 DEF AnchorStep

LEMMA RecordStep ==
  ASSUME Inv, NEW w \in Writer, AnchorStep(w) PROVE RecordInv'
<1>1. \A v \in Writer : Work[v] \in ApprovalRecord /\ Name(Work[v]) \in Names
  BY WorkType
<1>2. \A v \in Writer : v # w => writerPhase'[v] = writerPhase[v]
  BY DEF Inv, AnchorTypeOK, AnchorGoto, AnchorStep, CheckAnchor, CreateRecord, CompareRecord, WriteRecord,
         Persisted, ReadEpoch, OpenTmp, WriteTmp, Protect, Rename, Stop
<1> USE NoInodeAssumption DEF Inv, AnchorTypeOK, RecordInv, Own
<1>3. CASE ~CreateRecord(w) /\ ~CompareRecord(w) /\ ~WriteRecord(w)
  <2>1. record' = record /\ whole' = whole
    BY <1>3 DEF AnchorStep, CheckAnchor, ReadEpoch, OpenTmp, WriteTmp, Protect, Rename, Stop
  <2>2. writerPhase'[w] \in Persistent => writerPhase[w] \in Persistent
    BY <1>3 DEF AnchorGoto, AnchorStep, CheckAnchor, ReadEpoch, OpenTmp, WriteTmp, Protect, Rename, Stop
  <2>3. writerPhase'[w] # "Write"
    BY <1>3 DEF AnchorGoto, AnchorStep, CheckAnchor, ReadEpoch, OpenTmp, WriteTmp, Protect, Rename, Stop
  <2> QED BY <1>2, <2>1, <2>2, <2>3
<1>4. CASE CreateRecord(w)
  BY <1>1, <1>2, <1>4 DEF CreateRecord, AnchorGoto
<1>5. CASE CompareRecord(w)
  BY <1>1, <1>2, <1>5 DEF CompareRecord, Persisted, AnchorGoto
<1>6. CASE WriteRecord(w)
  BY <1>1, <1>2, <1>6 DEF WriteRecord, Persisted, AnchorGoto
<1> QED
  BY <1>3, <1>4, <1>5, <1>6

LEMMA AnchorInodeStep ==
  ASSUME Inv, NEW w \in Writer, AnchorStep(w) PROVE AnchorInodeInv'
<1> USE NoInodeAssumption DEF Inv, AnchorTypeOK, AnchorInodeInv, AnchorGoto
<1>1. \A v \in Writer : v # w => writerPhase'[v] = writerPhase[v]
  BY DEF AnchorStep, CheckAnchor, CreateRecord, CompareRecord, WriteRecord, Persisted,
         ReadEpoch, OpenTmp, WriteTmp, Protect, Rename, Stop
<1>2. CASE OpenTmp(w)
  <2>1. writerPhase'[w] = "WriteTmp" /\ anchorFile' = anchorFile
    BY <1>2 DEF OpenTmp
  <2>2. tmpFile' = w \/ tmpFile' = tmpFile
    BY <1>2 DEF OpenTmp
  <2> QED BY <1>1, <2>1, <2>2
<1>3. CASE Rename(w)
  <2>1. writerPhase'[w] \in {"Lost", "Stored"}
    BY <1>3 DEF Rename
  <2>2. anchorFile' \in {anchorFile, tmpFile} /\ tmpFile' \in {tmpFile, NoInode}
    BY <1>3 DEF Rename
  <2> QED BY <1>1, <2>1, <2>2
<1>4. CASE ~OpenTmp(w) /\ ~Rename(w)
  <2>1. anchorFile' = anchorFile /\ tmpFile' = tmpFile
    BY <1>4 DEF AnchorStep, CheckAnchor, CreateRecord, CompareRecord, WriteRecord, ReadEpoch,
                WriteTmp, Protect, Stop
  <2>2. writerPhase'[w] \in Early => writerPhase[w] \in Early
    BY <1>4, WorkType
       DEF AnchorStep, CheckAnchor, CreateRecord, CompareRecord, WriteRecord, Persisted,
           ReadEpoch, WriteTmp, Protect, Stop
  <2> QED BY <1>1, <2>1, <2>2
<1> QED BY <1>2, <1>3, <1>4

LEMMA KindStep ==
  ASSUME Inv, NEW w \in Writer, AnchorStep(w) PROVE KindInv'
BY WorkType DEF Inv, AnchorTypeOK, KindInv, AnchorGoto, AnchorStep, CheckAnchor, CreateRecord, CompareRecord,
     WriteRecord, Persisted, ReadEpoch, OpenTmp, WriteTmp, Protect, Rename, Stop

LEMMA NextInv == Inv /\ [AnchorNext]_anchorVars => Inv'
<1> SUFFICES ASSUME Inv, [AnchorNext]_anchorVars PROVE Inv'
  OBVIOUS
<1>1. CASE AnchorNext
  <2>1. PICK w \in Writer : AnchorStep(w)
    BY <1>1 DEF AnchorNext
  <2>2. together' \in BOOLEAN
    BY <1>1 DEF AnchorNext, Inv, AnchorTypeOK
  <2> QED BY <2>1, <2>2, TypeStep, RecordStep, AnchorInodeStep, KindStep DEF Inv
<1>2. CASE UNCHANGED anchorVars
  BY <1>2 DEF Inv, AnchorTypeOK, RecordInv, Own, AnchorInodeInv, KindInv, anchorVars
<1> QED BY <1>1, <1>2

--------------------------------------------------------------------------------

\* Every reachable state is well typed.
THEOREM TypeCorrect == AnchorSpec => []AnchorTypeOK
<1>1. Inv => AnchorTypeOK
  BY DEF Inv
<1> QED BY <1>1, InitInv, NextInv, PTL DEF AnchorSpec

\* However the calls interleave and wherever they are killed, a call that
\* succeeds has left its own record, completely written.
THEOREM RecordsWhole == AnchorSpec => []StoredWhole
<1>1. Inv => StoredWhole
  BY DEF Inv, RecordInv, Own, StoredWhole
<1> QED BY <1>1, InitInv, NextInv, PTL DEF AnchorSpec

BackedBy(w, stamp) ==
  Work[w].sequence = stamp[2] /\ Own(w) /\ Name(Work[w]) \in whole

BackedInv ==
  \A i \in AnchorInode :
    data[i] \notin {Empty, <<0, 0>>} => \E w \in Writer : BackedBy(w, data[i])

LEMMA StoreGrows ==
  ASSUME Inv, NEW w \in Writer, AnchorStep(w), NEW v \in Writer, NEW s \in Stamp, BackedBy(v, s)
  PROVE  BackedBy(v, s)'
<1>1. Name(Work[v]) \in Names /\ Name(Work[w]) \in Names /\ Work[v] \in ApprovalRecord
  BY WorkType
<1>2. whole \subseteq whole'
  BY DEF AnchorStep, CheckAnchor, CreateRecord, CompareRecord, WriteRecord, ReadEpoch, OpenTmp,
         WriteTmp, Protect, Rename, Stop
<1>3. record'[Name(Work[v])] = record[Name(Work[v])]
  <2>1. CASE CreateRecord(w)
    BY <1>1, <2>1, NoInodeAssumption DEF CreateRecord, Inv, AnchorTypeOK, BackedBy, Own
  <2>2. CASE ~CreateRecord(w)
    BY <2>2 DEF AnchorStep, CheckAnchor, CompareRecord, WriteRecord, ReadEpoch, OpenTmp,
                WriteTmp, Protect, Rename, Stop
  <2> QED BY <2>1, <2>2
<1> QED BY <1>2, <1>3 DEF BackedBy, Own

LEMMA BackedStep == Inv /\ BackedInv /\ [AnchorNext]_anchorVars => BackedInv'
<1> SUFFICES ASSUME Inv, BackedInv, [AnchorNext]_anchorVars PROVE BackedInv'
  OBVIOUS
<1>1. CASE UNCHANGED anchorVars
  BY <1>1 DEF BackedInv, BackedBy, Own, anchorVars
<1>2. CASE AnchorNext
  <2>1. PICK w \in Writer : AnchorStep(w)
    BY <1>2 DEF AnchorNext
  <2>2. CASE WriteTmp(w)
    <3>1. /\ Work[w].sequence \in Nat /\ Own(w) /\ Name(Work[w]) \in whole
      BY <2>2, WorkType DEF WriteTmp, Inv, RecordInv
    <3>2. record' = record /\ whole' = whole
      BY <2>2 DEF WriteTmp
    <3>3. BackedBy(w, <<epoch[w], Work[w].sequence>>)'
      BY <3>1, <3>2 DEF BackedBy, Own
    <3> SUFFICES ASSUME NEW i \in AnchorInode, data'[i] \notin {Empty, <<0, 0>>}
                 PROVE  \E v \in Writer : BackedBy(v, data[i])'
      BY DEF BackedInv
    <3>4. CASE i = fd[w]
      <4>1. data'[i] = <<epoch[w], Work[w].sequence>>
        BY <2>2, <3>4 DEF WriteTmp, Inv, AnchorTypeOK
      <4> QED BY <3>1, <3>2, <4>1 DEF BackedBy, Own
    <3>5. CASE i # fd[w]
      <4>1. data'[i] = data[i]
        BY <2>2, <3>5 DEF WriteTmp, Inv, AnchorTypeOK
      <4> QED BY <3>2, <4>1 DEF BackedInv, BackedBy, Own
    <3> QED BY <3>4, <3>5
  <2>3. CASE ~WriteTmp(w)
    <3> SUFFICES ASSUME NEW i \in AnchorInode, data'[i] \notin {Empty, <<0, 0>>}
                 PROVE  \E v \in Writer : BackedBy(v, data[i])'
      BY DEF BackedInv
    <3>1. data'[i] = data[i]
      <4>1. CASE OpenTmp(w)
        <5>1. PICK k \in AnchorInode : data' = [data EXCEPT ![k] = Empty]
          BY <4>1 DEF OpenTmp, Inv, AnchorTypeOK, AnchorInode
        <5> QED BY <5>1 DEF Inv, AnchorTypeOK
      <4>2. CASE ~OpenTmp(w)
        BY <2>1, <2>3, <4>2
           DEF AnchorStep, CheckAnchor, CreateRecord, CompareRecord, WriteRecord, ReadEpoch,
               Protect, Rename, Stop
      <4> QED BY <4>1, <4>2
    <3>2. data[i] \in Stamp
      BY <3>1 DEF Inv, AnchorTypeOK
    <3>3. PICK v \in Writer : BackedBy(v, data[i])
      BY <3>1 DEF BackedInv
    <3>4. Work[v].sequence = data[i][2] /\ Own(v)' /\ Name(Work[v]) \in whole'
      BY <2>1, <3>2, <3>3, StoreGrows DEF BackedBy
    <3> QED BY <3>1, <3>4 DEF BackedBy
  <2> QED BY <2>2, <2>3
<1> QED BY <1>1, <1>2

\* However the calls interleave, the sequence in the anchor is that of a record
\* that is completely written.
THEOREM AnchorNeverAhead == AnchorSpec => []AnchorBacked
<1>1. Inv /\ BackedInv => AnchorBacked
  BY DEF Inv, AnchorTypeOK, BackedInv, BackedBy, Own, AnchorBacked, Anchor
<1>2. AnchorInit => BackedInv
  BY DEF AnchorInit, BackedInv
<1> QED BY <1>1, <1>2, InitInv, NextInv, BackedStep, PTL DEF AnchorSpec

--------------------------------------------------------------------------------
(* As long as calls have not together. *)

\* What a running call knows of the anchor: since its check nobody moved it,
\* and the temporary file is its own.
Knows(w) ==
  /\ writerPhase[w] \in {"Create", "Compare", "Write", "ReadEpoch"} => ~Older(Work[w], Anchor)
  /\ writerPhase[w] \in {"OpenTmp", "WriteTmp", "Protect", "Rename"}
       => AtMost(Anchor, <<epoch[w], Work[w].sequence>>)
  /\ writerPhase[w] \in {"WriteTmp", "Protect", "Rename"}
       => tmpFile # NoInode /\ fd[w] = tmpFile
  /\ writerPhase[w] \in {"Protect", "Rename"}
       => data[tmpFile] = <<epoch[w], Work[w].sequence>>

Covered(w) == AtMost(<<epoch[w], Work[w].sequence>>, Anchor)

SerialInv ==
  /\ Anchor # Empty
  /\ tmpFile # NoInode => tmpFile # anchorFile
  /\ \A w \in Writer : writerPhase[w] \notin {"BadAnchor", "Lost"}
  /\ \A w \in Writer : Knows(w)
  /\ \A w \in Writer : writerPhase[w] = "Stored" => Covered(w)

\* The other calls rest while one of them takes a step.
OthersRest(w) ==
  \A v \in Writer : v # w =>
    /\ ~AnchorRunning(v)
    /\ writerPhase'[v] = writerPhase[v]
    /\ epoch'[v] = epoch[v]

LEMMA Resting ==
  ASSUME Inv, AnchorNext, ~together'
  PROVE  \E w \in Writer : AnchorStep(w) /\ OthersRest(w)
<1>1. PICK w \in Writer : AnchorStep(w) /\ \A v \in Writer \ {w} : ~AnchorRunning(v)
  BY DEF AnchorNext
<1>2. \A v \in Writer : v # w => writerPhase'[v] = writerPhase[v] /\ epoch'[v] = epoch[v]
  BY <1>1 DEF Inv, AnchorTypeOK, AnchorGoto, AnchorStep, CheckAnchor, CreateRecord, CompareRecord,
              WriteRecord, Persisted, ReadEpoch, OpenTmp, WriteTmp, Protect, Rename, Stop
<1> QED BY <1>1, <1>2 DEF OthersRest

\* A step that does not touch the files of the anchor leaves the others' part
\* of the invariant alone.
LEMMA QuietStep ==
  ASSUME Inv, SerialInv, NEW w \in Writer, OthersRest(w),
         UNCHANGED <<anchorFile, tmpFile, data>>,
         writerPhase'[w] \notin {"BadAnchor", "Lost", "Stored"}, Knows(w)'
  PROVE  SerialInv'
<1>1. Anchor' = Anchor
  BY DEF Anchor
<1>2. \A v \in Writer : v # w => Knows(v)'
  BY <1>1 DEF OthersRest, AnchorRunning, Knows
<1>3. (\A v \in Writer : writerPhase[v] = "Stored" => Covered(v))'
  BY <1>1 DEF SerialInv, Covered, OthersRest
<1> QED BY <1>1, <1>2, <1>3 DEF SerialInv, OthersRest

LEMMA AnchorType ==
  ASSUME Inv, SerialInv
  PROVE  Anchor \in Stamp /\ Anchor[1] \in Nat /\ Anchor[2] \in Nat
BY DEF Inv, AnchorTypeOK, SerialInv, Anchor, Stamp

\* The steps of one call, one by one.
LEMMA SerialStep ==
  ASSUME Inv, SerialInv, NEW w \in Writer, AnchorStep(w), OthersRest(w)
  PROVE  SerialInv'
<1> DEFINE mine == <<epoch[w], Work[w].sequence>>
<1>0. /\ Work[w] \in ApprovalRecord /\ Work[w].sequence \in Nat /\ Work[w].epoch \in Nat
      /\ Work[w].kind \in {"Receipt", "Revocation"}
  BY WorkType
<1>1. Anchor \in Stamp /\ Anchor[1] \in Nat /\ Anchor[2] \in Nat /\ Anchor # Empty
  BY AnchorType DEF SerialInv
<1>2. Knows(w)
  BY DEF SerialInv
<1>3. writerPhase \in [Writer -> AnchorActive \union AnchorEnded] /\ epoch \in [Writer -> Nat]
  BY DEF Inv, AnchorTypeOK
<1>4. CASE CheckAnchor(w)
  <2>1. UNCHANGED <<anchorFile, tmpFile, data, epoch>>
    BY <1>4 DEF CheckAnchor
  <2>2. Anchor' = Anchor
    BY <2>1 DEF Anchor
  <2>3. writerPhase'[w] = IF Older(Work[w], Anchor) THEN "Older" ELSE "Create"
    BY <1>1, <1>3, <1>4 DEF CheckAnchor, AnchorGoto
  <2>4. Knows(w)'
    BY <2>2, <2>3 DEF Knows, Older
  <2> QED BY <2>1, <2>3, <2>4, QuietStep
<1>5. CASE CreateRecord(w)
  <2>1. UNCHANGED <<anchorFile, tmpFile, data, epoch>> /\ writerPhase[w] = "Create"
    BY <1>5 DEF CreateRecord
  <2>2. Anchor' = Anchor
    BY <2>1 DEF Anchor
  <2>3. writerPhase'[w] \in {"Write", "Compare"}
    BY <1>3, <1>5 DEF CreateRecord, AnchorGoto
  <2>4. Knows(w)'
    BY <1>2, <2>1, <2>2, <2>3 DEF Knows, Older
  <2> QED BY <2>1, <2>3, <2>4, QuietStep
<1>6. ASSUME writerPhase[w] \in {"Compare", "Write"}, Persisted(w),
             UNCHANGED <<anchorFile, tmpFile, data>>
      PROVE  SerialInv'
  <2>1. Anchor' = Anchor
    BY <1>6 DEF Anchor
  <2>2. ~Older(Work[w], Anchor)
    BY <1>2, <1>6 DEF Knows
  <2>3. CASE Work[w].kind = "Receipt"
    <3>1. writerPhase'[w] = "ReadEpoch"
      BY <1>3, <1>6, <2>3 DEF Persisted, AnchorGoto
    <3>2. Knows(w)'
      BY <2>1, <2>2, <3>1 DEF Knows, Older
    <3> QED BY <1>6, <3>1, <3>2, QuietStep
  <2>4. CASE Work[w].kind = "Revocation"
    <3>1. writerPhase'[w] = "OpenTmp" /\ epoch'[w] = Work[w].epoch
      BY <1>3, <1>6, <2>4 DEF Persisted, AnchorGoto
    <3>2. AtMost(Anchor, <<Work[w].epoch, Work[w].sequence>>)
      BY <2>2, <2>4 DEF Older
    <3>3. Knows(w)'
      BY <2>1, <3>1, <3>2 DEF Knows, AtMost
    <3> QED BY <1>6, <3>1, <3>3, QuietStep
  <2> QED BY <1>0, <2>3, <2>4
<1>7. CASE CompareRecord(w)
  <2>1. UNCHANGED <<anchorFile, tmpFile, data>> /\ writerPhase[w] = "Compare"
    BY <1>7 DEF CompareRecord
  <2>2. CASE Persisted(w)
    BY <1>6, <2>1, <2>2
  <2>3. CASE AnchorGoto(w, "Conflict")
    <3>1. writerPhase'[w] = "Conflict"
      BY <1>3, <2>3 DEF AnchorGoto
    <3> QED BY <2>1, <3>1, QuietStep DEF Knows
  <2> QED BY <1>7, <2>2, <2>3 DEF CompareRecord
<1>8. CASE WriteRecord(w)
  BY <1>6, <1>8 DEF WriteRecord
<1>9. CASE ReadEpoch(w)
  <2>1. UNCHANGED <<anchorFile, tmpFile, data>> /\ writerPhase[w] = "ReadEpoch"
    BY <1>9 DEF ReadEpoch
  <2>2. Anchor' = Anchor
    BY <2>1 DEF Anchor
  <2>3. writerPhase'[w] = "OpenTmp" /\ epoch'[w] = Anchor[1]
    BY <1>1, <1>3, <1>9 DEF ReadEpoch, AnchorGoto
  <2>4. ~Older(Work[w], Anchor)
    BY <1>2, <2>1 DEF Knows
  <2>5. AtMost(Anchor, <<Anchor[1], Work[w].sequence>>)
    <3>1. CASE Work[w].kind = "Receipt"
      BY <1>0, <1>1, <2>4, <3>1 DEF Older, AtMost
    <3> QED BY <2>1, <3>1 DEF Inv, KindInv
  <2>6. Knows(w)'
    BY <2>2, <2>3, <2>5 DEF Knows, AtMost
  <2> QED BY <2>1, <2>3, <2>6, QuietStep
<1>10. CASE OpenTmp(w)
  <2>1. writerPhase[w] = "OpenTmp" /\ writerPhase'[w] = "WriteTmp"
    BY <1>3, <1>10 DEF OpenTmp, AnchorGoto
  <2>2. /\ anchorFile' = anchorFile /\ epoch' = epoch
        /\ tmpFile' = IF tmpFile = NoInode THEN w ELSE tmpFile
        /\ fd' = [fd EXCEPT ![w] = tmpFile'] /\ data' = [data EXCEPT ![tmpFile'] = Empty]
    BY <1>10 DEF OpenTmp
  <2>3. tmpFile' # NoInode /\ tmpFile' # anchorFile
    BY <2>1, <2>2, NoInodeAssumption DEF Inv, AnchorInodeInv, SerialInv
  <2>4. Anchor' = Anchor
    BY <2>2, <2>3 DEF Anchor, Inv, AnchorTypeOK
  <2>5. fd'[w] = tmpFile'
    BY <2>2 DEF Inv, AnchorTypeOK
  <2>6. Knows(w)'
    BY <1>2, <2>1, <2>2, <2>3, <2>4, <2>5 DEF Knows, AtMost
  <2>7. \A v \in Writer : v # w => Knows(v)'
    BY <2>4 DEF OthersRest, AnchorRunning, Knows, SerialInv
  <2>8. (\A v \in Writer : writerPhase[v] = "Stored" => Covered(v))'
    BY <2>1, <2>4 DEF Covered, SerialInv, OthersRest
  <2> QED BY <1>1, <2>1, <2>2, <2>3, <2>4, <2>6, <2>7, <2>8 DEF SerialInv, OthersRest
<1>11. CASE WriteTmp(w)
  <2>1. writerPhase[w] = "WriteTmp" /\ writerPhase'[w] = "Protect"
    BY <1>3, <1>11 DEF WriteTmp, AnchorGoto
  <2>2. /\ anchorFile' = anchorFile /\ tmpFile' = tmpFile /\ epoch' = epoch /\ fd' = fd
        /\ data' = [data EXCEPT ![tmpFile] = mine]
    BY <1>2, <1>11, <2>1 DEF WriteTmp, Knows
  <2>3. tmpFile # NoInode /\ tmpFile # anchorFile
    BY <1>2, <2>1 DEF Knows, SerialInv
  <2>4. Anchor' = Anchor /\ data'[tmpFile] = mine
    BY <2>2, <2>3 DEF Anchor, Inv, AnchorTypeOK
  <2>6. Knows(w)'
    BY <1>2, <2>1, <2>2, <2>3, <2>4 DEF Knows, AtMost
  <2>7. \A v \in Writer : v # w => Knows(v)'
    BY <2>4 DEF OthersRest, AnchorRunning, Knows, SerialInv
  <2>8. (\A v \in Writer : writerPhase[v] = "Stored" => Covered(v))'
    BY <2>1, <2>4 DEF Covered, SerialInv, OthersRest
  <2> QED BY <1>1, <2>1, <2>2, <2>3, <2>4, <2>6, <2>7, <2>8 DEF SerialInv, OthersRest
<1>12. CASE Protect(w)
  <2>1. UNCHANGED <<anchorFile, tmpFile, data, epoch, fd>> /\ writerPhase[w] = "Protect"
    BY <1>12 DEF Protect
  <2>2. writerPhase'[w] = "Rename"
    BY <1>2, <1>3, <1>12 DEF Protect, AnchorGoto, Knows
  <2>3. Anchor' = Anchor
    BY <2>1 DEF Anchor
  <2>4. Knows(w)'
    BY <1>2, <2>1, <2>2, <2>3 DEF Knows, AtMost
  <2> QED BY <2>1, <2>2, <2>4, QuietStep
<1>13. CASE Rename(w)
  <2>1. writerPhase[w] = "Rename" /\ writerPhase'[w] = "Stored"
    BY <1>2, <1>3, <1>13 DEF Rename, AnchorGoto, Knows
  <2>2. /\ anchorFile' = tmpFile /\ tmpFile' = NoInode /\ data' = data /\ epoch' = epoch
    BY <1>2, <1>13, <2>1 DEF Rename, Knows
  <2>3. Anchor' = mine /\ AtMost(Anchor, mine)
    BY <1>2, <2>1, <2>2 DEF Anchor, Knows
  <2>4. mine \in Nat \X Nat /\ mine # Empty
    BY <1>0, <1>3 DEF Empty
  <2>5. Knows(w)'
    BY <2>1 DEF Knows
  <2>6. \A v \in Writer : v # w => Knows(v)'
    BY DEF OthersRest, AnchorRunning, Knows, SerialInv
  <2>7. (\A v \in Writer : writerPhase[v] = "Stored" => Covered(v))'
    <3> SUFFICES ASSUME NEW v \in Writer, writerPhase'[v] = "Stored"
                 PROVE  AtMost(<<epoch'[v], Work[v].sequence>>, Anchor')
      BY DEF Covered
    <3>1. CASE v = w
      BY <1>0, <1>3, <2>2, <2>3, <3>1 DEF AtMost
    <3>2. CASE v # w
      <4>1. AtMost(<<epoch[v], Work[v].sequence>>, Anchor) /\ epoch'[v] = epoch[v]
        BY <1>1, <3>2 DEF OthersRest, SerialInv, Covered
      <4>2. epoch[v] \in Nat /\ Work[v].sequence \in Nat
        BY <1>3, WorkType
      <4> QED BY <1>0, <1>1, <1>3, <2>3, <4>1, <4>2 DEF AtMost
    <3> QED BY <3>1, <3>2
  <2> QED BY <2>1, <2>2, <2>3, <2>4, <2>5, <2>6, <2>7 DEF SerialInv, OthersRest
<1>14. CASE Stop(w)
  <2>1. UNCHANGED <<anchorFile, tmpFile, data>> /\ writerPhase'[w] = "Stopped"
    BY <1>3, <1>14 DEF Stop, AnchorGoto
  <2> QED BY <2>1, QuietStep DEF Knows
<1> QED
  BY <1>4, <1>5, <1>7, <1>8, <1>9, <1>10, <1>11, <1>12, <1>13, <1>14 DEF AnchorStep

LEMMA SerialInit == AnchorInit => SerialInv
<1> SUFFICES ASSUME AnchorInit PROVE SerialInv
  OBVIOUS
<1>1. Anchor # Empty
  BY DEF AnchorInit, Anchor, AnchorInode, Empty
<1> QED BY <1>1 DEF AnchorInit, SerialInv, Knows, Covered

LEMMA SerialNext ==
  Inv /\ (~together => SerialInv) /\ [AnchorNext]_anchorVars => (~together' => SerialInv')
<1> SUFFICES ASSUME Inv, ~together => SerialInv, [AnchorNext]_anchorVars, ~together'
             PROVE  SerialInv'
  OBVIOUS
<1>1. SerialInv
  BY DEF AnchorNext, anchorVars
<1>2. CASE AnchorNext
  BY <1>1, <1>2, Resting, SerialStep
<1>3. CASE UNCHANGED anchorVars
  BY <1>1, <1>3 DEF anchorVars, SerialInv, Knows, Covered, Anchor
<1> QED BY <1>2, <1>3

\* As long as calls have not overlapped, a writer that is killed or fails at
\* any step leaves an anchor that the next writer can read and replace.
THEOREM AnchorStaysUsable == AnchorSpec => []AnchorUsable
<1>1. (~together => SerialInv) => AnchorUsable
  BY DEF SerialInv, AnchorUsable
<1>2. AnchorInit => (~together => SerialInv)
  BY SerialInit
<1>3. Inv /\ (~together => SerialInv) /\ [AnchorNext]_anchorVars => (~together => SerialInv)'
  BY SerialNext
<1> QED BY <1>1, <1>2, <1>3, InitInv, NextInv, PTL DEF AnchorSpec

\* As long as calls have not overlapped, the anchor covers every record whose
\* call succeeded.
THEOREM AnchorCoversStored == AnchorSpec => []StoredAnchored
<1>1. (~together => SerialInv) => StoredAnchored
  BY DEF SerialInv, StoredAnchored, Covered
<1>2. AnchorInit => (~together => SerialInv)
  BY SerialInit
<1>3. Inv /\ (~together => SerialInv) /\ [AnchorNext]_anchorVars => (~together => SerialInv)'
  BY SerialNext
<1> QED BY <1>1, <1>2, <1>3, InitInv, NextInv, PTL DEF AnchorSpec

\* As long as calls have not overlapped, the anchor never goes back.
THEOREM AnchorNeverBack == AnchorSpec => AnchorMonotone
<1>1. Inv /\ (~together => SerialInv) /\ [AnchorNext]_anchorVars
        => [~together' => AtMost(Anchor, Anchor')]_anchorVars
  <2> SUFFICES ASSUME Inv, ~together => SerialInv, AnchorNext, ~together'
               PROVE  AtMost(Anchor, Anchor')
    OBVIOUS
  <2> SerialInv
    BY DEF AnchorNext
  <2>1. PICK w \in Writer : AnchorStep(w)
    BY DEF AnchorNext
  <2>2. CASE Rename(w)
    <3>1. writerPhase[w] = "Rename" /\ tmpFile # NoInode /\ anchorFile' = tmpFile /\ data' = data
      BY <2>2 DEF Rename, SerialInv, Knows
    <3> QED BY <3>1 DEF SerialInv, Knows, Anchor
  <2>3. CASE ~Rename(w)
    <3>1. anchorFile' = anchorFile /\ data'[anchorFile] = data[anchorFile]
      <4>1. CASE OpenTmp(w)
        <5>1. PICK i \in AnchorInode : i # anchorFile /\ data' = [data EXCEPT ![i] = Empty]
          BY <4>1, NoInodeAssumption DEF OpenTmp, Inv, AnchorTypeOK, AnchorInodeInv, AnchorInode, SerialInv
        <5> QED BY <4>1, <5>1 DEF OpenTmp, Inv, AnchorTypeOK
      <4>2. CASE WriteTmp(w)
        <5>1. fd[w] # anchorFile
          BY <4>2 DEF WriteTmp, SerialInv, Knows
        <5> QED BY <4>2, <5>1 DEF WriteTmp, Inv, AnchorTypeOK
      <4>3. CASE ~OpenTmp(w) /\ ~WriteTmp(w)
        BY <2>1, <2>3, <4>3 DEF AnchorStep, CheckAnchor, CreateRecord, CompareRecord,
                                WriteRecord, ReadEpoch, Protect, Stop
      <4> QED BY <4>1, <4>2, <4>3
    <3> QED BY <3>1, AnchorType DEF Anchor, AtMost
  <2> QED BY <2>2, <2>3
<1>2. AnchorInit => (~together => SerialInv)
  BY SerialInit
<1>3. Inv /\ (~together => SerialInv) /\ [AnchorNext]_anchorVars => (~together => SerialInv)'
  BY SerialNext
<1> QED BY <1>1, <1>2, <1>3, InitInv, NextInv, PTL DEF AnchorSpec, AnchorMonotone

\* As long as calls have not overlapped and no revocation state has moved the
\* anchor to a new epoch, a receipt older than a stored one is refused.
THEOREM OlderRefused == AnchorSpec => EpochReceiptsOrdered
<1>1. Inv /\ (~together => SerialInv) /\ [AnchorNext]_anchorVars
        => [~together' =>
             \A v, w \in Writer :
               Accepted(w) /\ writerPhase[v] = "Stored" /\ epoch[v] = Anchor[1]
                 => Work[v].sequence <= Work[w].sequence]_anchorVars
  <2> SUFFICES ASSUME Inv, ~together => SerialInv, AnchorNext, ~together',
                      NEW v \in Writer, NEW w \in Writer,
                      Accepted(w), writerPhase[v] = "Stored", epoch[v] = Anchor[1]
               PROVE  Work[v].sequence <= Work[w].sequence
    OBVIOUS
  <2>1. SerialInv
    BY DEF AnchorNext
  <2>2. PICK u \in Writer : AnchorStep(u) /\ OthersRest(u)
    BY Resting
  <2>3. u = w
    BY <2>2 DEF OthersRest, Accepted
  <2>4. CheckAnchor(w)
    BY <2>2, <2>3
       DEF Accepted, AnchorStep, CreateRecord, CompareRecord, WriteRecord, ReadEpoch, OpenTmp,
           WriteTmp, Protect, Rename, Stop, AnchorRunning
  <2>5. ~Older(Work[w], Anchor)
    BY <2>1, <2>4 DEF CheckAnchor, Accepted, AnchorGoto, Inv, AnchorTypeOK
  <2>6. Covered(v)
    BY <2>1 DEF SerialInv
  <2>7. /\ Work[v].sequence \in Nat /\ Work[w].sequence \in Nat
        /\ Anchor[1] \in Nat /\ Anchor[2] \in Nat
    BY <2>1, WorkType, AnchorType
  <2> QED BY <2>5, <2>6, <2>7 DEF Covered, AtMost, Older, Accepted
<1>2. AnchorInit => (~together => SerialInv)
  BY SerialInit
<1>3. Inv /\ (~together => SerialInv) /\ [AnchorNext]_anchorVars => (~together => SerialInv)'
  BY SerialNext
<1> QED BY <1>1, <1>2, <1>3, InitInv, NextInv, PTL DEF AnchorSpec, EpochReceiptsOrdered

--------------------------------------------------------------------------------
(* The rotation of the trust root. *)

\* No two calls publish the same root in the same place: the command makes a
\* new key for every root.
OwnRoots ==
  \A c, d \in Call : RootPath[c] = RootPath[d] /\ NewRoot[c] = NewRoot[d] => c = d

\* The phases of a call whose root is published.
RootPublished == {"Migration", "RemoveRoot", "Protect", "Rotated"}

FilesOwned ==
  \A p \in wholeFiles : p = RootPath[creator[p]] \/ p = MigrationPath[creator[p]]

\* A published root is whole and its creator's, and a whole root was published.
RootsOwned ==
  \A c \in Call :
    /\ rotationPhase[c] \in RootPublished
         => RootPath[c] \in wholeFiles /\ creator[RootPath[c]] = c
    /\ RootPath[c] \in wholeFiles /\ creator[RootPath[c]] = c
         => rotationPhase[c] \in RootPublished \union {"Crashed", "RootLeft"}

MigrationsHeld ==
  \A c \in Call : rotationPhase[c] \in {"Protect", "Rotated"} => HasMigration(c)

FilesBegun ==
  \A c \in Call :
    rotationAt[c] = "Write" => creator[Out(c)] = c /\ Out(c) \notin wholeFiles

RotationIInv == RotationTypeOK /\ FilesOwned /\ RootsOwned /\ MigrationsHeld /\ FilesBegun

--------------------------------------------------------------------------------

\* Every call and file of a rotation stays what it may be.
THEOREM RotationTypeCorrect == RotationSpec => []RotationTypeOK
<1> USE CallAssumption, RotationPathAssumption, NoneAssumption
    DEF RotationActive, RotationEnded
<1>1. RotationInit => RotationTypeOK
  BY DEF RotationInit, RotationTypeOK, First
<1>2. RotationTypeOK /\ [RotationNext]_rotationVars => RotationTypeOK'
  <2> SUFFICES ASSUME RotationTypeOK, [RotationNext]_rotationVars
               PROVE  RotationTypeOK'
    OBVIOUS
  <2> USE DEF RotationTypeOK, RotationGoto
  <2>1. CASE UNCHANGED rotationVars
    BY <2>1 DEF rotationVars
  <2>2. ASSUME NEW c \in Call, RotationStep(c)
        PROVE  RotationTypeOK'
    <3>1. CASE c \in Command /\ WriteKey(c)
      BY <3>1 DEF WriteKey
    <3>2. CASE Verify(c)
      BY <3>2 DEF Verify
    <3>3. CASE Create(c)
      BY <3>3 DEF Create, Out
    <3>4. CASE Write(c)
      BY <3>4 DEF Write, Out, RotationProceed
    <3>5. CASE RotationCompare(c)
      BY <3>5 DEF RotationCompare, RotationProceed, RotationFail
    <3>6. CASE RotationIoError(c)
      BY <3>6 DEF RotationIoError, RotationFail
    <3>7. CASE RemoveRoot(c)
      BY <3>7 DEF RemoveRoot
    <3>8. CASE RotationProtect(c)
      BY <3>8 DEF RotationProtect
    <3>9. CASE RotationCrash(c)
      BY <3>9 DEF RotationCrash
    <3> QED  BY <2>2, <3>1, <3>2, <3>3, <3>4, <3>5, <3>6, <3>7, <3>8, <3>9 DEF RotationStep
  <2> QED  BY <2>1, <2>2 DEF RotationNext
<1> QED  BY <1>1, <1>2, PTL DEF RotationSpec

LEMMA OwnRootIsWhole ==
  ASSUME RotationIInv, OwnRoots, NEW c \in Call, HasRoot(c)
  PROVE  creator[RootPath[c]] = c
<1>1. /\ RootPath[c] \in wholeFiles /\ creator[RootPath[c]] \in Call
      /\ NewRoot[creator[RootPath[c]]] = NewRoot[c]
  BY RotationPathAssumption DEF RotationIInv, RotationTypeOK, HasRoot
<1>2. RootPath[creator[RootPath[c]]] = RootPath[c]
  BY <1>1, RotationPathAssumption DEF RotationIInv, FilesOwned
<1> QED  BY <1>1, <1>2 DEF OwnRoots

\* The rest of the invariant holds after a step of a call, by what the step does.
LEMMA RotationStepKeeps ==
  ASSUME RotationIInv, RotationTypeOK', OwnRoots, NEW c \in Call, RotationStep(c)
  PROVE  RotationIInv'
<1> USE CallAssumption, RotationPathAssumption, NoneAssumption
    DEF RotationActive, RotationEnded, RotationGoto, RotationTypeOK, RootPublished
<1>0. RotationTypeOK
  BY DEF RotationIInv
<1>1. CASE c \in Command /\ WriteKey(c)
  BY <1>0, <1>1 DEF WriteKey, RotationIInv, FilesOwned, RootsOwned, MigrationsHeld, FilesBegun, HasMigration, Out
<1>2. CASE Verify(c)
  BY <1>0, <1>2 DEF Verify, RotationIInv, FilesOwned, RootsOwned, MigrationsHeld, FilesBegun, HasMigration, Out
<1>3. CASE Create(c)
  BY <1>0, <1>3 DEF Create, RotationIInv, FilesOwned, RootsOwned, MigrationsHeld, FilesBegun, HasMigration, Out
<1>4. CASE Write(c)
  BY <1>0, <1>4 DEF Write, RotationProceed, RotationIInv, FilesOwned, RootsOwned, MigrationsHeld, FilesBegun, HasMigration, Out
<1>5. CASE RotationCompare(c)
  BY <1>0, <1>5, OwnRootIsWhole DEF RotationCompare, RotationProceed, RotationFail, RotationIInv, FilesOwned, RootsOwned, MigrationsHeld, FilesBegun, HasMigration, HasRoot, Out
<1>6. CASE RotationIoError(c)
  BY <1>0, <1>6 DEF RotationIoError, RotationFail, RotationIInv, FilesOwned, RootsOwned, MigrationsHeld, FilesBegun, HasMigration, Out
<1>7. CASE RemoveRoot(c)
  BY <1>0, <1>7 DEF RemoveRoot, RotationIInv, FilesOwned, RootsOwned, MigrationsHeld, FilesBegun, HasMigration, Out
<1>8. CASE RotationProtect(c)
  BY <1>0, <1>8 DEF RotationProtect, RotationIInv, FilesOwned, RootsOwned, MigrationsHeld, FilesBegun, HasMigration, Out
<1>9. CASE RotationCrash(c)
  BY <1>0, <1>9 DEF RotationCrash, RotationRunning, RotationIInv, FilesOwned, RootsOwned, MigrationsHeld, FilesBegun, HasMigration, Out
<1> QED  BY <1>1, <1>2, <1>3, <1>4, <1>5, <1>6, <1>7, <1>8, <1>9 DEF RotationStep

\* A file belongs to the one call that made it, and what a call has published
\* is whole.
THEOREM RotationIInvCorrect ==
  ASSUME OwnRoots
  PROVE  RotationSpec => []RotationIInv
<1>1. RotationInit => RotationIInv
  BY CallAssumption, RotationPathAssumption
     DEF RotationInit, First, RotationIInv, RotationTypeOK, FilesOwned, RootsOwned, MigrationsHeld,
         FilesBegun, RootPublished, RotationActive, RotationEnded
<1>2. RotationIInv /\ RotationTypeOK' /\ [RotationNext]_rotationVars => RotationIInv'
  <2>1. RotationIInv /\ UNCHANGED rotationVars => RotationIInv'
    BY DEF rotationVars, RotationIInv, RotationTypeOK, FilesOwned, RootsOwned, MigrationsHeld,
           FilesBegun, HasMigration, Out
  <2> QED  BY <2>1, RotationStepKeeps DEF RotationNext
<1> QED  BY <1>1, <1>2, RotationTypeCorrect, PTL DEF RotationSpec

\* A call that succeeded leaves its root and its migration, and one that failed
\* no root without a migration, if no two calls publish the same root in one
\* place.
THEOREM RotationKept ==
  ASSUME OwnRoots
  PROVE  RotationSpec => []RotationInv
<1>1. RotationIInv => RotationInv
  <2> SUFFICES ASSUME RotationIInv
               PROVE  RotationInv
    OBVIOUS
  <2>1. RotatedKept
    BY DEF RotatedKept, RotationIInv, RootsOwned, MigrationsHeld, RootPublished, HasRoot
  <2>2. NoOrphanRoot
    BY OwnRootIsWhole
       DEF NoOrphanRoot, RotationIInv, RootsOwned, RootPublished, RotationActive, RotationEnded,
           RotationTypeOK, HasRoot
  <2> QED  BY <2>1, <2>2 DEF RotationInv, RotationIInv
<1> QED  BY <1>1, RotationIInvCorrect, PTL

================================================================================
