--------------------------- MODULE LocalFiles_proofs ---------------------------
(***************************************************************************)
(* Proofs about the files that are kept on the machine: the model files    *)
(* that are downloaded, the list of them that the panel acts on, the       *)
(* OpenCode configuration that it hands over to, the checkpoints that are  *)
(* imported, and the settings that are edited and saved.                   *)
(***************************************************************************)
EXTENDS ModelDownload, ModelPanel, ConfigHandoff, CheckpointImport, SettingsEdit,
  FiniteSetTheorems, SequenceTheorems, WellFoundedInduction, TLAPS

--------------------------------------------------------------------------------

(* Downloads. *)

Underway(d) == phaseOf[d] \in {"asked", "answered", "body"}

\* Who works on the file works on it alone.
OneUnderway == \A d, e \in Download : Underway(d) /\ Underway(e) => d = e

\* What a download knows of the length of the part is so: it asked for the rest of
\* all of it, appends to all of it or begins at nothing, and writes at its end.
KnowsTheLength(d) ==
  /\ phaseOf[d] = "asked" => resumed[d] = PartLength
  /\ phaseOf[d] = "answered" =>
       received[d] = IF append[d] THEN PartLength ELSE 0
  /\ phaseOf[d] = "body" => handle[d] = partFile /\ received[d] = Len(content[partFile])

\* The part is the beginning of the file that is offered.
PartIsBeginning ==
  partFile # NoFile =>
    /\ Len(content[partFile]) <= VersionSize[offered]
    /\ \A i \in 1 .. Len(content[partFile]) : content[partFile][i] = <<offered, i>>

\* What is being read is the file that is offered.
SourceIsOffered == \A d \in Download : phaseOf[d] \in {"answered", "body"} => source[d] = offered

\* The inductive invariant of downloads.
DownloadIInv ==
  /\ DownloadTypeOK
  /\ ~shared => OneUnderway /\ \A d \in Download : KnowsTheLength(d)
  /\ ~shared /\ ~changed => PartIsBeginning /\ SourceIsOffered
  /\ InstalledWhole


LEMMA UnusedIsUnused ==
  ASSUME DownloadTypeOK, NEW d \in Download, handle[d] = NoFile, partFile = NoFile
  PROVE  /\ Unused \in Inode /\ Unused # NoFile /\ Unused # finalFile
         /\ \A e \in Download : handle[e] # Unused
<1> DEFINE Free(f) == f \notin {partFile, finalFile} /\ \A e \in Download : handle[e] # f
<1> DEFINE User == [f \in Inode |-> IF f = finalFile THEN d ELSE CHOOSE e \in Download : handle[e] = f]
<1>1. \E f \in Inode : Free(f)
  <2> SUFFICES ASSUME \A f \in Inode : ~Free(f) PROVE FALSE
    OBVIOUS
  <2>1. \A f \in Inode : f # finalFile => \E e \in Download : handle[e] = f
    BY DownloadAssumption
  <2>2. \A f \in Inode : f # finalFile => User[f] \in Download /\ handle[User[f]] = f
    BY <2>1
  <2>3. User \in [Inode -> Download]
    BY <2>2
  <2>4. PICK x, y \in Inode : x # y /\ User[x] = User[y]
    <3> HIDE DEF User
    <3> QED BY <2>3, DownloadAssumption, FS_PigeonHole
  <2>5. User[finalFile] = d \/ finalFile \notin Inode
    OBVIOUS
  <2> HIDE DEF User, Free
  <2>6. d # User[x] \/ x = finalFile
    BY <2>2, DownloadAssumption
  <2>7. d # User[y] \/ y = finalFile
    BY <2>2, DownloadAssumption
  <2>8. CASE x = finalFile
    BY <2>4, <2>5, <2>7, <2>8
  <2>9. CASE y = finalFile
    BY <2>4, <2>5, <2>6, <2>9
  <2>10. CASE x # finalFile /\ y # finalFile
    BY <2>2, <2>4, <2>10
  <2> QED BY <2>8, <2>9, <2>10
<1>2. Unused = CHOOSE f \in Inode : Free(f)
  BY DEF Unused
<1> QED BY <1>1, <1>2, DownloadAssumption

LEMMA DownloadInitIInv == DownloadInit => DownloadIInv
<1> SUFFICES ASSUME DownloadInit PROVE DownloadIInv
  OBVIOUS
<1>1. DownloadTypeOK
  <2>1. 1 \in Version /\ <<>> \in Seq(Block)
    BY DownloadAssumption DEF Version
  <2> QED BY <2>1 DEF DownloadInit, DownloadTypeOK
<1>2. OneUnderway /\ \A d \in Download : KnowsTheLength(d)
  BY DEF DownloadInit, OneUnderway, Underway, KnowsTheLength
<1>3. PartIsBeginning /\ SourceIsOffered /\ InstalledWhole
  BY DEF DownloadInit, PartIsBeginning, SourceIsOffered, InstalledWhole
<1> QED BY <1>1, <1>2, <1>3 DEF DownloadIInv

--------------------------------------------------------------------------------

(* Each step keeps the types.                                                *)

LEMMA BlocksTyped ==
  ASSUME NEW v \in Version, NEW n \in Nat
  PROVE  <<v, n + 1>> \in Block
BY DEF Block

LEMMA WrittenTyped ==
  ASSUME NEW s \in Seq(Block), NEW n \in Nat \ {0}, NEW b \in Block
  PROVE  WrittenAt(s, n, b) \in Seq(Block)
<1>1. CASE n <= Len(s)
  <2>1. [s EXCEPT ![n] = b] \in [1 .. Len(s) -> Block]
    BY <1>1
  <2> QED BY <1>1, <2>1 DEF WrittenAt
<1>2. CASE ~(n <= Len(s))
  BY <1>2 DEF WrittenAt
<1> QED BY <1>1, <1>2

LEMMA LeaveTyped ==
  ASSUME DownloadTypeOK, NEW d \in Download, NEW next \in {"done", "idle"},
         LeaveDownload(d, next)
  PROVE  /\ phaseOf' \in [Download -> {"idle", "asked", "answered", "body", "done"}]
         /\ resumed' \in [Download -> Nat] /\ received' \in [Download -> Nat]
         /\ append' \in [Download -> BOOLEAN]
         /\ source' \in [Download -> Version]
         /\ handle' \in [Download -> Inode \union {NoFile}]
         /\ \A e \in Download : phaseOf'[e] = "body" <=> handle'[e] # NoFile
         /\ \A e \in Download : e # d => /\ phaseOf'[e] = phaseOf[e] /\ resumed'[e] = resumed[e]
                                         /\ append'[e] = append[e] /\ received'[e] = received[e]
                                         /\ source'[e] = source[e] /\ handle'[e] = handle[e]
         /\ phaseOf'[d] = next
<1>1. 1 \in Version
  BY DownloadAssumption DEF Version
<1> QED BY <1>1 DEF LeaveDownload, DownloadTypeOK

LEMMA StartDownloadKeeps ==
  ASSUME DownloadIInv, NEW d \in Download, StartDownload(d)
  PROVE  DownloadIInv'
<1> USE DEF DownloadIInv
<1>1. PartLength \in Nat
  BY DEF PartLength, DownloadTypeOK
<1>2. DownloadTypeOK'
  BY <1>1 DEF StartDownload, DownloadTypeOK, fileVars
<1>3. shared' \/ (OneUnderway' /\ \A e \in Download : KnowsTheLength(e)')
  <2> SUFFICES ASSUME ~shared' PROVE OneUnderway' /\ \A e \in Download : KnowsTheLength(e)'
    OBVIOUS
  <2>1. ~shared /\ \A e \in Download : ~Underway(e)
    BY DEF StartDownload, DownloadTypeOK, Underway
  <2>2. \A e \in Download : e # d => ~Underway(e)'
    BY <2>1 DEF StartDownload, DownloadTypeOK, Underway
  <2>3. KnowsTheLength(d)'
    BY DEF StartDownload, DownloadTypeOK, KnowsTheLength, PartLength, fileVars
  <2> QED BY <2>2, <2>3 DEF OneUnderway, Underway, KnowsTheLength
<1>4. ~shared' /\ ~changed' => PartIsBeginning' /\ SourceIsOffered'
  BY DEF StartDownload, DownloadTypeOK, PartIsBeginning, SourceIsOffered, fileVars
<1>5. InstalledWhole'
  BY DEF StartDownload, DownloadTypeOK, InstalledWhole, Whole, fileVars
<1> QED BY <1>2, <1>3, <1>4, <1>5

LEMMA AnswerDownloadKeeps ==
  ASSUME DownloadIInv, NEW d \in Download, AnswerDownload(d)
  PROVE  DownloadIInv'
<1> USE DEF DownloadIInv
<1>1. PICK partial \in BOOLEAN :
        /\ partial => resumed[d] > 0 /\ resumed[d] < VersionSize[offered]
        /\ append' = [append EXCEPT ![d] = resumed[d] > 0 /\ partial]
        /\ resumed' = [resumed EXCEPT ![d] = IF partial THEN resumed[d] ELSE 0]
        /\ received' = [received EXCEPT ![d] = IF partial THEN resumed[d] ELSE 0]
  BY DEF AnswerDownload, Continues
<1>2. DownloadTypeOK'
  BY <1>1 DEF AnswerDownload, DownloadTypeOK, fileVars
<1>3. ~shared' => OneUnderway' /\ \A e \in Download : KnowsTheLength(e)'
  <2> SUFFICES ASSUME ~shared PROVE OneUnderway' /\ \A e \in Download : KnowsTheLength(e)'
    BY DEF AnswerDownload
  <2>1. \A e \in Download : e # d => ~Underway(e) /\ ~Underway(e)'
    BY DEF AnswerDownload, DownloadTypeOK, OneUnderway, Underway
  <2>2. resumed[d] = PartLength
    BY DEF AnswerDownload, KnowsTheLength
  <2>3. received'[d] = (IF append'[d] THEN PartLength ELSE 0) /\ PartLength' = PartLength
    BY <1>1, <2>2 DEF DownloadTypeOK, AnswerDownload, PartLength, fileVars
  <2>4. KnowsTheLength(d)'
    BY <2>3 DEF AnswerDownload, DownloadTypeOK, KnowsTheLength
  <2> QED BY <2>1, <2>4 DEF OneUnderway, Underway, KnowsTheLength
<1>4. ~shared' /\ ~changed' => PartIsBeginning' /\ SourceIsOffered'
  BY DEF AnswerDownload, DownloadTypeOK, PartIsBeginning, SourceIsOffered, fileVars
<1>5. InstalledWhole'
  BY DEF AnswerDownload, DownloadTypeOK, InstalledWhole, Whole, fileVars
<1> QED BY <1>2, <1>3, <1>4, <1>5

LEMMA OpenPartKeeps ==
  ASSUME DownloadIInv, NEW d \in Download, OpenPart(d)
  PROVE  DownloadIInv'
<1> USE DEF DownloadIInv
<1> DEFINE f == IF partFile = NoFile THEN Unused ELSE partFile
<1> DEFINE blocks == IF partFile = NoFile THEN <<>> ELSE Kept(d, f)
<1>1. /\ phaseOf[d] = "answered" /\ phaseOf' = [phaseOf EXCEPT ![d] = "body"]
      /\ partFile' = f /\ handle' = [handle EXCEPT ![d] = f]
      /\ content' = [content EXCEPT ![f] = blocks]
      /\ UNCHANGED <<offered, finalFile, resumed, append, received, source, shared, changed>>
  BY DEF OpenPart
<1>2. handle[d] = NoFile
  BY <1>1 DEF DownloadTypeOK
<1>3. f \in Inode /\ f # NoFile /\ f # finalFile
  BY <1>2, UnusedIsUnused, DownloadAssumption DEF DownloadTypeOK
<1>4. blocks \in Seq(Block)
  <2>1. <<>> \in Seq(Block)
    OBVIOUS
  <2> QED BY <2>1, <1>3 DEF DownloadTypeOK, Kept
<1> HIDE DEF f
<1>5. content'[f] = blocks /\ \A g \in Inode : g # f => content'[g] = content[g]
  BY <1>1, <1>3 DEF DownloadTypeOK
<1>6. append[d] /\ partFile # NoFile => blocks = content[partFile]
  BY DEF f, Kept
<1>7. ~append[d] \/ partFile = NoFile => blocks = <<>>
  BY DEF Kept
<1> HIDE DEF blocks
<1>8. DownloadTypeOK'
  BY <1>1, <1>3, <1>4 DEF DownloadTypeOK
<1>9. ~shared' => OneUnderway' /\ \A e \in Download : KnowsTheLength(e)'
  <2> SUFFICES ASSUME ~shared PROVE OneUnderway' /\ \A e \in Download : KnowsTheLength(e)'
    BY <1>1
  <2>1. \A e \in Download : e # d => ~Underway(e) /\ ~Underway(e)'
    BY <1>1 DEF DownloadTypeOK, OneUnderway, Underway
  <2>2. received[d] = IF append[d] THEN PartLength ELSE 0
    BY <1>1 DEF KnowsTheLength
  <2>3. received[d] = Len(blocks)
    BY <2>2, <1>6, <1>7 DEF PartLength
  <2>4. KnowsTheLength(d)'
    BY <1>1, <1>5, <2>3 DEF DownloadTypeOK, KnowsTheLength
  <2> QED BY <2>1, <2>4 DEF OneUnderway, Underway, KnowsTheLength
<1>10. ~shared' /\ ~changed' => PartIsBeginning' /\ SourceIsOffered'
  <2> SUFFICES ASSUME ~shared, ~changed PROVE PartIsBeginning' /\ SourceIsOffered'
    BY <1>1
  <2>1. SourceIsOffered'
    BY <1>1 DEF DownloadTypeOK, SourceIsOffered
  <2>2. CASE blocks = <<>>
    BY <1>1, <1>5, <2>2, DownloadAssumption, <2>1 DEF PartIsBeginning, DownloadTypeOK
  <2>3. CASE blocks # <<>>
    <3>1. partFile # NoFile /\ f = partFile /\ blocks = content[partFile]
      BY <2>3, <1>6, <1>7 DEF f
    <3> QED BY <1>1, <1>5, <3>1, <2>1 DEF PartIsBeginning
  <2> QED BY <2>2, <2>3
<1>11. InstalledWhole'
  BY <1>1, <1>3, <1>5 DEF DownloadTypeOK, InstalledWhole, Whole
<1> QED BY <1>8, <1>9, <1>10, <1>11

LEMMA ReceiveChunkKeeps ==
  ASSUME DownloadIInv, NEW d \in Download, ReceiveChunk(d)
  PROVE  DownloadIInv'
<1> USE DEF DownloadIInv
<1> DEFINE f == handle[d]
<1> DEFINE b == <<source[d], received[d] + 1>>
<1> DEFINE old == content[f]
<1> DEFINE blocks == IF append[d] THEN Append(old, b) ELSE WrittenAt(old, received[d] + 1, b)
<1>1. /\ phaseOf[d] = "body" /\ received[d] < VersionSize[source[d]]
      /\ content' = [content EXCEPT ![f] = blocks]
      /\ received' = [received EXCEPT ![d] = received[d] + 1]
      /\ UNCHANGED <<offered, partFile, finalFile, phaseOf, resumed, append, source,
                      handle, shared, changed>>
  BY DEF ReceiveChunk
<1>2. f \in Inode /\ old \in Seq(Block) /\ received[d] \in Nat /\ b \in Block
  BY <1>1, BlocksTyped DEF DownloadTypeOK
<1>3. blocks \in Seq(Block)
  <2>1. Append(old, b) \in Seq(Block)
    BY <1>2
  <2>2. WrittenAt(old, received[d] + 1, b) \in Seq(Block)
    <3>1. received[d] + 1 \in Nat \ {0}
      BY <1>2
    <3> HIDE DEF old, b
    <3> QED BY <1>2, <3>1, WrittenTyped
  <2> QED BY <2>1, <2>2
<1>4. received[d] = Len(old) => blocks = Append(old, b)
  BY <1>2 DEF WrittenAt
<1> HIDE DEF blocks
<1>5. content'[f] = blocks /\ \A g \in Inode : g # f => content'[g] = content[g]
  BY <1>1, <1>2 DEF DownloadTypeOK
<1>6. DownloadTypeOK'
  BY <1>1, <1>2, <1>3 DEF DownloadTypeOK
<1>7. ~shared => /\ \A e \in Download : e # d => ~Underway(e) /\ ~Underway(e)'
                 /\ f = partFile /\ received[d] = Len(old)
  BY <1>1 DEF DownloadTypeOK, OneUnderway, Underway, KnowsTheLength
<1>8. ~shared => blocks = Append(old, b) /\ Len(blocks) = Len(old) + 1
  BY <1>2, <1>4, <1>7
<1>9. ~shared' => OneUnderway' /\ \A e \in Download : KnowsTheLength(e)'
  <2> SUFFICES ASSUME ~shared PROVE OneUnderway' /\ \A e \in Download : KnowsTheLength(e)'
    BY <1>1
  <2>1. KnowsTheLength(d)'
    BY <1>1, <1>2, <1>5, <1>7, <1>8 DEF DownloadTypeOK, KnowsTheLength
  <2> QED BY <1>7, <2>1 DEF OneUnderway, Underway, KnowsTheLength
<1>10. ~shared' /\ ~changed' => PartIsBeginning' /\ SourceIsOffered'
  <2> SUFFICES ASSUME ~shared, ~changed PROVE PartIsBeginning' /\ SourceIsOffered'
    BY <1>1
  <2>1. SourceIsOffered' /\ source[d] = offered
    BY <1>1 DEF SourceIsOffered
  <2>2. Len(blocks) <= VersionSize[offered]
    <3>1. VersionSize[offered] \in Nat
      BY DownloadAssumption DEF DownloadTypeOK
    <3> QED BY <1>1, <1>2, <1>7, <1>8, <2>1, <3>1
  <2>3. ASSUME NEW i \in 1 .. Len(blocks) PROVE blocks[i] = <<offered, i>>
    <3>1. \A j \in 1 .. Len(old) : old[j] = <<offered, j>>
      BY <1>2, <1>7, DownloadAssumption DEF PartIsBeginning
    <3>2. CASE i = Len(old) + 1
      BY <1>2, <1>7, <1>8, <2>1, <3>2
    <3>3. CASE i # Len(old) + 1
      <4>1. i \in 1 .. Len(old) /\ blocks = Append(old, b)
        BY <1>2, <1>8, <3>3
      <4>2. blocks[i] = old[i]
        <5> HIDE DEF old, b
        <5> QED BY <1>2, <4>1
      <4> QED BY <3>1, <4>1, <4>2
    <3> QED BY <3>2, <3>3
  <2> QED BY <1>1, <1>5, <1>7, <2>1, <2>2, <2>3 DEF PartIsBeginning
<1>11. InstalledWhole'
  <2>1. ~shared => finalFile # f
    BY <1>2, <1>7, DownloadAssumption DEF DownloadTypeOK
  <2> QED BY <1>1, <1>5, <2>1 DEF DownloadTypeOK, InstalledWhole, Whole
<1> QED BY <1>6, <1>9, <1>10, <1>11

LEMMA FinishDownloadKeeps ==
  ASSUME DownloadIInv, NEW d \in Download, FinishDownload(d)
  PROVE  DownloadIInv'
<1> USE DEF DownloadIInv
<1>1. PICK next \in {"done", "idle"} : LeaveDownload(d, next)
  BY DEF FinishDownload
<1>2. /\ phaseOf[d] = "body" /\ received[d] = VersionSize[source[d]]
      /\ UNCHANGED <<offered, content, shared, changed>>
      /\ IF partFile = NoFile THEN UNCHANGED <<partFile, finalFile>>
         ELSE finalFile' = partFile /\ partFile' = NoFile
  BY DEF FinishDownload
<1>3. DownloadTypeOK'
  BY <1>1, <1>2, LeaveTyped, DownloadAssumption DEF DownloadTypeOK
<1>4. ~shared' => OneUnderway' /\ \A e \in Download : KnowsTheLength(e)'
  <2> SUFFICES ASSUME ~shared PROVE OneUnderway' /\ \A e \in Download : KnowsTheLength(e)'
    BY <1>2
  <2>1. \A e \in Download : ~Underway(e)'
    BY <1>1, <1>2, LeaveTyped DEF OneUnderway, Underway
  <2> QED BY <2>1 DEF OneUnderway, Underway, KnowsTheLength
<1>5. ~shared' /\ ~changed' => PartIsBeginning' /\ SourceIsOffered'
  <2> SUFFICES ASSUME ~shared, ~changed PROVE PartIsBeginning' /\ SourceIsOffered'
    BY <1>2
  <2>1. \A e \in Download : ~Underway(e)'
    BY <1>1, <1>2, LeaveTyped DEF OneUnderway, Underway
  <2> QED BY <1>2, <2>1 DEF PartIsBeginning, SourceIsOffered, Underway
<1>6. InstalledWhole'
  <2> SUFFICES ASSUME ~shared, ~changed, finalFile' # NoFile
               PROVE \E v \in Version : content[finalFile'] = Whole(v)
    BY <1>2 DEF InstalledWhole, Whole
  <2>1. partFile = handle[d] /\ partFile \in Inode /\ received[d] = Len(content[partFile])
    BY <1>2 DEF KnowsTheLength, DownloadTypeOK
  <2>2. source[d] = offered /\ offered \in Version
    BY <1>2 DEF SourceIsOffered, DownloadTypeOK
  <2>3. finalFile' = partFile /\ partFile # NoFile
    BY <1>2, <2>1, DownloadAssumption
  <2>4. content[partFile] \in Seq(Block) /\ Len(content[partFile]) = VersionSize[offered]
    BY <1>2, <2>1, <2>2 DEF DownloadTypeOK
  <2>5. \A i \in 1 .. VersionSize[offered] : content[partFile][i] = <<offered, i>>
    BY <2>3, <2>4 DEF PartIsBeginning
  <2>6. content[partFile] = [i \in 1 .. VersionSize[offered] |-> <<offered, i>>]
    <3> DEFINE s == content[partFile]
    <3> HIDE DEF s
    <3>1. s \in Seq(Block) /\ Len(s) = VersionSize[offered]
      BY <2>4 DEF s
    <3>2. s = [i \in 1 .. Len(s) |-> s[i]]
      BY <3>1
    <3>3. \A i \in 1 .. VersionSize[offered] : s[i] = <<offered, i>>
      BY <2>5 DEF s
    <3>4. s = [i \in 1 .. VersionSize[offered] |-> <<offered, i>>]
      BY <3>1, <3>2, <3>3
    <3> QED BY <3>4 DEF s
  <2> QED BY <2>2, <2>3, <2>6 DEF Whole
<1> QED BY <1>3, <1>4, <1>5, <1>6

LEMMA FailDownloadKeeps ==
  ASSUME DownloadIInv, NEW d \in Download, FailDownload(d)
  PROVE  DownloadIInv'
<1> USE DEF DownloadIInv
<1>1. LeaveDownload(d, "idle") /\ UNCHANGED <<offered, partFile, finalFile, content, shared, changed>>
  BY DEF FailDownload, fileVars
<1>2. DownloadTypeOK'
  BY <1>1, LeaveTyped DEF DownloadTypeOK
<1>3. ~shared' => OneUnderway' /\ \A e \in Download : KnowsTheLength(e)'
  <2> SUFFICES ASSUME ~shared PROVE OneUnderway' /\ \A e \in Download : KnowsTheLength(e)'
    BY <1>1
  <2>1. \A e \in Download : ~Underway(e)'
    BY <1>1, LeaveTyped DEF FailDownload, OneUnderway, Underway
  <2> QED BY <2>1 DEF OneUnderway, Underway, KnowsTheLength
<1>4. ~shared' /\ ~changed' => PartIsBeginning' /\ SourceIsOffered'
  BY <1>1, LeaveTyped DEF PartIsBeginning, SourceIsOffered
<1>5. InstalledWhole'
  BY <1>1 DEF InstalledWhole, Whole
<1> QED BY <1>2, <1>3, <1>4, <1>5

LEMMA CutDownloadsKeeps == DownloadIInv /\ CutDownloads => DownloadIInv'
<1> SUFFICES ASSUME DownloadIInv, CutDownloads PROVE DownloadIInv'
  OBVIOUS
<1> USE DEF DownloadIInv
<1>1. 1 \in Version
  BY DownloadAssumption DEF Version
<1>2. DownloadTypeOK'
  BY <1>1 DEF CutDownloads, DownloadTypeOK, fileVars
<1>3. \A e \in Download : ~Underway(e)'
  BY DEF CutDownloads, Underway
<1>4. OneUnderway' /\ SourceIsOffered' /\ \A e \in Download : KnowsTheLength(e)'
  BY <1>3 DEF OneUnderway, Underway, KnowsTheLength, SourceIsOffered
<1>5. ~shared' /\ ~changed' => PartIsBeginning'
  BY DEF CutDownloads, PartIsBeginning, fileVars
<1>6. InstalledWhole'
  BY DEF CutDownloads, InstalledWhole, Whole, fileVars
<1> QED BY <1>2, <1>4, <1>5, <1>6

LEMMA OfferVersionKeeps == DownloadIInv /\ OfferVersion => DownloadIInv'
<1> SUFFICES ASSUME DownloadIInv, OfferVersion PROVE DownloadIInv'
  OBVIOUS
<1> USE DEF DownloadIInv
<1>1. offered + 1 \in Version
  BY DownloadAssumption DEF OfferVersion, DownloadTypeOK, Version
<1>2. DownloadTypeOK'
  BY <1>1 DEF OfferVersion, DownloadTypeOK, loadVars
<1>3. ~shared' => OneUnderway' /\ \A e \in Download : KnowsTheLength(e)'
  BY DEF OfferVersion, OneUnderway, Underway, KnowsTheLength, PartLength, loadVars
<1>4. ~shared' /\ ~changed' => PartIsBeginning' /\ SourceIsOffered'
  BY DEF OfferVersion, DownloadTypeOK, PartIsBeginning, SourceIsOffered, loadVars
<1>5. InstalledWhole'
  BY DEF OfferVersion, DownloadTypeOK, InstalledWhole, Whole, loadVars
<1> QED BY <1>2, <1>3, <1>4, <1>5

LEMMA DownloadUnchangedKeeps == DownloadIInv /\ UNCHANGED downloadVars => DownloadIInv'
BY DEF downloadVars, fileVars, loadVars, DownloadIInv, DownloadTypeOK, OneUnderway, Underway,
       KnowsTheLength, PartLength, PartIsBeginning, SourceIsOffered, InstalledWhole, Whole

\* Every reachable state of downloads satisfies the inductive invariant: who
\* downloads alone knows the length of the part, and the part is the beginning of
\* the file that is offered, through failures, cuts, resumptions and servers that
\* ignore ranges.
THEOREM DownloadIInvCorrect == DownloadSpec => []DownloadIInv
<1>1. DownloadIInv /\ [DownloadNext]_downloadVars => DownloadIInv'
  BY StartDownloadKeeps, AnswerDownloadKeeps, OpenPartKeeps, ReceiveChunkKeeps,
     FinishDownloadKeeps, FailDownloadKeeps, CutDownloadsKeeps, OfferVersionKeeps,
     DownloadUnchangedKeeps
  DEF DownloadNext, DownloadStep
<1> QED BY <1>1, DownloadInitIInv, PTL DEF DownloadSpec

\* A model file in place is one whole version of the file, and the progress that
\* is shown is the length of the part (ModelRegistry::download), unless two
\* downloads worked at once or the file changed under a part of it.
THEOREM DownloadCorrect == DownloadSpec => []DownloadInv
<1>1. DownloadIInv => DownloadInv
  BY DEF DownloadIInv, DownloadInv, ProgressTrue, KnowsTheLength
<1> QED BY <1>1, DownloadIInvCorrect, PTL

--------------------------------------------------------------------------------

(* The models of the panel. *)

ScanTask ==
  [kind : {"scan"}, at : {"directory", "aliases", "over"}, aliases : SUBSET ModelPath,
   seen : SUBSET ModelPath, alone : BOOLEAN]
DownloadTask == [kind : {"download"}, path : InDirectory, done : BOOLEAN]
StartTask == [kind : {"start"}, model : ModelPath \union {NoModel}, swap : BOOLEAN]
StopTask == [kind : {"stopped"}]
PanelTask == {IdleSlot} \union ScanTask \union DownloadTask \union StartTask \union StopTask

PanelTyped ==
  /\ PanelTypeOK
  /\ tasks \in [Slot -> PanelTask]
  /\ modal.model \in ModelPath \union {NoModel}
  /\ raced \in BOOLEAN /\ crossed \in BOOLEAN

\* A scan that nothing overtook is the only one that fills the list, and what it has
\* seen is what there is where it looked.
AloneIsAlone ==
  \A t \in Slot :
    tasks[t].kind = "scan" /\ tasks[t].alone =>
      /\ Listing = {t} /\ tasks[t].aliases = aliases
      /\ tasks[t].at = "directory" => tasks[t].seen = {}
      /\ tasks[t].at = "aliases" => tasks[t].seen = files \intersect InDirectory
      /\ tasks[t].at = "over" => tasks[t].seen = Visible

\* While nothing was overtaken, at most one task fills the list: a scan that is alone,
\* or a download, and then the list only lacks what that has installed.
ListFollows ==
  ~raced =>
    /\ \A t, u \in Listing : t = u
    /\ \A t \in Listing : tasks[t].kind = "scan" => tasks[t].alone
    /\ \A t \in Listing :
         tasks[t].kind = "download" =>
           IF tasks[t].done THEN Listed \union {tasks[t].path} = Visible ELSE Listed = Visible
    /\ Listing = {} => Listed = Visible

\* A start that crossed no other is the only one, and it is for the pending model.
StartIsPending ==
  ~crossed =>
    /\ \A t, u \in Starts : t = u
    /\ \A t \in Starts : tasks[t].model # NoModel => pending = tasks[t].model

\* The inductive invariant of the models of the panel.
PanelIInv == PanelTyped /\ AloneIsAlone /\ ListFollows /\ StartIsPending /\ ActiveIsServed

LEMMA IdleIsNone == ASSUME NEW x \in PanelTask PROVE x = IdleSlot <=> x.kind = "none"
BY DEF PanelTask, IdleSlot, ScanTask, DownloadTask, StartTask, StopTask

\* A task is what its kind says.
LEMMA KindOfTask ==
  ASSUME NEW x \in PanelTask
  PROVE  /\ x.kind = "scan" => x \in ScanTask
         /\ x.kind = "download" => x \in DownloadTask
         /\ x.kind = "start" => x \in StartTask
BY DEF PanelTask, IdleSlot, ScanTask, DownloadTask, StartTask, StopTask

LEMMA ListedInOrder ==
  ASSUME NEW S \in SUBSET ModelPath, NEW l \in InOrder(S)
  PROVE  l \in Seq(ModelPath) /\ {l[i] : i \in DOMAIN l} = S
<1> DEFINE n == Cardinality(S)
<1>1. IsFiniteSet(S) /\ n \in Nat
  BY PanelAssumption, FS_Subset, FS_CardinalityType
<1> HIDE DEF n
<1>2. l \in [1 .. n -> S] /\ \A i, j \in 1 .. n : i < j => l[i] < l[j]
  BY DEF InOrder, n
<1>3. l \in Injection(1 .. n, S)
  <2>1. ASSUME NEW i \in 1 .. n, NEW j \in 1 .. n, l[i] = l[j] PROVE i = j
    <3>1. l[i] \in Nat /\ l[j] \in Nat
      BY <1>2, PanelAssumption
    <3>2. i < j => FALSE
      BY <1>2, <2>1, <3>1
    <3>3. j < i => FALSE
      BY <1>2, <2>1, <3>1
    <3> QED BY <1>1, <3>2, <3>3
  <2> QED BY <1>2, <2>1 DEF Injection, IsInjective
<1>4. Cardinality(1 .. n) = n
  BY <1>1, FS_Interval
<1>5. l \in Surjection(1 .. n, S)
  BY <1>1, <1>3, <1>4, FS_Injection DEF n
<1>6. l \in Seq(ModelPath)
  BY <1>1, <1>2
<1> QED BY <1>2, <1>5, <1>6 DEF Surjection

--------------------------------------------------------------------------------

(* Changes of the tasks. *)

LEMMA EndsTask ==
  ASSUME PanelTyped, NEW t \in Slot, TaskEnds(t), tasks[t].kind # "none"
  PROVE  /\ tasks' \in [Slot -> PanelTask] /\ tasks'[t] = IdleSlot
         /\ \A u \in Slot : u # t => tasks'[u] = tasks[u]
         /\ Listing' = Listing \ {t} /\ Starts' = Starts \ {t}
<1>1. tasks' = [tasks EXCEPT ![t] = IdleSlot] /\ IdleSlot \in PanelTask
  BY DEF TaskEnds, PanelTask
<1>2. tasks' \in [Slot -> PanelTask] /\ tasks'[t] = IdleSlot
  BY <1>1 DEF PanelTyped
<1>3. \A u \in Slot : u # t => tasks'[u] = tasks[u]
  BY <1>1 DEF PanelTyped
<1> QED BY <1>2, <1>3 DEF Listing, Starts, Open

LEMMA OvertakenTasks ==
  ASSUME PanelTyped
  PROVE  /\ Overtaken(tasks) \in [Slot -> PanelTask]
         /\ \A u \in Slot :
              /\ Overtaken(tasks)[u].kind = tasks[u].kind
              /\ tasks[u].kind # "scan" => Overtaken(tasks)[u] = tasks[u]
              /\ tasks[u].kind = "scan" => ~Overtaken(tasks)[u].alone
<1>1. ASSUME NEW u \in Slot, tasks[u].kind = "scan"
      PROVE  LET x == [tasks[u] EXCEPT !.alone = FALSE] IN
             x \in PanelTask /\ x.kind = "scan" /\ ~x.alone
  <2> DEFINE old == tasks[u]
  <2>1. old \in ScanTask
    BY <1>1, KindOfTask DEF PanelTyped
  <2> HIDE DEF old
  <2> DEFINE x == [old EXCEPT !.alone = FALSE]
  <2>2. x \in ScanTask /\ x.kind = "scan" /\ ~x.alone
    BY <2>1 DEF ScanTask
  <2> QED BY <2>2 DEF PanelTask, old
<1>2. \A u \in Slot : tasks[u] \in PanelTask
  BY DEF PanelTyped
<1> QED BY <1>1, <1>2 DEF Overtaken

LEMMA BeginsTask ==
  ASSUME PanelTyped, NEW ts \in [Slot -> PanelTask], NEW launched \in PanelTask,
         \A u \in Slot : ts[u].kind = tasks[u].kind,
         launched.kind # "none", BeginAmong(ts, launched)
  PROVE  /\ tasks' \in [Slot -> PanelTask]
         /\ \E t \in Slot : /\ tasks[t].kind = "none" /\ tasks'[t] = launched
                            /\ \A u \in Slot : u # t => tasks'[u] = ts[u]
<1>1. PICK t \in Slot \ Open : tasks' = [ts EXCEPT ![t] = launched]
  BY DEF BeginAmong
<1>2. tasks[t].kind = "none"
  BY <1>1, IdleIsNone DEF Open, PanelTyped
<1> QED BY <1>1, <1>2

\* Tasks by what they are, as their slots.
LEMMA TasksByKind ==
  ASSUME NEW x \in [Slot -> PanelTask], x = tasks
  PROVE  /\ Listing = {t \in Slot : x[t].kind \in {"scan", "download"}}
         /\ Starts = {t \in Slot : x[t].kind = "start"}
         /\ Open = {t \in Slot : x[t].kind # "none"}
BY IdleIsNone DEF Listing, Starts, Open

\* Nothing changes of what fills the list.
ListingKept ==
  /\ UNCHANGED <<files, aliases, list, raced>>
  /\ tasks' \in [Slot -> PanelTask]
  /\ \A u \in Slot : {tasks[u].kind, tasks'[u].kind} \intersect {"scan", "download"} # {} => tasks'[u] = tasks[u]

LEMMA ListingKeptKeeps == PanelIInv /\ ListingKept => AloneIsAlone' /\ ListFollows'
<1> SUFFICES ASSUME PanelIInv, ListingKept PROVE AloneIsAlone' /\ ListFollows'
  OBVIOUS
<1>1. Listing = {t \in Slot : tasks[t].kind \in {"scan", "download"}}
  BY TasksByKind DEF PanelIInv, PanelTyped
<1>2. Listing' = {t \in Slot : tasks'[t].kind \in {"scan", "download"}}
  BY IdleIsNone DEF ListingKept, Listing, Open
<1>3. Listing' = Listing /\ \A t \in Listing : tasks'[t] = tasks[t]
  BY <1>1, <1>2 DEF ListingKept
<1>4. AloneIsAlone'
  <2>1. \A t \in Slot : tasks'[t].kind = "scan" => tasks'[t] = tasks[t]
    BY DEF ListingKept
  <2> QED BY <1>3, <2>1 DEF PanelIInv, AloneIsAlone, Visible, ListingKept
<1>5. ListFollows'
  BY <1>3 DEF PanelIInv, ListFollows, Listed, Visible, ListingKept
<1> QED BY <1>4, <1>5

\* Nothing changes of the starts.
StartsKept ==
  /\ UNCHANGED <<pending, crossed>>
  /\ tasks' \in [Slot -> PanelTask]
  /\ \A u \in Slot : "start" \in {tasks[u].kind, tasks'[u].kind} => tasks'[u] = tasks[u]

LEMMA StartsKeptKeeps == PanelIInv /\ StartsKept => StartIsPending'
<1> SUFFICES ASSUME PanelIInv, StartsKept PROVE StartIsPending'
  OBVIOUS
<1>1. Starts = {t \in Slot : tasks[t].kind = "start"}
  BY TasksByKind DEF PanelIInv, PanelTyped
<1>2. Starts' = {t \in Slot : tasks'[t].kind = "start"}
  BY IdleIsNone DEF StartsKept, Starts, Open
<1>3. Starts' = Starts /\ \A t \in Starts : tasks'[t] = tasks[t]
  BY <1>1, <1>2 DEF StartsKept
<1> QED BY <1>3 DEF PanelIInv, StartIsPending, StartsKept

--------------------------------------------------------------------------------

(* Steps that only move in the list, select, or open and close a dialog.      *)

LEMMA PanelInitIInv == PanelInit => PanelIInv
<1> SUFFICES ASSUME PanelInit PROVE PanelIInv
  OBVIOUS
<1>1. PICK t \in Slot : tasks = [s \in Slot |-> IF s = t THEN Scan({}, TRUE) ELSE IdleSlot]
  BY DEF PanelInit
<1>2. Scan({}, TRUE) \in ScanTask /\ Scan({}, TRUE).kind = "scan" /\ Scan({}, TRUE).at = "directory"
      /\ Scan({}, TRUE).aliases = {} /\ Scan({}, TRUE).seen = {}
  BY DEF Scan, ScanTask
<1>3. tasks \in [Slot -> PanelTask] /\ tasks[t] = Scan({}, TRUE) /\ \A u \in Slot : u # t => tasks[u] = IdleSlot
  BY <1>1, <1>2 DEF PanelTask
<1>4. IdleSlot.kind = "none"
  BY DEF IdleSlot
<1> HIDE DEF IdleSlot
<1>5. Scan({}, TRUE) # IdleSlot
  BY <1>2, <1>4
<1>6. Listing = {t} /\ Starts = {}
  BY <1>2, <1>3, <1>4, TasksByKind
<1>7. PanelTyped
  <2>1. \E u \in Open : tasks[u].kind = "scan"
    BY <1>2, <1>3, <1>5 DEF Open
  <2>2. list \in Seq(ModelPath) /\ selected \in DOMAIN list \union {1}
    BY DEF PanelInit
  <2>3. modal.kind = "none" /\ modal.model = NoModel
    BY DEF PanelInit, NoModal
  <2>4. PanelTypeOK
    BY <2>1, <2>2, <2>3 DEF PanelInit, PanelTypeOK
  <2> QED BY <1>3, <2>3, <2>4 DEF PanelInit, PanelTyped
<1>8. AloneIsAlone
  BY <1>2, <1>3, <1>4, <1>6 DEF PanelInit, AloneIsAlone
<1>9. ListFollows /\ StartIsPending /\ ActiveIsServed
  BY <1>6 DEF PanelInit, ListFollows, StartIsPending, ActiveIsServed
<1> QED BY <1>7, <1>8, <1>9 DEF PanelIInv

\* A step that leaves the tasks, the files and the server alone.
Looks == UNCHANGED <<files, aliases, list, scanning, raced, servingVars, modelTaskVars>>

LEMMA LooksKeeps ==
  ASSUME PanelIInv, Looks, selected' \in DOMAIN list' \union {1},
         lastUsed' \in ModelPath \union {NoModel},
         modal'.kind \in {"none", "delete", "swap", "alias"},
         modal'.model \in ModelPath \union {NoModel}
  PROVE  PanelIInv'
<1>1. PanelTyped'
  BY DEF PanelIInv, PanelTyped, PanelTypeOK, Looks, servingVars, modelTaskVars, Open
<1>2. ListingKept /\ StartsKept
  BY DEF PanelIInv, PanelTyped, Looks, ListingKept, StartsKept, servingVars, modelTaskVars
<1>3. ActiveIsServed'
  BY DEF PanelIInv, ActiveIsServed, Looks, servingVars
<1> QED BY <1>1, <1>2, <1>3, ListingKeptKeeps, StartsKeptKeeps DEF PanelIInv

LEMMA PlacesTyped ==
  ASSUME PanelIInv
  PROVE  /\ list \in Seq(ModelPath) /\ selected \in DOMAIN list \union {1}
         /\ Highlighted \in ModelPath \union {NoModel}
         /\ list # <<>> => NextPlace \in DOMAIN list /\ NextInList \in ModelPath
         /\ modal.kind \in {"none", "delete", "swap", "alias"}
         /\ modal.model \in ModelPath \union {NoModel}
         /\ lastUsed \in ModelPath \union {NoModel}
<1>1. list \in Seq(ModelPath) /\ selected \in DOMAIN list \union {1}
  BY DEF PanelIInv, PanelTyped, PanelTypeOK
<1>2. Highlighted \in ModelPath \union {NoModel}
  BY <1>1 DEF Highlighted
<1>3. list # <<>> => NextPlace \in DOMAIN list
  <2> SUFFICES ASSUME list # <<>> PROVE NextPlace \in DOMAIN list
    OBVIOUS
  <2>1. Len(list) \in Nat \ {0} /\ DOMAIN list = 1 .. Len(list)
    BY <1>1, EmptySeq
  <2> QED BY <1>1, <2>1 DEF NextPlace
<1>4. list # <<>> => NextInList \in ModelPath
  BY <1>1, <1>3 DEF NextInList
<1> QED BY <1>1, <1>2, <1>3, <1>4 DEF PanelIInv, PanelTyped, PanelTypeOK

LEMMA LookingKeeps ==
  ASSUME PanelIInv, KeyMove \/ KeySelect \/ KeyOpens \/ KeyCancels \/ DeleteFails \/ KeyNext
  PROVE  PanelIInv'
<1>1. CASE KeyMove
  <2>1. Looks /\ selected' \in DOMAIN list' /\ UNCHANGED <<lastUsed, modal>>
    BY <1>1 DEF KeyMove, Looks
  <2> QED BY <2>1, PlacesTyped, LooksKeeps
<1>2. CASE KeySelect
  <2>1. Looks /\ lastUsed' = Highlighted /\ UNCHANGED <<selected, modal>>
    BY <1>2 DEF KeySelect, Looks
  <2> QED BY <2>1, PlacesTyped, LooksKeeps DEF Looks
<1>3. CASE KeyOpens
  <2>1. PICK kind \in {"delete", "alias", "swap"}, model \in ModelPath \union {NoModel} :
          OpenDialog(kind, model)
    BY <1>3, PlacesTyped DEF KeyOpens
  <2>2. Looks /\ modal' = [kind |-> kind, model |-> model] /\ UNCHANGED <<selected, lastUsed>>
    BY <2>1 DEF OpenDialog, Looks, listVars
  <2> QED BY <2>2, PlacesTyped, LooksKeeps DEF Looks
<1>4. CASE KeyCancels \/ DeleteFails
  <2>1. Looks /\ modal' = NoModal /\ UNCHANGED <<selected, lastUsed>>
    BY <1>4 DEF KeyCancels, DeleteFails, Looks, listVars
  <2> QED BY <2>1, PlacesTyped, LooksKeeps DEF Looks, NoModal
<1>5. CASE KeyNext
  <2>1. Looks /\ selected' = NextPlace /\ lastUsed' = NextInList /\ UNCHANGED modal /\ list # <<>>
    BY <1>5 DEF KeyNext, Looks
  <2> QED BY <2>1, PlacesTyped, LooksKeeps DEF Looks
<1> QED BY <1>1, <1>2, <1>3, <1>4, <1>5

--------------------------------------------------------------------------------

(* Tasks that fill the list.                                                  *)

LEMMA TypesOf ==
  ASSUME PanelIInv
  PROVE  /\ PanelTyped /\ PanelTypeOK /\ tasks \in [Slot -> PanelTask]
         /\ \A t \in Slot : /\ tasks[t].kind = "scan" => tasks[t] \in ScanTask
                            /\ tasks[t].kind = "download" => tasks[t] \in DownloadTask
                            /\ tasks[t].kind = "start" => tasks[t] \in StartTask
         /\ Listing = {t \in Slot : tasks[t].kind \in {"scan", "download"}}
         /\ Starts = {t \in Slot : tasks[t].kind = "start"}
         /\ Open = {t \in Slot : tasks[t].kind # "none"}
BY KindOfTask, TasksByKind DEF PanelIInv, PanelTyped

\* What fills the list after a step.
LEMMA ListingNext ==
  ASSUME tasks' \in [Slot -> PanelTask]
  PROVE  /\ Listing' = {t \in Slot : tasks'[t].kind \in {"scan", "download"}}
         /\ Starts' = {t \in Slot : tasks'[t].kind = "start"}
         /\ Open' = {t \in Slot : tasks'[t].kind # "none"}
BY IdleIsNone DEF Listing, Starts, Open

LEMMA ScanReadsKeeps ==
  ASSUME PanelIInv, NEW t \in Slot, ScanReads(t)
  PROVE  PanelIInv'
<1> DEFINE old == tasks[t]
<1> DEFINE here == IF old.at = "directory" THEN InDirectory ELSE old.aliases
<1> DEFINE next == IF old.at = "directory" THEN "aliases" ELSE "over"
<1> DEFINE new == [old EXCEPT !.seen = old.seen \union (files \intersect here), !.at = next]
<1>1. /\ old.kind = "scan" /\ old.at # "over" /\ tasks' = [tasks EXCEPT ![t] = new]
      /\ UNCHANGED <<files, aliases, list, selected, scanning, lastUsed, raced, modal, status,
                      pending, active, held, crossed, begun>>
  BY DEF ScanReads, listVars, servingVars
<1>2. old \in ScanTask /\ files \subseteq ModelPath
  BY <1>1, TypesOf DEF PanelTypeOK
<1>3. next \in {"aliases", "over"} /\ here \subseteq ModelPath
  BY <1>2, PanelAssumption DEF ScanTask
<1> HIDE DEF old, here, next
<1>4. new \in ScanTask /\ new.kind = "scan" /\ new.alone = old.alone /\ new.aliases = old.aliases
      /\ new.at = next /\ new.seen = old.seen \union (files \intersect here)
  BY <1>2, <1>3 DEF ScanTask
<1> HIDE DEF new
<1>5. tasks' \in [Slot -> PanelTask] /\ tasks'[t] = new /\ \A u \in Slot : u # t => tasks'[u] = tasks[u]
  BY <1>1, <1>4, TypesOf DEF PanelTask
<1>6. Listing' = Listing /\ Starts' = Starts /\ Open' = Open
  <2>1. \A u \in Slot : tasks'[u].kind = tasks[u].kind
    BY <1>1, <1>4, <1>5 DEF old
  <2>2. /\ Listing = {u \in Slot : tasks[u].kind \in {"scan", "download"}}
        /\ Starts = {u \in Slot : tasks[u].kind = "start"}
        /\ Open = {u \in Slot : tasks[u].kind # "none"}
    BY TypesOf
  <2>3. /\ Listing' = {u \in Slot : tasks'[u].kind \in {"scan", "download"}}
        /\ Starts' = {u \in Slot : tasks'[u].kind = "start"}
        /\ Open' = {u \in Slot : tasks'[u].kind # "none"}
    BY <1>5, ListingNext
  <2> QED BY <2>1, <2>2, <2>3
<1>7. PanelTyped'
  BY <1>1, <1>4, <1>5, <1>6, TypesOf DEF PanelTyped, PanelTypeOK
<1>8. AloneIsAlone'
  <2>1. ASSUME new.alone
        PROVE  /\ Listing = {t} /\ new.aliases = aliases
               /\ new.at = "aliases" => new.seen = files \intersect InDirectory
               /\ new.at = "over" => new.seen = Visible
    <3>1. /\ Listing = {t} /\ old.aliases = aliases
          /\ old.at = "aliases" => old.seen = files \intersect InDirectory
          /\ old.at = "directory" => old.seen = {}
      BY <1>1, <1>4, <2>1 DEF PanelIInv, AloneIsAlone, old
    <3> QED BY <1>1, <1>2, <1>4, <3>1 DEF ScanTask, here, next, Visible
  <2>2. ASSUME NEW u \in Slot, u # t, tasks'[u].kind = "scan", tasks'[u].alone
        PROVE  /\ Listing = {u} /\ tasks[u].aliases = aliases
               /\ tasks[u].at = "directory" => tasks[u].seen = {}
               /\ tasks[u].at = "aliases" => tasks[u].seen = files \intersect InDirectory
               /\ tasks[u].at = "over" => tasks[u].seen = Visible
    BY <1>5, <2>2 DEF PanelIInv, AloneIsAlone
  <2>3. Visible' = Visible /\ new.at # "directory"
    BY <1>1, <1>3, <1>4 DEF Visible
  <2> QED BY <1>1, <1>4, <1>5, <1>6, <2>1, <2>2, <2>3 DEF AloneIsAlone
<1>9. ListFollows'
  BY <1>1, <1>4, <1>5, <1>6 DEF PanelIInv, ListFollows, Visible, Listed, old
<1>10. StartIsPending' /\ ActiveIsServed'
  <2>1. \A u \in Starts : tasks'[u] = tasks[u]
    BY <1>1, <1>5, TypesOf DEF old
  <2> QED BY <1>1, <1>6, <2>1 DEF PanelIInv, StartIsPending, ActiveIsServed
<1> QED BY <1>7, <1>8, <1>9, <1>10 DEF PanelIInv

LEMMA ScanCompletesKeeps ==
  ASSUME PanelIInv, NEW t \in Slot, ScanCompletes(t)
  PROVE  PanelIInv'
<1>1. /\ tasks[t].kind = "scan" /\ tasks[t].at = "over" /\ list' \in InOrder(tasks[t].seen)
      /\ selected' = IF selected \in DOMAIN list' THEN selected
                     ELSE IF list' = <<>> THEN 1 ELSE Len(list')
      /\ scanning' = FALSE /\ raced' = (raced /\ ~tasks[t].alone) /\ TaskEnds(t)
      /\ UNCHANGED <<files, aliases, lastUsed, modal, status, pending, active, held, crossed>>
  BY DEF ScanCompletes, servingVars
<1>2. tasks[t] \in ScanTask
  BY <1>1, TypesOf
<1>3. tasks[t].seen \subseteq ModelPath /\ tasks[t].alone \in BOOLEAN
  BY <1>2 DEF ScanTask
<1>4. list' \in Seq(ModelPath) /\ Listed' = tasks[t].seen
  BY <1>1, <1>3, ListedInOrder DEF Listed
<1>5. selected' \in DOMAIN list' \union {1}
  <2>1. list' # <<>> => Len(list') \in DOMAIN list'
    BY <1>4, EmptySeq
  <2> QED BY <1>1, <2>1
<1>6. /\ tasks' \in [Slot -> PanelTask] /\ tasks'[t] = IdleSlot
      /\ \A u \in Slot : u # t => tasks'[u] = tasks[u]
      /\ Listing' = Listing \ {t} /\ Starts' = Starts \ {t}
  BY <1>1, TypesOf, EndsTask
<1>7. PanelTyped'
  BY <1>1, <1>3, <1>4, <1>5, <1>6, TypesOf DEF PanelTyped, PanelTypeOK
<1>8. tasks'[t].kind = "none"
  BY <1>6 DEF IdleSlot
<1>9. AloneIsAlone'
  <2> SUFFICES ASSUME NEW u \in Slot, tasks'[u].kind = "scan", tasks'[u].alone PROVE FALSE
    BY DEF AloneIsAlone
  <2>1. u # t /\ tasks[u].kind = "scan" /\ tasks[u].alone
    BY <1>6, <1>8
  <2>2. t \in Listing /\ Listing = {u}
    BY <1>1, <2>1, TypesOf DEF PanelIInv, AloneIsAlone
  <2> QED BY <2>1, <2>2
<1>10. ListFollows'
  <2> SUFFICES ASSUME ~raced' PROVE Listing' = {} /\ Listed' = Visible'
    BY DEF ListFollows
  <2>1. tasks[t].alone
    BY <1>1, <1>3, TypesOf DEF PanelIInv, ListFollows
  <2>2. Listing = {t} /\ tasks[t].seen = Visible
    BY <1>1, <2>1 DEF PanelIInv, AloneIsAlone
  <2> QED BY <1>1, <1>4, <1>6, <2>2 DEF Visible
<1>11. StartIsPending' /\ ActiveIsServed'
  <2>1. Starts' = Starts /\ \A u \in Starts : tasks'[u] = tasks[u]
    BY <1>1, <1>6, TypesOf
  <2> QED BY <1>1, <2>1 DEF PanelIInv, StartIsPending, ActiveIsServed
<1> QED BY <1>7, <1>9, <1>10, <1>11 DEF PanelIInv

LEMMA DownloadInstallsKeeps ==
  ASSUME PanelIInv, NEW t \in Slot, DownloadInstalls(t)
  PROVE  PanelIInv'
<1> DEFINE old == tasks[t]
<1> DEFINE new == [old EXCEPT !.done = TRUE]
<1> DEFINE ts == Overtaken(tasks)
<1>1. /\ old.kind = "download" /\ ~old.done /\ tasks' = [ts EXCEPT ![t] = new]
      /\ files' = files \union {old.path}
      /\ UNCHANGED <<aliases, list, selected, scanning, lastUsed, raced, modal, status,
                      pending, active, held, crossed, begun>>
  BY DEF DownloadInstalls, servingVars
<1>2. old \in DownloadTask
  BY <1>1, TypesOf
<1> HIDE DEF old
<1>3. new \in DownloadTask /\ new.kind = "download" /\ new.done /\ new.path = old.path
      /\ old.path \in InDirectory
  BY <1>2 DEF DownloadTask
<1>4. /\ ts \in [Slot -> PanelTask]
      /\ \A u \in Slot : /\ ts[u].kind = tasks[u].kind
                         /\ tasks[u].kind # "scan" => ts[u] = tasks[u]
                         /\ tasks[u].kind = "scan" => ~ts[u].alone
  BY TypesOf, OvertakenTasks
<1> HIDE DEF new, ts
<1>5. tasks' \in [Slot -> PanelTask] /\ tasks'[t] = new /\ \A u \in Slot : u # t => tasks'[u] = ts[u]
  BY <1>1, <1>3, <1>4 DEF PanelTask
<1>6. Listing' = Listing /\ Starts' = Starts /\ Open' = Open
  <2>1. \A u \in Slot : tasks'[u].kind = tasks[u].kind
    BY <1>1, <1>3, <1>4, <1>5 DEF old
  <2>2. /\ Listing = {u \in Slot : tasks[u].kind \in {"scan", "download"}}
        /\ Starts = {u \in Slot : tasks[u].kind = "start"}
        /\ Open = {u \in Slot : tasks[u].kind # "none"}
    BY TypesOf
  <2>3. /\ Listing' = {u \in Slot : tasks'[u].kind \in {"scan", "download"}}
        /\ Starts' = {u \in Slot : tasks'[u].kind = "start"}
        /\ Open' = {u \in Slot : tasks'[u].kind # "none"}
    BY <1>5, ListingNext
  <2> QED BY <2>1, <2>2, <2>3
<1>7. PanelTyped'
  <2>1. files' \subseteq ModelPath
    BY <1>1, <1>3, PanelAssumption, TypesOf DEF PanelTypeOK
  <2>2. scanning' => \E u \in Open' : tasks'[u].kind = "scan"
    BY <1>1, <1>4, <1>5, <1>6, TypesOf DEF PanelTypeOK, old
  <2> QED BY <1>1, <1>5, <2>1, <2>2, TypesOf DEF PanelTyped, PanelTypeOK
<1>8. AloneIsAlone'
  BY <1>3, <1>4, <1>5 DEF AloneIsAlone
<1>9. ListFollows'
  <2> SUFFICES ASSUME ~raced PROVE ListFollows'
    BY <1>1 DEF ListFollows
  <2>1. t \in Listing
    BY <1>1, TypesOf DEF old
  <2>2. Listing = {t} /\ Listed = Visible
    BY <1>1, <2>1 DEF PanelIInv, ListFollows, old
  <2>3. Visible' = Visible \union {old.path} /\ Listed' = Listed
    BY <1>1, <1>3 DEF Visible, Listed
  <2> QED BY <1>3, <1>5, <1>6, <2>2, <2>3 DEF ListFollows
<1>10. StartIsPending' /\ ActiveIsServed'
  <2>1. \A u \in Starts : tasks'[u] = tasks[u]
    BY <1>1, <1>4, <1>5, TypesOf DEF old
  <2> QED BY <1>1, <1>6, <2>1 DEF PanelIInv, StartIsPending, ActiveIsServed
<1> QED BY <1>7, <1>8, <1>9, <1>10 DEF PanelIInv

\* A download that is over, listed or not.
LEMMA DownloadEndsKeeps ==
  ASSUME PanelIInv, NEW t \in Slot, DownloadCompletes(t) \/ DownloadFails(t)
  PROVE  PanelIInv'
<1>1. /\ tasks[t].kind = "download" /\ TaskEnds(t)
      /\ \/ tasks[t].done /\ list' = Append(list, tasks[t].path) /\ lastUsed' = tasks[t].path
         \/ ~tasks[t].done /\ list' = list /\ lastUsed' = lastUsed
      /\ UNCHANGED <<files, aliases, selected, scanning, raced, modal, status,
                      pending, active, held, crossed>>
  BY DEF DownloadCompletes, DownloadFails, listVars, servingVars
<1>2. tasks[t].path \in ModelPath
  <2>1. tasks[t] \in DownloadTask
    BY <1>1, TypesOf
  <2> QED BY <2>1, PanelAssumption DEF DownloadTask
<1>3. /\ tasks' \in [Slot -> PanelTask] /\ tasks'[t] = IdleSlot
      /\ \A u \in Slot : u # t => tasks'[u] = tasks[u]
      /\ Listing' = Listing \ {t} /\ Starts' = Starts \ {t}
  BY <1>1, TypesOf, EndsTask
<1>4. tasks'[t].kind = "none"
  BY <1>3 DEF IdleSlot
<1>5. /\ list' \in Seq(ModelPath) /\ selected \in DOMAIN list' \union {1}
      /\ Listed' = IF tasks[t].done THEN Listed \union {tasks[t].path} ELSE Listed
  <2>1. list \in Seq(ModelPath) /\ selected \in DOMAIN list \union {1}
    BY TypesOf DEF PanelTypeOK
  <2>2. CASE tasks[t].done
    <3> DEFINE p == tasks[t].path
    <3> HIDE DEF p
    <3>1. list' = Append(list, p) /\ p \in ModelPath
      BY <1>1, <1>2, <2>2 DEF p
    <3>2. /\ list' \in Seq(ModelPath) /\ Len(list') = Len(list) + 1 /\ list'[Len(list) + 1] = p
          /\ \A i \in 1 .. Len(list) : list'[i] = list[i]
      BY <2>1, <3>1
    <3>3. DOMAIN list' = 1 .. Len(list) + 1 /\ DOMAIN list = 1 .. Len(list) /\ Len(list) \in Nat
      BY <2>1, <3>2
    <3>4. Listed' = Listed \union {p}
      BY <3>2, <3>3 DEF Listed
    <3> QED BY <2>1, <2>2, <3>2, <3>3, <3>4 DEF p
  <2>3. CASE ~tasks[t].done
    BY <1>1, <2>1, <2>3 DEF Listed
  <2> QED BY <2>2, <2>3
<1>6. PanelTyped'
  <2>1. scanning' => \E u \in Open' : tasks'[u].kind = "scan"
    <3> SUFFICES ASSUME scanning PROVE \E u \in Open' : tasks'[u].kind = "scan"
      BY <1>1
    <3>1. PICK u \in Open : tasks[u].kind = "scan"
      BY TypesOf DEF PanelTypeOK
    <3>2. u \in Slot /\ u # t /\ tasks'[u] = tasks[u]
      BY <1>1, <1>3, <3>1 DEF Open
    <3> QED BY <3>1, <3>2 DEF Open
  <2> QED BY <1>1, <1>2, <1>3, <1>5, <2>1, TypesOf DEF PanelTyped, PanelTypeOK
<1>7. AloneIsAlone'
  <2> SUFFICES ASSUME NEW u \in Slot, tasks'[u].kind = "scan", tasks'[u].alone PROVE FALSE
    BY DEF AloneIsAlone
  <2>1. u # t /\ tasks[u].kind = "scan" /\ tasks[u].alone
    BY <1>3, <1>4
  <2>2. t \in Listing /\ Listing = {u}
    BY <1>1, <2>1, TypesOf DEF PanelIInv, AloneIsAlone
  <2> QED BY <2>1, <2>2
<1>8. ListFollows'
  <2> SUFFICES ASSUME ~raced PROVE Listing' = {} /\ Listed' = Visible'
    BY <1>1 DEF ListFollows
  <2>1. t \in Listing
    BY <1>1, TypesOf
  <2>2. /\ Listing = {t}
        /\ IF tasks[t].done THEN Listed \union {tasks[t].path} = Visible ELSE Listed = Visible
    BY <1>1, <2>1 DEF PanelIInv, ListFollows
  <2> QED BY <1>1, <1>3, <1>5, <2>2 DEF Visible
<1>9. StartIsPending' /\ ActiveIsServed'
  <2>1. Starts' = Starts /\ \A u \in Starts : tasks'[u] = tasks[u]
    BY <1>1, <1>3, TypesOf
  <2> QED BY <1>1, <2>1 DEF PanelIInv, StartIsPending, ActiveIsServed
<1> QED BY <1>6, <1>7, <1>8, <1>9 DEF PanelIInv

\* A scan or a download that begins overtakes the scans under way.
LEMMA BeginsListing ==
  ASSUME PanelIInv, NEW launched \in ScanTask \union DownloadTask, BeginListing(launched),
         launched.kind = "scan" =>
           /\ launched.at = "directory" /\ launched.seen = {} /\ launched.aliases = aliases'
           /\ launched.alone => Listing = {}
           /\ Listing = {} => launched.alone,
         launched.kind = "download" => ~launched.done /\ UNCHANGED <<files, aliases>>,
         UNCHANGED <<list, servingVars>>
  PROVE  /\ tasks' \in [Slot -> PanelTask] /\ raced' \in BOOLEAN
         /\ \E t \in Slot : tasks'[t].kind = launched.kind
         /\ scanning => \E t \in Slot : tasks'[t].kind = "scan"
         /\ AloneIsAlone' /\ ListFollows' /\ StartIsPending' /\ ActiveIsServed'
<1> DEFINE ts == Overtaken(tasks)
<1>1. /\ ts \in [Slot -> PanelTask]
      /\ \A u \in Slot : /\ ts[u].kind = tasks[u].kind
                         /\ tasks[u].kind # "scan" => ts[u] = tasks[u]
                         /\ tasks[u].kind = "scan" => ~ts[u].alone
  BY TypesOf, OvertakenTasks
<1>2. BeginAmong(ts, launched) /\ raced' = (raced \/ Listing # {})
  BY DEF BeginListing
<1> HIDE DEF ts
<1>3. launched \in PanelTask /\ launched.kind \in {"scan", "download"}
  BY DEF PanelTask, ScanTask, DownloadTask
<1>4. PICK t \in Slot : /\ tasks' \in [Slot -> PanelTask]
                        /\ tasks[t].kind = "none" /\ tasks'[t] = launched
                        /\ \A u \in Slot : u # t => tasks'[u] = ts[u]
  BY <1>1, <1>2, <1>3, TypesOf, BeginsTask
<1>5. /\ Listing = {u \in Slot : tasks[u].kind \in {"scan", "download"}}
      /\ Starts = {u \in Slot : tasks[u].kind = "start"}
      /\ Open = {u \in Slot : tasks[u].kind # "none"}
  BY TypesOf
<1>6. /\ Listing' = {u \in Slot : tasks'[u].kind \in {"scan", "download"}}
      /\ Starts' = {u \in Slot : tasks'[u].kind = "start"}
  BY <1>4, ListingNext
<1>7. Listing' = Listing \union {t} /\ Starts' = Starts
  BY <1>1, <1>3, <1>4, <1>5, <1>6
<1>8. scanning => \E u \in Slot : tasks'[u].kind = "scan"
  <2> SUFFICES ASSUME scanning PROVE \E u \in Slot : tasks'[u].kind = "scan"
    OBVIOUS
  <2>1. PICK u \in Open : tasks[u].kind = "scan"
    BY TypesOf DEF PanelTypeOK
  <2>2. u \in Slot /\ u # t
    BY <1>4, <1>5, <2>1
  <2> QED BY <1>1, <1>4, <2>1, <2>2
<1>9. AloneIsAlone'
  <2> SUFFICES ASSUME NEW u \in Slot, tasks'[u].kind = "scan", tasks'[u].alone
               PROVE  /\ Listing' = {u} /\ tasks'[u].aliases = aliases'
                      /\ tasks'[u].at = "directory" /\ tasks'[u].seen = {}
    BY DEF AloneIsAlone
  <2>1. u = t
    BY <1>1, <1>4
  <2> QED BY <1>4, <1>7, <2>1
<1>10. ListFollows'
  <2> SUFFICES ASSUME ~raced' PROVE ListFollows'
    BY DEF ListFollows
  <2>1. ~raced /\ Listing = {} /\ Listing' = {t} /\ Listed = Visible
    BY <1>2, <1>7, TypesOf DEF PanelIInv, ListFollows, PanelTyped
  <2>2. launched.kind = "download" => Listed' = Visible'
    BY <2>1 DEF Listed, Visible
  <2> QED BY <1>3, <1>4, <2>1, <2>2 DEF ListFollows
<1>11. StartIsPending' /\ ActiveIsServed'
  <2>1. \A u \in Starts : tasks'[u] = tasks[u]
    BY <1>1, <1>4, <1>5
  <2> QED BY <1>7, <2>1 DEF PanelIInv, StartIsPending, ActiveIsServed, servingVars
<1>12. raced' \in BOOLEAN
  BY <1>2, TypesOf DEF PanelTyped
<1> QED BY <1>4, <1>8, <1>9, <1>10, <1>11, <1>12

LEMMA ScanTyped ==
  ASSUME NEW known \in SUBSET ModelPath, NEW alone \in BOOLEAN
  PROVE  LET launched == Scan(known, alone) IN
         /\ launched \in ScanTask /\ launched.kind = "scan" /\ launched.at = "directory"
         /\ launched.seen = {} /\ launched.aliases = known /\ launched.alone = alone
BY DEF Scan, ScanTask

\* A step that begins to fill the list.
LEMMA FillingKeeps ==
  ASSUME PanelIInv, KeyScan \/ KeyDownload \/ ConfirmsDelete \/ ConfirmsAlias
  PROVE  PanelIInv'
<1>1. /\ files \subseteq ModelPath /\ aliases \subseteq ModelPath /\ lastUsed \in ModelPath \union {NoModel}
      /\ raced \in BOOLEAN
  BY TypesOf DEF PanelTypeOK, PanelTyped
<1>2. ASSUME tasks' \in [Slot -> PanelTask], raced' \in BOOLEAN, UNCHANGED <<list, selected, servingVars>>,
             files' \subseteq ModelPath, aliases' \subseteq ModelPath,
             lastUsed' \in ModelPath \union {NoModel},
             modal' \in {modal, NoModal},
             scanning' => \E t \in Slot : tasks'[t].kind = "scan"
      PROVE  PanelTyped'
  <2>1. Open' = {t \in Slot : tasks'[t].kind # "none"}
    BY <1>2, ListingNext
  <2>2. scanning' => \E t \in Open' : tasks'[t].kind = "scan"
    BY <1>2, <2>1
  <2>3. NoModal.kind = "none" /\ NoModal.model = NoModel
    BY DEF NoModal
  <2> QED BY <1>2, <2>2, <2>3, TypesOf DEF PanelTyped, PanelTypeOK, servingVars
<1>3. CASE KeyScan
  <2> DEFINE launched == Scan(aliases, Listing = {})
  <2>1. /\ launched \in ScanTask /\ launched.kind = "scan" /\ launched.at = "directory"
        /\ launched.seen = {} /\ launched.aliases = aliases /\ launched.alone = (Listing = {})
    BY <1>1, ScanTyped
  <2> HIDE DEF launched
  <2>2. BeginListing(launched) /\ UNCHANGED <<files, aliases, list, selected, lastUsed, modal, servingVars>>
    BY <1>3 DEF KeyScan, launched
  <2>3. /\ tasks' \in [Slot -> PanelTask] /\ raced' \in BOOLEAN
        /\ \E t \in Slot : tasks'[t].kind = "scan"
        /\ AloneIsAlone' /\ ListFollows' /\ StartIsPending' /\ ActiveIsServed'
    BY <2>1, <2>2, BeginsListing
  <2> QED BY <1>1, <1>2, <2>2, <2>3 DEF PanelIInv
<1>4. CASE KeyDownload
  <2>1. PICK p \in InDirectory : BeginListing([kind |-> "download", path |-> p, done |-> FALSE])
    BY <1>4 DEF KeyDownload
  <2> DEFINE launched == [kind |-> "download", path |-> p, done |-> FALSE]
  <2>2. launched \in DownloadTask /\ launched.kind = "download" /\ ~launched.done
    BY DEF DownloadTask
  <2> HIDE DEF launched
  <2>3. BeginListing(launched) /\ UNCHANGED <<files, aliases, list, selected, scanning, lastUsed, modal, servingVars>>
    BY <1>4, <2>1 DEF KeyDownload, launched
  <2>4. /\ tasks' \in [Slot -> PanelTask] /\ raced' \in BOOLEAN
        /\ scanning => \E t \in Slot : tasks'[t].kind = "scan"
        /\ AloneIsAlone' /\ ListFollows' /\ StartIsPending' /\ ActiveIsServed'
    BY <2>2, <2>3, BeginsListing
  <2> QED BY <1>1, <1>2, <2>3, <2>4 DEF PanelIInv
<1>5. CASE ConfirmsDelete
  <2> DEFINE launched == Scan(aliases, Listing = {})
  <2>1. /\ launched \in ScanTask /\ launched.kind = "scan" /\ launched.at = "directory"
        /\ launched.seen = {} /\ launched.aliases = aliases /\ launched.alone = (Listing = {})
    BY <1>1, ScanTyped
  <2> HIDE DEF launched
  <2>2. /\ BeginListing(launched) /\ files' = files \ {modal.model} /\ modal' = NoModal
        /\ lastUsed' \in {lastUsed, NoModel}
        /\ UNCHANGED <<aliases, list, selected, scanning, servingVars>>
    BY <1>5 DEF ConfirmsDelete, launched
  <2>3. /\ tasks' \in [Slot -> PanelTask] /\ raced' \in BOOLEAN
        /\ \E t \in Slot : tasks'[t].kind = "scan"
        /\ AloneIsAlone' /\ ListFollows' /\ StartIsPending' /\ ActiveIsServed'
    BY <2>1, <2>2, BeginsListing
  <2> QED BY <1>1, <1>2, <2>2, <2>3 DEF PanelIInv
<1>6. CASE ConfirmsAlias
  <2>1. PICK p \in files : /\ aliases' = aliases \union {p}
                          /\ BeginListing(Scan(aliases \union {p}, Listing = {}))
    BY <1>6 DEF ConfirmsAlias
  <2> DEFINE launched == Scan(aliases \union {p}, Listing = {})
  <2>2. /\ launched \in ScanTask /\ launched.kind = "scan" /\ launched.at = "directory"
        /\ launched.seen = {} /\ launched.aliases = aliases \union {p} /\ launched.alone = (Listing = {})
    <3>1. aliases \union {p} \in SUBSET ModelPath /\ (Listing = {}) \in BOOLEAN
      BY <1>1
    <3> QED BY <3>1, ScanTyped
  <2> HIDE DEF launched
  <2>3. /\ BeginListing(launched) /\ modal' = NoModal
        /\ UNCHANGED <<files, list, selected, scanning, lastUsed, servingVars>>
    BY <1>6, <2>1 DEF ConfirmsAlias, launched
  <2>4. /\ tasks' \in [Slot -> PanelTask] /\ raced' \in BOOLEAN
        /\ \E t \in Slot : tasks'[t].kind = "scan"
        /\ AloneIsAlone' /\ ListFollows' /\ StartIsPending' /\ ActiveIsServed'
    BY <2>1, <2>2, <2>3, BeginsListing
  <2> QED BY <1>1, <1>2, <2>1, <2>3, <2>4 DEF PanelIInv
<1> QED BY <1>3, <1>4, <1>5, <1>6

--------------------------------------------------------------------------------

(* Starts and stops of the server.                                            *)

LEMMA BeginsServing ==
  ASSUME PanelIInv, NEW launched \in StartTask \union StopTask, Begin(launched),
         UNCHANGED <<files, aliases, list, scanning, raced>>
  PROVE  /\ tasks' \in [Slot -> PanelTask] /\ ListingKept
         /\ scanning' => \E u \in Open' : tasks'[u].kind = "scan"
         /\ \E t \in Slot : /\ tasks[t].kind = "none" /\ tasks'[t] = launched
                            /\ \A u \in Slot : u # t => tasks'[u] = tasks[u]
                            /\ Starts' = IF launched.kind = "start" THEN Starts \union {t} ELSE Starts
<1>1. launched \in PanelTask /\ launched.kind \in {"start", "stopped"}
  BY DEF PanelTask, StartTask, StopTask
<1>2. PICK t \in Slot : /\ tasks' \in [Slot -> PanelTask]
                        /\ tasks[t].kind = "none" /\ tasks'[t] = launched
                        /\ \A u \in Slot : u # t => tasks'[u] = tasks[u]
  BY <1>1, TypesOf, BeginsTask DEF Begin
<1>3. ListingKept
  BY <1>1, <1>2 DEF ListingKept
<1>4. Starts = {u \in Slot : tasks[u].kind = "start"} /\ Open = {u \in Slot : tasks[u].kind # "none"}
  BY TypesOf
<1>5. Starts' = {u \in Slot : tasks'[u].kind = "start"} /\ Open' = {u \in Slot : tasks'[u].kind # "none"}
  BY <1>2, ListingNext
<1>6. Starts' = IF launched.kind = "start" THEN Starts \union {t} ELSE Starts
  BY <1>1, <1>2, <1>4, <1>5
<1>7. scanning' => \E u \in Open' : tasks'[u].kind = "scan"
  <2> SUFFICES ASSUME scanning PROVE \E u \in Open' : tasks'[u].kind = "scan"
    OBVIOUS
  <2>1. PICK u \in Open : tasks[u].kind = "scan"
    BY TypesOf DEF PanelTypeOK
  <2> QED BY <1>2, <1>4, <1>5, <2>1
<1> QED BY <1>2, <1>3, <1>6, <1>7

LEMMA EndsServing ==
  ASSUME PanelIInv, NEW t \in Slot, TaskEnds(t), tasks[t].kind \in {"start", "stopped"},
         UNCHANGED <<files, aliases, list, scanning, raced>>
  PROVE  /\ tasks' \in [Slot -> PanelTask] /\ ListingKept
         /\ scanning' => \E u \in Open' : tasks'[u].kind = "scan"
         /\ tasks'[t] = IdleSlot /\ \A u \in Slot : u # t => tasks'[u] = tasks[u]
         /\ Starts' = Starts \ {t}
<1>1. /\ tasks' \in [Slot -> PanelTask] /\ tasks'[t] = IdleSlot
      /\ \A u \in Slot : u # t => tasks'[u] = tasks[u]
      /\ Starts' = Starts \ {t}
  BY TypesOf, EndsTask
<1>2. ListingKept
  <2>1. tasks'[t].kind = "none"
    BY <1>1 DEF IdleSlot
  <2> QED BY <1>1, <2>1 DEF ListingKept
<1>3. Open = {u \in Slot : tasks[u].kind # "none"} /\ Open' = {u \in Slot : tasks'[u].kind # "none"}
  BY <1>1, TypesOf, ListingNext
<1>4. scanning' => \E u \in Open' : tasks'[u].kind = "scan"
  <2> SUFFICES ASSUME scanning PROVE \E u \in Open' : tasks'[u].kind = "scan"
    OBVIOUS
  <2>1. PICK u \in Open : tasks[u].kind = "scan"
    BY TypesOf DEF PanelTypeOK
  <2> QED BY <1>1, <1>3, <2>1
<1> QED BY <1>1, <1>2, <1>4

\* The types of what a start or a stop changes.
LEMMA ServingTyped ==
  ASSUME PanelIInv, tasks' \in [Slot -> PanelTask],
         UNCHANGED <<files, aliases, list, scanning, raced>>,
         scanning' => \E u \in Open' : tasks'[u].kind = "scan",
         selected' \in DOMAIN list \union {1}, lastUsed' \in ModelPath \union {NoModel},
         modal' \in {modal, NoModal}, status' \in {"Stopped", "Starting", "Ready", "Failed"},
         pending' \in ModelPath \union {NoModel}, active' \in ModelPath \union {NoModel},
         held' \in ModelPath \union {NoModel}, crossed' \in BOOLEAN
  PROVE  PanelTyped'
<1>1. NoModal.kind = "none" /\ NoModal.model = NoModel
  BY DEF NoModal
<1> QED BY <1>1, TypesOf DEF PanelTyped, PanelTypeOK

LEMMA LaunchOrRefused ==
  ASSUME PanelIInv, UNCHANGED <<files, aliases, list, scanning, raced>>,
         NEW m \in ModelPath \union {NoModel}, NEW swap \in BOOLEAN,
         \/ Refused
         \/ Launch(m, swap)
  PROVE  /\ tasks' \in [Slot -> PanelTask] /\ ListingKept
         /\ scanning' => \E u \in Open' : tasks'[u].kind = "scan"
         /\ crossed' \in BOOLEAN /\ pending' \in ModelPath \union {NoModel}
         /\ StartIsPending'
         /\ Refused => (crossed => crossed')
<1>1. pending \in ModelPath \union {NoModel} /\ crossed \in BOOLEAN
  BY TypesOf DEF PanelTyped, PanelTypeOK
<1>2. CASE Refused
  <2> DEFINE launched == [kind |-> "start", model |-> NoModel, swap |-> FALSE]
  <2>1. launched \in StartTask /\ launched.kind = "start" /\ launched.model = NoModel
    BY DEF StartTask
  <2> HIDE DEF launched
  <2>2. Begin(launched) /\ crossed' = (crossed \/ Starts # {}) /\ pending' = pending
    BY <1>2 DEF Refused, launched
  <2>3. /\ tasks' \in [Slot -> PanelTask] /\ ListingKept
        /\ scanning' => \E u \in Open' : tasks'[u].kind = "scan"
    BY <2>1, <2>2, BeginsServing
  <2>4. PICK t \in Slot : tasks'[t] = launched /\ Starts' = Starts \union {t}
    BY <2>1, <2>2, BeginsServing
  <2>5. StartIsPending'
    BY <2>1, <2>2, <2>4 DEF StartIsPending
  <2> QED BY <1>1, <2>2, <2>3, <2>5
<1>3. CASE Launch(m, swap)
  <2> DEFINE launched == [kind |-> "start", model |-> m, swap |-> swap]
  <2>1. launched \in StartTask /\ launched.kind = "start" /\ launched.model = m
    BY DEF StartTask
  <2> HIDE DEF launched
  <2>2. Begin(launched) /\ crossed' = (Starts # {}) /\ pending' = m
    BY <1>3 DEF Launch, launched
  <2>3. /\ tasks' \in [Slot -> PanelTask] /\ ListingKept
        /\ scanning' => \E u \in Open' : tasks'[u].kind = "scan"
    BY <2>1, <2>2, BeginsServing
  <2>4. PICK t \in Slot : tasks'[t] = launched /\ Starts' = Starts \union {t}
    BY <2>1, <2>2, BeginsServing
  <2>5. StartIsPending'
    BY <2>1, <2>2, <2>4 DEF StartIsPending
  <2>6. Refused => pending' = pending /\ crossed' = (crossed \/ Starts # {})
    BY DEF Refused
  <2> QED BY <1>1, <2>2, <2>3, <2>5, <2>6
<1> QED BY <1>2, <1>3

LEMMA KeyStartKeeps == PanelIInv /\ KeyStart => PanelIInv'
<1> SUFFICES ASSUME PanelIInv, KeyStart PROVE PanelIInv'
  OBVIOUS
<1>1. /\ status' = "Starting" /\ UNCHANGED <<held, active, modal, selected, lastUsed>>
      /\ UNCHANGED <<files, aliases, list, scanning, raced>>
      /\ Refused \/ (ModelToServe # NoModel /\ Launch(ModelToServe, FALSE))
  BY DEF KeyStart, Refused, listVars
<1>2. ModelToServe \in ModelPath \union {NoModel}
  BY PlacesTyped DEF ModelToServe
<1>3. /\ tasks' \in [Slot -> PanelTask] /\ ListingKept
      /\ scanning' => \E u \in Open' : tasks'[u].kind = "scan"
      /\ crossed' \in BOOLEAN /\ pending' \in ModelPath \union {NoModel} /\ StartIsPending'
  BY <1>1, <1>2, LaunchOrRefused
<1>4. PanelTyped'
  BY <1>1, <1>3, TypesOf, PlacesTyped, ServingTyped DEF PanelTypeOK
<1>5. ActiveIsServed'
  BY <1>1 DEF ActiveIsServed
<1> QED BY <1>3, <1>4, <1>5, ListingKeptKeeps DEF PanelIInv

LEMMA ConfirmsSwapKeeps == PanelIInv /\ ConfirmsSwap => PanelIInv'
<1> SUFFICES ASSUME PanelIInv, ConfirmsSwap PROVE PanelIInv'
  OBVIOUS
<1>1. /\ modal' = NoModal /\ UNCHANGED <<status, active, selected, lastUsed>>
      /\ UNCHANGED <<files, aliases, list, scanning, raced>>
      /\ \/ Refused /\ held' = held
         \/ Launch(modal.model, TRUE) /\ held' = NoModel
  BY DEF ConfirmsSwap, Refused, listVars
<1>2. modal.model \in ModelPath \union {NoModel}
  BY PlacesTyped
<1>3. /\ tasks' \in [Slot -> PanelTask] /\ ListingKept
      /\ scanning' => \E u \in Open' : tasks'[u].kind = "scan"
      /\ crossed' \in BOOLEAN /\ pending' \in ModelPath \union {NoModel} /\ StartIsPending'
      /\ Refused => (crossed => crossed')
  BY <1>1, <1>2, LaunchOrRefused
<1>4. PanelTyped'
  BY <1>1, <1>3, TypesOf, PlacesTyped, ServingTyped DEF PanelTypeOK
<1>5. ActiveIsServed'
  BY <1>1, <1>3 DEF PanelIInv, ActiveIsServed
<1> QED BY <1>3, <1>4, <1>5, ListingKeptKeeps DEF PanelIInv

LEMMA KeyStopKeeps == PanelIInv /\ KeyStop => PanelIInv'
<1> SUFFICES ASSUME PanelIInv, KeyStop PROVE PanelIInv'
  OBVIOUS
<1> DEFINE launched == [kind |-> "stopped"]
<1>1. launched \in StopTask /\ launched.kind = "stopped"
  BY DEF StopTask
<1> HIDE DEF launched
<1>2. /\ status' = "Stopped" /\ held' = NoModel /\ Begin(launched)
      /\ UNCHANGED <<modal, pending, active, crossed, selected, lastUsed>>
      /\ UNCHANGED <<files, aliases, list, scanning, raced>>
  BY DEF KeyStop, launched, listVars
<1>3. /\ tasks' \in [Slot -> PanelTask] /\ ListingKept
      /\ scanning' => \E u \in Open' : tasks'[u].kind = "scan"
  BY <1>1, <1>2, BeginsServing
<1>4. StartsKept
  <2>1. PICK t \in Slot : /\ tasks[t].kind = "none" /\ tasks'[t] = launched
                          /\ \A u \in Slot : u # t => tasks'[u] = tasks[u]
    BY <1>1, <1>2, BeginsServing
  <2> QED BY <1>1, <1>2, <1>3, <2>1 DEF StartsKept
<1>5. PanelTyped'
  BY <1>2, <1>3, TypesOf, PlacesTyped, ServingTyped DEF PanelTypeOK, PanelTyped
<1>6. ActiveIsServed'
  BY <1>2 DEF ActiveIsServed
<1> QED BY <1>3, <1>4, <1>5, <1>6, ListingKeptKeeps, StartsKeptKeeps DEF PanelIInv

LEMMA StopArrivesKeeps ==
  ASSUME PanelIInv, NEW t \in Slot, StopArrives(t)
  PROVE  PanelIInv'
<1>1. /\ tasks[t].kind = "stopped" /\ status' = "Stopped" /\ held' = NoModel /\ TaskEnds(t)
      /\ UNCHANGED <<modal, pending, active, crossed, selected, lastUsed>>
      /\ UNCHANGED <<files, aliases, list, scanning, raced>>
  BY DEF StopArrives, listVars
<1>2. /\ tasks' \in [Slot -> PanelTask] /\ ListingKept
      /\ scanning' => \E u \in Open' : tasks'[u].kind = "scan"
      /\ tasks'[t] = IdleSlot /\ \A u \in Slot : u # t => tasks'[u] = tasks[u]
  BY <1>1, EndsServing
<1>3. StartsKept
  <2>1. tasks'[t].kind = "none"
    BY <1>2 DEF IdleSlot
  <2> QED BY <1>1, <1>2, <2>1 DEF StartsKept
<1>4. PanelTyped'
  BY <1>1, <1>2, TypesOf, PlacesTyped, ServingTyped DEF PanelTypeOK, PanelTyped
<1>5. ActiveIsServed'
  BY <1>1 DEF ActiveIsServed
<1> QED BY <1>2, <1>3, <1>4, <1>5, ListingKeptKeeps, StartsKeptKeeps DEF PanelIInv

LEMMA StartFailsKeeps ==
  ASSUME PanelIInv, NEW t \in Slot, StartFails(t)
  PROVE  PanelIInv'
<1>1. /\ tasks[t].kind = "start" /\ status' = "Failed" /\ held' = NoModel /\ pending' = NoModel
      /\ TaskEnds(t)
      /\ UNCHANGED <<modal, active, crossed, selected, lastUsed>>
      /\ UNCHANGED <<files, aliases, list, scanning, raced>>
  BY DEF StartFails, listVars
<1>2. /\ tasks' \in [Slot -> PanelTask] /\ ListingKept
      /\ scanning' => \E u \in Open' : tasks'[u].kind = "scan"
      /\ Starts' = Starts \ {t}
  BY <1>1, EndsServing
<1>3. StartIsPending'
  <2>1. t \in Starts
    BY <1>1, TypesOf
  <2>2. ~crossed => Starts' = {}
    BY <1>2, <2>1 DEF PanelIInv, StartIsPending
  <2> QED BY <1>1, <2>2 DEF StartIsPending
<1>4. PanelTyped'
  BY <1>1, <1>2, TypesOf, PlacesTyped, ServingTyped DEF PanelTypeOK, PanelTyped
<1>5. ActiveIsServed'
  BY <1>1 DEF ActiveIsServed
<1> QED BY <1>2, <1>3, <1>4, <1>5, ListingKeptKeeps DEF PanelIInv

LEMMA StartSucceedsKeeps ==
  ASSUME PanelIInv, NEW t \in Slot, StartSucceeds(t)
  PROVE  PanelIInv'
<1> DEFINE m == tasks[t].model
<1>1. /\ tasks[t].kind = "start" /\ m # NoModel /\ status' = "Ready" /\ held' = m
      /\ active' = pending /\ pending' = NoModel /\ TaskEnds(t)
      /\ UNCHANGED <<modal, crossed>>
      /\ UNCHANGED <<files, aliases, list, scanning, raced>>
      /\ selected' \in DOMAIN list \union {selected} /\ lastUsed' \in {lastUsed, m}
  BY DEF StartSucceeds, listVars
<1>2. m \in ModelPath
  <2>1. tasks[t] \in StartTask
    BY <1>1, TypesOf
  <2> QED BY <1>1, <2>1 DEF StartTask
<1>3. /\ tasks' \in [Slot -> PanelTask] /\ ListingKept
      /\ scanning' => \E u \in Open' : tasks'[u].kind = "scan"
      /\ Starts' = Starts \ {t}
  BY <1>1, EndsServing
<1>4. ~crossed => Starts = {t} /\ pending = m
  <2>1. t \in Starts
    BY <1>1, TypesOf
  <2> QED BY <1>1, <2>1 DEF PanelIInv, StartIsPending
<1>5. StartIsPending'
  BY <1>1, <1>3, <1>4 DEF StartIsPending
<1>6. PanelTyped'
  BY <1>1, <1>2, <1>3, TypesOf, PlacesTyped, ServingTyped DEF PanelTypeOK, PanelTyped
<1>7. ActiveIsServed'
  BY <1>1, <1>4 DEF ActiveIsServed
<1> QED BY <1>3, <1>5, <1>6, <1>7, ListingKeptKeeps DEF PanelIInv

LEMMA FilesChangeKeeps == PanelIInv /\ FilesChange => PanelIInv'
<1> SUFFICES ASSUME PanelIInv, FilesChange PROVE PanelIInv'
  OBVIOUS
<1>1. /\ \E p \in ModelPath : files' \in {files \union {p}, files \ {p}}
      /\ raced' = TRUE /\ tasks' = Overtaken(tasks)
      /\ UNCHANGED <<aliases, list, selected, scanning, lastUsed, modal, status, pending,
                      active, held, crossed, begun>>
  BY DEF FilesChange, servingVars
<1>2. /\ tasks' \in [Slot -> PanelTask]
      /\ \A u \in Slot : /\ tasks'[u].kind = tasks[u].kind
                         /\ tasks[u].kind # "scan" => tasks'[u] = tasks[u]
                         /\ tasks[u].kind = "scan" => ~tasks'[u].alone
  BY <1>1, TypesOf, OvertakenTasks
<1>3. Open' = {u \in Slot : tasks'[u].kind # "none"} /\ Open = {u \in Slot : tasks[u].kind # "none"}
  BY <1>2, TypesOf, ListingNext
<1>4. PanelTyped'
  <2>1. files' \subseteq ModelPath
    BY <1>1, TypesOf DEF PanelTypeOK
  <2>2. scanning' => \E u \in Open' : tasks'[u].kind = "scan"
    <3> SUFFICES ASSUME scanning PROVE \E u \in Open' : tasks'[u].kind = "scan"
      BY <1>1
    <3>1. PICK u \in Open : tasks[u].kind = "scan"
      BY TypesOf DEF PanelTypeOK
    <3> QED BY <1>2, <1>3, <3>1
  <2> QED BY <1>1, <1>2, <2>1, <2>2, TypesOf DEF PanelTyped, PanelTypeOK
<1>5. AloneIsAlone' /\ ListFollows'
  BY <1>1, <1>2 DEF AloneIsAlone, ListFollows
<1>6. StartsKept
  BY <1>1, <1>2 DEF StartsKept
<1>7. ActiveIsServed'
  BY <1>1 DEF PanelIInv, ActiveIsServed
<1> QED BY <1>4, <1>5, <1>6, <1>7, StartsKeptKeeps DEF PanelIInv

LEMMA PanelUnchangedKeeps == PanelIInv /\ UNCHANGED modelPanelVars => PanelIInv'
<1> SUFFICES ASSUME PanelIInv, UNCHANGED modelPanelVars PROVE PanelIInv'
  OBVIOUS
<1>1. Looks /\ UNCHANGED <<selected, lastUsed, modal>>
  BY DEF modelPanelVars, listVars, servingVars, modelTaskVars, Looks
<1> QED BY <1>1, PlacesTyped, LooksKeeps DEF Looks

\* Every reachable state of the panel's models satisfies the inductive invariant: a
\* scan that nothing overtook has seen what there is, the list lacks only what the one
\* download under way has installed, and a start that crossed no other is for the
\* pending model, whatever dialogs are open and in whatever order tasks answer.
THEOREM PanelIInvCorrect == PanelSpec => []PanelIInv
<1>1. PanelIInv /\ [PanelNext]_modelPanelVars => PanelIInv'
  BY LookingKeeps, FillingKeeps, KeyStartKeeps, KeyStopKeeps, ConfirmsSwapKeeps, FilesChangeKeeps,
     ScanReadsKeeps, ScanCompletesKeeps, DownloadInstallsKeeps, DownloadEndsKeeps,
     StartSucceedsKeeps, StartFailsKeeps, StopArrivesKeeps, PanelUnchangedKeeps
  DEF PanelNext, TaskGoesOn
<1> QED BY <1>1, PanelInitIInv, PTL DEF PanelSpec

\* Once no scan and no download is under way the list is of the models there are, and
\* the model that is shown as served is the one of the server that the loop holds, with
\* the exceptions that ListTrue and ActiveIsServed name (App::drain_events).
THEOREM PanelCorrect == PanelSpec => []PanelInv
<1>1. PanelIInv => PanelInv
  BY DEF PanelIInv, PanelTyped, PanelInv, ListFollows, ListTrue
<1> QED BY <1>1, PanelIInvCorrect, PTL

\* What a step may do while a dialog is open: delete the file that the dialog showed,
\* and start the model that it showed.
LEMMA ActsAsConfirmed ==
  PanelIInv /\ [PanelNext]_modelPanelVars =>
    /\ (modal.kind = "delete" /\ modal' = NoModal) => files \ files' \subseteq {modal.model}
    /\ modal.kind = "swap" =>
         \A t \in Slot : tasks[t] = IdleSlot /\ tasks'[t] # IdleSlot =>
           tasks'[t].model \in {modal.model, NoModel}
<1> SUFFICES ASSUME PanelIInv, [PanelNext]_modelPanelVars
             PROVE  /\ (modal.kind = "delete" /\ modal' = NoModal) => files \ files' \subseteq {modal.model}
                    /\ modal.kind = "swap" =>
                         \A t \in Slot : tasks[t] = IdleSlot /\ tasks'[t] # IdleSlot =>
                           tasks'[t].model \in {modal.model, NoModel}
  OBVIOUS
<1>1. NoModal.kind = "none" /\ IdleSlot.kind = "none"
  BY DEF NoModal, IdleSlot
<1>2. ASSUME modal.kind = "delete", modal' = NoModal PROVE files \ files' \subseteq {modal.model}
  <2>1. modal' # modal
    BY <1>1, <1>2
  <2>2. ConfirmsDelete \/ DeleteFails \/ KeyCancels
    BY <1>1, <1>2, <2>1
    DEF PanelNext, TaskGoesOn, modelPanelVars, KeyMove, KeySelect, KeyScan, KeyDownload, KeyOpens,
        OpenDialog, NoDialog, ConfirmsAlias, KeyStart, KeyStop, KeyNext, ConfirmsSwap, FilesChange,
        ScanReads, ScanCompletes, DownloadInstalls, DownloadCompletes, DownloadFails,
        StartSucceeds, StartFails, StopArrives
  <2> QED BY <2>2 DEF ConfirmsDelete, DeleteFails, KeyCancels, listVars
<1>3. ASSUME modal.kind = "swap", NEW t \in Slot, tasks[t] = IdleSlot, tasks'[t] # IdleSlot
      PROVE  tasks'[t].model \in {modal.model, NoModel}
  <2>1. CASE ConfirmsSwap
    <3>1. PICK launched \in {[kind |-> "start", model |-> NoModel, swap |-> FALSE],
                         [kind |-> "start", model |-> modal.model, swap |-> TRUE]} : Begin(launched)
      BY <2>1 DEF ConfirmsSwap, Refused, Launch
    <3>2. PICK u \in Slot : tasks' = [tasks EXCEPT ![u] = launched]
      BY <3>1 DEF Begin, BeginAmong
    <3>3. tasks'[t] = launched
      BY <1>3, <3>2, TypesOf
    <3>4. launched.model \in {modal.model, NoModel}
      BY <3>1
    <3> QED BY <3>3, <3>4
  <2>2. CASE UNCHANGED tasks
    BY <1>3, <2>2
  <2>3. CASE FilesChange
    BY <1>1, <1>3, <2>3, OvertakenTasks, TypesOf DEF FilesChange
  <2>4. ASSUME NEW u \in Slot, TaskGoesOn(u) PROVE FALSE
    <3>1. tasks[u].kind # "none"
      BY <2>4, <1>1 DEF TaskGoesOn, ScanReads, ScanCompletes, DownloadInstalls, DownloadCompletes,
         DownloadFails, StartSucceeds, StartFails, StopArrives
    <3>2. t # u
      BY <1>1, <1>3, <3>1
    <3>3. tasks'[t] \in {tasks[t], Overtaken(tasks)[t]}
      BY <2>4, <3>2, <1>3, TypesOf, OvertakenTasks
      DEF TaskGoesOn, TaskEnds, ScanReads, ScanCompletes, DownloadInstalls, DownloadCompletes,
          DownloadFails, StartSucceeds, StartFails, StopArrives
    <3>4. Overtaken(tasks)[t] = tasks[t]
      BY <1>1, <1>3, TypesOf, OvertakenTasks
    <3> QED BY <1>3, <3>3, <3>4
  <2>5. ~KeyScan /\ ~KeyDownload /\ ~ConfirmsDelete /\ ~ConfirmsAlias /\ ~KeyStart /\ ~KeyStop
    BY <1>1, <1>3 DEF KeyScan, KeyDownload, ConfirmsDelete, ConfirmsAlias, KeyStart, KeyStop, NoDialog
  <2>6. KeyMove \/ KeySelect \/ KeyOpens \/ KeyCancels \/ DeleteFails \/ KeyNext => UNCHANGED tasks
    BY DEF KeyMove, KeySelect, KeyOpens, OpenDialog, KeyCancels, DeleteFails, KeyNext, modelTaskVars
  <2> QED BY <2>1, <2>2, <2>3, <2>4, <2>5, <2>6 DEF PanelNext, modelPanelVars, modelTaskVars
<1> QED BY <1>2, <1>3

\* A dialog acts on the model it showed (ConfirmDeleteModel, ConfirmModelSwap), although
\* the list and the highlighted place changed while it was open.
THEOREM ConfirmedCorrect == PanelSpec => ActedAsConfirmed
<1>1. PanelIInv /\ [PanelNext]_modelPanelVars =>
        [/\ (modal.kind = "delete" /\ modal' = NoModal) => files \ files' \subseteq {modal.model}
         /\ modal.kind = "swap" =>
              \A t \in Slot : tasks[t] = IdleSlot /\ tasks'[t] # IdleSlot =>
                tasks'[t].model \in {modal.model, NoModel}]_modelPanelVars
  BY ActsAsConfirmed
<1> QED BY <1>1, PanelIInvCorrect, PTL DEF PanelSpec, ActedAsConfirmed

--------------------------------------------------------------------------------

(* The configuration that is handed over. *)

Between(k) == task[k].step \in {"renameAgent", "undo"}

\* Two updates of both files are not between their renames together.
OneBetween == ~split => \A j, k \in Configure : Between(j) /\ Between(k) => j = k

\* What both files are to be agrees.
NextAgrees(k) ==
  task[k].both /\ task[k].step \in {"backup", "backupAgent", "rename", "renameAgent", "undo"} =>
    task[k].next.model = task[k].nextAgent.route

\* The backup of an update of both files names the route that the file has before the
\* rename, and after it the one that the other file still has.
BackupAligned(k) ==
  /\ task[k].both /\ task[k].step \in {"backupAgent", "rename"} =>
       Config(task[k].backup).model = Config(opencode).model
  /\ Between(k) =>
       /\ task[k].both
       /\ Config(opencode).model = task[k].nextAgent.route
       /\ Config(task[k].backup).model = openagent.config.route

\* A rollback sets the files apart.  Only an update of both looks for conflicts twice
\* and backs up twice, and it always sets the route.
ApartWhenRolledBack(k) == task[k].step = "write" => split
BothRoute(k) ==
  /\ task[k].step \in {"check", "backupAgent"} => task[k].both
  /\ task[k].both => task[k].routing.model

AlignedParts ==
  /\ OneBetween
  /\ \A k \in Configure : NextAgrees(k) /\ ApartWhenRolledBack(k) /\ BothRoute(k)
  /\ ~split => \A k \in Configure : BackupAligned(k)

\* What a command decided is so of the file as long as that did not change.
NextIsMerged(k) ==
  task[k].step \in {"backup", "backupAgent", "rename"} /\ k \notin stale =>
    task[k].next = Merged(Config(opencode), task[k].want, task[k].routing)

ConsentHolds(k) ==
  k \notin stale /\ ~task[k].force /\
    (\/ task[k].step \in {"backup", "backupAgent", "rename"}
     \/ task[k].step = "read" /\ task[k].both) =>
    ~ProviderConflicts(Config(opencode), task[k].want)

HasItsBackup(k) ==
  task[k].step \in {"backupAgent", "rename"} /\ k \notin stale /\ opencode.kind # "missing" =>
    opencode \in backups

\* What a command verified of the server is so as long as that did not change.
RouteIsLive(k) ==
  task[k].routing.model =>
    /\ task[k].step \in {"check", "read", "backup", "backupAgent", "rename"}
         /\ k \notin outdated => live = task[k].want.full
    /\ task[k].step \in {"backup", "backupAgent", "rename"} =>
         task[k].next.model = ModelRoute(task[k].want)

KeptParts ==
  \A k \in Configure : NextIsMerged(k) /\ ConsentHolds(k) /\ HasItsBackup(k) /\ RouteIsLive(k)

HandoffIInv == HandoffTypeOK /\ RoutesAligned /\ AlignedParts /\ KeptParts

--------------------------------------------------------------------------------

\* A file that is not there, or cannot be read, holds a configuration too.
LEMMA EmptyTyped ==
  EmptyConfig \in OpenCode /\ EmptyAgent \in OpenAgent /\ NoFileContent \in ConfigFile
<1>1. NoEntry \in EntryOrNone
  BY DEF EntryOrNone
<1>2. EmptyConfig \in OpenCode
  BY <1>1 DEF EmptyConfig, OpenCode
<1>3. EmptyAgent \in OpenAgent
  BY DEF EmptyAgent, OpenAgent
<1>4. NoFileContent \in ConfigFile
  BY <1>2 DEF NoFileContent, ConfigFile, FileKind
<1> QED BY <1>2, <1>3, <1>4

LEMMA ConfigTyped ==
  ASSUME NEW f \in ConfigFile
  PROVE  Config(f) \in OpenCode
BY EmptyTyped DEF Config, ConfigFile

\* The patch that the application's state asks for has an entry for each provider.
LEMMA PatchedTyped ==
  ASSUME NEW w \in Wanted
  PROVE  /\ Patched(w) \in [Provider -> EntryOrNone]
         /\ Patched(w)[Full] = Desired(w.full)
         /\ Patched(w)[Full] # NoEntry
         /\ ModelRoute(w) \in Route /\ SmallRoute(w) \in Route
<1>1. w.full \in Server /\ w.fast \in Server /\ w.dual \in BOOLEAN
  BY DEF Wanted
<1>2. \A v \in Server : Desired(v) \in Entry /\ Desired(v) # NoEntry
  BY ConfigAssumption DEF Desired, Server, Entry, NoEntry
<1>3. Full \in Provider /\ Fast \in Provider
  BY ConfigAssumption
<1>4. Patched(w) \in [Provider -> EntryOrNone]
  BY <1>1, <1>2 DEF Patched, EntryOrNone
<1>5. Patched(w)[Full] = Desired(w.full)
  BY <1>3 DEF Patched
<1>6. ModelRoute(w) \in Route /\ SmallRoute(w) \in Route
  BY <1>1, <1>3 DEF ModelRoute, SmallRoute, Route, Server
<1> QED BY <1>1, <1>2, <1>4, <1>5, <1>6

LEMMA MergedEntryTyped ==
  ASSUME NEW c \in EntryOrNone, NEW d \in EntryOrNone
  PROVE  MergedEntry(c, d) \in EntryOrNone
<1>1. CASE c = NoEntry \/ d = NoEntry
  BY <1>1 DEF MergedEntry
<1>2. CASE c # NoEntry /\ d # NoEntry
  <2>1. c \in Entry /\ d \in Entry
    BY <1>2 DEF EntryOrNone
  <2>2. MergedEntry(c, d) =
          [d EXCEPT !.options = IF c.options = Absent THEN d.options ELSE c.options]
    BY <1>2 DEF MergedEntry
  <2>3. MergedEntry(c, d) \in Entry
    BY <2>1, <2>2 DEF Entry
  <2> QED BY <2>3 DEF EntryOrNone
<1> QED BY <1>1, <1>2

\* The merge gives a configuration; it leaves the rest, the providers that are not of
\* lmml's, and the options that are there, and sets the routes that it may.
LEMMA MergedTyped ==
  ASSUME NEW c \in OpenCode, NEW w \in Wanted, NEW r \in Routing
  PROVE  /\ Merged(c, w, r) \in OpenCode
         /\ r.model => Merged(c, w, r).model = ModelRoute(w)
         /\ Merged(c, w, r).rest = c.rest
         /\ \A n \in Provider \ Managed : Merged(c, w, r).provider[n] = c.provider[n]
         /\ c.provider[Full].options # Absent =>
              Merged(c, w, r).provider[Full].options = c.provider[Full].options
<1> DEFINE p == [n \in Provider |-> IF n \in Managed
                                   THEN MergedEntry(c.provider[n], Patched(w)[n])
                                   ELSE c.provider[n]]
           q == IF r.model THEN ModelRoute(w) ELSE c.model
           s == IF r.small THEN SmallRoute(w) ELSE c.small
<1>1. /\ c.provider \in [Provider -> EntryOrNone] /\ c.model \in Route \union {NoRoute}
      /\ c.small \in Route \union {NoRoute} /\ c.rest \in Rest \union {Absent}
      /\ c = [provider |-> c.provider, model |-> c.model, small |-> c.small, rest |-> c.rest]
  BY DEF OpenCode
<1>2. p \in [Provider -> EntryOrNone]
  BY <1>1, PatchedTyped, MergedEntryTyped
<1>3. q \in Route \union {NoRoute} /\ s \in Route \union {NoRoute}
  BY <1>1, PatchedTyped
<1>4. Merged(c, w, r) = [provider |-> p, model |-> q, small |-> s, rest |-> c.rest]
  <2>1. Merged(c, w, r) = [c EXCEPT !.provider = p, !.model = q, !.small = s]
    BY DEF Merged
  <2> HIDE DEF p, q, s
  <2> QED BY <1>1, <2>1
<1>5. Merged(c, w, r) \in OpenCode
  <2> HIDE DEF p, q, s
  <2> QED BY <1>1, <1>2, <1>3, <1>4 DEF OpenCode
<1>6. ASSUME c.provider[Full].options # Absent
      PROVE  p[Full].options = c.provider[Full].options
  <2>1. Full \in Provider /\ Full \in Managed
    BY ConfigAssumption DEF Managed
  <2>2. c.provider[Full] # NoEntry /\ Patched(w)[Full] # NoEntry
    BY <1>6, PatchedTyped DEF NoEntry
  <2>3. p[Full] = [Desired(w.full) EXCEPT !.options = c.provider[Full].options]
    BY <2>1, <2>2, <1>6, PatchedTyped DEF MergedEntry
  <2> HIDE DEF p
  <2> QED BY <2>3 DEF Desired
<1>7. \A n \in Provider \ Managed : p[n] = c.provider[n]
  OBVIOUS
<1>8. /\ Merged(c, w, r).provider = p /\ Merged(c, w, r).model = q
      /\ Merged(c, w, r).rest = c.rest
  <2> HIDE DEF p, q, s
  <2> QED BY <1>4
<1>9. r.model => q = ModelRoute(w)
  OBVIOUS
<1> HIDE DEF p, q, s
<1> QED BY <1>5, <1>6, <1>7, <1>8, <1>9

LEMMA ReroutedTyped ==
  ASSUME NEW a \in OpenAgent, NEW w \in Wanted
  PROVE  Rerouted(a, w) \in OpenAgent /\ Rerouted(a, w).route = ModelRoute(w)
BY PatchedTyped DEF Rerouted, OpenAgent

\* There is nothing to replace where nothing is in conflict.
LEMMA NoConflict ==
  ASSUME NEW c, NEW w, ~ProviderConflicts(c, w), NEW n \in Managed
  PROVE  c.provider[n] \in {NoEntry, Patched(w)[n]}
BY DEF ProviderConflicts

--------------------------------------------------------------------------------

LEMMA NoTaskTyped ==
  ASSUME wanted \in Servers
  PROVE  /\ NoTask \in Task
         /\ NoTask.step = "idle" /\ NoTask.both = FALSE /\ NoTask.backup = NoFileContent
<1>1. (CHOOSE w \in Servers : TRUE) \in Servers
  OBVIOUS
<1>2. [model |-> TRUE, small |-> TRUE] \in Routing
  BY DEF Routing
<1> QED BY <1>1, <1>2, EmptyTyped DEF NoTask, Task, Steps

LEMMA Stepping ==
  ASSUME task \in [Configure -> Task], NEW k \in Configure, NEW next \in Steps, To(k, next)
  PROVE  /\ task' \in [Configure -> Task]
         /\ task'[k] = [task[k] EXCEPT !.step = next]
         /\ task'[k].step = next
         /\ task'[k].both = task[k].both /\ task'[k].force = task[k].force
         /\ task'[k].routing = task[k].routing /\ task'[k].want = task[k].want
         /\ task'[k].next = task[k].next /\ task'[k].nextAgent = task[k].nextAgent
         /\ task'[k].backup = task[k].backup
         /\ \A j \in Configure \ {k} : task'[j] = task[j]
<1>1. task[k] \in Task
  OBVIOUS
<1>2. task'[k] = [task[k] EXCEPT !.step = next] /\ \A j \in Configure \ {k} : task'[j] = task[j]
  BY DEF To
<1>3. task'[k] \in Task
  BY <1>1, <1>2 DEF Task
<1>4. task' \in [Configure -> Task]
  BY <1>3 DEF To
<1> QED BY <1>1, <1>2, <1>4 DEF Task

LEMMA Ending ==
  ASSUME task \in [Configure -> Task], wanted \in Servers, NEW k \in Configure,
         task' = [task EXCEPT ![k] = NoTask]
  PROVE  /\ task' \in [Configure -> Task] /\ task'[k] = NoTask
         /\ \A j \in Configure \ {k} : task'[j] = task[j]
BY NoTaskTyped

\* What the two steps that write more than the step of a command make of it.
LEMMA ReadingTyped ==
  ASSUME HandoffTypeOK, NEW k \in Configure, ReadConfigs(k)
  PROVE  /\ task' \in [Configure -> Task]
         /\ \A j \in Configure \ {k} : task'[j] = task[j]
         /\ task'[k].step = "backup"
         /\ task'[k].both = task[k].both /\ task'[k].force = task[k].force
         /\ task'[k].routing = task[k].routing /\ task'[k].want = task[k].want
         /\ task'[k].next = Merged(Config(opencode), task[k].want, task[k].routing)
         /\ task[k].both => task'[k].nextAgent = Rerouted(openagent.config, task[k].want)
<1> DEFINE m == Merged(Config(opencode), task[k].want, task[k].routing)
           a == IF task[k].both THEN Rerouted(openagent.config, task[k].want) ELSE EmptyAgent
<1>1. task[k] \in Task /\ task[k].want \in Wanted
  BY HandoffAssumption DEF HandoffTypeOK, Task
<1>2. m \in OpenCode
  BY <1>1, ConfigTyped, MergedTyped DEF HandoffTypeOK, Task
<1>3. a \in OpenAgent
  BY <1>1, EmptyTyped, ReroutedTyped DEF HandoffTypeOK, AgentFile
<1>4. task' = [task EXCEPT ![k] = [task[k] EXCEPT !.step = "backup", !.next = m, !.nextAgent = a]]
  BY DEF ReadConfigs
<1>5. task[k].both => a = Rerouted(openagent.config, task[k].want)
  OBVIOUS
<1> HIDE DEF m, a
<1> DEFINE t == [task[k] EXCEPT !.step = "backup", !.next = m, !.nextAgent = a]
<1>6. /\ t \in Task /\ t.step = "backup" /\ t.both = task[k].both /\ t.force = task[k].force
      /\ t.routing = task[k].routing /\ t.want = task[k].want /\ t.next = m /\ t.nextAgent = a
  BY <1>1, <1>2, <1>3 DEF Task, Steps
<1> HIDE DEF t
<1>7. task \in [Configure -> Task]
  BY DEF HandoffTypeOK
<1>8. task' = [task EXCEPT ![k] = t]
  BY <1>4 DEF t
<1>9. task' \in [Configure -> Task] /\ task'[k] = t /\ \A j \in Configure \ {k} : task'[j] = task[j]
  BY <1>6, <1>7, <1>8
<1>10. task'[k].next = Merged(Config(opencode), task[k].want, task[k].routing)
  BY <1>6, <1>9 DEF m
<1> QED BY <1>5, <1>6, <1>9, <1>10

LEMMA BackUpTyped ==
  ASSUME HandoffTypeOK, NEW k \in Configure, BackUp(k)
  PROVE  /\ task' \in [Configure -> Task]
         /\ \A j \in Configure \ {k} : task'[j] = task[j]
         /\ task'[k].step = IF task[k].both THEN "backupAgent" ELSE "rename"
         /\ task'[k].both = task[k].both /\ task'[k].force = task[k].force
         /\ task'[k].routing = task[k].routing /\ task'[k].want = task[k].want
         /\ task'[k].next = task[k].next /\ task'[k].nextAgent = task[k].nextAgent
         /\ backups' = backups \union {task'[k].backup} /\ task'[k].backup \in ConfigFile
         /\ opencode.kind # "missing" => task'[k].backup = opencode
<1> DEFINE f == IF opencode.kind = "missing"
                THEN [kind |-> "object", config |-> EmptyConfig] ELSE opencode
           n == IF task[k].both THEN "backupAgent" ELSE "rename"
<1>1. task[k] \in Task /\ task \in [Configure -> Task]
  BY DEF HandoffTypeOK
<1>2. f \in ConfigFile /\ (opencode.kind # "missing" => f = opencode)
  BY EmptyTyped DEF HandoffTypeOK, ConfigFile, FileKind
<1>3. n \in Steps /\ n = IF task[k].both THEN "backupAgent" ELSE "rename"
  BY DEF Steps
<1>4. backups' = backups \union {f}
  BY DEF BackUp, BackedUp
<1>5. task' = [task EXCEPT ![k] = [task[k] EXCEPT !.backup = f, !.step = n]]
  BY DEF BackUp
<1> HIDE DEF f, n
<1> DEFINE t == [task[k] EXCEPT !.backup = f, !.step = n]
<1>6. /\ t \in Task /\ t.step = n /\ t.both = task[k].both /\ t.force = task[k].force
      /\ t.routing = task[k].routing /\ t.want = task[k].want /\ t.next = task[k].next
      /\ t.nextAgent = task[k].nextAgent /\ t.backup = f
  BY <1>1, <1>2, <1>3 DEF Task
<1> HIDE DEF t
<1>7. task' = [task EXCEPT ![k] = t]
  BY <1>5 DEF t
<1>8. task' \in [Configure -> Task] /\ task'[k] = t /\ \A j \in Configure \ {k} : task'[j] = task[j]
  BY <1>1, <1>6, <1>7
<1> QED BY <1>2, <1>3, <1>4, <1>6, <1>8

LEMMA BeginTyped ==
  ASSUME HandoffTypeOK, NEW k \in Configure, BeginConfigure(k)
  PROVE  /\ task' \in [Configure -> Task] /\ task'[k].step = "plan"
         /\ task'[k].both => task'[k].routing.model
         /\ \A j \in Configure \ {k} : task'[j] = task[j]
<1>1. PICK both \in BOOLEAN, force \in BOOLEAN, routing \in Routing :
        /\ both => routing.model
        /\ task' = [task EXCEPT ![k] = [NoTask EXCEPT !.step = "plan", !.both = both,
                     !.force = force, !.routing = routing, !.want = wanted]]
  BY DEF BeginConfigure
<1> DEFINE t == [NoTask EXCEPT !.step = "plan", !.both = both,
                  !.force = force, !.routing = routing, !.want = wanted]
<1>2. NoTask \in Task /\ wanted \in Servers /\ task \in [Configure -> Task]
  BY NoTaskTyped DEF HandoffTypeOK
<1>3. t \in Task /\ t.step = "plan" /\ (t.both => t.routing.model)
  BY <1>1, <1>2 DEF Task, Steps
<1> HIDE DEF t
<1>4. task' = [task EXCEPT ![k] = t]
  BY <1>1 DEF t
<1> QED BY <1>2, <1>3, <1>4

LEMMA RollbackTyped ==
  ASSUME HandoffTypeOK, NEW k \in Configure, BeginRollback(k)
  PROVE  /\ task' \in [Configure -> Task] /\ task'[k].step = "write"
         /\ task'[k].backup \in backups /\ ~task'[k].both
         /\ \A j \in Configure \ {k} : task'[j] = task[j]
<1>1. PICK f \in backups :
        task' = [task EXCEPT ![k] = [NoTask EXCEPT !.step = "write", !.backup = f]]
  BY DEF BeginRollback
<1> DEFINE t == [NoTask EXCEPT !.step = "write", !.backup = f]
<1>2. NoTask \in Task /\ ~NoTask.both /\ f \in ConfigFile /\ task \in [Configure -> Task]
  BY NoTaskTyped DEF HandoffTypeOK
<1>3. t \in Task /\ t.step = "write" /\ t.backup = f /\ ~t.both
  BY <1>2 DEF Task, Steps
<1> HIDE DEF t
<1>4. task' = [task EXCEPT ![k] = t]
  BY <1>1 DEF t
<1> QED BY <1>2, <1>3, <1>4

--------------------------------------------------------------------------------

BackedSteps == {"backupAgent", "rename", "renameAgent", "undo", "write"}

LEMMA HandoffTypeInit ==
  ASSUME HandoffInit
  PROVE  HandoffTypeOK
<1>1. opencode \in ConfigFile
  BY EmptyTyped, HandoffAssumption DEF HandoffInit, ConfigFile, FileKind
<1>2. openagent \in AgentFile
  BY HandoffAssumption DEF HandoffInit, AgentFile, FileKind
<1>3. live \in Server /\ wanted \in Servers /\ edits \in 0 .. MaxEdits
  BY HandoffAssumption DEF HandoffInit, Wanted
<1>4. task \in [Configure -> Task] /\ \A k \in Configure : task[k].step = "idle"
  BY <1>3, NoTaskTyped DEF HandoffInit
<1> QED BY <1>1, <1>2, <1>3, <1>4 DEF HandoffInit, HandoffTypeOK

\* A step of a command leaves the other commands alone, and keeps the types.
LEMMA HandoffTypeStep ==
  ASSUME HandoffTypeOK, NEW k \in Configure, ConfigureStep(k)
  PROVE  /\ HandoffTypeOK'
         /\ \A j \in Configure \ {k} : task'[j] = task[j]
<1> DEFINE Shape ==
      /\ task' \in [Configure -> Task]
      /\ \A j \in Configure \ {k} : task'[j] = task[j]
      /\ backups \subseteq backups' /\ backups' \subseteq ConfigFile
      /\ task'[k].step \in BackedSteps => task'[k].backup \in backups'
      /\ opencode' \in ConfigFile /\ openagent' \in AgentFile
      /\ UNCHANGED outsideVars
      /\ stale' \subseteq Configure /\ outdated' \subseteq Configure /\ split' \in BOOLEAN
<1>1. ASSUME Shape
      PROVE  HandoffTypeOK' /\ \A j \in Configure \ {k} : task'[j] = task[j]
  <2>1. \A j \in Configure : task'[j].step \in BackedSteps => task'[j].backup \in backups'
    BY <1>1 DEF HandoffTypeOK, BackedSteps
  <2>2. /\ live' \in Server /\ wanted' \in Servers /\ edits' \in 0 .. MaxEdits
    BY <1>1 DEF HandoffTypeOK, outsideVars
  <2> QED BY <1>1, <2>1, <2>2 DEF HandoffTypeOK, BackedSteps
<1> HIDE DEF Shape
<1>2. /\ task \in [Configure -> Task] /\ task[k] \in Task /\ task[k].next \in OpenCode
      /\ task[k].nextAgent \in OpenAgent
      /\ wanted \in Servers /\ opencode \in ConfigFile /\ openagent \in AgentFile
      /\ backups \subseteq ConfigFile /\ stale \subseteq Configure /\ outdated \subseteq Configure
      /\ split \in BOOLEAN
      /\ task[k].step \in BackedSteps => task[k].backup \in backups
  BY DEF HandoffTypeOK, BackedSteps, Task
<1>3. Staled(k) \subseteq Configure
  BY <1>2 DEF Staled
<1>4. NoTask.step \notin BackedSteps
  BY <1>2, NoTaskTyped DEF BackedSteps
<1>5. ASSUME BeginConfigure(k)
      PROVE  Shape
  <2>1. task'[k].step \notin BackedSteps
    BY <1>5, BeginTyped DEF BackedSteps
  <2> QED BY <1>5, <1>2, <2>1, BeginTyped DEF BeginConfigure, configVars, Shape
<1>6. ASSUME PlanConfigure(k)
      PROVE  Shape
  <2> DEFINE n == "verify"
  <2>1. n \in Steps /\ n \notin BackedSteps /\ To(k, n)
    BY <1>6 DEF PlanConfigure, Steps, BackedSteps
  <2> HIDE DEF n
  <2> QED BY <1>6, <1>2, <2>1, Stepping DEF PlanConfigure, configVars, Shape
<1>7. ASSUME VerifyServer(k)
      PROVE  Shape
  <2> DEFINE n == IF task[k].both THEN "check" ELSE "read"
  <2>1. n \in Steps /\ n \notin BackedSteps /\ To(k, n)
    BY <1>7 DEF VerifyServer, Steps, BackedSteps
  <2> HIDE DEF n
  <2> QED BY <1>7, <1>2, <2>1, Stepping DEF VerifyServer, configVars, Shape
<1>8. ASSUME CheckHandoff(k)
      PROVE  Shape
  <2> DEFINE n == "read"
  <2>1. n \in Steps /\ n \notin BackedSteps /\ To(k, n)
    BY <1>8 DEF CheckHandoff, Steps, BackedSteps
  <2> HIDE DEF n
  <2> QED BY <1>8, <1>2, <2>1, Stepping DEF CheckHandoff, configVars, Shape
<1>9. ASSUME ReadConfigs(k)
      PROVE  Shape
  <2>1. task'[k].step \notin BackedSteps
    BY <1>9, ReadingTyped DEF BackedSteps
  <2>2. stale' \subseteq Configure
    BY <1>9, <1>2 DEF ReadConfigs
  <2> QED BY <1>9, <1>2, <2>1, <2>2, ReadingTyped DEF ReadConfigs, configVars, Shape
<1>10. ASSUME BackUp(k)
      PROVE  Shape
  <2>1. UNCHANGED <<opencode, openagent, outsideVars, stale, outdated, split>>
    BY <1>10 DEF BackUp
  <2>2. /\ task' \in [Configure -> Task]
        /\ \A j \in Configure \ {k} : task'[j] = task[j]
        /\ backups' = backups \union {task'[k].backup} /\ task'[k].backup \in ConfigFile
    BY <1>10, BackUpTyped
  <2>3. /\ opencode' = opencode /\ openagent' = openagent /\ stale' = stale
        /\ outdated' = outdated /\ split' = split
    BY <2>1
  <2> QED BY <1>2, <2>1, <2>2, <2>3 DEF Shape
<1>11. ASSUME BackUpAgent(k)
      PROVE  Shape
  <2>1. "rename" \in Steps /\ To(k, "rename") /\ task[k].step \in BackedSteps
    BY <1>11 DEF BackUpAgent, Steps, BackedSteps
  <2> QED BY <1>11, <1>2, <2>1, Stepping DEF BackUpAgent, configVars, Shape
<1>12. ASSUME RenameAgentFails(k)
      PROVE  Shape
  <2>1. "undo" \in Steps /\ To(k, "undo") /\ task[k].step \in BackedSteps
    BY <1>12 DEF RenameAgentFails, Steps, BackedSteps
  <2> QED BY <1>12, <1>2, <2>1, Stepping DEF RenameAgentFails, configVars, Shape
<1>13. ASSUME RenameOpenCode(k)
      PROVE  Shape
  <2>1. opencode' \in ConfigFile /\ task[k].step \in BackedSteps
    BY <1>13, <1>2 DEF RenameOpenCode, ConfigFile, FileKind, BackedSteps
  <2>2. CASE task[k].both
    <3>1. "renameAgent" \in Steps /\ To(k, "renameAgent")
      BY <1>13, <2>2 DEF RenameOpenCode, Steps
    <3>2. stale' \subseteq Configure /\ split' \in BOOLEAN
      BY <1>13, <1>2, <1>3, <2>2 DEF RenameOpenCode
    <3> QED BY <1>13, <1>2, <2>1, <2>2, <3>1, <3>2, Stepping DEF RenameOpenCode, Shape
  <2>3. CASE ~task[k].both
    <3>1. task' = [task EXCEPT ![k] = NoTask] /\ stale' \subseteq Configure
      BY <1>13, <1>3, <2>3 DEF RenameOpenCode
    <3> QED BY <1>13, <1>2, <1>4, <2>1, <2>3, <3>1, Ending DEF RenameOpenCode, Shape
  <2> QED BY <2>2, <2>3
<1>14. ASSUME BeginRollback(k)
      PROVE  Shape
  <2>1. opencode' \in ConfigFile
    BY <1>14, EmptyTyped DEF BeginRollback, ConfigFile, FileKind
  <2>2. stale' \subseteq Configure
    BY <1>14, <1>3 DEF BeginRollback
  <2> QED BY <1>14, <1>2, <2>1, <2>2, RollbackTyped DEF BeginRollback, Shape
<1>15. ASSUME RenameOpenAgent(k)
      PROVE  Shape
  <2>1. opencode' \in ConfigFile /\ openagent' \in AgentFile
    BY <1>15, <1>2 DEF RenameOpenAgent, AgentFile, FileKind
  <2>2. /\ task' = [task EXCEPT ![k] = NoTask] /\ backups' = backups
        /\ UNCHANGED outsideVars /\ split' \in BOOLEAN
        /\ stale' \subseteq Configure /\ outdated' \subseteq Configure
    BY <1>15, <1>2, <1>3 DEF RenameOpenAgent, Finish, configVars
  <2> QED BY <1>2, <1>4, <2>1, <2>2, Ending DEF Shape
<1>16. ASSUME UndoRename(k)
      PROVE  Shape
  <2>1. opencode' \in ConfigFile /\ openagent' \in AgentFile
    BY <1>16, <1>2 DEF UndoRename, BackedSteps
  <2>2. /\ task' = [task EXCEPT ![k] = NoTask] /\ backups' = backups
        /\ UNCHANGED outsideVars /\ split' \in BOOLEAN
        /\ stale' \subseteq Configure /\ outdated' \subseteq Configure
    BY <1>16, <1>2, <1>3 DEF UndoRename, configVars
  <2> QED BY <1>2, <1>4, <2>1, <2>2, Ending DEF Shape
<1>17. ASSUME UndoFails(k)
      PROVE  Shape
  <2>1. opencode' \in ConfigFile /\ openagent' \in AgentFile
    BY <1>17, <1>2, EmptyTyped DEF UndoFails, ConfigFile, FileKind
  <2>2. /\ task' = [task EXCEPT ![k] = NoTask] /\ backups' = backups
        /\ UNCHANGED outsideVars /\ split' \in BOOLEAN
        /\ stale' \subseteq Configure /\ outdated' \subseteq Configure
    BY <1>17, <1>2, <1>3 DEF UndoFails, configVars
  <2> QED BY <1>2, <1>4, <2>1, <2>2, Ending DEF Shape
<1>18. ASSUME ConfigureFails(k)
      PROVE  Shape
  <2>1. opencode' \in ConfigFile /\ openagent' \in AgentFile
    BY <1>18, <1>2 DEF ConfigureFails, Fails, Finish, configVars
  <2>2. /\ task' = [task EXCEPT ![k] = NoTask] /\ backups' = backups
        /\ UNCHANGED outsideVars /\ split' \in BOOLEAN
        /\ stale' \subseteq Configure /\ outdated' \subseteq Configure
    BY <1>18, <1>2, <1>3 DEF ConfigureFails, Fails, Finish, configVars
  <2> QED BY <1>2, <1>4, <2>1, <2>2, Ending DEF Shape
<1>19. ASSUME EndRollback(k)
      PROVE  Shape
  <2>1. opencode' \in ConfigFile /\ openagent' \in AgentFile
    BY <1>19, <1>2 DEF EndRollback, BackedSteps
  <2>2. /\ task' = [task EXCEPT ![k] = NoTask] /\ backups' = backups
        /\ UNCHANGED outsideVars /\ split' \in BOOLEAN
        /\ stale' \subseteq Configure /\ outdated' \subseteq Configure
    BY <1>19, <1>2, <1>3 DEF EndRollback, configVars
  <2> QED BY <1>2, <1>4, <2>1, <2>2, Ending DEF Shape
<1>20. ASSUME ConfigureKilled(k)
      PROVE  Shape
  <2>1. opencode' \in ConfigFile /\ openagent' \in AgentFile
    BY <1>20, <1>2 DEF ConfigureKilled, Finish, configVars
  <2>2. /\ task' = [task EXCEPT ![k] = NoTask] /\ backups' = backups
        /\ UNCHANGED outsideVars /\ split' \in BOOLEAN
        /\ stale' \subseteq Configure /\ outdated' \subseteq Configure
    BY <1>20, <1>2, <1>3 DEF ConfigureKilled, Finish, configVars
  <2> QED BY <1>2, <1>4, <2>1, <2>2, Ending DEF Shape
<1> QED BY <1>1, <1>5, <1>6, <1>7, <1>8, <1>9, <1>10, <1>11, <1>12, <1>13, <1>14, <1>15, <1>16, <1>17, <1>18, <1>19, <1>20 DEF ConfigureStep

LEMMA HandoffTypeOutside ==
  ASSUME HandoffTypeOK
  PROVE  /\ UserEdits => HandoffTypeOK'
         /\ ServerChanges => HandoffTypeOK'
<1>1. ASSUME UserEdits
      PROVE  HandoffTypeOK'
  <2>1. opencode' \in ConfigFile
    BY <1>1, EmptyTyped, HandoffAssumption DEF UserEdits, ConfigFile, FileKind
  <2>2. edits' \in 0 .. MaxEdits
    BY <1>1, HandoffAssumption DEF UserEdits, Outside, HandoffTypeOK
  <2>3. stale' \subseteq Configure /\ split' \in BOOLEAN
    BY <1>1 DEF UserEdits, HandoffTypeOK
  <2> QED BY <1>1, <2>1, <2>2, <2>3 DEF UserEdits, HandoffTypeOK
<1>2. ASSUME ServerChanges
      PROVE  HandoffTypeOK'
  <2>1. live' \in Server /\ wanted' \in Servers
    BY <1>2, HandoffAssumption DEF ServerChanges, HandoffTypeOK, Wanted
  <2>2. edits' \in 0 .. MaxEdits
    BY <1>2, HandoffAssumption DEF ServerChanges, Outside, HandoffTypeOK
  <2>3. outdated' \subseteq Configure
    BY <1>2 DEF ServerChanges, HandoffTypeOK
  <2> QED BY <1>2, <2>1, <2>2, <2>3 DEF ServerChanges, configVars, HandoffTypeOK
<1> QED BY <1>1, <1>2

--------------------------------------------------------------------------------

(* The routes of the two files. *)

\* Once the files were set apart, nothing is said of their routes any more.
LEMMA ApartStep ==
  ASSUME AlignedParts, NEW k \in Configure, \A j \in Configure \ {k} : task'[j] = task[j],
         split', NextAgrees(k)', BothRoute(k)'
  PROVE  RoutesAligned' /\ AlignedParts'
<1>1. \A j \in Configure : NextAgrees(j)' /\ BothRoute(j)'
  BY DEF AlignedParts, NextAgrees, BothRoute
<1> QED BY <1>1 DEF RoutesAligned, AlignedParts, OneBetween, ApartWhenRolledBack

\* A step that leaves both files alone and is not one of a command between its renames
\* keeps them aligned, if what that command now holds agrees.
LEMMA QuietStep ==
  ASSUME RoutesAligned, AlignedParts, NEW k \in Configure,
         \A j \in Configure \ {k} : task'[j] = task[j],
         UNCHANGED <<opencode, openagent, split>>, ~Between(k), ~Between(k)',
         task'[k].step # "write", NextAgrees(k)', BothRoute(k)',
         ~split /\ task'[k].both /\ task'[k].step \in {"backupAgent", "rename"} =>
           Config(task'[k].backup).model = Config(opencode).model
  PROVE  RoutesAligned' /\ AlignedParts'
<1>1. \A j \in Configure : Between(j)' <=> Between(j)
  BY DEF Between
<1>2. RoutesAligned'
  BY <1>1 DEF RoutesAligned, Between
<1>3. OneBetween'
  BY <1>1 DEF AlignedParts, OneBetween
<1>4. ASSUME NEW j \in Configure
      PROVE  NextAgrees(j)' /\ ApartWhenRolledBack(j)' /\ BothRoute(j)'
  BY <1>4 DEF AlignedParts, NextAgrees, ApartWhenRolledBack, BothRoute
<1>5. ASSUME ~split', NEW j \in Configure
      PROVE  BackupAligned(j)'
  <2>1. CASE j = k
    BY <2>1, <1>5 DEF BackupAligned
  <2>2. CASE j # k
    BY <2>2, <1>5 DEF AlignedParts, BackupAligned, Between
  <2> QED BY <2>1, <2>2
<1> QED BY <1>2, <1>3, <1>4, <1>5 DEF AlignedParts

\* A step of a command that is between its renames, or gets there.
LEMMA BetweenStep ==
  ASSUME AlignedParts, NEW k \in Configure,
         \A j \in Configure \ {k} : task'[j] = task[j], ~split =>
           /\ \A j \in Configure \ {k} : ~Between(j)
           /\ Between(k)' => BackupAligned(k)'
           /\ ~Between(k)' => Config(opencode').model = openagent'.config.route
           /\ opencode' = opencode \/ split' \/ ~Overlaps(k),
         split' \in BOOLEAN, split => split',
         NextAgrees(k)', BothRoute(k)', ApartWhenRolledBack(k)',
         task'[k].step \notin {"backupAgent", "rename"}
  PROVE  RoutesAligned' /\ AlignedParts'
<1>1. CASE split'
  BY <1>1, ApartStep
<1>2. CASE ~split'
  <2>1. \A j \in Configure \ {k} : ~Between(j)'
    BY <1>2 DEF Between
  <2>2. RoutesAligned'
    BY <1>2 DEF RoutesAligned, Between
  <2>3. OneBetween'
    BY <2>1 DEF OneBetween
  <2>4. ASSUME NEW j \in Configure
        PROVE  NextAgrees(j)' /\ ApartWhenRolledBack(j)' /\ BothRoute(j)'
    BY <1>2, <2>4 DEF AlignedParts, NextAgrees, ApartWhenRolledBack, BothRoute
  <2>5. ASSUME NEW j \in Configure
        PROVE  BackupAligned(j)'
    <3>1. CASE j = k
      BY <1>2, <3>1 DEF BackupAligned
    <3>2. CASE j # k
      <4>1. task'[j] = task[j] /\ ~Between(j)' /\ BackupAligned(j)
        BY <1>2, <2>1, <3>2 DEF AlignedParts
      <4>2. task[j].both /\ task[j].step \in {"backupAgent", "rename"} => opencode' = opencode
        BY <1>2, <3>2 DEF Overlaps
      <4> QED BY <4>1, <4>2 DEF BackupAligned
    <3> QED BY <3>1, <3>2
  <2> QED BY <2>2, <2>3, <2>4, <2>5 DEF AlignedParts
<1> QED BY <1>1, <1>2

LEMMA AlignedStep ==
  ASSUME HandoffTypeOK, RoutesAligned, AlignedParts, NEW k \in Configure, ConfigureStep(k)
  PROVE  RoutesAligned' /\ AlignedParts'
<1>1. /\ task \in [Configure -> Task] /\ task[k] \in Task /\ wanted \in Servers
      /\ opencode \in ConfigFile /\ openagent \in AgentFile /\ split \in BOOLEAN
      /\ task[k].want \in Wanted /\ task[k].routing \in Routing
      /\ NextAgrees(k) /\ ApartWhenRolledBack(k) /\ BothRoute(k)
      /\ ~split => BackupAligned(k)
  BY HandoffAssumption DEF HandoffTypeOK, Task, AlignedParts
<1>2. \A j \in Configure \ {k} : task'[j] = task[j]
  BY HandoffTypeStep
<1>3. split' \in BOOLEAN
  BY HandoffTypeStep DEF HandoffTypeOK
<1>4. ASSUME task'[k].step \in {"idle", "plan", "check", "read", "verify"},
             task'[k].step = "check" => task'[k].both,
             task'[k].both => task'[k].routing.model
      PROVE  /\ NextAgrees(k)' /\ BothRoute(k)' /\ ~Between(k)' /\ ApartWhenRolledBack(k)'
             /\ task'[k].step \notin {"backupAgent", "rename", "write"}
  BY <1>4 DEF NextAgrees, BothRoute, Between, ApartWhenRolledBack
<1>5. ASSUME ~split, Between(k)
      PROVE  /\ \A j \in Configure \ {k} : ~Between(j)
             /\ task[k].both /\ BackupAligned(k)
  BY <1>1, <1>5 DEF AlignedParts, OneBetween, BackupAligned
<1>6. ASSUME BeginConfigure(k)
      PROVE  RoutesAligned' /\ AlignedParts'
  <2>1. task'[k].step = "plan" /\ ~Between(k) /\ (task'[k].both => task'[k].routing.model)
    BY <1>6, BeginTyped DEF BeginConfigure, Between
  <2>2. UNCHANGED <<opencode, openagent, split>>
    BY <1>6 DEF BeginConfigure, configVars
  <2> QED BY <1>2, <1>4, <2>1, <2>2, QuietStep
<1>7. ASSUME PlanConfigure(k)
      PROVE  RoutesAligned' /\ AlignedParts'
  <2> DEFINE n == "verify"
  <2>1. n \in Steps /\ n \in {"verify", "check", "read"} /\ (n = "check" => task[k].both)
    BY DEF Steps
  <2>2. To(k, n) /\ UNCHANGED <<opencode, openagent, split>> /\ ~Between(k)
    BY <1>7 DEF PlanConfigure, configVars, Between
  <2> HIDE DEF n
  <2>3. /\ task'[k].step = n /\ task'[k].both = task[k].both
        /\ task'[k].both => task'[k].routing.model
    BY <1>1, <2>1, <2>2, Stepping DEF BothRoute
  <2> QED BY <1>2, <1>4, <2>1, <2>2, <2>3, QuietStep
<1>8. ASSUME VerifyServer(k)
      PROVE  RoutesAligned' /\ AlignedParts'
  <2> DEFINE n == IF task[k].both THEN "check" ELSE "read"
  <2>1. n \in Steps /\ n \in {"verify", "check", "read"} /\ (n = "check" => task[k].both)
    BY DEF Steps
  <2>2. To(k, n) /\ UNCHANGED <<opencode, openagent, split>> /\ ~Between(k)
    BY <1>8 DEF VerifyServer, configVars, Between
  <2> HIDE DEF n
  <2>3. /\ task'[k].step = n /\ task'[k].both = task[k].both
        /\ task'[k].both => task'[k].routing.model
    BY <1>1, <2>1, <2>2, Stepping DEF BothRoute
  <2> QED BY <1>2, <1>4, <2>1, <2>2, <2>3, QuietStep
<1>9. ASSUME CheckHandoff(k)
      PROVE  RoutesAligned' /\ AlignedParts'
  <2> DEFINE n == "read"
  <2>1. n \in Steps /\ n \in {"verify", "check", "read"} /\ (n = "check" => task[k].both)
    BY DEF Steps
  <2>2. To(k, n) /\ UNCHANGED <<opencode, openagent, split>> /\ ~Between(k)
    BY <1>9 DEF CheckHandoff, configVars, Between
  <2> HIDE DEF n
  <2>3. /\ task'[k].step = n /\ task'[k].both = task[k].both
        /\ task'[k].both => task'[k].routing.model
    BY <1>1, <2>1, <2>2, Stepping DEF BothRoute
  <2> QED BY <1>2, <1>4, <2>1, <2>2, <2>3, QuietStep
<1>10. ASSUME ReadConfigs(k)
      PROVE  RoutesAligned' /\ AlignedParts'
  <2>1. /\ task'[k].step = "backup" /\ task'[k].both = task[k].both
        /\ task'[k].routing = task[k].routing
        /\ task'[k].next = Merged(Config(opencode), task[k].want, task[k].routing)
        /\ task[k].both => task'[k].nextAgent = Rerouted(openagent.config, task[k].want)
    BY <1>10, ReadingTyped
  <2>2. UNCHANGED <<opencode, openagent, split>> /\ ~Between(k) /\ task[k].step = "read"
    BY <1>10 DEF ReadConfigs, configVars, Between
  <2>3. ASSUME task[k].both
        PROVE  task[k].routing.model
    BY <1>1, <2>3 DEF BothRoute
  <2>4. NextAgrees(k)'
    <3>1. Config(opencode) \in OpenCode /\ openagent.config \in OpenAgent
      BY <1>1, ConfigTyped DEF AgentFile
    <3> QED BY <1>1, <2>1, <2>3, <3>1, MergedTyped, ReroutedTyped DEF NextAgrees
  <2>5. BothRoute(k)' /\ ~Between(k)'
    BY <1>1, <2>1 DEF BothRoute, Between
  <2> QED BY <1>2, <2>1, <2>2, <2>4, <2>5, QuietStep
<1>11. ASSUME BackUp(k)
      PROVE  RoutesAligned' /\ AlignedParts'
  <2>1. /\ task'[k].step = IF task[k].both THEN "backupAgent" ELSE "rename"
        /\ task'[k].both = task[k].both /\ task'[k].next = task[k].next
        /\ task'[k].nextAgent = task[k].nextAgent /\ task'[k].routing = task[k].routing
        /\ opencode.kind # "missing" => task'[k].backup = opencode
    BY <1>11, BackUpTyped
  <2>2. /\ UNCHANGED <<opencode, openagent, split>> /\ ~Between(k) /\ task[k].step = "backup"
        /\ opencode.kind = "missing" => ~task[k].both
    BY <1>11 DEF BackUp, Between
  <2>3. NextAgrees(k)'
    BY <1>1, <2>1, <2>2 DEF NextAgrees
  <2>4. BothRoute(k)' /\ ~Between(k)' /\ task'[k].step # "write"
    BY <1>1, <2>1 DEF BothRoute, Between
  <2>5. task'[k].both => task'[k].backup = opencode
    BY <2>1, <2>2
  <2> QED BY <1>2, <2>2, <2>3, <2>4, <2>5, QuietStep
<1>12. ASSUME BackUpAgent(k)
      PROVE  RoutesAligned' /\ AlignedParts'
  <2>1. "rename" \in Steps /\ To(k, "rename") /\ task[k].step = "backupAgent"
    BY <1>12 DEF BackUpAgent, Steps
  <2>2. UNCHANGED <<opencode, openagent, split>> /\ ~Between(k)
    BY <1>12, <2>1 DEF BackUpAgent, configVars, Between
  <2>3. /\ task'[k].step = "rename" /\ task'[k].both = task[k].both
        /\ task'[k].next = task[k].next /\ task'[k].nextAgent = task[k].nextAgent
        /\ task'[k].backup = task[k].backup /\ task'[k].routing = task[k].routing
    BY <1>1, <2>1, Stepping
  <2>4. NextAgrees(k)' /\ BothRoute(k)' /\ ~Between(k)'
    BY <1>1, <2>1, <2>3 DEF NextAgrees, BothRoute, Between
  <2>5. ~split /\ task'[k].both => Config(task'[k].backup).model = Config(opencode).model
    BY <1>1, <2>1, <2>3 DEF BackupAligned
  <2> QED BY <1>2, <2>2, <2>3, <2>4, <2>5, QuietStep
<1>13. ASSUME RenameOpenCode(k)
      PROVE  RoutesAligned' /\ AlignedParts'
  <2>1. task[k].step = "rename" /\ openagent' = openagent
        /\ opencode' = [kind |-> "object", config |-> task[k].next]
    BY <1>13 DEF RenameOpenCode
  <2>2. Config(opencode') = task[k].next
    BY <2>1 DEF Config
  <2>3. CASE ~task[k].both
    <3>1. split' /\ task' = [task EXCEPT ![k] = NoTask]
      BY <1>13, <2>3 DEF RenameOpenCode
    <3>2. task'[k].step = "idle" /\ ~task'[k].both
      BY <1>1, <3>1, Ending, NoTaskTyped
    <3> QED BY <1>2, <1>4, <3>1, <3>2, ApartStep
  <2>4. CASE task[k].both
    <3>1. To(k, "renameAgent") /\ "renameAgent" \in Steps /\ split' = (split \/ Overlaps(k))
      BY <1>13, <2>4 DEF RenameOpenCode, Steps
    <3>2. /\ task'[k].step = "renameAgent" /\ task'[k].both
          /\ task'[k].next = task[k].next /\ task'[k].nextAgent = task[k].nextAgent
          /\ task'[k].backup = task[k].backup /\ task'[k].routing = task[k].routing
      BY <1>1, <2>4, <3>1, Stepping
    <3>3. NextAgrees(k)' /\ BothRoute(k)' /\ ApartWhenRolledBack(k)' /\ Between(k)'
      BY <1>1, <2>1, <2>4, <3>2 DEF NextAgrees, BothRoute, ApartWhenRolledBack, Between
    <3>4. CASE split'
      BY <1>2, <3>3, <3>4, ApartStep
    <3>5. CASE ~split'
      <4>1. ~split /\ ~Overlaps(k)
        BY <3>1, <3>5
      <4>2. \A j \in Configure \ {k} : ~Between(j)
        BY <4>1 DEF Overlaps, Between, AlignedParts, BackupAligned
      <4>3. Config(opencode).model = openagent.config.route
        BY <2>1, <4>1, <4>2 DEF RoutesAligned, Between
      <4>4. Config(task[k].backup).model = openagent.config.route
        BY <1>1, <2>1, <2>4, <4>1, <4>3 DEF BackupAligned
      <4>5. Config(opencode').model = task[k].nextAgent.route
        BY <1>1, <2>1, <2>2, <2>4 DEF NextAgrees
      <4>6. BackupAligned(k)'
        BY <2>1, <3>2, <4>4, <4>5 DEF BackupAligned
      <4> QED BY <1>2, <1>3, <3>2, <3>3, <4>1, <4>2, <4>6, BetweenStep
    <3> QED BY <3>4, <3>5
  <2> QED BY <2>3, <2>4
<1>14. ASSUME RenameOpenAgent(k)
      PROVE  RoutesAligned' /\ AlignedParts'
  <2>1. /\ Between(k) /\ opencode' = opencode /\ split' = split
        /\ openagent' = [kind |-> "object", config |-> task[k].nextAgent]
        /\ task' = [task EXCEPT ![k] = NoTask]
    BY <1>14 DEF RenameOpenAgent, Between, Finish
  <2>2. task'[k].step = "idle" /\ ~task'[k].both
    BY <1>1, <2>1, Ending, NoTaskTyped
  <2>3. ~split => Config(opencode').model = openagent'.config.route
    BY <1>5, <2>1 DEF BackupAligned
  <2> QED BY <1>2, <1>3, <1>4, <1>5, <2>1, <2>2, <2>3, BetweenStep
<1>15. ASSUME RenameAgentFails(k)
      PROVE  RoutesAligned' /\ AlignedParts'
  <2>1. "undo" \in Steps /\ To(k, "undo") /\ task[k].step = "renameAgent"
    BY <1>15 DEF RenameAgentFails, Steps
  <2>2. opencode' = opencode /\ openagent' = openagent /\ split' = split /\ Between(k)
    BY <1>15 DEF RenameAgentFails, configVars, Between
  <2>3. /\ task'[k].step = "undo" /\ task'[k].both = task[k].both
        /\ task'[k].next = task[k].next /\ task'[k].nextAgent = task[k].nextAgent
        /\ task'[k].backup = task[k].backup /\ task'[k].routing = task[k].routing
    BY <1>1, <2>1, Stepping
  <2>4. NextAgrees(k)' /\ BothRoute(k)' /\ ApartWhenRolledBack(k)' /\ Between(k)'
    BY <1>1, <2>1, <2>3 DEF NextAgrees, BothRoute, ApartWhenRolledBack, Between
  <2>5. ~split => BackupAligned(k)'
    BY <1>5, <2>2, <2>3 DEF BackupAligned, Between
  <2> QED BY <1>2, <1>3, <1>5, <2>2, <2>3, <2>4, <2>5, BetweenStep
<1>16. ASSUME UndoRename(k)
      PROVE  RoutesAligned' /\ AlignedParts'
  <2>1. /\ Between(k) /\ opencode' = task[k].backup /\ split' = (split \/ Overlaps(k))
        /\ openagent' = openagent /\ task' = [task EXCEPT ![k] = NoTask]
    BY <1>16 DEF UndoRename, Between
  <2>2. task'[k].step = "idle" /\ ~task'[k].both
    BY <1>1, <2>1, Ending, NoTaskTyped
  <2>3. ~split => Config(opencode').model = openagent'.config.route
    BY <1>5, <2>1 DEF BackupAligned
  <2>4. split' \/ ~Overlaps(k)
    BY <2>1
  <2> QED BY <1>2, <1>3, <1>4, <1>5, <2>1, <2>2, <2>3, <2>4, BetweenStep
<1>17. ASSUME UndoFails(k)
      PROVE  RoutesAligned' /\ AlignedParts'
  <2>1. split' /\ task' = [task EXCEPT ![k] = NoTask]
    BY <1>17 DEF UndoFails
  <2>2. task'[k].step = "idle" /\ ~task'[k].both
    BY <1>1, <2>1, Ending, NoTaskTyped
  <2> QED BY <1>2, <1>4, <2>1, <2>2, ApartStep
<1>18. ASSUME ConfigureFails(k)
      PROVE  RoutesAligned' /\ AlignedParts'
  <2>1. /\ UNCHANGED <<opencode, openagent, split>> /\ ~Between(k)
        /\ task' = [task EXCEPT ![k] = NoTask]
    BY <1>18 DEF ConfigureFails, Fails, Finish, configVars, Between
  <2>2. task'[k].step = "idle" /\ ~task'[k].both
    BY <1>1, <2>1, Ending, NoTaskTyped
  <2> QED BY <1>2, <1>4, <2>1, <2>2, QuietStep
<1>19. ASSUME BeginRollback(k)
      PROVE  RoutesAligned' /\ AlignedParts'
  <2>1. split' /\ task'[k].step = "write" /\ ~task'[k].both
    BY <1>19, RollbackTyped DEF BeginRollback
  <2>2. NextAgrees(k)' /\ BothRoute(k)'
    BY <2>1 DEF NextAgrees, BothRoute
  <2> QED BY <1>2, <2>1, <2>2, ApartStep
<1>20. ASSUME EndRollback(k)
      PROVE  RoutesAligned' /\ AlignedParts'
  <2>1. split' /\ task' = [task EXCEPT ![k] = NoTask]
    BY <1>20, <1>1 DEF EndRollback, ApartWhenRolledBack
  <2>2. task'[k].step = "idle" /\ ~task'[k].both
    BY <1>1, <2>1, Ending, NoTaskTyped
  <2> QED BY <1>2, <1>4, <2>1, <2>2, ApartStep
<1>21. ASSUME ConfigureKilled(k)
      PROVE  RoutesAligned' /\ AlignedParts'
  <2>1. /\ UNCHANGED <<opencode, openagent>> /\ split' = (split \/ Between(k))
        /\ task' = [task EXCEPT ![k] = NoTask]
    BY <1>21 DEF ConfigureKilled, Finish, configVars, Between
  <2>2. task'[k].step = "idle" /\ ~task'[k].both
    BY <1>1, <2>1, Ending, NoTaskTyped
  <2>3. CASE Between(k)
    BY <1>2, <1>4, <2>1, <2>2, <2>3, ApartStep
  <2>4. CASE ~Between(k)
    BY <1>2, <1>1, <1>4, <2>1, <2>2, <2>4, QuietStep
  <2> QED BY <2>3, <2>4
<1> QED BY <1>6, <1>7, <1>8, <1>9, <1>10, <1>11, <1>12, <1>13, <1>14, <1>15, <1>16, <1>17, <1>18, <1>19, <1>20, <1>21 DEF ConfigureStep

LEMMA AlignedOutside ==
  ASSUME HandoffTypeOK, RoutesAligned, AlignedParts
  PROVE  /\ UserEdits => RoutesAligned' /\ AlignedParts'
         /\ ServerChanges => RoutesAligned' /\ AlignedParts'
<1>1. ASSUME task' = task, openagent' = openagent, split' \in BOOLEAN,
             ~split' => ~split /\ Config(opencode').model = Config(opencode).model
      PROVE  RoutesAligned' /\ AlignedParts'
  <2>1. RoutesAligned'
    BY <1>1 DEF RoutesAligned
  <2>2. OneBetween'
    BY <1>1 DEF AlignedParts, OneBetween, Between
  <2>3. ASSUME NEW k \in Configure
        PROVE  NextAgrees(k)' /\ ApartWhenRolledBack(k)' /\ BothRoute(k)'
    BY <1>1 DEF AlignedParts, NextAgrees, ApartWhenRolledBack, BothRoute
  <2>4. ASSUME ~split', NEW k \in Configure
        PROVE  BackupAligned(k)'
    BY <1>1, <2>4 DEF AlignedParts, BackupAligned, Between
  <2> QED BY <2>1, <2>2, <2>3, <2>4 DEF AlignedParts
<1>2. ASSUME UserEdits
      PROVE  RoutesAligned' /\ AlignedParts'
  BY <1>1, <1>2 DEF UserEdits, HandoffTypeOK
<1>3. ASSUME ServerChanges
      PROVE  RoutesAligned' /\ AlignedParts'
  BY <1>1, <1>3 DEF ServerChanges, configVars, HandoffTypeOK
<1> QED BY <1>2, <1>3

--------------------------------------------------------------------------------

(* What a command decided and verified. *)

\* For the other commands, a step leaves things as they are or is known to them.
LEMMA OthersKept ==
  ASSUME KeptParts, NEW j \in Configure, task'[j] = task[j], backups \subseteq backups',
         j \in stale => j \in stale', j \in outdated => j \in outdated',
         opencode' = opencode \/ (task[j].step # "idle" => j \in stale'),
         live' = live \/ (task[j].step # "idle" => j \in outdated')
  PROVE  NextIsMerged(j)' /\ ConsentHolds(j)' /\ HasItsBackup(j)' /\ RouteIsLive(j)'
<1>1. NextIsMerged(j) /\ ConsentHolds(j) /\ HasItsBackup(j) /\ RouteIsLive(j)
  BY DEF KeptParts
<1>2. NextIsMerged(j)'
  BY <1>1 DEF NextIsMerged
<1>3. ConsentHolds(j)'
  BY <1>1 DEF ConsentHolds
<1>4. HasItsBackup(j)'
  BY <1>1 DEF HasItsBackup
<1>5. RouteIsLive(j)'
  BY <1>1 DEF RouteIsLive
<1> QED BY <1>2, <1>3, <1>4, <1>5

Deciding == {"check", "read", "backup", "backupAgent", "rename"}

LEMMA KeptStep ==
  ASSUME HandoffTypeOK, AlignedParts, KeptParts, NEW k \in Configure, ConfigureStep(k)
  PROVE  KeptParts'
<1> DEFINE AllHold == NextIsMerged(k)' /\ ConsentHolds(k)' /\ HasItsBackup(k)' /\ RouteIsLive(k)'
           Same == /\ task'[k].both = task[k].both /\ task'[k].force = task[k].force
                   /\ task'[k].routing = task[k].routing /\ task'[k].want = task[k].want
                   /\ task'[k].next = task[k].next
           Undisturbed ==
             /\ opencode' = opencode \/ stale' = Staled(k) \ {k} \/ stale' = Staled(k)
             /\ UNCHANGED outsideVars /\ backups \subseteq backups'
             /\ stale \ {k} \subseteq stale' /\ outdated \ {k} \subseteq outdated'
<1>1. /\ task \in [Configure -> Task] /\ task[k] \in Task /\ wanted \in Servers
      /\ opencode \in ConfigFile /\ task[k].want \in Wanted /\ task[k].routing \in Routing
      /\ Config(opencode) \in OpenCode
      /\ NextIsMerged(k) /\ ConsentHolds(k) /\ HasItsBackup(k) /\ RouteIsLive(k)
      /\ BothRoute(k)
  BY HandoffAssumption, ConfigTyped DEF HandoffTypeOK, Task, KeptParts, AlignedParts
<1>2. \A j \in Configure \ {k} : task'[j] = task[j]
  BY HandoffTypeStep
<1>3. ASSUME Undisturbed, AllHold
      PROVE  KeptParts'
  <2>1. ASSUME NEW j \in Configure, j # k
        PROVE  NextIsMerged(j)' /\ ConsentHolds(j)' /\ HasItsBackup(j)' /\ RouteIsLive(j)'
    <3>1. opencode' = opencode \/ (task[j].step # "idle" => j \in stale')
      BY <1>3, <2>1 DEF Staled
    <3>2. live' = live
      BY <1>3 DEF outsideVars
    <3> QED BY <1>2, <1>3, <2>1, <3>1, <3>2, OthersKept
  <2> QED BY <1>3, <2>1 DEF KeptParts
<1>4. ASSUME task'[k].step \notin Deciding
      PROVE  AllHold
  BY <1>4 DEF Deciding, NextIsMerged, ConsentHolds, HasItsBackup, RouteIsLive
<1> HIDE DEF AllHold, Same, Undisturbed
<1>5. ASSUME BeginConfigure(k)
      PROVE  KeptParts'
  <2>1. task'[k].step = "plan"
    BY <1>5, BeginTyped
  <2>2. Undisturbed
    BY <1>5 DEF BeginConfigure, configVars, Undisturbed
  <2> QED BY <1>3, <1>4, <2>1, <2>2 DEF Deciding
<1>6. ASSUME PlanConfigure(k)
      PROVE  KeptParts'
  <2>1. To(k, "verify") /\ "verify" \in Steps
    BY <1>6 DEF PlanConfigure, Steps
  <2>2. task'[k].step = "verify"
    BY <1>1, <2>1, Stepping
  <2>3. Undisturbed
    BY <1>6 DEF PlanConfigure, configVars, Undisturbed
  <2> QED BY <1>3, <1>4, <2>2, <2>3 DEF Deciding
<1>7. ASSUME VerifyServer(k)
      PROVE  KeptParts'
  <2> DEFINE n == IF task[k].both THEN "check" ELSE "read"
  <2>1. n \in Steps /\ n \in {"check", "read"} /\ (n = "read" => ~task[k].both)
    BY DEF Steps
  <2>2. To(k, n) /\ UNCHANGED outsideVars /\ ServerVerified(k)
    BY <1>7 DEF VerifyServer
  <2> HIDE DEF n
  <2>3. Same /\ task'[k].step = n
    BY <1>1, <2>1, <2>2, Stepping DEF Same
  <2>4. Undisturbed
    BY <1>7 DEF VerifyServer, configVars, Undisturbed
  <2>5. RouteIsLive(k)'
    BY <2>1, <2>2, <2>3 DEF ServerVerified, RouteIsLive, outsideVars, Same
  <2>6. NextIsMerged(k)' /\ ConsentHolds(k)' /\ HasItsBackup(k)'
    BY <2>1, <2>3 DEF NextIsMerged, ConsentHolds, HasItsBackup, Same
  <2> QED BY <1>3, <2>4, <2>5, <2>6 DEF AllHold
<1>8. ASSUME CheckHandoff(k)
      PROVE  KeptParts'
  <2>1. /\ To(k, "read") /\ "read" \in Steps /\ Consented(k) /\ task[k].step = "check"
        /\ opencode' = opencode /\ live' = live /\ outdated' = outdated
    BY <1>8 DEF CheckHandoff, Steps, configVars, outsideVars
  <2>2. Same /\ task'[k].step = "read"
    BY <1>1, <2>1, Stepping DEF Same
  <2>3. Undisturbed
    BY <1>8 DEF CheckHandoff, configVars, Undisturbed
  <2>4. RouteIsLive(k)'
    BY <1>1, <2>1, <2>2 DEF RouteIsLive, Same
  <2>5. ConsentHolds(k)'
    BY <2>1, <2>2 DEF Consented, ConsentHolds, Same
  <2>6. NextIsMerged(k)' /\ HasItsBackup(k)'
    BY <2>2 DEF NextIsMerged, HasItsBackup
  <2> QED BY <1>3, <2>3, <2>4, <2>5, <2>6 DEF AllHold
<1>9. ASSUME ReadConfigs(k)
      PROVE  KeptParts'
  <2>1. /\ task'[k].step = "backup"
        /\ task'[k].both = task[k].both /\ task'[k].force = task[k].force
        /\ task'[k].routing = task[k].routing /\ task'[k].want = task[k].want
        /\ task'[k].next = Merged(Config(opencode), task[k].want, task[k].routing)
    BY <1>9, ReadingTyped
  <2>2. /\ task[k].step = "read" /\ (task[k].both \/ Consented(k))
        /\ opencode' = opencode /\ live' = live /\ outdated' = outdated
        /\ task[k].both => stale' = stale
    BY <1>9 DEF ReadConfigs, configVars, outsideVars
  <2>3. Undisturbed
    BY <1>9 DEF ReadConfigs, configVars, Undisturbed
  <2>4. NextIsMerged(k)'
    BY <2>1, <2>2 DEF NextIsMerged
  <2>5. ConsentHolds(k)'
    BY <1>1, <2>1, <2>2 DEF Consented, ConsentHolds
  <2>6. HasItsBackup(k)'
    BY <2>1 DEF HasItsBackup
  <2>7. RouteIsLive(k)'
    BY <1>1, <2>1, <2>2, MergedTyped DEF RouteIsLive
  <2> QED BY <1>3, <2>3, <2>4, <2>5, <2>6, <2>7 DEF AllHold
<1>10. ASSUME BackUp(k)
      PROVE  KeptParts'
  <2>1. /\ task'[k].step = IF task[k].both THEN "backupAgent" ELSE "rename"
        /\ task'[k].both = task[k].both /\ task'[k].force = task[k].force
        /\ task'[k].routing = task[k].routing /\ task'[k].want = task[k].want
        /\ task'[k].next = task[k].next
        /\ backups' = backups \union {task'[k].backup}
        /\ opencode.kind # "missing" => task'[k].backup = opencode
    BY <1>10, BackUpTyped
  <2>2. Same /\ task'[k].step \in {"backupAgent", "rename"}
    BY <2>1 DEF Same
  <2>3. /\ task[k].step = "backup" /\ opencode' = opencode /\ live' = live
        /\ outdated' = outdated /\ stale' = stale /\ UNCHANGED outsideVars
    BY <1>10 DEF BackUp, outsideVars
  <2>4. Undisturbed
    BY <2>1, <2>3 DEF Undisturbed
  <2>5. NextIsMerged(k)' /\ ConsentHolds(k)'
    BY <1>1, <2>2, <2>3 DEF NextIsMerged, ConsentHolds, Same
  <2>6. HasItsBackup(k)'
    BY <2>1, <2>3 DEF HasItsBackup
  <2>7. RouteIsLive(k)'
    BY <1>1, <2>2, <2>3 DEF RouteIsLive, Same
  <2> QED BY <1>3, <2>4, <2>5, <2>6, <2>7 DEF AllHold
<1>11. ASSUME BackUpAgent(k)
      PROVE  KeptParts'
  <2>1. /\ To(k, "rename") /\ "rename" \in Steps /\ task[k].step = "backupAgent"
        /\ opencode' = opencode /\ live' = live /\ backups' = backups
        /\ outdated' = outdated /\ stale' = stale
    BY <1>11 DEF BackUpAgent, Steps, configVars, outsideVars
  <2>2. Same /\ task'[k].step = "rename"
    BY <1>1, <2>1, Stepping DEF Same
  <2>3. Undisturbed
    BY <1>11 DEF BackUpAgent, configVars, Undisturbed
  <2>4. NextIsMerged(k)' /\ ConsentHolds(k)'
    BY <1>1, <2>1, <2>2 DEF NextIsMerged, ConsentHolds, Same
  <2>5. HasItsBackup(k)' /\ RouteIsLive(k)'
    BY <1>1, <2>1, <2>2 DEF HasItsBackup, RouteIsLive, Same
  <2> QED BY <1>3, <2>3, <2>4, <2>5 DEF AllHold
<1>12. ASSUME RenameOpenCode(k)
      PROVE  KeptParts'
  <2>1. task'[k].step \notin Deciding
    <3>1. CASE task[k].both
      <4>1. To(k, "renameAgent") /\ "renameAgent" \in Steps
        BY <1>12, <3>1 DEF RenameOpenCode, Steps
      <4> QED BY <1>1, <4>1, Stepping DEF Deciding
    <3>2. CASE ~task[k].both
      <4>1. task' = [task EXCEPT ![k] = NoTask]
        BY <1>12, <3>2 DEF RenameOpenCode
      <4> QED BY <1>1, <4>1, Ending, NoTaskTyped DEF Deciding
    <3> QED BY <3>1, <3>2
  <2>2. Undisturbed
    BY <1>12 DEF RenameOpenCode, Undisturbed, Staled
  <2> QED BY <1>3, <1>4, <2>1, <2>2
<1>13. ASSUME RenameAgentFails(k)
      PROVE  KeptParts'
  <2>1. To(k, "undo") /\ "undo" \in Steps
    BY <1>13 DEF RenameAgentFails, Steps
  <2>2. task'[k].step \notin Deciding
    BY <1>1, <2>1, Stepping DEF Deciding
  <2>3. Undisturbed
    BY <1>13 DEF RenameAgentFails, configVars, Undisturbed
  <2> QED BY <1>3, <1>4, <2>2, <2>3
<1>14. ASSUME BeginRollback(k)
      PROVE  KeptParts'
  <2>1. task'[k].step \notin Deciding
    BY <1>14, RollbackTyped DEF Deciding
  <2>2. Undisturbed
    BY <1>14 DEF BeginRollback, Undisturbed, Staled
  <2> QED BY <1>3, <1>4, <2>1, <2>2
<1>15. ASSUME RenameOpenAgent(k)
      PROVE  KeptParts'
  <2>1. task' = [task EXCEPT ![k] = NoTask]
    BY <1>15 DEF RenameOpenAgent, Finish
  <2>2. task'[k].step \notin Deciding
    BY <1>1, <2>1, Ending, NoTaskTyped DEF Deciding
  <2>3. Undisturbed
    BY <1>15 DEF RenameOpenAgent, Finish, Undisturbed, Staled
  <2> QED BY <1>3, <1>4, <2>2, <2>3
<1>16. ASSUME UndoRename(k)
      PROVE  KeptParts'
  <2>1. task' = [task EXCEPT ![k] = NoTask]
    BY <1>16 DEF UndoRename
  <2>2. task'[k].step \notin Deciding
    BY <1>1, <2>1, Ending, NoTaskTyped DEF Deciding
  <2>3. Undisturbed
    BY <1>16 DEF UndoRename, Undisturbed, Staled
  <2> QED BY <1>3, <1>4, <2>2, <2>3
<1>17. ASSUME UndoFails(k)
      PROVE  KeptParts'
  <2>1. task' = [task EXCEPT ![k] = NoTask]
    BY <1>17 DEF UndoFails
  <2>2. task'[k].step \notin Deciding
    BY <1>1, <2>1, Ending, NoTaskTyped DEF Deciding
  <2>3. Undisturbed
    BY <1>17 DEF UndoFails, Undisturbed, Staled
  <2> QED BY <1>3, <1>4, <2>2, <2>3
<1>18. ASSUME ConfigureFails(k)
      PROVE  KeptParts'
  <2>1. task' = [task EXCEPT ![k] = NoTask]
    BY <1>18 DEF ConfigureFails, Fails, Finish
  <2>2. task'[k].step \notin Deciding
    BY <1>1, <2>1, Ending, NoTaskTyped DEF Deciding
  <2>3. Undisturbed
    BY <1>18 DEF ConfigureFails, Fails, Finish, configVars, Undisturbed, Staled
  <2> QED BY <1>3, <1>4, <2>2, <2>3
<1>19. ASSUME EndRollback(k)
      PROVE  KeptParts'
  <2>1. task' = [task EXCEPT ![k] = NoTask]
    BY <1>19 DEF EndRollback
  <2>2. task'[k].step \notin Deciding
    BY <1>1, <2>1, Ending, NoTaskTyped DEF Deciding
  <2>3. Undisturbed
    BY <1>19 DEF EndRollback, Undisturbed, Staled
  <2> QED BY <1>3, <1>4, <2>2, <2>3
<1>20. ASSUME ConfigureKilled(k)
      PROVE  KeptParts'
  <2>1. task' = [task EXCEPT ![k] = NoTask]
    BY <1>20 DEF ConfigureKilled, Finish
  <2>2. task'[k].step \notin Deciding
    BY <1>1, <2>1, Ending, NoTaskTyped DEF Deciding
  <2>3. Undisturbed
    BY <1>20 DEF ConfigureKilled, Finish, configVars, Undisturbed, Staled
  <2> QED BY <1>3, <1>4, <2>2, <2>3
<1> QED BY <1>5, <1>6, <1>7, <1>8, <1>9, <1>10, <1>11, <1>12, <1>13, <1>14, <1>15, <1>16, <1>17, <1>18, <1>19, <1>20 DEF ConfigureStep

LEMMA KeptOutside ==
  ASSUME HandoffTypeOK, KeptParts, UserEdits \/ ServerChanges
  PROVE  KeptParts'
<1>1. task' = task /\ backups' = backups /\ stale \subseteq stale' /\ outdated \subseteq outdated'
  BY DEF UserEdits, ServerChanges, configVars
<1>2. ASSUME NEW j \in Configure
      PROVE  /\ opencode' = opencode \/ (task[j].step # "idle" => j \in stale')
             /\ live' = live \/ (task[j].step # "idle" => j \in outdated')
  BY DEF UserEdits, ServerChanges, configVars
<1>3. ASSUME NEW j \in Configure
      PROVE  NextIsMerged(j)' /\ ConsentHolds(j)' /\ HasItsBackup(j)' /\ RouteIsLive(j)'
  BY <1>1, <1>2, OthersKept
<1> QED BY <1>3 DEF KeptParts

--------------------------------------------------------------------------------

LEMMA HandoffInitOK ==
  ASSUME HandoffInit
  PROVE  HandoffIInv
<1>1. HandoffTypeOK
  BY HandoffTypeInit
<1>2. \A k \in Configure : task[k] = NoTask
  BY DEF HandoffInit
<1>3. wanted \in Servers
  BY DEF HandoffInit
<1>4. Config(opencode).model = openagent.config.route
  BY DEF HandoffInit, Config, NoFileContent
<1>5. \A k \in Configure : task[k].step = "idle" /\ ~task[k].both
  BY <1>2, <1>3, NoTaskTyped
<1>6. RoutesAligned
  BY <1>4 DEF RoutesAligned
<1>7. AlignedParts
  BY <1>5 DEF AlignedParts, OneBetween, Between, NextAgrees, ApartWhenRolledBack, BothRoute,
              BackupAligned
<1>8. KeptParts
  BY <1>5 DEF KeptParts, NextIsMerged, ConsentHolds, HasItsBackup, RouteIsLive
<1> QED BY <1>1, <1>6, <1>7, <1>8 DEF HandoffIInv

LEMMA HandoffStepOK ==
  ASSUME HandoffIInv, [HandoffNext]_handoffVars
  PROVE  HandoffIInv'
<1>1. HandoffTypeOK /\ RoutesAligned /\ AlignedParts /\ KeptParts
  BY DEF HandoffIInv
<1>2. ASSUME NEW k \in Configure, ConfigureStep(k)
      PROVE  HandoffIInv'
  BY <1>1, <1>2, HandoffTypeStep, AlignedStep, KeptStep DEF HandoffIInv
<1>3. CASE UserEdits \/ ServerChanges
  BY <1>1, <1>3, HandoffTypeOutside, AlignedOutside, KeptOutside DEF HandoffIInv
<1>4. CASE UNCHANGED handoffVars
  <2>1. /\ UNCHANGED <<opencode, openagent, backups, live, wanted, edits>>
        /\ UNCHANGED <<task, stale, outdated, split>>
    BY <1>4 DEF handoffVars, configVars, outsideVars
  <2>2. HandoffTypeOK'
    BY <1>1, <2>1 DEF HandoffTypeOK
  <2>3. RoutesAligned' /\ AlignedParts'
    BY <1>1, <2>1 DEF RoutesAligned, AlignedParts, OneBetween, Between, NextAgrees,
                      ApartWhenRolledBack, BothRoute, BackupAligned
  <2>4. KeptParts'
    BY <1>1, <2>1, OthersKept DEF KeptParts
  <2> QED BY <2>2, <2>3, <2>4 DEF HandoffIInv
<1> QED BY <1>2, <1>3, <1>4 DEF HandoffNext

\* Inductive: what each command holds of the two files and of the server, as long as
\* these did not change, and where the routes of the files stand between two renames.
THEOREM HandoffIInvCorrect == HandoffSpec => []HandoffIInv
<1>1. HandoffInit => HandoffIInv
  BY HandoffInitOK
<1>2. HandoffIInv /\ [HandoffNext]_handoffVars => HandoffIInv'
  BY HandoffStepOK
<1> QED BY <1>1, <1>2, PTL DEF HandoffSpec

\* The OpenCode file and that of Oh My OpenAgent name the same route whenever no update
\* of both is between its renames, for any number of commands (apply_opencode_handoff).
THEOREM HandoffCorrect == HandoffSpec => []HandoffInv
<1>1. HandoffIInv => HandoffInv
  BY DEF HandoffIInv, HandoffInv
<1> QED BY <1>1, HandoffIInvCorrect, PTL

--------------------------------------------------------------------------------

LEMMA RenameKeeps ==
  ASSUME HandoffIInv, NEW k \in Configure, RenameOpenCode(k)
  PROVE  /\ k \notin stale =>
              /\ Config(opencode').rest = Config(opencode).rest
              /\ \A n \in Provider \ Managed :
                   Config(opencode').provider[n] = Config(opencode).provider[n]
              /\ Config(opencode).provider[Full].options # Absent =>
                   Config(opencode').provider[Full].options =
                     Config(opencode).provider[Full].options
         /\ k \notin stale /\ ~task[k].force =>
              \A n \in Managed :
                Config(opencode).provider[n] \in {NoEntry, Patched(task[k].want)[n]}
         /\ k \notin stale /\ opencode.kind # "missing" => opencode \in backups
         /\ k \notin outdated /\ task[k].routing.model =>
              Config(opencode').model = <<Full, live.body>>
<1>1. /\ task[k].step = "rename"
      /\ opencode' = [kind |-> "object", config |-> task[k].next]
  BY DEF RenameOpenCode
<1>2. Config(opencode') = task[k].next
  BY <1>1 DEF Config
<1>3. NextIsMerged(k) /\ ConsentHolds(k) /\ HasItsBackup(k) /\ RouteIsLive(k)
  BY DEF HandoffIInv, KeptParts
<1>4. /\ Config(opencode) \in OpenCode /\ task[k].want \in Wanted
      /\ task[k].routing \in Routing
  BY HandoffAssumption, ConfigTyped DEF HandoffIInv, HandoffTypeOK, Task
<1>5. ASSUME k \notin stale
      PROVE  Config(opencode') = Merged(Config(opencode), task[k].want, task[k].routing)
  BY <1>1, <1>2, <1>3, <1>5 DEF NextIsMerged
<1>6. ASSUME k \notin stale, ~task[k].force
      PROVE  ~ProviderConflicts(Config(opencode), task[k].want)
  BY <1>1, <1>3, <1>6 DEF ConsentHolds
<1>7. k \notin stale /\ opencode.kind # "missing" => opencode \in backups
  BY <1>1, <1>3 DEF HasItsBackup
<1>8. ASSUME k \notin outdated, task[k].routing.model
      PROVE  Config(opencode').model = <<Full, live.body>>
  BY <1>1, <1>2, <1>3, <1>8 DEF RouteIsLive, ModelRoute
<1> QED BY <1>4, <1>5, <1>6, <1>7, <1>8, MergedTyped, NoConflict

\* An update keeps what is the user's, replaces what differs only with consent and with
\* a backup, and publishes a route that was answered on, as long as nobody changed the
\* file or the server after it looked (merge_opencode_config, create_backup).
THEOREM HandoffKeepsCorrect == HandoffSpec => HandoffKeeps
<1>1. ASSUME HandoffIInv, [HandoffNext]_handoffVars
      PROVE  backups \subseteq backups'
  <2>1. ASSUME NEW k \in Configure, ConfigureStep(k)
        PROVE  backups \subseteq backups'
    BY <2>1 DEF ConfigureStep, BeginConfigure, PlanConfigure, VerifyServer, CheckHandoff,
       ReadConfigs, BackUp, BackedUp, BackUpAgent, RenameOpenCode, RenameOpenAgent,
       RenameAgentFails, UndoRename, UndoFails, ConfigureFails, Fails, BeginRollback,
       EndRollback, ConfigureKilled, configVars
  <2> QED BY <1>1, <2>1 DEF HandoffNext, UserEdits, ServerChanges, handoffVars, configVars
<1>2. HandoffIInv /\ [HandoffNext]_handoffVars =>
        [\A k \in Configure :
           RenameOpenCode(k) /\ k \notin stale =>
             LET c == Config(opencode)  d == Config(opencode') IN
               /\ d.rest = c.rest
               /\ \A n \in Provider \ Managed : d.provider[n] = c.provider[n]
               /\ c.provider[Full].options # Absent =>
                    d.provider[Full].options = c.provider[Full].options]_handoffVars
  BY RenameKeeps
<1>3. HandoffIInv /\ [HandoffNext]_handoffVars =>
        [\A k \in Configure :
           RenameOpenCode(k) /\ k \notin stale /\ ~task[k].force =>
             \A n \in Managed :
               \/ Config(opencode).provider[n] \in {NoEntry, Patched(task[k].want)[n]}]_handoffVars
  BY RenameKeeps
<1>4. HandoffIInv /\ [HandoffNext]_handoffVars =>
        [/\ backups \subseteq backups'
         /\ \A k \in Configure :
              RenameOpenCode(k) /\ k \notin stale /\ opencode.kind # "missing" =>
                opencode \in backups]_handoffVars
  BY <1>1, RenameKeeps
<1>5. HandoffIInv /\ [HandoffNext]_handoffVars =>
        [\A k \in Configure :
           /\ RenameOpenCode(k) /\ k \notin outdated
           /\ task[k].routing.model
           => Config(opencode').model = <<Full, live.body>>]_handoffVars
  BY RenameKeeps
<1>6. HandoffSpec => UsersPartKept
  BY <1>2, HandoffIInvCorrect, PTL DEF HandoffSpec, UsersPartKept
<1>7. HandoffSpec => ReplacedWithConsent
  BY <1>3, HandoffIInvCorrect, PTL DEF HandoffSpec, ReplacedWithConsent
<1>8. HandoffSpec => ReplacedIsBackedUp
  BY <1>4, HandoffIInvCorrect, PTL DEF HandoffSpec, ReplacedIsBackedUp
<1>9. HandoffSpec => PublishedIsLive
  BY <1>5, HandoffIInvCorrect, PTL DEF HandoffSpec, PublishedIsLive
<1> QED BY <1>6, <1>7, <1>8, <1>9 DEF HandoffKeeps

--------------------------------------------------------------------------------

(* Checkpoints.  The sort is a total order, so that of some tensors one is   *)
(* last (LastExists) and one has the fewest before it; from this follows     *)
(* that the walk over the sorted tensors accepts what gives each byte to one *)
(* tensor, and refuses that only for an empty tensor (LayoutDecides).  What  *)
(* a command has read is then followed step by step: ReadingFits holds       *)
(* whatever is edited, ReadingTrue while nobody edits the checkpoint.        *)

\* A set of naturals that is not empty has a least one.
LEMMA LeastNatural ==
  ASSUME NEW T \in SUBSET Nat, T # {}
  PROVE  \E x \in T : \A y \in T : x <= y
<1> DEFINE R == {ss \in Nat \X Nat : ss[1] < ss[2]}
<1>1. R = OpToRel(<, Nat)
  BY DEF OpToRel
<1>2. IsWellFoundedOn(R, Nat)
  BY NatLessThanWellFounded, <1>1
<1> HIDE DEF R
<1>3. PICK x \in T : \A y \in T : ~(<<y, x>> \in R)
  BY <1>2, WFMin
<1>4. \A y \in T : ~(y < x)
  BY <1>3 DEF R
<1>5. \A y \in T : x <= y
  BY <1>4
<1> QED BY <1>5

--------------------------------------------------------------------------------
(* The layout of a shard.                                                  *)

\* The tensors that are sorted before t.
Ahead(b, t) == {s \in DOMAIN b.header : Precedes(b, s, t)}

\* The tensors whose bytes a byte is one of.
Holders(b, byte) ==
  {t \in DOMAIN b.header : b.header[t].start <= byte /\ byte < b.header[t].stop}

IsLastOf(b, S, t) == t \in S /\ \A o \in S \ {t} : Precedes(b, o, t)

LEMMA BodyTyped ==
  ASSUME NEW b, BodyOK(b)
  PROVE  /\ DOMAIN b.header \subseteq Nat /\ IsFiniteSet(DOMAIN b.header) /\ b.length \in Nat
         /\ \A t \in DOMAIN b.header :
              b.header[t].start \in Nat /\ b.header[t].stop \in Nat /\ b.header[t].size \in Nat
BY CheckpointAssumption DEF BodyOK, Region

\* The sort is by a total order.
LEMMA SortIsTotal ==
  ASSUME NEW b, BodyOK(b), NEW s \in DOMAIN b.header, NEW t \in DOMAIN b.header
  PROVE  /\ ~Precedes(b, t, t)
         /\ s # t => Precedes(b, s, t) \/ Precedes(b, t, s)
         /\ ~(Precedes(b, s, t) /\ Precedes(b, t, s))
         /\ \A u \in DOMAIN b.header : Precedes(b, s, t) /\ Precedes(b, t, u) => Precedes(b, s, u)
BY BodyTyped DEF Precedes

\* How many tensors are sorted before one orders them too.
LEMMA AheadCounts ==
  ASSUME NEW b, BodyOK(b), NEW t \in DOMAIN b.header
  PROVE  /\ IsFiniteSet(Ahead(b, t)) /\ Cardinality(Ahead(b, t)) \in Nat
         /\ \A s \in Ahead(b, t) : Cardinality(Ahead(b, s)) < Cardinality(Ahead(b, t))
<1>1. \A s \in DOMAIN b.header : IsFiniteSet(Ahead(b, s)) /\ Cardinality(Ahead(b, s)) \in Nat
  BY BodyTyped, FS_Subset, FS_CardinalityType DEF Ahead
<1>2. ASSUME NEW s \in Ahead(b, t)
      PROVE  Cardinality(Ahead(b, s)) < Cardinality(Ahead(b, t))
  <2>1. s \in DOMAIN b.header /\ Precedes(b, s, t)
    BY DEF Ahead
  <2>2. Ahead(b, s) \subseteq Ahead(b, t) /\ s \notin Ahead(b, s)
    BY <2>1, SortIsTotal DEF Ahead
  <2>3. Ahead(b, s) # Ahead(b, t)
    BY <2>2
  <2>4. /\ Cardinality(Ahead(b, s)) <= Cardinality(Ahead(b, t))
        /\ Cardinality(Ahead(b, t)) = Cardinality(Ahead(b, s)) => Ahead(b, t) = Ahead(b, s)
    BY <1>1, <2>2, FS_Subset
  <2> QED BY <1>1, <2>1, <2>3, <2>4
<1> QED BY <1>1, <1>2

\* The tensors passed so far have a last one, and the walk is where that stopped.
LEMMA LastExists ==
  ASSUME NEW b, BodyOK(b), NEW S \in SUBSET DOMAIN b.header, S # {}
  PROVE  \E l \in S : IsLastOf(b, S, l) /\ Cursor(b, S) = b.header[l].stop
<1>1. IsFiniteSet(S) /\ Cardinality(DOMAIN b.header) \in Nat
  BY BodyTyped, FS_Subset, FS_CardinalityType
<1>2. \E l \in S : IsLastOf(b, S, l)
  <2> DEFINE Short(s) == Cardinality(DOMAIN b.header) - Cardinality(Ahead(b, s))
             Shorts == {Short(s) : s \in S}
  <2>1. \A s \in S : Short(s) \in Nat
    <3>1. \A s \in S : Ahead(b, s) \subseteq DOMAIN b.header
      BY DEF Ahead
    <3>2. \A s \in S : Cardinality(Ahead(b, s)) <= Cardinality(DOMAIN b.header)
      BY <3>1, BodyTyped, FS_Subset
    <3> QED BY <1>1, <3>2, AheadCounts
  <2>2. Shorts \in SUBSET Nat /\ Shorts # {}
    BY <2>1
  <2> HIDE DEF Short
  <2>3. PICK n \in Shorts : \A m \in Shorts : n <= m
    BY <2>2, LeastNatural
  <2>4. PICK l \in S : \A s \in S : Short(l) <= Short(s)
    BY <2>3
  <2>5. ASSUME NEW o \in S \ {l} PROVE Precedes(b, o, l)
    <3>1. CASE Precedes(b, l, o)
      <4>1. l \in Ahead(b, o)
        BY <3>1 DEF Ahead
      <4>2. Cardinality(Ahead(b, l)) < Cardinality(Ahead(b, o))
        BY <4>1, AheadCounts
      <4> QED BY <1>1, <2>4, <4>2, AheadCounts DEF Short
    <3> QED BY <3>1, SortIsTotal
  <2> QED BY <2>5 DEF IsLastOf
<1>3. \A l, m \in S : IsLastOf(b, S, l) /\ IsLastOf(b, S, m) => l = m
  BY SortIsTotal DEF IsLastOf
<1>4. PICK l \in S : IsLastOf(b, S, l)
  BY <1>2
<1> DEFINE c == CHOOSE t \in S : \A o \in S \ {t} : Precedes(b, o, t)
<1>5. c \in S /\ \A o \in S \ {c} : Precedes(b, o, c)
  BY <1>4 DEF IsLastOf
<1>6. Cursor(b, S) = b.header[c].stop
  BY DEF Cursor
<1> HIDE DEF c
<1>7. IsLastOf(b, S, c)
  BY <1>5 DEF IsLastOf
<1>8. c = l
  BY <1>3, <1>4, <1>5, <1>7
<1> QED BY <1>4, <1>6, <1>8

\* Of two tensors of a layout that holds, the one stops before the other starts.
LEMMA LayoutOrders ==
  ASSUME NEW b, BodyOK(b), LayoutHolds(b), NEW t \in DOMAIN b.header
  PROVE  \A s \in Ahead(b, t) : b.header[s].stop <= b.header[t].start
<1> DEFINE Bad == {u \in DOMAIN b.header : \E s \in Ahead(b, u) : ~(b.header[s].stop <= b.header[u].start)}
           Ranks == {Cardinality(Ahead(b, u)) : u \in Bad}
<1> SUFFICES ASSUME Bad # {} PROVE FALSE
  BY DEF Ahead
<1>1. Ranks \in SUBSET Nat /\ Ranks # {}
  BY AheadCounts
<1>2. PICK n \in Ranks : \A m \in Ranks : n <= m
  BY <1>1, LeastNatural
<1>3. PICK u \in Bad : \A v \in Bad : Cardinality(Ahead(b, u)) <= Cardinality(Ahead(b, v))
  BY <1>2
<1>4. PICK s \in Ahead(b, u) : ~(b.header[s].stop <= b.header[u].start)
  BY <1>3
<1>5. Ahead(b, u) \in SUBSET DOMAIN b.header /\ Ahead(b, u) # {} /\ u \in DOMAIN b.header
  BY <1>3, <1>4 DEF Ahead
<1>6. PICK p \in Ahead(b, u) :
        IsLastOf(b, Ahead(b, u), p) /\ Cursor(b, Ahead(b, u)) = b.header[p].stop
  BY <1>5, LastExists
<1>7. b.header[u].start = b.header[p].stop
  BY <1>5, <1>6 DEF LayoutHolds, Ahead
<1>8. s # p /\ Precedes(b, s, p)
  BY <1>4, <1>5, <1>6, <1>7, BodyTyped DEF IsLastOf
<1>9. p \in DOMAIN b.header /\ s \in Ahead(b, p)
  BY <1>4, <1>5, <1>6, <1>8 DEF Ahead
<1>10. p \notin Bad
  <2>1. Cardinality(Ahead(b, p)) < Cardinality(Ahead(b, u))
    BY <1>5, <1>6, AheadCounts
  <2>2. Cardinality(Ahead(b, p)) \in Nat /\ Cardinality(Ahead(b, u)) \in Nat
    BY <1>5, <1>9, AheadCounts
  <2> QED BY <1>3, <2>1, <2>2
<1>11. b.header[s].stop <= b.header[p].start
  BY <1>9, <1>10
<1>12. b.header[p].start <= b.header[p].stop
  BY <1>9 DEF LayoutHolds
<1>13. s \in DOMAIN b.header
  BY <1>4 DEF Ahead
<1> QED BY <1>4, <1>5, <1>7, <1>9, <1>11, <1>12, <1>13, BodyTyped

LEMMA OneHolder ==
  ASSUME NEW b, BodyOK(b), NEW byte
  PROVE  Cardinality(Holders(b, byte)) = 1 <=> \E t : Holders(b, byte) = {t}
<1>1. IsFiniteSet(Holders(b, byte))
  BY BodyTyped, FS_Subset DEF Holders
<1> QED BY <1>1, FS_Singleton

\* A layout that holds gives every byte of the payload to one tensor.
LEMMA LayoutTiles ==
  ASSUME NEW b, BodyOK(b), DOMAIN b.header # {}, LayoutHolds(b)
  PROVE  Tiles(b)
<1>1. PICK l \in DOMAIN b.header :
        IsLastOf(b, DOMAIN b.header, l) /\ Cursor(b, DOMAIN b.header) = b.header[l].stop
  BY LastExists
<1>2. b.header[l].stop = b.length
  BY <1>1 DEF LayoutHolds
<1>3. ASSUME NEW t \in DOMAIN b.header
      PROVE  b.header[t].start <= b.header[t].stop /\ b.header[t].stop <= b.length
  <2>1. b.header[t].start <= b.header[t].stop /\ b.header[l].start <= b.header[l].stop
    BY DEF LayoutHolds
  <2>2. CASE t = l
    BY <1>2, <2>1, <2>2, BodyTyped
  <2>3. CASE t # l
    <3>1. t \in Ahead(b, l)
      BY <1>1, <2>3 DEF IsLastOf, Ahead
    <3>2. b.header[t].stop <= b.header[l].start
      BY <3>1, LayoutOrders
    <3> QED BY <1>2, <2>1, <3>2, BodyTyped
  <2> QED BY <2>2, <2>3
<1>4. ASSUME NEW byte \in 0 .. b.length - 1
      PROVE  \E t : Holders(b, byte) = {t}
  <2> DEFINE Later == {t \in DOMAIN b.header : byte < b.header[t].stop}
             Ranks == {Cardinality(Ahead(b, t)) : t \in Later}
  <2>1. l \in Later /\ byte \in Nat /\ byte < b.length
    BY <1>2, BodyTyped
  <2>2. Ranks \in SUBSET Nat /\ Ranks # {}
    BY <2>1, AheadCounts
  <2>3. PICK n \in Ranks : \A m \in Ranks : n <= m
    BY <2>2, LeastNatural
  <2>4. PICK t \in Later : \A u \in Later : Cardinality(Ahead(b, t)) <= Cardinality(Ahead(b, u))
    BY <2>3
  <2>5. b.header[t].start <= byte
    <3> SUFFICES ASSUME ~(b.header[t].start <= byte) PROVE FALSE
      OBVIOUS
    <3>1. b.header[t].start = Cursor(b, Ahead(b, t))
      BY DEF LayoutHolds, Ahead
    <3>2. Ahead(b, t) # {}
      BY <2>1, <3>1 DEF Cursor
    <3>3. PICK p \in Ahead(b, t) : Cursor(b, Ahead(b, t)) = b.header[p].stop
      BY <3>2, LastExists DEF Ahead
    <3>4. p \in DOMAIN b.header
      BY DEF Ahead
    <3>5. p \in Later
      BY <2>1, <3>1, <3>3, <3>4, BodyTyped
    <3>6. /\ Cardinality(Ahead(b, p)) < Cardinality(Ahead(b, t))
          /\ Cardinality(Ahead(b, p)) \in Nat /\ Cardinality(Ahead(b, t)) \in Nat
      BY <3>3, <3>4, AheadCounts
    <3> QED BY <2>4, <3>5, <3>6
  <2>6. ASSUME NEW u \in Holders(b, byte), u # t PROVE FALSE
    <3>1. u \in DOMAIN b.header /\ b.header[u].start <= byte /\ byte < b.header[u].stop
      BY DEF Holders
    <3>2. t \in Ahead(b, u) \/ u \in Ahead(b, t)
      BY <2>6, <3>1, SortIsTotal DEF Ahead
    <3>3. b.header[t].stop <= b.header[u].start \/ b.header[u].stop <= b.header[t].start
      BY <3>1, <3>2, LayoutOrders
    <3> QED BY <2>1, <2>5, <3>1, <3>3, BodyTyped
  <2>7. t \in Holders(b, byte)
    BY <2>5 DEF Holders
  <2>8. Holders(b, byte) = {t}
    BY <2>6, <2>7
  <2> QED BY <2>8
<1>5. \A byte \in 0 .. b.length - 1 : Cardinality(Holders(b, byte)) = 1
  BY <1>4, OneHolder
<1>6. \A t \in DOMAIN b.header : b.header[t].stop - b.header[t].start = b.header[t].size
  BY DEF LayoutHolds
<1> QED BY <1>3, <1>5, <1>6 DEF Tiles, Holders

\* Tensors of which none is empty and which share the payload lie as they are sorted.
LEMMA TilesLaidOut ==
  ASSUME NEW b, BodyOK(b), DOMAIN b.header # {}, Tiles(b), ~HasEmptyTensor(b)
  PROVE  LayoutHolds(b)
<1> DEFINE St(t) == b.header[t].start
           En(t) == b.header[t].stop
<1>1. \A t \in DOMAIN b.header : St(t) < En(t) /\ En(t) <= b.length /\ En(t) - St(t) = b.header[t].size
  BY BodyTyped DEF Tiles, HasEmptyTensor
<1>2. ASSUME NEW byte \in Nat, byte < b.length PROVE \E t \in DOMAIN b.header : Holders(b, byte) = {t}
  <2>1. byte \in 0 .. b.length - 1
    BY <1>2, BodyTyped
  <2>2. Cardinality(Holders(b, byte)) = 1
    BY <2>1 DEF Tiles, Holders
  <2>3. PICK t : Holders(b, byte) = {t}
    BY <2>2, OneHolder
  <2>4. t \in DOMAIN b.header
    BY <2>3 DEF Holders
  <2> QED BY <2>3, <2>4
<1>3. ASSUME NEW s \in DOMAIN b.header, NEW t \in DOMAIN b.header, NEW byte \in Nat,
             St(s) <= byte, byte < En(s), St(t) <= byte, byte < En(t)
      PROVE  s = t
  <2>1. byte < b.length
    BY <1>1, <1>3, BodyTyped
  <2>2. PICK u \in DOMAIN b.header : Holders(b, byte) = {u}
    BY <1>2, <2>1
  <2>3. s \in Holders(b, byte) /\ t \in Holders(b, byte)
    BY <1>3 DEF Holders
  <2> QED BY <2>2, <2>3
<1>4. ASSUME NEW byte \in Nat, byte < b.length
      PROVE  \E u \in DOMAIN b.header : St(u) <= byte /\ byte < En(u)
  <2>1. PICK u \in DOMAIN b.header : Holders(b, byte) = {u}
    BY <1>2, <1>4
  <2> QED BY <2>1 DEF Holders
<1> HIDE DEF St, En
<1>5. \A t \in DOMAIN b.header : St(t) \in Nat /\ En(t) \in Nat
  BY BodyTyped DEF St, En
<1>6. ASSUME NEW S \in SUBSET DOMAIN b.header, NEW p \in S, IsLastOf(b, S, p), NEW limit \in Nat,
             \A u \in DOMAIN b.header : St(u) < limit => u \in S,
             En(p) < limit, limit <= b.length
      PROVE  FALSE
  <2>1. PICK u \in DOMAIN b.header : St(u) <= En(p) /\ En(p) < En(u)
    BY <1>4, <1>5, <1>6, BodyTyped
  <2>2. u # p /\ u \in S
    BY <1>5, <1>6, <2>1
  <2>3. St(u) <= St(p)
    BY <1>6, <2>2, BodyTyped DEF IsLastOf, Precedes, St
  <2>4. u = p
    BY <1>1, <1>3, <1>5, <2>1, <2>3
  <2> QED BY <2>2, <2>4
<1>7. ASSUME NEW t \in DOMAIN b.header
      PROVE  St(t) = Cursor(b, Ahead(b, t))
  <2>1. \A u \in DOMAIN b.header : St(u) < St(t) => u \in Ahead(b, t)
    BY DEF Ahead, Precedes, St
  <2>2. St(t) < b.length
    BY <1>1, <1>5, BodyTyped
  <2>3. CASE Ahead(b, t) = {}
    <3>1. 0 \in Nat /\ 0 < b.length
      BY <1>5, <2>2, BodyTyped
    <3>2. PICK u \in DOMAIN b.header : St(u) <= 0 /\ 0 < En(u)
      BY <1>4, <3>1, Zenon
    <3>3. St(t) = 0
      BY <1>5, <2>1, <2>3, <3>2
    <3> QED BY <2>3, <3>3 DEF Cursor
  <2>4. CASE Ahead(b, t) # {}
    <3>1. Ahead(b, t) \in SUBSET DOMAIN b.header
      BY DEF Ahead
    <3>2. PICK p \in Ahead(b, t) :
            IsLastOf(b, Ahead(b, t), p) /\ Cursor(b, Ahead(b, t)) = En(p)
      BY <2>4, <3>1, LastExists DEF En
    <3>3. p \in DOMAIN b.header /\ p # t /\ St(p) <= St(t)
      BY <3>1, <3>2, SortIsTotal, BodyTyped DEF Ahead, Precedes, St
    <3>4. ~(En(p) > St(t))
      BY <1>1, <1>3, <1>5, <3>3
    <3>5. ~(En(p) < St(t))
      BY <1>1, <1>5, <1>6, <2>1, <2>2, <3>1, <3>2, BodyTyped
    <3> QED BY <1>5, <3>2, <3>3, <3>4, <3>5
  <2> QED BY <2>3, <2>4
<1>8. Cursor(b, DOMAIN b.header) = b.length
  <2>1. PICK l \in DOMAIN b.header :
          IsLastOf(b, DOMAIN b.header, l) /\ Cursor(b, DOMAIN b.header) = En(l)
    BY LastExists DEF En
  <2>2. ~(En(l) < b.length)
    BY <1>6, <2>1, BodyTyped
  <2> QED BY <1>1, <1>5, <2>1, <2>2, BodyTyped
<1>9. ASSUME NEW t \in DOMAIN b.header
      PROVE  /\ b.header[t].start = Cursor(b, Ahead(b, t))
             /\ b.header[t].start <= b.header[t].stop
             /\ b.header[t].stop - b.header[t].start = b.header[t].size
  BY <1>1, <1>5, <1>7 DEF St, En
<1> QED BY <1>8, <1>9 DEF LayoutHolds, Ahead


\* validate_tensor_layout accepts only what gives each byte to one tensor, and refuses
\* that only for an empty tensor, whose place among those of its start is by its name.
THEOREM LayoutDecides ==
  ASSUME NEW b, BodyOK(b), DOMAIN b.header # {}
  PROVE  /\ LayoutHolds(b) => Tiles(b)
         /\ Tiles(b) => LayoutHolds(b) \/ HasEmptyTensor(b)
BY LayoutTiles, TilesLaidOut

--------------------------------------------------------------------------------
(* The import and the verification of a checkpoint.                        *)

ImportSteps ==
  {"idle", "config", "index", "list", "header", "hash", "seal", "register",
   "compare", "verified", "refused", "unread"}

ShardList == UNION {[S -> ShardBody] : S \in SUBSET Shard}
TensorList == UNION {[T -> [shard : Shard, size : Nat]] : T \in SUBSET Tensor}
Manifest == [index : Index, shards : ShardList, tensors : TensorList, assets : SUBSET Asset]
Reading ==
  [step : ImportSteps, command : {"none", "import", "verify"}, index : Index,
   left : SUBSET Shard, shards : ShardList, tensors : TensorList, assets : SUBSET Asset,
   expected : SUBSET Manifest]

ImportShape ==
  /\ checkpoint \in Checkpoint
  /\ \A record \in manifests : record \in [manifest : Manifest, seal : Manifest]
  /\ \A k \in Importer : importer[k] \in Reading
  /\ DOMAIN importer = Importer
  /\ checkpointEdits \in 0 .. MaxCheckpointEdits /\ manifestEdits \in 0 .. MaxManifestEdits
  /\ disturbed \subseteq Importer
  /\ IsFiniteSet(manifests) /\ Cardinality(manifests) <= 1
  /\ manifestEdits = 0 => \A record \in manifests : ManifestValid(record)

\* The shards whose headers have been read: the current one is still to be hashed.
HeadersOf(r, s) == DOMAIN r.shards \union (IF r.step = "hash" THEN {s} ELSE {})

\* The shard whose turn it is.
LeastOf(S) == CHOOSE s \in S : \A o \in S : s <= o

\* What a command has read fits together, whatever was edited meanwhile.
ReadingFits(r) ==
  /\ r.step \in {"config", "index", "list"} => DOMAIN r.shards = {} /\ DOMAIN r.tensors = {}
  /\ r.step \in {"header", "hash"} => r.left # {}
  /\ r.step \in {"header", "hash", "seal"} =>
       \A t \in DOMAIN r.tensors : r.tensors[t].shard \in HeadersOf(r, LeastOf(r.left))
  /\ r.step \in {"register", "compare"} =>
       /\ DOMAIN r.shards # {} /\ DOMAIN r.tensors # {} /\ r.assets # {}
       /\ \A t \in DOMAIN r.tensors : r.tensors[t].shard \in DOMAIN r.shards
  /\ r.command = "verify" /\ r.step \notin {"idle", "unread"} =>
       r.expected # {} /\ \A m, n \in r.expected : m = n
  /\ r.step \notin {"idle", "unread"} => r.command # "none"
  /\ r.step = "register" => r.command = "import"
  /\ r.step \in {"compare", "verified"} => r.command = "verify"

AtLeast(r, steps) == r.step \in steps \union {"register", "compare"}

IndexAgrees(index, s, names) ==
  index.given => \A t \in names : t \in DOMAIN index.of /\ index.of[t] = s

\* No two of some shards have a tensor of the same name.
NamesApart(c, done) ==
  \A s, o \in done : s # o => DOMAIN c.files[s].header \intersect DOMAIN c.files[o].header = {}

\* Each of the tensors has been read from a header of one of these shards.
ReadFrom(tensors, c, done) ==
  /\ DOMAIN tensors = UNION {DOMAIN c.files[s].header : s \in done}
  /\ \A t \in DOMAIN tensors :
       LET s == tensors[t].shard
       IN /\ s \in done /\ t \in DOMAIN c.files[s].header
          /\ tensors[t].size = c.files[s].header[t].size

\* The headers read are those of the files, one tensor in one of them.
HeadersRead(tensors, c, done) ==
  /\ \A s \in done :
       HeaderReads(c.files[s]) /\ IndexAgrees(c.index, s, DOMAIN c.files[s].header)
  /\ NamesApart(c, done)
  /\ ReadFrom(tensors, c, done)

\* The shards are those of the index; some are read and the others are left.
Hashed(r, c) ==
  /\ Referenced(c.index, Present(c)) = Present(c)
  /\ c.index.given \/ Cardinality(Present(c)) = 1
  /\ r.left \union DOMAIN r.shards = Present(c) /\ r.left \intersect DOMAIN r.shards = {}
  /\ \A s \in DOMAIN r.shards : r.shards[s] = c.files[s]

CannotBeImported(c) ==
  ~WellFormed(c) \/ \E s \in Present(c) : HasEmptyTensor(c.files[s])

\* While nobody edits the checkpoint c, a command has read what is there.
ReadingTrue(r, c, registered) ==
  /\ AtLeast(r, {"index", "list", "header", "hash", "seal"}) => c.config = "object"
  /\ AtLeast(r, {"list", "header", "hash", "seal"}) => r.index = c.index
  /\ AtLeast(r, {"header", "hash", "seal"}) =>
       Hashed(r, c) /\ HeadersRead(r.tensors, c, HeadersOf(r, LeastOf(r.left)))
  /\ AtLeast(r, {"seal"}) => r.left = {}
  /\ AtLeast(r, {}) =>
       /\ r.index.given => DOMAIN r.index.of = DOMAIN r.tensors
       /\ r.assets = c.assets
  /\ r.step = "verified" => \A m \in r.expected : Describes(m, c)
  /\ r.step = "refused" /\ r.command = "import" => CannotBeImported(c) \/ registered
  /\ r.step = "refused" /\ r.command = "verify" =>
       CannotBeImported(c) \/ \A m \in r.expected : ~Describes(m, c)

ImportIInv ==
  /\ ImportShape
  /\ \A k \in Importer : ReadingFits(importer[k])
  /\ \A k \in Importer \ disturbed : ReadingTrue(importer[k], checkpoint, manifests # {})

--------------------------------------------------------------------------------

LEMMA PresentBodies ==
  ASSUME NEW c \in Checkpoint
  PROVE  /\ Present(c) \subseteq Shard
         /\ \A s \in Present(c) : c.files[s] \in ShardBody /\ BodyOK(c.files[s]) /\ c.files[s] # NoShardFile
BY CheckpointAssumption DEF Checkpoint, Present

\* What a refused list of shards, header or seal says of the checkpoint.
LEMMA ListRefused ==
  ASSUME NEW c \in Checkpoint, WellFormed(c)
  PROVE  /\ Referenced(c.index, Present(c)) = Present(c)
         /\ c.index.given \/ Cardinality(Present(c)) = 1
<1>1. CASE ~c.index.given
  BY <1>1 DEF WellFormed, Referenced
<1>2. CASE c.index.given
  <2>1. \A t \in DOMAIN c.index.of : c.index.of[t] \in Present(c)
    BY <1>2 DEF WellFormed
  <2>2. ASSUME NEW s \in Present(c) PROVE \E t \in DOMAIN c.index.of : c.index.of[t] = s
    <3>1. PICK t : t \in DOMAIN c.files[s].header
      BY DEF WellFormed
    <3> QED BY <1>2, <3>1 DEF WellFormed
  <2>3. {c.index.of[t] : t \in DOMAIN c.index.of} = Present(c)
    BY <2>1, <2>2
  <2> QED BY <1>2, <2>3 DEF Referenced
<1> QED BY <1>1, <1>2

LEMMA HeaderRefused ==
  ASSUME NEW c \in Checkpoint, NEW done \in SUBSET Present(c), NEW s \in Present(c) \ done,
         NEW tensors, ReadFrom(tensors, c, done), ~CannotBeImported(c)
  PROVE  /\ HeaderReads(c.files[s]) /\ IndexAgrees(c.index, s, DOMAIN c.files[s].header)
         /\ DOMAIN c.files[s].header \intersect DOMAIN tensors = {}
<1>1. WellFormed(c) /\ ~HasEmptyTensor(c.files[s])
  BY DEF CannotBeImported
<1>2. DOMAIN c.files[s].header # {} /\ Tiles(c.files[s])
  BY <1>1 DEF WellFormed
<1>3. HeaderReads(c.files[s])
  BY <1>1, <1>2, LayoutDecides, PresentBodies DEF HeaderReads
<1>4. IndexAgrees(c.index, s, DOMAIN c.files[s].header)
  BY <1>1 DEF WellFormed, IndexAgrees
<1>5. \A o \in done : DOMAIN c.files[s].header \intersect DOMAIN c.files[o].header = {}
  BY <1>1 DEF WellFormed
<1>6. DOMAIN c.files[s].header \intersect DOMAIN tensors = {}
  BY <1>5 DEF ReadFrom
<1> QED BY <1>3, <1>4, <1>6

LEMMA SealRefused ==
  ASSUME NEW c \in Checkpoint, NEW tensors, HeadersRead(tensors, c, Present(c)), WellFormed(c)
  PROVE  /\ c.index.given => DOMAIN c.index.of = DOMAIN tensors
         /\ c.assets # {} /\ Present(c) # {} /\ DOMAIN tensors # {}
<1>1. c.assets # {} /\ Present(c) # {}
  BY DEF WellFormed
<1>2. DOMAIN tensors = UNION {DOMAIN c.files[s].header : s \in Present(c)}
  BY DEF HeadersRead, ReadFrom
<1>3. DOMAIN tensors # {}
  <2>1. PICK s \in Present(c) : DOMAIN c.files[s].header # {}
    BY <1>1 DEF WellFormed
  <2> QED BY <1>2, <2>1
<1>4. ASSUME c.index.given PROVE DOMAIN c.index.of = DOMAIN tensors
  <2>1. \A t \in DOMAIN c.index.of :
          c.index.of[t] \in Present(c) /\ t \in DOMAIN c.files[c.index.of[t]].header
    BY <1>4 DEF WellFormed
  <2>2. \A s \in Present(c) : \A t \in DOMAIN c.files[s].header : t \in DOMAIN c.index.of
    BY <1>4 DEF WellFormed
  <2> QED BY <1>2, <2>1, <2>2
<1> QED BY <1>1, <1>3, <1>4

\* What is sealed is the manifest of a checkpoint that is well formed.
LEMMA SealedRight ==
  ASSUME NEW c \in Checkpoint, NEW r, AtLeast(r, {}), ReadingFits(r),
         NEW registered, ReadingTrue(r, c, registered)
  PROVE  WellFormed(c) /\ Describes(ManifestOf(r), c)
<1>1. /\ c.config = "object" /\ r.index = c.index /\ Hashed(r, c) /\ r.left = {}
      /\ (r.index.given => DOMAIN r.index.of = DOMAIN r.tensors) /\ r.assets = c.assets
      /\ HeadersRead(r.tensors, c, HeadersOf(r, LeastOf(r.left)))
  BY DEF AtLeast, ReadingTrue
<1>2. r.assets # {} /\ DOMAIN r.shards # {} /\ HeadersOf(r, LeastOf(r.left)) = DOMAIN r.shards
  BY DEF ReadingFits, AtLeast, HeadersOf
<1>3. DOMAIN r.shards = Present(c)
  BY <1>1 DEF Hashed
<1>4. HeadersRead(r.tensors, c, Present(c))
  BY <1>1, <1>2, <1>3
<1>5. \A s \in Present(c) : DOMAIN c.files[s].header # {} /\ Tiles(c.files[s])
  BY <1>4, LayoutDecides, PresentBodies DEF HeadersRead, HeaderReads
<1>6. \A s, o \in Present(c) :
        s # o => DOMAIN c.files[s].header \intersect DOMAIN c.files[o].header = {}
  BY <1>4 DEF HeadersRead, NamesApart
<1>7. ASSUME c.index.given
      PROVE  /\ \A s \in Present(c) : \A t \in DOMAIN c.files[s].header :
                  t \in DOMAIN c.index.of /\ c.index.of[t] = s
             /\ \A t \in DOMAIN c.index.of :
                  c.index.of[t] \in Present(c) /\ t \in DOMAIN c.files[c.index.of[t]].header
  <2>1. \A s \in Present(c) : \A t \in DOMAIN c.files[s].header :
          t \in DOMAIN c.index.of /\ c.index.of[t] = s
    BY <1>4, <1>7 DEF HeadersRead, IndexAgrees
  <2>2. DOMAIN c.index.of = DOMAIN r.tensors
    BY <1>1, <1>7
  <2>3. ASSUME NEW t \in DOMAIN c.index.of
        PROVE  c.index.of[t] \in Present(c) /\ t \in DOMAIN c.files[c.index.of[t]].header
    <3>1. PICK s \in Present(c) : t \in DOMAIN c.files[s].header
      BY <1>4, <2>2 DEF HeadersRead, ReadFrom
    <3> QED BY <2>1, <3>1
  <2> QED BY <2>1, <2>3
<1>8. ~c.index.given => Cardinality(Present(c)) = 1
  BY <1>1 DEF Hashed
<1>9. WellFormed(c)
  BY <1>1, <1>2, <1>3, <1>5, <1>6, <1>7, <1>8 DEF WellFormed
<1>10. /\ DOMAIN r.tensors = UNION {DOMAIN c.files[s].header : s \in Present(c)}
       /\ \A t \in DOMAIN r.tensors :
            LET s == r.tensors[t].shard
            IN /\ s \in Present(c) /\ t \in DOMAIN c.files[s].header
               /\ r.tensors[t].size = c.files[s].header[t].size
  BY <1>4 DEF HeadersRead, ReadFrom
<1>11. \A s \in Present(c) : r.shards[s] = c.files[s]
  BY <1>1, <1>3 DEF Hashed
<1>12. Describes(ManifestOf(r), c)
  BY <1>1, <1>3, <1>10, <1>11 DEF Describes, ManifestOf
<1> QED BY <1>9, <1>12

\* A checkpoint that is well formed has one manifest.
LEMMA DescribesOne ==
  ASSUME NEW c \in Checkpoint, WellFormed(c), NEW m \in Manifest, NEW n \in Manifest,
         Describes(m, c), Describes(n, c)
  PROVE  m = n
<1>1. m.index = n.index /\ m.assets = n.assets
  BY DEF Describes
<1>2. m.shards = n.shards
  <2>1. DOMAIN m.shards = DOMAIN n.shards /\ \A s \in DOMAIN m.shards : m.shards[s] = n.shards[s]
    BY DEF Describes
  <2>2. PICK S \in SUBSET Shard : m.shards \in [S -> ShardBody]
    BY DEF Manifest, ShardList
  <2>3. PICK T \in SUBSET Shard : n.shards \in [T -> ShardBody]
    BY DEF Manifest, ShardList
  <2> QED BY <2>1, <2>2, <2>3
<1>3. m.tensors = n.tensors
  <2>1. PICK S \in SUBSET Tensor : m.tensors \in [S -> [shard : Shard, size : Nat]]
    BY DEF Manifest, TensorList
  <2>2. PICK T \in SUBSET Tensor : n.tensors \in [T -> [shard : Shard, size : Nat]]
    BY DEF Manifest, TensorList
  <2>3. DOMAIN m.tensors = DOMAIN n.tensors
    BY DEF Describes
  <2>4. ASSUME NEW t \in DOMAIN m.tensors PROVE m.tensors[t] = n.tensors[t]
    <3>1. m.tensors[t] \in [shard : Shard, size : Nat] /\ n.tensors[t] \in [shard : Shard, size : Nat]
      BY <2>1, <2>2, <2>3
    <3>2. /\ m.tensors[t].shard \in Present(c) /\ t \in DOMAIN c.files[m.tensors[t].shard].header
          /\ m.tensors[t].size = c.files[m.tensors[t].shard].header[t].size
      BY DEF Describes
    <3>3. /\ n.tensors[t].shard \in Present(c) /\ t \in DOMAIN c.files[n.tensors[t].shard].header
          /\ n.tensors[t].size = c.files[n.tensors[t].shard].header[t].size
      BY <2>3 DEF Describes
    <3>4. m.tensors[t].shard = n.tensors[t].shard
      BY <3>2, <3>3 DEF WellFormed
    <3> QED BY <3>1, <3>2, <3>3, <3>4
  <2> QED BY <2>1, <2>2, <2>3, <2>4
<1> QED BY <1>1, <1>2, <1>3 DEF Manifest

--------------------------------------------------------------------------------

LEMMA LeastIsOne ==
  ASSUME NEW S \in SUBSET Shard, S # {}
  PROVE  LeastOf(S) \in S
<1>1. \E s \in S : \A o \in S : s <= o
  BY LeastNatural, CheckpointAssumption
<1> QED BY <1>1 DEF LeastOf

LEMMA CurrentIsLeast ==
  ASSUME NEW k
  PROVE  Current(k) = LeastOf(importer[k].left)
BY DEF Current, LeastOf

LEMMA NoReadingTyped == NoReading \in Reading /\ ReadingFits(NoReading)
<1>1. <<>> \in ShardList
  <2>1. <<>> \in [{} -> ShardBody]
    OBVIOUS
  <2> QED BY <2>1 DEF ShardList
<1>2. <<>> \in TensorList
  <2>1. <<>> \in [{} -> [shard : Shard, size : Nat]]
    OBVIOUS
  <2> QED BY <2>1 DEF TensorList
<1>3. NoMap \in Index
  BY DEF Index
<1>4. NoReading \in Reading
  BY <1>1, <1>2, <1>3 DEF NoReading, Reading, ImportSteps
<1>5. ReadingFits(NoReading)
  BY DEF NoReading, ReadingFits
<1> QED BY <1>4, <1>5

\* A command k goes on to what new is, and the others stay where they are.
LEMMA CommandGoesOn ==
  ASSUME ImportIInv, NEW k \in Importer, NEW new \in Reading, Become(k, new), Unedited,
         disturbed' \in {disturbed, disturbed \ {k}},
         \/ UNCHANGED manifests
         \/ \E record \in [manifest : Manifest, seal : Manifest] :
              manifests' = {record} /\ ManifestValid(record),
         ReadingFits(new),
         k \notin disturbed' => ReadingTrue(new, checkpoint, manifests' # {})
  PROVE  ImportIInv'
<1>1. /\ importer' = [importer EXCEPT ![k] = new]
      /\ checkpoint' = checkpoint /\ checkpointEdits' = checkpointEdits /\ manifestEdits' = manifestEdits
  BY DEF Become, Unedited
<1>2. ImportShape'
  <2>2. IsFiniteSet(manifests') /\ Cardinality(manifests') <= 1
    <3>1. CASE UNCHANGED manifests
      BY <3>1 DEF ImportIInv, ImportShape
    <3>2. CASE \E record : manifests' = {record}
      <4>1. PICK record : manifests' = {record}
        BY <3>2
      <4>2. IsFiniteSet({record}) /\ Cardinality({record}) = 1
        BY FS_Singleton
      <4>3. IsFiniteSet(manifests') /\ Cardinality(manifests') = 1
        BY <4>1, <4>2
      <4> QED BY <4>3
    <3> QED BY <3>1, <3>2
  <2>3. /\ \A record \in manifests' : record \in [manifest : Manifest, seal : Manifest]
        /\ manifestEdits' = 0 => \A record \in manifests' : ManifestValid(record)
    BY <1>1 DEF ImportIInv, ImportShape
  <2>4. DOMAIN importer' = Importer /\ \A j \in Importer : importer'[j] \in Reading
    BY <1>1 DEF ImportIInv, ImportShape
  <2>5. disturbed' \subseteq Importer
    BY DEF ImportIInv, ImportShape
  <2>6. /\ checkpoint' \in Checkpoint
        /\ checkpointEdits' \in 0 .. MaxCheckpointEdits /\ manifestEdits' \in 0 .. MaxManifestEdits
    BY <1>1 DEF ImportIInv, ImportShape
  <2> QED BY <2>2, <2>3, <2>4, <2>5, <2>6 DEF ImportShape
<1>3. importer'[k] = new /\ \A j \in Importer \ {k} : importer'[j] = importer[j]
  BY <1>1 DEF ImportIInv, ImportShape
<1>4. ASSUME NEW j \in Importer PROVE ReadingFits(importer'[j])
  BY <1>3 DEF ImportIInv
<1>5. ASSUME NEW j \in Importer \ disturbed'
      PROVE  ReadingTrue(importer'[j], checkpoint, manifests' # {})
  <2>1. CASE j = k
    BY <1>3, <1>5, <2>1
  <2>2. CASE j # k
    <3>1. j \in Importer \ disturbed
      BY <2>2
    <3>2. ReadingTrue(importer[j], checkpoint, manifests # {})
      BY <3>1 DEF ImportIInv
    <3>3. manifests # {} => manifests' # {}
      OBVIOUS
    <3>4. ReadingTrue(importer[j], checkpoint, manifests' # {})
      BY <3>2, <3>3 DEF ReadingTrue
    <3> QED BY <1>3, <2>2, <3>4
  <2> QED BY <2>1, <2>2
<1> QED BY <1>1, <1>2, <1>4, <1>5 DEF ImportIInv

\* The program says no.
RefusedReading(r) ==
  [NoReading EXCEPT !.step = "refused", !.command = r.command, !.expected = r.expected]

LEMMA CommandRefused ==
  ASSUME ImportIInv, NEW k \in Importer, Refuse(k), Unedited, UNCHANGED <<manifests, disturbed>>,
         importer[k].step \notin {"idle", "unread"},
         k \notin disturbed =>
           \/ CannotBeImported(checkpoint)
           \/ importer[k].command = "import" /\ manifests # {}
  PROVE  ImportIInv'
<1> DEFINE r == importer[k]
           new == RefusedReading(r)
<1>1. r \in Reading /\ ReadingFits(r)
  BY DEF ImportIInv, ImportShape
<1>2. new \in Reading
  BY <1>1, NoReadingTyped DEF RefusedReading, Reading, ImportSteps
<1>3. new.step = "refused" /\ new.command = r.command /\ new.expected = r.expected
  BY NoReadingTyped DEF RefusedReading, Reading
<1>4. ReadingFits(new)
  BY <1>1, <1>3 DEF ReadingFits
<1>5. k \notin disturbed => ReadingTrue(new, checkpoint, manifests # {})
  BY <1>3 DEF ReadingTrue, AtLeast
<1>6. Become(k, new)
  BY DEF Refuse, RefusedReading
<1> HIDE DEF new
<1>7. k \notin disturbed' => ReadingTrue(new, checkpoint, manifests' # {})
  BY <1>5
<1> QED BY <1>2, <1>4, <1>6, <1>7, CommandGoesOn

\* The command k has its reading, and if nobody disturbed it, a true one.
LEMMA Its ==
  ASSUME ImportIInv, NEW k \in Importer
  PROVE  /\ importer[k] \in Reading /\ ReadingFits(importer[k]) /\ checkpoint \in Checkpoint
         /\ k \notin disturbed => ReadingTrue(importer[k], checkpoint, manifests # {})
BY DEF ImportIInv, ImportShape

LEMMA BeginStep ==
  ASSUME ImportIInv, NEW k \in Importer, BeginImport(k) \/ BeginVerify(k)
  PROVE  ImportIInv'
<1>1. CASE BeginImport(k)
  <2> DEFINE new == [NoReading EXCEPT !.step = "config", !.command = "import"]
  <2>0. new \in Reading /\ new.step = "config" /\ new.command = "import"
        /\ new.shards = <<>> /\ new.tensors = <<>>
    <3>1. new \in Reading
      BY NoReadingTyped DEF Reading, ImportSteps
    <3> QED BY <3>1 DEF NoReading
  <2>1. ReadingFits(new)
    BY <2>0 DEF ReadingFits
  <2>2. ReadingTrue(new, checkpoint, manifests' # {})
    BY DEF NoReading, ReadingTrue, AtLeast
  <2>3. Become(k, new) /\ Unedited /\ UNCHANGED manifests /\ disturbed' = disturbed \ {k}
    BY <1>1 DEF BeginImport
  <2> HIDE DEF new
  <2> QED BY <2>0, <2>1, <2>2, <2>3, CommandGoesOn
<1>2. CASE BeginVerify(k)
  <2>1. PICK record \in manifests :
          IF ManifestValid(record)
          THEN Become(k, [NoReading EXCEPT !.step = "config", !.command = "verify",
                                           !.expected = {record.manifest}])
          ELSE Become(k, [NoReading EXCEPT !.step = "unread", !.command = "verify"])
    BY <1>2 DEF BeginVerify
  <2>2. Unedited /\ UNCHANGED manifests /\ disturbed' = disturbed \ {k}
    BY <1>2 DEF BeginVerify
  <2>3. record.manifest \in Manifest
    BY DEF ImportIInv, ImportShape
  <2> DEFINE new == [NoReading EXCEPT !.step = "config", !.command = "verify",
                                      !.expected = {record.manifest}]
             unread == [NoReading EXCEPT !.step = "unread", !.command = "verify"]
  <2>4. new \in Reading /\ ReadingFits(new) /\ unread \in Reading /\ ReadingFits(unread)
    <3>1. new \in Reading /\ unread \in Reading
      BY <2>3, NoReadingTyped DEF Reading, ImportSteps
    <3>2. /\ new.step = "config" /\ new.command = "verify" /\ new.expected = {record.manifest}
          /\ new.shards = <<>> /\ new.tensors = <<>>
      BY DEF NoReading
    <3>3. unread.step = "unread"
      BY DEF NoReading
    <3> HIDE DEF new, unread
    <3> QED BY <3>1, <3>2, <3>3 DEF ReadingFits
  <2>5. /\ ReadingTrue(new, checkpoint, manifests' # {})
        /\ ReadingTrue(unread, checkpoint, manifests' # {})
    BY DEF NoReading, ReadingTrue, AtLeast
  <2>6. Become(k, new) \/ Become(k, unread)
    BY <2>1
  <2> HIDE DEF new, unread
  <2> QED BY <2>2, <2>4, <2>5, <2>6, CommandGoesOn
<1> QED BY <1>1, <1>2

LEMMA ConfigStep ==
  ASSUME ImportIInv, NEW k \in Importer, ReadConfig(k) \/ ReadIndex(k)
  PROVE  ImportIInv'
<1> DEFINE r == importer[k]
<1>0. r \in Reading /\ ReadingFits(r) /\ checkpoint \in Checkpoint
      /\ (k \notin disturbed => ReadingTrue(r, checkpoint, manifests # {}))
  BY Its
<1>1. CASE ReadConfig(k)
  <2>1. Unedited /\ UNCHANGED <<manifests, disturbed>> /\ r.step = "config"
    BY <1>1 DEF ReadConfig, Quiet, Read
  <2>2. CASE checkpoint.config = "object"
    <3> DEFINE new == [r EXCEPT !.step = "index"]
    <3>1. new \in Reading /\ ReadingFits(new)
      BY <1>0, <2>1 DEF Reading, ReadingFits, ImportSteps
    <3>2. ReadingTrue(new, checkpoint, manifests # {})
      BY <1>0, <2>2 DEF Reading, ReadingTrue, AtLeast
    <3>3. Become(k, new)
      BY <1>1, <2>2 DEF ReadConfig
    <3> HIDE DEF new
    <3> QED BY <2>1, <3>1, <3>2, <3>3, CommandGoesOn
  <2>3. CASE checkpoint.config # "object"
    <3>1. Refuse(k)
      BY <1>1, <2>3 DEF ReadConfig
    <3>2. CannotBeImported(checkpoint)
      BY <2>3 DEF CannotBeImported, WellFormed
    <3> QED BY <2>1, <3>1, <3>2, CommandRefused
  <2> QED BY <2>2, <2>3
<1>2. CASE ReadIndex(k)
  <2> DEFINE new == [r EXCEPT !.step = "list", !.index = checkpoint.index]
  <2>1. Unedited /\ UNCHANGED <<manifests, disturbed>> /\ r.step = "index"
    BY <1>2 DEF ReadIndex, Quiet, Read
  <2>2. new \in Reading /\ ReadingFits(new)
    BY <1>0, <2>1 DEF Reading, ReadingFits, ImportSteps, Checkpoint
  <2>3. k \notin disturbed => ReadingTrue(new, checkpoint, manifests # {})
    BY <1>0, <2>1 DEF Reading, ReadingTrue, AtLeast
  <2>4. Become(k, new)
    BY <1>2 DEF ReadIndex
  <2> HIDE DEF new
  <2>5. k \notin disturbed' => ReadingTrue(new, checkpoint, manifests' # {})
    BY <2>1, <2>3
  <2> QED BY <2>1, <2>2, <2>4, <2>5, CommandGoesOn
<1> QED BY <1>1, <1>2

LEMMA ListStep ==
  ASSUME ImportIInv, NEW k \in Importer, ListShards(k)
  PROVE  ImportIInv'
<1> DEFINE r == importer[k]
           c == checkpoint
           present == Present(c)
<1>0. r \in Reading /\ ReadingFits(r) /\ c \in Checkpoint
      /\ (k \notin disturbed => ReadingTrue(r, c, manifests # {}))
  BY Its
<1>1. Unedited /\ UNCHANGED <<manifests, disturbed>> /\ r.step = "list"
  BY DEF ListShards, Quiet, Read
<1>2. DOMAIN r.shards = {} /\ DOMAIN r.tensors = {}
  BY <1>0, <1>1 DEF ReadingFits
<1>3. k \notin disturbed => c.config = "object" /\ r.index = c.index
  BY <1>0, <1>1 DEF ReadingTrue, AtLeast
<1>4. CASE Referenced(r.index, present) = present /\ (r.index.given \/ Cardinality(present) = 1)
  <2> DEFINE new == [r EXCEPT !.step = IF present = {} THEN "seal" ELSE "header",
                              !.left = present]
  <2>1. new \in Reading
    BY <1>0, PresentBodies DEF Reading, ImportSteps
  <2>2. /\ new.step = (IF present = {} THEN "seal" ELSE "header") /\ new.left = present
        /\ new.shards = r.shards /\ new.tensors = r.tensors /\ new.index = r.index
        /\ new.command = r.command /\ new.expected = r.expected
    BY <1>0 DEF Reading
  <2>3. Become(k, new)
    BY <1>4 DEF ListShards
  <2> HIDE DEF new
  <2>4. ReadingFits(new)
    BY <1>0, <1>1, <1>2, <2>2 DEF ReadingFits
  <2>5. HeadersOf(new, LeastOf(new.left)) = {}
    BY <1>2, <2>2 DEF HeadersOf
  <2>6. ASSUME k \notin disturbed PROVE ReadingTrue(new, c, manifests # {})
    <3>1. Hashed(new, c)
      BY <1>2, <1>3, <1>4, <2>2, <2>6 DEF Hashed
    <3>2. HeadersRead(new.tensors, c, {})
      BY <1>2, <2>2 DEF HeadersRead, NamesApart, ReadFrom
    <3> QED BY <1>3, <2>2, <2>5, <2>6, <3>1, <3>2 DEF ReadingTrue, AtLeast
  <2>7. k \notin disturbed' => ReadingTrue(new, c, manifests' # {})
    BY <1>1, <2>6
  <2> QED BY <1>1, <2>1, <2>3, <2>4, <2>7, CommandGoesOn
<1>5. CASE ~(Referenced(r.index, present) = present /\ (r.index.given \/ Cardinality(present) = 1))
  <2>1. Refuse(k)
    BY <1>5 DEF ListShards
  <2>2. k \notin disturbed => CannotBeImported(c)
    BY <1>0, <1>3, <1>5, ListRefused DEF CannotBeImported
  <2> QED BY <1>1, <2>1, <2>2, CommandRefused
<1> QED BY <1>4, <1>5

LEMMA HeaderStep ==
  ASSUME ImportIInv, NEW k \in Importer, ReadHeader(k)
  PROVE  ImportIInv'
<1> DEFINE r == importer[k]
           c == checkpoint
           s == LeastOf(r.left)
           b == c.files[s]
           names == DOMAIN b.header
<1>0. r \in Reading /\ ReadingFits(r) /\ c \in Checkpoint
      /\ (k \notin disturbed => ReadingTrue(r, c, manifests # {}))
  BY Its
<1>1. Unedited /\ UNCHANGED <<manifests, disturbed>> /\ r.step = "header"
  BY DEF ReadHeader, Quiet, Read
<1>2. s \in r.left /\ s \in Shard
  <2>1. r.left \in SUBSET Shard /\ r.left # {}
    BY <1>0, <1>1 DEF Reading, ReadingFits
  <2> QED BY <2>1, LeastIsOne
<1> DEFINE passes == /\ HeaderReads(b)
                     /\ IndexAgrees(r.index, s, names)
                     /\ names \intersect DOMAIN r.tensors = {}
           tensors == [t \in names \union DOMAIN r.tensors |->
                         IF t \in names THEN [shard |-> s, size |-> b.header[t].size]
                                        ELSE r.tensors[t]]
           new == [r EXCEPT !.step = "hash", !.tensors = tensors]
<1>3. IF passes THEN Become(k, new) ELSE Refuse(k)
  BY CurrentIsLeast DEF ReadHeader, IndexAgrees
<1>4. k \notin disturbed =>
        /\ c.config = "object" /\ r.index = c.index /\ Hashed(r, c)
        /\ HeadersRead(r.tensors, c, DOMAIN r.shards)
  BY <1>0, <1>1 DEF ReadingTrue, AtLeast, HeadersOf
<1>5. k \notin disturbed => DOMAIN r.shards \subseteq Present(c) /\ s \in Present(c) \ DOMAIN r.shards
  BY <1>2, <1>4 DEF Hashed
<1>6. CASE passes
  <2>1. b \in ShardBody /\ BodyOK(b)
    BY <1>0, <1>2, <1>6, CheckpointAssumption DEF Checkpoint, HeaderReads
  <2>2. tensors \in TensorList
    <3>1. PICK T \in SUBSET Tensor : r.tensors \in [T -> [shard : Shard, size : Nat]]
      BY <1>0 DEF Reading, TensorList
    <3>2. names \subseteq Tensor
      BY <2>1 DEF BodyOK
    <3>3. tensors \in [names \union T -> [shard : Shard, size : Nat]]
      BY <1>2, <2>1, <3>1, BodyTyped
    <3>4. names \union T \in SUBSET Tensor
      BY <3>1, <3>2
    <3> HIDE DEF tensors
    <3> QED BY <3>3, <3>4 DEF TensorList
  <2>3. DOMAIN tensors = names \union DOMAIN r.tensors
    OBVIOUS
  <2>4. \A t \in DOMAIN tensors :
          IF t \in names THEN tensors[t].shard = s /\ tensors[t].size = b.header[t].size
          ELSE tensors[t] = r.tensors[t]
    OBVIOUS
  <2> HIDE DEF tensors
  <2>5. new \in Reading
    BY <1>0, <2>2 DEF Reading, ImportSteps
  <2>6. /\ new.step = "hash" /\ new.tensors = tensors /\ new.left = r.left
        /\ new.shards = r.shards /\ new.index = r.index
        /\ new.command = r.command /\ new.expected = r.expected
    BY <1>0 DEF Reading
  <2> HIDE DEF new
  <2>7. HeadersOf(new, LeastOf(new.left)) = DOMAIN r.shards \union {s}
    BY <2>6 DEF HeadersOf
  <2>8. \A t \in DOMAIN r.tensors : r.tensors[t].shard \in DOMAIN r.shards
    BY <1>0, <1>1 DEF ReadingFits, HeadersOf
  <2>9. ReadingFits(new)
    <3>1. new.left # {}
      BY <1>2, <2>6
    <3>2. \A t \in DOMAIN new.tensors : new.tensors[t].shard \in HeadersOf(new, LeastOf(new.left))
      BY <2>3, <2>4, <2>6, <2>7, <2>8
    <3>3. /\ (r.command = "verify" => r.expected # {} /\ \A m, n \in r.expected : m = n)
          /\ r.command # "none"
      BY <1>0, <1>1 DEF ReadingFits
    <3> QED BY <2>6, <3>1, <3>2, <3>3 DEF ReadingFits
  <2>10. ASSUME k \notin disturbed PROVE ReadingTrue(new, c, manifests # {})
    <3>1. Hashed(new, c)
      BY <1>4, <2>6, <2>10 DEF Hashed
    <3> DEFINE done == DOMAIN r.shards \union {s}
    <3>2. \A o \in done : HeaderReads(c.files[o]) /\ IndexAgrees(c.index, o, DOMAIN c.files[o].header)
      BY <1>4, <1>6, <2>10 DEF HeadersRead
    <3>3. NamesApart(c, done)
      <4>1. NamesApart(c, DOMAIN r.shards) /\ ReadFrom(r.tensors, c, DOMAIN r.shards)
        BY <1>4, <2>10 DEF HeadersRead
      <4>2. \A o \in DOMAIN r.shards : names \intersect DOMAIN c.files[o].header = {}
        BY <1>6, <4>1 DEF ReadFrom
      <4> QED BY <4>1, <4>2 DEF NamesApart
    <3>4. ReadFrom(tensors, c, done)
      <4>1. ReadFrom(r.tensors, c, DOMAIN r.shards)
        BY <1>4, <2>10 DEF HeadersRead
      <4>2. DOMAIN tensors = UNION {DOMAIN c.files[o].header : o \in done}
        BY <2>3, <4>1 DEF ReadFrom
      <4>3. ASSUME NEW t \in DOMAIN tensors
            PROVE  /\ tensors[t].shard \in done /\ t \in DOMAIN c.files[tensors[t].shard].header
                   /\ tensors[t].size = c.files[tensors[t].shard].header[t].size
        <5>1. CASE t \in names
          BY <2>4, <5>1
        <5>2. CASE t \notin names
          BY <2>3, <2>4, <4>1, <5>2 DEF ReadFrom
        <5> QED BY <5>1, <5>2
      <4> QED BY <4>2, <4>3 DEF ReadFrom
    <3>5. HeadersRead(new.tensors, c, HeadersOf(new, LeastOf(new.left)))
      BY <2>6, <2>7, <3>2, <3>3, <3>4 DEF HeadersRead
    <3> QED BY <1>4, <2>6, <2>10, <3>1, <3>5 DEF ReadingTrue, AtLeast
  <2>11. k \notin disturbed' => ReadingTrue(new, c, manifests' # {})
    BY <1>1, <2>10
  <2> QED BY <1>1, <1>3, <1>6, <2>5, <2>9, <2>11, CommandGoesOn
<1>7. CASE ~passes
  <2>1. ASSUME k \notin disturbed PROVE CannotBeImported(c)
    <3>1. ReadFrom(r.tensors, c, DOMAIN r.shards)
      BY <1>4, <2>1 DEF HeadersRead
    <3>2. ~CannotBeImported(c) =>
            /\ HeaderReads(b) /\ IndexAgrees(c.index, s, names)
            /\ names \intersect DOMAIN r.tensors = {}
      BY <1>0, <1>5, <2>1, <3>1, HeaderRefused
    <3> QED BY <1>4, <1>7, <2>1, <3>2
  <2> QED BY <1>1, <1>3, <1>7, <2>1, CommandRefused
<1> QED BY <1>6, <1>7

LEMMA HashStep ==
  ASSUME ImportIInv, NEW k \in Importer, HashShard(k)
  PROVE  ImportIInv'
<1> DEFINE r == importer[k]
           c == checkpoint
           s == LeastOf(r.left)
           b == c.files[s]
<1>0. r \in Reading /\ ReadingFits(r) /\ c \in Checkpoint
      /\ (k \notin disturbed => ReadingTrue(r, c, manifests # {}))
  BY Its
<1>1. Unedited /\ UNCHANGED <<manifests, disturbed>> /\ r.step = "hash"
  BY DEF HashShard, Quiet, Read
<1>2. s \in r.left /\ s \in Shard /\ r.left \in SUBSET Shard
  <2>1. r.left \in SUBSET Shard /\ r.left # {}
    BY <1>0, <1>1 DEF Reading, ReadingFits
  <2> QED BY <2>1, LeastIsOne
<1> DEFINE shards == [o \in DOMAIN r.shards \union {s} |-> IF o = s THEN b ELSE r.shards[o]]
           new == [r EXCEPT !.step = IF r.left = {s} THEN "seal" ELSE "header",
                            !.left = r.left \ {s}, !.shards = shards]
<1>3. IF b = NoShardFile THEN Refuse(k) ELSE Become(k, new)
  BY CurrentIsLeast DEF HashShard
<1>4. k \notin disturbed =>
        /\ c.config = "object" /\ r.index = c.index /\ Hashed(r, c)
        /\ HeadersRead(r.tensors, c, DOMAIN r.shards \union {s})
  BY <1>0, <1>1 DEF ReadingTrue, AtLeast, HeadersOf
<1>5. CASE b # NoShardFile
  <2>1. b \in ShardBody
    BY <1>0, <1>2, <1>5 DEF Checkpoint
  <2>2. shards \in ShardList
    <3>1. PICK S \in SUBSET Shard : r.shards \in [S -> ShardBody]
      BY <1>0 DEF Reading, ShardList
    <3>2. shards \in [S \union {s} -> ShardBody]
      BY <2>1, <3>1
    <3>3. S \union {s} \in SUBSET Shard
      BY <1>2, <3>1
    <3> HIDE DEF shards
    <3> QED BY <3>2, <3>3 DEF ShardList
  <2>3. DOMAIN shards = DOMAIN r.shards \union {s}
    OBVIOUS
  <2>4. shards[s] = b /\ \A o \in DOMAIN r.shards \ {s} : shards[o] = r.shards[o]
    OBVIOUS
  <2> HIDE DEF shards
  <2>5. new \in Reading
    BY <1>0, <1>2, <2>2 DEF Reading, ImportSteps
  <2>6. /\ new.step = (IF r.left = {s} THEN "seal" ELSE "header") /\ new.tensors = r.tensors
        /\ new.left = r.left \ {s} /\ new.shards = shards /\ new.index = r.index
        /\ new.command = r.command /\ new.expected = r.expected
    BY <1>0 DEF Reading
  <2> HIDE DEF new
  <2>7. HeadersOf(new, LeastOf(new.left)) = DOMAIN r.shards \union {s}
    BY <2>3, <2>6 DEF HeadersOf
  <2>8. ReadingFits(new)
    <3>1. new.step = "header" => new.left # {}
      BY <1>2, <2>6
    <3>2. \A t \in DOMAIN r.tensors : r.tensors[t].shard \in DOMAIN r.shards \union {s}
      BY <1>0, <1>1 DEF ReadingFits, HeadersOf
    <3>3. /\ (r.command = "verify" => r.expected # {} /\ \A m, n \in r.expected : m = n)
          /\ r.command # "none"
      BY <1>0, <1>1 DEF ReadingFits
    <3> QED BY <2>6, <2>7, <3>1, <3>2, <3>3 DEF ReadingFits
  <2>9. ASSUME k \notin disturbed PROVE ReadingTrue(new, c, manifests # {})
    <3>1. Hashed(new, c)
      <4>1. new.left \union DOMAIN new.shards = Present(c) /\ new.left \intersect DOMAIN new.shards = {}
        BY <1>2, <1>4, <2>3, <2>6, <2>9 DEF Hashed
      <4>2. \A o \in DOMAIN new.shards : new.shards[o] = c.files[o]
        BY <1>4, <2>3, <2>4, <2>6, <2>9 DEF Hashed
      <4> QED BY <1>4, <2>9, <4>1, <4>2 DEF Hashed
    <3>2. HeadersRead(new.tensors, c, HeadersOf(new, LeastOf(new.left)))
      BY <1>4, <2>6, <2>7, <2>9
    <3>3. new.step = "seal" => new.left = {}
      BY <2>6
    <3> QED BY <1>4, <2>6, <2>9, <3>1, <3>2, <3>3 DEF ReadingTrue, AtLeast
  <2>10. k \notin disturbed' => ReadingTrue(new, c, manifests' # {})
    BY <1>1, <2>9
  <2> QED BY <1>1, <1>3, <1>5, <2>5, <2>8, <2>10, CommandGoesOn
<1>6. CASE b = NoShardFile
  <2>1. k \in disturbed
    BY <1>0, <1>2, <1>4, <1>6, PresentBodies DEF Hashed
  <2> QED BY <1>1, <1>3, <1>6, <2>1, CommandRefused
<1> QED BY <1>5, <1>6

LEMMA SealStep ==
  ASSUME ImportIInv, NEW k \in Importer, Seal(k)
  PROVE  ImportIInv'
<1> DEFINE r == importer[k]
           c == checkpoint
<1>0. r \in Reading /\ ReadingFits(r) /\ c \in Checkpoint
      /\ (k \notin disturbed => ReadingTrue(r, c, manifests # {}))
  BY Its
<1>1. Unedited /\ UNCHANGED <<manifests, disturbed>> /\ r.step = "seal"
  BY DEF Seal, Quiet, Read
<1> DEFINE passes == /\ r.index.given => DOMAIN r.index.of = DOMAIN r.tensors
                     /\ c.assets # {} /\ DOMAIN r.shards # {} /\ DOMAIN r.tensors # {}
           new == [r EXCEPT !.step = IF r.command = "import" THEN "register" ELSE "compare",
                            !.assets = c.assets]
<1>2. IF passes THEN Become(k, new) ELSE Refuse(k)
  BY DEF Seal
<1>3. k \notin disturbed =>
        /\ c.config = "object" /\ r.index = c.index /\ Hashed(r, c) /\ r.left = {}
        /\ HeadersRead(r.tensors, c, DOMAIN r.shards)
  BY <1>0, <1>1 DEF ReadingTrue, AtLeast, HeadersOf
<1>4. CASE passes
  <2>1. new \in Reading
    BY <1>0 DEF Reading, ImportSteps, Checkpoint
  <2>2. /\ new.step = (IF r.command = "import" THEN "register" ELSE "compare")
        /\ new.tensors = r.tensors /\ new.left = r.left /\ new.shards = r.shards
        /\ new.index = r.index /\ new.command = r.command /\ new.expected = r.expected
        /\ new.assets = c.assets
    BY <1>0 DEF Reading
  <2>3. r.command \in {"import", "verify"}
        /\ (r.command = "verify" => r.expected # {} /\ \A m, n \in r.expected : m = n)
    BY <1>0, <1>1 DEF ReadingFits, Reading
  <2>4. \A t \in DOMAIN r.tensors : r.tensors[t].shard \in DOMAIN r.shards
    BY <1>0, <1>1 DEF ReadingFits, HeadersOf
  <2>5. Become(k, new)
    BY <1>2, <1>4
  <2> HIDE DEF new
  <2>6. ReadingFits(new)
    BY <1>4, <2>2, <2>3, <2>4 DEF ReadingFits
  <2>7. ASSUME k \notin disturbed PROVE ReadingTrue(new, c, manifests # {})
    <3>1. Hashed(new, c)
      BY <1>3, <2>2, <2>7 DEF Hashed
    <3>2. HeadersOf(new, LeastOf(new.left)) = DOMAIN r.shards
      BY <2>2 DEF HeadersOf
    <3>3. HeadersRead(new.tensors, c, HeadersOf(new, LeastOf(new.left)))
      BY <1>3, <2>2, <2>7, <3>2
    <3> QED BY <1>3, <1>4, <2>2, <2>7, <3>1, <3>3 DEF ReadingTrue, AtLeast
  <2>8. k \notin disturbed' => ReadingTrue(new, c, manifests' # {})
    BY <1>1, <2>7
  <2> QED BY <1>1, <2>1, <2>5, <2>6, <2>8, CommandGoesOn
<1>5. CASE ~passes
  <2>1. ASSUME k \notin disturbed, WellFormed(c) PROVE FALSE
    <3>1. DOMAIN r.shards = Present(c)
      BY <1>3, <2>1 DEF Hashed
    <3>2. HeadersRead(r.tensors, c, Present(c))
      BY <1>3, <2>1, <3>1
    <3>3. /\ c.index.given => DOMAIN c.index.of = DOMAIN r.tensors
          /\ c.assets # {} /\ Present(c) # {} /\ DOMAIN r.tensors # {}
      BY <1>0, <2>1, <3>2, SealRefused
    <3> QED BY <1>3, <1>5, <2>1, <3>1, <3>3
  <2>2. k \notin disturbed => CannotBeImported(c)
    BY <2>1 DEF CannotBeImported
  <2> QED BY <1>1, <1>2, <1>5, <2>2, CommandRefused
<1> QED BY <1>4, <1>5

LEMMA RegisterManifestStep ==
  ASSUME ImportIInv, NEW k \in Importer, Register(k)
  PROVE  ImportIInv'
<1> DEFINE r == importer[k]
           m == ManifestOf(r)
<1>0. r \in Reading /\ ReadingFits(r)
  BY Its
<1>1. Unedited /\ UNCHANGED disturbed /\ r.step = "register" /\ r.command = "import"
  BY <1>0 DEF Register, Read, ReadingFits
<1>2. CASE manifests \subseteq {Sealed(m)}
  <2>1. manifests' = {Sealed(m)} /\ Become(k, NoReading)
    BY <1>2 DEF Register
  <2>2. m \in Manifest
    BY <1>0 DEF ManifestOf, Manifest, Reading
  <2>3. Sealed(m) \in [manifest : Manifest, seal : Manifest]
    BY <2>2 DEF Sealed
  <2>4. ManifestValid(Sealed(m))
    BY <1>0, <1>1 DEF ManifestValid, Sealed, ManifestOf, ReadingFits
  <2>5. ReadingTrue(NoReading, checkpoint, manifests' # {})
    BY DEF NoReading, ReadingTrue, AtLeast
  <2> QED BY <1>1, <2>1, <2>3, <2>4, <2>5, NoReadingTyped, CommandGoesOn
<1>3. CASE ~(manifests \subseteq {Sealed(m)})
  <2>1. Refuse(k) /\ UNCHANGED manifests
    BY <1>3 DEF Register
  <2>2. manifests # {}
    BY <1>3
  <2> QED BY <1>1, <2>1, <2>2, CommandRefused
<1> QED BY <1>2, <1>3

LEMMA CompareStep ==
  ASSUME ImportIInv, NEW k \in Importer, CompareManifest(k) \/ Report(k)
  PROVE  ImportIInv'
<1> DEFINE r == importer[k]
           c == checkpoint
           m == ManifestOf(r)
<1>0. r \in Reading /\ ReadingFits(r) /\ c \in Checkpoint
      /\ (k \notin disturbed => ReadingTrue(r, c, manifests # {}))
  BY Its
<1>1. CASE CompareManifest(k)
  <2> DEFINE new == [r EXCEPT !.step = IF r.expected = {m} THEN "verified" ELSE "refused"]
  <2>1. Unedited /\ UNCHANGED <<manifests, disturbed>> /\ r.step = "compare" /\ Become(k, new)
    BY <1>1 DEF CompareManifest, Quiet, Read
  <2>2. new \in Reading
    BY <1>0 DEF Reading, ImportSteps
  <2>3. /\ new.step = (IF r.expected = {m} THEN "verified" ELSE "refused")
        /\ new.command = r.command /\ new.expected = r.expected
    BY <1>0 DEF Reading
  <2>4. /\ r.command = "verify" /\ r.expected # {}
        /\ r.expected \in SUBSET Manifest /\ \A o, n \in r.expected : o = n
    BY <1>0, <2>1 DEF ReadingFits, Reading
  <2> HIDE DEF new
  <2>5. ReadingFits(new)
    BY <2>3, <2>4 DEF ReadingFits
  <2>6. ASSUME k \notin disturbed PROVE ReadingTrue(new, c, manifests # {})
    <3>1. WellFormed(c) /\ Describes(m, c)
      <4>1. AtLeast(r, {}) /\ ReadingTrue(r, c, manifests # {})
        BY <1>0, <2>1, <2>6 DEF AtLeast
      <4> HIDE DEF r, c, m
      <4> QED BY <1>0, <4>1, SealedRight DEF r, c, m
    <3>2. CASE r.expected = {m}
      BY <2>3, <3>1, <3>2 DEF ReadingTrue, AtLeast
    <3>3. CASE r.expected # {m}
      <4>1. m \in Manifest
        BY <1>0 DEF ManifestOf, Manifest, Reading
      <4>2. \A n \in r.expected : ~Describes(n, c)
        <5> SUFFICES ASSUME NEW n \in r.expected, Describes(n, c) PROVE FALSE
          OBVIOUS
        <5>1. n = m
          BY <1>0, <2>4, <3>1, <4>1, DescribesOne
        <5> QED BY <2>4, <3>3, <5>1
      <4> QED BY <2>3, <2>4, <3>3, <4>2 DEF ReadingTrue, AtLeast
    <3> QED BY <3>2, <3>3
  <2>7. k \notin disturbed' => ReadingTrue(new, c, manifests' # {})
    BY <2>1, <2>6
  <2> QED BY <2>1, <2>2, <2>5, <2>7, CommandGoesOn
<1>2. CASE Report(k)
  <2>1. Unedited /\ UNCHANGED <<manifests, disturbed>> /\ Become(k, NoReading)
    BY <1>2 DEF Report, Quiet
  <2>2. ReadingTrue(NoReading, checkpoint, manifests' # {})
    BY DEF NoReading, ReadingTrue, AtLeast
  <2> QED BY <2>1, <2>2, NoReadingTyped, CommandGoesOn
<1> QED BY <1>1, <1>2

LEMMA EditStep ==
  ASSUME ImportIInv, EditCheckpoint \/ EditManifest
  PROVE  ImportIInv'
<1>1. CASE EditCheckpoint
  <2>1. /\ UNCHANGED <<manifests, importer, manifestEdits>>
        /\ disturbed' = {k \in Importer : importer[k].step # "idle"}
        /\ checkpointEdits' = checkpointEdits + 1 /\ checkpointEdits < MaxCheckpointEdits
    BY <1>1 DEF EditCheckpoint, Read
  <2>2. checkpoint' \in Checkpoint
    <3>1. checkpoint \in Checkpoint
      BY DEF ImportIInv, ImportShape
    <3>2. CASE \E s \in Shard, b \in ShardBody \union {NoShardFile} :
                 checkpoint' = [checkpoint EXCEPT !.files[s] = b]
      <4>1. PICK s \in Shard, b \in ShardBody \union {NoShardFile} :
              checkpoint' = [checkpoint EXCEPT !.files[s] = b]
        BY <3>2
      <4> QED BY <3>1, <4>1 DEF Checkpoint
    <3>3. CASE \E i \in Index : checkpoint' = [checkpoint EXCEPT !.index = i]
      BY <3>1, <3>3 DEF Checkpoint
    <3>4. CASE \E a \in SUBSET Asset : checkpoint' = [checkpoint EXCEPT !.assets = a]
      BY <3>1, <3>4 DEF Checkpoint
    <3> QED BY <1>1, <3>2, <3>3, <3>4 DEF EditCheckpoint
  <2>3. ImportShape'
    <3>1. checkpointEdits' \in 0 .. MaxCheckpointEdits
      BY <2>1, CheckpointAssumption DEF ImportIInv, ImportShape
    <3> QED BY <2>1, <2>2, <3>1 DEF ImportIInv, ImportShape
  <2>4. \A k \in Importer \ disturbed' : ReadingTrue(importer[k], checkpoint', manifests # {})
    BY <2>1 DEF ReadingTrue, AtLeast
  <2> QED BY <2>1, <2>3, <2>4 DEF ImportIInv
<1>2. CASE EditManifest
  <2>1. /\ UNCHANGED <<checkpoint, importer, checkpointEdits, disturbed>>
        /\ manifestEdits' = manifestEdits + 1 /\ manifestEdits < MaxManifestEdits
    BY <1>2 DEF EditManifest
  <2> DEFINE Reshard(o, s, b) == [o.manifest EXCEPT !.shards[s] = b]
             Unlist(o) == [o.manifest EXCEPT !.tensors = <<>>]
             EditedTo(o) == {Reshard(o, s, b) : s \in DOMAIN o.manifest.shards, b \in ShardBody}
                            \union {Unlist(o)}
  <2>2. PICK record \in manifests : \E m \in EditedTo(record) : \E seal \in {record.seal, m} :
          manifests' = {[manifest |-> m, seal |-> seal]}
    BY <1>2 DEF EditManifest
  <2>3. record.manifest \in Manifest /\ record.seal \in Manifest
    BY DEF ImportIInv, ImportShape
  <2>4. ASSUME NEW s \in DOMAIN record.manifest.shards, NEW b \in ShardBody
        PROVE  Reshard(record, s, b) \in Manifest
    <3>1. PICK S \in SUBSET Shard : record.manifest.shards \in [S -> ShardBody]
      BY <2>3 DEF Manifest, ShardList
    <3> DEFINE shards == [record.manifest.shards EXCEPT ![s] = b]
    <3>2. shards \in [S -> ShardBody]
      BY <3>1
    <3>3. Reshard(record, s, b) = [record.manifest EXCEPT !.shards = shards]
      OBVIOUS
    <3> HIDE DEF shards, Reshard
    <3>4. shards \in ShardList
      BY <3>1, <3>2 DEF ShardList
    <3> QED BY <2>3, <3>3, <3>4 DEF Manifest
  <2>5. Unlist(record) \in Manifest
    <3>1. <<>> \in TensorList
      BY NoReadingTyped DEF NoReading, Reading
    <3> QED BY <2>3, <3>1 DEF Manifest
  <2> HIDE DEF Reshard, Unlist
  <2>6. \A m \in EditedTo(record) : m \in Manifest
    BY <2>4, <2>5
  <2> HIDE DEF EditedTo
  <2>7. \E m \in Manifest, seal \in Manifest : manifests' = {[manifest |-> m, seal |-> seal]}
    BY <2>2, <2>3, <2>6
  <2>8. \E o \in [manifest : Manifest, seal : Manifest] : manifests' = {o}
    BY <2>7
  <2>9. /\ \A o \in manifests' : o \in [manifest : Manifest, seal : Manifest]
        /\ IsFiniteSet(manifests') /\ Cardinality(manifests') <= 1
    <3>1. PICK o \in [manifest : Manifest, seal : Manifest] : manifests' = {o}
      BY <2>8
    <3>2. IsFiniteSet({o}) /\ Cardinality({o}) = 1
      BY FS_Singleton
    <3>3. \A x \in manifests' : x = o
      BY <3>1
    <3>4. \A x \in manifests' : x \in [manifest : Manifest, seal : Manifest]
      BY <3>1, <3>3
    <3> QED BY <3>1, <3>2, <3>4
  <2>10. manifestEdits' \in 1 .. MaxManifestEdits
    BY <2>1, CheckpointAssumption DEF ImportIInv, ImportShape
  <2>11. ImportShape'
    BY <2>1, <2>9, <2>10 DEF ImportIInv, ImportShape
  <2>12. manifests # {} /\ manifests' # {}
    BY <2>2, <2>8
  <2> QED BY <2>1, <2>11, <2>12 DEF ImportIInv
<1> QED BY <1>1, <1>2

\* From the first step of a command to its verdict: ImportIInv is inductive.
THEOREM ImportIInvCorrect == ImportSpec => []ImportIInv
<1>1. ImportInit => ImportIInv
  <2> SUFFICES ASSUME ImportInit PROVE ImportIInv
    OBVIOUS
  <2>1. ImportShape
    BY NoReadingTyped, FS_EmptySet, CheckpointAssumption DEF ImportInit, ImportShape
  <2>2. \A k \in Importer : importer[k] = NoReading
    BY DEF ImportInit
  <2>3. ReadingTrue(NoReading, checkpoint, manifests # {})
    BY DEF NoReading, ReadingTrue, AtLeast
  <2> QED BY <2>1, <2>2, <2>3, NoReadingTyped DEF ImportIInv
<1>2. ImportIInv /\ [ImportNext]_checkpointVars => ImportIInv'
  <2> SUFFICES ASSUME ImportIInv, [ImportNext]_checkpointVars PROVE ImportIInv'
    OBVIOUS
  <2>1. CASE UNCHANGED checkpointVars
    BY <2>1 DEF checkpointVars, ImportIInv, ImportShape
  <2>2. CASE EditCheckpoint \/ EditManifest
    BY <2>2, EditStep
  <2>3. ASSUME NEW k \in Importer, ImportStep(k) PROVE ImportIInv'
    BY <2>3, BeginStep, ConfigStep, ListStep, HeaderStep, HashStep, SealStep, RegisterManifestStep,
       CompareStep DEF ImportStep
  <2> QED BY <2>1, <2>2, <2>3 DEF ImportNext
<1> QED BY <1>1, <1>2, PTL DEF ImportSpec

\* A manifest that is registered is of the checkpoint, and a verdict is right.
THEOREM ImportCorrect == ImportSpec => []ImportInv
<1>1. ImportIInv => ImportInv
  <2> SUFFICES ASSUME ImportIInv PROVE ImportInv
    OBVIOUS
  <2>1. ImportTypeOK
    <3>1. ASSUME NEW record \in manifests
          PROVE  /\ DOMAIN record.seal.shards \subseteq Shard
                 /\ DOMAIN record.seal.tensors \subseteq Tensor
      <4>1. record.seal \in Manifest
        BY DEF ImportIInv, ImportShape
      <4>2. record.seal.shards \in ShardList /\ record.seal.tensors \in TensorList
        BY <4>1 DEF Manifest
      <4> QED BY <4>2 DEF ShardList, TensorList
    <3>2. \A k \in Importer : importer[k].step \in ImportSteps /\ importer[k].left \subseteq Shard
      BY DEF ImportIInv, ImportShape, Reading
    <3> QED BY <3>1, <3>2 DEF ImportIInv, ImportShape, ImportTypeOK, ImportSteps
  <2>2. ASSUME NEW k \in Importer \ disturbed
        PROVE  /\ ReadingFits(importer[k]) /\ ReadingTrue(importer[k], checkpoint, manifests # {})
               /\ importer[k].step \in {"register", "compare"} =>
                    WellFormed(checkpoint) /\ Describes(ManifestOf(importer[k]), checkpoint)
    <3>1. ReadingFits(importer[k]) /\ ReadingTrue(importer[k], checkpoint, manifests # {})
      BY Its
    <3>2. ASSUME AtLeast(importer[k], {})
          PROVE  WellFormed(checkpoint) /\ Describes(ManifestOf(importer[k]), checkpoint)
      BY <3>1, <3>2, Its, SealedRight
    <3> QED BY <3>1, <3>2 DEF AtLeast
  <2>3. ImportAgrees
    BY <2>2 DEF ImportAgrees, ReadingTrue, CannotBeImported
  <2>4. VerdictIsRight
    BY <2>2 DEF VerdictIsRight, ReadingTrue, CannotBeImported
  <2> QED BY <2>1, <2>3, <2>4 DEF ImportInv
<1> QED BY <1>1, ImportIInvCorrect, PTL

--------------------------------------------------------------------------------

(* Edited settings. *)

\* What holds for 0, and for each number up to n if for the one before, holds up to n.
LEMMA HoldsUpTo ==
  ASSUME NEW n \in Nat, NEW P, 0 \in P, \A i \in 1 .. n : i - 1 \in P => i \in P
  PROVE  \A i \in 0 .. n : i \in P
<1> DEFINE R == {ss \in Nat \X Nat : ss[1] < ss[2]}
           Bad == {i \in 0 .. n : i \notin P}
<1>1. R = OpToRel(<, Nat)
  BY DEF OpToRel
<1>2. IsWellFoundedOn(R, Nat)
  BY NatLessThanWellFounded, <1>1
<1> HIDE DEF R
<1>3. SUFFICES ASSUME Bad # {}
               PROVE  FALSE
  OBVIOUS
<1>4. Bad \in SUBSET Nat
  OBVIOUS
<1> HIDE DEF Bad
<1>5. PICK m \in Bad : \A i \in Bad : ~(<<i, m>> \in R)
  BY <1>2, <1>3, <1>4, WFMin
<1>6. m \in 1 .. n /\ m \notin P
  BY DEF Bad
<1>7. m - 1 \in Bad
  BY <1>6 DEF Bad
<1>8. m \in Nat /\ m - 1 \in Nat /\ m - 1 < m
  BY <1>6
<1>9. <<m - 1, m>> \in R
  BY <1>8 DEF R
<1> QED BY <1>5, <1>7, <1>9

\* Where the elements of two sequences are in the one made of them.
LEMMA Joined ==
  ASSUME NEW S, NEW s \in Seq(S), NEW t \in Seq(S)
  PROVE  /\ s \o t \in Seq(S) /\ Len(s \o t) = Len(s) + Len(t)
         /\ Len(s) \in Nat /\ Len(t) \in Nat
         /\ \A i \in 1 .. Len(s) : (s \o t)[i] = s[i]
         /\ \A i \in 1 .. Len(t) : (s \o t)[Len(s) + i] = t[i]
<1> DEFINE u == s \o t
<1>1. /\ u \in Seq(S) /\ Len(u) = Len(s) + Len(t)
      /\ \A i \in 1 .. Len(s) + Len(t) : u[i] = IF i <= Len(s) THEN s[i] ELSE t[i - Len(s)]
  BY ConcatProperties
<1>2. Len(s) \in Nat /\ Len(t) \in Nat
  OBVIOUS
<1> HIDE DEF u
<1>3. \A i \in 1 .. Len(s) : u[i] = s[i]
  BY <1>1, <1>2
<1>4. ASSUME NEW i \in 1 .. Len(t)
      PROVE  u[Len(s) + i] = t[i]
  <2>1. Len(s) + i \in 1 .. Len(s) + Len(t) /\ ~(Len(s) + i <= Len(s)) /\ (Len(s) + i) - Len(s) = i
    BY <1>2
  <2> QED BY <1>1, <2>1
<1> QED BY <1>1, <1>2, <1>3, <1>4 DEF u


\* A state of the split, and whether a text is read to end in it.
SplitState == [words : Seq(Seq(TextToken)), word : Seq(TextToken), quote : {"", "'", "\""},
               escaped : BOOLEAN]

Reads(t, s) ==
  \E read : /\ read[0] = NoWords /\ read[Len(t)] = s
            /\ \A n \in 1 .. Len(t) : read[n] = WordStep(read[n - 1], t[n])

\* What is read of a text is what the split has at its end.
LEMMA SplitReads ==
  ASSUME NEW t, Len(t) \in Nat
  PROVE  \E s : /\ Reads(t, s)
                /\ SplitShellWords(t) =
                     [ok    |-> ~s.escaped /\ s.quote = "",
                      value |-> IF s.word = <<>> THEN s.words ELSE Append(s.words, s.word)]
<1> DEFINE N == Len(t)
           Fills(g, k) == g = [n \in 0 .. k |-> IF n = 0 THEN NoWords ELSE WordStep(g[n - 1], t[n])]
           P == {k \in 0 .. N : \E g : Fills(g, k)}
           read == CHOOSE g : Fills(g, N)
<1>1. N \in Nat
  OBVIOUS
<1>2. 0 \in P
  <2> DEFINE g == [n \in 0 .. 0 |-> NoWords]
  <2>1. Fills(g, 0)
    <3>1. \A n \in 0 .. 0 : n = 0
      OBVIOUS
    <3> QED BY <3>1
  <2> HIDE DEF Fills, g
  <2> QED BY <1>1, <2>1
<1>3. ASSUME NEW k \in 1 .. N, k - 1 \in P
      PROVE  k \in P
  <2>1. PICK g : Fills(g, k - 1)
    BY <1>3
  <2> DEFINE h == [n \in 0 .. k |-> IF n = k THEN WordStep(g[k - 1], t[k]) ELSE g[n]]
  <2>2. \A n \in 0 .. k - 1 : g[n] = IF n = 0 THEN NoWords ELSE WordStep(g[n - 1], t[n])
    BY <2>1
  <2>3. \A n \in 0 .. k : h[n] = IF n = 0 THEN NoWords ELSE WordStep(h[n - 1], t[n])
    <3>1. \A n \in 0 .. k - 1 : h[n] = g[n]
      BY <1>1
    <3>2. h[k] = WordStep(g[k - 1], t[k]) /\ h[k - 1] = g[k - 1]
      BY <1>1
    <3>3. \A n \in 1 .. k - 1 : n - 1 \in 0 .. k - 1 /\ n \in 0 .. k - 1
      BY <1>1
    <3>4. 0 \in 0 .. k - 1 /\ \A n \in 0 .. k : n = 0 \/ n \in 1 .. k - 1 \/ n = k
      BY <1>1
    <3> HIDE DEF h
    <3> QED BY <2>2, <3>1, <3>2, <3>3, <3>4
  <2>4. h = [n \in 0 .. k |-> h[n]]
    OBVIOUS
  <2> HIDE DEF h
  <2>5. Fills(h, k)
    BY <2>3, <2>4
  <2>6. k \in 0 .. N
    BY <1>1
  <2> HIDE DEF Fills
  <2> QED BY <2>5, <2>6
<1>4. N \in P
  <2> HIDE DEF P, N
  <2>1. \A i \in 0 .. N : i \in P
    BY <1>1, <1>2, <1>3, HoldsUpTo
  <2> QED BY <1>1, <2>1
<1>5. Fills(read, N)
  <2>1. \E g : Fills(g, N)
    BY <1>4
  <2> HIDE DEF Fills
  <2> QED BY <2>1
<1> DEFINE s == read[N]
<1>6. SplitShellWords(t) =
        [ok    |-> ~s.escaped /\ s.quote = "",
         value |-> IF s.word = <<>> THEN s.words ELSE Append(s.words, s.word)]
  BY DEF SplitShellWords
<1> HIDE DEF read
<1>7. \A n \in 0 .. N : read[n] = IF n = 0 THEN NoWords ELSE WordStep(read[n - 1], t[n])
  BY <1>5
<1>8. read[0] = NoWords
  BY <1>1, <1>7
<1>9. ASSUME NEW n \in 1 .. N
      PROVE  read[n] = WordStep(read[n - 1], t[n])
  <2>1. n \in 0 .. N /\ n # 0
    BY <1>1
  <2> QED BY <1>7, <2>1
<1>10. Reads(t, s)
  BY <1>8, <1>9 DEF Reads
<1> QED BY <1>6, <1>10

\* It is read in one way.
LEMMA ReadsOnce ==
  ASSUME NEW t, Len(t) \in Nat, NEW s, Reads(t, s), NEW u, Reads(t, u)
  PROVE  s = u
<1>1. PICK r : /\ r[0] = NoWords /\ r[Len(t)] = s
               /\ \A n \in 1 .. Len(t) : r[n] = WordStep(r[n - 1], t[n])
  BY DEF Reads
<1>2. PICK q : /\ q[0] = NoWords /\ q[Len(t)] = u
               /\ \A n \in 1 .. Len(t) : q[n] = WordStep(q[n - 1], t[n])
  BY DEF Reads
<1> DEFINE P == {n \in 0 .. Len(t) : r[n] = q[n]}
<1>3. 0 \in P
  BY <1>1, <1>2
<1>4. ASSUME NEW n \in 1 .. Len(t), n - 1 \in P
      PROVE  n \in P
  BY <1>1, <1>2, <1>4
<1>5. \A n \in 0 .. Len(t) : n \in P
  <2> HIDE DEF P
  <2> QED BY <1>3, <1>4, HoldsUpTo
<1> QED BY <1>1, <1>2, <1>5

LEMMA ReadsNothing == Reads(<<>>, NoWords)
<1> DEFINE r == [n \in 0 .. 0 |-> NoWords]
<1>1. r[0] = NoWords /\ Len(<<>>) = 0 /\ 1 .. 0 = {}
  OBVIOUS
<1> HIDE DEF r
<1> QED BY <1>1 DEF Reads

\* One more token is one more step.
LEMMA ReadsMore ==
  ASSUME NEW t \in Seq(TextToken), NEW s, Reads(t, s), NEW c \in TextToken
  PROVE  Reads(Append(t, c), WordStep(s, c))
<1> DEFINE u == Append(t, c)
           k == Len(t)
<1>1. PICK r : /\ r[0] = NoWords /\ r[k] = s
               /\ \A n \in 1 .. k : r[n] = WordStep(r[n - 1], t[n])
  BY DEF Reads
<1>2. Len(u) = k + 1 /\ k \in Nat /\ u[k + 1] = c /\ \A n \in 1 .. k : u[n] = t[n]
  BY AppendProperties
<1> HIDE DEF u, k
<1> DEFINE q == [n \in 0 .. k + 1 |-> IF n = k + 1 THEN WordStep(s, c) ELSE r[n]]
<1>3. q[k + 1] = WordStep(s, c) /\ \A n \in 0 .. k : q[n] = r[n]
  BY <1>2
<1> HIDE DEF q
<1>4. q[0] = NoWords
  BY <1>1, <1>2, <1>3
<1>5. ASSUME NEW n \in 1 .. k + 1
      PROVE  q[n] = WordStep(q[n - 1], u[n])
  <2>1. CASE n = k + 1
    <3>1. n - 1 = k /\ k \in 0 .. k
      BY <1>2, <2>1
    <3> QED BY <1>1, <1>2, <1>3, <2>1, <3>1
  <2>2. CASE n \in 1 .. k
    <3>1. n - 1 \in 0 .. k /\ n \in 0 .. k
      BY <1>2, <2>2
    <3> QED BY <1>1, <1>2, <1>3, <2>2, <3>1
  <2> QED BY <1>2, <2>1, <2>2
<1>6. Reads(u, WordStep(s, c))
  BY <1>2, <1>3, <1>4, <1>5 DEF Reads
<1> QED BY <1>6 DEF u

\* The split is always in one of its states.
LEMMA StepTyped ==
  ASSUME NEW s \in SplitState, NEW c \in TextToken
  PROVE  WordStep(s, c) \in SplitState
<1>1. s.words \in Seq(Seq(TextToken)) /\ s.word \in Seq(TextToken) /\ s.quote \in {"", "'", "\""}
  BY DEF SplitState
<1>2. Append(s.word, c) \in Seq(TextToken) /\ Append(s.words, s.word) \in Seq(Seq(TextToken))
      /\ <<>> \in Seq(TextToken)
  <2> DEFINE a == s.word
             b == s.words
             S == Seq(TextToken)
  <2>1. a \in Seq(TextToken) /\ a \in S /\ b \in Seq(S)
    BY <1>1
  <2> HIDE DEF a, b
  <2>2. Append(a, c) \in Seq(TextToken) /\ <<>> \in Seq(TextToken)
    BY <2>1
  <2> HIDE DEF S
  <2>3. Append(b, a) \in Seq(S)
    BY <2>1
  <2> QED BY <2>2, <2>3 DEF a, b, S
<1> DEFINE W == Append(s.word, c)
           V == Append(s.words, s.word)
<1> HIDE DEF W, V
<1>3. /\ [words |-> s.words, word |-> W, quote |-> s.quote, escaped |-> FALSE] \in SplitState
      /\ [words |-> s.words, word |-> s.word, quote |-> s.quote, escaped |-> TRUE] \in SplitState
      /\ \A q \in {"", "'", "\""} :
           [words |-> s.words, word |-> s.word, quote |-> q, escaped |-> FALSE] \in SplitState
      /\ [words |-> s.words, word |-> <<>>, quote |-> "", escaped |-> FALSE] \in SplitState
      /\ [words |-> V, word |-> <<>>, quote |-> "", escaped |-> FALSE] \in SplitState
  BY <1>1, <1>2 DEF W, V, SplitState
<1> QED BY <1>3 DEF WordStep, W, V

LEMMA SplitTyped ==
  ASSUME NEW t \in Seq(TextToken)
  PROVE  SplitShellWords(t).value \in Seq(Seq(TextToken))
<1>1. Len(t) \in Nat /\ \A n \in 1 .. Len(t) : t[n] \in TextToken
  OBVIOUS
<1>2. PICK s : /\ Reads(t, s)
               /\ SplitShellWords(t) =
                    [ok    |-> ~s.escaped /\ s.quote = "",
                     value |-> IF s.word = <<>> THEN s.words ELSE Append(s.words, s.word)]
  BY <1>1, SplitReads
<1>3. PICK r : /\ r[0] = NoWords /\ r[Len(t)] = s
               /\ \A n \in 1 .. Len(t) : r[n] = WordStep(r[n - 1], t[n])
  BY <1>2 DEF Reads
<1> DEFINE P == {n \in 0 .. Len(t) : r[n] \in SplitState}
<1>4. 0 \in P
  <2>1. NoWords \in SplitState
    BY DEF NoWords, SplitState
  <2> QED BY <1>1, <1>3, <2>1
<1>5. ASSUME NEW n \in 1 .. Len(t), n - 1 \in P
      PROVE  n \in P
  BY <1>1, <1>3, <1>5, StepTyped
<1>6. \A n \in 0 .. Len(t) : n \in P
  <2> HIDE DEF P
  <2> QED BY <1>1, <1>4, <1>5, HoldsUpTo
<1>7. s \in SplitState
  BY <1>1, <1>3, <1>6
<1>10. SplitShellWords(t).value = IF s.word = <<>> THEN s.words ELSE Append(s.words, s.word)
  <2> DEFINE o == ~s.escaped /\ s.quote = ""
             v == IF s.word = <<>> THEN s.words ELSE Append(s.words, s.word)
  <2>1. SplitShellWords(t) = [ok |-> o, value |-> v]
    BY <1>2
  <2> HIDE DEF o, v
  <2>2. SplitShellWords(t).value = v
    BY <2>1
  <2> QED BY <2>2 DEF v
<1> DEFINE a == s.word
           b == s.words
           S == Seq(TextToken)
<1>8. a \in S /\ b \in Seq(S)
  BY <1>7 DEF SplitState
<1> HIDE DEF a, b, S
<1>9. Append(b, a) \in Seq(S)
  BY <1>8
<1>11. SplitShellWords(t).value = IF a = <<>> THEN b ELSE Append(b, a)
  BY <1>10 DEF a, b
<1>12. SplitShellWords(t).value \in Seq(S)
  BY <1>8, <1>9, <1>11
<1> QED BY <1>12 DEF S


\* The first k elements of a sequence.
First(s, k) == [i \in 1 .. k |-> s[i]]

LEMMA FirstGrows ==
  ASSUME NEW S, NEW s \in Seq(S), NEW k \in 1 .. Len(s)
  PROVE  First(s, k - 1) \in Seq(S) /\ First(s, k) \in Seq(S)
         /\ Append(First(s, k - 1), s[k]) = First(s, k)
<1>1. Len(s) \in Nat /\ \A i \in 1 .. Len(s) : s[i] \in S
  OBVIOUS
<1>2. k - 1 \in Nat /\ k \in Nat /\ (k - 1) + 1 = k
  BY <1>1
<1> DEFINE a == First(s, k - 1)
           b == First(s, k)
           c == s[k]
           u == Append(a, c)
<1>3. /\ a \in Seq(S) /\ Len(a) = k - 1 /\ \A i \in 1 .. k - 1 : a[i] = s[i]
      /\ b \in Seq(S) /\ b = [i \in 1 .. k |-> s[i]]
  BY <1>1, <1>2 DEF First
<1>4. c \in S
  BY <1>1
<1> HIDE DEF a, b, c
<1>5. /\ u \in Seq(S) /\ Len(u) = Len(a) + 1 /\ u[Len(a) + 1] = c
      /\ \A i \in 1 .. Len(a) : u[i] = a[i]
  BY <1>3, <1>4, AppendProperties
<1> HIDE DEF u
<1>6. u = [i \in 1 .. k |-> u[i]]
  BY <1>2, <1>3, <1>5
<1>7. \A i \in 1 .. k : u[i] = s[i]
  <2>1. \A i \in 1 .. k : i \in 1 .. k - 1 \/ i = k
    BY <1>2
  <2>2. u[k] = s[k]
    BY <1>2, <1>3, <1>5 DEF c
  <2> QED BY <1>2, <1>3, <1>5, <2>1, <2>2
<1>8. u = b
  BY <1>3, <1>6, <1>7
<1> QED BY <1>3, <1>8 DEF a, b, c, u

LEMMA AllOfIt ==
  ASSUME NEW S, NEW s \in Seq(S)
  PROVE  First(s, Len(s)) = s /\ First(s, 0) = <<>>
<1>1. s = [i \in 1 .. Len(s) |-> s[i]] /\ Len(s) \in Nat
  OBVIOUS
<1>2. First(s, 0) = <<>>
  BY DEF First
<1> QED BY <1>1, <1>2 DEF First

LEMMA JoinedMore ==
  ASSUME NEW S, NEW s \in Seq(S), NEW t \in Seq(S), NEW c \in S
  PROVE  s \o Append(t, c) = Append(s \o t, c)
<1> DEFINE u == Append(t, c)
           p == s \o t
           v == s \o u
           w == Append(p, c)
<1>1. /\ u \in Seq(S) /\ Len(u) = Len(t) + 1 /\ u[Len(t) + 1] = c /\ \A i \in 1 .. Len(t) : u[i] = t[i]
  BY AppendProperties
<1>2. /\ p \in Seq(S) /\ Len(p) = Len(s) + Len(t)
      /\ Len(s) \in Nat /\ Len(t) \in Nat
      /\ \A i \in 1 .. Len(s) : p[i] = s[i]
      /\ \A i \in 1 .. Len(t) : p[Len(s) + i] = t[i]
  BY ONLY s \in Seq(S), t \in Seq(S), Joined
<1> HIDE DEF u, p
<1>3. /\ v \in Seq(S) /\ Len(v) = Len(s) + Len(u)
      /\ \A i \in 1 .. Len(s) : v[i] = s[i]
      /\ \A i \in 1 .. Len(u) : v[Len(s) + i] = u[i]
  <2>1. u \in Seq(S)
    BY <1>1
  <2> QED BY ONLY <2>1, s \in Seq(S), Joined
<1>4. /\ w \in Seq(S) /\ Len(w) = Len(p) + 1 /\ w[Len(p) + 1] = c
      /\ \A i \in 1 .. Len(p) : w[i] = p[i]
  <2>1. p \in Seq(S)
    BY <1>2
  <2> QED BY ONLY <2>1, c \in S, AppendProperties DEF w
<1> HIDE DEF v, w
<1> DEFINE n == Len(s) + Len(t) + 1
<1>5. v = [i \in 1 .. n |-> v[i]] /\ w = [i \in 1 .. n |-> w[i]]
  <2>1. Len(v) = n /\ Len(w) = n
    BY <1>1, <1>2, <1>3, <1>4
  <2> HIDE DEF n
  <2> QED BY <1>3, <1>4, <2>1
<1>6. ASSUME NEW i \in 1 .. n
      PROVE  v[i] = w[i]
  <2>1. CASE i \in 1 .. Len(s)
    BY <1>2, <1>3, <1>4, <2>1
  <2>2. CASE i \in Len(s) + 1 .. Len(s) + Len(t)
    <3>1. i - Len(s) \in 1 .. Len(t) /\ i - Len(s) \in 1 .. Len(u) /\ Len(s) + (i - Len(s)) = i
          /\ i \in 1 .. Len(p)
      BY <1>1, <1>2, <2>2
    <3>2. v[i] = u[i - Len(s)] /\ p[i] = t[i - Len(s)]
      BY <1>2, <1>3, <3>1
    <3> QED BY <1>1, <1>4, <3>1, <3>2
  <2>3. CASE i = n
    <3>1. Len(t) + 1 \in 1 .. Len(u) /\ n = Len(s) + (Len(t) + 1) /\ n = Len(p) + 1
      BY <1>1, <1>2
    <3>2. v[n] = u[Len(t) + 1] /\ w[n] = c
      BY <1>3, <1>4, <3>1
    <3> QED BY <1>1, <2>3, <3>2
  <2>4. i \in 1 .. Len(s) \/ i \in Len(s) + 1 .. Len(s) + Len(t) \/ i = n
    <3>1. Len(s) \in Nat /\ Len(t) \in Nat
      BY <1>2
    <3> QED BY <3>1
  <2> QED BY <2>1, <2>2, <2>3, <2>4
<1>7. v = w
  <2> HIDE DEF n
  <2> QED BY <1>5, <1>6
<1> QED BY <1>7 DEF v, w, u, p

\* A word that a shell leaves as it is.
PlainWord(w) == w \in Seq(TextToken) /\ w # <<>> /\ \A j \in DOMAIN w : w[j] \notin Special

At(words, word) == [words |-> words, word |-> word, quote |-> "", escaped |-> FALSE]

\* It is read token by token.
LEMMA ReadsWord ==
  ASSUME NEW t \in Seq(TextToken), NEW ws, Reads(t, At(ws, <<>>)), NEW w, PlainWord(w)
  PROVE  Reads(t \o w, At(ws, w))
<1>1. w \in Seq(TextToken) /\ Len(w) \in Nat /\ DOMAIN w = 1 .. Len(w)
      /\ \A i \in 1 .. Len(w) : w[i] \in TextToken /\ w[i] \notin Special
  BY DEF PlainWord
<1> DEFINE P == {k \in 0 .. Len(w) : Reads(t \o First(w, k), At(ws, First(w, k)))}
<1>2. First(w, Len(w)) = w /\ First(w, 0) = <<>>
  BY <1>1, AllOfIt
<1>3. 0 \in P
  <2>1. t \o <<>> = t
    OBVIOUS
  <2>2. Reads(t \o First(w, 0), At(ws, First(w, 0)))
    BY <1>2, <2>1
  <2>3. 0 \in 0 .. Len(w)
    BY <1>1
  <2> QED BY <2>2, <2>3
<1>4. ASSUME NEW k \in 1 .. Len(w), k - 1 \in P
      PROVE  k \in P
  <2> DEFINE a == First(w, k - 1)
             b == First(w, k)
             c == w[k]
  <2>1. a \in Seq(TextToken) /\ b \in Seq(TextToken) /\ Append(a, c) = b
    BY <1>1, FirstGrows
  <2>2. c \in TextToken /\ c \notin Special
    BY <1>1
  <2>3. Reads(t \o a, At(ws, a))
    BY <1>4
  <2> HIDE DEF a, b, c
  <2>4. WordStep(At(ws, a), c) = At(ws, Append(a, c))
    BY <2>2 DEF WordStep, At, Special
  <2>5. t \o a \in Seq(TextToken)
    BY <2>1
  <2>6. Reads(Append(t \o a, c), At(ws, b))
    BY <2>1, <2>2, <2>3, <2>4, <2>5, ReadsMore
  <2>7. t \o b = Append(t \o a, c)
    <3>1. t \in Seq(TextToken) /\ a \in Seq(TextToken) /\ c \in TextToken
      BY <2>1, <2>2
    <3>2. t \o Append(a, c) = Append(t \o a, c)
      BY ONLY <3>1, JoinedMore
    <3> QED BY <2>1, <3>2
  <2>8. Reads(t \o b, At(ws, b))
    BY <2>6, <2>7
  <2>9. k \in 0 .. Len(w)
    BY <1>1
  <2> QED BY <2>8, <2>9 DEF b
<1>5. \A k \in 0 .. Len(w) : k \in P
  <2> HIDE DEF P
  <2> QED BY <1>1, <1>3, <1>4, HoldsUpTo
<1>6. Len(w) \in P
  <2> HIDE DEF P
  <2> QED BY <1>1, <1>5
<1>7. Reads(t \o First(w, Len(w)), At(ws, First(w, Len(w))))
  BY <1>6
<1> QED BY <1>2, <1>7


LEMMA TextDefined ==
  ASSUME NEW ws, Len(ws) \in Nat
  PROVE  \E text : /\ ArgumentsText(ws) = text[Len(ws)] /\ text[0] = <<>>
                   /\ \A n \in 1 .. Len(ws) :
                        text[n] = IF n = 1 THEN ws[1] ELSE Append(text[n - 1], Blank) \o ws[n]
<1> DEFINE N == Len(ws)
           Next(g, n) == IF n = 0 THEN <<>> ELSE IF n = 1 THEN ws[1]
                         ELSE Append(g[n - 1], Blank) \o ws[n]
           Fills(g, k) == g = [n \in 0 .. k |-> Next(g, n)]
           P == {k \in 0 .. N : \E g : Fills(g, k)}
           text == CHOOSE g : Fills(g, N)
<1>1. N \in Nat
  OBVIOUS
<1>2. 0 \in P
  <2> DEFINE g == [n \in 0 .. 0 |-> <<>>]
  <2>1. Fills(g, 0)
    <3>1. \A n \in 0 .. 0 : n = 0
      OBVIOUS
    <3> QED BY <3>1
  <2> HIDE DEF Fills, g
  <2> QED BY <1>1, <2>1
<1>3. ASSUME NEW k \in 1 .. N, k - 1 \in P
      PROVE  k \in P
  <2>1. PICK g : Fills(g, k - 1)
    BY <1>3
  <2> DEFINE h == [n \in 0 .. k |-> IF n = k THEN Next(g, k) ELSE g[n]]
  <2>2. \A n \in 0 .. k - 1 : g[n] = Next(g, n)
    BY <2>1
  <2>3. ASSUME NEW n \in 0 .. k
        PROVE  h[n] = Next(h, n)
    <3>1. \A i \in 0 .. k - 1 : h[i] = g[i]
      BY <1>1
    <3>2. h[k] = Next(g, k) /\ h[k - 1] = g[k - 1]
      BY <1>1
    <3> HIDE DEF h
    <3>3. CASE n = k
      <4>1. k # 0 /\ h[k - 1] = g[k - 1]
        BY <3>2
      <4>2. Next(h, k) = Next(g, k)
        BY <4>1
      <4> QED BY <3>2, <3>3, <4>2
    <3>4. CASE n \in 1 .. k - 1
      <4>1. n - 1 \in 0 .. k - 1 /\ n \in 0 .. k - 1
        BY <1>1, <3>4
      <4>2. h[n] = g[n] /\ h[n - 1] = g[n - 1]
        BY <3>1, <4>1
      <4>3. g[n] = Next(g, n)
        BY <2>2, <4>1
      <4> QED BY <4>2, <4>3
    <3>5. CASE n = 0
      <4>1. 0 \in 0 .. k - 1
        BY <1>1
      <4>2. h[0] = g[0] /\ g[0] = Next(g, 0)
        BY <2>2, <3>1, <4>1
      <4> QED BY <3>5, <4>2
    <3>6. n = 0 \/ n \in 1 .. k - 1 \/ n = k
      BY <1>1
    <3> QED BY <3>3, <3>4, <3>5, <3>6
  <2>4. h = [n \in 0 .. k |-> h[n]]
    OBVIOUS
  <2> HIDE DEF h, Next
  <2>5. Fills(h, k)
    BY <2>3, <2>4
  <2>6. k \in 0 .. N
    BY <1>1
  <2> HIDE DEF Fills
  <2> QED BY <2>5, <2>6
<1>4. N \in P
  <2> HIDE DEF P, N
  <2>1. \A i \in 0 .. N : i \in P
    BY <1>1, <1>2, <1>3, HoldsUpTo
  <2> QED BY <1>1, <2>1
<1>5. Fills(text, N)
  <2>1. \E g : Fills(g, N)
    BY <1>4
  <2> HIDE DEF Fills
  <2> QED BY <2>1
<1>6. ArgumentsText(ws) = text[N]
  BY DEF ArgumentsText
<1> HIDE DEF text
<1>7. \A n \in 0 .. N : text[n] = Next(text, n)
  <2> HIDE DEF Next
  <2> QED BY <1>5
<1>8. text[0] = <<>>
  BY <1>1, <1>7
<1>9. ASSUME NEW n \in 1 .. N
      PROVE  text[n] = IF n = 1 THEN ws[1] ELSE Append(text[n - 1], Blank) \o ws[n]
  <2>1. n \in 0 .. N /\ n # 0
    BY <1>1
  <2> QED BY <1>7, <2>1
<1> QED BY <1>6, <1>8, <1>9

LEMMA BlankIsToken == Blank \in TextToken
BY SettingsAssumption DEF Special

\* The text shown of the arguments is a text.
LEMMA TextTyped ==
  ASSUME NEW ws \in Seq(Seq(TextToken))
  PROVE  ArgumentsText(ws) \in Seq(TextToken)
<1>1. Len(ws) \in Nat /\ \A n \in 1 .. Len(ws) : ws[n] \in Seq(TextToken)
  OBVIOUS
<1>2. PICK text : /\ ArgumentsText(ws) = text[Len(ws)] /\ text[0] = <<>>
                  /\ \A n \in 1 .. Len(ws) :
                       text[n] = IF n = 1 THEN ws[1] ELSE Append(text[n - 1], Blank) \o ws[n]
  BY <1>1, TextDefined
<1> DEFINE P == {n \in 0 .. Len(ws) : text[n] \in Seq(TextToken)}
<1>3. 0 \in P
  <2>1. <<>> \in Seq(TextToken) /\ 0 \in 0 .. Len(ws)
    BY <1>1
  <2> QED BY <1>2, <2>1
<1>4. ASSUME NEW n \in 1 .. Len(ws), n - 1 \in P
      PROVE  n \in P
  <2>1. text[n - 1] \in Seq(TextToken) /\ ws[n] \in Seq(TextToken)
    BY <1>1, <1>4
  <2> DEFINE a == text[n - 1]
             b == ws[n]
  <2>2. a \in Seq(TextToken) /\ b \in Seq(TextToken)
    BY <2>1
  <2> HIDE DEF a, b
  <2>3. Append(a, Blank) \o b \in Seq(TextToken)
    BY <2>2, BlankIsToken
  <2>4. text[n] = b \/ text[n] = Append(a, Blank) \o b
    BY <1>2 DEF a, b
  <2>5. n \in 0 .. Len(ws)
    BY <1>1
  <2> QED BY <2>2, <2>3, <2>4, <2>5
<1>5. \A n \in 0 .. Len(ws) : n \in P
  <2> HIDE DEF P
  <2> QED BY <1>1, <1>3, <1>4, HoldsUpTo
<1> QED BY <1>1, <1>2, <1>5

\* Plain arguments are read back from the text that is shown of them.
LEMMA PlainReadBack ==
  ASSUME NEW ws \in Seq(Seq(TextToken)), \A i \in DOMAIN ws : PlainWord(ws[i])
  PROVE  SplitShellWords(ArgumentsText(ws)) = [ok |-> TRUE, value |-> ws]
<1> DEFINE S == Seq(TextToken)
           t == ArgumentsText(ws)
<1>1. Len(ws) \in Nat /\ DOMAIN ws = 1 .. Len(ws) /\ \A n \in 1 .. Len(ws) : ws[n] \in S
  OBVIOUS
<1>2. PICK text : /\ t = text[Len(ws)] /\ text[0] = <<>>
                  /\ \A n \in 1 .. Len(ws) :
                       text[n] = IF n = 1 THEN ws[1] ELSE Append(text[n - 1], Blank) \o ws[n]
  BY <1>1, TextDefined
<1>3. t \in Seq(TextToken)
  BY TextTyped
<1> HIDE DEF t, S
<1>4. ws \in Seq(S)
  BY DEF S
<1> DEFINE P == {n \in 0 .. Len(ws) :
                   n = 0 \/ (text[n] \in S /\ Reads(text[n], At(First(ws, n - 1), ws[n])))}
<1>5. 0 \in P
  BY <1>1
<1>6. ASSUME NEW n \in 1 .. Len(ws), n - 1 \in P
      PROVE  n \in P
  <2>1. PlainWord(ws[n]) /\ ws[n] \in Seq(TextToken)
    BY <1>1 DEF PlainWord
  <2>2. n \in 0 .. Len(ws) /\ n # 0
    BY <1>1
  <2>3. CASE n = 1
    <3>1. Reads(<<>>, At(<<>>, <<>>))
      BY ReadsNothing DEF At, NoWords
    <3>2. <<>> \in Seq(TextToken)
      OBVIOUS
    <3> DEFINE w == ws[1]
    <3>3. PlainWord(w) /\ w \in Seq(TextToken)
      BY <2>1, <2>3
    <3> HIDE DEF w
    <3>4. Reads(<<>> \o w, At(<<>>, w))
      BY <3>1, <3>2, <3>3, ReadsWord
    <3>5. <<>> \o w = w
      BY <3>3
    <3>6. First(ws, 1 - 1) = <<>>
      BY <1>4, AllOfIt
    <3>7. text[1] = w
      BY <1>2, <2>3 DEF w
    <3>8. text[1] \in S /\ Reads(text[1], At(First(ws, 1 - 1), ws[1]))
      BY <3>3, <3>4, <3>5, <3>6, <3>7 DEF w, S
    <3> QED BY <2>2, <2>3, <3>8
  <2>4. CASE n # 1
    <3> DEFINE a == text[n - 1]
               v == ws[n - 1]
               w == ws[n]
               c == Append(a, Blank)
               f == First(ws, (n - 1) - 1)
               g == First(ws, n - 1)
    <3>1. n - 1 \in 1 .. Len(ws)
      BY <1>1, <2>4
    <3>2. a \in S /\ Reads(a, At(f, v))
      BY <1>6, <3>1
    <3>3. f \in Seq(S) /\ g \in Seq(S) /\ Append(f, v) = g
      BY <1>4, <3>1, FirstGrows
    <3>4. PlainWord(v) /\ PlainWord(w) /\ w \in S
      BY <1>1, <2>1, <3>1
    <3>5. text[n] = c \o w
      BY <1>2, <2>4
    <3> HIDE DEF a, v, w, f, g
    <3>6. WordStep(At(f, v), Blank) = At(g, <<>>)
      <4>1. v # <<>>
        BY <3>4 DEF PlainWord
      <4> QED BY <3>3, <4>1 DEF WordStep, At, Blank
    <3>7. a \in Seq(TextToken)
      BY <3>2 DEF S
    <3>8. Reads(c, At(g, <<>>))
      BY <3>2, <3>6, <3>7, BlankIsToken, ReadsMore
    <3>9. c \in Seq(TextToken)
      BY <3>7, BlankIsToken
    <3> HIDE DEF c
    <3>10. Reads(c \o w, At(g, w))
      BY <3>4, <3>8, <3>9, ReadsWord
    <3>11. c \o w \in S
      <4>1. w \in Seq(TextToken)
        BY <3>4 DEF S
      <4>2. c \o w \in Seq(TextToken)
        BY <3>9, <4>1
      <4> QED BY <4>2 DEF S
    <3>12. text[n] \in S /\ Reads(text[n], At(g, w))
      BY <3>5, <3>10, <3>11
    <3> QED BY <2>2, <3>12 DEF g, w
  <2> QED BY <2>3, <2>4
<1>7. \A n \in 0 .. Len(ws) : n \in P
  <2> HIDE DEF P
  <2> QED BY <1>1, <1>5, <1>6, HoldsUpTo
<1>8. Len(t) \in Nat
  BY <1>3
<1>9. PICK s : /\ Reads(t, s)
               /\ SplitShellWords(t) =
                    [ok    |-> ~s.escaped /\ s.quote = "",
                     value |-> IF s.word = <<>> THEN s.words ELSE Append(s.words, s.word)]
  BY <1>8, SplitReads
<1>10. CASE Len(ws) = 0
  <2>1. ws = <<>> /\ t = <<>>
    BY <1>2, <1>10
  <2>2. s = NoWords
    BY <1>8, <1>9, <2>1, ReadsNothing, ReadsOnce
  <2> QED BY <1>9, <2>1, <2>2 DEF NoWords, t
<1>11. CASE Len(ws) # 0
  <2> DEFINE n == Len(ws)
             w == ws[n]
             f == First(ws, n - 1)
  <2>1. n \in 1 .. Len(ws) /\ n \in 0 .. Len(ws)
    BY <1>1, <1>11
  <2>2. Reads(t, At(f, w))
    BY <1>2, <1>7, <1>11, <2>1
  <2>3. s = At(f, w)
    BY <1>8, <1>9, <2>2, ReadsOnce
  <2>4. Append(f, w) = First(ws, n)
    BY <1>4, <2>1, FirstGrows
  <2>5. First(ws, n) = ws
    BY <1>4, AllOfIt
  <2>6. w # <<>>
    BY <1>1, <2>1 DEF PlainWord
  <2> HIDE DEF w, f, n
  <2>7. s.words = f /\ s.word = w /\ s.quote = "" /\ s.escaped = FALSE
    BY <2>3 DEF At
  <2>8. (IF s.word = <<>> THEN s.words ELSE Append(s.words, s.word)) = ws
    BY <2>4, <2>5, <2>6, <2>7
  <2>9. (~s.escaped /\ s.quote = "") = TRUE
    BY <2>7
  <2> QED BY <1>9, <2>8, <2>9 DEF t
<1> QED BY <1>10, <1>11


--------------------------------------------------------------------------------

\* A set of positions has a first and a last.
LEMMA EndsOf ==
  ASSUME NEW n \in Nat, NEW K \in SUBSET (1 .. n), K # {}
  PROVE  /\ \E i \in K : \A j \in K : i <= j
         /\ \E i \in K : \A j \in K : j <= i
<1> DEFINE R == {ss \in Nat \X Nat : ss[1] < ss[2]}
<1>1. R = OpToRel(<, Nat)
  BY DEF OpToRel
<1>2. IsWellFoundedOn(R, Nat)
  BY NatLessThanWellFounded, <1>1
<1> HIDE DEF R
<1>3. \E i \in K : \A j \in K : i <= j
  <2>1. K \in SUBSET Nat
    OBVIOUS
  <2>2. PICK i \in K : \A j \in K : ~(<<j, i>> \in R)
    BY <1>2, <2>1, WFMin
  <2>3. ASSUME NEW j \in K
        PROVE  i <= j
    <3>1. ~(<<j, i>> \in R) /\ i \in Nat /\ j \in Nat
      BY <2>1, <2>2
    <3>2. ~(j < i)
      BY <3>1 DEF R
    <3> QED BY <3>1, <3>2
  <2> QED BY <2>3
<1>4. \E i \in K : \A j \in K : j <= i
  <2> DEFINE L == {n - i : i \in K}
  <2>1. L \in SUBSET Nat /\ L # {}
    <3>1. \A i \in K : n - i \in Nat
      OBVIOUS
    <3> QED BY <3>1
  <2> HIDE DEF L
  <2>2. PICK l \in L : \A k \in L : ~(<<k, l>> \in R)
    BY <1>2, <2>1, WFMin
  <2>3. PICK i \in K : l = n - i
    BY DEF L
  <2>4. ASSUME NEW j \in K
        PROVE  j <= i
    <3>1. n - j \in L
      BY DEF L
    <3>2. ~(<<n - j, l>> \in R) /\ n - j \in Nat /\ l \in Nat
      BY <2>1, <2>2, <3>1
    <3>3. ~(n - j < l)
      BY <3>2 DEF R
    <3>4. i \in Nat /\ j \in Nat
      OBVIOUS
    <3> QED BY <2>3, <3>3, <3>4
  <2> QED BY <2>4
<1> QED BY <1>3, <1>4

\* A trimmed text is one, and a token that is not blank stays.
LEMMA TrimTyped ==
  ASSUME NEW t \in Seq(TextToken)
  PROVE  Trim(t) \in Seq(TextToken)
<1> DEFINE kept == {i \in DOMAIN t : t[i] # Blank}
           start == CHOOSE i \in kept : \A j \in kept : i <= j
           end == CHOOSE i \in kept : \A j \in kept : j <= i
<1>1. Trim(t) = IF kept = {} THEN <<>> ELSE SubSeq(t, start, end)
  BY DEF Trim
<1>2. CASE kept = {}
  <2>1. Trim(t) = <<>>
    BY <1>1, <1>2
  <2> QED BY <2>1
<1>3. CASE kept # {}
  <2>1. Len(t) \in Nat /\ kept \in SUBSET (1 .. Len(t))
    OBVIOUS
  <2> HIDE DEF kept
  <2>2. /\ \E i \in kept : \A j \in kept : i <= j
        /\ \E i \in kept : \A j \in kept : j <= i
    BY <1>3, <2>1, EndsOf
  <2>3. start \in kept /\ end \in kept
    BY <2>2
  <2> HIDE DEF start, end
  <2>4. start \in 1 .. Len(t) /\ end \in 1 .. Len(t)
    BY <2>1, <2>3
  <2>5. SubSeq(t, start, end) \in Seq(TextToken)
    BY <2>1, <2>4, SubSeqProperties
  <2> QED BY <1>1, <1>3, <2>5
<1> QED BY <1>2, <1>3

LEMMA TrimOne ==
  ASSUME NEW x, x # Blank
  PROVE  Trim(<<x>>) = <<x>>
<1> DEFINE t == <<x>>
           kept == {i \in DOMAIN t : t[i] # Blank}
           start == CHOOSE i \in kept : \A j \in kept : i <= j
           end == CHOOSE i \in kept : \A j \in kept : j <= i
<1>1. kept = {1}
  OBVIOUS
<1>2. Trim(t) = IF kept = {} THEN <<>> ELSE SubSeq(t, start, end)
  BY DEF Trim
<1> HIDE DEF kept
<1>3. start = 1 /\ end = 1
  BY <1>1
<1> HIDE DEF start, end
<1>4. SubSeq(t, 1, 1) = t
  <2> DEFINE u == SubSeq(t, 1, 1)
  <2>1. t \in Seq({x}) /\ Len(t) = 1 /\ t[1] = x
    OBVIOUS
  <2> HIDE DEF t
  <2>2. u = [i \in 1 .. 1 |-> t[i]]
    <3>1. u = [i \in 1 .. (1 - 1) + 1 |-> t[1 + i - 1]]
      BY <2>1, SubSeqProperties
    <3>2. (1 - 1) + 1 = 1 /\ \A i \in 1 .. 1 : 1 + i - 1 = i
      OBVIOUS
    <3> QED BY <3>1, <3>2
  <2>3. t = [i \in 1 .. 1 |-> t[i]]
    BY <2>1
  <2> QED BY <2>2, <2>3
<1> QED BY <1>1, <1>2, <1>3, <1>4

--------------------------------------------------------------------------------

Values == {s \in [Fields -> UNION {ValueOf(f) : f \in Fields}] : \A f \in Fields : s[f] \in ValueOf(f)}

SettingsTyped ==
  /\ settings \in Values /\ stored \in Values
  /\ place \in DOMAIN FieldOrder
  /\ buffer = NoEdit \/ buffer \in Seq(TextToken)

\* A buffer belongs to the field it was opened for, and is the text of what the field
\* held then until something is typed, whatever the settings have become.
BufferOpened ==
  Editing => /\ opened = place /\ shown \in ValueOf(Selected)
             /\ ~typed => buffer = TextOf(Selected, shown)

EditIInv == SettingsTyped /\ BufferOpened

\* A text is no mark for the absence of one.
LEMMA NoEditApart == NoEdit \notin Seq(TextToken)
<1>1. NoEdit[1] = "none" /\ Len(NoEdit) = 1
  BY DEF NoEdit
<1> HIDE DEF NoEdit
<1>2. SUFFICES ASSUME NoEdit \in Seq(TextToken)
               PROVE  FALSE
  OBVIOUS
<1>3. NoEdit[1] \in TextToken
  BY <1>1, <1>2
<1> QED BY <1>1, <1>3, SettingsAssumption

LEMMA FieldsNamed == Fields \subseteq SettingsField
<1>1. FieldOrder \in Seq(SettingsField)
  BY SettingsAssumption
<1> QED BY <1>1 DEF Fields

\* What is shown of a value is a text.
LEMMA ShownIsText ==
  ASSUME NEW f \in Fields, NEW v \in ValueOf(f)
  PROVE  TextOf(f, v) \in Seq(TextToken)
<1>1. CASE f = "extra_args"
  <2>1. v \in Seq(Seq(TextToken))
    BY <1>1 DEF ValueOf
  <2> QED BY <1>1, <2>1, TextTyped DEF TextOf
<1>2. CASE f # "extra_args"
  <2>1. v \in Seq(TextToken) \/ \E x \in TextToken : v = <<x>>
    BY <1>2 DEF ValueOf
  <2>2. \A x \in TextToken : <<x>> \in Seq(TextToken)
    OBVIOUS
  <2> QED BY <1>2, <2>1, <2>2 DEF TextOf
<1> QED BY <1>1, <1>2

\* What is entered, if it is taken, is a value of the field.
LEMMA EnteredIsValue ==
  ASSUME NEW f \in Fields, NEW t \in Seq(TextToken), ValidateSetting(f, t).ok
  PROVE  ValidateSetting(f, t).value \in ValueOf(f)
<1> DEFINE word == Trim(t)
           OneOf(S) == Len(word) = 1 /\ word[1] \in S
<1>1. word \in Seq(TextToken)
  BY TrimTyped
<1> HIDE DEF word
<1>2. ASSUME NEW S, Blank \notin S, OneOf(S)
      PROVE  word \in {<<x>> : x \in TextToken \ {Blank}}
  <2>1. word = <<word[1]>> /\ word[1] \in TextToken /\ word[1] # Blank
    BY <1>1, <1>2
  <2> QED BY <2>1
<1>3. f \in SettingsField
  BY FieldsNamed
<1>4. CASE f = "build_runtime"
  <2>1. ValidateSetting(f, t) = [ok |-> OneOf({"upstream", "prism"}), value |-> word]
    BY <1>4 DEF ValidateSetting, word, NumberField, IsBool
  <2>2. OneOf({"upstream", "prism"}) /\ Blank \notin {"upstream", "prism"}
    <3> DEFINE o == OneOf({"upstream", "prism"})
    <3>1. ValidateSetting(f, t) = [ok |-> o, value |-> word]
      BY <2>1
    <3> HIDE DEF o
    <3>2. o
      BY <3>1
    <3> QED BY <3>2 DEF o, Blank
  <2>3. word \in {<<x>> : x \in TextToken \ {Blank}}
    BY <1>2, <2>2
  <2> QED BY <1>4, <2>1, <2>3 DEF ValueOf
<1>5. CASE f = "runtime"
  <2>1. ValidateSetting(f, t) = [ok |-> OneOf({"auto", "upstream", "prism"}), value |-> word]
    BY <1>5 DEF ValidateSetting, word, NumberField, IsBool
  <2>2. OneOf({"auto", "upstream", "prism"}) /\ Blank \notin {"auto", "upstream", "prism"}
    <3> DEFINE o == OneOf({"auto", "upstream", "prism"})
    <3>1. ValidateSetting(f, t) = [ok |-> o, value |-> word]
      BY <2>1
    <3> HIDE DEF o
    <3>2. o
      BY <3>1
    <3> QED BY <3>2 DEF o, Blank
  <2>3. word \in {<<x>> : x \in TextToken \ {Blank}}
    BY <1>2, <2>2
  <2> QED BY <1>5, <2>1, <2>3 DEF ValueOf
<1>6. CASE f \in NumberField
  <2>1. ValidateSetting(f, t) =
          [ok |-> OneOf(DOMAIN Numeral) /\ InNumberRange(f, Numeral[word[1]]), value |-> word]
    BY <1>6 DEF ValidateSetting, word, NumberField, IsBool
  <2>2. OneOf(DOMAIN Numeral)
    <3> DEFINE o == OneOf(DOMAIN Numeral) /\ InNumberRange(f, Numeral[word[1]])
    <3>1. ValidateSetting(f, t) = [ok |-> o, value |-> word]
      BY <2>1
    <3> HIDE DEF o
    <3>2. o
      BY <3>1
    <3> QED BY <3>2 DEF o
  <2>3. Blank \notin DOMAIN Numeral
    BY DEF Numeral, Blank
  <2>4. word \in {<<x>> : x \in TextToken \ {Blank}}
    BY <1>2, <2>2, <2>3
  <2> QED BY <1>6, <2>1, <2>4 DEF ValueOf, NumberField
<1>7. CASE IsBool(f)
  <2>1. ValidateSetting(f, t) = [ok |-> OneOf({"true", "false"}), value |-> word]
    BY <1>7 DEF ValidateSetting, word, NumberField, IsBool
  <2>2. OneOf({"true", "false"}) /\ Blank \notin {"true", "false"}
    <3> DEFINE o == OneOf({"true", "false"})
    <3>1. ValidateSetting(f, t) = [ok |-> o, value |-> word]
      BY <2>1
    <3> HIDE DEF o
    <3>2. o
      BY <3>1
    <3> QED BY <3>2 DEF o, Blank
  <2>3. word \in {<<x>> : x \in TextToken \ {Blank}}
    BY <1>2, <2>2
  <2> QED BY <1>7, <2>1, <2>3 DEF ValueOf, IsBool
<1>8. CASE f = "host"
  <2>1. ValidateSetting(f, t).value = word
    BY <1>8 DEF ValidateSetting, word, NumberField, IsBool
  <2> QED BY <1>1, <1>8, <2>1 DEF ValueOf
<1>9. CASE f = "extra_args"
  <2>1. ValidateSetting(f, t) = SplitShellWords(t)
    BY <1>9 DEF ValidateSetting, NumberField, IsBool
  <2> QED BY <1>9, <2>1, SplitTyped DEF ValueOf
<1>10. CASE f \in {"api_key", "chat_template"}
  <2>1. ValidateSetting(f, t).value = t
    BY <1>10 DEF ValidateSetting, NumberField, IsBool
  <2> QED BY <1>10, <2>1 DEF ValueOf
<1> QED BY <1>3, <1>4, <1>5, <1>6, <1>7, <1>8, <1>9, <1>10 DEF SettingsField, IsBool

\* What was shown of a plain value is read back as it.
LEMMA ReadBack ==
  ASSUME NEW f \in Fields, NEW v \in ValueOf(f), Plain(f, v)
  PROVE  ValidateSetting(f, TextOf(f, v)).value = v
<1>2. f \in SettingsField
  BY FieldsNamed
<1>3. CASE f = "extra_args"
  <2>1. v \in Seq(Seq(TextToken))
    BY <1>3 DEF ValueOf
  <2> DEFINE ws == v
  <2>2. \A i \in DOMAIN ws : ws[i] # <<>> /\ \A j \in DOMAIN ws[i] : ws[i][j] \notin Special
    BY <1>3 DEF Plain
  <2>3. ws \in Seq(Seq(TextToken))
    BY <2>1
  <2> HIDE DEF ws
  <2>4. \A i \in DOMAIN ws : PlainWord(ws[i])
    <3>1. \A i \in DOMAIN ws : ws[i] \in Seq(TextToken)
      <4> DEFINE S == Seq(TextToken)
      <4>1. ws \in Seq(S)
        BY <2>3
      <4> HIDE DEF S
      <4>2. \A i \in DOMAIN ws : ws[i] \in S
        BY <4>1
      <4> QED BY <4>2 DEF S
    <3> QED BY <2>2, <3>1 DEF PlainWord
  <2>5. SplitShellWords(ArgumentsText(ws)).value = ws
    <3>1. SplitShellWords(ArgumentsText(ws)) = [ok |-> TRUE, value |-> ws]
      BY <2>3, <2>4, PlainReadBack
    <3> QED BY <3>1
  <2>6. ValidateSetting(f, TextOf(f, v)) = SplitShellWords(TextOf(f, v))
    BY <1>3 DEF ValidateSetting, NumberField, IsBool
  <2>7. TextOf(f, v) = ArgumentsText(ws)
    BY <1>3 DEF TextOf, ws
  <2> QED BY <2>5, <2>6, <2>7 DEF ws
<1>4. CASE f = "host"
  <2>1. Trim(v) = v
    BY <1>4 DEF Plain
  <2>2. TextOf(f, v) = v
    BY <1>4 DEF TextOf
  <2>3. ValidateSetting(f, TextOf(f, v)).value = Trim(TextOf(f, v))
    BY <1>4 DEF ValidateSetting, NumberField, IsBool
  <2> QED BY <2>1, <2>2, <2>3
<1>5. CASE f \in {"api_key", "chat_template"}
  <2>1. TextOf(f, v) = v
    BY <1>5 DEF TextOf
  <2>2. ValidateSetting(f, TextOf(f, v)).value = TextOf(f, v)
    BY <1>5 DEF ValidateSetting, NumberField, IsBool
  <2> QED BY <2>1, <2>2
<1>6. CASE f \in {"build_runtime", "runtime"} \union NumberField \/ IsBool(f)
  <2>1. PICK x \in TextToken \ {Blank} : v = <<x>>
    BY <1>6 DEF ValueOf, NumberField, IsBool
  <2>2. Trim(v) = v
    BY <2>1, TrimOne
  <2>3. TextOf(f, v) = v
    BY <1>6 DEF TextOf, NumberField, IsBool
  <2>4. ValidateSetting(f, TextOf(f, v)).value = Trim(TextOf(f, v))
    BY <1>6 DEF ValidateSetting, NumberField, IsBool
  <2> QED BY <2>2, <2>3, <2>4
<1> QED BY <1>2, <1>3, <1>4, <1>5, <1>6 DEF SettingsField, NumberField, IsBool


\* Settings that a file or a profile may hold are settings, and so are those that a
\* profile makes of them.
LEMMA LoadedTyped ==
  /\ LoadedSetting \subseteq Values /\ ProfileSetting \subseteq Values
  /\ \A s \in Values, p \in Values : Tuned(s, p) \in Values
<1> DEFINE V == UNION {ValueOf(g) : g \in Fields}
<1>1. ASSUME NEW s \in LoadedSetting \union ProfileSetting
      PROVE  s \in Values
  <2>1. s = [f \in Fields |-> s[f]] /\ \A f \in Fields : s[f] \in ValueOf(f)
    BY SettingsAssumption
  <2>2. \A f \in Fields : s[f] \in V
    BY <2>1
  <2> HIDE DEF V
  <2>3. s \in [Fields -> V]
    BY <2>1, <2>2
  <2> QED BY <2>1, <2>3 DEF Values, V
<1>2. ASSUME NEW s \in Values, NEW p \in Values
      PROVE  Tuned(s, p) \in Values
  <2> DEFINE t == Tuned(s, p)
  <2>1. /\ t = [f \in Fields |-> t[f]]
        /\ \A f \in Fields : t[f] = s[f] \/ t[f] = p[f]
    BY DEF Tuned
  <2> HIDE DEF t
  <2>2. \A f \in Fields : s[f] \in ValueOf(f) /\ p[f] \in ValueOf(f)
    BY DEF Values
  <2>3. \A f \in Fields : t[f] \in ValueOf(f)
    BY <2>1, <2>2
  <2>4. \A f \in Fields : t[f] \in V
    BY <2>3
  <2> HIDE DEF V
  <2>5. t \in [Fields -> V]
    BY <2>1, <2>4
  <2> QED BY <2>3, <2>5 DEF Values, V, t
<1> QED BY <1>1, <1>2

\* What the panel starts with.
LEMMA StartTyped ==
  ASSUME NEW s \in Values
  PROVE  Loaded(s) \subseteq Values
<1>1. \A p \in ProfileSetting : Tuned(s, p) \in Values
  BY LoadedTyped
<1> QED BY <1>1 DEF Loaded

LEMMA EditIInvInit == SettingsInit => EditIInv
<1> SUFFICES ASSUME SettingsInit
             PROVE  EditIInv
  OBVIOUS
<1>1. stored \in LoadedSetting /\ settings \in Loaded(stored) /\ place = 1 /\ buffer = NoEdit
  BY DEF SettingsInit
<1>2. stored \in Values
  BY <1>1, LoadedTyped
<1>3. settings \in Values
  BY <1>1, <1>2, StartTyped
<1>4. 1 \in DOMAIN FieldOrder
  <2>1. FieldOrder \in Seq(SettingsField) /\ FieldOrder # <<>>
    BY SettingsAssumption
  <2> QED BY <2>1
<1> QED BY <1>1, <1>2, <1>3, <1>4 DEF EditIInv, SettingsTyped, BufferOpened, Editing

LEMMA ValuesExcept ==
  ASSUME NEW s \in Values, NEW f \in Fields, NEW v \in ValueOf(f)
  PROVE  [s EXCEPT ![f] = v] \in Values
<1> DEFINE V == UNION {ValueOf(g) : g \in Fields}
<1>1. s \in [Fields -> V] /\ \A g \in Fields : s[g] \in ValueOf(g)
  BY DEF Values
<1>2. v \in V
  OBVIOUS
<1> HIDE DEF V
<1>3. [s EXCEPT ![f] = v] \in [Fields -> V]
  BY <1>1, <1>2
<1>4. \A g \in Fields : [s EXCEPT ![f] = v][g] \in ValueOf(g)
  BY <1>1
<1> QED BY <1>3, <1>4 DEF Values, V

\* Where the steps leave the file, the selection and the buffer.
LEMMA SettingsStep ==
  ASSUME EditIInv, [SettingsNext]_settingsVars
  PROVE  /\ EditIInv'
         /\ confirms' # confirms /\ Editing =>
              /\ settings' = [settings EXCEPT ![Selected] = ValidateSetting(Selected, buffer).value]
<1>1. /\ settings \in Values /\ stored \in Values /\ place \in DOMAIN FieldOrder
      /\ buffer = NoEdit \/ buffer \in Seq(TextToken)
  BY DEF EditIInv, SettingsTyped
<1>2. /\ FieldOrder \in Seq(SettingsField) /\ Len(FieldOrder) \in Nat
      /\ DOMAIN FieldOrder = 1 .. Len(FieldOrder) /\ Len(FieldOrder) >= 1
  <2>1. FieldOrder \in Seq(SettingsField) /\ FieldOrder # <<>>
    BY SettingsAssumption
  <2> QED BY <2>1
<1>3. Selected \in Fields
  BY <1>1 DEF Selected, Fields
<1>4. ASSUME UNCHANGED <<place, buffer, opened, shown, typed>>
       PROVE  BufferOpened'
  <2>1. Selected' = Selected
    BY <1>4 DEF Selected
  <2>2. TextOf(Selected, shown)' = TextOf(Selected, shown)
    BY <1>4, <2>1 DEF TextOf
  <2>3. ValueOf(Selected)' = ValueOf(Selected)
    BY <2>1 DEF ValueOf
  <2> QED BY <1>4, <2>2, <2>3 DEF EditIInv, BufferOpened, Editing
<1>5. ASSUME NextField \/ PreviousField
      PROVE  EditIInv' /\ confirms' = confirms
  <2>1. /\ buffer = NoEdit /\ UNCHANGED <<settings, stored, buffer, confirms>>
    BY <1>5 DEF NextField, PreviousField, Editing
  <2>2. place' \in DOMAIN FieldOrder
    <3>1. CASE NextField
      <4> DEFINE n == Len(FieldOrder)
      <4>1. place' = (place % n) + 1 /\ place \in Nat /\ n \in Nat /\ n >= 1
        BY <1>1, <1>2, <3>1 DEF NextField
      <4> HIDE DEF n
      <4>2. place % n \in 0 .. n - 1
        BY <4>1
      <4>3. place' \in 1 .. n
        BY <4>1, <4>2
      <4> QED BY <1>2, <4>3 DEF n
    <3>2. CASE PreviousField
      BY <1>1, <1>2, <3>2 DEF PreviousField
    <3> QED BY <1>5, <3>1, <3>2
  <2> QED BY <1>1, <2>1, <2>2 DEF EditIInv, SettingsTyped, BufferOpened, Editing
<1>6. ASSUME ToggleField
      PROVE  EditIInv' /\ ~Editing
  <2>1. /\ buffer = NoEdit /\ UNCHANGED <<place, buffer>> /\ IsBool(Selected)
        /\ settings' = [settings EXCEPT ![Selected] =
                          IF settings[Selected] = <<"true">> THEN <<"false">> ELSE <<"true">>]
        /\ stored' \in {settings', stored}
    BY <1>6 DEF ToggleField, Editing, Save
  <2>2. <<"true">> \in ValueOf(Selected) /\ <<"false">> \in ValueOf(Selected)
    <3>1. ValueOf(Selected) = {<<x>> : x \in TextToken \ {Blank}}
      BY <2>1 DEF ValueOf, IsBool
    <3>2. {"true", "false"} \subseteq TextToken \ {Blank}
      BY SettingsAssumption DEF Blank
    <3> QED BY <3>1, <3>2
  <2> DEFINE v == IF settings[Selected] = <<"true">> THEN <<"false">> ELSE <<"true">>
  <2>3. v \in ValueOf(Selected)
    BY <2>2
  <2> HIDE DEF v
  <2>4. settings' \in Values
    BY <1>1, <1>3, <2>1, <2>3, ValuesExcept DEF v
  <2>5. stored' \in Values
    BY <1>1, <2>1, <2>4
  <2> QED BY <1>1, <2>1, <2>4, <2>5 DEF EditIInv, SettingsTyped, BufferOpened, Editing
<1>7. ASSUME OpenEdit
      PROVE  EditIInv' /\ confirms' = confirms
  <2>1. /\ buffer' = TextOf(Selected, shown') /\ opened' = place /\ shown' = settings[Selected]
        /\ UNCHANGED <<settings, stored, place, confirms>>
    BY <1>7 DEF OpenEdit, FieldValue
  <2>2. shown' \in ValueOf(Selected)
    BY <1>1, <1>3, <2>1 DEF Values
  <2>3. TextOf(Selected, shown') \in Seq(TextToken)
    BY <1>3, <2>2, ShownIsText
  <2>4. Selected' = Selected
    BY <2>1 DEF Selected
  <2>5. TextOf(Selected, shown)' = TextOf(Selected, shown')
    BY <2>4 DEF TextOf
  <2>6. ValueOf(Selected)' = ValueOf(Selected)
    BY <2>4 DEF ValueOf
  <2> QED BY <1>1, <2>1, <2>2, <2>3, <2>5, <2>6 DEF EditIInv, SettingsTyped, BufferOpened
<1>8. ASSUME KeyChar \/ KeyBackspace
      PROVE  EditIInv' /\ confirms' = confirms
  <2>1. /\ Editing /\ typed' = TRUE /\ UNCHANGED <<settings, stored, place, confirms, opened, shown>>
        /\ \/ \E c \in Token[Selected] : buffer' = Append(buffer, c)
           \/ buffer # <<>> /\ buffer' = SubSeq(buffer, 1, Len(buffer) - 1)
    BY <1>8 DEF KeyChar, KeyBackspace
  <2>2. buffer \in Seq(TextToken) /\ opened = place /\ shown \in ValueOf(Selected)
    BY <1>1, <2>1 DEF Editing, EditIInv, BufferOpened
  <2>3. buffer' \in Seq(TextToken)
    <3>1. Token[Selected] \subseteq TextToken
      BY <1>3, SettingsAssumption
    <3>2. ASSUME NEW c \in Token[Selected], buffer' = Append(buffer, c)
          PROVE  buffer' \in Seq(TextToken)
      BY <2>2, <3>1, <3>2
    <3>3. ASSUME buffer # <<>>, buffer' = SubSeq(buffer, 1, Len(buffer) - 1)
          PROVE  buffer' \in Seq(TextToken)
      <4>1. Len(buffer) - 1 \in Int /\ \A i \in 1 .. Len(buffer) - 1 : buffer[i] \in TextToken
        BY <2>2
      <4>2. SubSeq(buffer, 1, Len(buffer) - 1) \in Seq(TextToken)
        BY <4>1, SubSeqProperties
      <4> QED BY <3>3, <4>2
    <3> QED BY <2>1, <3>2, <3>3
  <2>4. ValueOf(Selected)' = ValueOf(Selected)
    BY <2>1 DEF ValueOf, Selected
  <2> QED BY <1>1, <2>1, <2>2, <2>3, <2>4 DEF EditIInv, SettingsTyped, BufferOpened
<1>9. ASSUME CancelEdit
      PROVE  EditIInv' /\ confirms' = confirms
  BY <1>1, <1>9 DEF CancelEdit, EditIInv, SettingsTyped, BufferOpened, Editing
<1>10. ASSUME ApplyEdit
      PROVE  /\ EditIInv'
             /\ confirms' # confirms =>
                  settings' = [settings EXCEPT ![Selected] = ValidateSetting(Selected, buffer).value]
  <2> DEFINE e == ValidateSetting(Selected, buffer)
  <2>1. buffer \in Seq(TextToken) /\ UNCHANGED <<place, opened, typed>>
    BY <1>1, <1>10 DEF ApplyEdit, Editing
  <2>2. CASE e.ok
    <3>1. /\ settings' = [settings EXCEPT ![Selected] = e.value] /\ buffer' = NoEdit
          /\ stored' \in {settings', stored}
      BY <1>10, <2>2 DEF ApplyEdit, Save
    <3>2. e.value \in ValueOf(Selected)
      BY <1>3, <2>1, <2>2, EnteredIsValue
    <3> HIDE DEF e
    <3>3. settings' \in Values
      BY <1>1, <1>3, <3>1, <3>2, ValuesExcept
    <3>4. stored' \in Values
      BY <1>1, <3>1, <3>3
    <3>5. EditIInv'
      BY <1>1, <2>1, <3>1, <3>3, <3>4 DEF EditIInv, SettingsTyped, BufferOpened, Editing
    <3> QED BY <3>1, <3>5 DEF e
  <2>3. CASE ~e.ok
    <3>1. UNCHANGED <<settings, stored, confirms, buffer, shown>>
      BY <1>10, <2>3 DEF ApplyEdit
    <3>2. BufferOpened'
      BY <1>4, <2>1, <3>1
    <3> QED BY <1>1, <2>1, <3>1, <3>2 DEF EditIInv, SettingsTyped
  <2> QED BY <2>2, <2>3
<1>11. ASSUME SaveSettings
       PROVE  EditIInv' /\ confirms' = confirms
  <2>1. /\ stored' \in {settings, stored}
        /\ UNCHANGED <<settings, place, buffer, confirms, opened, shown, typed>>
    BY <1>11 DEF SaveSettings, Save
  <2>2. BufferOpened'
    BY <1>4, <2>1
  <2> QED BY <1>1, <2>1, <2>2 DEF EditIInv, SettingsTyped
<1>12. ASSUME ProfileSelected
       PROVE  EditIInv' /\ confirms' = confirms
  <2>1. /\ \E p \in ProfileSetting : settings' = Tuned(settings, p)
        /\ stored' \in {settings', stored}
        /\ UNCHANGED <<place, buffer, confirms, opened, shown, typed>>
    BY <1>12 DEF ProfileSelected, Save
  <2>2. settings' \in Values /\ stored' \in Values
    BY <1>1, <2>1, LoadedTyped
  <2>3. BufferOpened'
    BY <1>4, <2>1
  <2> QED BY <1>1, <2>1, <2>2, <2>3 DEF EditIInv, SettingsTyped
<1>13. ASSUME RestartPanel
       PROVE  EditIInv' /\ confirms' = confirms
  <2>1. /\ settings' \in Loaded(stored) /\ place' = 1 /\ buffer' = NoEdit
        /\ UNCHANGED <<stored, confirms>>
    BY <1>13 DEF RestartPanel
  <2>2. settings' \in Values
    BY <1>1, <2>1, StartTyped
  <2> QED BY <1>1, <1>2, <2>1, <2>2 DEF EditIInv, SettingsTyped, BufferOpened, Editing
<1>14. ASSUME UNCHANGED settingsVars
       PROVE  EditIInv' /\ confirms' = confirms
  <2>1. UNCHANGED <<settings, stored, place, buffer, opened, shown, typed, confirms>>
    BY <1>14 DEF settingsVars
  <2>2. BufferOpened'
    BY <1>4, <2>1
  <2> QED BY <1>1, <2>1, <2>2 DEF EditIInv, SettingsTyped
<1> QED BY <1>5, <1>6, <1>7, <1>8, <1>9, <1>10, <1>11, <1>12, <1>13, <1>14 DEF SettingsNext

\* What is kept of an edit is what was entered, where it was entered: what a field held
\* when its edit was opened is put back if nothing is typed, and no other field is
\* written, also if a download or a swap that ends has replaced the settings meanwhile
\* (settings_state.rs, app.rs); for any fields, profiles, tokens and texts of any length.
THEOREM EditsCorrect == SettingsSpec => EditsAreMeant
<1>1. EditIInv /\ [SettingsNext]_settingsVars => EditIInv'
  BY SettingsStep
<1>2. ASSUME EditIInv, [SettingsNext]_settingsVars
      PROVE  [Editing /\ ~typed /\ confirms' # confirms /\ Plain(Selected, shown)
                => settings' = [settings EXCEPT ![Selected] = shown]]_settingsVars
  <2> SUFFICES ASSUME Editing, ~typed, confirms' # confirms, Plain(Selected, shown)
               PROVE  settings' = [settings EXCEPT ![Selected] = shown]
    OBVIOUS
  <2>1. /\ buffer = TextOf(Selected, shown) /\ shown \in ValueOf(Selected)
        /\ Selected \in Fields
    BY <1>2 DEF EditIInv, BufferOpened, SettingsTyped, Selected, Fields
  <2>2. settings' = [settings EXCEPT ![Selected] = ValidateSetting(Selected, buffer).value]
    BY <1>2, SettingsStep
  <2>3. ValidateSetting(Selected, buffer).value = shown
    BY <2>1, ReadBack
  <2> QED BY <2>2, <2>3
<1>3. ASSUME EditIInv, [SettingsNext]_settingsVars
      PROVE  [Editing /\ confirms' # confirms =>
                \A f \in Fields : settings'[f] # settings[f] => f = FieldOrder[opened]]_settingsVars
  <2> SUFFICES ASSUME Editing, confirms' # confirms, NEW f \in Fields, settings'[f] # settings[f]
               PROVE  f = FieldOrder[opened]
    OBVIOUS
  <2>1. opened = place /\ settings \in [Fields -> UNION {ValueOf(g) : g \in Fields}]
    BY <1>3 DEF EditIInv, BufferOpened, SettingsTyped, Values
  <2>2. settings' = [settings EXCEPT ![Selected] = ValidateSetting(Selected, buffer).value]
    BY <1>3, SettingsStep
  <2> QED BY <2>1, <2>2 DEF Selected
<1>4. SettingsSpec => LookingPutsBackWhatWasHeld
  BY EditIInvInit, <1>1, <1>2, PTL DEF SettingsSpec, LookingPutsBackWhatWasHeld
<1>5. SettingsSpec => EnteredWhereOpened
  BY EditIInvInit, <1>1, <1>3, PTL DEF SettingsSpec, EnteredWhereOpened
<1> QED BY <1>4, <1>5 DEF EditsAreMeant

================================================================================
