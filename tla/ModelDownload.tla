----------------------------- MODULE ModelDownload -----------------------------
(***************************************************************************)
(* Downloading a model file: ModelRegistry::download of lmml-models.  The  *)
(* bytes go into a .part file, which a later download resumes with a range *)
(* request and which is renamed to the model file in the end.  Downloads   *)
(* may fail, be cut off with the panel and be retried; two of them, of one *)
(* panel or of two, may work on the same file; and the file offered at the *)
(* URL may change.                                                         *)
(***************************************************************************)
EXTENDS Naturals, Sequences, FiniteSets

CONSTANTS
  Download,   \* the downloads of the file
  MaxVersion, \* how many versions of the file are offered, one after another
  VersionSize,\* for each version, its number of blocks
  Inode,      \* the files that the two names may stand for
  NoFile      \* no file

Version == 1 .. MaxVersion

\* Files have blocks, and there is always an inode for one more file.
ASSUME DownloadAssumption ==
  /\ MaxVersion \in Nat \ {0} /\ VersionSize \in [Version -> Nat \ {0}]
  /\ IsFiniteSet(Download) /\ IsFiniteSet(Inode) /\ NoFile \notin Inode
  /\ Cardinality(Download) < Cardinality(Inode)

VARIABLES
  offered,   \* the version at the URL now
  partFile,  \* what the .part name stands for
  finalFile, \* what the model's name stands for
  content,   \* for each file, the blocks in it
  phaseOf,   \* for each download, what it is doing
  resumed,   \* for each download, the length it resumes from
  append,    \* for each download, whether its file is open for appending
  received,  \* for each download, the blocks it has counted
  source,    \* for each download, the version its response is of
  handle,    \* for each download, the file it has open
  shared,  \* whether two downloads ever worked at once
  changed    \* whether the offered file changed while a part of it was there

fileVars == <<offered, partFile, finalFile, content>>
loadVars == <<phaseOf, resumed, append, received, source, handle>>
downloadVars == <<fileVars, loadVars, shared, changed>>

--------------------------------------------------------------------------------

Block == Version \X (Nat \ {0})
Whole(v) == [i \in 1 .. VersionSize[v] |-> <<v, i>>]

\* The type invariant; a response is read into an open file.
DownloadTypeOK ==
  /\ offered \in Version
  /\ partFile \in Inode \union {NoFile} /\ finalFile \in Inode \union {NoFile}
  /\ partFile = finalFile => partFile = NoFile
  /\ content \in [Inode -> Seq(Block)]
  /\ phaseOf \in [Download -> {"idle", "asked", "answered", "body", "done"}]
  /\ resumed \in [Download -> Nat] /\ received \in [Download -> Nat]
  /\ append \in [Download -> BOOLEAN]
  /\ source \in [Download -> Version]
  /\ handle \in [Download -> Inode \union {NoFile}]
  /\ \A d \in Download : phaseOf[d] = "body" <=> handle[d] # NoFile
  /\ shared \in BOOLEAN /\ changed \in BOOLEAN

DownloadInit ==
  /\ offered = 1
  /\ partFile = NoFile /\ finalFile = NoFile
  /\ content = [f \in Inode |-> <<>>]
  /\ phaseOf = [d \in Download |-> "idle"]
  /\ resumed = [d \in Download |-> 0]
  /\ append = [d \in Download |-> FALSE]
  /\ received = [d \in Download |-> 0]
  /\ source = [d \in Download |-> 1]
  /\ handle = [d \in Download |-> NoFile]
  /\ shared = FALSE /\ changed = FALSE

--------------------------------------------------------------------------------

PartLength == IF partFile = NoFile THEN 0 ELSE Len(content[partFile])

\* The length of the .part file is read, and asked to be continued from.  A
\* download that ended is started again by the user.
StartDownload(d) ==
  /\ phaseOf[d] = "idle"
  /\ phaseOf' = [phaseOf EXCEPT ![d] = "asked"]
  /\ resumed' = [resumed EXCEPT ![d] = PartLength]
  /\ shared' = (shared \/ \E e \in Download : phaseOf[e] \in {"asked", "answered", "body"})
  /\ UNCHANGED <<fileVars, append, received, source, handle, changed>>

\* Mutant: a server that ignores the range is taken to have continued.
ContinuesAlways(d, partial) == resumed[d] > 0

\* Only a 206 continues the part.
Continues(d, partial) == resumed[d] > 0 /\ partial

\* The response: the rest of the file for a range that the file has, the whole
\* file from a server that ignores ranges.
AnswerDownload(d) ==
  /\ phaseOf[d] = "asked"
  /\ \E partial \in BOOLEAN :
       /\ partial => resumed[d] > 0 /\ resumed[d] < VersionSize[offered]
       /\ LET from == IF partial THEN resumed[d] ELSE 0 IN
            /\ append' = [append EXCEPT ![d] = Continues(d, partial)]
            /\ resumed' = [resumed EXCEPT ![d] = from]
            /\ received' = [received EXCEPT ![d] = from]
  /\ source' = [source EXCEPT ![d] = offered]
  /\ phaseOf' = [phaseOf EXCEPT ![d] = "answered"]
  /\ UNCHANGED <<fileVars, handle, shared, changed>>

\* Mutant: what is there is not kept.
KeptNever(d, f) == <<>>

\* What the open file still holds: all of it if it is appended to.
Kept(d, f) == IF append[d] THEN content[f] ELSE <<>>

\* An inode that no name and no handle stands for: they are all alike.
Unused ==
  CHOOSE f \in Inode : /\ f \notin {partFile, finalFile}
                       /\ \A d \in Download : handle[d] # f

\* The .part file is opened, and created where it is missing.
OpenPart(d) ==
  /\ phaseOf[d] = "answered"
  /\ LET f == IF partFile = NoFile THEN Unused ELSE partFile IN
       /\ partFile' = f
       /\ handle' = [handle EXCEPT ![d] = f]
       /\ content' = [content EXCEPT ![f] = IF partFile = NoFile THEN <<>> ELSE Kept(d, f)]
  /\ phaseOf' = [phaseOf EXCEPT ![d] = "body"]
  /\ UNCHANGED <<offered, finalFile, resumed, append, received, source,
                 shared, changed>>

\* Bytes s of which the one at position n is replaced by, or which are extended
\* with, block b; another download may have cut the file shorter than that.
WrittenAt(s, n, b) ==
  IF n <= Len(s) THEN [s EXCEPT ![n] = b] ELSE Append(s, b)

\* A chunk is written at the end of the file, or where this download is in it,
\* under whatever name the file has by now.
ReceiveChunk(d) ==
  /\ phaseOf[d] = "body"
  /\ received[d] < VersionSize[source[d]]
  /\ LET n == received[d] + 1
         f == handle[d]
     IN content' = [content EXCEPT ![f] =
                      IF append[d]
                      THEN Append(@, <<source[d], n>>)
                      ELSE WrittenAt(@, n, <<source[d], n>>)]
  /\ received' = [received EXCEPT ![d] = @ + 1]
  /\ UNCHANGED <<offered, partFile, finalFile, phaseOf, resumed, append, source,
                 handle, shared, changed>>

\* The call of download is over, and with it all it knew.
LeaveDownload(d, next) ==
  /\ phaseOf' = [phaseOf EXCEPT ![d] = next]
  /\ resumed' = [resumed EXCEPT ![d] = 0]
  /\ append' = [append EXCEPT ![d] = FALSE]
  /\ received' = [received EXCEPT ![d] = 0]
  /\ source' = [source EXCEPT ![d] = 1]
  /\ handle' = [handle EXCEPT ![d] = NoFile]

\* The response is at its end: .part gets the name of the model, if it is still
\* there.  The file is then parsed; one that is no model stays in place.
FinishDownload(d) ==
  /\ phaseOf[d] = "body"
  /\ received[d] = VersionSize[source[d]]
  /\ IF partFile = NoFile
     THEN LeaveDownload(d, "idle") /\ UNCHANGED <<partFile, finalFile>>
     ELSE /\ finalFile' = partFile
          /\ partFile' = NoFile
          /\ \E next \in {"done", "idle"} : LeaveDownload(d, next)
  /\ UNCHANGED <<offered, content, shared, changed>>

\* No answer, an error status (416 for a range the file does not have), or a
\* connection that breaks.
FailDownload(d) ==
  /\ phaseOf[d] \in {"asked", "answered", "body"}
  /\ LeaveDownload(d, "idle")
  /\ UNCHANGED <<fileVars, shared, changed>>

\* The panel goes away with its downloads, and comes back.
CutDownloads ==
  /\ \E d \in Download : phaseOf[d] \in {"asked", "answered", "body"}
  /\ phaseOf' = [d \in Download |-> IF phaseOf[d] = "done" THEN "done" ELSE "idle"]
  /\ resumed' = [d \in Download |-> 0]
  /\ append' = [d \in Download |-> FALSE]
  /\ received' = [d \in Download |-> 0]
  /\ source' = [d \in Download |-> 1]
  /\ handle' = [d \in Download |-> NoFile]
  /\ UNCHANGED <<fileVars, shared, changed>>

OfferVersion ==
  /\ offered < MaxVersion
  /\ offered' = offered + 1
  /\ changed' = (changed \/ partFile # NoFile
                 \/ \E d \in Download : phaseOf[d] \in {"asked", "answered", "body"})
  /\ UNCHANGED <<partFile, finalFile, content, loadVars, shared>>

DownloadStep(d) ==
  \/ StartDownload(d)
  \/ AnswerDownload(d)
  \/ OpenPart(d)
  \/ ReceiveChunk(d)
  \/ FinishDownload(d)
  \/ FailDownload(d)

DownloadNext ==
  \/ CutDownloads
  \/ OfferVersion
  \/ \E d \in Download : DownloadStep(d)

\* The user retries; of the requests some are answered, of the responses some get
\* to the file, some bring a chunk, some their end.
DownloadFairness ==
  \A d \in Download :
    /\ WF_downloadVars(StartDownload(d))
    /\ SF_downloadVars(OpenPart(d))
    /\ SF_downloadVars(AnswerDownload(d))
    /\ SF_downloadVars(ReceiveChunk(d))
    /\ SF_downloadVars(FinishDownload(d))

DownloadSpec == DownloadInit /\ [][DownloadNext]_downloadVars /\ DownloadFairness

--------------------------------------------------------------------------------
(* Properties. *)

\* A model file in place is one whole version of the offered file, however
\* often its download was cut off and resumed, unless two downloads worked at
\* once or the offered file changed under a part of it.
InstalledWhole ==
  ~shared /\ ~changed /\ finalFile # NoFile =>
    \E v \in Version : content[finalFile] = Whole(v)

\* The progress shown is the length of the .part file, also after a resumption
\* and after a range that the server ignored.
ProgressTrue ==
  ~shared =>
    \A d \in Download : phaseOf[d] = "body" => received[d] = Len(content[handle[d]])

\* A part that is as long as the offered file cannot be resumed: the range is
\* refused, and the part stays.
Stuck == partFile # NoFile /\ Len(content[partFile]) >= VersionSize[offered]

\* From some time on the server answers every range with that range.
RangesHonoured ==
  <>[][\A d \in Download : AnswerDownload(d) /\ resumed[d] > 0 => append'[d]]_downloadVars

\* A download that is begun, and that the user retries as often as it fails, puts
\* the model in place in the end, though each response may bring one chunk only,
\* if the server comes to honour ranges, and unless the part got as long as the
\* file before it was renamed.
RetriedToTheEnd ==
  RangesHonoured =>
    \A d \in Download : phaseOf[d] = "asked" ~> (finalFile # NoFile \/ Stuck)

\* What is installed is whole, and what is shown of a download is true of it.
DownloadInv == DownloadTypeOK /\ InstalledWhole /\ ProgressTrue

================================================================================
