---------------------------- MODULE ApprovalAnchor -----------------------------
(***************************************************************************)
(* store_approval_receipt and store_revocation_state of lmml-substrate:    *)
(* signed records are stored, each in an immutable file of its own, and an *)
(* anchor file remembers the newest <<epoch, sequence>>, so that an older  *)
(* record is refused even where the records themselves were restored.      *)
(*                                                                         *)
(* The writers are processes (the command `model approve-template` and the *)
(* callers of the library) that share the directories.  A record is opened *)
(* with create_new and then written, the anchor is replaced through one    *)
(* temporary file with a fixed name; each of these is a step, and a writer *)
(* may be killed or meet an I/O error between any two.                     *)
(***************************************************************************)
EXTENDS Naturals

CONSTANTS
  Writer,     \* the calls
  Work,       \* for each call, the verified record it stores
  NoInode        \* no file

\* A receipt is named by its id and has a sequence.  A revocation state is
\* named by its epoch and has the sequence of its last event, or 0.
ApprovalRecord == [kind : {"Receipt", "Revocation"}, id : Nat, epoch : Nat, sequence : Nat]

ASSUME WorkAssumption == Work \in [Writer -> ApprovalRecord]
ASSUME NoInodeAssumption == NoInode \notin ApprovalRecord /\ NoInode \notin Writer

VARIABLES
  record,     \* per name, the record whose file has been created
  whole,      \* the names whose file is completely written
  anchorFile, \* the inode under the anchor's name
  tmpFile,    \* the inode under the name of the temporary file, or NoInode
  data,       \* the content of each inode
  fd,         \* per writer, the inode it opened
  epoch,      \* per writer, the epoch it puts into the anchor
  writerPhase,      \* per writer, what it is doing, or how it ended
  together     \* history: whether a call moved while another one was running

anchorVars == <<record, whole, anchorFile, tmpFile, data, fd, epoch, writerPhase, together>>

--------------------------------------------------------------------------------

Name(x) == <<x.kind, IF x.kind = "Revocation" THEN x.epoch ELSE x.id>>

Names == {Name(Work[w]) : w \in Writer}

\* What an anchor may hold: a stamp, or nothing while it is being written.
Stamp == Nat \X Nat
Empty == <<>>

\* Every writer creates at most one inode, which is named for it; NoInode stands
\* for the inode of the anchor at the start.
AnchorInode == Writer \union {NoInode}

AtMost(a, b) == a[1] < b[1] \/ (a[1] = b[1] /\ a[2] <= b[2])

AnchorActive == {"Check", "Create", "Compare", "Write", "ReadEpoch",
           "OpenTmp", "WriteTmp", "Protect", "Rename"}

AnchorEnded == {"Stored", "Older", "Conflict", "BadAnchor", "Lost", "Stopped"}

\* A call that has taken its first step and has not ended.
AnchorRunning(w) == writerPhase[w] \in AnchorActive \ {"Check"}

AnchorTypeOK ==
  /\ record \in [Names -> ApprovalRecord \union {NoInode}]
  /\ whole \subseteq Names
  /\ anchorFile \in AnchorInode
  /\ tmpFile \in AnchorInode
  /\ data \in [AnchorInode -> Stamp \union {Empty}]
  /\ fd \in [Writer -> AnchorInode]
  /\ epoch \in [Writer -> Nat]
  /\ writerPhase \in [Writer -> AnchorActive \union AnchorEnded]
  /\ together \in BOOLEAN

\* An anchor file that does not exist yet admits and records the same as one
\* that holds <<0, 0>>.
AnchorInit ==
  /\ record = [n \in Names |-> NoInode]
  /\ whole = {}
  /\ anchorFile = NoInode
  /\ tmpFile = NoInode
  /\ data = [i \in AnchorInode |-> <<0, 0>>]
  /\ fd = [w \in Writer |-> NoInode]
  /\ epoch = [w \in Writer |-> 0]
  /\ writerPhase = [w \in Writer |-> "Check"]
  /\ together = FALSE

--------------------------------------------------------------------------------

Anchor == data[anchorFile]

AnchorGoto(w, next) == writerPhase' = [writerPhase EXCEPT ![w] = next]

\* Mutant: only the epochs are compared.
OlderByEpoch(x, anchor) == x.kind = "Revocation" /\ x.epoch < anchor[1]

\* A receipt is compared by its sequence alone, a revocation state by its epoch
\* and then by its sequence.
Older(x, anchor) ==
  IF x.kind = "Receipt"
  THEN x.sequence < anchor[2]
  ELSE ~AtMost(anchor, <<x.epoch, x.sequence>>)

CheckAnchor(w) ==
  /\ writerPhase[w] = "Check"
  /\ AnchorGoto(w, IF Anchor = Empty THEN "BadAnchor"
             ELSE IF Older(Work[w], Anchor) THEN "Older"
             ELSE "Create")
  /\ UNCHANGED <<record, whole, anchorFile, tmpFile, data, fd, epoch>>

\* With the record in place a receipt takes over the epoch of the anchor, a
\* revocation state brings its own.
Persisted(w) ==
  IF Work[w].kind = "Receipt"
  THEN AnchorGoto(w, "ReadEpoch") /\ UNCHANGED epoch
  ELSE AnchorGoto(w, "OpenTmp") /\ epoch' = [epoch EXCEPT ![w] = Work[w].epoch]

\* persist_immutable: the file is created, or it exists already.
CreateRecord(w) ==
  /\ writerPhase[w] = "Create"
  /\ \/ /\ record[Name(Work[w])] = NoInode
        /\ record' = [record EXCEPT ![Name(Work[w])] = Work[w]]
        /\ AnchorGoto(w, "Write")
     \/ /\ record[Name(Work[w])] # NoInode
        /\ AnchorGoto(w, "Compare")
        /\ UNCHANGED record
  /\ UNCHANGED <<whole, anchorFile, tmpFile, data, fd, epoch>>

\* The existing file is read: another record, or the torn beginning of this
\* one, is a conflict.
CompareRecord(w) ==
  /\ writerPhase[w] = "Compare"
  /\ \/ /\ record[Name(Work[w])] = Work[w]
        /\ Name(Work[w]) \in whole
        /\ Persisted(w)
     \/ /\ record[Name(Work[w])] # Work[w] \/ Name(Work[w]) \notin whole
        /\ AnchorGoto(w, "Conflict")
        /\ UNCHANGED epoch
  /\ UNCHANGED <<record, whole, anchorFile, tmpFile, data, fd>>

WriteRecord(w) ==
  /\ writerPhase[w] = "Write"
  /\ whole' = whole \union {Name(Work[w])}
  /\ Persisted(w)
  /\ UNCHANGED <<record, anchorFile, tmpFile, data, fd>>

\* Mutant: a receipt always puts epoch 0 into the anchor.
ReadEpochZero(w) ==
  /\ writerPhase[w] = "ReadEpoch"
  /\ AnchorGoto(w, "OpenTmp")
  /\ UNCHANGED <<record, whole, anchorFile, tmpFile, data, fd, epoch>>

ReadEpoch(w) ==
  /\ writerPhase[w] = "ReadEpoch"
  /\ IF Anchor = Empty
     THEN AnchorGoto(w, "BadAnchor") /\ UNCHANGED epoch
     ELSE AnchorGoto(w, "OpenTmp") /\ epoch' = [epoch EXCEPT ![w] = Anchor[1]]
  /\ UNCHANGED <<record, whole, anchorFile, tmpFile, data, fd>>

\* write_anchor: fs::write opens the temporary file, and truncates it if a
\* writer has left one there or is at work on it.
OpenTmp(w) ==
  /\ writerPhase[w] = "OpenTmp"
  /\ LET i == IF tmpFile = NoInode THEN w ELSE tmpFile IN
       /\ fd' = [fd EXCEPT ![w] = i]
       /\ tmpFile' = i
       /\ data' = [data EXCEPT ![i] = Empty]
  /\ AnchorGoto(w, "WriteTmp")
  /\ UNCHANGED <<record, whole, anchorFile, epoch>>

\* The stamp goes into the opened inode, under whatever name it has by now.
WriteTmp(w) ==
  /\ writerPhase[w] = "WriteTmp"
  /\ data' = [data EXCEPT ![fd[w]] = <<epoch[w], Work[w].sequence>>]
  /\ AnchorGoto(w, "Protect")
  /\ UNCHANGED <<record, whole, anchorFile, tmpFile, fd, epoch>>

\* protect_file fails where another writer has renamed the file away.
Protect(w) ==
  /\ writerPhase[w] = "Protect"
  /\ AnchorGoto(w, IF tmpFile = NoInode THEN "Lost" ELSE "Rename")
  /\ UNCHANGED <<record, whole, anchorFile, tmpFile, data, fd, epoch>>

Rename(w) ==
  /\ writerPhase[w] = "Rename"
  /\ IF tmpFile = NoInode
     THEN AnchorGoto(w, "Lost") /\ UNCHANGED <<anchorFile, tmpFile>>
     ELSE AnchorGoto(w, "Stored") /\ anchorFile' = tmpFile /\ tmpFile' = NoInode
  /\ UNCHANGED <<record, whole, data, fd, epoch>>

\* The process is killed, or an I/O error ends the call.
Stop(w) ==
  /\ AnchorRunning(w)
  /\ AnchorGoto(w, "Stopped")
  /\ UNCHANGED <<record, whole, anchorFile, tmpFile, data, fd, epoch>>

AnchorStep(w) ==
  \/ CheckAnchor(w)
  \/ CreateRecord(w)
  \/ CompareRecord(w)
  \/ WriteRecord(w)
  \/ ReadEpoch(w)
  \/ OpenTmp(w)
  \/ WriteTmp(w)
  \/ Protect(w)
  \/ Rename(w)
  \/ Stop(w)

AnchorNext ==
  \E w \in Writer :
    /\ AnchorStep(w)
    /\ together' = IF \E v \in Writer \ {w} : AnchorRunning(v) THEN TRUE ELSE together

AnchorSpec == AnchorInit /\ [][AnchorNext]_anchorVars

--------------------------------------------------------------------------------
(* Properties. *)

\* A call that succeeded left its own record, complete, in the store; another
\* record of that name, and a torn one, are never passed off as it.
StoredWhole ==
  \A w \in Writer :
    writerPhase[w] = "Stored" =>
      /\ record[Name(Work[w])] = Work[w]
      /\ Name(Work[w]) \in whole

\* The anchor never runs ahead of the store: the sequence it holds is that of
\* a record that is completely written.
AnchorBacked ==
  Anchor \notin {Empty, <<0, 0>>} =>
    \E w \in Writer :
      /\ Work[w].sequence = Anchor[2]
      /\ record[Name(Work[w])] = Work[w]
      /\ Name(Work[w]) \in whole

\* "a separately persisted monotonic revocation anchor": as long as calls have
\* not overlapped, the anchor never goes back to an older epoch, nor to an older
\* sequence of the same epoch.
AnchorMonotone ==
  [][~together' => AtMost(Anchor, Anchor')]_anchorVars

\* The anchor covers every record whose call succeeded.
StoredAnchored ==
  ~together =>
    \A w \in Writer :
      writerPhase[w] = "Stored" => AtMost(<<epoch[w], Work[w].sequence>>, Anchor)

\* Whatever a stopped writer leaves behind, the anchor can be read and replaced.
AnchorUsable ==
  ~together =>
    /\ Anchor # Empty
    /\ \A w \in Writer : writerPhase[w] \notin {"BadAnchor", "Lost"}

Accepted(w) == Work[w].kind = "Receipt" /\ writerPhase[w] = "Check" /\ writerPhase'[w] = "Create"

\* Until a revocation state moves the anchor to a new epoch, a receipt that is
\* older than one stored before does not pass the check.
EpochReceiptsOrdered ==
  [][~together' =>
       \A v, w \in Writer :
         Accepted(w) /\ writerPhase[v] = "Stored" /\ epoch[v] = Anchor[1]
           => Work[v].sequence <= Work[w].sequence]_anchorVars

\* "receipt anchor rejects an older sequence under a new id": the same of any
\* receipt stored before.
OlderReceiptRejected ==
  [][~together' =>
       \A v, w \in Writer :
         Accepted(w) /\ writerPhase[v] = "Stored" /\ Work[v].kind = "Receipt"
           => Work[v].sequence <= Work[w].sequence]_anchorVars

================================================================================
