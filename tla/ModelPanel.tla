------------------------------- MODULE ModelPanel -------------------------------
(***************************************************************************)
(* The models of the panel (App of app.rs, dispatch_action and             *)
(* drain_events of event_loop.rs, ModelRegistry of lmml-models): the list  *)
(* that scans and downloads of their own tasks fill, the dialogs that are  *)
(* open while it changes, and the names of the model that is served.  Each *)
(* task sends one event, at any later time, so that a task which is done   *)
(* stands for its event too.  Every tab is one key away and is left out.   *)
(***************************************************************************)
EXTENDS Naturals, Sequences, FiniteSets

CONSTANTS
  ModelPath,   \* paths of model files, naturals in the order of the list
  InDirectory, \* those in the models directory; others need an alias
  Slot,        \* the tasks that run at once (a bound)
  MaxTasks     \* the tasks that run at all (a bound)

ASSUME PanelAssumption ==
  /\ ModelPath \subseteq Nat \ {0} /\ IsFiniteSet(ModelPath)
  /\ InDirectory \subseteq ModelPath /\ MaxTasks \in Nat

NoModel == 0

VARIABLES
  files,    \* the model files there are
  aliases,  \* paths outside of the directory that the user added
  list,     \* App::models
  selected, \* the highlighted place of the list
  scanning, \* App::model_scan_running
  lastUsed, \* the model that was selected last
  modal,    \* the dialog that is open
  status,   \* the status of the server on the panel
  pending, active, \* the model a start is for, and the one that is served, by their names
  held,   \* the model of the server whose handle the loop has
  tasks,    \* what runs, or waits in the channel
  begun,    \* how many tasks were begun
  raced,    \* history: whether the list was overtaken by a change since the last scan
  crossed   \* history: whether the last start began while another one was under way

listVars == <<files, aliases, list, selected, scanning, lastUsed, raced>>
servingVars == <<status, pending, active, held, crossed>>
modelTaskVars == <<tasks, begun>>
modelPanelVars == <<listVars, modal, servingVars, modelTaskVars>>

IdleSlot == [kind |-> "none"]
NoModal == [kind |-> "none", model |-> NoModel]

Open == {t \in Slot : tasks[t] # IdleSlot}
Listing == {t \in Open : tasks[t].kind \in {"scan", "download"}}
Starts == {t \in Open : tasks[t].kind = "start"}

PanelTypeOK ==
  /\ files \subseteq ModelPath /\ aliases \subseteq ModelPath
  /\ list \in Seq(ModelPath) /\ selected \in DOMAIN list \union {1}
  /\ lastUsed \in ModelPath \union {NoModel}
  /\ modal.kind \in {"none", "delete", "swap", "alias"}
  /\ status \in {"Stopped", "Starting", "Ready", "Failed"}
  /\ {pending, active, held} \subseteq ModelPath \union {NoModel}
  /\ scanning => \E t \in Open : tasks[t].kind = "scan"

Visible == files \intersect (InDirectory \union aliases)
Listed == {list[i] : i \in DOMAIN list}

Scan(known, alone) ==
  [kind |-> "scan", at |-> "directory", aliases |-> known, seen |-> {}, alone |-> alone]

\* startup_actions: the panel starts with a scan of its own.
PanelInit ==
  /\ files \in SUBSET ModelPath /\ aliases = {}
  /\ list = <<>> /\ selected = 1 /\ scanning = TRUE /\ lastUsed = NoModel
  /\ modal = NoModal
  /\ status = "Stopped" /\ pending = NoModel /\ active = NoModel /\ held = NoModel
  /\ \E t \in Slot : tasks = [s \in Slot |-> IF s = t THEN Scan({}, TRUE) ELSE IdleSlot]
  /\ begun = 1 /\ raced = TRUE /\ crossed = FALSE

--------------------------------------------------------------------------------
(* Tasks.                                                                  *)

\* A change that a scan under way may have missed.
Overtaken(ts) ==
  [t \in Slot |-> IF ts[t].kind = "scan" THEN [ts[t] EXCEPT !.alone = FALSE] ELSE ts[t]]

BeginAmong(ts, task) ==
  /\ begun < MaxTasks /\ begun' = begun + 1
  /\ \E t \in Slot \ Open : tasks' = [ts EXCEPT ![t] = task]
Begin(task) == BeginAmong(tasks, task)
BeginListing(task) == BeginAmong(Overtaken(tasks), task) /\ raced' = (raced \/ Listing # {})
TaskEnds(t) == tasks' = [tasks EXCEPT ![t] = IdleSlot] /\ UNCHANGED begun

\* scan: the directory and then the aliases, each as it is at that moment.
ScanReads(t) ==
  /\ tasks[t].kind = "scan" /\ tasks[t].at # "over"
  /\ LET here == IF tasks[t].at = "directory" THEN InDirectory ELSE tasks[t].aliases
         next == IF tasks[t].at = "directory" THEN "aliases" ELSE "over"
     IN tasks' = [tasks EXCEPT ![t] =
                    [tasks[t] EXCEPT !.seen = tasks[t].seen \union (files \intersect here), !.at = next]]
  /\ UNCHANGED <<listVars, modal, servingVars, begun>>

InOrder(S) ==
  {l \in [1 .. Cardinality(S) -> S] : \A i, j \in DOMAIN l : i < j => l[i] < l[j]}

\* ModelScanComplete: any scan replaces the list and ends the one that is shown.
ScanCompletes(t) ==
  /\ tasks[t].kind = "scan" /\ tasks[t].at = "over"
  /\ list' \in InOrder(tasks[t].seen)
  /\ selected' = IF selected \in DOMAIN list' THEN selected
                 ELSE IF list' = <<>> THEN 1 ELSE Len(list')
  /\ scanning' = FALSE /\ raced' = (raced /\ ~tasks[t].alone)
  /\ TaskEnds(t)
  /\ UNCHANGED <<files, aliases, lastUsed, modal, servingVars>>

DownloadInstalls(t) ==
  /\ tasks[t].kind = "download" /\ ~tasks[t].done
  /\ files' = files \union {tasks[t].path}
  /\ tasks' = [Overtaken(tasks) EXCEPT ![t] = [tasks[t] EXCEPT !.done = TRUE]]
  /\ UNCHANGED <<aliases, list, selected, scanning, lastUsed, raced, modal, servingVars, begun>>

\* Mutant: the model that was downloaded is left to the next scan.
DownloadUnlisted(t) ==
  /\ tasks[t].kind = "download" /\ tasks[t].done
  /\ lastUsed' = tasks[t].path
  /\ TaskEnds(t)
  /\ UNCHANGED <<files, aliases, list, selected, scanning, raced, modal, servingVars>>

\* DownloadComplete: the model is selected and listed at the end, even twice.
DownloadCompletes(t) ==
  /\ tasks[t].kind = "download" /\ tasks[t].done
  /\ lastUsed' = tasks[t].path
  /\ list' = Append(list, tasks[t].path)
  /\ TaskEnds(t)
  /\ UNCHANGED <<files, aliases, selected, scanning, raced, modal, servingVars>>

DownloadFails(t) ==
  /\ tasks[t].kind = "download" /\ ~tasks[t].done
  /\ TaskEnds(t)
  /\ UNCHANGED <<listVars, modal, servingVars>>

--------------------------------------------------------------------------------
(* Keys.                                                                   *)

NoDialog == modal = NoModal
Highlighted == IF selected \in DOMAIN list THEN list[selected] ELSE NoModel
InUse == status \in {"Starting", "Ready"}

KeyMove ==
  /\ NoDialog /\ list # <<>>
  /\ selected' \in {selected - 1, selected + 1} \intersect DOMAIN list
  /\ UNCHANGED <<files, aliases, list, scanning, lastUsed, raced, modal, servingVars, modelTaskVars>>

\* SelectModel
KeySelect ==
  /\ NoDialog /\ Highlighted # NoModel
  /\ lastUsed' = Highlighted
  /\ UNCHANGED <<files, aliases, list, selected, scanning, raced, modal, servingVars, modelTaskVars>>

KeyScan ==
  /\ NoDialog /\ ~scanning
  /\ scanning' = TRUE /\ BeginListing(Scan(aliases, Listing = {}))
  /\ UNCHANGED <<files, aliases, list, selected, lastUsed, modal, servingVars>>

\* DownloadModel, of any result of a search.
KeyDownload ==
  /\ NoDialog
  /\ \E p \in InDirectory : BeginListing([kind |-> "download", path |-> p, done |-> FALSE])
  /\ UNCHANGED <<files, aliases, list, selected, scanning, lastUsed, modal, servingVars>>

\* DeleteModel, AddModelAlias, and a swap of the model while a server runs.
OpenDialog(kind, model) ==
  /\ NoDialog
  /\ modal' = [kind |-> kind, model |-> model]
  /\ UNCHANGED <<listVars, servingVars, modelTaskVars>>

NextPlace == IF selected < Len(list) THEN selected + 1 ELSE selected
NextInList == list[NextPlace]

KeyOpens ==
  \/ Highlighted # NoModel /\ OpenDialog("delete", Highlighted)
  \/ OpenDialog("alias", NoModel)
  \/ list # <<>> /\ InUse /\ OpenDialog("swap", NextInList)

KeyCancels == ~NoDialog /\ modal' = NoModal /\ UNCHANGED <<listVars, servingVars, modelTaskVars>>

\* Mutant: what is highlighted by now is deleted.
DeletesHighlighted ==
  /\ modal.kind = "delete" /\ modal' = NoModal
  /\ files' = files \ {Highlighted}
  /\ lastUsed' = IF lastUsed = Highlighted THEN NoModel ELSE lastUsed
  /\ BeginListing(Scan(aliases, Listing = {}))
  /\ UNCHANGED <<aliases, list, selected, scanning, servingVars>>

\* ConfirmDeleteModel: the file is removed and a scan begun, unless that fails.
ConfirmsDelete ==
  /\ modal.kind = "delete" /\ modal' = NoModal
  /\ files' = files \ {modal.model}
  /\ lastUsed' = IF lastUsed = modal.model THEN NoModel ELSE lastUsed
  /\ BeginListing(Scan(aliases, Listing = {}))
  /\ UNCHANGED <<aliases, list, selected, scanning, servingVars>>

DeleteFails ==
  /\ modal.kind = "delete" /\ modal' = NoModal
  /\ UNCHANGED <<listVars, servingVars, modelTaskVars>>

\* ConfirmAddModelAlias: of a path that exists, and a scan with the new alias.
ConfirmsAlias ==
  /\ modal.kind = "alias" /\ modal' = NoModal
  /\ \E p \in files :
       /\ aliases' = aliases \union {p}
       /\ BeginListing(Scan(aliases \union {p}, Listing = {}))
  /\ UNCHANGED <<files, list, selected, scanning, lastUsed, servingVars>>

--------------------------------------------------------------------------------
(* The server and the names of its model.                                  *)

\* selected_server_model: what is highlighted, or what was used last.
ModelToServe == IF Highlighted # NoModel THEN Highlighted ELSE lastUsed

Launch(model, swap) ==
  /\ Begin([kind |-> "start", model |-> model, swap |-> swap])
  /\ crossed' = (Starts # {}) /\ pending' = model

\* A start whose model or runtime is not found: the loop sends itself the failure.
Refused ==
  /\ Begin([kind |-> "start", model |-> NoModel, swap |-> FALSE])
  /\ crossed' = (crossed \/ Starts # {})
  /\ UNCHANGED <<pending, held>>

\* StartServer
KeyStart ==
  /\ NoDialog /\ ~InUse
  /\ status' = "Starting"
  /\ Refused \/ (ModelToServe # NoModel /\ Launch(ModelToServe, FALSE) /\ UNCHANGED held)
  /\ UNCHANGED <<listVars, modal, active>>

\* StopServer: the loop takes the handle, if it has one, and sends itself Stopped.
KeyStop ==
  /\ NoDialog /\ InUse
  /\ status' = "Stopped" /\ held' = NoModel
  /\ Begin([kind |-> "stopped"])
  /\ UNCHANGED <<listVars, modal, pending, active, crossed>>

\* The next model of the list while no server runs.
KeyNext ==
  /\ NoDialog /\ ~InUse /\ list # <<>>
  /\ selected' = NextPlace /\ lastUsed' = NextInList
  /\ UNCHANGED <<files, aliases, list, scanning, raced, modal, servingVars, modelTaskVars>>

\* ConfirmModelSwap: the running server is stopped, unless the runtime is not found.
ConfirmsSwap ==
  /\ modal.kind = "swap" /\ modal' = NoModal
  /\ Refused \/ (Launch(modal.model, TRUE) /\ held' = NoModel)
  /\ UNCHANGED <<listVars, status, active>>

\* ServerStarted and ServerModelSwapComplete.
StartSucceeds(t) ==
  /\ tasks[t].kind = "start" /\ tasks[t].model # NoModel
  /\ status' = "Ready" /\ held' = tasks[t].model
  /\ active' = pending /\ pending' = NoModel
  /\ TaskEnds(t)
  /\ IF tasks[t].swap
     THEN /\ lastUsed' = tasks[t].model
          /\ \/ tasks[t].model \notin Listed /\ UNCHANGED selected
             \/ /\ selected' \in {i \in DOMAIN list : list[i] = tasks[t].model}
                /\ \A i \in 1 .. selected' - 1 : list[i] # tasks[t].model
     ELSE UNCHANGED <<lastUsed, selected>>
  /\ UNCHANGED <<files, aliases, list, scanning, raced, modal, crossed>>

StartFails(t) ==
  /\ tasks[t].kind = "start"
  /\ status' = "Failed" /\ held' = NoModel /\ pending' = NoModel
  /\ TaskEnds(t)
  /\ UNCHANGED <<listVars, modal, active, crossed>>

StopArrives(t) ==
  /\ tasks[t].kind = "stopped"
  /\ status' = "Stopped" /\ held' = NoModel
  /\ TaskEnds(t)
  /\ UNCHANGED <<listVars, modal, pending, active, crossed>>

TaskGoesOn(t) ==
  \/ ScanReads(t) \/ ScanCompletes(t)
  \/ DownloadInstalls(t) \/ DownloadCompletes(t) \/ DownloadFails(t)
  \/ StartSucceeds(t) \/ StartFails(t) \/ StopArrives(t)

\* Somebody adds or removes a model file.
FilesChange ==
  /\ \E p \in ModelPath : files' \in {files \union {p}, files \ {p}} \ {files}
  /\ raced' = TRUE /\ tasks' = Overtaken(tasks)
  /\ UNCHANGED <<aliases, list, selected, scanning, lastUsed, modal, servingVars, begun>>

PanelNext ==
  \/ KeyMove \/ KeySelect \/ KeyScan \/ KeyDownload \/ KeyOpens \/ KeyCancels
  \/ ConfirmsDelete \/ DeleteFails \/ ConfirmsAlias
  \/ KeyStart \/ KeyStop \/ KeyNext \/ ConfirmsSwap
  \/ FilesChange
  \/ \E t \in Slot : TaskGoesOn(t)

PanelSpec == PanelInit /\ [][PanelNext]_modelPanelVars

--------------------------------------------------------------------------------

\* ConfirmDelete and ConfirmModelSwap: a dialog acts on the model it showed, although
\* the list and the highlighted place changed while it was open.
ActedAsConfirmed ==
  [][/\ (modal.kind = "delete" /\ modal' = NoModal) => files \ files' \subseteq {modal.model}
     /\ modal.kind = "swap" =>
          \A t \in Slot : tasks[t] = IdleSlot /\ tasks'[t] # IdleSlot =>
            tasks'[t].model \in {modal.model, NoModel}]_modelPanelVars

\* ModelScanComplete and DownloadComplete: once no scan and no download is under way,
\* the list is of the models there are, unless one of them was overtaken by another, by
\* a deletion or by somebody else since the last scan that was not.
ListTrue == Listing = {} /\ ~raced => Listed = Visible

\* commit_pending_server: the model that the panel says is served is the one of the
\* server it holds, unless its start was begun while another one was under way.
ActiveIsServed == status = "Ready" /\ held # NoModel /\ ~crossed => active = held

\* What the panel says of the models is true of them.
PanelInv == PanelTypeOK /\ ListTrue /\ ActiveIsServed

================================================================================
