# Verification of LMML

LMML builds and runs `llama-server` on an operator's machines: a terminal
program that manages one server, a gateway that lets clients reach a model only
while a signed approval covers it, a node agent and a router that spread
requests over several machines, and a substrate of signed records that says
which model, lineage and approval is in force.  This directory holds TLA+
models of the parts of LMML in which several tasks, processes or machines meet,
or in which a sequence of steps can go wrong in a way a test would hardly
reach; the TLC runs that check them on small instances; and proofs, checked by
TLAPS, that the most important results hold on every instance.

## 1. The system

### Components, their state and their operations

| Component (crate, file) | State | Operations | Module |
|---|---|---|---|
| Gateway admission (`lmml-gateway`) | three `RwLock`s `status`, `store`, `active`; the operator's approval files | `refresh`, `status`, `activate_if_approved`, `revoke`; three HTTP handlers and the response streams | `GatewayAdmission` |
| Approved launch (`lmml-tui/main.rs`, `model_cli.rs`) | three configuration files, receipts, a bundle, the server it starts | `model approve-template`, `runtime serve-approved-bundle` | `ApprovedLaunch` |
| Deployment snapshot (`lmml-substrate/approval.rs`) | a directory named by the hash of its files | `publish_deployment_snapshot` | `DeploymentSnapshot` |
| Lineage records (`lmml-substrate/lifecycle.rs`, `storage.rs`) | immutable JSON files | `store_admitted_successor`, `rollback_exact` | `SuccessorAdmission` |
| Successor commands (`model_cli/successor.rs`) | authorization, training, candidate and admission records | `authorize`, `register-training`, `register-candidate`, `admit` | `SuccessorPipeline` |
| Approval records (`approval.rs`) | receipts, revocation states, one anchor file | `store_approval_receipt`, `store_revocation_state` | `ApprovalAnchor` |
| Trust root (`approval.rs`, `model_cli.rs`) | replacement roots, migrations, key files | `store_trust_root_rotation` and its command | `TrustRotation` |
| Checkpoints (`lmml-substrate/lib.rs`) | index, shards, manifest | `model import`, `model verify` | `CheckpointImport` |
| Artifacts (`model_cli/derive*`) | outputs, candidate and artifact records | `derive`, `verify-candidate`, `admit-candidate` | `ArtifactDerivation` |
| Evidence (`lifecycle_runtime_cli.rs`, `baseline.rs`) | registered runtimes, leases, baselines | `runtime register`, `runtime request`, `model baseline` | `ModelEvidence` |
| Router (`lmml-router`) | table of nodes, counters | `record`, `discover_upstreams`, `select_upstream`, `call_upstream` | `RouterDispatch` |
| Router catalog (`lmml-router`) | configured upstreams and their keys | models, capabilities, load, readiness | `RouterCatalog` |
| Node agent (`lmml-node`) | none between requests | its handlers, its start, advertisements | `NodeAgent` |
| Messages bridge (`lmml-node`) | the event stream of one reply | the two translations, the stream's blocks | `MessagesBridge` |
| Managed server (`lmml-server`), event loop (`lmml-tui/event_loop.rs`) | child process behind a lock, channel, handle slot, shown status | start, adopt, monitor, stop, swap, quit | `ServerSession` |
| Model panel (`lmml-tui/app.rs`) | list, dialogs, highlighted place | scan, download, delete, alias, start | `ModelPanel` |
| Settings (`lmml-tui/app/settings_state.rs`, `app.rs`) | fields, edit buffer, profiles | edit, confirm, select and cycle profiles | `SettingsEdit`, `LaunchSettings` |
| Runtime profiles (`lmml-tui/runtime_cli.rs`, `lmml-state`) | one state file, recorded pids | `runtime start`, `runtime stop`, the panel's load and save | `RuntimeProfiles` |
| OpenCode handoff (`runtime_cli/`) | two configuration files, backups | `runtime configure`, rollback | `OpenCodeConfig`, `ConfigHandoff` |
| Build (`lmml-build`) | source tree, build directory, process group | `run_build`, cancel, skip | `BuildPipeline` |
| Hardware (`lmml-detect`, `lmml-compat`) | the host | probes, the backend chosen from them | `HardwareProbe`, `BackendChoice` |
| Model download (`lmml-models`) | model files, `.part` files | `download` | `ModelDownload` |

The gateway reads the files that the approval commands write; the launcher
compares the snapshot, starts the server, creates the gateway and stops the
server when the admission fails.  The router knows a node only through its HTTP
answers and its advertisements, and a node its server only through its URL.  The
commands that store records are separate processes that meet only in the file
system.  The terminal program talks to its tasks through one bounded channel and
shares a child process with a monitor task behind a lock; it and the commands on
runtime profiles share one state file that each writes as a whole.

### What is hard

* The gateway takes three locks one after the other; a refresh reads two files,
  computes a verdict and writes it back later.  Another refresh,
  `activate_if_approved` or `revoke` may come between any two of these.
* A command looks at several files, hashes and records at moments of its own and
  acts on what it saw; each of them may be replaced in between.
* A store operation publishes two files, and a process may be killed, fail or
  meet another process after the first.
* The anchor that protects against the restoration of old records is read,
  compared and replaced without a lock, through a temporary file of a fixed name.
* The router probes health and capabilities at different moments, weighs by
  counters that other requests move, and calls a node that may have changed; a
  node checks the approval of a server that may be swapped before it forwards.
* A handler is a future that its client can drop at any await.
* The terminal program's loop is the only reader of a bounded channel that it
  also writes to, and awaits the stop of a server whose monitor may be waiting
  for that channel.  Starts, scans and builds overlap each other and their ends.
* A recorded pid may be another program's by the time it is signalled.
* A download is resumed by a server that knows ranges, ignores them or offers
  another file by then.

What makes each component correct is stated as its properties (section 3); the
table of components with what is left out of each is in `PROJECT.json`, and
with it, under `hazards`, each line at which one of these behaviours bites.

### Not modelled

Signatures, digests and file formats: a hash is the content it is taken of, and
a signature is verified or not.  Drawing, searching the catalog, status and log
commands: they only read.  Training, installation and packaging scripts: offline
programs around external tools.  The parsing of GGUF headers, the catalog of
cards and the values of the built-in profiles are data.  What `git`, `cmake`, a
compiler, a converter or `llama-server` does is a choice of its outcomes.

## 2. Modules

| Module | Role |
|---|---|
| `AdmissionGate` | abstract: a gate that is opened at most once and never opens again once shut |
| `SuccessorRecord` | abstract: a lineage that is absent, provisional or, for good, admitted |
| `GatewayAdmission`, `SuccessorAdmission` | implement these two |
| the other modules of the table above | one component each |
| `*_proofs` | theorems and proofs about the module of that name and, where it says so, about its neighbours |
| `MC*` | the instances of the TLC runs |

Every module is parameterised by its actors (requests, calls, writers, starts,
commands) and by what they work on.  A counter that the program does not bound
is bounded by a constant named as a bound where it is declared (`MaxEdits`,
`MaxSwaps`, `MaxChange`, ...): how often files are edited, servers swapped or
hosts changed from outside.  `PROJECT.json` maps each definition to its lines.

Throughout, an action is a section of code between two points at which another
actor can be seen to act: two file accesses, two awaits, two acquisitions of a
lock.  `overlapped`, `raced`, `shared`, `slipped`, `damaged`, `unsteady`,
`swapped`, `disturbed`, `crossed`, `stale` and `calm` are history variables: they
say whether one of the disturbances happened that a property names as its excuse.

### Gateway, launch and snapshot

| Code | Model |
|---|---|
| `status`, `store`, `active` (`RwLock`s) | variables of these names; a read or a write of one is one step |
| `refresh()`: clone the store, read receipt and revocation on a blocking thread, write the verdict | `CloneStore`, `ReadReceipt`, `ReadRevocation`, `ReadFails`, `WriteStatus` over `check[task]` |
| `health`, `models`, `chat_completions`, the stream with its interval | `stage[request]`; `Holding` are the requests between a check that succeeded and the work it allows |
| `activate_if_approved`, `run_runtime_serve_approved`, `revoke()` | `launch` and the launcher's steps; three steps, called when `RevokeCall` says |
| `model approve-template --bundle-out` | `approver` in `ApprovedLaunch`: configurations read one by one, a receipt, a bundle file that a kill leaves torn |
| `runtime serve-approved-bundle`: load the configurations, check the receipt, compare the snapshot, spawn, look at what was loaded | `launcher.step`; `backend` is what the server process runs |
| `publish_deployment_snapshot` | `publisher[k]`: hash, copy file by file, compare, rename, or find the directory |

### Records

A call is a process.  Its phase follows the order of the code; each look at a
file, comparison, publication, removal and replacement is one step; a failure or
a kill is possible at each.  A lineage record is linked into place whole, so its
publication is one step; an approval record or a trust root is opened with
`create_new` and written later, so that these are two and a killed process
leaves a torn file.  In `ApprovalAnchor` an inode is distinct from the name it
has, because two writers may have the shared temporary file open while one of
them renames it.  In `SuccessorPipeline` and `ArtifactDerivation` a record holds
the records and the content it names, so that "the hash agrees" is equality; the
commands copy what they read into `stage[k]` and `deriver[k]`, and records and
files are replaced meanwhile.  A file that a command opens several times is looked
at in as many steps: an adapter is hashed, its tensors are listed and its numbers
scanned, a merged checkpoint has its headers read, is hashed and scanned.  `calm`
are the commands during whose looks no file was replaced, `sound` the records that
such commands stored.

### Router and node

`table` is `DiscoveredNodeTable`, a request's `candidate` its snapshot
(`discover_upstreams`), `probe` the answers of the two concurrent questions to
each candidate, `left` and `best` the progress of `min_by_key` in
`select_upstream`, and `running`, `completed` and `failed` are `RouterCounters`.
`Tick` ages advertisements and requests.  In `NodeAgent` a handler is the list
of its remaining steps (`todo`); `StepsOf` gives the list of each route in the
order of its code.  `met` is history: whether the approved gateway was at the
URL since the call came.  `MessagesBridge` builds the request and the reply of a
conversation and the events of its stream; `RouterCatalog` aggregates what the
upstreams answer.

### Terminal program

| Code | Model |
|---|---|
| `EventLoop::run`, `tick`, `drain_events` | `at` of `ServerSession`: `Ticking`, `Draining`, ..., `Exited` |
| `dispatch_action`, which awaits a stop and then sends, launches or quits | `after`, with `Stopping`, `Reaping`, `Doing` |
| `app_tx`, `app_rx` | `queue`, of `Capacity` events |
| `server_handle`, `App::server_status`, the swap modal | `slot`, `panel`, `modal` |
| shared `Option<Child>`, `Drop for ServerInner` with `try_lock` | `child[start]`, `DropHandles`, `missed[start]` |
| `watch` channel and its forwarder, `spawn_runtime_monitor` | `watch`, `unseen`, `forward`, `monitor` |
| `App::models`, dialogs, `pending_*` and active names | `list`, `modal`, `pending`, `active` of `ModelPanel`; a task that is done stands for its event |
| one settings buffer, read by Enter | `buffer` of `SettingsEdit`, a sequence of tokens |
| `select_model_path` at the end of a download or a swap, under an open buffer | `ProfileSelected`; `shown` is what the field held when it was opened |
| `ModelState`, `server_config` with its safeguards | `LaunchSettings` |
| the port of an approved bundle, set by `StartServer` and `ConfirmModelSwap` | `ApprovedStart` |
| `detect_rocm`, which asks nothing more without `hipconfig` | `Skipped` of `HardwareProbe` |
| `StartBuild`, `run_build`, `CancelBuild` | `stage[b]`, `command[b]`, `procs[b]`, `sender`, `record` of `BuildPipeline` |
| `load_state`, `save_state` of several processes | `copy[a]`, `step[a]`, and a `stateFile` that is empty between truncation and write |

A handle exists as long as it is in the slot, taken by the loop, in its task or
in the channel.  A section that holds the child lock across no await is one
step; what such a section can do to the `try_lock` of `Drop`, which fails while
any other task holds the lock, is the choice of `missed`.  Two channels that
only pass on log lines are folded into the application channel, in which a log
line is a `Note`.  The health check every few seconds only logs and is left out.

## 3. Runs

Each run answers one question of the system; its bounds are chosen so that the
smallest instance of the interesting case fits, and each property has a mutant of
a mapped definition under which the same run finds it violated.

A run that asks about several components has one *part* for each: an `MC` module
extends their modules, a variable `part` that is chosen at the start says whose
steps are taken, and the other components stay in an initial state.  The states
of such a run are the sum of those of its parts and not their product; the parts
share no state in the program either, or are composed in a module (the launcher
with the gateway, the session with its monitors).

| Run | Parts and instance | Shows |
|---|---|---|
| `approved_server` | the gateway with two requests, two receipts that approve and two edits; a launch with two deployments, one rewrite and one swap; two publishers with one edit and one damage; two processes, one command on evidence, two changes | nothing is served before activation, and no refresh computes an approval that the files never gave; a request after a revocation with no older refresh in flight is refused; a server that serves is what was approved; a published snapshot is whole and stays; a runtime, its lease and its baseline are of one admitted content |
| `gateway_serving` | two requests, a receipt that approves and one that does not, one edit, `revoke()` after the launch, fairness | after `revoke()` no check succeeds; the locks implement `AdmissionGate`; a revoked stream closes |
| `stores` | four admissions, four approval records, four rotations; two downloads of two versions; one `configure`, one outside edit, two backups; a field of each kind, two confirmed edits of at most two tokens, profiles selected under them; two models, three tasks of a panel | nothing unadmitted is exposed and serial calls implement `SuccessorRecord`; the anchor covers what was stored and older receipts are refused; a rotation keeps its files and leaves no orphan; an installed model is whole; the two configuration files agree, and nothing of the user's is lost; an edit means what was typed, or else puts back what was shown; the panel does what was confirmed |
| `router` | two requests, a static and a discovered node, an advertisement under a static name, one change, one tick; one call of every route through a node whose upstream is swapped twice, with a proof of two ticks; conversations of one further turn; two upstreams with keys, two models, one change of the answers | counters are exact and a refusal means that no node could serve; a node forwards only with key and approval and is held ready no longer than its proof is young; a conversation goes on after any reply; each upstream is asked with its own key |
| `servers` | two starts, a channel of one event; one command, two profiles, two pids, one change of settings, up to the first kill or failed save after a race | every server process has an owner, and a panel settled on Stopped is right; the state file says what runs, and no command signals another program |
| `progress` | one start, a channel of one event, one log line; one build, one later commit; one download of two versions; four models with and without profiles, a start with a bundle; fairness | a dead server does not stay Ready, every start is answered, a cancelled build stops, a repeated download ends; and what a server is started with is what the user meant |
| `builds` | two builds that do not overlap, two configurations, of Prism in a fresh tree or of Upstream in one that was built; three hosts, one of them without `hipconfig`, one change, one build | a cancelled build has no process left, what is attested is in place, a skipped build would make what is there; the backend of a build fits the cards it was chosen for |
| `lineage` | one import, two shards and two tensors, one edit of each kind; two derivations of one output, a base and its successor, one disturbance; one command at a time on all four records, with one record or three files replaced | an imported manifest is that of the checkpoint unless it was edited meanwhile; artifacts and records agree; an admitted successor has its chain of records, and what was examined of its files is what was hashed if none was replaced meanwhile |
| `gateway_stale_refresh` | two requests, one edit | **violation** of `RevalidatedPerRequest` |
| `anchor_new_epoch` | the calls of `stores` and a second epoch | **violation** of `OlderReceiptRejected` |
| `rotation_command` | one call of the library, one of the command | **violation** of `CommandAdvances` |
| `router_abandoned` | two requests, without ageing | **violation** of `LeastBusyChosen` |

An invariant that ends in `Inv` (`LaunchInv`, `BuildInv`, ...) is the
conjunction of its module's type invariant with the named safety invariants that
precede it; they are separate definitions with a comment each.

### Why the bounds are enough

* Two requests give every pairwise interleaving of refreshes and handlers; a
  third can only repeat what one of the two does to the other.  Two edits allow
  approve-revoke-renew, the shortest sequence in which a refresh can combine two
  files that never were valid together.
* Overlaps of store operations concern one lineage, one anchor or one pair of
  files.  The calls cover the same content, a conflict at the first file, a
  conflict at the second and a path apart; a killed process is followed by calls
  that find what it left, so that no call needs to run twice.  A command that
  looks at one thing after the other needs one change from outside per pair of
  looks; two commands that share a path need each other.
* Three replacements of files are the fewest with which an adapter whose numbers
  are not finite gets behind an admitted successor: the bad file is there when
  `register-training` hashes it, a good one when it is scanned, and the same again
  for `register-candidate`.
  Records and files are replaced in different parts of `lineage`; the theorems
  cover both at once.
* Two nodes suffice for every comparison that `min_by_key` makes, and one change
  lets a node be ready in one answer and not in the other.  Two swaps let the
  approved gateway go and come back within one call.
* In `servers` a second start is what can be confused with the first one, and a
  channel of one event is the least in which a sender waits; a log line is added
  in `progress`.  A second profile and a second pid are what a command can take
  for its own.  A behaviour in which `lmml` processes raced ends there with the
  first that is killed or cannot save: of what follows only `OthersSpared` speaks,
  which depends on neither, and the proof of `CommandsKeep` covers it.
* Two downloads share the part file; two versions of different length let a part
  be longer or shorter than the file it continues.  Two builds are what can
  leave something for the next; overlapping builds are covered by the proof of
  `BuildIInv`, whose part `BuildCore` makes no assumption about overlap.
* Where section 5 has a theorem it holds for all values, so that for it the
  bounds are only a first test.

Symmetry is used only in runs without liveness.  Deadlock is not checked where
the system may stop: all calls ended, the program left, or (in `ServerSession`)
the loop jammed.

## 4. Fairness

Only `gateway_serving` and `progress` assume any.

*Gateway.*  The runtime keeps polling a task that can go on: weak fairness of a
request's own steps.  A client that is being streamed to keeps reading: weak
fairness of `Poll`, without which a stream may rightly stay open.  A `revoke()`
that was called goes on.  Nothing is assumed of the operator, of new requests,
of request bodies or of the backend: `StreamsEnd` holds even if the backend never
sends another chunk, because each wait for one ends after 250 ms.

*Progress.*  The fairness of a component is restated in the run as that of
`part = "..." /\ action`: of the component's actions while its part takes the
steps, since the actions of an idle part would be enabled for ever and demand
what the run does not let happen.
- *Session.*  Weak fairness of the loop (`run` loops until it quits and every
  wait of a tick is bounded), of monitors and forwarders, which poll or are
  woken.  Strong fairness where a task sends to the application channel: a
  `tokio` channel serves the senders that wait in the order they came, so that
  one whose room comes up again and again gets it.  A wait for readiness ends by
  readiness or by its timeout.  Nothing is assumed of keys, of `llama-server` or
  of log lines.  The properties hold up to `Jammed`, the state in which the loop
  waits for itself.
- *Build.*  Weak fairness of the task, and of the end of a command whose outputs
  have closed.  So a command that was not killed is assumed to exit once it has
  closed both its outputs, as the task then waits for it without looking at the
  cancel channel; a command that keeps an output open may go on for ever, and
  `CancelStops` holds all the same.
- *Download.*  A download is tried again (`StartDownload`), and opening,
  answering, receiving and finishing happen if they are possible again and again:
  strong fairness, since a connection may break between any two of them.  A
  server that sometimes ignores ranges may keep a download from ever ending;
  `RetriedToTheEnd` is about one that honours them (`RangesHonoured`), and
  excuses a part as long as the file (`Stuck`), which is answered 416 for ever.

## 5. Proofs

The theorems are proved for every value of the constants that satisfies the named
assumptions of the module; each assumption is also evaluated in the runs.  Each
inductive invariant was first checked by TLC on the instance of its run.

**GatewayAdmission.**  `Inv` adds to the types that a task is inside a refresh
exactly while its caller waits.  `NothingServedEarly` needs no more.  `NoPhantom`
rests on the order of the two reads: revocations are only added, and a refresh
reads them after the receipt, so a receipt it sees unrevoked was unrevoked when
it was installed.  `QuietRevocation` tracks who still carries an approval: where
nobody does, the verdict that a request reads back is its own or another
refusal.  It assumes `RevokeCall = "Never"`, which is the shipped program:
`revoke()` has no caller outside tests.  `LateWork`, `RevokedStaysShut` and
`GateImplemented` are about an integration that does call it, and assume that it
does so once the launcher is done (`RevokeCall # "Anytime"`); section 6 says what
happens otherwise.  `GateImplemented` is the refinement: each step opens the
gate, shuts it, admits, spends, or leaves it alone.

**ApprovedLaunch, DeploymentSnapshot** (in `ApprovedLaunch_proofs`).
`LaunchIInv` says for each step of the launcher which checks it has passed: what
it holds is what the receipt approves, and the files it compared are those of the
deployment as long as none `slipped`.  `LaunchCorrect` is then a matter of the
last step.  `SnapshotIInv` follows the publisher: what it hashed, what is in its
own directory, and what it has compared; a directory is only ever visible whole
because it is renamed, never filled in place (`SnapshotCorrect`,
`PublicationCorrect`).

**SuccessorAdmission, SuccessorPipeline, ArtifactDerivation** (in
`SuccessorAdmission_proofs`).  The first invariant is ownership: a canonical
record has exactly one owner, the call that created it and has not withdrawn it.
Hence nobody removes or replaces another's record (`CreatorOwns`,
`RecordsNeverReplaced`) and nothing unadmitted stays exposed
(`UnadmittedHidden`), whatever calls overlap.  For serial calls an owner that may
still withdraw excludes every admission record; `SerialBundleKept` and the
refinement `RecordImplemented` follow.  `PipelineIInv` says of every stored
record, and of every copy a command holds, what the command that wrote it had
checked of other records (`RecordInv`, `HeldInv`); since the records hold what
they name, this is preserved whoever replaces them, and gives the chain without
condition.  Of the files it says, for a command that is `calm`, what each of its
looks has found of what is still there (`CalmInv`), and hence that a record which
it stores names files that pass (`ExaminedAsHashed`).  It assumes that what a
regression run writes is a report by its form, with numbers for its results
(`ReportsTyped`).  `DerivationIInv` says of each command what its place implies
(`PlacedAs`, `ListedIn`, `OpenedFrom`), that while nobody else has touched a file
each published output has one owner and no record before its own (`Untouched`),
and that every output is owned, recorded or loose (`Answered`), so that the
command which removes an output on failure removes its own.

**ApprovalAnchor, TrustRotation** (in `ApprovalAnchor_proofs`).  For any
interleaving: records past their write are whole (`RecordsWhole`), and an inode
holds only the stamp of a whole record, wherever it is renamed to
(`AnchorNeverAhead`).  For serial calls, any of them killed anywhere: the anchor
is usable, never goes back, covers every stored record, and an older receipt of
the same epoch is refused (`AnchorStaysUsable`, `AnchorNeverBack`,
`AnchorCoversStored`, `OlderRefused`).  A rotation owns the files it made;
`RotationKept` assumes that no two calls publish the same root in the same place
(`OwnRoots`), which is so for the command, as it makes a new key for each root;
section 6 says what happens to two calls that do.

**RouterDispatch, NodeAgent** (in `RouterDispatch_proofs`).  `Inv` ties the
entries of the table to the age of their advertisements, a snapshot to the table
it was taken from, an answer to a condition the node had while the request
probed, and the running minimum to the candidates already passed.  The safety
properties follow for any number of requests, nodes and advertisements, with the
counters proved equal to the cardinalities of the sets of requests they count
(`CountersCorrect`).  `NodeIInv` says that what is left of a handler is the end
of the list of its route, or a check in the place of the approval it asked for;
hence whoever comes to forward has passed both the key and the gateway's proof,
on every route, in whichever order its handler checks them.  A proof of the bound
gateway that a handler holds was signed while it was at the URL, after the call
had come; with the clocks of gateway and router apart by `offset` this bounds how
long ago that was (`NodeCorrect`).

**ServerSession, RuntimeProfiles** (in `ServerSession_proofs`).  `Inv` follows a
process through its owners: the task of its start while it waits for readiness;
then the shared child, which some handle keeps in reach; then the loop that took
the child out to stop it.  It needs `Progress` (a task before its spawn has no
process, a monitor that reports has lost its process) so that an owner is given
up only when there is nothing left to own, and `LoopPlace` (the loop holds a
handle only while it stops it, and launches only what never started) so that a
new owner never displaces another.  `EveryChildOwned` is `ChildOwned` for any
number of starts and any capacity.  `HandleInv` says that a handle is in one
place only; `StoppedServerStopped` relates with it the last status under way to
the slot.  `ProfileIInv` has a part for each command (its own copy, its process),
one for the panel, one for actors that take turns (`SoloInv`, while not `raced`)
and one for what the file says while none was killed either (`SoundInv`); it
assumes only that there is a profile.

**BuildPipeline** (in `BuildPipeline_proofs`).  `BuildIInv` is `BuildCore`, which
holds however builds overlap (the stage of a task against the command it streams,
the processes of its group and its cancellation), with `AloneInv` for builds that
do not: what the record says of the tree, the build directory and the binary.
`BuildCorrect` and `SkippedIsCurrent` are for any number of builds, commits and
configurations.

**ModelEvidence** (in `ApprovedLaunch_proofs`).  A command hashes the model,
inspects the process, asks the endpoint and hashes and inspects again.
`EvidenceIInv` counts with `since` how often the world has changed since the
command began and says of each step what of the things it looked at must still be
so (`Watches`, `Runs`): of two looks at one thing, with another in between that
was in place, a single change can spoil only one.  Two changes can put a thing
away and back, and that is the excuse of `EvidenceCorrect`.

**RouterCatalog** (in `RouterDispatch_proofs`).  The inductive part is small
(`KeysStayApart`: what is configured has the key given for its name).  The rest of
`CatalogCorrect` is about the operators: the sums over the nodes are folds, which
are reduced to sums over sets, and the model that is offered is one that some
ready node lists.

**MessagesBridge** (in `RouterDispatch_proofs`).  The stream and its replay are
recursive functions; where each event is in the stream (`EventsPlaced`) and what a
client has after the events of each block (`BlockReplayed`) give `EventsRebuild`,
which holds of every message of texts and tools to use.  `BridgeIInv` says of a
conversation that its first message was accepted, that all others are of the kinds
that `SentBack` names, and that a message under way is one made of some answer
(`AnswerMade`); hence what is refused later is blank or empty.  The contents within
a content are those reached in `MaxNesting` steps, for any such number.

**HardwareProbe, BackendChoice** (in `BuildPipeline_proofs`).  `ProbeIInv`: while
the host stays `steady`, what a probe has read is what is there, and without
`hipconfig` nothing more is asked of ROCm: what is said of its targets and its
memory is said of hosts that have it.  `ChoiceIInv`
adds that whatever is picked, kept or built is for cards, that none is for cards
its toolkit has dropped, and that a record holds what was built.  That the two
readings of `rocminfo` agree, and that a memory table whose rows can all be read
is read row by row, are facts about loops: the loops are recursive functions on
the number of lines, unfolded by their defining equation, and the fact is proved
for the least number of lines at which it could fail (`WFMin`).

**LaunchSettings** (in `BuildPipeline_proofs`, which has what is needed to unfold
recursive functions).  `SettingsIInv` is about the state file: it is of its type
and names a profile that is there, so that whatever is loaded again has the
built-in profiles and those the user tuned (`LoadKeeps`).  Where the server listens
is what the user entered, with the port of the bundle that was started since.  The rest of
`SettingsCorrect` follows in each state from the types of settings and profiles
(`StartsAsAsked`).  What the guard against drafts leaves is proved by induction on
the arguments: if flags and values alternate, then so do those it has kept, and
none that it has passed is a draft option or mode (`ArgumentKept`).

**ModelDownload** (in `LocalFiles_proofs`).  As long as nobody `shared` the part
file, one download is under way, it knows the length of the part and writes at its
end; if what is offered did not change either, the part is a beginning of it
(`PartIsBeginning`).  A download ends only when all of it has come, hence
`DownloadCorrect`.  It assumes that there are more inodes than downloads, so that
a new file can always be created.

**ModelPanel** (in `LocalFiles_proofs`).  A scan that is `alone` has seen what
there is where it looked (`AloneIsAlone`); while nothing `raced`, the list lacks at
most what one download under way has installed (`ListFollows`), and while no start
`crossed` another, the start under way is of the pending model (`StartIsPending`).
`PanelCorrect` and `ConfirmedCorrect` follow for any number of models and tasks.

**ConfigHandoff** (in `LocalFiles_proofs`).  `HandoffIInv` has two groups of parts.
`AlignedParts` is about the routes of the two files: the backup that an update
would restore names the route that the other file still has.  This fails when a
second update of both files has taken its backup and the first then renames; the
variable `split` records this (`Overlaps`), a rollback, an update of one file and a
failed restoration, and `HandoffCorrect` speaks of behaviours without them.
`KeptParts` is about what a command decided from what it read, as long as the file
(`stale`) or the server (`outdated`) did not change after it looked; this gives the
action properties of `HandoffKeepsCorrect`.  The run has one `configure` command,
the theorems any number.

**SettingsEdit** (in `LocalFiles_proofs`).  `EditIInv`: a buffer belongs to the
field it was opened for, and until something is typed it is what was shown of the
value that the field held then.  A profile may have been selected since, which
leaves the buffer alone; so a confirmed look puts back what the field held when it
was opened, and touches no other field.  `ReadBack` is the reason: a text that is
one token or has no blanks around it is what trimming leaves, and what the split
reads of arguments shown with blanks between them are these arguments
(`PlainReadBack`, by induction on the arguments and on the tokens of each).  The state file may hold
any arguments and hosts; those that are shown as something else than they are, the
property excepts (`Plain`).

**CheckpointImport** (in `LocalFiles_proofs`).  `ImportIInv` has a part that holds
whatever is edited (`ReadingFits`: what a command has read fits together) and one
for a command during which nobody edits (`ReadingTrue`: it is what is there).
Below them is `LayoutDecides`: the walk over the tensors in the order of their
starts accepts only headers under which each byte of the payload belongs to
exactly one tensor, and refuses such a header only if it has an empty tensor.  The
order is shown to be total, and the facts about the walk are proved for the tensor
with the fewest before it at which they could fail.

*Assumptions.*  The named assumptions on the constants say what kind of value each
is, and these say more: finitely many requests, models, shards and downloads;
fewer downloads than inodes (`DownloadAssumption`); nodes ranked without ties and
the configured ones first (`RankAssumption`); the output of `rocminfo` names each
agent once and no target but those of its agents (`HostAssumption`); a shard's
header lists finitely many tensors (`CheckpointAssumption`); there is a built-in
profile (`LaunchAssumption`); the tool results of a prompt lie within each other no
deeper than `MaxNesting` (`BridgeAssumption`); the settings that are loaded are of
their types (`SettingsAssumption`).

Only model-checked:
* `StreamsEnd`, `StartAnswered`, `FailureShown`, `CancelStops` and
  `RetriedToTheEnd` are liveness under fairness, which needs `ENABLED`; the prover
  does not reason about it.
* The four violations, which are behaviours that TLC finds.

## 6. Where the properties end

### Disagreements found by runs

1. `gateway_stale_refresh`: "approval state that the gateway revalidates for
   every request" (`lmml-gateway/src/lib.rs:95`).  A request reads back the
   shared verdict and not its own; an older refresh of another task may have
   written it in between, so that a request that arrived after a revocation is
   admitted.
2. `anchor_new_epoch`: a revocation state of a newer epoch lowers the sequence
   of the one anchor that also guards receipts, and a receipt older than a
   stored one is accepted again.
3. `rotation_command`: the documented rotation command generates a root of key
   epoch 1, which is never greater than the pinned one's, and is always refused,
   after it has written a private key file.
4. `router_abandoned`: the router decrements the counter of an upstream after an
   await; the handler of a client that disconnects never gets there.

### What the properties excuse

These are reachable in the models, with other constants or where a property names
them as its excuse; the runs are about what the code gets right in spite of them.

*Gateway and launch*
* **A revocation during activation.**  With `RevokeCall = "Anytime"`:
  `activate_if_approved` has seen an approval, `revoke()` writes all three locks
  and returns, and the launcher then sets `active`; requests are admitted after
  `revoke()` returned.  It has no caller outside tests today.
* **A bundle looks at no revocation.**  A bundle that the command writes has no
  `revocation_state`.  A torn bundle blocks its name for ever; a bundle that
  fails after its receipt leaves the receipt, whose id cannot be used again.
* **`approve-template` signs** without asking whether the three configurations
  belong together; the launch asks.  The executable is not hashed again after the
  spawn; a launch that is killed leaves its server running.
* **The loser of a publication** meets a directory that is not empty and reports
  an I/O error; its retry finds the tree.  A copy that fails leaves its directory.

*Records*
* **Two admissions of one lineage.**  The first call creates the canonical
  record, the second finds the same content there, the first fails at its
  admission record and rolls the canonical record back, the second publishes
  its admission record and succeeds: an admitted lineage without its canonical
  record.  `BundleKept` and `ImplementsRecord` therefore speak of calls that
  have not overlapped.
* **Two writers of the anchor.**  Both open the temporary file of the same name;
  one renames it while the other has truncated it, which leaves an empty anchor
  that nobody can read, or an older stamp over a newer one.
* **A rotation repeated.**  Two calls of the library with the same root
  (`NewRoot <- MCSame`): the second finds the root already there, its migration
  conflicts because its time of signing differs, and it removes the root that
  the first one rotated to.  **One killed half-way** leaves a root that no
  migration signs, and a file created and not yet written makes every repetition
  a conflict.
* **An import during an edit** may register a manifest that mixes two contents of
  a shard; no later verification accepts it.
* **A derivation killed** between publishing its output and storing the record
  leaves an output that blocks every retry.  The checkpoint is verified before
  the conversion and not after it.  A rollback removes whatever is at the output
  path.  A second record of an artifact id always differs, by its time.
* **A file replaced between two looks.**  `register-training`,
  `register-candidate` and `admit` hash an adapter or a merged checkpoint and then
  open it again to examine it (`lifecycle.rs:311` and `315`, `successor.rs:367` and
  `368`).  One that is replaced after the hash and put back after the scan is
  recorded and admitted though its numbers are not finite; `ExaminedAsHashed` speaks
  of commands during which no file was replaced.  (A scan opens its file for the
  headers and again for the data; these two are one step of the model.)
* **`admit` never looks** at the authorization, the base or the adapter: it relies
  on the candidate record that `register-candidate` wrote.
* **A registered pid is not tied** to the process that listens at the endpoint, and
  `verify_served_model_endpoint` compares file names only.

*Router and node*
* **A request is forwarded** to whatever answers at the URL after the check of its
  approval; `met` says only that the gateway was there since the call came.
* **The passthrough routes ask the gateway** before they authorize the caller.
  `proxy_infer` sends no key, though `lmml-node/src/lib.rs:76-79` says that
  requests carry it; keys are compared trimmed and sent as they are.
* **Two upstreams of one name** share their counters, and only the first gets its
  key.
* **A reply of only blanks** is passed on to the client and refused when it comes
  back as history; a `finish_reason` of `tool_calls` without calls becomes a
  `stop_reason` of `tool_use` without a tool.

*Terminal program*
* **Quitting during a start.**  The loop finds no handle to stop, leaves, and the
  runtime drops the task with a process of its own that was never put behind a
  handle (docs/lmml-plan.md:143 "avoid orphaned process groups").
* **The loop waits for itself** in two ways: it sends `Stopped` into the full
  channel that only it empties (`event_loop.rs:426-430`), or awaits a stop whose
  lock a monitor holds while that monitor waits for room.
* **An adopted child dies unseen.**  With `Enforced = TRUE`: an adopted child gets
  a monitor and no forwarder, so that the panel goes on showing Ready.
* **A second start kills the first.**  It fails because the port is taken, and its
  failure clears the slot (`event_loop.rs:111-113`), which drops the handle of
  the server that works.
* **The end of any build** drops the cancel sender that is held, also that of a
  later build (`event_loop.rs:125-131`).  An Upstream build that fails keeps the
  record of the one before, so that a later one may be skipped wrongly; a Prism
  build is never skipped, as starting it takes the record back.  A line that is
  not UTF-8 ends a build and leaves `cmake` running; `truncate_line` panics
  inside a character and leaves a build without a last event.
* **Two starts in flight** make the panel name the wrong model: `pending_*` is one
  slot.  A scan begun by a deletion ends the scan that is shown as running, and a
  result overtaken by a change leaves the list wrong until the next scan.
* **Choosing a model with a profile** overwrites the user's own server settings,
  but for host and port, also for models without one; edits of the tuning are
  ignored for models with one; the active profile is one name for all models.
* **A download or a swap that ends under an open edit** selects the profile of its
  model and leaves the buffer; Enter then puts the older value of that one field
  over the profile's.
* **A start with an approved bundle** sets the port of the settings to the bundle's;
  it is saved only along with a later change, and stays when approval is no longer
  enforced.
* **Opening and entering** the extra arguments unchanged loses empty arguments and
  quoting; a value of the file out of range is kept until it is edited.
* **Two downloads at once** share one part file, which is then neither's.
* **Two writers of the state file** lose each other's changes; a truncated file
  parses as the defaults.  A start whose save fails returns with a server running
  that nothing records; a recorded pid that another program took blocks start and
  stop for ever.
* **A handoff** rolls back by truncating and writing, without a backup of what it
  overwrites; options the user changed count as a conflict each time, so that
  every repetition needs `--force`.
* **Without `hipconfig`** detection reports no ROCm, though `rocminfo` would name
  targets and `rocm-smi` memory; the check of a prebuilt backend asks `rocminfo` all
  the same, and the two then disagree.
* **A stop that meets an OS error** reports Failed (`lmml-server/src/lib.rs:108-113`);
  `StopReaps` leaves out that a kill or a wait on an own child may fail.
* **A build that fell back** from CUDA keeps the fallback as the chosen backend; a
  row of `rocm-smi` that cannot be read moves the memory of later cards by one.

## 7. What is left

* **Interactions.**  The gateway and the launch are separate parts of one run: that
  the server which the launcher compared is the one the gateway forwards to is
  stated by `LaunchInv` alone.  The router knows a node by its condition and not by
  the steps of `NodeAgent`; a composition of the two would show how long a
  revocation takes to reach a client.
* **Parsing.**  GGUF headers, chat templates, adapters and the search of the catalog
  of models are data here.
* **The terminal's rendering** and the commands that only report are not modelled.
