----------------------------- MODULE BuildPipeline -----------------------------
(***************************************************************************)
(* Building llama.cpp from the panel: the StartBuild, CleanBuild,          *)
(* UpdateAndRebuild and CancelBuild actions of the event loop, the task    *)
(* that run_build is, the git and cmake commands it streams, and the       *)
(* record of the last build in the application's state.  All builds of a   *)
(* flavor share one source tree.  Nothing keeps a second build from being  *)
(* started while one runs, and the panel may be left at any time.          *)
(***************************************************************************)
EXTENDS Naturals, Sequences

CONSTANTS
  MaxBuilds,   \* how many builds the user starts
  MaxCommit,   \* the commits of the source repository
  PrismCommit, \* those of them that have the sources of the Prism tensors
  BuildConfig, \* the configurations: backend, targets, flags
  PinnedRef,   \* the commits a build may be pinned to
  Overlap,     \* whether a build may be started while the task of another runs
  NoBuild      \* nothing

BuildId == 1 .. MaxBuilds
Commit == 1 .. MaxCommit

ASSUME BuildAssumption ==
  /\ MaxBuilds \in Nat /\ MaxCommit \in Nat \ {0}
  /\ PrismCommit \subseteq Commit /\ PinnedRef \subseteq Commit
  /\ Overlap \in BOOLEAN
  /\ NoBuild \notin Nat /\ NoBuild \notin BuildConfig

VARIABLES
  flavor,     \* "Upstream" or "Prism", for the whole behaviour
  remote,     \* the newest commit of the repository
  tree,       \* the commit checked out in the source tree, or NoBuild
  cache,      \* the configuration of the build directory, or NoBuild
  binary,     \* [commit, config] of the linked llama-server, or NoBuild
  record,     \* the persisted build state
  sender,       \* the build whose cancel sender the event loop holds, or NoBuild
  order,      \* for each build, what was asked for and the record as it was then
  stage,      \* for each build, where its task is
  command,    \* for each build, what its task does with the streamed command
  job,        \* for each build, the command it started last, or NoBuild
  did,        \* for each build, whether that command has had its effect
  procs,      \* for each build, the processes of that command's group alive
  cancelled,  \* for each build, the value of its watch channel
  seen,       \* for each build, the commit of its fingerprint
  outbox,     \* for each build, its events on their way to the panel
  overlapped, \* whether a build was ever started before another had settled
  dirty,      \* whether a build ended in another way than completed or
              \* cancelled since the last completed one
  quits       \* how often the panel was left

panelVars == <<record, sender, overlapped, dirty, quits>>
treeVars == <<flavor, remote, tree, cache, binary>>
taskVars == <<order, stage, command, job, did, procs, cancelled, seen, outbox>>
buildVars == <<treeVars, panelVars, taskVars>>

--------------------------------------------------------------------------------

Streamed == {"Repo", "Fetch", "Checkout", "Configure", "Compile"}
TaskStage == Streamed \union {"Decide", "Clean", "Preflight", "Commands", "Library"}
EndStage == {"Unused", "Done"}

Binary == [commit : Commit, config : BuildConfig] \union {NoBuild}
NoRecord == [commit |-> NoBuild, config |-> NoBuild, hashed |-> FALSE, attested |-> NoBuild]
Record ==
  [commit : Commit \union {NoBuild}, config : BuildConfig \union {NoBuild},
   hashed : BOOLEAN, attested : Binary]
NoOrder == [clean |-> FALSE, config |-> NoBuild, ref |-> NoBuild, record |-> NoRecord]
Order ==
  [clean : BOOLEAN, config : BuildConfig \union {NoBuild},
   ref : Commit \union {NoBuild}, record : Record]

\* A command, with the configuration or the commit it is given.
Job == [does : Streamed, config : BuildConfig, ref : Commit \union {NoBuild}]

BuildEvent ==
  [kind : {"Started", "Failed", "Cancelled", "Skipped"}] \union
  [kind : {"Completed"}, commit : Commit, config : BuildConfig, measured : Binary]

\* The type invariant; a task streams a command only at a streamed stage.
BuildTypeOK ==
  /\ flavor \in {"Upstream", "Prism"}
  /\ remote \in Commit
  /\ tree \in Commit \union {NoBuild}
  /\ cache \in BuildConfig \union {NoBuild}
  /\ binary \in Binary
  /\ record \in Record
  /\ sender \in BuildId \union {NoBuild}
  /\ order \in [BuildId -> Order]
  /\ stage \in [BuildId -> TaskStage \union EndStage]
  /\ command \in [BuildId -> {"no", "streaming", "waiting", "stopping"}]
  /\ \A b \in BuildId : command[b] # "no" => stage[b] \in Streamed
  /\ job \in [BuildId -> Job \union {NoBuild}]
  /\ did \in [BuildId -> BOOLEAN]
  /\ procs \in [BuildId -> SUBSET {"leader", "rest"}]
  /\ cancelled \in [BuildId -> BOOLEAN]
  /\ seen \in [BuildId -> Commit \union {NoBuild}]
  /\ outbox \in [BuildId -> Seq(BuildEvent)]
  /\ overlapped \in BOOLEAN /\ dirty \in BOOLEAN /\ quits \in Nat

\* Nothing has been built yet, or an earlier session has completed a build.
BuildInit ==
  /\ flavor \in {"Upstream", "Prism"}
  /\ remote = 1
  /\ \/ /\ tree = NoBuild /\ cache = NoBuild /\ binary = NoBuild
        /\ record = NoRecord
     \/ /\ tree = 1
        /\ cache \in BuildConfig
        /\ binary = [commit |-> 1, config |-> cache]
        /\ flavor = "Prism" => 1 \in PrismCommit
        /\ record = [commit |-> 1, config |-> cache, hashed |-> TRUE,
                     attested |-> IF flavor = "Prism" THEN binary ELSE NoBuild]
  /\ sender = NoBuild
  /\ order = [b \in BuildId |-> NoOrder]
  /\ stage = [b \in BuildId |-> "Unused"]
  /\ command = [b \in BuildId |-> "no"]
  /\ job = [b \in BuildId |-> NoBuild]
  /\ did = [b \in BuildId |-> FALSE]
  /\ procs = [b \in BuildId |-> {}]
  /\ cancelled = [b \in BuildId |-> FALSE]
  /\ seen = [b \in BuildId |-> NoBuild]
  /\ outbox = [b \in BuildId |-> <<>>]
  /\ overlapped = FALSE /\ dirty = FALSE /\ quits = 0

--------------------------------------------------------------------------------
(* The user and the event loop. *)

TaskEnded(b) == stage[b] \in EndStage
BuildSettled(b) == TaskEnded(b) /\ procs[b] = {} /\ outbox[b] = <<>>

\* Of the attested bytes nothing is kept when a Prism build may change them.
Invalidated(r) == IF flavor = "Prism" THEN [r EXCEPT !.attested = NoBuild] ELSE r

\* build_config: what the settings ask for, with the record as it is now.
Orders(r) ==
  [clean : BOOLEAN, config : BuildConfig, ref : PinnedRef \union {NoBuild}, record : {r}]

\* StartBuild, CleanBuild and UpdateAndRebuild: the state is invalidated first,
\* then cloned for the task.  The cancel sender replaces the one held.  As
\* a bound, two tasks run at once only if Overlap says so; the processes and the
\* events that another has left are there in any case.
StartBuild(b) ==
  /\ stage[b] = "Unused"
  /\ Overlap \/ \A c \in BuildId : TaskEnded(c)
  /\ \A c \in BuildId : c < b => stage[c] # "Unused"
  /\ record' = Invalidated(record)
  /\ \E o \in Orders(record') : order' = [order EXCEPT ![b] = o]
  /\ stage' = [stage EXCEPT ![b] = "Decide"]
  /\ sender' = b
  /\ overlapped' = (overlapped \/ \E c \in BuildId : ~BuildSettled(c))
  /\ UNCHANGED <<treeVars, dirty, quits, command, job, did, procs, cancelled,
                 seen, outbox>>

\* CancelBuild: the sender is taken out of the event loop.
CancelBuild ==
  /\ sender # NoBuild
  /\ cancelled' = [cancelled EXCEPT ![sender] = ~TaskEnded(sender)]
  /\ sender' = NoBuild
  /\ UNCHANGED <<treeVars, record, overlapped, dirty, quits, order, stage,
                 command, job, did, procs, seen, outbox>>

\* Mutant: a cancelled build leaves the hash of the one before.
RecordedKeepsHash(r, e) ==
  CASE e.kind = "Completed" ->
         [commit |-> e.commit, config |-> e.config, hashed |-> TRUE,
          attested |-> IF flavor = "Prism" THEN e.measured ELSE NoBuild]
    [] e.kind \in {"Started", "Failed", "Cancelled"} -> Invalidated(r)
    [] OTHER -> r

\* handle_build_event, as far as the persisted record goes.
Recorded(r, e) ==
  CASE e.kind = "Completed" ->
         [commit |-> e.commit, config |-> e.config, hashed |-> TRUE,
          attested |-> IF flavor = "Prism" THEN e.measured ELSE NoBuild]
    [] e.kind \in {"Started", "Failed"} -> Invalidated(r)
    [] e.kind = "Cancelled" -> [Invalidated(r) EXCEPT !.hashed = FALSE]
    [] OTHER -> r

\* drain_events: a terminal event drops the sender held, whoever sent it.
KeepsSender(e) == e.kind = "Started"

ReceiveBuildEvent(b) ==
  /\ outbox[b] # <<>>
  /\ LET e == Head(outbox[b]) IN
       /\ record' = Recorded(record, e)
       /\ sender' = IF KeepsSender(e) THEN sender ELSE NoBuild
       /\ dirty' = CASE e.kind = "Completed" -> FALSE
                     [] e.kind = "Failed" -> TRUE
                     [] OTHER -> dirty
  /\ outbox' = [outbox EXCEPT ![b] = Tail(@)]
  /\ UNCHANGED <<treeVars, overlapped, quits, order, stage, command, job, did,
                 procs, cancelled, seen>>

\* The panel is left and opened again: its tasks and events are gone, the
\* commands they had started run on.
QuitPanel ==
  /\ quits = 0
  /\ quits' = 1
  /\ sender' = NoBuild
  /\ dirty' = (dirty \/ \E b \in BuildId : ~TaskEnded(b) \/ outbox[b] # <<>>)
  /\ stage' = [b \in BuildId |-> IF TaskEnded(b) THEN stage[b] ELSE "Done"]
  /\ command' = [b \in BuildId |-> "no"]
  /\ order' = [b \in BuildId |-> NoOrder]
  /\ seen' = [b \in BuildId |-> NoBuild]
  /\ cancelled' = [b \in BuildId |-> FALSE]
  /\ outbox' = [b \in BuildId |-> <<>>]
  /\ UNCHANGED <<treeVars, record, overlapped, job, did, procs>>

\* A new commit appears in the repository.
Upstreamed ==
  /\ remote < MaxCommit
  /\ remote' = remote + 1
  /\ UNCHANGED <<flavor, tree, cache, binary, panelVars, taskVars>>

--------------------------------------------------------------------------------
(* The task of a build. *)

Emit(b, e) == outbox' = [outbox EXCEPT ![b] = Append(@, e)]

\* The task is gone with all it knew, whatever processes it leaves.
Gone(b) ==
  /\ stage' = [stage EXCEPT ![b] = "Done"]
  /\ command' = [command EXCEPT ![b] = "no"]
  /\ order' = [order EXCEPT ![b] = NoOrder]
  /\ seen' = [seen EXCEPT ![b] = NoBuild]
  /\ cancelled' = [cancelled EXCEPT ![b] = FALSE]

End(b, e) == Gone(b) /\ Emit(b, e)

FailBuild(b) == End(b, [kind |-> "Failed"])

Enter(b, next) ==
  /\ stage' = [stage EXCEPT ![b] = next]
  /\ command' = [command EXCEPT ![b] = "no"]

\* The repository is cloned when it is not there; it is pulled when no ref is
\* pinned; a pinned ref is fetched and checked out.
FirstStage(b) == IF tree = NoBuild \/ order[b].ref = NoBuild THEN "Repo" ELSE "Fetch"

After(b) ==
  CASE stage[b] = "Repo" -> IF order[b].ref = NoBuild THEN "Clean" ELSE "Fetch"
    [] stage[b] = "Fetch" -> "Checkout"
    [] stage[b] = "Checkout" -> "Clean"
    [] stage[b] = "Configure" -> "Compile"
    [] stage[b] = "Compile" -> "Commands"

\* persisted_fingerprint_matches, of the cloned state and the checked-out commit.
FingerprintMatches(b) ==
  LET r == order[b].record IN
    /\ binary # NoBuild
    /\ r.hashed
    /\ r.commit = tree
    /\ r.config = order[b].config
    /\ flavor = "Prism" => r.attested # NoBuild

Skips(b) == stage[b] = "Decide" /\ ~order[b].clean /\ FingerprintMatches(b)

SkipBuild(b) ==
  /\ Skips(b)
  /\ End(b, [kind |-> "Skipped"])
  /\ UNCHANGED <<treeVars, panelVars, job, did, procs>>

\* run_build announces itself; a source tree of another repository is refused.
BeginBuild(b) ==
  /\ stage[b] = "Decide"
  /\ ~Skips(b)
  /\ Enter(b, FirstStage(b))
  /\ order' = [order EXCEPT ![b].record = NoRecord]
  /\ Emit(b, [kind |-> "Started"])
  /\ UNCHANGED <<treeVars, panelVars, job, did, procs, cancelled, seen>>

\* stream_command: the channel is looked at, then the process group is made.
Spawn(b) ==
  /\ stage[b] \in Streamed
  /\ command[b] = "no"
  /\ ~cancelled[b]
  /\ command' = [command EXCEPT ![b] = "streaming"]
  /\ procs' = [procs EXCEPT ![b] = {"leader", "rest"}]
  /\ job' = [job EXCEPT ![b] = [does |-> stage[b], config |-> order[b].config,
                                ref |-> order[b].ref]]
  /\ did' = [did EXCEPT ![b] = FALSE]
  /\ UNCHANGED <<treeVars, panelVars, order, stage, cancelled, seen, outbox>>

SpawnCancelled(b) ==
  /\ stage[b] \in Streamed
  /\ command[b] = "no"
  /\ cancelled[b]
  /\ End(b, [kind |-> "Cancelled"])
  /\ UNCHANGED <<treeVars, panelVars, job, did, procs>>

\* Both outputs are at their end; the process itself may still be there.
OutputsEnd(b) ==
  /\ command[b] = "streaming"
  /\ command' = [command EXCEPT ![b] = "waiting"]
  /\ UNCHANGED <<treeVars, panelVars, order, stage, job, did, procs, cancelled,
                 seen, outbox>>

\* A line that is not UTF-8 ends the stream with an error; the child is dropped
\* and runs on.
ReadFails(b) ==
  /\ command[b] = "streaming"
  /\ FailBuild(b)
  /\ UNCHANGED <<treeVars, panelVars, job, did, procs>>

\* truncate_line cuts a long line inside a character: the task panics, and no
\* event says so.
LinePanics(b) ==
  /\ command[b] = "streaming"
  /\ Gone(b)
  /\ dirty' = TRUE
  /\ UNCHANGED <<treeVars, record, sender, overlapped, quits, job, did, procs, outbox>>

\* Mutant: the channel is looked at when the outputs have ended.
SeesCancelLate(b) ==
  /\ command[b] = "waiting"
  /\ cancelled[b]
  /\ command' = [command EXCEPT ![b] = "stopping"]
  /\ UNCHANGED <<treeVars, panelVars, order, stage, job, did, procs, cancelled,
                 seen, outbox>>

SeesCancel(b) ==
  /\ command[b] = "streaming"
  /\ cancelled[b]
  /\ command' = [command EXCEPT ![b] = "stopping"]
  /\ UNCHANGED <<treeVars, panelVars, order, stage, job, did, procs, cancelled,
                 seen, outbox>>

\* Mutant: the rest of the group is killed only if its leader had to be.
SurvivorsOfLeader(b) == IF "leader" \in procs[b] THEN {} ELSE procs[b]

\* terminate_child: SIGTERM to the group, then SIGKILL to the group, when its
\* leader has ended or three seconds later.
Survivors(b) == {}

Stopped(b) ==
  /\ command[b] = "stopping"
  /\ procs' = [procs EXCEPT ![b] = Survivors(b)]
  /\ End(b, [kind |-> "Cancelled"])
  /\ UNCHANGED <<treeVars, panelVars, job, did>>

\* The command is over; cmake and git succeed only after their work.  What they
\* leave in the background then is not followed.
CommandSucceeds(b) ==
  /\ command[b] = "waiting"
  /\ "leader" \notin procs[b]
  /\ did[b]
  /\ Enter(b, After(b))
  /\ job' = [job EXCEPT ![b] = NoBuild]
  /\ did' = [did EXCEPT ![b] = FALSE]
  /\ procs' = [procs EXCEPT ![b] = {}]
  /\ UNCHANGED <<treeVars, panelVars, order, cancelled, seen, outbox>>

CommandFails(b) ==
  /\ command[b] = "waiting"
  /\ "leader" \notin procs[b]
  /\ FailBuild(b)
  /\ UNCHANGED <<treeVars, panelVars, job, did, procs>>

CleanTree(b) ==
  /\ stage[b] = "Clean"
  /\ IF order[b].clean
     THEN cache' = NoBuild /\ binary' = NoBuild
     ELSE UNCHANGED <<cache, binary>>
  /\ Enter(b, "Preflight")
  /\ UNCHANGED <<flavor, remote, tree, panelVars, order, job, did, procs,
                 cancelled, seen, outbox>>

\* verify_prism_source, and its counterparts for CUDA and ROCm.
SourcesVerified == flavor = "Prism" => tree \in PrismCommit

\* preflight_build, then the commit that the fingerprint will name.
Preflight(b) ==
  /\ stage[b] = "Preflight"
  /\ SourcesVerified
  /\ seen' = [seen EXCEPT ![b] = tree]
  /\ Enter(b, "Configure")
  /\ UNCHANGED <<treeVars, panelVars, order, job, did, procs, cancelled, outbox>>

\* The compile commands in the build directory name the targets asked for.
KernelsCompiled(b) == flavor = "Prism" => cache = order[b].config

\* The binaries run, the sources are still right.
CommandsVerified(b) ==
  /\ binary # NoBuild
  /\ SourcesVerified
  /\ KernelsCompiled(b)

VerifyCommands(b) ==
  /\ stage[b] = "Commands"
  /\ CommandsVerified(b)
  /\ Enter(b, "Library")
  /\ UNCHANGED <<treeVars, panelVars, order, job, did, procs, cancelled, seen, outbox>>

\* The linked library is the build directory's own.
LibraryOwn == binary # NoBuild

\* It holds the kernels for the targets, too.
LibraryHasTargets(b) == flavor = "Prism" => binary.config = order[b].config

\* The hashes of the library and the server are taken last.
Complete(b) ==
  /\ stage[b] = "Library"
  /\ LibraryOwn
  /\ LibraryHasTargets(b)
  /\ End(b, [kind |-> "Completed", commit |-> seen[b],
             config |-> order[b].config, measured |-> binary])
  /\ UNCHANGED <<treeVars, panelVars, job, did, procs>>

\* What is not streamed may fail; it looks at no channel and has no timeout.
\* A command may not start, or not be waited for.
StageFails(b) ==
  /\ \/ stage[b] \in {"Clean", "Preflight", "Commands", "Library"}
     \/ stage[b] \in Streamed /\ command[b] \in {"no", "stopping"}
  /\ FailBuild(b)
  /\ UNCHANGED <<treeVars, panelVars, job, did, procs>>

--------------------------------------------------------------------------------
(* The processes of the commands, whether or not their task is still there. *)

\* What each command does to the tree it shares.
Effect(b) ==
  CASE job[b].does = "Repo" -> tree' = remote /\ UNCHANGED <<cache, binary>>
    [] job[b].does = "Fetch" -> UNCHANGED <<tree, cache, binary>>
    [] job[b].does = "Checkout" -> tree' = job[b].ref /\ UNCHANGED <<cache, binary>>
    [] job[b].does = "Configure" -> cache' = job[b].config /\ UNCHANGED <<tree, binary>>
    [] job[b].does = "Compile" ->
         /\ cache # NoBuild
         /\ binary' = [commit |-> tree, config |-> cache]
         /\ UNCHANGED <<tree, cache>>

Work(b) ==
  /\ procs[b] # {}
  /\ ~did[b]
  /\ Effect(b)
  /\ did' = [did EXCEPT ![b] = TRUE]
  /\ UNCHANGED <<flavor, remote, panelVars, order, stage, command, job, procs,
                 cancelled, seen, outbox>>

ProcessEnds(b) ==
  /\ \E p \in procs[b] : procs' = [procs EXCEPT ![b] = @ \ {p}]
  /\ UNCHANGED <<treeVars, panelVars, order, stage, command, job, did,
                 cancelled, seen, outbox>>

--------------------------------------------------------------------------------

\* The steps that a live task takes sooner or later.
TaskGoes(b) ==
  \/ SkipBuild(b)
  \/ BeginBuild(b)
  \/ Spawn(b)
  \/ SpawnCancelled(b)
  \/ SeesCancel(b)
  \/ Stopped(b)
  \/ CommandSucceeds(b)
  \/ CommandFails(b)
  \/ CleanTree(b)
  \/ Preflight(b)
  \/ VerifyCommands(b)
  \/ Complete(b)
  \/ StageFails(b)

BuildStep(b) ==
  \/ StartBuild(b)
  \/ ReceiveBuildEvent(b)
  \/ TaskGoes(b)
  \/ OutputsEnd(b)
  \/ ReadFails(b)
  \/ LinePanics(b)
  \/ Work(b)
  \/ ProcessEnds(b)

BuildNext ==
  \/ CancelBuild
  \/ QuitPanel
  \/ Upstreamed
  \/ \E b \in BuildId : BuildStep(b)

\* A task runs on, and a command whose outputs have ended ends itself.  A
\* command that still has an output open may stay for ever.
BuildFairness ==
  \A b \in BuildId :
    /\ WF_buildVars(TaskGoes(b))
    /\ WF_buildVars(command[b] = "waiting" /\ ProcessEnds(b))

BuildSpec == BuildInit /\ [][BuildNext]_buildVars /\ BuildFairness

--------------------------------------------------------------------------------
(* Properties. *)

\* "Build was cancelled by the caller and the active subprocess was stopped":
\* when a build says so, no process of its group is alive.
CancelledIsStopped ==
  \A b \in BuildId :
    (\E i \in DOMAIN outbox[b] : outbox[b][i].kind = "Cancelled") => procs[b] = {}

\* As long as builds do not overlap, what the record attests of a Prism runtime
\* is there: the linked server was built from the recorded commit with the
\* recorded configuration, from sources that have the Prism tensors, and its
\* bytes are those that were verified.
AttestedAsBuilt ==
  ~overlapped /\ record.attested # NoBuild =>
    /\ binary = [commit |-> record.commit, config |-> record.config]
    /\ binary = record.attested
    /\ record.commit \in PrismCommit

\* A build is skipped only if the server in the tree is the one that the build
\* would make, unless builds overlapped or one failed or was left since.
SkipIsCurrent ==
  [][\A b \in BuildId :
       SkipBuild(b) /\ ~overlapped /\ ~dirty =>
         binary = [commit |-> tree, config |-> order[b].config]]_buildVars

\* As long as builds do not overlap, the event loop can cancel the one that
\* runs: it holds that build's sender or has used it.
Interruptible ==
  ~overlapped =>
    \A b \in BuildId : TaskEnded(b) \/ sender = b \/ cancelled[b]

\* A cancelled build ends, though a command that keeps an output open may never end
\* by itself; of one that has closed them the fairness assumes that it does.
CancelStops == \A b \in BuildId : cancelled[b] ~> TaskEnded(b)

\* A build is what it is said to be, and can be stopped.
BuildInv == BuildTypeOK /\ CancelledIsStopped /\ AttestedAsBuilt /\ Interruptible

================================================================================
