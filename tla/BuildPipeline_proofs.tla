-------------------------- MODULE BuildPipeline_proofs --------------------------
(***************************************************************************)
(* Proofs about the build of llama.cpp, for any number of builds, commits  *)
(* and configurations.  The first half of the invariant, BuildCore, holds  *)
(* however builds overlap; the second, AloneInv, while they do not.  And   *)
(* about what is built for, whatever the hosts look like, and what a server *)
(* of the build is launched with, whatever its settings and profiles.      *)
(***************************************************************************)
EXTENDS BuildPipeline, BackendChoice, LaunchSettings, SequenceTheorems, WellFoundedInduction, TLAPS

\* The stages from the one that the commands configure the tree for on.
BuiltStage == {"Configure", "Compile", "Commands", "Library"}

\* What a task and its command rest on.
TaskHolds(b) ==
  /\ ~TaskEnded(b) => order[b].config \in BuildConfig
  /\ stage[b] \in {"Fetch", "Checkout"} => order[b].ref \in Commit
  /\ stage[b] \notin EndStage \union {"Decide", "Repo"} => tree \in Commit
  /\ stage[b] \in BuiltStage => seen[b] \in Commit
  /\ ~TaskEnded(b) /\ command[b] = "no" => procs[b] = {}
  /\ stage[b] = "Unused" => procs[b] = {} /\ outbox[b] = <<>>

CommandHolds(b) ==
  /\ command[b] # "no" =>
       /\ job[b] \in Job
       /\ job[b].does = stage[b] /\ job[b].config = order[b].config
       /\ did[b] => tree \in Commit
  /\ procs[b] # {} =>
       /\ job[b] \in Job
       /\ job[b].does # "Repo" => tree \in Commit
       /\ job[b].does = "Checkout" => job[b].ref \in Commit

\* The events of a build: at most the last one says how it ended.
EventsHold(b) ==
  \A i \in DOMAIN outbox[b] :
    /\ outbox[b][i].kind # "Started" => i = Len(outbox[b]) /\ TaskEnded(b)
    /\ outbox[b][i].kind \in {"Completed", "Cancelled", "Skipped"} => procs[b] = {}
    /\ stage[b] # "Decide"

\* Of builds that do not overlap one at most is not settled.
Alone == \A b, c \in BuildId : b = c \/ BuildSettled(b) \/ BuildSettled(c)

\* What the tree, its build directory and the server in it are at a stage.
TreeFollows(b) ==
  /\ stage[b] = "Decide" => order[b].record = record
  /\ stage[b] \in BuiltStage => seen[b] = tree /\ SourcesVerified
  /\ stage[b] = "Configure" /\ command[b] # "no" /\ did[b] => cache = order[b].config
  /\ stage[b] \in BuiltStage \ {"Configure"} => cache = order[b].config
  /\ stage[b] = "Compile" /\ command[b] # "no" /\ did[b] =>
       binary = [commit |-> tree, config |-> cache]
  /\ stage[b] \in {"Commands", "Library"} => binary = [commit |-> tree, config |-> cache]

CompletedHolds(b) ==
  \A i \in DOMAIN outbox[b] :
    outbox[b][i].kind = "Completed" =>
      /\ binary = [commit |-> outbox[b][i].commit, config |-> outbox[b][i].config]
      /\ outbox[b][i].measured = binary
      /\ flavor = "Prism" => outbox[b][i].commit \in PrismCommit

\* What has been left undone is known to be, or is about to be.
EndHolds(b) ==
  TaskEnded(b) /\ ~dirty =>
    /\ outbox[b] # <<>> => outbox[b][Len(outbox[b])].kind # "Started"
    /\ procs[b] # {} => \E i \in DOMAIN outbox[b] : outbox[b][i].kind = "Failed"

\* A build that has not touched the tree.
Untouched(b) ==
  \/ BuildSettled(b)
  \/ stage[b] = "Decide"
  \/ \E i \in DOMAIN outbox[b] : outbox[b][i].kind = "Skipped"

RecordCurrent ==
  ~dirty /\ record.hashed /\ (\A b \in BuildId : Untouched(b)) =>
    binary = [commit |-> record.commit, config |-> record.config]

AttestedHolds ==
  record.attested # NoBuild =>
    /\ \A b \in BuildId : BuildSettled(b)
    /\ binary = [commit |-> record.commit, config |-> record.config]
    /\ binary = record.attested
    /\ record.commit \in PrismCommit

AloneInv ==
  /\ Alone
  /\ \A b \in BuildId : TreeFollows(b) /\ CompletedHolds(b) /\ EndHolds(b)
  /\ \A b \in BuildId : TaskEnded(b) \/ sender = b \/ cancelled[b]
  /\ RecordCurrent
  /\ AttestedHolds

BuildCore ==
  /\ BuildTypeOK
  /\ flavor # "Prism" => record.attested = NoBuild
  /\ \A b \in BuildId : TaskHolds(b) /\ CommandHolds(b) /\ EventsHold(b)

BuildIInv == BuildCore /\ (~overlapped => AloneInv)

--------------------------------------------------------------------------------
(* Events and records. *)

LEMMA Appended ==
  ASSUME BuildTypeOK, NEW b \in BuildId, NEW e \in BuildEvent, Emit(b, e)
  PROVE  /\ outbox' \in [BuildId -> Seq(BuildEvent)]
         /\ \A c \in BuildId \ {b} : outbox'[c] = outbox[c]
         /\ Len(outbox'[b]) = Len(outbox[b]) + 1 /\ outbox'[b] # <<>>
         /\ outbox'[b][Len(outbox'[b])] = e /\ Len(outbox'[b]) \in DOMAIN outbox'[b]
         /\ \A i \in DOMAIN outbox'[b] :
              i # Len(outbox'[b]) => i \in DOMAIN outbox[b] /\ outbox'[b][i] = outbox[b][i]
<1>1. outbox[b] \in Seq(BuildEvent)
  BY DEF BuildTypeOK
<1>2. outbox'[b] = Append(outbox[b], e)
  BY DEF BuildTypeOK, Emit
<1>3. Append(outbox[b], e) \in Seq(BuildEvent)
  BY <1>1
<1>4. outbox' \in [BuildId -> Seq(BuildEvent)] /\ \A c \in BuildId \ {b} : outbox'[c] = outbox[c]
  BY <1>3 DEF BuildTypeOK, Emit
<1> QED  BY <1>1, <1>2, <1>4

LEMMA Shifted ==
  ASSUME NEW s \in Seq(BuildEvent), s # <<>>, NEW t, t = Tail(s)
  PROVE  /\ t \in Seq(BuildEvent)
         /\ Head(s) \in BuildEvent /\ Head(s) = s[1] /\ 1 \in DOMAIN s
         /\ Len(s) = Len(t) + 1 /\ Len(t) \in Nat
         /\ Len(s) = 1 <=> t = <<>>
         /\ \A i \in DOMAIN t : i + 1 \in DOMAIN s /\ t[i] = s[i + 1]
         /\ \A i \in DOMAIN s : i # 1 => i - 1 \in DOMAIN t
<1> DEFINE n == Len(s)
<1>1. n \in Nat \ {0} /\ DOMAIN s = 1 .. n
  BY EmptySeq, LenProperties
<1>2. t \in Seq(BuildEvent) /\ Len(t) = n - 1 /\ \A i \in 1 .. n - 1 : t[i] = s[i + 1]
  BY HeadTailProperties
<1>3. DOMAIN t = 1 .. n - 1
  BY <1>2, LenProperties
<1>4. Head(s) \in BuildEvent /\ Head(s) = s[1]
  OBVIOUS
<1>5. t = <<>> <=> Len(t) = 0
  BY <1>2, EmptySeq
<1> HIDE DEF n
<1>6. \A i \in DOMAIN t : i + 1 \in DOMAIN s /\ t[i] = s[i + 1]
  BY <1>1, <1>2, <1>3
<1>7. \A i \in DOMAIN s : i # 1 => i - 1 \in DOMAIN t
  BY <1>1, <1>3
<1>8. 1 \in DOMAIN s /\ n = Len(t) + 1 /\ Len(t) \in Nat /\ (n = 1 <=> t = <<>>)
  BY <1>1, <1>2, <1>5
<1> QED  BY <1>2, <1>4, <1>6, <1>7, <1>8 DEF n

LEMMA TailTaken ==
  ASSUME BuildTypeOK, NEW b \in BuildId, outbox[b] # <<>>,
         outbox' = [outbox EXCEPT ![b] = Tail(@)]
  PROVE  /\ outbox' \in [BuildId -> Seq(BuildEvent)]
         /\ Head(outbox[b]) \in BuildEvent /\ Head(outbox[b]) = outbox[b][1]
         /\ 1 \in DOMAIN outbox[b]
         /\ \A c \in BuildId \ {b} : outbox'[c] = outbox[c]
         /\ Len(outbox[b]) = Len(outbox'[b]) + 1 /\ Len(outbox'[b]) \in Nat
         /\ Len(outbox[b]) = 1 <=> outbox'[b] = <<>>
         /\ \A i \in DOMAIN outbox'[b] :
              i + 1 \in DOMAIN outbox[b] /\ outbox'[b][i] = outbox[b][i + 1]
         /\ \A i \in DOMAIN outbox[b] : i # 1 => i - 1 \in DOMAIN outbox'[b]
<1>1. outbox[b] \in Seq(BuildEvent)
  BY DEF BuildTypeOK
<1>2. outbox'[b] = Tail(outbox[b])
  BY DEF BuildTypeOK
<1>3. Tail(outbox[b]) \in Seq(BuildEvent)
  BY <1>1, Shifted
<1>4. outbox' \in [BuildId -> Seq(BuildEvent)] /\ \A c \in BuildId \ {b} : outbox'[c] = outbox[c]
  BY <1>3 DEF BuildTypeOK
<1>5. /\ Head(outbox[b]) \in BuildEvent /\ Head(outbox[b]) = outbox[b][1]
      /\ 1 \in DOMAIN outbox[b]
      /\ Len(outbox[b]) = Len(outbox'[b]) + 1 /\ Len(outbox'[b]) \in Nat
      /\ Len(outbox[b]) = 1 <=> outbox'[b] = <<>>
      /\ \A i \in DOMAIN outbox'[b] :
           i + 1 \in DOMAIN outbox[b] /\ outbox'[b][i] = outbox[b][i + 1]
      /\ \A i \in DOMAIN outbox[b] : i # 1 => i - 1 \in DOMAIN outbox'[b]
  <2> DEFINE s == outbox[b]
             t == outbox'[b]
  <2>1. s \in Seq(BuildEvent) /\ s # <<>> /\ t = Tail(s)
    BY <1>1, <1>2
  <2> HIDE DEF s, t
  <2>2. Head(s) \in BuildEvent /\ Head(s) = s[1] /\ 1 \in DOMAIN s
    BY <2>1, Shifted
  <2>3. Len(s) = Len(t) + 1 /\ Len(t) \in Nat
    BY <2>1, Shifted
  <2>4. Len(s) = 1 <=> t = <<>>
    BY <2>1, Shifted
  <2>5. \A i \in DOMAIN t : i + 1 \in DOMAIN s /\ t[i] = s[i + 1]
    BY <2>1, Shifted
  <2>6. \A i \in DOMAIN s : i # 1 => i - 1 \in DOMAIN t
    BY <2>1, Shifted
  <2> QED  BY <2>2, <2>3, <2>4, <2>5, <2>6 DEF s, t
<1> QED  BY <1>4, <1>5

LEMMA EventKinds ==
  ASSUME NEW e \in BuildEvent
  PROVE  /\ e.kind \in {"Started", "Failed", "Cancelled", "Skipped", "Completed"}
         /\ e.kind = "Completed" => e.commit \in Commit /\ e.config \in BuildConfig /\ e.measured \in Binary
  BY DEF BuildEvent

LEMMA InvalidatedTyped ==
  ASSUME NEW r \in Record
  PROVE  /\ Invalidated(r) \in Record
         /\ Invalidated(r).commit = r.commit /\ Invalidated(r).config = r.config
         /\ Invalidated(r).hashed = r.hashed
         /\ Invalidated(r).attested \in {r.attested, NoBuild}
         /\ flavor = "Prism" => Invalidated(r).attested = NoBuild
  BY DEF Invalidated, Record, Binary

LEMMA RecordedTyped ==
  ASSUME NEW r \in Record, NEW e \in BuildEvent
  PROVE  /\ Recorded(r, e) \in Record
         /\ e.kind # "Completed" => Recorded(r, e).attested \in {r.attested, NoBuild}
         /\ e.kind # "Completed" =>
              Recorded(r, e).commit = r.commit /\ Recorded(r, e).config = r.config
         /\ e.kind \in {"Started", "Failed", "Skipped"} => Recorded(r, e).hashed = r.hashed
         /\ e.kind = "Cancelled" => ~Recorded(r, e).hashed
         /\ e.kind = "Completed" =>
              /\ Recorded(r, e).commit = e.commit /\ Recorded(r, e).config = e.config
              /\ Recorded(r, e).attested = IF flavor = "Prism" THEN e.measured ELSE NoBuild
<1> DEFINE v == Invalidated(r)
<1>1. /\ v \in Record /\ v.commit = r.commit /\ v.config = r.config /\ v.hashed = r.hashed
      /\ v.attested \in {r.attested, NoBuild}
  BY InvalidatedTyped
<1> HIDE DEF v
<1>2. e.kind \in {"Started", "Failed", "Cancelled", "Skipped", "Completed"}
  BY EventKinds
<1>3. CASE e.kind = "Completed"
  <2>1. e.commit \in Commit /\ e.config \in BuildConfig /\ e.measured \in Binary
    BY <1>3, EventKinds
  <2>2. Recorded(r, e) = [commit |-> e.commit, config |-> e.config, hashed |-> TRUE,
                          attested |-> IF flavor = "Prism" THEN e.measured ELSE NoBuild]
    BY <1>3 DEF Recorded
  <2> QED  BY <1>3, <2>1, <2>2 DEF Record, Binary
<1>4. CASE e.kind \in {"Started", "Failed"}
  <2>1. Recorded(r, e) = v
    BY <1>4 DEF Recorded, v
  <2> QED  BY <1>1, <1>4, <2>1
<1>5. CASE e.kind = "Cancelled"
  <2>1. Recorded(r, e) = [v EXCEPT !.hashed = FALSE]
    BY <1>5 DEF Recorded, v
  <2>2. /\ [v EXCEPT !.hashed = FALSE] \in Record
        /\ [v EXCEPT !.hashed = FALSE].commit = v.commit
        /\ [v EXCEPT !.hashed = FALSE].config = v.config
        /\ [v EXCEPT !.hashed = FALSE].attested = v.attested
        /\ [v EXCEPT !.hashed = FALSE].hashed = FALSE
    BY <1>1 DEF Record
  <2> QED  BY <1>1, <1>5, <2>1, <2>2
<1>6. CASE e.kind = "Skipped"
  <2>1. Recorded(r, e) = r
    BY <1>6 DEF Recorded
  <2> QED  BY <1>6, <2>1
<1> QED  BY <1>2, <1>3, <1>4, <1>5, <1>6

LEMMA NothingTyped ==
  /\ NoRecord \in Record /\ NoOrder \in Order /\ NoBuild \in Binary
  /\ NoRecord.attested = NoBuild /\ NoOrder.record = NoRecord
<1>1. NoBuild \in Binary
  BY DEF Binary
<1>2. NoRecord \in Record /\ NoRecord.attested = NoBuild
  BY <1>1 DEF NoRecord, Record
<1>3. NoOrder \in Order /\ NoOrder.record = NoRecord
  BY <1>2 DEF NoOrder, Order
<1> QED  BY <1>1, <1>2, <1>3

--------------------------------------------------------------------------------
(* What a step of one task leaves to the others. *)

SameTask(c) ==
  /\ order'[c] = order[c] /\ stage'[c] = stage[c] /\ command'[c] = command[c]
  /\ job'[c] = job[c] /\ did'[c] = did[c] /\ procs'[c] = procs[c]
  /\ cancelled'[c] = cancelled[c] /\ seen'[c] = seen[c] /\ outbox'[c] = outbox[c]

LEMMA SameKeeps ==
  ASSUME NEW c \in BuildId, TaskHolds(c), CommandHolds(c), EventsHold(c), SameTask(c),
         tree \in Commit => tree' \in Commit
  PROVE  TaskHolds(c)' /\ CommandHolds(c)' /\ EventsHold(c)'
<1>1. TaskHolds(c)'
  BY DEF TaskHolds, SameTask, TaskEnded
<1>2. CommandHolds(c)'
  BY DEF CommandHolds, SameTask
<1>3. EventsHold(c)'
  BY DEF EventsHold, SameTask, TaskEnded
<1> QED  BY <1>1, <1>2, <1>3

LEMMA CoreByTask ==
  ASSUME BuildCore, NEW b \in BuildId, BuildTypeOK',
         flavor' = flavor, record'.attested \in {record.attested, NoBuild},
         \A c \in BuildId \ {b} : SameTask(c),
         tree \in Commit => tree' \in Commit,
         TaskHolds(b)', CommandHolds(b)', EventsHold(b)'
  PROVE  BuildCore'
  BY SameKeeps DEF BuildCore

LEMMA EnteredTask ==
  ASSUME BuildTypeOK, NEW b \in BuildId, NEW next \in TaskStage, Enter(b, next)
  PROVE  /\ stage' \in [BuildId -> TaskStage \union EndStage]
         /\ command' \in [BuildId -> {"no", "streaming", "waiting", "stopping"}]
         /\ stage'[b] = next /\ command'[b] = "no"
         /\ \A c \in BuildId \ {b} : stage'[c] = stage[c] /\ command'[c] = command[c]
         /\ \A c \in BuildId : command'[c] # "no" => stage'[c] \in Streamed
  BY DEF BuildTypeOK, Enter

LEMMA GoneTask ==
  ASSUME BuildTypeOK, NEW b \in BuildId, Gone(b)
  PROVE  /\ stage' \in [BuildId -> TaskStage \union EndStage]
         /\ command' \in [BuildId -> {"no", "streaming", "waiting", "stopping"}]
         /\ order' \in [BuildId -> Order]
         /\ seen' \in [BuildId -> Commit \union {NoBuild}]
         /\ cancelled' \in [BuildId -> BOOLEAN]
         /\ stage'[b] = "Done" /\ command'[b] = "no" /\ seen'[b] = NoBuild
         /\ \A c \in BuildId \ {b} :
              /\ stage'[c] = stage[c] /\ command'[c] = command[c] /\ order'[c] = order[c]
              /\ seen'[c] = seen[c] /\ cancelled'[c] = cancelled[c]
         /\ \A c \in BuildId : command'[c] # "no" => stage'[c] \in Streamed
  BY NothingTyped DEF BuildTypeOK, Gone, EndStage

\* A task that ends keeps the invariant, if what it says of its processes is so.
LEMMA EndKeepsCore ==
  ASSUME BuildCore, NEW b \in BuildId, ~TaskEnded(b), NEW e \in BuildEvent, End(b, e),
         e.kind # "Started",
         procs' \in [BuildId -> SUBSET {"leader", "rest"}],
         procs'[b] \subseteq procs[b],
         e.kind \in {"Completed", "Cancelled", "Skipped"} => procs'[b] = {},
         \A c \in BuildId \ {b} : procs'[c] = procs[c],
         UNCHANGED <<treeVars, panelVars, job, did>>
  PROVE  /\ BuildCore'
         /\ \A c \in BuildId \ {b} : SameTask(c)
<1>0. BuildTypeOK /\ TaskHolds(b) /\ CommandHolds(b) /\ EventsHold(b)
  BY DEF BuildCore
<1>1. Gone(b) /\ Emit(b, e)
  BY DEF End
<1>2. BuildTypeOK'
  BY <1>0, <1>1, GoneTask, Appended DEF BuildTypeOK, treeVars, panelVars
<1>3. \A c \in BuildId \ {b} : SameTask(c)
  BY <1>0, <1>1, GoneTask, Appended DEF SameTask
<1>4. stage'[b] = "Done" /\ command'[b] = "no"
  BY <1>0, <1>1, GoneTask
<1>5. tree' = tree /\ flavor' = flavor /\ record' = record /\ job' = job
  BY DEF treeVars, panelVars
<1>6. TaskHolds(b)'
  BY <1>4 DEF TaskHolds, TaskEnded, EndStage, BuiltStage
<1>7. CommandHolds(b)'
  BY <1>0, <1>4, <1>5 DEF CommandHolds
<1>8. EventsHold(b)'
  BY <1>0, <1>1, <1>4, Appended DEF EventsHold, TaskEnded, EndStage
<1> QED  BY <1>2, <1>3, <1>5, <1>6, <1>7, <1>8, CoreByTask

--------------------------------------------------------------------------------
(* Every step keeps the part of the invariant that holds though builds overlap. *)

\* The steps that end a task with an event.
Ends(b) ==
  \/ SkipBuild(b)
  \/ SpawnCancelled(b)
  \/ ReadFails(b)
  \/ Stopped(b)
  \/ CommandFails(b)
  \/ Complete(b)
  \/ StageFails(b)

EndEvent(b, e) ==
  /\ e \in BuildEvent /\ e.kind # "Started"
  /\ End(b, e)
  /\ ~TaskEnded(b)
  /\ procs' \in [BuildId -> SUBSET {"leader", "rest"}]
  /\ procs'[b] \subseteq procs[b]
  /\ e.kind \in {"Completed", "Cancelled", "Skipped"} => procs'[b] = {}
  /\ \A c \in BuildId \ {b} : procs'[c] = procs[c]
  /\ UNCHANGED <<treeVars, panelVars, job, did>>

LEMMA EndsWithEvent ==
  ASSUME BuildCore, NEW b \in BuildId, Ends(b)
  PROVE  /\ \E e \in BuildEvent : EndEvent(b, e)
         /\ Complete(b) => \E e \in BuildEvent :
              /\ EndEvent(b, e) /\ e.kind = "Completed"
              /\ e.commit = seen[b] /\ e.config = order[b].config /\ e.measured = binary
              /\ UNCHANGED procs
         /\ SkipBuild(b) => \E e \in BuildEvent : EndEvent(b, e) /\ e.kind = "Skipped"
         /\ SpawnCancelled(b) \/ Stopped(b) =>
              \E e \in BuildEvent : EndEvent(b, e) /\ e.kind = "Cancelled"
         /\ ReadFails(b) \/ CommandFails(b) \/ StageFails(b) =>
              \E e \in BuildEvent : EndEvent(b, e) /\ e.kind = "Failed"
<1>0. /\ BuildTypeOK /\ TaskHolds(b) /\ CommandHolds(b)
      /\ procs \in [BuildId -> SUBSET {"leader", "rest"}]
      /\ stage[b] \in TaskStage \union EndStage
  BY DEF BuildCore, BuildTypeOK
<1>1. /\ [kind |-> "Failed"] \in BuildEvent /\ [kind |-> "Cancelled"] \in BuildEvent
      /\ [kind |-> "Skipped"] \in BuildEvent
  BY DEF BuildEvent
<1>2. ASSUME SkipBuild(b)
      PROVE  EndEvent(b, [kind |-> "Skipped"])
  <2>1. stage[b] = "Decide" /\ procs' = procs
    BY <1>2 DEF SkipBuild, Skips
  <2>2. command[b] = "no" /\ procs[b] = {} /\ ~TaskEnded(b)
    BY <1>0, <2>1 DEF BuildTypeOK, Streamed, TaskHolds, TaskEnded, EndStage
  <2> QED  BY <1>0, <1>1, <1>2, <2>1, <2>2 DEF SkipBuild, EndEvent
<1>3. ASSUME SpawnCancelled(b)
      PROVE  EndEvent(b, [kind |-> "Cancelled"])
  <2>1. stage[b] \in Streamed /\ command[b] = "no" /\ procs' = procs
    BY <1>3 DEF SpawnCancelled
  <2>2. procs[b] = {} /\ ~TaskEnded(b)
    BY <1>0, <2>1 DEF Streamed, TaskHolds, TaskEnded, EndStage
  <2> QED  BY <1>0, <1>1, <1>3, <2>1, <2>2 DEF SpawnCancelled, EndEvent
<1>4. ASSUME Stopped(b)
      PROVE  EndEvent(b, [kind |-> "Cancelled"])
  <2>1. command[b] # "no" /\ procs' = [procs EXCEPT ![b] = {}]
    BY <1>4 DEF Stopped, Survivors
  <2>2. ~TaskEnded(b)
    BY <1>0, <2>1 DEF BuildTypeOK, Streamed, TaskEnded, EndStage
  <2> QED  BY <1>0, <1>1, <1>4, <2>1, <2>2 DEF Stopped, EndEvent
<1>5. ASSUME ReadFails(b) \/ CommandFails(b) \/ StageFails(b)
      PROVE  EndEvent(b, [kind |-> "Failed"])
  <2>1. command[b] # "no" \/ stage[b] \in {"Clean", "Preflight", "Commands", "Library"} \union Streamed
    BY <1>5 DEF ReadFails, CommandFails, StageFails
  <2>2. ~TaskEnded(b)
    BY <1>0, <2>1 DEF BuildTypeOK, Streamed, TaskEnded, EndStage
  <2>3. /\ End(b, [kind |-> "Failed"]) /\ procs' = procs
        /\ UNCHANGED <<treeVars, panelVars, job, did>>
    BY <1>5 DEF ReadFails, CommandFails, StageFails, FailBuild
  <2> QED  BY <1>0, <1>1, <2>2, <2>3 DEF EndEvent
<1>6. ASSUME Complete(b)
      PROVE  \E e \in BuildEvent :
               /\ EndEvent(b, e) /\ e.kind = "Completed"
               /\ e.commit = seen[b] /\ e.config = order[b].config /\ e.measured = binary
               /\ UNCHANGED procs
  <2> DEFINE e == [kind |-> "Completed", commit |-> seen[b], config |-> order[b].config,
                   measured |-> binary]
  <2>1. stage[b] = "Library" /\ procs' = procs /\ End(b, e)
        /\ UNCHANGED <<treeVars, panelVars, job, did>>
    BY <1>6 DEF Complete
  <2>2. command[b] = "no" /\ procs[b] = {} /\ ~TaskEnded(b)
    BY <1>0, <2>1 DEF BuildTypeOK, Streamed, TaskHolds, TaskEnded, EndStage
  <2>3. seen[b] \in Commit /\ order[b].config \in BuildConfig /\ binary \in Binary
    BY <1>0, <2>1, <2>2 DEF BuildTypeOK, TaskHolds, BuiltStage
  <2>4. e \in BuildEvent
    BY <2>3 DEF BuildEvent
  <2>5. e.kind = "Completed" /\ e.commit = seen[b] /\ e.config = order[b].config /\ e.measured = binary
    OBVIOUS
  <2> HIDE DEF e
  <2>6. EndEvent(b, e)
    BY <1>0, <2>1, <2>2, <2>4, <2>5 DEF EndEvent
  <2> QED  BY <2>1, <2>4, <2>5, <2>6
<1> QED  BY <1>1, <1>2, <1>3, <1>4, <1>5, <1>6 DEF Ends

LEMMA EndsKeepCore ==
  ASSUME BuildCore, NEW b \in BuildId, Ends(b)
  PROVE  BuildCore'
<1>1. PICK e \in BuildEvent : EndEvent(b, e)
  BY EndsWithEvent
<1> QED  BY <1>1, EndKeepsCore DEF EndEvent

LEMMA StartKeepsCore ==
  ASSUME BuildCore, NEW b \in BuildId, StartBuild(b)
  PROVE  /\ BuildCore'
         /\ stage[b] = "Unused" /\ stage'[b] = "Decide"
         /\ order'[b].record = record'
         /\ \A c \in BuildId \ {b} : SameTask(c)
<1> USE DEF BuildTypeOK
<1>0. BuildTypeOK /\ TaskHolds(b) /\ CommandHolds(b) /\ EventsHold(b) /\ stage[b] = "Unused"
  BY DEF BuildCore, StartBuild
<1>1. record' = Invalidated(record)
  BY DEF StartBuild
<1>2. record' \in Record /\ record'.attested \in {record.attested, NoBuild}
  BY <1>0, <1>1, InvalidatedTyped
<1>3. PICK o \in Orders(record') : order' = [order EXCEPT ![b] = o]
  BY DEF StartBuild
<1>4. o \in Order /\ o.config \in BuildConfig /\ o.record = record'
  BY <1>2, <1>3, BuildAssumption DEF Orders, Order
<1>5. /\ stage' = [stage EXCEPT ![b] = "Decide"] /\ sender' = b
      /\ UNCHANGED <<treeVars, dirty, quits, command, job, did, procs, cancelled, seen, outbox>>
      /\ overlapped' \in BOOLEAN
  BY DEF StartBuild
<1>6. command[b] = "no"
  BY <1>0 DEF Streamed
<1>7. BuildTypeOK'
  BY <1>0, <1>2, <1>3, <1>4, <1>5, <1>6 DEF TaskStage, treeVars
<1>8. \A c \in BuildId \ {b} : SameTask(c)
  BY <1>0, <1>3, <1>5 DEF SameTask
<1>9. order'[b] = o /\ stage'[b] = "Decide" /\ command'[b] = "no"
  BY <1>0, <1>3, <1>5, <1>6
<1>10. TaskHolds(b)'
  BY <1>0, <1>4, <1>5, <1>9 DEF TaskHolds, TaskEnded, EndStage, BuiltStage
<1>11. CommandHolds(b)'
  BY <1>0, <1>5, <1>9 DEF CommandHolds, treeVars
<1>12. EventsHold(b)'
  BY <1>0, <1>5, <1>9 DEF EventsHold, TaskHolds
<1>13. flavor' = flavor /\ tree' = tree
  BY <1>5 DEF treeVars
<1>14. BuildCore'
  BY <1>2, <1>7, <1>8, <1>10, <1>11, <1>12, <1>13, CoreByTask
<1> QED  BY <1>0, <1>4, <1>8, <1>9, <1>14

LEMMA CancelKeepsCore ==
  ASSUME BuildCore, CancelBuild
  PROVE  BuildCore'
<1>1. /\ sender \in BuildId /\ cancelled' = [cancelled EXCEPT ![sender] = ~TaskEnded(sender)]
      /\ sender' = NoBuild
      /\ UNCHANGED <<treeVars, record, overlapped, dirty, quits, order, stage,
                     command, job, did, procs, seen, outbox>>
  BY DEF CancelBuild, BuildCore, BuildTypeOK
<1>2. BuildTypeOK'
  BY <1>1 DEF BuildCore, BuildTypeOK, treeVars
<1> QED  BY <1>1, <1>2 DEF BuildCore, TaskHolds, CommandHolds, EventsHold, TaskEnded, treeVars

LEMMA ReceiveKeepsCore ==
  ASSUME BuildCore, NEW b \in BuildId, ReceiveBuildEvent(b)
  PROVE  /\ BuildCore'
         /\ \A c \in BuildId \ {b} : SameTask(c)
<1>0. BuildTypeOK /\ TaskHolds(b) /\ CommandHolds(b) /\ EventsHold(b)
  BY DEF BuildCore
<1> DEFINE e == Head(outbox[b])
<1>1. /\ outbox[b] # <<>> /\ outbox' = [outbox EXCEPT ![b] = Tail(@)]
      /\ record' = Recorded(record, e)
      /\ sender' = IF KeepsSender(e) THEN sender ELSE NoBuild
      /\ dirty' \in BOOLEAN
      /\ UNCHANGED <<treeVars, overlapped, quits, order, stage, command, job, did,
                     procs, cancelled, seen>>
  BY <1>0 DEF ReceiveBuildEvent, BuildTypeOK
<1>2. e \in BuildEvent
  BY <1>0, <1>1, TailTaken
<1>3. record' \in Record
  BY <1>0, <1>1, <1>2, RecordedTyped DEF BuildTypeOK
<1>4. flavor # "Prism" => record'.attested = NoBuild
  BY <1>0, <1>1, <1>2, RecordedTyped DEF BuildTypeOK, BuildCore
<1>5. BuildTypeOK'
  BY <1>0, <1>1, <1>3, TailTaken DEF BuildTypeOK, treeVars
<1>6. \A c \in BuildId \ {b} : SameTask(c)
  BY <1>0, <1>1, TailTaken DEF SameTask
<1>7. TaskHolds(b)'
  BY <1>0, <1>1 DEF TaskHolds, TaskEnded, treeVars
<1>8. CommandHolds(b)'
  BY <1>0, <1>1 DEF CommandHolds, treeVars
<1>9. EventsHold(b)'
  <2> SUFFICES ASSUME NEW i \in DOMAIN outbox'[b]
               PROVE  /\ outbox'[b][i].kind # "Started" => i = Len(outbox'[b]) /\ TaskEnded(b)'
                      /\ outbox'[b][i].kind \in {"Completed", "Cancelled", "Skipped"} => procs'[b] = {}
                      /\ stage'[b] # "Decide"
    BY DEF EventsHold
  <2>1. i + 1 \in DOMAIN outbox[b] /\ outbox'[b][i] = outbox[b][i + 1]
        /\ Len(outbox[b]) = Len(outbox'[b]) + 1 /\ Len(outbox'[b]) \in Nat /\ i \in Nat
    <3>1. outbox'[b] \in Seq(BuildEvent)
      BY <1>5 DEF BuildTypeOK
    <3>2. i \in Nat
      BY <3>1, LenProperties
    <3> QED  BY <1>0, <1>1, <3>2, TailTaken
  <2>2. /\ outbox[b][i + 1].kind # "Started" => i + 1 = Len(outbox[b]) /\ TaskEnded(b)
        /\ outbox[b][i + 1].kind \in {"Completed", "Cancelled", "Skipped"} => procs[b] = {}
        /\ stage[b] # "Decide"
    BY <1>0, <2>1 DEF EventsHold
  <2>3. i + 1 = Len(outbox[b]) => i = Len(outbox'[b])
    BY <2>1
  <2> QED  BY <1>1, <2>1, <2>2, <2>3 DEF TaskEnded
<1>10. flavor' = flavor /\ tree' = tree
  BY <1>1 DEF treeVars
<1>11. \A c \in BuildId \ {b} : TaskHolds(c)' /\ CommandHolds(c)' /\ EventsHold(c)'
  BY <1>6, <1>10, SameKeeps DEF BuildCore
<1> QED  BY <1>4, <1>5, <1>6, <1>7, <1>8, <1>9, <1>10, <1>11 DEF BuildCore

LEMMA QuitKeepsCore ==
  ASSUME BuildCore, QuitPanel
  PROVE  BuildCore'
<1>0. BuildTypeOK /\ \A b \in BuildId : TaskHolds(b) /\ CommandHolds(b) /\ EventsHold(b)
  BY DEF BuildCore
<1>1. /\ quits' = 1 /\ sender' = NoBuild
      /\ stage' = [b \in BuildId |-> IF TaskEnded(b) THEN stage[b] ELSE "Done"]
      /\ command' = [b \in BuildId |-> "no"]
      /\ order' = [b \in BuildId |-> NoOrder]
      /\ seen' = [b \in BuildId |-> NoBuild]
      /\ cancelled' = [b \in BuildId |-> FALSE]
      /\ outbox' = [b \in BuildId |-> <<>>]
      /\ UNCHANGED <<treeVars, record, overlapped, job, did, procs>>
  BY DEF QuitPanel
<1>2. dirty' \in BOOLEAN
  BY DEF QuitPanel
<1>3. <<>> \in Seq(BuildEvent)
  OBVIOUS
<1>4. BuildTypeOK'
  BY <1>0, <1>1, <1>2, <1>3, NothingTyped DEF BuildTypeOK, TaskEnded, EndStage, treeVars
<1>5. \A b \in BuildId : TaskEnded(b)'
  BY <1>1 DEF TaskEnded, EndStage
<1>6. \A b \in BuildId : TaskHolds(b)'
  BY <1>0, <1>1, <1>5 DEF TaskHolds, TaskEnded, EndStage, BuiltStage
<1>7. \A b \in BuildId : CommandHolds(b)'
  BY <1>0, <1>1 DEF CommandHolds, treeVars
<1>8. \A b \in BuildId : EventsHold(b)'
  BY <1>1 DEF EventsHold
<1> QED  BY <1>1, <1>4, <1>6, <1>7, <1>8 DEF BuildCore, treeVars

LEMMA UpstreamKeepsCore ==
  ASSUME BuildCore, Upstreamed
  PROVE  BuildCore'
<1>1. remote' \in Commit
  BY BuildAssumption DEF BuildCore, BuildTypeOK, Upstreamed, Commit
<1>2. UNCHANGED <<flavor, tree, cache, binary, panelVars, taskVars>>
  BY DEF Upstreamed
<1> QED  BY <1>1, <1>2 DEF BuildCore, BuildTypeOK, TaskHolds, CommandHolds, EventsHold, TaskEnded,
                           panelVars, taskVars

LEMMA BeginKeepsCore ==
  ASSUME BuildCore, NEW b \in BuildId, BeginBuild(b)
  PROVE  /\ BuildCore'
         /\ stage[b] = "Decide" /\ stage'[b] \in {"Repo", "Fetch"} /\ command'[b] = "no"
         /\ \A c \in BuildId \ {b} : SameTask(c)
         /\ UNCHANGED <<treeVars, panelVars, procs, cancelled>>
<1>0. BuildTypeOK /\ TaskHolds(b) /\ CommandHolds(b) /\ EventsHold(b)
  BY DEF BuildCore
<1>1. /\ stage[b] = "Decide"
      /\ Enter(b, FirstStage(b))
      /\ order' = [order EXCEPT ![b].record = NoRecord]
      /\ Emit(b, [kind |-> "Started"])
      /\ UNCHANGED <<treeVars, panelVars, job, did, procs, cancelled, seen>>
  BY DEF BeginBuild
<1>2. /\ order' \in [BuildId -> Order]
      /\ order'[b].config = order[b].config /\ order'[b].ref = order[b].ref
      /\ \A c \in BuildId \ {b} : order'[c] = order[c]
  <2>1. order[b] \in Order
    BY <1>0 DEF BuildTypeOK
  <2> DEFINE o == [order[b] EXCEPT !.record = NoRecord]
  <2>2. o \in Order /\ o.config = order[b].config /\ o.ref = order[b].ref
    BY <2>1, NothingTyped DEF Order
  <2>3. order' = [order EXCEPT ![b] = o]
    BY <1>1
  <2> HIDE DEF o
  <2> QED  BY <1>0, <2>2, <2>3 DEF BuildTypeOK
<1>3. FirstStage(b) \in {"Repo", "Fetch"} /\ FirstStage(b) \in TaskStage
  BY DEF FirstStage, TaskStage, Streamed
<1>4. [kind |-> "Started"] \in BuildEvent
  BY DEF BuildEvent
<1>5. ~TaskEnded(b) /\ command[b] = "no" /\ procs[b] = {}
  BY <1>0, <1>1 DEF BuildTypeOK, TaskEnded, EndStage, Streamed, TaskHolds
<1>6. BuildTypeOK'
  BY <1>0, <1>1, <1>2, <1>3, <1>4, EnteredTask, Appended DEF BuildTypeOK, treeVars, panelVars
<1>7. \A c \in BuildId \ {b} : SameTask(c)
  BY <1>0, <1>1, <1>2, <1>3, <1>4, EnteredTask, Appended DEF SameTask
<1>8. stage'[b] = FirstStage(b) /\ command'[b] = "no" /\ procs'[b] = {}
  BY <1>0, <1>1, <1>3, <1>5, EnteredTask
<1>9. TaskHolds(b)'
  <2>1. stage'[b] = "Fetch" => order[b].ref \in Commit /\ tree \in Commit
    BY <1>0, <1>8 DEF FirstStage, BuildTypeOK, Order
  <2> QED  BY <1>0, <1>1, <1>2, <1>3, <1>5, <1>8, <2>1 DEF TaskHolds, TaskEnded, EndStage, BuiltStage, treeVars
<1>10. CommandHolds(b)'
  BY <1>0, <1>1, <1>8 DEF CommandHolds, treeVars
<1>11. EventsHold(b)'
  <2>1. outbox[b] = <<>>
    <3>1. outbox[b] \in Seq(BuildEvent)
      BY <1>0 DEF BuildTypeOK
    <3>2. 1 \notin DOMAIN outbox[b]
      BY <1>0, <1>1 DEF EventsHold
    <3> QED  BY <3>1, <3>2, Shifted
  <2>2. \A i \in DOMAIN outbox'[b] : outbox'[b][i].kind = "Started"
    BY <1>0, <1>1, <1>4, <2>1, Appended
  <2> QED  BY <1>3, <1>8, <2>2 DEF EventsHold
<1>12. tree' = tree /\ flavor' = flavor /\ record' = record
  BY <1>1 DEF treeVars, panelVars
<1>13. BuildCore'
  BY <1>6, <1>7, <1>9, <1>10, <1>11, <1>12, CoreByTask
<1> QED  BY <1>1, <1>3, <1>7, <1>8, <1>13

\* The steps of a command before it is over.
LEMMA CommandKeepsCore ==
  ASSUME BuildCore, NEW b \in BuildId,
         Spawn(b) \/ OutputsEnd(b) \/ SeesCancel(b) \/ ProcessEnds(b)
  PROVE  /\ BuildCore'
         /\ \A c \in BuildId \ {b} : SameTask(c)
         /\ UNCHANGED <<treeVars, panelVars, order, stage, cancelled, seen, outbox>>
<1>0. BuildTypeOK /\ TaskHolds(b) /\ CommandHolds(b) /\ EventsHold(b)
  BY DEF BuildCore
<1>1. CASE Spawn(b)
  <2> DEFINE j == [does |-> stage[b], config |-> order[b].config, ref |-> order[b].ref]
  <2>1. /\ stage[b] \in Streamed /\ command[b] = "no" /\ job' = [job EXCEPT ![b] = j]
        /\ command' = [command EXCEPT ![b] = "streaming"]
        /\ procs' = [procs EXCEPT ![b] = {"leader", "rest"}]
        /\ did' = [did EXCEPT ![b] = FALSE]
        /\ UNCHANGED <<treeVars, panelVars, order, stage, cancelled, seen, outbox>>
    BY <1>1 DEF Spawn
  <2>2. ~TaskEnded(b)
    BY <2>1 DEF Streamed, TaskEnded, EndStage
  <2>3. /\ j \in Job /\ j.does = stage[b] /\ j.config = order[b].config /\ j.ref = order[b].ref
        /\ j.does # "Repo" => tree \in Commit
        /\ j.does = "Checkout" => j.ref \in Commit
    BY <1>0, <2>1, <2>2 DEF BuildTypeOK, Order, Job, TaskHolds, EndStage, Streamed
  <2> HIDE DEF j
  <2>4. BuildTypeOK'
    BY <1>0, <2>1, <2>3 DEF BuildTypeOK, treeVars, panelVars
  <2>5. \A c \in BuildId \ {b} : SameTask(c)
    BY <1>0, <2>1 DEF SameTask, BuildTypeOK
  <2>6. /\ job'[b] = j /\ did'[b] = FALSE /\ command'[b] = "streaming"
    BY <1>0, <2>1 DEF BuildTypeOK
  <2>7. TaskHolds(b)'
    BY <1>0, <2>1, <2>6, <2>2 DEF TaskHolds, TaskEnded, treeVars, EndStage
  <2>8. CommandHolds(b)'
    BY <1>0, <2>1, <2>3, <2>6 DEF CommandHolds, treeVars
  <2>9. EventsHold(b)'
    BY <1>0, <2>1, <2>2 DEF EventsHold, TaskEnded, treeVars, BuildTypeOK
  <2>10. tree' = tree /\ flavor' = flavor /\ record' = record
    BY <2>1 DEF treeVars, panelVars
  <2> QED  BY <2>1, <2>4, <2>5, <2>7, <2>8, <2>9, <2>10, CoreByTask
<1>2. CASE OutputsEnd(b) \/ SeesCancel(b)
  <2>1. /\ command[b] = "streaming"
        /\ \E s \in {"waiting", "stopping"} : command' = [command EXCEPT ![b] = s]
        /\ UNCHANGED <<treeVars, panelVars, order, stage, job, did, procs, cancelled, seen, outbox>>
    BY <1>2 DEF OutputsEnd, SeesCancel
  <2>2. ~TaskEnded(b)
    BY <1>0, <2>1 DEF BuildTypeOK, Streamed, TaskEnded, EndStage
  <2>3. BuildTypeOK'
    BY <1>0, <2>1 DEF BuildTypeOK, treeVars, panelVars
  <2>4. \A c \in BuildId \ {b} : SameTask(c)
    BY <1>0, <2>1 DEF SameTask, BuildTypeOK
  <2>5. TaskHolds(b)'
    BY <1>0, <2>1 DEF TaskHolds, TaskEnded, treeVars, BuildTypeOK
  <2>6. CommandHolds(b)'
    BY <1>0, <2>1 DEF CommandHolds, treeVars
  <2>7. EventsHold(b)'
    BY <1>0, <2>1 DEF EventsHold, TaskEnded
  <2>8. tree' = tree /\ flavor' = flavor /\ record' = record
    BY <2>1 DEF treeVars, panelVars
  <2> QED  BY <2>1, <2>3, <2>4, <2>5, <2>6, <2>7, <2>8, CoreByTask
<1>3. CASE ProcessEnds(b)
  <2>1. /\ procs[b] # {}
        /\ \E p \in procs[b] : procs' = [procs EXCEPT ![b] = procs[b] \ {p}]
        /\ UNCHANGED <<treeVars, panelVars, order, stage, command, job, did, cancelled, seen, outbox>>
    BY <1>3 DEF ProcessEnds
  <2>2. /\ procs' \in [BuildId -> SUBSET {"leader", "rest"}] /\ procs'[b] \subseteq procs[b]
        /\ \A c \in BuildId \ {b} : procs'[c] = procs[c]
    BY <1>0, <2>1 DEF BuildTypeOK
  <2>3. BuildTypeOK'
    BY <1>0, <2>1, <2>2 DEF BuildTypeOK, treeVars, panelVars
  <2>4. \A c \in BuildId \ {b} : SameTask(c)
    BY <2>1, <2>2 DEF SameTask
  <2>5. TaskHolds(b)'
    BY <1>0, <2>1, <2>2 DEF TaskHolds, TaskEnded, treeVars
  <2>6. CommandHolds(b)'
    BY <1>0, <2>1, <2>2 DEF CommandHolds, treeVars
  <2>7. EventsHold(b)'
    BY <1>0, <2>1, <2>2 DEF EventsHold, TaskEnded
  <2>8. tree' = tree /\ flavor' = flavor /\ record' = record
    BY <2>1 DEF treeVars, panelVars
  <2> QED  BY <2>1, <2>3, <2>4, <2>5, <2>6, <2>7, <2>8, CoreByTask
<1> QED  BY <1>1, <1>2, <1>3

LEMMA PanicKeepsCore ==
  ASSUME BuildCore, NEW b \in BuildId, LinePanics(b)
  PROVE  /\ BuildCore'
         /\ \A c \in BuildId \ {b} : SameTask(c)
         /\ stage'[b] = "Done" /\ dirty' /\ ~TaskEnded(b)
         /\ UNCHANGED <<treeVars, record, sender, overlapped, procs, outbox>>
<1>0. BuildTypeOK /\ TaskHolds(b) /\ CommandHolds(b) /\ EventsHold(b)
  BY DEF BuildCore
<1>1. /\ command[b] = "streaming" /\ Gone(b) /\ dirty' = TRUE
      /\ UNCHANGED <<treeVars, record, sender, overlapped, quits, job, did, procs, outbox>>
  BY DEF LinePanics
<1>2. ~TaskEnded(b)
  BY <1>0, <1>1 DEF BuildTypeOK, Streamed, TaskEnded, EndStage
<1>3. BuildTypeOK'
  BY <1>0, <1>1, GoneTask DEF BuildTypeOK, treeVars
<1>4. \A c \in BuildId \ {b} : SameTask(c)
  BY <1>0, <1>1, GoneTask DEF SameTask
<1>5. stage'[b] = "Done" /\ command'[b] = "no"
  BY <1>0, <1>1, GoneTask
<1>6. TaskHolds(b)'
  BY <1>5 DEF TaskHolds, TaskEnded, EndStage, BuiltStage
<1>7. CommandHolds(b)'
  BY <1>0, <1>1, <1>5 DEF CommandHolds, treeVars
<1>8. EventsHold(b)'
  BY <1>0, <1>1, <1>2, <1>5 DEF EventsHold, TaskEnded, EndStage
<1>9. tree' = tree /\ flavor' = flavor /\ record' = record
  BY <1>1 DEF treeVars
<1> QED  BY <1>1, <1>2, <1>3, <1>4, <1>5, <1>6, <1>7, <1>8, <1>9, CoreByTask

LEMMA SucceedKeepsCore ==
  ASSUME BuildCore, NEW b \in BuildId, CommandSucceeds(b)
  PROVE  /\ BuildCore'
         /\ \A c \in BuildId \ {b} : SameTask(c)
         /\ stage[b] \in Streamed /\ stage'[b] = After(b) /\ command'[b] = "no"
         /\ command[b] # "no" /\ did[b] /\ procs'[b] = {}
         /\ UNCHANGED <<treeVars, panelVars, order, cancelled, seen, outbox>>
<1>0. BuildTypeOK /\ TaskHolds(b) /\ CommandHolds(b) /\ EventsHold(b)
  BY DEF BuildCore
<1>1. /\ command[b] = "waiting" /\ did[b] /\ Enter(b, After(b))
      /\ job' = [job EXCEPT ![b] = NoBuild]
      /\ did' = [did EXCEPT ![b] = FALSE]
      /\ procs' = [procs EXCEPT ![b] = {}]
      /\ UNCHANGED <<treeVars, panelVars, order, cancelled, seen, outbox>>
  BY DEF CommandSucceeds
<1>2. /\ stage[b] \in Streamed /\ ~TaskEnded(b) /\ job[b] \in Job /\ job[b].does = stage[b]
      /\ tree \in Commit
  BY <1>0, <1>1 DEF BuildTypeOK, Streamed, TaskEnded, EndStage, CommandHolds
<1>3. /\ After(b) \in {"Clean", "Fetch", "Checkout", "Compile", "Commands"}
      /\ After(b) \in {"Compile", "Commands"} => stage[b] \in {"Configure", "Compile"}
      /\ After(b) \in {"Fetch", "Checkout"} => order[b].ref # NoBuild
  <2>1. CASE stage[b] = "Repo"
    BY <2>1 DEF After
  <2>2. CASE stage[b] = "Fetch"
    <3>1. order[b].ref # NoBuild
      BY <1>0, <2>2, BuildAssumption DEF TaskHolds, Commit
    <3> QED  BY <2>2, <3>1 DEF After
  <2>3. CASE stage[b] = "Checkout"
    BY <2>3 DEF After
  <2>4. CASE stage[b] = "Configure"
    BY <2>4 DEF After
  <2>5. CASE stage[b] = "Compile"
    BY <2>5 DEF After
  <2> QED  BY <1>2, <2>1, <2>2, <2>3, <2>4, <2>5 DEF Streamed
<1>4. After(b) \in TaskStage
  BY <1>3 DEF TaskStage, Streamed
<1>5. BuildTypeOK'
  BY <1>0, <1>1, <1>4, EnteredTask DEF BuildTypeOK, treeVars, panelVars
<1>6. \A c \in BuildId \ {b} : SameTask(c)
  BY <1>0, <1>1, <1>4, EnteredTask DEF SameTask, BuildTypeOK
<1>7. stage'[b] = After(b) /\ command'[b] = "no"
  BY <1>0, <1>1, <1>4, EnteredTask
<1>8. procs'[b] = {} /\ job'[b] = NoBuild /\ order'[b] = order[b] /\ tree' = tree /\ seen'[b] = seen[b]
  BY <1>0, <1>1 DEF BuildTypeOK, treeVars
<1>9. TaskHolds(b)'
  <2>1. order[b].ref \in Commit \union {NoBuild} /\ order[b].config \in BuildConfig
    BY <1>0, <1>2 DEF BuildTypeOK, Order, TaskHolds
  <2>2. After(b) \in BuiltStage => seen[b] \in Commit
    BY <1>0, <1>3 DEF TaskHolds, BuiltStage
  <2> QED  BY <1>2, <1>3, <1>7, <1>8, <2>1, <2>2 DEF TaskHolds, TaskEnded, EndStage
<1>10. CommandHolds(b)'
  BY <1>7, <1>8 DEF CommandHolds
<1>11. EventsHold(b)'
  BY <1>0, <1>1, <1>2, <1>3, <1>7 DEF EventsHold, TaskEnded
<1>12. tree' = tree /\ flavor' = flavor /\ record' = record
  BY <1>1 DEF treeVars, panelVars
<1>13. BuildCore'
  BY <1>5, <1>6, <1>9, <1>10, <1>11, <1>12, CoreByTask
<1> QED  BY <1>1, <1>2, <1>6, <1>7, <1>8, <1>13

\* The steps of a task that run no command.
LEMMA PlainKeepsCore ==
  ASSUME BuildCore, NEW b \in BuildId, CleanTree(b) \/ Preflight(b) \/ VerifyCommands(b)
  PROVE  /\ BuildCore'
         /\ \A c \in BuildId \ {b} : SameTask(c)
         /\ command'[b] = "no"
         /\ CleanTree(b) => stage[b] = "Clean" /\ stage'[b] = "Preflight"
         /\ Preflight(b) => /\ stage[b] = "Preflight" /\ stage'[b] = "Configure"
                            /\ seen'[b] = tree /\ SourcesVerified
         /\ VerifyCommands(b) => /\ stage[b] = "Commands" /\ stage'[b] = "Library"
                                 /\ seen' = seen
         /\ Preflight(b) \/ VerifyCommands(b) => UNCHANGED treeVars
         /\ UNCHANGED <<flavor, remote, tree, panelVars, order, job, did, procs, cancelled, outbox>>
<1>0. BuildTypeOK /\ TaskHolds(b) /\ CommandHolds(b) /\ EventsHold(b)
  BY DEF BuildCore
<1>1. \E s \in {"Preflight", "Configure", "Library"} :
        /\ Enter(b, s)
        /\ CleanTree(b) => stage[b] = "Clean" /\ s = "Preflight"
        /\ Preflight(b) => stage[b] = "Preflight" /\ s = "Configure"
        /\ VerifyCommands(b) => stage[b] = "Commands" /\ s = "Library"
  BY DEF CleanTree, Preflight, VerifyCommands
<1>2. PICK s \in {"Preflight", "Configure", "Library"} :
        /\ Enter(b, s)
        /\ CleanTree(b) => stage[b] = "Clean" /\ s = "Preflight"
        /\ Preflight(b) => stage[b] = "Preflight" /\ s = "Configure"
        /\ VerifyCommands(b) => stage[b] = "Commands" /\ s = "Library"
  BY <1>1
<1>3. UNCHANGED <<flavor, remote, tree, panelVars, order, job, did, procs, cancelled, outbox>>
  BY DEF CleanTree, Preflight, VerifyCommands, treeVars
<1>4. /\ CleanTree(b) \/ VerifyCommands(b) => seen' = seen
      /\ Preflight(b) => seen' = [seen EXCEPT ![b] = tree] /\ SourcesVerified
      /\ Preflight(b) \/ VerifyCommands(b) => UNCHANGED treeVars
  BY DEF CleanTree, Preflight, VerifyCommands
<1>5. cache' \in {cache, NoBuild} /\ binary' \in {binary, NoBuild}
  BY <1>4 DEF CleanTree, treeVars
<1>6. stage[b] \in {"Clean", "Preflight", "Commands"} /\ ~TaskEnded(b) /\ tree \in Commit
  BY <1>0, <1>2 DEF TaskEnded, EndStage, TaskHolds
<1>7. s \in TaskStage
  BY DEF TaskStage, Streamed
<1>8. seen' \in [BuildId -> Commit \union {NoBuild}]
  BY <1>0, <1>4 DEF BuildTypeOK
<1>9. BuildTypeOK'
  BY <1>0, <1>2, <1>3, <1>5, <1>7, <1>8, EnteredTask, NothingTyped DEF BuildTypeOK, panelVars
<1>10. \A c \in BuildId \ {b} : seen'[c] = seen[c]
  BY <1>0, <1>4 DEF BuildTypeOK
<1>11. \A c \in BuildId \ {b} : SameTask(c)
  BY <1>0, <1>2, <1>3, <1>7, <1>10, EnteredTask DEF SameTask
<1>12. stage'[b] = s /\ command'[b] = "no"
  BY <1>0, <1>2, <1>7, EnteredTask
<1>13. command[b] = "no" /\ procs[b] = {}
  BY <1>0, <1>6 DEF BuildTypeOK, Streamed, TaskHolds
<1>14. TaskHolds(b)'
  <2>1. s \in {"Configure", "Library"} => seen'[b] \in Commit
    BY <1>0, <1>2, <1>4, <1>6 DEF TaskHolds, BuiltStage, BuildTypeOK
  <2> QED  BY <1>0, <1>3, <1>6, <1>12, <1>13, <2>1 DEF TaskHolds, TaskEnded, EndStage, BuiltStage
<1>15. CommandHolds(b)'
  BY <1>3, <1>12, <1>13 DEF CommandHolds
<1>16. EventsHold(b)'
  BY <1>0, <1>3, <1>6, <1>12 DEF EventsHold, TaskEnded
<1>17. record' = record
  BY <1>3 DEF panelVars
<1>18. BuildCore'
  BY <1>3, <1>9, <1>11, <1>14, <1>15, <1>16, <1>17, CoreByTask
<1> QED  BY <1>0, <1>2, <1>3, <1>4, <1>11, <1>12, <1>18 DEF BuildTypeOK

LEMMA EffectTyped ==
  ASSUME BuildCore, NEW b \in BuildId, procs[b] # {}, Effect(b)
  PROVE  /\ tree' \in Commit \union {NoBuild} /\ (tree \in Commit => tree' \in Commit)
         /\ cache' \in BuildConfig \union {NoBuild} /\ binary' \in Binary
         /\ job[b].does = "Repo" => tree' \in Commit
         /\ job[b].does \in {"Configure", "Compile"} => tree' = tree
         /\ job[b].does = "Configure" => cache' = job[b].config
         /\ job[b].does = "Compile" => cache' = cache /\ binary' = [commit |-> tree, config |-> cache]
<1>0. /\ BuildTypeOK /\ job[b] \in Job
      /\ job[b].does # "Repo" => tree \in Commit
      /\ job[b].does = "Checkout" => job[b].ref \in Commit
  BY DEF BuildCore, CommandHolds
<1>1. job[b].does \in Streamed /\ job[b].config \in BuildConfig
  BY <1>0 DEF Job
<1>2. CASE job[b].does = "Repo"
  <2>1. tree' = remote /\ UNCHANGED <<cache, binary>>
    BY <1>2 DEF Effect
  <2> QED  BY <1>0, <1>2, <2>1 DEF BuildTypeOK
<1>3. CASE job[b].does = "Fetch"
  <2>1. UNCHANGED <<tree, cache, binary>>
    BY <1>3 DEF Effect
  <2> QED  BY <1>0, <1>3, <2>1 DEF BuildTypeOK
<1>4. CASE job[b].does = "Checkout"
  <2>1. tree' = job[b].ref /\ UNCHANGED <<cache, binary>>
    BY <1>4 DEF Effect
  <2> QED  BY <1>0, <1>4, <2>1 DEF BuildTypeOK
<1>5. CASE job[b].does = "Configure"
  <2>1. cache' = job[b].config /\ UNCHANGED <<tree, binary>>
    BY <1>5 DEF Effect
  <2> QED  BY <1>0, <1>1, <1>5, <2>1 DEF BuildTypeOK
<1>6. CASE job[b].does = "Compile"
  <2>1. /\ cache # NoBuild /\ binary' = [commit |-> tree, config |-> cache]
        /\ UNCHANGED <<tree, cache>>
    BY <1>6 DEF Effect
  <2>2. binary' \in Binary
    BY <1>0, <1>6, <2>1 DEF BuildTypeOK, Binary
  <2> QED  BY <1>0, <1>6, <2>1, <2>2 DEF BuildTypeOK
<1> QED  BY <1>1, <1>2, <1>3, <1>4, <1>5, <1>6 DEF Streamed

LEMMA WorkKeepsCore ==
  ASSUME BuildCore, NEW b \in BuildId, Work(b)
  PROVE  /\ BuildCore'
         /\ \A c \in BuildId \ {b} : SameTask(c)
         /\ procs[b] # {} /\ Effect(b)
         /\ UNCHANGED <<flavor, remote, panelVars, order, stage, command, job, procs,
                        cancelled, seen, outbox>>
<1>0. BuildTypeOK /\ TaskHolds(b) /\ CommandHolds(b) /\ EventsHold(b)
  BY DEF BuildCore
<1>1. /\ procs[b] # {} /\ Effect(b) /\ did' = [did EXCEPT ![b] = TRUE]
      /\ UNCHANGED <<flavor, remote, panelVars, order, stage, command, job, procs,
                     cancelled, seen, outbox>>
  BY DEF Work
<1>2. /\ tree' \in Commit \union {NoBuild} /\ (tree \in Commit => tree' \in Commit)
      /\ cache' \in BuildConfig \union {NoBuild} /\ binary' \in Binary
      /\ job[b].does = "Repo" => tree' \in Commit
  BY <1>1, EffectTyped
<1>3. BuildTypeOK'
  BY <1>0, <1>1, <1>2 DEF BuildTypeOK, panelVars
<1>4. \A c \in BuildId \ {b} : SameTask(c)
  BY <1>0, <1>1 DEF SameTask, BuildTypeOK
<1>5. TaskHolds(b)'
  BY <1>0, <1>1, <1>2 DEF TaskHolds, TaskEnded
<1>6. CommandHolds(b)'
  BY <1>0, <1>1, <1>2 DEF CommandHolds
<1>7. EventsHold(b)'
  BY <1>0, <1>1 DEF EventsHold, TaskEnded
<1>8. flavor' = flavor /\ record' = record
  BY <1>1 DEF panelVars
<1> QED  BY <1>1, <1>2, <1>3, <1>4, <1>5, <1>6, <1>7, <1>8, CoreByTask

LEMMA StepKeepsCore ==
  ASSUME BuildCore, BuildNext
  PROVE  BuildCore'
<1>1. ASSUME NEW b \in BuildId, BuildStep(b)
      PROVE  BuildCore'
  BY <1>1, StartKeepsCore, ReceiveKeepsCore, EndsKeepCore, BeginKeepsCore, CommandKeepsCore,
     PanicKeepsCore, SucceedKeepsCore, PlainKeepsCore, WorkKeepsCore
     DEF BuildStep, TaskGoes, Ends
<1> QED  BY <1>1, CancelKeepsCore, QuitKeepsCore, UpstreamKeepsCore DEF BuildNext

LEMMA InitCore == BuildInit => BuildCore
<1> SUFFICES ASSUME BuildInit PROVE BuildCore
  OBVIOUS
<1>1. /\ remote \in Commit /\ 1 \in Commit
  BY BuildAssumption DEF BuildInit, Commit
<1>2. /\ tree \in Commit \union {NoBuild} /\ cache \in BuildConfig \union {NoBuild}
      /\ binary \in Binary /\ record \in Record
      /\ flavor # "Prism" => record.attested = NoBuild
  <2>1. CASE tree = NoBuild /\ cache = NoBuild /\ binary = NoBuild /\ record = NoRecord
    BY <2>1, NothingTyped
  <2>2. CASE /\ tree = 1 /\ cache \in BuildConfig /\ binary = [commit |-> 1, config |-> cache]
             /\ record = [commit |-> 1, config |-> cache, hashed |-> TRUE,
                          attested |-> IF flavor = "Prism" THEN binary ELSE NoBuild]
    <3>1. binary \in Binary
      BY <1>1, <2>2 DEF Binary
    <3>2. record \in Record
      BY <1>1, <2>2, <3>1, NothingTyped DEF Record
    <3> QED  BY <1>1, <2>2, <3>1, <3>2
  <2> QED  BY <2>1, <2>2 DEF BuildInit
<1>3. BuildTypeOK
  <2>1. /\ order \in [BuildId -> Order] /\ job \in [BuildId -> Job \union {NoBuild}]
        /\ seen \in [BuildId -> Commit \union {NoBuild}] /\ outbox \in [BuildId -> Seq(BuildEvent)]
    BY NothingTyped DEF BuildInit
  <2>2. /\ stage \in [BuildId -> TaskStage \union EndStage]
        /\ command \in [BuildId -> {"no", "streaming", "waiting", "stopping"}]
        /\ did \in [BuildId -> BOOLEAN] /\ procs \in [BuildId -> SUBSET {"leader", "rest"}]
        /\ cancelled \in [BuildId -> BOOLEAN]
        /\ \A b \in BuildId : command[b] # "no" => stage[b] \in Streamed
    BY DEF BuildInit, EndStage
  <2>3. /\ flavor \in {"Upstream", "Prism"} /\ sender = NoBuild
        /\ overlapped \in BOOLEAN /\ dirty \in BOOLEAN /\ quits \in Nat
    BY DEF BuildInit
  <2> QED  BY <1>1, <1>2, <2>1, <2>2, <2>3 DEF BuildTypeOK
<1>4. \A b \in BuildId : TaskHolds(b) /\ CommandHolds(b) /\ EventsHold(b)
  BY DEF BuildInit, TaskHolds, CommandHolds, EventsHold, TaskEnded, EndStage, BuiltStage
<1> QED  BY <1>2, <1>3, <1>4 DEF BuildCore

--------------------------------------------------------------------------------
(* Every step keeps the part that holds while builds do not overlap. *)

LEMMA OthersSettled ==
  ASSUME Alone, NEW b \in BuildId, ~BuildSettled(b)
  PROVE  \A c \in BuildId \ {b} : BuildSettled(c)
  BY DEF Alone

\* A step of the one build that is not settled keeps the invariant, if it does so
\* for that build and for the record.
LEMMA AloneByTask ==
  ASSUME AloneInv, NEW b \in BuildId, ~BuildSettled(b),
         \A c \in BuildId \ {b} : SameTask(c),
         TreeFollows(b)', CompletedHolds(b)', EndHolds(b)',
         TaskEnded(b)' \/ sender' = b \/ cancelled'[b],
         RecordCurrent', AttestedHolds'
  PROVE  AloneInv'
<1>1. \A c \in BuildId \ {b} : BuildSettled(c)' /\ TaskEnded(c)'
  BY OthersSettled DEF AloneInv, SameTask, BuildSettled, TaskEnded
<1>2. \A c \in BuildId \ {b} : TreeFollows(c)'
  BY <1>1 DEF TreeFollows, TaskEnded, EndStage, BuiltStage
<1>3. \A c \in BuildId \ {b} : CompletedHolds(c)' /\ EndHolds(c)'
  BY <1>1 DEF CompletedHolds, EndHolds, BuildSettled
<1>4. Alone'
  BY <1>1 DEF Alone
<1> QED  BY <1>1, <1>2, <1>3, <1>4 DEF AloneInv

LEMMA Unattested ==
  ASSUME AloneInv, NEW b \in BuildId, ~BuildSettled(b)
  PROVE  record.attested = NoBuild
  BY DEF AloneInv, AttestedHolds

\* The same for a step of a build whose task goes on.
LEMMA AloneByRunning ==
  ASSUME AloneInv, NEW b \in BuildId, ~TaskEnded(b), ~TaskEnded(b)', stage'[b] # "Decide",
         \A c \in BuildId \ {b} : SameTask(c),
         EventsHold(b)', sender' = sender, cancelled'[b] = cancelled[b], record' = record,
         TreeFollows(b)'
  PROVE  AloneInv'
<1>1. ~BuildSettled(b) /\ ~BuildSettled(b)'
  BY DEF BuildSettled
<1>2. CompletedHolds(b)'
  BY DEF EventsHold, CompletedHolds
<1>3. EndHolds(b)'
  BY DEF EndHolds
<1>4. TaskEnded(b)' \/ sender' = b \/ cancelled'[b]
  BY DEF AloneInv
<1>5. ~Untouched(b)'
  BY <1>1 DEF Untouched, EventsHold
<1>6. RecordCurrent'
  BY <1>5 DEF RecordCurrent
<1>7. AttestedHolds'
  BY <1>1, Unattested DEF AttestedHolds
<1> QED  BY <1>1, <1>2, <1>3, <1>4, <1>6, <1>7, AloneByTask

LEMMA StartKeepsAlone ==
  ASSUME BuildCore, ~overlapped => AloneInv, ~overlapped', NEW b \in BuildId, StartBuild(b)
  PROVE  AloneInv'
<1>1. /\ ~overlapped /\ \A c \in BuildId : BuildSettled(c)
      /\ sender' = b /\ record' = Invalidated(record)
      /\ UNCHANGED <<treeVars, dirty, procs, outbox>>
  BY DEF StartBuild, BuildCore, BuildTypeOK
<1>2. /\ stage[b] = "Unused" /\ stage'[b] = "Decide" /\ order'[b].record = record'
      /\ \A c \in BuildId \ {b} : SameTask(c)
  BY StartKeepsCore
<1>3. AloneInv
  BY <1>1
<1>4. \A c \in BuildId \ {b} : BuildSettled(c)' /\ TaskEnded(c)'
  BY <1>1, <1>2 DEF SameTask, BuildSettled, TaskEnded
<1>5. \A c \in BuildId \ {b} : TreeFollows(c)' /\ CompletedHolds(c)' /\ EndHolds(c)'
  BY <1>4 DEF TreeFollows, TaskEnded, EndStage, BuiltStage, CompletedHolds, EndHolds, BuildSettled
<1>6. outbox'[b] = <<>> /\ ~TaskEnded(b)'
  BY <1>1, <1>2 DEF BuildSettled, TaskEnded, EndStage
<1>7. TreeFollows(b)' /\ CompletedHolds(b)' /\ EndHolds(b)'
  BY <1>2, <1>6 DEF TreeFollows, BuiltStage, CompletedHolds, EndHolds
<1>8. /\ record'.hashed = record.hashed /\ record'.commit = record.commit
      /\ record'.config = record.config
      /\ record'.attested \in {record.attested, NoBuild}
      /\ flavor = "Prism" => record'.attested = NoBuild
  BY <1>1, InvalidatedTyped DEF BuildCore, BuildTypeOK
<1>9. RecordCurrent'
  <2>1. \A c \in BuildId : Untouched(c)
    BY <1>1 DEF Untouched
  <2> QED  BY <1>1, <1>3, <1>8, <2>1 DEF AloneInv, RecordCurrent, treeVars
<1>10. record'.attested = NoBuild
  BY <1>8 DEF BuildCore
<1>11. AttestedHolds'
  BY <1>10 DEF AttestedHolds
<1>12. Alone'
  BY <1>4 DEF Alone
<1> QED  BY <1>1, <1>4, <1>5, <1>7, <1>9, <1>11, <1>12 DEF AloneInv

LEMMA CancelKeepsAlone ==
  ASSUME BuildCore, AloneInv, CancelBuild
  PROVE  AloneInv'
<1>1. /\ sender \in BuildId /\ cancelled' = [cancelled EXCEPT ![sender] = ~TaskEnded(sender)]
      /\ UNCHANGED <<treeVars, record, dirty, order, stage, command, job, did, procs, seen, outbox>>
  BY DEF CancelBuild, BuildCore, BuildTypeOK
<1>2. \A b \in BuildId : TaskEnded(b)' \/ sender' = b \/ cancelled'[b]
  BY <1>1 DEF AloneInv, TaskEnded, BuildCore, BuildTypeOK
<1>3. Alone' /\ RecordCurrent' /\ AttestedHolds'
  BY <1>1 DEF AloneInv, Alone, RecordCurrent, AttestedHolds, BuildSettled, TaskEnded, Untouched, treeVars
<1>4. \A b \in BuildId : TreeFollows(b)' /\ CompletedHolds(b)' /\ EndHolds(b)'
  BY <1>1 DEF AloneInv, TreeFollows, CompletedHolds, EndHolds, TaskEnded, SourcesVerified, treeVars
<1> QED  BY <1>2, <1>3, <1>4 DEF AloneInv

LEMMA UpstreamKeepsAlone ==
  ASSUME AloneInv, Upstreamed
  PROVE  AloneInv'
<1>1. UNCHANGED <<flavor, tree, cache, binary, panelVars, taskVars>>
  BY DEF Upstreamed
<1>2. \A b \in BuildId : TreeFollows(b)' /\ CompletedHolds(b)' /\ EndHolds(b)'
  BY <1>1 DEF AloneInv, TreeFollows, CompletedHolds, EndHolds, TaskEnded, SourcesVerified,
              panelVars, taskVars
<1> QED  BY <1>1, <1>2 DEF AloneInv, Alone, RecordCurrent, AttestedHolds, BuildSettled, TaskEnded,
                           Untouched, panelVars, taskVars

LEMMA QuitKeepsAlone ==
  ASSUME BuildCore, AloneInv, QuitPanel
  PROVE  AloneInv'
<1>1. /\ dirty' = (dirty \/ \E b \in BuildId : ~TaskEnded(b) \/ outbox[b] # <<>>)
      /\ stage' = [b \in BuildId |-> IF TaskEnded(b) THEN stage[b] ELSE "Done"]
      /\ outbox' = [b \in BuildId |-> <<>>]
      /\ UNCHANGED <<treeVars, record, procs>>
  BY DEF QuitPanel
<1>2. \A b \in BuildId : TaskEnded(b)' /\ outbox'[b] = <<>>
  BY <1>1 DEF TaskEnded, EndStage
<1>3. \A b \in BuildId : BuildSettled(b) => BuildSettled(b)'
  BY <1>1, <1>2 DEF BuildSettled
<1>4. \A b \in BuildId : TreeFollows(b)' /\ CompletedHolds(b)'
  BY <1>2 DEF TreeFollows, CompletedHolds, TaskEnded, EndStage, BuiltStage
<1>5. dirty' \/ \A b \in BuildId : BuildSettled(b)
  <2> SUFFICES ASSUME ~dirty', NEW b \in BuildId PROVE BuildSettled(b)
    OBVIOUS
  <2>1. ~dirty /\ TaskEnded(b) /\ outbox[b] = <<>>
    BY <1>1
  <2>2. procs[b] = {}
    BY <2>1 DEF AloneInv, EndHolds
  <2> QED  BY <2>1, <2>2 DEF BuildSettled
<1>6. ~dirty' => ~dirty
  BY <1>1
<1>7. \A b \in BuildId : EndHolds(b)'
  BY <1>2, <1>3, <1>5 DEF EndHolds, BuildSettled
<1>8. RecordCurrent'
  BY <1>1, <1>5, <1>6 DEF AloneInv, RecordCurrent, Untouched, treeVars
<1>9. AttestedHolds'
  BY <1>1, <1>3 DEF AloneInv, AttestedHolds, treeVars
<1>10. Alone'
  BY <1>3 DEF AloneInv, Alone
<1> QED  BY <1>2, <1>4, <1>7, <1>8, <1>9, <1>10 DEF AloneInv

LEMMA ReceiveKeepsAlone ==
  ASSUME BuildCore, AloneInv, NEW b \in BuildId, ReceiveBuildEvent(b)
  PROVE  AloneInv'
<1> DEFINE e == Head(outbox[b])
           n == Len(outbox[b])
<1>0. /\ BuildTypeOK /\ EventsHold(b) /\ TreeFollows(b) /\ CompletedHolds(b) /\ EndHolds(b)
      /\ RecordCurrent /\ record \in Record
  BY DEF BuildCore, AloneInv, BuildTypeOK
<1>1. /\ outbox[b] # <<>> /\ outbox' = [outbox EXCEPT ![b] = Tail(@)]
      /\ record' = Recorded(record, e)
      /\ sender' = IF e.kind = "Started" THEN sender ELSE NoBuild
      /\ UNCHANGED <<treeVars, order, stage, command, job, did, procs, cancelled, seen>>
  BY DEF ReceiveBuildEvent, KeepsSender
<1>2. /\ e.kind = "Completed" => ~dirty'
      /\ e.kind = "Failed" => dirty'
      /\ e.kind \notin {"Completed", "Failed"} => dirty' = dirty
  BY DEF ReceiveBuildEvent
<1>3. /\ e \in BuildEvent /\ e = outbox[b][1] /\ 1 \in DOMAIN outbox[b]
      /\ n = Len(outbox'[b]) + 1 /\ Len(outbox'[b]) \in Nat
      /\ (n = 1 <=> outbox'[b] = <<>>)
      /\ \A i \in DOMAIN outbox'[b] :
           i + 1 \in DOMAIN outbox[b] /\ outbox'[b][i] = outbox[b][i + 1]
      /\ \A i \in DOMAIN outbox[b] : i # 1 => i - 1 \in DOMAIN outbox'[b]
      /\ outbox'[b] \in Seq(BuildEvent)
  BY <1>0, <1>1, TailTaken
<1>4. e.kind \in {"Started", "Failed", "Cancelled", "Skipped", "Completed"}
  BY <1>3, EventKinds
<1>5. \A c \in BuildId \ {b} : SameTask(c)
  BY ReceiveKeepsCore
<1>6. ~BuildSettled(b) /\ stage[b] # "Decide"
  BY <1>0, <1>1, <1>3 DEF BuildSettled, EventsHold
<1>7. e.kind # "Started" => n = 1 /\ TaskEnded(b)
  BY <1>0, <1>3 DEF EventsHold
<1>8. e.kind \in {"Completed", "Skipped", "Cancelled"} => procs[b] = {}
  BY <1>0, <1>3 DEF EventsHold
<1>9. /\ e.kind # "Completed" => record'.attested \in {record.attested, NoBuild}
      /\ e.kind # "Completed" => record'.commit = record.commit /\ record'.config = record.config
      /\ e.kind \in {"Started", "Failed", "Skipped"} => record'.hashed = record.hashed
      /\ e.kind = "Cancelled" => ~record'.hashed
      /\ e.kind = "Completed" =>
           /\ record'.commit = e.commit /\ record'.config = e.config
           /\ record'.attested = IF flavor = "Prism" THEN e.measured ELSE NoBuild
  BY <1>0, <1>1, <1>3, RecordedTyped
<1>10. e.kind = "Completed" =>
         /\ binary = [commit |-> e.commit, config |-> e.config] /\ e.measured = binary
         /\ flavor = "Prism" => e.commit \in PrismCommit
  BY <1>0, <1>3 DEF CompletedHolds
<1>11. /\ TaskEnded(b)' = TaskEnded(b) /\ procs'[b] = procs[b] /\ stage'[b] = stage[b]
       /\ UNCHANGED <<flavor, tree, cache, binary>>
  BY <1>1 DEF TaskEnded, treeVars
<1> HIDE DEF e, n
<1>12. TreeFollows(b)'
  BY <1>0, <1>1, <1>6, <1>11 DEF TreeFollows, SourcesVerified
<1>13. CompletedHolds(b)'
  BY <1>0, <1>3, <1>11 DEF CompletedHolds
<1>14. outbox'[b] # <<>> => outbox'[b][Len(outbox'[b])] = outbox[b][n] /\ outbox[b] # <<>>
  <2> SUFFICES ASSUME outbox'[b] # <<>> PROVE outbox'[b][Len(outbox'[b])] = outbox[b][n]
    BY <1>1
  <2>1. Len(outbox'[b]) \in DOMAIN outbox'[b]
    BY <1>3, EmptySeq, LenProperties
  <2> QED  BY <1>3, <2>1
<1>15. EndHolds(b)'
  <2> SUFFICES ASSUME TaskEnded(b), ~dirty'
               PROVE  /\ outbox'[b] # <<>> => outbox'[b][Len(outbox'[b])].kind # "Started"
                      /\ procs[b] # {} => \E i \in DOMAIN outbox'[b] : outbox'[b][i].kind = "Failed"
    BY <1>11 DEF EndHolds
  <2>1. CASE e.kind = "Completed"
    BY <1>3, <1>7, <1>8, <2>1
  <2>2. CASE e.kind # "Completed"
    <3>1. ~dirty /\ e.kind # "Failed"
      BY <1>2, <1>4, <2>2
    <3>2. /\ outbox[b][n].kind # "Started"
          /\ procs[b] # {} => \E i \in DOMAIN outbox[b] : outbox[b][i].kind = "Failed"
      BY <1>0, <1>1, <3>1 DEF EndHolds, n
    <3>3. procs[b] # {} => \E i \in DOMAIN outbox'[b] : outbox'[b][i].kind = "Failed"
      <4> SUFFICES ASSUME procs[b] # {}
                   PROVE  \E i \in DOMAIN outbox'[b] : outbox'[b][i].kind = "Failed"
        OBVIOUS
      <4>1. PICK i \in DOMAIN outbox[b] : outbox[b][i].kind = "Failed"
        BY <3>2
      <4>2. i # 1 /\ i \in Nat
        <5>1. outbox[b] \in Seq(BuildEvent)
          BY <1>0 DEF BuildTypeOK
        <5> QED  BY <1>3, <3>1, <4>1, <5>1, LenProperties
      <4>3. i - 1 \in DOMAIN outbox'[b] /\ i - 1 + 1 = i
        BY <1>3, <4>2
      <4> QED  BY <1>3, <4>1, <4>3
    <3> QED  BY <1>14, <3>2, <3>3
  <2> QED  BY <2>1, <2>2
<1>16. TaskEnded(b)' \/ sender' = b \/ cancelled'[b]
  BY <1>1, <1>7, <1>11 DEF AloneInv
<1>17. RecordCurrent'
  <2> SUFFICES ASSUME ~dirty', record'.hashed, \A c \in BuildId : Untouched(c)'
               PROVE  binary = [commit |-> record'.commit, config |-> record'.config]
    BY <1>11 DEF RecordCurrent
  <2>1. \A c \in BuildId \ {b} : Untouched(c)
    BY <1>6, OthersSettled DEF AloneInv, Untouched
  <2>2. CASE e.kind = "Completed"
    BY <1>9, <1>10, <2>2
  <2>3. CASE e.kind = "Skipped"
    <3>1. Untouched(b)
      BY <1>3, <2>3 DEF Untouched
    <3>2. ~dirty
      BY <1>2, <2>3
    <3>3. record.hashed /\ record'.commit = record.commit /\ record'.config = record.config
      BY <1>9, <2>3
    <3>4. \A c \in BuildId : Untouched(c)
      BY <2>1, <3>1
    <3> QED  BY <1>0, <3>2, <3>3, <3>4 DEF RecordCurrent
  <2>4. CASE e.kind = "Started"
    <3>1. ~dirty
      BY <1>2, <2>4
    <3>2. ~BuildSettled(b)'
      <4> SUFFICES ASSUME outbox'[b] = <<>>, TaskEnded(b) PROVE FALSE
        BY <1>11 DEF BuildSettled
      <4>1. outbox[b][n].kind = "Started"
        BY <1>3, <2>4
      <4> QED  BY <1>0, <1>1, <3>1, <4>1 DEF EndHolds, n
    <3>3. PICK i \in DOMAIN outbox'[b] : outbox'[b][i].kind = "Skipped"
      BY <1>6, <1>11, <3>2 DEF Untouched
    <3>4. Untouched(b)
      BY <1>3, <3>3 DEF Untouched
    <3> QED  BY <1>0, <1>9, <2>1, <2>4, <3>1, <3>4 DEF RecordCurrent
  <2> QED  BY <1>2, <1>4, <1>9, <2>2, <2>3, <2>4
<1>18. AttestedHolds'
  <2>1. record.attested = NoBuild
    BY <1>6, Unattested
  <2> SUFFICES ASSUME record'.attested # NoBuild
               PROVE  /\ \A c \in BuildId : BuildSettled(c)'
                      /\ binary = [commit |-> record'.commit, config |-> record'.config]
                      /\ binary = record'.attested
                      /\ record'.commit \in PrismCommit
    BY <1>11 DEF AttestedHolds
  <2>2. e.kind = "Completed" /\ flavor = "Prism"
    BY <1>9, <2>1
  <2>3. BuildSettled(b)'
    BY <1>3, <1>7, <1>8, <1>11, <2>2 DEF BuildSettled
  <2>4. \A c \in BuildId \ {b} : BuildSettled(c)'
    BY <1>5, <1>6, OthersSettled DEF AloneInv, SameTask, BuildSettled, TaskEnded
  <2> QED  BY <1>9, <1>10, <2>2, <2>3, <2>4
<1> QED  BY <1>5, <1>6, <1>12, <1>13, <1>15, <1>16, <1>17, <1>18, AloneByTask

LEMMA EndsKeepAlone ==
  ASSUME BuildCore, AloneInv, NEW b \in BuildId, Ends(b)
  PROVE  AloneInv'
<1>0. BuildTypeOK /\ EventsHold(b) /\ TreeFollows(b) /\ RecordCurrent
  BY DEF BuildCore, AloneInv
<1>1. PICK e \in BuildEvent :
        /\ EndEvent(b, e)
        /\ e.kind = "Completed" =>
             /\ Complete(b)
             /\ e.commit = seen[b] /\ e.config = order[b].config /\ e.measured = binary
        /\ e.kind = "Skipped" => SkipBuild(b)
  <2>1. CASE Complete(b)
    BY <2>1, EndsWithEvent
  <2>2. CASE SkipBuild(b)
    BY <2>2, EndsWithEvent
  <2>3. CASE SpawnCancelled(b) \/ Stopped(b)
    BY <2>3, EndsWithEvent
  <2>4. CASE ReadFails(b) \/ CommandFails(b) \/ StageFails(b)
    BY <2>4, EndsWithEvent
  <2> QED  BY <2>1, <2>2, <2>3, <2>4 DEF Ends
<1>2. /\ ~TaskEnded(b) /\ e.kind # "Started" /\ Gone(b) /\ Emit(b, e)
      /\ e.kind \in {"Completed", "Cancelled", "Skipped"} => procs'[b] = {}
      /\ UNCHANGED <<treeVars, panelVars, job, did>>
      /\ \A c \in BuildId \ {b} : SameTask(c)
  BY <1>1, EndKeepsCore DEF EndEvent, End
<1>3. e.kind \in {"Started", "Failed", "Cancelled", "Skipped", "Completed"}
  BY EventKinds
<1>4. /\ outbox'[b] # <<>> /\ outbox'[b][Len(outbox'[b])] = e /\ Len(outbox'[b]) \in DOMAIN outbox'[b]
      /\ \A i \in DOMAIN outbox'[b] :
           i # Len(outbox'[b]) => i \in DOMAIN outbox[b] /\ outbox'[b][i] = outbox[b][i]
  BY <1>0, <1>2, Appended
<1>5. \A i \in DOMAIN outbox[b] : outbox[b][i].kind = "Started"
  BY <1>0, <1>2 DEF EventsHold
<1>6. \A i \in DOMAIN outbox'[b] : outbox'[b][i].kind # "Started" => outbox'[b][i] = e
  BY <1>4, <1>5
<1>7. stage'[b] = "Done" /\ TaskEnded(b)'
  BY <1>0, <1>2, GoneTask DEF TaskEnded, EndStage
<1>8. ~BuildSettled(b) /\ ~BuildSettled(b)'
  BY <1>2, <1>4 DEF BuildSettled
<1>9. TreeFollows(b)'
  BY <1>7 DEF TreeFollows, BuiltStage
<1>10. e.kind = "Completed" =>
         /\ binary = [commit |-> e.commit, config |-> e.config] /\ e.measured = binary
         /\ flavor = "Prism" => e.commit \in PrismCommit
  <2> SUFFICES ASSUME e.kind = "Completed"
               PROVE  /\ binary = [commit |-> e.commit, config |-> e.config] /\ e.measured = binary
                      /\ flavor = "Prism" => e.commit \in PrismCommit
    OBVIOUS
  <2>1. stage[b] = "Library"
    BY <1>1 DEF Complete
  <2> QED  BY <1>0, <1>1, <2>1 DEF TreeFollows, BuiltStage, SourcesVerified
<1>11. CompletedHolds(b)'
  <2>1. binary' = binary /\ flavor' = flavor
    BY <1>2 DEF treeVars
  <2> QED  BY <1>6, <1>10, <2>1 DEF CompletedHolds
<1>12. EndHolds(b)'
  <2>1. procs'[b] # {} => e.kind = "Failed"
    BY <1>2, <1>3
  <2> QED  BY <1>2, <1>4, <2>1 DEF EndHolds
<1>13. RecordCurrent'
  <2> SUFFICES ASSUME ~dirty, record.hashed, \A c \in BuildId : Untouched(c)'
               PROVE  binary = [commit |-> record.commit, config |-> record.config]
    BY <1>2 DEF RecordCurrent, treeVars, panelVars
  <2>1. \A c \in BuildId \ {b} : Untouched(c)
    BY <1>8, OthersSettled DEF AloneInv, Untouched
  <2>2. SkipBuild(b)
    BY <1>1, <1>6, <1>7, <1>8 DEF Untouched
  <2>3. Untouched(b)
    BY <2>2 DEF SkipBuild, Skips, Untouched
  <2> QED  BY <1>0, <2>1, <2>3 DEF RecordCurrent
<1>14. AttestedHolds'
  <2>1. record'.attested = NoBuild
    BY <1>2, <1>8, Unattested DEF panelVars
  <2> QED  BY <2>1 DEF AttestedHolds
<1> QED  BY <1>2, <1>7, <1>8, <1>9, <1>11, <1>12, <1>13, <1>14, AloneByTask

LEMMA TaskKeepsAlone ==
  ASSUME BuildCore, BuildCore', AloneInv, NEW b \in BuildId,
         BeginBuild(b) \/ Spawn(b) \/ OutputsEnd(b) \/ SeesCancel(b) \/ CommandSucceeds(b)
           \/ CleanTree(b) \/ Preflight(b) \/ VerifyCommands(b)
  PROVE  AloneInv'
<1>0. /\ BuildTypeOK /\ TaskHolds(b) /\ CommandHolds(b) /\ TreeFollows(b) /\ EventsHold(b)'
  BY DEF BuildCore, AloneInv
<1>1. CASE BeginBuild(b)
  <2>1. /\ stage[b] = "Decide" /\ stage'[b] \in {"Repo", "Fetch"}
        /\ \A c \in BuildId \ {b} : SameTask(c)
        /\ UNCHANGED <<panelVars, cancelled>>
    BY <1>1, BeginKeepsCore
  <2>2. TreeFollows(b)'
    BY <2>1 DEF TreeFollows, BuiltStage
  <2>3. ~TaskEnded(b) /\ ~TaskEnded(b)' /\ stage'[b] # "Decide"
    BY <2>1 DEF TaskEnded, EndStage
  <2>4. sender' = sender /\ cancelled'[b] = cancelled[b] /\ record' = record
    BY <2>1 DEF panelVars
  <2> QED  BY <1>0, <2>1, <2>2, <2>3, <2>4, AloneByRunning
<1>2. CASE Spawn(b) \/ OutputsEnd(b) \/ SeesCancel(b)
  <2>1. /\ \A c \in BuildId \ {b} : SameTask(c)
        /\ UNCHANGED <<treeVars, panelVars, order, stage, cancelled, seen>>
    BY <1>2, CommandKeepsCore
  <2>2. /\ stage[b] \in Streamed
        /\ did'[b] => did[b] /\ command[b] # "no"
    BY <1>0, <1>2 DEF Spawn, OutputsEnd, SeesCancel, BuildTypeOK
  <2>3. TreeFollows(b)'
    BY <1>0, <2>1, <2>2 DEF TreeFollows, SourcesVerified, treeVars, panelVars
  <2>4. ~TaskEnded(b) /\ ~TaskEnded(b)' /\ stage'[b] # "Decide"
    BY <2>1, <2>2 DEF TaskEnded, EndStage, Streamed
  <2>5. sender' = sender /\ cancelled'[b] = cancelled[b] /\ record' = record
    BY <2>1 DEF panelVars
  <2> QED  BY <1>0, <2>1, <2>3, <2>4, <2>5, AloneByRunning
<1>3. CASE CommandSucceeds(b)
  <2>1. /\ \A c \in BuildId \ {b} : SameTask(c)
        /\ stage[b] \in Streamed /\ stage'[b] = After(b) /\ command'[b] = "no"
        /\ command[b] # "no" /\ did[b]
        /\ UNCHANGED <<treeVars, panelVars, order, cancelled, seen>>
    BY <1>3, SucceedKeepsCore
  <2>2. /\ stage'[b] \in {"Clean", "Fetch", "Checkout", "Compile", "Commands"}
        /\ stage'[b] = "Compile" => stage[b] = "Configure"
        /\ stage'[b] = "Commands" => stage[b] = "Compile"
    <3>1. CASE stage[b] = "Repo"
      BY <2>1, <3>1 DEF After
    <3>2. CASE stage[b] = "Fetch"
      BY <2>1, <3>2 DEF After
    <3>3. CASE stage[b] = "Checkout"
      BY <2>1, <3>3 DEF After
    <3>4. CASE stage[b] = "Configure"
      BY <2>1, <3>4 DEF After
    <3>5. CASE stage[b] = "Compile"
      BY <2>1, <3>5 DEF After
    <3> QED  BY <2>1, <3>1, <3>2, <3>3, <3>4, <3>5 DEF Streamed
  <2>3. TreeFollows(b)'
    BY <1>0, <2>1, <2>2 DEF TreeFollows, SourcesVerified, BuiltStage, treeVars
  <2>4. ~TaskEnded(b) /\ ~TaskEnded(b)' /\ stage'[b] # "Decide"
    BY <2>1, <2>2 DEF TaskEnded, EndStage, Streamed
  <2>5. sender' = sender /\ cancelled'[b] = cancelled[b] /\ record' = record
    BY <2>1 DEF panelVars
  <2> QED  BY <1>0, <2>1, <2>3, <2>4, <2>5, AloneByRunning
<1>4. CASE CleanTree(b) \/ Preflight(b) \/ VerifyCommands(b)
  <2>1. /\ \A c \in BuildId \ {b} : SameTask(c)
        /\ command'[b] = "no"
        /\ CleanTree(b) => stage[b] = "Clean" /\ stage'[b] = "Preflight"
        /\ Preflight(b) => /\ stage[b] = "Preflight" /\ stage'[b] = "Configure"
                           /\ seen'[b] = tree /\ SourcesVerified
        /\ VerifyCommands(b) => /\ stage[b] = "Commands" /\ stage'[b] = "Library"
                                /\ seen' = seen
        /\ Preflight(b) \/ VerifyCommands(b) => UNCHANGED treeVars
        /\ UNCHANGED <<panelVars, order, cancelled>>
    BY <1>4, PlainKeepsCore
  <2>2. TreeFollows(b)'
    <3>1. CASE CleanTree(b)
      BY <2>1, <3>1 DEF TreeFollows, BuiltStage
    <3>2. CASE Preflight(b)
      BY <2>1, <3>2 DEF TreeFollows, SourcesVerified, BuiltStage, treeVars
    <3>3. CASE VerifyCommands(b)
      BY <1>0, <2>1, <3>3 DEF TreeFollows, SourcesVerified, BuiltStage, treeVars
    <3> QED  BY <1>4, <3>1, <3>2, <3>3
  <2>3. ~TaskEnded(b) /\ ~TaskEnded(b)' /\ stage'[b] # "Decide"
    BY <1>4, <2>1 DEF TaskEnded, EndStage
  <2>4. sender' = sender /\ cancelled'[b] = cancelled[b] /\ record' = record
    BY <2>1 DEF panelVars
  <2> QED  BY <1>0, <2>1, <2>2, <2>3, <2>4, AloneByRunning
<1> QED  BY <1>1, <1>2, <1>3, <1>4

LEMMA PanicKeepsAlone ==
  ASSUME BuildCore, AloneInv, NEW b \in BuildId, LinePanics(b)
  PROVE  AloneInv'
<1>0. EventsHold(b)
  BY DEF BuildCore
<1>1. /\ \A c \in BuildId \ {b} : SameTask(c)
      /\ stage'[b] = "Done" /\ dirty' /\ ~TaskEnded(b)
      /\ UNCHANGED <<record, outbox>>
  BY PanicKeepsCore
<1>2. ~BuildSettled(b) /\ TaskEnded(b)'
  BY <1>1 DEF BuildSettled, TaskEnded, EndStage
<1>3. TreeFollows(b)'
  BY <1>1 DEF TreeFollows, BuiltStage
<1>4. CompletedHolds(b)'
  BY <1>0, <1>1 DEF EventsHold, CompletedHolds
<1>5. EndHolds(b)' /\ RecordCurrent'
  BY <1>1 DEF EndHolds, RecordCurrent
<1>6. record'.attested = NoBuild
  BY <1>1, <1>2, Unattested
<1>7. AttestedHolds'
  BY <1>6 DEF AttestedHolds
<1> QED  BY <1>1, <1>2, <1>3, <1>4, <1>5, <1>7, AloneByTask

LEMMA ProcessKeepsAlone ==
  ASSUME BuildCore, BuildCore', AloneInv, NEW b \in BuildId, Work(b) \/ ProcessEnds(b)
  PROVE  AloneInv'
<1>0. /\ BuildTypeOK /\ TaskHolds(b) /\ CommandHolds(b) /\ EventsHold(b) /\ TreeFollows(b)
      /\ EndHolds(b) /\ EventsHold(b)'
  BY DEF BuildCore, AloneInv
<1>1. /\ procs[b] # {} /\ procs'[b] \subseteq procs[b]
      /\ \A c \in BuildId \ {b} : SameTask(c)
      /\ UNCHANGED <<panelVars, order, stage, command, job, cancelled, seen, outbox, flavor>>
      /\ Work(b) => procs' = procs /\ Effect(b)
      /\ ProcessEnds(b) => UNCHANGED <<treeVars, did>>
  <2>1. CASE Work(b)
    <3>1. ~ProcessEnds(b)
      BY <1>0, <2>1 DEF Work, ProcessEnds, BuildTypeOK
    <3> QED  BY <2>1, <3>1, WorkKeepsCore DEF Work
  <2>2. CASE ProcessEnds(b)
    <3>1. ~Work(b)
      BY <1>0, <2>2 DEF Work, ProcessEnds, BuildTypeOK
    <3>2. procs[b] # {} /\ procs'[b] \subseteq procs[b]
          /\ UNCHANGED <<treeVars, panelVars, order, stage, command, job, did, cancelled, seen, outbox>>
      BY <1>0, <2>2 DEF ProcessEnds, BuildTypeOK
    <3> QED  BY <2>2, <3>1, <3>2, CommandKeepsCore DEF treeVars
  <2> QED  BY <2>1, <2>2
<1>2. ~BuildSettled(b)
  BY <1>1 DEF BuildSettled
<1>3. sender' = sender /\ cancelled'[b] = cancelled[b] /\ record' = record /\ dirty' = dirty
  BY <1>1 DEF panelVars
<1>4. CASE TaskEnded(b)
  <2>1. TaskEnded(b)' /\ stage'[b] \in EndStage /\ stage[b] \in EndStage
    BY <1>1, <1>4 DEF TaskEnded
  <2>2. TreeFollows(b)'
    BY <2>1 DEF TreeFollows, BuiltStage, EndStage
  <2>3. \A i \in DOMAIN outbox[b] : outbox[b][i].kind \notin {"Completed", "Skipped"}
    BY <1>0, <1>1 DEF EventsHold
  <2>4. CompletedHolds(b)'
    BY <1>1, <2>3 DEF CompletedHolds
  <2>5. EndHolds(b)'
    BY <1>0, <1>1, <1>3, <1>4 DEF EndHolds
  <2>6. RecordCurrent'
    <3> SUFFICES ASSUME ~dirty PROVE ~Untouched(b)'
      BY <1>3 DEF RecordCurrent
    <3>1. outbox[b] # <<>>
      BY <1>0, <1>1, <1>4 DEF EndHolds
    <3> QED  BY <1>1, <2>1, <2>3, <3>1 DEF Untouched, BuildSettled, EndStage
  <2>7. record'.attested = NoBuild
    BY <1>2, <1>3, Unattested
  <2>8. AttestedHolds'
    BY <2>7 DEF AttestedHolds
  <2> QED  BY <1>1, <1>2, <2>1, <2>2, <2>4, <2>5, <2>6, <2>8, AloneByTask
<1>5. CASE ~TaskEnded(b)
  <2>1. command[b] # "no" /\ stage[b] \in Streamed /\ job[b].does = stage[b]
        /\ job[b].config = order[b].config
    BY <1>0, <1>1, <1>5 DEF TaskHolds, CommandHolds, BuildTypeOK
  <2>2. TreeFollows(b)'
    <3>1. CASE Work(b)
      <4>1. /\ stage[b] \in {"Configure", "Compile"} => tree' = tree
            /\ stage[b] = "Configure" => cache' = order[b].config
            /\ stage[b] = "Compile" => cache' = cache /\ binary' = [commit |-> tree, config |-> cache]
        BY <1>1, <2>1, <3>1, EffectTyped
      <4> QED  BY <1>0, <1>1, <2>1, <4>1 DEF TreeFollows, SourcesVerified, BuiltStage, Streamed
    <3>2. CASE ProcessEnds(b)
      BY <1>0, <1>1, <1>3, <3>2 DEF TreeFollows, SourcesVerified, treeVars
    <3> QED  BY <3>1, <3>2
  <2>3. ~TaskEnded(b)' /\ stage'[b] # "Decide"
    BY <1>1, <2>1 DEF TaskEnded, EndStage, Streamed
  <2> QED  BY <1>0, <1>1, <1>3, <1>5, <2>2, <2>3, AloneByRunning
<1> QED  BY <1>4, <1>5

LEMMA BuildStepKeeps ==
  ASSUME BuildIInv, BuildNext
  PROVE  BuildIInv'
<1>1. BuildCore /\ BuildCore' /\ (~overlapped => AloneInv)
  BY StepKeepsCore DEF BuildIInv
<1>2. ASSUME ~overlapped', NEW b \in BuildId, StartBuild(b)
      PROVE  AloneInv'
  BY <1>1, <1>2, StartKeepsAlone
<1>3. ASSUME ~overlapped, NEW b \in BuildId, BuildStep(b), ~StartBuild(b)
      PROVE  AloneInv'
  <2>1. AloneInv
    BY <1>1, <1>3
  <2> QED  BY <1>1, <1>3, <2>1, ReceiveKeepsAlone, EndsKeepAlone, TaskKeepsAlone, PanicKeepsAlone,
              ProcessKeepsAlone
              DEF BuildStep, TaskGoes, Ends
<1>4. ASSUME NEW b \in BuildId, BuildStep(b), ~StartBuild(b)
      PROVE  overlapped' = overlapped
  BY <1>4 DEF BuildStep, TaskGoes, ReceiveBuildEvent, SkipBuild, BeginBuild, Spawn, SpawnCancelled,
     SeesCancel, Stopped, CommandSucceeds, CommandFails, CleanTree, Preflight, VerifyCommands,
     Complete, StageFails, OutputsEnd, ReadFails, LinePanics, Work, ProcessEnds, panelVars
<1>5. CancelBuild \/ QuitPanel \/ Upstreamed => overlapped' = overlapped
  BY DEF CancelBuild, QuitPanel, Upstreamed, panelVars
<1>6. CancelBuild \/ QuitPanel \/ Upstreamed => (~overlapped => AloneInv')
  BY <1>1, CancelKeepsAlone, QuitKeepsAlone, UpstreamKeepsAlone
<1>7. ~overlapped' => AloneInv'
  BY <1>2, <1>3, <1>4, <1>5, <1>6 DEF BuildNext
<1> QED  BY <1>1, <1>7 DEF BuildIInv

\* A build rests on what the steps before it have left, and while builds do not
\* overlap, so do the record of the last one and what it attests.
THEOREM BuildIInvCorrect == BuildSpec => []BuildIInv
<1>1. BuildInit => BuildIInv
  <2> SUFFICES ASSUME BuildInit PROVE BuildIInv
    OBVIOUS
  <2>1. BuildCore
    BY InitCore
  <2>2. \A b \in BuildId : stage[b] = "Unused" /\ BuildSettled(b)
    BY DEF BuildInit, BuildSettled, TaskEnded, EndStage
  <2>3. \A b \in BuildId : TreeFollows(b) /\ CompletedHolds(b) /\ EndHolds(b) /\ TaskEnded(b)
    BY <2>2 DEF TreeFollows, CompletedHolds, EndHolds, BuildSettled, BuiltStage
  <2>4. RecordCurrent /\ AttestedHolds
    <3>1. CASE record = NoRecord
      BY <3>1 DEF RecordCurrent, AttestedHolds, NoRecord
    <3>2. CASE /\ binary = [commit |-> 1, config |-> cache]
               /\ flavor = "Prism" => 1 \in PrismCommit
               /\ record = [commit |-> 1, config |-> cache, hashed |-> TRUE,
                            attested |-> IF flavor = "Prism" THEN binary ELSE NoBuild]
      BY <2>2, <3>2 DEF RecordCurrent, AttestedHolds
    <3> QED  BY <3>1, <3>2 DEF BuildInit
  <2> QED  BY <2>1, <2>2, <2>3, <2>4 DEF BuildIInv, AloneInv, Alone
<1>2. BuildIInv /\ [BuildNext]_buildVars => BuildIInv'
  <2> SUFFICES ASSUME BuildIInv, [BuildNext]_buildVars PROVE BuildIInv'
    OBVIOUS
  <2>1. CASE BuildNext
    BY <2>1, BuildStepKeeps
  <2>2. CASE UNCHANGED buildVars
    <3>1. UNCHANGED <<flavor, remote, tree, cache, binary, record, sender, overlapped, dirty, quits,
                      order, stage, command, job, did, procs, cancelled, seen, outbox>>
      BY <2>2 DEF buildVars, treeVars, panelVars, taskVars
    <3>2. BuildCore'
      BY <3>1 DEF BuildIInv, BuildCore, BuildTypeOK, TaskHolds, CommandHolds, EventsHold, TaskEnded
    <3>3. AloneInv => AloneInv'
      <4>1. \A b \in BuildId : TreeFollows(b) => TreeFollows(b)'
        BY <3>1 DEF TreeFollows, SourcesVerified
      <4>2. \A b \in BuildId : CompletedHolds(b) => CompletedHolds(b)'
        BY <3>1 DEF CompletedHolds
      <4>3. \A b \in BuildId : EndHolds(b) => EndHolds(b)'
        BY <3>1 DEF EndHolds, TaskEnded
      <4>4. \A b \in BuildId : (BuildSettled(b) <=> BuildSettled(b)') /\ (Untouched(b) <=> Untouched(b)')
        BY <3>1 DEF BuildSettled, Untouched, TaskEnded
      <4>5. RecordCurrent => RecordCurrent'
        BY <3>1, <4>4 DEF RecordCurrent
      <4>6. AttestedHolds => AttestedHolds'
        BY <3>1, <4>4 DEF AttestedHolds
      <4> QED  BY <3>1, <4>1, <4>2, <4>3, <4>4, <4>5, <4>6 DEF AloneInv, Alone, TaskEnded
    <3> QED  BY <3>1, <3>2, <3>3 DEF BuildIInv
  <2> QED  BY <2>1, <2>2
<1> QED  BY <1>1, <1>2, PTL DEF BuildSpec

\* A build that says it was cancelled has no process left; while builds do not
\* overlap, what is attested of a Prism runtime is what was built and verified, and
\* the build that runs can be cancelled.  For any number of builds, commits and
\* configurations.
THEOREM BuildCorrect == BuildSpec => []BuildInv
<1>1. BuildIInv => BuildInv
  <2> SUFFICES ASSUME BuildIInv PROVE BuildInv
    OBVIOUS
  <2>1. BuildTypeOK
    BY DEF BuildIInv, BuildCore
  <2>2. CancelledIsStopped
    BY DEF CancelledIsStopped, BuildIInv, BuildCore, EventsHold
  <2>3. AttestedAsBuilt
    BY DEF AttestedAsBuilt, BuildIInv, AloneInv, AttestedHolds
  <2>4. Interruptible
    BY DEF Interruptible, BuildIInv, AloneInv
  <2> QED  BY <2>1, <2>2, <2>3, <2>4 DEF BuildInv
<1> QED  BY <1>1, BuildIInvCorrect, PTL

\* A build that is skipped would make the server that is there, unless builds
\* overlapped or one failed or was left since.
THEOREM SkippedIsCurrent == BuildSpec => SkipIsCurrent
<1>1. BuildIInv /\ [BuildNext]_buildVars =>
        [\A b \in BuildId :
           SkipBuild(b) /\ ~overlapped /\ ~dirty =>
             binary = [commit |-> tree, config |-> order[b].config]]_buildVars
  <2> SUFFICES ASSUME BuildIInv, NEW b \in BuildId, SkipBuild(b), ~overlapped, ~dirty
               PROVE  binary = [commit |-> tree, config |-> order[b].config]
    OBVIOUS
  <2>1. AloneInv
    BY DEF BuildIInv
  <2>2. stage[b] = "Decide" /\ FingerprintMatches(b)
    BY DEF SkipBuild, Skips
  <2>3. order[b].record = record
    BY <2>1, <2>2 DEF AloneInv, TreeFollows
  <2>4. record.hashed /\ record.commit = tree /\ record.config = order[b].config
    BY <2>2, <2>3 DEF FingerprintMatches
  <2>5. ~BuildSettled(b)
    BY <2>2 DEF BuildSettled, TaskEnded, EndStage
  <2>6. \A c \in BuildId : Untouched(c)
    BY <2>1, <2>2, <2>5, OthersSettled DEF AloneInv, Untouched
  <2> QED  BY <2>1, <2>4, <2>6 DEF AloneInv, RecordCurrent
<1> QED  BY <1>1, BuildIInvCorrect, PTL DEF BuildSpec, SkipIsCurrent

--------------------------------------------------------------------------------

(* Induction, over sets of numbers in the place of predicates. *)

\* What holds for 0, and for each number up to n if for the one before, holds up to n.
LEMMA HoldsUpTo ==
  ASSUME NEW n \in Nat, NEW P, 0 \in P, \A i \in 1 .. n : i - 1 \in P => i \in P
  PROVE  \A i \in 0 .. n : i \in P
<1> DEFINE R == {ss \in Nat \X Nat : ss[1] < ss[2]}
           Bad == {i \in 0 .. n : i \notin P}
<1>1. R = OpToRel(<, Nat)
  BY DEF OpToRel
<1>2. IsWellFoundedOn(R, Nat)
  BY NatLessThanWellFounded, <1>1
<1> HIDE DEF R
<1>3. SUFFICES ASSUME Bad # {}
               PROVE  FALSE
  OBVIOUS
<1>4. Bad \in SUBSET Nat
  OBVIOUS
<1> HIDE DEF Bad
<1>5. PICK m \in Bad : \A i \in Bad : ~(<<i, m>> \in R)
  BY <1>2, <1>3, <1>4, WFMin
<1>6. m \in 1 .. n /\ m \notin P
  BY DEF Bad
<1>7. m - 1 \in Bad
  BY <1>6 DEF Bad
<1>8. m \in Nat /\ m - 1 \in Nat /\ m - 1 < m
  BY <1>6
<1>9. <<m - 1, m>> \in R
  BY <1>8 DEF R
<1> QED BY <1>5, <1>7, <1>9

\* g begins with b and goes on by advance.
Unfolds(g, n, V, b, advance) ==
  g \in [0 .. n -> V] /\ g[0] = b /\ \A i \in 1 .. n : g[i] = advance[<<g[i - 1], i>>]

\* A recursive function of the numbers up to n is defined.
LEMMA RecursionExists ==
  ASSUME NEW n \in Nat, NEW V, NEW b \in V, NEW advance \in [V \X (1 .. n) -> V]
  PROVE  \E g : Unfolds(g, n, V, b, advance)
<1> DEFINE P == {k \in 0 .. n : \E g : Unfolds(g, k, V, b, advance)}
<1>1. 0 \in P
  <2> DEFINE g == [i \in 0 .. 0 |-> b]
  <2>1. Unfolds(g, 0, V, b, advance)
    BY DEF Unfolds
  <2> QED BY <2>1
<1>2. ASSUME NEW k \in 1 .. n, k - 1 \in P
      PROVE  k \in P
  <2>1. PICK g : Unfolds(g, k - 1, V, b, advance)
    BY <1>2
  <2> DEFINE h == [i \in 0 .. k |-> IF i = k THEN advance[<<g[k - 1], k>>] ELSE g[i]]
  <2>2. g[k - 1] \in V /\ \A i \in 0 .. k - 1 : g[i] \in V
    BY <2>1 DEF Unfolds
  <2>3. advance[<<g[k - 1], k>>] \in V
    BY <2>2
  <2>4. h \in [0 .. k -> V]
    BY <2>2, <2>3
  <2>5. h[0] = b
    BY <2>1 DEF Unfolds
  <2>6. \A i \in 1 .. k : h[i] = advance[<<h[i - 1], i>>]
    <3>1. \A i \in 1 .. k - 1 : h[i] = g[i] /\ h[i - 1] = g[i - 1]
      OBVIOUS
    <3>2. h[k] = advance[<<g[k - 1], k>>] /\ h[k - 1] = g[k - 1]
      OBVIOUS
    <3>3. \A i \in 1 .. k - 1 : g[i] = advance[<<g[i - 1], i>>]
      BY <2>1 DEF Unfolds
    <3> HIDE DEF h
    <3> QED BY <3>1, <3>2, <3>3
  <2>7. Unfolds(h, k, V, b, advance)
    BY <2>4, <2>5, <2>6 DEF Unfolds
  <2> QED BY <2>7
<1> HIDE DEF P
<1>3. n \in P
  BY <1>1, <1>2, HoldsUpTo
<1> QED BY <1>3 DEF P

--------------------------------------------------------------------------------

(* What is read of rocminfo. *)

Device == [target : Nat, vram : Nat]
Reading == [devices : Seq(Device), target : Nat]
Lines == Seq([key : {"Agent", "Name", "Marketing Name", "Isa"}, value : Nat])

NamesTarget(l) == l.key = "Name" /\ l.value \in GfxTarget

\* The targets of the devices read so far.
TargetsOf(s) == DeviceTargets(s.devices) \union ({s.target} \ {0})

LEMMA NormalizedTarget ==
  ASSUME NEW t \in GfxTarget
  PROVE  NormalizeTarget(t) \in Nat \ {0}
BY DEF GfxTarget, NormalizeTarget

LEMMA TargetsAppended ==
  ASSUME NEW d \in Seq(Device), NEW x \in Device
  PROVE  DeviceTargets(Append(d, x)) = DeviceTargets(d) \union ({x.target} \ {0})
<1> DEFINE e == Append(d, x)
<1>1. Len(d) \in Nat /\ DOMAIN d = 1 .. Len(d) /\ DOMAIN e = 1 .. Len(d) + 1
  OBVIOUS
<1>2. e[Len(d) + 1] = x /\ \A i \in 1 .. Len(d) : e[i] = d[i]
  OBVIOUS
<1> HIDE DEF e
<1>3. \A i \in DOMAIN e : i \in DOMAIN d \/ i = Len(d) + 1
  BY <1>1
<1>4. \A i \in DOMAIN d : i \in DOMAIN e /\ e[i] = d[i]
  BY <1>1, <1>2
<1>5. Len(d) + 1 \in DOMAIN e
  BY <1>1
<1>6. {e[i].target : i \in DOMAIN e} = {d[i].target : i \in DOMAIN d} \union {x.target}
  <2>1. ASSUME NEW i \in DOMAIN e
        PROVE  e[i].target \in {d[j].target : j \in DOMAIN d} \union {x.target}
    BY <1>2, <1>3, <1>4
  <2>2. ASSUME NEW i \in DOMAIN d
        PROVE  d[i].target \in {e[j].target : j \in DOMAIN e}
    BY <1>4
  <2>3. x.target \in {e[j].target : j \in DOMAIN e}
    BY <1>2, <1>5
  <2> QED BY <2>1, <2>2, <2>3
<1> QED BY <1>6 DEF DeviceTargets, e

LEMMA FlushKeeps ==
  ASSUME NEW s \in Reading
  PROVE  Flush(s) \in Reading /\ Flush(s).target = 0 /\ TargetsOf(Flush(s)) = TargetsOf(s)
<1>1. s.devices \in Seq(Device) /\ s.target \in Nat
  BY DEF Reading
<1>2. CASE s.target = 0
  BY <1>2 DEF Flush
<1>3. CASE s.target # 0
  <2> DEFINE d == [target |-> s.target, vram |-> 0]
  <2>1. d \in Device /\ d.target = s.target
    BY <1>1 DEF Device
  <2> HIDE DEF d
  <2>2. Append(s.devices, d) \in Seq(Device)
    BY <1>1, <2>1
  <2>3. Flush(s) = [devices |-> Append(s.devices, d), target |-> 0]
    BY <1>3 DEF Flush, d
  <2>4. DeviceTargets(Append(s.devices, d)) = DeviceTargets(s.devices) \union ({s.target} \ {0})
    BY <1>1, <2>1, TargetsAppended
  <2>5. Flush(s) \in Reading /\ Flush(s).target = 0
    BY <2>2, <2>3 DEF Reading
  <2>6. TargetsOf(Flush(s)) = DeviceTargets(Append(s.devices, d)) \union ({0} \ {0})
    BY <2>3 DEF TargetsOf
  <2> QED BY <2>4, <2>5, <2>6 DEF TargetsOf
<1> QED BY <1>2, <1>3

LEMMA ReadLineTyped ==
  ASSUME NEW s \in Reading, NEW l, l.value \in Nat
  PROVE  ReadLine(s, l) \in Reading
<1>1. CASE l.key = "Agent"
  BY <1>1, FlushKeeps DEF ReadLine
<1>2. CASE NamesTarget(l)
  <2>1. ReadLine(s, l) = [s EXCEPT !.target = NormalizeTarget(l.value)]
    BY <1>2 DEF ReadLine, NamesTarget
  <2>2. NormalizeTarget(l.value) \in Nat
    BY <1>2, NormalizedTarget DEF NamesTarget
  <2> QED BY <2>1, <2>2 DEF Reading
<1>3. CASE l.key # "Agent" /\ ~NamesTarget(l)
  BY <1>3 DEF ReadLine, NamesTarget
<1> QED BY <1>1, <1>2, <1>3

\* The devices have the targets of the agents that are named by one, and a memory that
\* is not known yet.
LEMMA DevicesRead ==
  ASSUME NEW lines \in Lines, NamesItsTargets(lines)
  PROVE  /\ RocmDevices(lines) \in Seq(Device)
         /\ DeviceTargets(RocmDevices(lines)) =
              {NormalizeTarget(lines[i].value) : i \in {j \in DOMAIN lines : NamesTarget(lines[j])}}
<1> DEFINE n == Len(lines)
           start == [devices |-> <<>>, target |-> 0]
           Reads_(g) == g = [m \in 0 .. Len(lines) |-> IF m = 0 THEN [devices |-> <<>>, target |-> 0]
                                                      ELSE ReadLine(g[m - 1], lines[m])]
           after == CHOOSE g : Reads_(g)
           advance == [p \in Reading \X (1 .. n) |-> ReadLine(p[1], lines[p[2]])]
           Named(m) == {j \in 1 .. m : NamesTarget(lines[j])}
           Seen(m) == {NormalizeTarget(lines[i].value) : i \in Named(m)}
           Good(m) == /\ after[m] \in Reading
                      /\ TargetsOf(after[m]) = Seen(m)
                      /\ after[m].target # 0 =>
                           \E j \in Named(m) : \A k \in j + 1 .. m : lines[k].key # "Agent"
           P == {m \in 0 .. n : Good(m)}
<1>1. RocmDevices(lines) = Flush(after[n]).devices
  BY DEF RocmDevices
<1>2. n \in Nat /\ DOMAIN lines = 1 .. n
  BY LenProperties DEF Lines
<1>3. \A i \in 1 .. n : lines[i].value \in Nat
  <2> DEFINE L == [key : {"Agent", "Name", "Marketing Name", "Isa"}, value : Nat]
  <2>1. \A i \in 1 .. n : lines[i] \in L
    <3>1. lines \in Seq(L) /\ \A i \in 1 .. n : i \in DOMAIN lines
      BY <1>2 DEF Lines
    <3> HIDE DEF L, n
    <3> QED BY <1>2, <3>1, ElementOfSeq
  <2> HIDE DEF n
  <2> QED BY <2>1
<1>4. start \in Reading /\ TargetsOf(start) = {}
  <2>1. <<>> \in Seq(Device)
    BY EmptySeq
  <2> QED BY <2>1 DEF Reading, TargetsOf, DeviceTargets
<1> HIDE DEF n
<1>5. advance \in [Reading \X (1 .. n) -> Reading]
  <2>1. ASSUME NEW p \in Reading \X (1 .. n)
        PROVE  ReadLine(p[1], lines[p[2]]) \in Reading
    BY <1>3, ReadLineTyped
  <2> QED BY <2>1
<1>6. PICK g : Unfolds(g, n, Reading, start, advance)
  <2> HIDE DEF advance, start, P, after, Seen, Named
  <2> QED BY <1>2, <1>4, <1>5, RecursionExists
<1>7. Reads_(g)
  <2>1. g \in [0 .. n -> Reading] /\ g[0] = start /\ \A i \in 1 .. n : g[i] = advance[<<g[i - 1], i>>]
    BY <1>6 DEF Unfolds
  <2>2. \A i \in 1 .. n : advance[<<g[i - 1], i>>] = ReadLine(g[i - 1], lines[i])
    <3>1. \A i \in 1 .. n : g[i - 1] \in Reading
      BY <1>2, <2>1
    <3> QED BY <3>1
  <2>3. \A m \in 0 .. n : m # 0 => m \in 1 .. n
    BY <1>2
  <2> HIDE DEF advance
  <2>4. g = [m \in 0 .. n |-> IF m = 0 THEN start ELSE ReadLine(g[m - 1], lines[m])]
    BY <2>1, <2>2, <2>3
  <2> QED BY <2>4 DEF n
<1>8. Reads_(after)
  <2> HIDE DEF Reads_
  <2> QED BY <1>7
<1>9. after[0] = start /\ \A m \in 1 .. n : after[m] = ReadLine(after[m - 1], lines[m])
  <2> HIDE DEF after
  <2>1. after = [m \in 0 .. n |-> IF m = 0 THEN start ELSE ReadLine(after[m - 1], lines[m])]
    BY <1>8 DEF n
  <2> QED BY <1>2, <2>1
<1> HIDE DEF after
<1>10. 0 \in P
  <2>1. Seen(0) = {}
    OBVIOUS
  <2> QED BY <1>2, <1>4, <1>9, <2>1
<1>11. ASSUME NEW m \in 1 .. n, m - 1 \in P
       PROVE  m \in P
  <2> DEFINE s == after[m - 1]
             l == lines[m]
  <2>1. s \in Reading /\ TargetsOf(s) = Seen(m - 1) /\ after[m] = ReadLine(s, l) /\ l.value \in Nat
    BY <1>3, <1>9, <1>11
  <2>2. s.target # 0 => \E j \in Named(m - 1) : \A k \in j + 1 .. m - 1 : lines[k].key # "Agent"
    BY <1>11
  <2>3. after[m] \in Reading
    BY <2>1, ReadLineTyped
  <2>4. Named(m) = IF NamesTarget(l) THEN Named(m - 1) \union {m} ELSE Named(m - 1)
    BY <1>2
  <2>5. Seen(m) = IF NamesTarget(l) THEN Seen(m - 1) \union {NormalizeTarget(l.value)} ELSE Seen(m - 1)
    <3> HIDE DEF Named
    <3> QED BY <2>4
  <2> HIDE DEF s, l, Seen
  <2>6. CASE l.key = "Agent"
    <3>1. after[m] = Flush(s)
      BY <2>1, <2>6 DEF ReadLine
    <3>2. ~NamesTarget(l)
      BY <2>6 DEF NamesTarget
    <3>3. after[m].target = 0 /\ TargetsOf(after[m]) = Seen(m)
      BY <2>1, <2>5, <3>1, <3>2, FlushKeeps
    <3> QED BY <1>2, <2>3, <3>3
  <2>7. CASE NamesTarget(l)
    <3>1. after[m] = [s EXCEPT !.target = NormalizeTarget(l.value)]
      BY <2>1, <2>7 DEF ReadLine, NamesTarget
    <3>2. NormalizeTarget(l.value) \in Nat \ {0}
      BY <2>7, NormalizedTarget DEF NamesTarget
    <3>3. s.target = 0
      <4>1. SUFFICES ASSUME s.target # 0
                     PROVE  FALSE
        OBVIOUS
      <4>2. PICK j \in Named(m - 1) : \A k \in j + 1 .. m - 1 : lines[k].key # "Agent"
        BY <2>2, <4>1
      <4>3. /\ j \in DOMAIN lines /\ m \in DOMAIN lines /\ j < m
            /\ NamesTarget(lines[j]) /\ NamesTarget(lines[m])
        BY <1>2, <2>7 DEF l
      <4>4. \E k \in j + 1 .. m - 1 : lines[k].key = "Agent"
        BY <4>3 DEF NamesItsTargets, NamesTarget
      <4> QED BY <4>2, <4>4
    <3>4. after[m].devices = s.devices /\ after[m].target = NormalizeTarget(l.value)
      BY <2>1, <3>1 DEF Reading
    <3>5. TargetsOf(after[m]) = Seen(m)
      BY <2>1, <2>5, <2>7, <3>2, <3>3, <3>4 DEF TargetsOf
    <3>6. \E j \in Named(m) : \A k \in j + 1 .. m : lines[k].key # "Agent"
      <4>1. m \in Named(m) /\ m + 1 .. m = {}
        BY <2>7 DEF l
      <4> QED BY <4>1
    <3> QED BY <1>2, <2>3, <3>5, <3>6
  <2>8. CASE l.key # "Agent" /\ ~NamesTarget(l)
    <3>1. after[m] = s
      BY <2>1, <2>8 DEF ReadLine, NamesTarget
    <3>2. TargetsOf(after[m]) = Seen(m)
      BY <2>1, <2>5, <2>8, <3>1
    <3>3. s.target # 0 => \E j \in Named(m) : \A k \in j + 1 .. m : lines[k].key # "Agent"
      <4>1. \A j \in Named(m - 1) : j \in Named(m) /\ \A k \in j + 1 .. m : k \in j + 1 .. m - 1 \/ k = m
        BY <1>2
      <4> HIDE DEF Named
      <4> QED BY <2>2, <2>8, <4>1 DEF l
    <3> QED BY <1>2, <2>3, <3>1, <3>2, <3>3
  <2> QED BY <2>6, <2>7, <2>8
<1>12. Good(n)
  <2> HIDE DEF P
  <2>1. n \in P
    BY <1>2, <1>10, <1>11, HoldsUpTo
  <2> QED BY <2>1 DEF P
<1>13. /\ Flush(after[n]) \in Reading /\ Flush(after[n]).target = 0
       /\ TargetsOf(Flush(after[n])) = Seen(n)
  <2> HIDE DEF Seen
  <2> QED BY <1>12, FlushKeeps
<1>14. TargetsOf(Flush(after[n])) = DeviceTargets(RocmDevices(lines))
  BY <1>1, <1>13 DEF TargetsOf
<1>15. RocmDevices(lines) \in Seq(Device)
  BY <1>1, <1>13 DEF Reading
<1> QED BY <1>2, <1>13, <1>14, <1>15

\* The two ways to read the targets of a host agree.
LEMMA TargetsAgree ==
  ASSUME NEW lines \in Lines, NamesItsTargets(lines)
  PROVE  ProfileTargets(lines) = RocmTargets(lines)
<1> DEFINE named == {j \in DOMAIN lines : NamesTarget(lines[j])}
           any == {j \in DOMAIN lines : lines[j].value \in GfxTarget}
           of == {NormalizeTarget(lines[i].value) : i \in named}
<1>1. RocmDevices(lines) # <<>> => ProfileTargets(lines) = of
  BY DevicesRead DEF ProfileTargets
<1>2. RocmDevices(lines) = <<>> => ProfileTargets(lines) = RocmTargets(lines)
  BY DEF ProfileTargets
<1>3. RocmTargets(lines) = {NormalizeTarget(lines[i].value) : i \in any}
  BY DEF RocmTargets
<1>4. named \subseteq any
  BY DEF NamesTarget
<1>5. \A i \in any : \E j \in named : NormalizeTarget(lines[j].value) = NormalizeTarget(lines[i].value)
  BY DEF NamesItsTargets, NamesTarget
<1> HIDE DEF any, named
<1>6. of = {NormalizeTarget(lines[i].value) : i \in any}
  BY <1>4, <1>5
<1> QED BY <1>1, <1>2, <1>3, <1>6

\* Of rows that can all be read none is left out.
LEMMA AllLegible ==
  ASSUME NEW rows \in Seq(Nat), \A i \in DOMAIN rows : rows[i] > 0
  PROVE  VramRows(rows) = rows
<1> DEFINE n == Len(rows)
           Legible(g) == g = [m \in 0 .. Len(rows) |->
                                IF m = 0 THEN <<>>
                                ELSE IF rows[m] > 0 THEN Append(g[m - 1], rows[m]) ELSE g[m - 1]]
           legible == CHOOSE g : Legible(g)
           V == Seq(Nat)
           advance == [p \in V \X (1 .. n) |->
                         IF rows[p[2]] > 0 THEN Append(p[1], rows[p[2]]) ELSE p[1]]
           Good(m) == /\ legible[m] \in V /\ Len(legible[m]) = m
                      /\ \A i \in 1 .. m : legible[m][i] = rows[i]
           P == {m \in 0 .. n : Good(m)}
<1>1. VramRows(rows) = legible[n]
  BY DEF VramRows
<1>2. n \in Nat /\ DOMAIN rows = 1 .. n
  BY LenProperties
<1> HIDE DEF n
<1>3. \A i \in 1 .. n : rows[i] \in Nat /\ rows[i] > 0
  BY <1>2, ElementOfSeq DEF n
<1>4. <<>> \in V
  BY EmptySeq
<1>5. advance \in [V \X (1 .. n) -> V]
  <2>1. ASSUME NEW p \in V \X (1 .. n)
        PROVE  advance[p] \in V
    <3>1. p[1] \in Seq(Nat) /\ rows[p[2]] \in Nat
      BY <1>3
    <3> QED BY <3>1
  <2> QED BY <2>1
<1>6. PICK g : Unfolds(g, n, V, <<>>, advance)
  <2> HIDE DEF advance, V, P, legible
  <2> QED BY <1>2, <1>4, <1>5, RecursionExists
<1>7. Legible(g)
  <2>1. g \in [0 .. n -> V] /\ g[0] = <<>> /\ \A i \in 1 .. n : g[i] = advance[<<g[i - 1], i>>]
    BY <1>6 DEF Unfolds
  <2>2. \A i \in 1 .. n : advance[<<g[i - 1], i>>] =
          IF rows[i] > 0 THEN Append(g[i - 1], rows[i]) ELSE g[i - 1]
    <3>1. \A i \in 1 .. n : g[i - 1] \in V
      BY <1>2, <2>1
    <3> HIDE DEF V
    <3> QED BY <3>1
  <2>3. \A m \in 0 .. n : m # 0 => m \in 1 .. n
    BY <1>2
  <2> HIDE DEF advance, V
  <2>4. g = [m \in 0 .. n |-> IF m = 0 THEN <<>>
                             ELSE IF rows[m] > 0 THEN Append(g[m - 1], rows[m]) ELSE g[m - 1]]
    BY <2>1, <2>2, <2>3
  <2> QED BY <2>4 DEF n
<1>8. Legible(legible)
  <2> HIDE DEF Legible
  <2> QED BY <1>7
<1>9. legible[0] = <<>> /\ \A m \in 1 .. n : legible[m] = Append(legible[m - 1], rows[m])
  <2> HIDE DEF legible
  <2>1. legible = [m \in 0 .. n |-> IF m = 0 THEN <<>>
                                   ELSE IF rows[m] > 0 THEN Append(legible[m - 1], rows[m])
                                   ELSE legible[m - 1]]
    BY <1>8 DEF n
  <2> HIDE DEF V
  <2>2. legible[0] = <<>>
    BY <1>2, <2>1
  <2>3. ASSUME NEW m \in 1 .. n
        PROVE  legible[m] = Append(legible[m - 1], rows[m])
    <3>1. m \in 0 .. n /\ m # 0 /\ rows[m] > 0
      BY <1>2, <1>3
    <3> QED BY <2>1, <3>1
  <2> QED BY <2>2, <2>3
<1> HIDE DEF legible
<1>10. 0 \in P
  <2>1. Len(legible[0]) = 0 /\ legible[0] \in V
    BY <1>4, <1>9
  <2>2. 0 \in 0 .. n /\ \A i \in 1 .. 0 : FALSE
    BY <1>2
  <2> HIDE DEF V
  <2> QED BY <2>1, <2>2
<1>11. ASSUME NEW m \in 1 .. n, m - 1 \in P
       PROVE  m \in P
  <2> DEFINE s == legible[m - 1]
  <2>1. s \in Seq(Nat) /\ Len(s) = m - 1 /\ \A i \in 1 .. m - 1 : s[i] = rows[i]
    BY <1>11
  <2>2. legible[m] = Append(s, rows[m]) /\ rows[m] \in Nat
    BY <1>3, <1>9
  <2> HIDE DEF s
  <2>3. legible[m] \in Seq(Nat) /\ Len(legible[m]) = m
    BY <1>2, <2>1, <2>2
  <2>4. \A i \in 1 .. m : legible[m][i] = rows[i]
    BY <1>2, <2>1, <2>2
  <2>5. m \in 0 .. n
    BY <1>2
  <2>6. Good(m)
    <3> HIDE DEF n
    <3> QED BY <2>3, <2>4
  <2> HIDE DEF Good
  <2> QED BY <2>5, <2>6
<1>12. n \in P
  <2> HIDE DEF P
  <2>1. n \in Nat /\ 0 \in P /\ \A i \in 1 .. n : i - 1 \in P => i \in P
    BY <1>2, <1>10, <1>11
  <2>2. \A i \in 0 .. n : i \in P
    BY <2>1, HoldsUpTo
  <2> QED BY <2>1, <2>2
<1>13. legible[n] \in Seq(Nat) /\ Len(legible[n]) = n /\ \A i \in 1 .. n : legible[n][i] = rows[i]
  BY <1>12
<1>14. legible[n] = rows
  <2> DEFINE t == legible[n]
  <2>1. t \in Seq(Nat) /\ Len(t) = Len(rows) /\ \A i \in 1 .. Len(rows) : t[i] = rows[i]
    BY <1>13 DEF n
  <2> HIDE DEF t
  <2>2. t = rows
    BY <2>1, SeqEqual
  <2> QED BY <2>2 DEF t
<1> QED BY <1>1, <1>14

--------------------------------------------------------------------------------

(* What is detected. *)

\* While the host stays as it was, what was read is what it is.
ProbeIInv ==
  /\ host \in Host /\ probing \in BOOLEAN /\ steady \in BOOLEAN
  /\ DOMAIN probe = ProbeName /\ probe = [p \in ProbeName |-> probe[p]]
  /\ probing /\ steady => \A p \in ProbeName : probe[p] # <<>> => probe[p] = <<Reads(p, host)>>

\* A complete detection of a host that stayed as it was.
Faithful == AllRead /\ steady

LEMMA AnswersOfHost ==
  ASSUME ProbeIInv, Faithful
  PROVE  /\ Answer("hipconfig") = host.hipconfig /\ Answer("gpus") = host.gpus
         /\ host.hipconfig => /\ Answer("rocminfo") = host.rocminfo
                              /\ Answer("smi") = VramProbe(host)
<1>1. \A p \in ProbeName \ Skipped : Answer(p) = Reads(p, host)
  BY DEF ProbeIInv, Faithful, AllRead, HasRead, Answer
<1>2. /\ "hipconfig" \in ProbeName \ RocmTool /\ "gpus" \in ProbeName \ RocmTool
      /\ "rocminfo" \in ProbeName /\ "smi" \in ProbeName
  BY DEF ProbeName, RocmTool
<1>3. /\ Reads("rocminfo", host) = host.rocminfo /\ Reads("gpus", host) = host.gpus
      /\ Reads("smi", host) = VramProbe(host) /\ Reads("hipconfig", host) = host.hipconfig
  BY DEF Reads
<1>4. Answer("hipconfig") = host.hipconfig /\ Answer("gpus") = host.gpus
  BY <1>1, <1>2, <1>3 DEF Skipped
<1>5. host.hipconfig => Skipped = {}
  BY <1>4 DEF Skipped
<1> QED BY <1>1, <1>2, <1>3, <1>4, <1>5

LEMMA HostTyped ==
  ASSUME host \in Host
  PROVE  /\ host.rocminfo \in Lines /\ NamesItsTargets(host.rocminfo)
         /\ host.gpus \in Seq([arch : KnownArch \union {0}, vram : Nat])
         /\ host.rocmSmi \in Seq(Nat) /\ host.hipconfig \in BOOLEAN
BY HostAssumption DEF Lines

LEMMA DetectedOfHost ==
  ASSUME ProbeIInv, Faithful
  PROVE  /\ Detected.targets = IF host.hipconfig THEN ProfileTargets(host.rocminfo) ELSE {}
         /\ Detected.gpus = host.gpus
         /\ host.hipconfig =>
              Detected.devices = MergeVram(RocmDevices(host.rocminfo), VramProbe(host))
<1>1. /\ Detected.targets =
           IF Answer("hipconfig") THEN ProfileTargets(Answer("rocminfo")) ELSE {}
      /\ Detected.gpus = Answer("gpus")
      /\ Detected.devices =
           IF Answer("hipconfig")
           THEN MergeVram(RocmDevices(Answer("rocminfo")), Answer("smi")) ELSE <<>>
  BY DEF Detected, ProfileOf
<1> QED BY <1>1, AnswersOfHost

LEMMA TargetsCompare ==
  ASSUME ProbeIInv
  PROVE  TargetsComparable
<1>1. SUFFICES ASSUME Faithful
               PROVE  /\ Detected.targets =
                           IF host.hipconfig THEN LiveRocmTargets(host) ELSE {}
                      /\ \A a \in CudaArches(Detected.gpus) :
                           NormalizeArch(a) = a /\ a \in LiveCudaArchs(host)
  BY DEF TargetsComparable, Faithful
<1>2. host \in Host
  BY DEF ProbeIInv
<1>3. Detected.targets = IF host.hipconfig THEN LiveRocmTargets(host) ELSE {}
  BY <1>1, <1>2, DetectedOfHost, HostTyped, TargetsAgree DEF LiveRocmTargets
<1>4. CudaArches(Detected.gpus) = LiveCudaArchs(host)
  BY <1>1, DetectedOfHost DEF LiveCudaArchs
<1>5. \A a \in CudaArches(host.gpus) : a \in KnownArch
  <2> DEFINE g == host.gpus
  <2>1. g \in Seq([arch : KnownArch \union {0}, vram : Nat])
    BY <1>2, HostTyped
  <2> HIDE DEF g
  <2>2. \A i \in DOMAIN g : g[i] \in [arch : KnownArch \union {0}, vram : Nat]
    BY <2>1, LenProperties, ElementOfSeq
  <2>3. \A a \in CudaArches(g) : a \in KnownArch
    BY <2>2 DEF CudaArches
  <2> QED BY <2>3 DEF g
<1> QED BY <1>3, <1>4, <1>5 DEF NormalizeArch, LiveCudaArchs

LEMMA MergedByRow ==
  ASSUME NEW devices \in Seq(Device), NEW rows \in Seq(Nat), Len(rows) = Len(devices)
  PROVE  LET merged == MergeVram(devices, rows) IN
         DOMAIN merged = DOMAIN rows /\ \A i \in DOMAIN rows : merged[i].vram = rows[i]
<1> DEFINE n == Len(rows)
<1>1. n \in Nat /\ DOMAIN rows = 1 .. n /\ DOMAIN devices = 1 .. n
  BY LenProperties
<1>2. \A i \in 1 .. n : devices[i] \in Device
  BY <1>1, ElementOfSeq
<1>3. MergeVram(devices, rows) = [i \in 1 .. n |->
        IF i > n THEN [target |-> 0, vram |-> rows[i]]
        ELSE IF i <= n THEN [devices[i] EXCEPT !.vram = rows[i]] ELSE devices[i]]
  BY DEF MergeVram
<1> HIDE DEF n
<1>4. \A i \in 1 .. n : MergeVram(devices, rows)[i] = [devices[i] EXCEPT !.vram = rows[i]]
  BY <1>1, <1>3
<1>5. \A i \in 1 .. n : [devices[i] EXCEPT !.vram = rows[i]].vram = rows[i]
  BY <1>2 DEF Device
<1>6. DOMAIN MergeVram(devices, rows) = 1 .. n
  BY <1>3
<1> QED BY <1>1, <1>4, <1>5, <1>6

LEMMA CardsHaveTheirVram ==
  ASSUME ProbeIInv
  PROVE  VramOfItsCard
<1> DEFINE rows == host.rocmSmi
           devices == RocmDevices(host.rocminfo)
<1>1. SUFFICES ASSUME Faithful, host.hipconfig, rows # <<>>, \A i \in DOMAIN rows : rows[i] > 0,
                      Len(rows) = Len(devices)
               PROVE  /\ DOMAIN Detected.devices = DOMAIN rows
                      /\ \A i \in DOMAIN Detected.devices : Detected.devices[i].vram = rows[i]
  BY DEF VramOfItsCard, Faithful
<1>2. rows \in Seq(Nat) /\ devices \in Seq(Device)
  BY HostTyped, DevicesRead DEF ProbeIInv
<1>3. VramRows(rows) = rows
  <2> HIDE DEF rows
  <2> QED BY <1>1, <1>2, AllLegible
<1>4. VramProbe(host) = rows
  BY <1>1, <1>3 DEF VramProbe
<1>5. Detected.devices = MergeVram(devices, rows)
  BY <1>1, <1>4, DetectedOfHost
<1> HIDE DEF rows, devices
<1> QED BY <1>1, <1>2, <1>5, MergedByRow

--------------------------------------------------------------------------------

(* What is built for. *)

\* Only cards have targets.
ForCards(b) == b.archs # {} => b.kind \in {"Cuda", "Rocm"}

KeptRecord(b, hashed, verified) == [backend |-> b, hashed |-> hashed, verified |-> verified]

\* k is a record of a build for x, or of none.
RecordHolds(f, k, x) ==
  /\ k = KeptRecord(k.backend, k.hashed, k.verified)
  /\ k.hashed \in BOOLEAN /\ k.verified \in BOOLEAN
  /\ ForCards(k.backend)
  /\ k.verified => f = "Prism" /\ k.hashed
  /\ k.hashed => k.backend = x

KeptIInv == \A f \in Flavor : RecordHolds(f, kept[f], built[f])

\* Builds are those of a session without a first run, which leaves nothing built.
BuildingIInv ==
  /\ firstRun => building = NotBuilding /\ \A f \in Flavor : ~kept[f].hashed
  /\ building # NotBuilding =>
       /\ building.flavor \in Flavor
       /\ building.backend # AutoBackend /\ ForCards(building.backend)
       /\ ~Dropped(building.backend, building.toolkit)

ChoiceIInv ==
  /\ ProbeIInv
  /\ firstRun \in BOOLEAN /\ step \in {StepOrder[i] : i \in DOMAIN StepOrder}
  /\ buildFlavor \in Flavor /\ ForCards(picked)
  /\ DOMAIN kept = Flavor /\ DOMAIN built = Flavor
  /\ KeptIInv /\ BuildingIInv

LEMMA RecordIsOfIt ==
  ASSUME NEW f, NEW b, NEW hashed \in BOOLEAN, NEW verified \in BOOLEAN, NEW x, ForCards(b),
         verified => f = "Prism" /\ hashed, hashed => b = x
  PROVE  /\ RecordHolds(f, KeptRecord(b, hashed, verified), x)
         /\ KeptRecord(b, hashed, verified).hashed = hashed
BY DEF RecordHolds, KeptRecord

LEMMA UnverifiedHolds ==
  ASSUME NEW f, NEW b, NEW hashed \in BOOLEAN, NEW x, ForCards(b), hashed => b = x
  PROVE  RecordHolds(f, KeptRecord(b, hashed, FALSE), x)
<1>1. FALSE \in BOOLEAN
  OBVIOUS
<1> QED BY <1>1, RecordIsOfIt

LEMMA RecommendedForCards ==
  ASSUME NEW prof
  PROVE  /\ ForCards(RecommendedBackend(prof)) /\ ForCards(NonCudaBackend(prof))
         /\ RecommendedBackend(prof) # AutoBackend /\ NonCudaBackend(prof) # AutoBackend
         /\ NonCudaBackend(prof).kind # "Cuda"
BY HostAssumption DEF ForCards, RecommendedBackend, NonCudaBackend, Backend, AutoBackend

LEMMA RefreshedForCards ==
  ASSUME NEW b, ForCards(b), b # AutoBackend
  PROVE  ForCards(RefreshBackend(b)) /\ RefreshBackend(b) # AutoBackend
BY RecommendedForCards DEF RefreshBackend

LEMMA RequestedForCards ==
  ASSUME NEW f \in Flavor, ForCards(kept[f].backend)
  PROVE  ForCards(RequestedBackend(f)) /\ RequestedBackend(f) # AutoBackend
<1>1. ForCards(CpuFallback) /\ CpuFallback # AutoBackend
  BY DEF CpuFallback, AutoBackend, Backend, ForCards
<1> DEFINE b == IF kept[f].backend # AutoBackend THEN kept[f].backend
                ELSE IF HasDetected THEN RecommendedBackend(profile) ELSE CpuFallback
<1>2. ForCards(b) /\ b # AutoBackend
  BY <1>1, RecommendedForCards
<1>3. RequestedBackend(f) = RefreshBackend(b)
  BY DEF RequestedBackend
<1> HIDE DEF b
<1> QED BY <1>2, <1>3, RefreshedForCards

LEMMA ConfiguredForCards ==
  ASSUME NEW f \in Flavor, ForCards(kept[f].backend)
  PROVE  LET b == BuildConfigFor(f) IN
         ForCards(b) /\ b # AutoBackend /\ ~Dropped(b, ToolkitUsed(b))
<1> DEFINE r == RequestedBackend(f)
<1>1. ForCards(r) /\ r # AutoBackend
  BY RequestedForCards
<1>2. ForCards(FallbackBackend) /\ FallbackBackend # AutoBackend /\ FallbackBackend.kind # "Cuda"
  BY RecommendedForCards DEF FallbackBackend, CpuFallback, AutoBackend, Backend, ForCards
<1>3. ~Dropped(FallbackBackend, ToolkitUsed(FallbackBackend))
  BY <1>2 DEF Dropped
<1>4. BuildConfigFor(f) = IF Dropped(r, ToolkitUsed(r)) THEN FallbackBackend ELSE r
  BY DEF BuildConfigFor
<1> HIDE DEF r
<1> QED BY <1>1, <1>2, <1>3, <1>4

--------------------------------------------------------------------------------

LEMMA ProbeStep ==
  ASSUME ProbeIInv,
         \/ RunDetect \/ ReadsHost \/ HostChanges \/ UNCHANGED probeVars
         \/ probing' = FALSE /\ probe' = NothingRead /\ UNCHANGED <<host, hostChanges, steady>>
  PROVE  ProbeIInv'
<1>1. /\ NothingRead = [p \in ProbeName |-> NothingRead[p]] /\ DOMAIN NothingRead = ProbeName
      /\ \A p \in ProbeName : NothingRead[p] = <<>>
  BY DEF NothingRead
<1>2. CASE RunDetect
  BY <1>1, <1>2 DEF RunDetect, ProbeIInv
<1>3. CASE ReadsHost
  <2>1. PICK p \in ProbeName : probe' = [probe EXCEPT ![p] = <<Reads(p, host)>>]
    BY <1>3 DEF ReadsHost
  <2>2. host' = host /\ probing' = probing /\ steady' = steady
    BY <1>3 DEF ReadsHost
  <2>3. /\ DOMAIN probe' = ProbeName /\ probe' = [q \in ProbeName |-> probe'[q]]
        /\ \A q \in ProbeName : probe'[q] = IF q = p THEN <<Reads(p, host)>> ELSE probe[q]
    BY <2>1 DEF ProbeIInv
  <2>4. \A q \in ProbeName : Reads(q, host)' = Reads(q, host)
    BY <2>2 DEF Reads
  <2> QED BY <2>2, <2>3, <2>4 DEF ProbeIInv
<1>4. CASE HostChanges
  <2>1. host' \in Host /\ probing' = probing /\ probe' = probe /\ steady' = (steady /\ ~probing)
    BY <1>4 DEF HostChanges
  <2> QED BY <2>1 DEF ProbeIInv
<1>5. CASE UNCHANGED probeVars
  <2>1. host' = host /\ probing' = probing /\ probe' = probe /\ steady' = steady
    BY <1>5 DEF probeVars
  <2>2. \A q \in ProbeName : Reads(q, host)' = Reads(q, host)
    BY <2>1 DEF Reads
  <2> QED BY <2>1, <2>2 DEF ProbeIInv
<1>6. CASE probing' = FALSE /\ probe' = NothingRead /\ UNCHANGED <<host, hostChanges, steady>>
  BY <1>1, <1>6 DEF ProbeIInv
<1> QED BY <1>2, <1>3, <1>4, <1>5, <1>6

LEMMA ChoiceStep ==
  ASSUME ChoiceIInv, [ChoiceNext]_choiceVars
  PROVE  ChoiceIInv'
<1> USE DEF ChoiceIInv
<1>1. CASE ProbeSteps \/ Detect \/ UNCHANGED choiceVars
  <2>1. /\ UNCHANGED <<firstRun, step, picked, profile, buildFlavor, kept, building, built>>
        /\ RunDetect \/ ReadsHost \/ HostChanges \/ UNCHANGED probeVars
    BY <1>1 DEF ProbeSteps, Detect, choiceVars
  <2>2. ProbeIInv'
    BY <2>1, ProbeStep
  <2>3. KeptIInv' /\ BuildingIInv'
    BY <2>1 DEF KeptIInv, BuildingIInv, Dropped
  <2> QED BY <2>1, <2>2, <2>3
<1>2. CASE DetectComplete
  <2>1. ProbeIInv'
    BY <1>2, ProbeStep DEF DetectComplete
  <2> DEFINE detected == RecommendedBackend(profile')
             synced == [kept EXCEPT ![buildFlavor] = KeptRecord(detected, FALSE, FALSE)]
  <2>2. ForCards(detected)
    BY RecommendedForCards
  <2>3. kept' = synced \/ kept' = kept
    BY <1>2 DEF DetectComplete, SyncedWith, KeptRecord
  <2>4. /\ UNCHANGED <<firstRun, buildFlavor, building, built>>
        /\ step' \in {step, "HardwareSummary"} /\ picked' \in {picked, detected}
    BY <1>2 DEF DetectComplete
  <2> HIDE DEF detected
  <2>5. DOMAIN synced = Flavor /\ \A f \in Flavor :
          synced[f] = IF f = buildFlavor THEN KeptRecord(detected, FALSE, FALSE) ELSE kept[f]
    OBVIOUS
  <2> HIDE DEF synced
  <2>6. DOMAIN kept' = Flavor
    BY <2>3, <2>5
  <2>7. \A f \in Flavor : kept'[f] = kept[f] \/ kept'[f] = KeptRecord(detected, FALSE, FALSE)
    BY <2>3, <2>5
  <2>8. KeptIInv'
    <3>1. \A f \in Flavor : RecordHolds(f, KeptRecord(detected, FALSE, FALSE), built[f])
      BY <2>2, RecordIsOfIt
    <3> QED BY <2>4, <2>7, <3>1 DEF KeptIInv
  <2>9. BuildingIInv'
    <3>1. \A f \in Flavor : ~kept[f].hashed => ~kept'[f].hashed
      BY <2>7 DEF KeptRecord
    <3> QED BY <2>4, <3>1 DEF BuildingIInv, Dropped
  <2>10. step' \in {StepOrder[i] : i \in DOMAIN StepOrder}
    BY <2>4 DEF StepOrder
  <2> QED BY <2>1, <2>2, <2>4, <2>6, <2>8, <2>9, <2>10
<1>3. CASE OnboardingEnter
  <2>1. ProbeIInv'
    BY <1>3, ProbeStep DEF OnboardingEnter
  <2>2. /\ firstRun /\ UNCHANGED <<buildFlavor, building, built>> /\ firstRun' \in BOOLEAN
        /\ picked' \in {picked, CpuFallback}
    BY <1>3 DEF OnboardingEnter
  <2>3. ForCards(CpuFallback)
    BY DEF CpuFallback, Backend, ForCards
  <2>4. step' \in {StepOrder[i] : i \in DOMAIN StepOrder}
    <3>1. CASE step = "Done"
      BY <1>3, <3>1 DEF OnboardingEnter
    <3>2. CASE step # "Done"
      <4> DEFINE i == CHOOSE j \in DOMAIN StepOrder : StepOrder[j] = step
      <4>1. i \in DOMAIN StepOrder /\ StepOrder[i] = step
        <5>1. \E j \in DOMAIN StepOrder : StepOrder[j] = step
          OBVIOUS
        <5> HIDE DEF ChoiceIInv
        <5> QED BY <5>1
      <4>2. step' = StepOrder[i + 1]
        BY <1>3, <3>2 DEF OnboardingEnter
      <4> HIDE DEF i
      <4>3. DOMAIN StepOrder = 1 .. 7 /\ StepOrder[7] = "Done"
        BY DEF StepOrder
      <4>4. i + 1 \in DOMAIN StepOrder
        BY <3>2, <4>1, <4>3
      <4> QED BY <4>2, <4>4
    <3> QED BY <3>1, <3>2
  <2> DEFINE other == [kept EXCEPT !["Upstream"].backend = picked]
  <2>5. kept' = other \/ kept' = kept
    BY <1>3 DEF OnboardingEnter
  <2>6. DOMAIN other = Flavor /\ other["Prism"] = kept["Prism"]
        /\ other["Upstream"] = KeptRecord(picked, kept["Upstream"].hashed, kept["Upstream"].verified)
    BY DEF Flavor, KeptIInv, RecordHolds, KeptRecord
  <2> HIDE DEF other
  <2>7. \A f \in Flavor : ~kept[f].hashed /\ ~kept[f].verified
    BY <2>2 DEF BuildingIInv, KeptIInv, RecordHolds
  <2>8. DOMAIN kept' = Flavor
    BY <2>5, <2>6
  <2>9. \A f \in Flavor : kept'[f] = kept[f] \/ kept'[f] = KeptRecord(picked, kept[f].hashed, kept[f].verified)
    BY <2>5, <2>6 DEF Flavor
  <2>10. KeptIInv'
    <3>1. \A f \in Flavor :
            RecordHolds(f, KeptRecord(picked, kept[f].hashed, kept[f].verified), built[f])
      BY <2>7, RecordIsOfIt DEF KeptIInv, RecordHolds
    <3> QED BY <2>2, <2>9, <3>1 DEF KeptIInv
  <2>11. BuildingIInv'
    <3>1. \A f \in Flavor : kept[f].hashed \in BOOLEAN
      BY DEF KeptIInv, RecordHolds
    <3>2. \A f \in Flavor : ~KeptRecord(picked, kept[f].hashed, kept[f].verified).hashed
      BY <2>7, <3>1 DEF KeptRecord
    <3>3. \A f \in Flavor : ~kept'[f].hashed
      BY <2>7, <2>9, <3>2
    <3> QED BY <2>2, <3>3 DEF BuildingIInv
  <2> QED BY <2>1, <2>2, <2>3, <2>4, <2>8, <2>10, <2>11
<1>4. CASE OnboardingNextBackend \/ OnboardingEsc \/ SwitchBuildFlavor
  <2>1. UNCHANGED <<probeVars, step, kept, building, built>>
    BY <1>4 DEF OnboardingNextBackend, OnboardingEsc, SwitchBuildFlavor
  <2>2. ProbeIInv'
    BY <2>1, ProbeStep
  <2>3. ForCards(picked') /\ buildFlavor' \in Flavor /\ firstRun' \in BOOLEAN
        /\ (firstRun' => firstRun)
    <3>1. ForCards(CpuFallback) /\ \A b : ForCards(NextBackend(b))
      BY DEF CpuFallback, NextBackend, Backend, ForCards
    <3>2. CASE OnboardingNextBackend
      BY <3>1, <3>2 DEF OnboardingNextBackend
    <3>3. CASE OnboardingEsc
      BY <3>1, <3>3 DEF OnboardingEsc
    <3>4. CASE SwitchBuildFlavor
      <4>1. firstRun' = firstRun /\ picked' = picked
        BY <3>4 DEF SwitchBuildFlavor
      <4>2. buildFlavor' \in Flavor
        BY <3>4 DEF SwitchBuildFlavor, Flavor
      <4> QED BY <4>1, <4>2
    <3> QED BY <1>4, <3>2, <3>3, <3>4
  <2>4. KeptIInv' /\ BuildingIInv'
    BY <2>1, <2>3 DEF KeptIInv, BuildingIInv, Dropped
  <2> QED BY <2>1, <2>2, <2>3, <2>4
<1>5. CASE StartBuildRun
  <2> DEFINE b == BuildConfigFor(buildFlavor)
             r == [flavor |-> buildFlavor, backend |-> b, toolkit |-> ToolkitUsed(b)]
             anew == [kept EXCEPT !["Prism"].verified = FALSE]
  <2>1. UNCHANGED <<probeVars, firstRun, step, picked, buildFlavor, built>> /\ ~firstRun
    BY <1>5 DEF StartBuildRun
  <2>2. ProbeIInv'
    BY <2>1, ProbeStep
  <2>3. ForCards(b) /\ b # AutoBackend /\ ~Dropped(b, ToolkitUsed(b))
    <3>1. ForCards(kept[buildFlavor].backend)
      BY DEF KeptIInv, RecordHolds
    <3> QED BY <3>1, ConfiguredForCards
  <2>4. building' = r /\ (kept' = anew \/ kept' = kept)
    BY <1>5 DEF StartBuildRun
  <2>5. r.flavor \in Flavor /\ r.backend = b /\ r.toolkit = ToolkitUsed(b)
    BY DEF ChoiceIInv
  <2> HIDE DEF r
  <2>6. building'.flavor \in Flavor /\ building'.backend # AutoBackend
        /\ ForCards(building'.backend) /\ ~Dropped(building'.backend, building'.toolkit)
    <3> HIDE DEF b
    <3> QED BY <2>3, <2>4, <2>5
  <2>7. DOMAIN anew = Flavor /\ anew["Upstream"] = kept["Upstream"]
        /\ anew["Prism"] = KeptRecord(kept["Prism"].backend, kept["Prism"].hashed, FALSE)
    BY DEF Flavor, KeptIInv, RecordHolds, KeptRecord
  <2> HIDE DEF anew, b
  <2>8. DOMAIN kept' = Flavor
    BY <2>4, <2>7
  <2>9. \A f \in Flavor : kept'[f] = kept[f] \/ kept'[f] = KeptRecord(kept[f].backend, kept[f].hashed, FALSE)
    BY <2>4, <2>7 DEF Flavor
  <2>10. KeptIInv'
    <3>1. \A f \in Flavor : RecordHolds(f, KeptRecord(kept[f].backend, kept[f].hashed, FALSE), built[f])
      <4>1. \A f \in Flavor :
              /\ kept[f].hashed \in BOOLEAN /\ ForCards(kept[f].backend)
              /\ kept[f].hashed => kept[f].backend = built[f]
        BY DEF KeptIInv, RecordHolds
      <4> QED BY <4>1, UnverifiedHolds
    <3> QED BY <2>1, <2>9, <3>1 DEF KeptIInv
  <2>11. BuildingIInv'
    BY <2>1, <2>6 DEF BuildingIInv, Dropped
  <2> QED BY <2>1, <2>2, <2>8, <2>10, <2>11
<1>6. CASE BuildCompletes
  <2> DEFINE f == building.flavor
             r == KeptRecord(building.backend, TRUE, building.flavor = "Prism")
  <2>1. UNCHANGED <<probeVars, firstRun, step, picked, buildFlavor>> /\ building # NotBuilding
        /\ building' = NotBuilding
    BY <1>6 DEF BuildCompletes
  <2>2. ProbeIInv'
    BY <2>1, ProbeStep
  <2>3. f \in Flavor /\ ForCards(building.backend) /\ ~firstRun
    BY <2>1 DEF BuildingIInv
  <2>4. kept' = [kept EXCEPT ![f] = r] /\ built' = [built EXCEPT ![f] = building.backend]
    BY <1>6 DEF BuildCompletes, KeptRecord
  <2> HIDE DEF r
  <2>5. DOMAIN kept' = Flavor /\ DOMAIN built' = Flavor
    BY <2>4
  <2>6. \A g \in Flavor : g # f => kept'[g] = kept[g] /\ built'[g] = built[g]
    BY <2>4
  <2>7. kept'[f] = r /\ built'[f] = building.backend
    BY <2>3, <2>4
  <2>8. RecordHolds(f, r, building.backend)
    BY <2>3, RecordIsOfIt DEF r
  <2>10. KeptIInv'
    <3> HIDE DEF f
    <3> QED BY <2>6, <2>7, <2>8 DEF KeptIInv
  <2>11. BuildingIInv'
    BY <2>1, <2>3 DEF BuildingIInv
  <2> QED BY <2>1, <2>2, <2>5, <2>10, <2>11
<1>7. CASE BuildStops
  <2> DEFINE f == building.flavor
  <2>1. UNCHANGED <<probeVars, firstRun, step, picked, buildFlavor, built>> /\ building # NotBuilding
        /\ building' = NotBuilding
    BY <1>7 DEF BuildStops
  <2>2. ProbeIInv'
    BY <2>1, ProbeStep
  <2>3. f \in Flavor /\ ~firstRun
    BY <2>1 DEF BuildingIInv
  <2>4. PICK stopped \in BOOLEAN :
          kept' = [kept EXCEPT ![building.flavor].hashed = @ /\ ~stopped,
                               ![building.flavor].verified = FALSE]
    BY <1>7 DEF BuildStops
  <2> HIDE DEF f
  <2>5. DOMAIN kept' = Flavor /\ \A g \in Flavor : g # f => kept'[g] = kept[g]
    BY <2>3, <2>4 DEF f
  <2>6. kept'[f] = KeptRecord(kept[f].backend, kept[f].hashed /\ ~stopped, FALSE)
    <3>1. kept[f] = KeptRecord(kept[f].backend, kept[f].hashed, kept[f].verified)
      BY <2>3 DEF KeptIInv, RecordHolds
    <3>2. kept'[f] = [kept[f] EXCEPT !.hashed = @ /\ ~stopped, !.verified = FALSE]
      BY <2>3, <2>4 DEF f
    <3> QED BY <3>1, <3>2 DEF KeptRecord
  <2>7. KeptIInv'
    <3>1. RecordHolds(f, kept[f], built[f])
      BY <2>3 DEF KeptIInv
    <3> DEFINE h == kept[f].hashed /\ ~stopped
    <3>2. h \in BOOLEAN /\ (h => kept[f].hashed)
      OBVIOUS
    <3> HIDE DEF h
    <3>3. RecordHolds(f, KeptRecord(kept[f].backend, h, FALSE), built[f])
      <4>1. ForCards(kept[f].backend) /\ (h => kept[f].backend = built[f])
        BY <3>1, <3>2 DEF RecordHolds
      <4> QED BY <3>2, <4>1, UnverifiedHolds
    <3> USE DEF h
    <3> QED BY <2>1, <2>5, <2>6, <3>3 DEF KeptIInv
  <2>8. BuildingIInv'
    BY <2>1, <2>3 DEF BuildingIInv
  <2> QED BY <2>1, <2>2, <2>5, <2>7, <2>8
<1> QED BY <1>1, <1>2, <1>3, <1>4, <1>5, <1>6, <1>7 DEF ChoiceNext

\* The targets of a build can be compared with those found before a launch, a card has its
\* own memory, no build is for cards that its toolkit has dropped, and what is recorded of
\* a build is of that build (detect_with_runner, build_config,
\* sync_build_backend_after_detection), for any hosts and any number of builds.
THEOREM ChoiceCorrect == ChoiceSpec => []ChoiceInv
<1>1. ChoiceInit => ChoiceIInv
  <2>1. ASSUME ChoiceInit
        PROVE  ChoiceIInv
    <3>1. ProbeIInv
      BY <2>1 DEF ChoiceInit, ProbeInit, ProbeIInv, NothingRead
    <3>2. KeptIInv /\ BuildingIInv /\ DOMAIN kept = Flavor /\ DOMAIN built = Flavor
      BY <2>1 DEF ChoiceInit, KeptIInv, RecordHolds, BuildingIInv, NothingBuilt, KeptRecord,
                  ForCards, AutoBackend, Backend
    <3>3. firstRun \in BOOLEAN /\ step \in {StepOrder[i] : i \in DOMAIN StepOrder}
          /\ buildFlavor \in Flavor /\ ForCards(picked)
      BY <2>1 DEF ChoiceInit, StepOrder, Flavor, ForCards, CpuFallback, Backend
    <3> QED BY <3>1, <3>2, <3>3 DEF ChoiceIInv
  <2> QED BY <2>1
<1>2. ChoiceIInv /\ [ChoiceNext]_choiceVars => ChoiceIInv'
  BY ChoiceStep
<1>3. ChoiceIInv => ChoiceInv
  <2>1. SUFFICES ASSUME ChoiceIInv
                 PROVE  ChoiceInv
    OBVIOUS
  <2>2. TargetsComparable /\ VramOfItsCard
    BY <2>1, TargetsCompare, CardsHaveTheirVram DEF ChoiceIInv
  <2>3. ChoiceTypeOK
    BY <2>1 DEF ChoiceIInv, ChoiceTypeOK, KeptIInv, RecordHolds, BuildingIInv, ForCards, Flavor
  <2>4. NoDroppedTarget /\ RecordIsOfBuild
    BY <2>1 DEF ChoiceIInv, NoDroppedTarget, RecordIsOfBuild, KeptIInv, RecordHolds,
                  BuildingIInv
  <2> QED BY <2>2, <2>3, <2>4 DEF ChoiceInv
<1> QED BY <1>1, <1>2, <1>3, PTL DEF ChoiceSpec

--------------------------------------------------------------------------------

(* The settings of a launch. *)

ProfileRecord == [name : ProfileName, model : Model, server : Settings]

LEMMA FirstIsLeast ==
  ASSUME NEW places, places \in SUBSET Nat, places # {}
  PROVE  FirstOf(places) \in places /\ \A j \in places : FirstOf(places) <= j
<1> DEFINE R == {ss \in Nat \X Nat : ss[1] < ss[2]}
<1>1. R = OpToRel(<, Nat)
  BY DEF OpToRel
<1>2. IsWellFoundedOn(R, Nat)
  BY NatLessThanWellFounded, <1>1
<1> HIDE DEF R
<1>3. PICK m \in places : \A j \in places : ~(<<j, m>> \in R)
  BY <1>2, WFMin
<1>4. \A j \in places : m <= j
  <2>1. m \in Nat /\ \A j \in places : j \in Nat
    OBVIOUS
  <2>2. \A j \in places : ~(j < m)
    BY <1>3, <2>1 DEF R
  <2> QED BY <2>1, <2>2
<1> QED BY <1>4 DEF FirstOf

LEMMA ProfilesTyped ==
  ASSUME NEW table \in Profiles
  PROVE  /\ Len(table) \in Nat /\ DOMAIN table = 1 .. Len(table)
         /\ \A i \in DOMAIN table :
              /\ i \in Nat /\ table[i] \in ProfileRecord
              /\ table[i].server \in Settings /\ table[i].model \in Model
<1>1. table \in Seq(ProfileRecord)
  BY DEF Profiles, ProfileRecord
<1>2. \A q \in ProfileRecord : q.server \in Settings /\ q.model \in Model
  BY DEF ProfileRecord
<1>3. Len(table) \in Nat /\ DOMAIN table = 1 .. Len(table)
  BY <1>1, LenProperties
<1>4. \A i \in 1 .. Len(table) : table[i] \in ProfileRecord
  BY <1>1, ElementOfSeq
<1> QED BY <1>2, <1>3, <1>4

\* The profile of a model is one of its own.
LEMMA ProfileIsOwn ==
  ASSUME NEW table \in Profiles, NEW name, NEW m, Matching(table, m) # {}
  PROVE  /\ \E i \in Matching(table, m) : ProfileFor(table, name, m) = table[i]
         /\ \E i \in Matching(table, m) : NextProfile(table, name, m) = table[i]
<1> DEFINE own == Matching(table, m)
           active == ActiveOf(table, name, m)
           later == {i \in own : active # {} /\ i > FirstOf(active)}
<1>1. own \in SUBSET Nat
  BY ProfilesTyped DEF Matching
<1>2. active \subseteq own /\ later \subseteq own
  BY DEF ActiveOf
<1>3. ProfileFor(table, name, m) = table[FirstOf(IF active = {} THEN own ELSE active)]
  BY DEF ProfileFor
<1>4. NextProfile(table, name, m) = table[FirstOf(IF later = {} THEN own ELSE later)]
  BY DEF NextProfile
<1>5. own # {}
  OBVIOUS
<1> HIDE DEF own, active, later
<1>6. FirstOf(IF active = {} THEN own ELSE active) \in own
  BY <1>1, <1>2, <1>5, FirstIsLeast
<1>7. FirstOf(IF later = {} THEN own ELSE later) \in own
  BY <1>1, <1>2, <1>5, FirstIsLeast
<1> QED BY <1>3, <1>4, <1>6, <1>7 DEF own

LEMMA WordTyped ==
  /\ \A w \in Text : Word(w) \in Argument
  /\ \A w : Word(w)[1] = w
  /\ \A m \in Model : DraftFile(m) \in Argument
BY DEF Word, DraftFile, Argument

\* The tuning of a profile with the endpoint of the settings.
LEMMA ResolvedTyped ==
  ASSUME NEW m \in Model, NEW p \in ProfileRecord, NEW s \in Settings
  PROVE  /\ ResolvedProfileServer(m, p, s) \in Settings
         /\ ResolvedProfileServer(m, p, s).endpoint = s.endpoint
<1> DEFINE args == p.server.args
           resolved == [i \in DOMAIN args |->
                          IF i > 1 /\ args[i - 1][1] \in DraftFlag /\ args[i][1] = "draft-beside"
                          THEN DraftFile(m) ELSE args[i]]
<1>1. p.server \in Settings /\ args \in Seq(Argument) /\ s.endpoint \in Endpoint
  BY DEF ProfileRecord, Settings
<1>2. ResolvedProfileServer(m, p, s) = [p.server EXCEPT !.endpoint = s.endpoint, !.args = resolved]
  BY DEF ResolvedProfileServer
<1>3. Len(args) \in Nat /\ DOMAIN args = 1 .. Len(args) /\ \A i \in DOMAIN args : args[i] \in Argument
  BY <1>1, LenProperties, ElementOfSeq
<1> HIDE DEF args
<1>4. \A i \in DOMAIN args : resolved[i] \in Argument
  BY <1>3, WordTyped
<1>5. resolved \in [1 .. Len(args) -> Argument]
  BY <1>3, <1>4
<1> HIDE DEF resolved
<1>6. resolved \in Seq(Argument)
  BY <1>3, <1>5
<1> QED BY <1>1, <1>2, <1>6 DEF Settings

--------------------------------------------------------------------------------

(* The built-in profiles. *)

Holds(q, p) == \E j \in DOMAIN q : q[j] = p

\* What is missing of the built-in profiles is added.
LEMMA MissingAdded ==
  ASSUME NEW table \in Profiles
  PROVE  /\ Missing(table) \in Profiles
         /\ \A b \in DOMAIN Builtin : Known(table, Builtin[b]) \/ Holds(Missing(table), Builtin[b])
<1> DEFINE n == Len(Builtin)
           Fills(g) == g = [k \in 0 .. Len(Builtin) |->
                              IF k = 0 THEN <<>>
                              ELSE IF Known(table, Builtin[k]) THEN g[k - 1]
                              ELSE Append(g[k - 1], Builtin[k])]
           upTo == CHOOSE g : Fills(g)
           V == Seq(ProfileRecord)
           advance == [p \in V \X (1 .. n) |->
                         IF Known(table, Builtin[p[2]]) THEN p[1] ELSE Append(p[1], Builtin[p[2]])]
           Has(q, k) == \A i \in 1 .. k : Known(table, Builtin[i]) \/ Holds(q, Builtin[i])
           Good(k) == upTo[k] \in V /\ Has(upTo[k], k)
           P == {k \in 0 .. n : Good(k)}
<1>1. Missing(table) = upTo[n]
  BY DEF Missing
<1>2. n \in Nat /\ DOMAIN Builtin = 1 .. n /\ \A i \in 1 .. n : Builtin[i] \in ProfileRecord
  BY LaunchAssumption, ProfilesTyped
<1> HIDE DEF n
<1>3. <<>> \in V
  BY EmptySeq
<1>4. advance \in [V \X (1 .. n) -> V]
  <2>1. ASSUME NEW p \in V \X (1 .. n)
        PROVE  advance[p] \in V
    <3>1. p[1] \in Seq(ProfileRecord) /\ Builtin[p[2]] \in ProfileRecord
      BY <1>2
    <3>2. Append(p[1], Builtin[p[2]]) \in Seq(ProfileRecord)
      BY <3>1, AppendProperties
    <3> QED BY <3>1, <3>2
  <2> QED BY <2>1
<1>5. PICK g : Unfolds(g, n, V, <<>>, advance)
  <2> HIDE DEF advance, V, P, upTo
  <2> QED BY <1>2, <1>3, <1>4, RecursionExists
<1>6. Fills(g)
  <2>1. g \in [0 .. n -> V] /\ g[0] = <<>> /\ \A i \in 1 .. n : g[i] = advance[<<g[i - 1], i>>]
    BY <1>5 DEF Unfolds
  <2>2. \A i \in 1 .. n : advance[<<g[i - 1], i>>] =
          IF Known(table, Builtin[i]) THEN g[i - 1] ELSE Append(g[i - 1], Builtin[i])
    <3>1. \A i \in 1 .. n : g[i - 1] \in V
      BY <1>2, <2>1
    <3> HIDE DEF V
    <3> QED BY <3>1
  <2>3. \A k \in 0 .. n : k # 0 => k \in 1 .. n
    BY <1>2
  <2> HIDE DEF advance, V
  <2>4. g = [k \in 0 .. n |-> IF k = 0 THEN <<>>
                             ELSE IF Known(table, Builtin[k]) THEN g[k - 1]
                             ELSE Append(g[k - 1], Builtin[k])]
    BY <2>1, <2>2, <2>3
  <2> QED BY <2>4 DEF n
<1>7. Fills(upTo)
  <2> HIDE DEF Fills
  <2> QED BY <1>6
<1>8. /\ upTo[0] = <<>>
      /\ \A k \in 1 .. n : upTo[k] = IF Known(table, Builtin[k]) THEN upTo[k - 1]
                                      ELSE Append(upTo[k - 1], Builtin[k])
  <2> HIDE DEF upTo
  <2>1. upTo = [k \in 0 .. n |-> IF k = 0 THEN <<>>
                                ELSE IF Known(table, Builtin[k]) THEN upTo[k - 1]
                                ELSE Append(upTo[k - 1], Builtin[k])]
    BY <1>7 DEF n
  <2> HIDE DEF V
  <2>2. upTo[0] = <<>>
    BY <1>2, <2>1
  <2>3. ASSUME NEW k \in 1 .. n
        PROVE  upTo[k] = IF Known(table, Builtin[k]) THEN upTo[k - 1]
                         ELSE Append(upTo[k - 1], Builtin[k])
    <3>1. k \in 0 .. n /\ k # 0
      BY <1>2
    <3> QED BY <2>1, <3>1
  <2> QED BY <2>2, <2>3
<1> HIDE DEF upTo
<1>9. 0 \in P
  <2>1. upTo[0] \in V
    BY <1>3, <1>8
  <2>2. 0 \in 0 .. n /\ \A i \in 1 .. 0 : FALSE
    BY <1>2
  <2> HIDE DEF V
  <2> QED BY <2>1, <2>2
<1>10. ASSUME NEW k \in 1 .. n, k - 1 \in P
       PROVE  k \in P
  <2> DEFINE q == upTo[k - 1]
             r == upTo[k]
  <2>1. q \in Seq(ProfileRecord) /\ Has(q, k - 1) /\ k \in 0 .. n
    BY <1>2, <1>10
  <2>2. r = IF Known(table, Builtin[k]) THEN q ELSE Append(q, Builtin[k])
    BY <1>8
  <2>3. Builtin[k] \in ProfileRecord
    BY <1>2
  <2>4. \A i \in 1 .. k : i \in 1 .. k - 1 \/ i = k
    BY <1>2
  <2> HIDE DEF q, r
  <2>5. r \in Seq(ProfileRecord) /\ Has(r, k)
    <3>1. CASE Known(table, Builtin[k])
      BY <2>1, <2>2, <2>4, <3>1
    <3>2. CASE ~Known(table, Builtin[k])
      <4>1. r = Append(q, Builtin[k])
        BY <2>2, <3>2
      <4>2. /\ r \in Seq(ProfileRecord) /\ Len(q) \in Nat /\ Len(r) = Len(q) + 1
            /\ DOMAIN q = 1 .. Len(q) /\ DOMAIN r = 1 .. Len(r)
            /\ (\A j \in 1 .. Len(q) : r[j] = q[j]) /\ r[Len(q) + 1] = Builtin[k]
        BY <2>1, <2>3, <4>1, AppendProperties, LenProperties
      <4>3. Len(q) + 1 \in DOMAIN r /\ \A j \in DOMAIN q : j \in DOMAIN r
        BY <4>2
      <4>4. Holds(r, Builtin[k])
        BY <4>2, <4>3 DEF Holds
      <4>5. \A p : Holds(q, p) => Holds(r, p)
        BY <4>2, <4>3 DEF Holds
      <4> QED BY <2>1, <2>4, <4>2, <4>4, <4>5
    <3> QED BY <3>1, <3>2
  <2> HIDE DEF Has
  <2> QED BY <2>1, <2>5 DEF r
<1>11. n \in P
  <2> HIDE DEF P
  <2>1. \A i \in 0 .. n : i \in P
    BY <1>2, <1>9, <1>10, HoldsUpTo
  <2> QED BY <1>2, <2>1
<1>12. upTo[n] \in V /\ Has(upTo[n], n)
  BY <1>11
<1> QED BY <1>1, <1>2, <1>12 DEF Profiles, ProfileRecord

\* No profile is lost, a profile that was tuned is not changed, and each built-in name is
\* there.
LEMMA EnsureKeeps ==
  ASSUME NEW table \in Profiles
  PROVE  LET t == EnsureBuiltinProfiles(table)
         IN /\ t \in Profiles
            /\ \A i \in DOMAIN table :
                 /\ i \in DOMAIN t /\ t[i].name = table[i].name
                 /\ SameTuning(table[i].server, LegacyServer) \/ t[i] = table[i]
            /\ \A b \in DOMAIN Builtin : \E j \in DOMAIN t : t[j].name = Builtin[b].name
<1> DEFINE t == EnsureBuiltinProfiles(table)
           old == [i \in DOMAIN table |-> Current(table, i)]
           new == Missing(table)
<1>1. t = old \o new
  BY DEF EnsureBuiltinProfiles
<1>2. Len(table) \in Nat /\ DOMAIN table = 1 .. Len(table)
  BY ProfilesTyped
<1>3. ASSUME NEW i \in DOMAIN table
      PROVE  /\ Current(table, i) \in ProfileRecord /\ Current(table, i).name = table[i].name
             /\ SameTuning(table[i].server, LegacyServer) \/ Current(table, i) = table[i]
  <2> DEFINE builtins == {b \in DOMAIN Builtin : Same(Builtin[b], table[i])}
  <2>1. table[i] \in ProfileRecord
    BY ProfilesTyped
  <2>2. builtins # {} => Builtin[FirstOf(builtins)].server \in Settings
    <3>1. builtins \in SUBSET Nat /\ \A b \in builtins : Builtin[b].server \in Settings
      BY LaunchAssumption, ProfilesTyped
    <3> HIDE DEF builtins
    <3> QED BY <3>1, FirstIsLeast
  <2>3. \/ Current(table, i) = table[i]
        \/ /\ Current(table, i) = [table[i] EXCEPT !.server = Builtin[FirstOf(builtins)].server]
           /\ builtins # {} /\ SameTuning(table[i].server, LegacyServer)
    BY DEF Current
  <2> HIDE DEF builtins
  <2> QED BY <2>1, <2>2, <2>3 DEF ProfileRecord
<1>4. old \in Seq(ProfileRecord) /\ Len(old) = Len(table)
  <2>1. old \in [1 .. Len(table) -> ProfileRecord]
    BY <1>2, <1>3
  <2> HIDE DEF old
  <2> QED BY <1>2, <2>1
<1>5. new \in Seq(ProfileRecord)
  BY MissingAdded DEF Profiles, ProfileRecord
<1>6. \A b \in DOMAIN Builtin : Known(table, Builtin[b]) \/ Holds(new, Builtin[b])
  BY MissingAdded
<1>7. \A i \in DOMAIN table : old[i] = Current(table, i)
  OBVIOUS
<1> HIDE DEF t, old, new
<1>8. /\ t \in Seq(ProfileRecord) /\ Len(new) \in Nat /\ Len(t) = Len(old) + Len(new)
      /\ DOMAIN t = 1 .. Len(t) /\ DOMAIN new = 1 .. Len(new)
      /\ \A i \in 1 .. Len(old) + Len(new) :
           t[i] = IF i <= Len(old) THEN old[i] ELSE new[i - Len(old)]
  BY <1>1, <1>4, <1>5, ConcatProperties, LenProperties
<1>9. \A i \in DOMAIN table : i \in DOMAIN t /\ t[i] = Current(table, i)
  BY <1>2, <1>4, <1>7, <1>8
<1>10. \A j \in DOMAIN new : Len(old) + j \in DOMAIN t /\ t[Len(old) + j] = new[j]
  <2>1. Len(old) \in Nat
    BY <1>2, <1>4
  <2>2. ASSUME NEW j \in 1 .. Len(new)
        PROVE  /\ Len(old) + j \in 1 .. Len(old) + Len(new)
               /\ ~(Len(old) + j <= Len(old)) /\ (Len(old) + j) - Len(old) = j
    BY <1>8, <2>1
  <2> QED BY <1>8, <2>2
<1>11. ASSUME NEW b \in DOMAIN Builtin
       PROVE  \E j \in DOMAIN t : t[j].name = Builtin[b].name
  <2>1. CASE Known(table, Builtin[b])
    BY <1>3, <1>9, <2>1 DEF Known, Same
  <2>2. CASE Holds(new, Builtin[b])
    BY <1>10, <2>2 DEF Holds
  <2> QED BY <1>6, <2>1, <2>2
<1>12. t \in Profiles
  BY <1>8 DEF Profiles, ProfileRecord
<1> QED BY <1>3, <1>9, <1>11, <1>12 DEF t

--------------------------------------------------------------------------------

(* The arguments. *)

LEMMA Parity ==
  ASSUME NEW n \in Nat
  PROVE  \/ n % 2 = 0 /\ (n + 1) % 2 = 1
         \/ n % 2 = 1 /\ (n + 1) % 2 = 0
<1>1. n % 2 = 0 \/ n % 2 = 1
  OBVIOUS
<1> QED BY <1>1

Alternates(args) == \A i \in DOMAIN args : (args[i][1] \in Valued) = (i % 2 = 1)

Drafts(args) == \E i \in DOMAIN args : DraftMode(args, i)

\* What one more argument does to those that were kept.
LEMMA ArgumentAppended ==
  ASSUME NEW out \in Seq(Argument), NEW a \in Argument
  PROVE  LET r == Append(out, a)
         IN /\ r \in Seq(Argument) /\ Len(out) \in Nat /\ Len(r) = Len(out) + 1
            /\ DOMAIN out = 1 .. Len(out) /\ DOMAIN r = 1 .. Len(out) + 1
            /\ (\A i \in 1 .. Len(out) : r[i] = out[i]) /\ r[Len(out) + 1] = a
BY AppendProperties, LenProperties

Keeps(args, s, k) ==
  /\ Alternates(s.out) /\ ~Drafts(s.out)
  /\ k % 2 = 0 => ~s.skip /\ Len(s.out) % 2 = 0
  /\ k % 2 = 1 => \/ s.skip /\ Len(s.out) % 2 = 0
                  \/ /\ ~s.skip /\ Len(s.out) % 2 = 1
                     /\ s.out[Len(s.out)] = args[k] /\ ~DraftMode(args, k)

Kept(args, s, k) ==
  /\ s \in [out : Seq(Argument), skip : BOOLEAN]
  /\ ~Given(s.out, DraftOption)
  /\ Paired(args) => Keeps(args, s, k)

\* An argument is kept or dropped, and with it what belongs to it.
LEMMA ArgumentKept ==
  ASSUME NEW args \in Seq(Argument), NEW s, NEW k \in 1 .. Len(args), Kept(args, s, k - 1)
  PROVE  Kept(args, KeepArgument(args, s, k), k)
<1> DEFINE t == KeepArgument(args, s, k)
           drop == args[k][1] \in DraftOption \/ DraftMode(args, k)
           out == s.out
           r == Append(out, args[k])
<1>1. /\ Len(args) \in Nat /\ DOMAIN args = 1 .. Len(args) /\ args[k] \in Argument
      /\ out \in Seq(Argument) /\ s.skip \in BOOLEAN
  BY LenProperties, ElementOfSeq DEF Kept
<1>2. /\ r \in Seq(Argument) /\ Len(out) \in Nat /\ Len(r) = Len(out) + 1
      /\ DOMAIN out = 1 .. Len(out) /\ DOMAIN r = 1 .. Len(out) + 1
      /\ (\A i \in 1 .. Len(out) : r[i] = out[i]) /\ r[Len(out) + 1] = args[k]
  BY <1>1, ArgumentAppended
<1>3. \/ s.skip /\ t = [out |-> out, skip |-> FALSE]
      \/ ~s.skip /\ drop /\ t = [out |-> out, skip |-> TRUE]
      \/ ~s.skip /\ ~drop /\ t = [out |-> r, skip |-> FALSE]
  BY DEF KeepArgument
<1> HIDE DEF t, r
<1>4. t \in [out : Seq(Argument), skip : BOOLEAN]
  <2>1. CASE t = [out |-> r, skip |-> FALSE]
    BY <1>2, <2>1
  <2>2. CASE t = [out |-> out, skip |-> FALSE]
    BY <1>1, <2>2
  <2>3. CASE t = [out |-> out, skip |-> TRUE]
    BY <1>1, <2>3
  <2> HIDE DEF out, drop
  <2> QED BY <1>3, <2>1, <2>2, <2>3
<1>5. ~Given(t.out, DraftOption)
  <2>1. ~Given(out, DraftOption)
    BY DEF Kept
  <2>2. ASSUME ~drop, \A i \in DOMAIN out : out[i][1] \notin DraftOption
        PROVE  \A i \in DOMAIN r : r[i][1] \notin DraftOption
    <3>1. args[k][1] \notin DraftOption
      BY <2>2
    <3>2. \A i \in DOMAIN r : i \in 1 .. Len(out) \/ i = Len(out) + 1
      BY <1>2
    <3> HIDE DEF out
    <3> QED BY <1>2, <2>2, <3>1, <3>2
  <2> HIDE DEF drop, out
  <2> QED BY <1>3, <2>1, <2>2 DEF Given
<1>6. ASSUME Paired(args)
      PROVE  Keeps(args, t, k)
  <2>1. Keeps(args, s, k - 1) /\ k \in Nat
    BY <1>1, <1>6 DEF Kept
  <2>2. Alternates(out) /\ ~Drafts(out)
    BY <2>1 DEF Keeps
  <2>3. (args[k][1] \in Valued) = (k % 2 = 1)
    BY <1>1, <1>6 DEF Paired
  <2>4. (k % 2 = 1 /\ (k - 1) % 2 = 0) \/ (k % 2 = 0 /\ (k - 1) % 2 = 1)
    BY <2>1
  <2>5. CASE k % 2 = 1
    <3>1. ~s.skip /\ Len(out) % 2 = 0
      BY <2>1, <2>4, <2>5 DEF Keeps
    <3>2. CASE drop
      <4>1. t.out = out /\ t.skip
        BY <1>3, <3>1, <3>2
      <4> HIDE DEF out, drop
      <4> QED BY <2>2, <2>5, <3>1, <4>1 DEF Keeps
    <3>3. CASE ~drop
      <4>1. t.out = r /\ ~t.skip
        BY <1>3, <3>1, <3>3
      <4>2. ~DraftMode(args, k)
        BY <3>3
      <4>3. (Len(out) + 1) % 2 = 1
        BY <1>2, <3>1, Parity
      <4>4. Alternates(r)
        <5>1. \A i \in DOMAIN r : i \in 1 .. Len(out) \/ i = Len(out) + 1
          BY <1>2
        <5> HIDE DEF out, drop
        <5> QED BY <1>2, <2>2, <2>3, <2>5, <4>3, <5>1 DEF Alternates
      <4>5. ~Drafts(r)
        <5>1. ASSUME NEW i \in DOMAIN r, DraftMode(r, i)
              PROVE  FALSE
          <6>1. i < Len(out) + 1 /\ r[i][1] = "--spec-type" /\ r[i + 1][1] = "draft-mtp"
            BY <1>2, <5>1 DEF DraftMode
          <6>2. i \in 1 .. Len(out)
            BY <1>2, <6>1
          <6>3. CASE i = Len(out)
            <7>1. out[i][1] \notin Valued
              <8> HIDE DEF out, drop
              <8>1. i \in DOMAIN out
                BY <1>2, <6>2
              <8>2. i % 2 = 0
                BY <3>1, <6>3
              <8> QED BY <2>2, <8>1, <8>2 DEF Alternates
            <7>2. out[i][1] = "--spec-type"
              BY <1>2, <6>1, <6>2
            <7> QED BY <7>1, <7>2 DEF Valued
          <6>4. CASE i # Len(out)
            <7>1. i + 1 \in 1 .. Len(out) /\ i < Len(out)
              BY <1>2, <6>2, <6>4
            <7>2. DraftMode(out, i)
              BY <1>2, <6>1, <6>2, <7>1 DEF DraftMode
            <7> QED BY <1>2, <2>2, <6>2, <7>2 DEF Drafts
          <6> QED BY <6>3, <6>4
        <5> QED BY <5>1 DEF Drafts
      <4> HIDE DEF out, drop
      <4> QED BY <1>2, <2>5, <4>1, <4>2, <4>3, <4>4, <4>5 DEF Keeps
    <3> QED BY <3>2, <3>3
  <2>6. CASE k % 2 = 0
    <3>1. args[k][1] \notin Valued
      BY <2>3, <2>6
    <3>2. ~drop
      BY <3>1 DEF DraftOption, Valued, DraftMode
    <3>3. CASE s.skip
      <4>1. t.out = out /\ ~t.skip
        BY <1>3, <3>3
      <4>2. Len(out) % 2 = 0
        BY <2>1, <2>4, <2>6, <3>3 DEF Keeps
      <4> HIDE DEF out, drop
      <4> QED BY <2>2, <2>6, <4>1, <4>2 DEF Keeps
    <3>4. CASE ~s.skip
      <4>1. t.out = r /\ ~t.skip
        BY <1>3, <3>2, <3>4
      <4>2. Len(out) % 2 = 1 /\ out[Len(out)] = args[k - 1] /\ ~DraftMode(args, k - 1)
        BY <2>1, <2>4, <2>6, <3>4 DEF Keeps
      <4>3. (Len(out) + 1) % 2 = 0
        BY <1>2, <4>2, Parity
      <4>4. Alternates(r)
        <5>1. \A i \in DOMAIN r : i \in 1 .. Len(out) \/ i = Len(out) + 1
          BY <1>2
        <5> HIDE DEF out, drop
        <5> QED BY <1>2, <2>2, <3>1, <4>3, <5>1 DEF Alternates
      <4>5. ~Drafts(r)
        <5>1. ASSUME NEW i \in DOMAIN r, DraftMode(r, i)
              PROVE  FALSE
          <6>1. i < Len(out) + 1 /\ r[i][1] = "--spec-type" /\ r[i + 1][1] = "draft-mtp"
            BY <1>2, <5>1 DEF DraftMode
          <6>2. i \in 1 .. Len(out)
            BY <1>2, <6>1
          <6>3. CASE i = Len(out)
            <7>1. args[k - 1][1] = "--spec-type" /\ args[k][1] = "draft-mtp"
              BY <1>2, <4>2, <6>1, <6>2, <6>3
            <7>2. k - 1 < Len(args) /\ (k - 1) + 1 = k
              BY <1>1, <2>1
            <7> HIDE DEF out, drop
            <7> QED BY <4>2, <7>1, <7>2 DEF DraftMode
          <6>4. CASE i # Len(out)
            <7>1. i + 1 \in 1 .. Len(out) /\ i < Len(out)
              BY <1>2, <6>2, <6>4
            <7>2. DraftMode(out, i)
              BY <1>2, <6>1, <6>2, <7>1 DEF DraftMode
            <7> QED BY <1>2, <2>2, <6>2, <7>2 DEF Drafts
          <6> QED BY <6>3, <6>4
        <5> QED BY <5>1 DEF Drafts
      <4> HIDE DEF out, drop
      <4> QED BY <1>2, <2>6, <4>1, <4>3, <4>4, <4>5 DEF Keeps
    <3> QED BY <3>3, <3>4
  <2> QED BY <2>4, <2>5, <2>6
<1> HIDE DEF out, drop
<1> QED BY <1>4, <1>5, <1>6 DEF Kept, t

\* What the guard leaves has no draft option, and no draft mode, if flags and values went
\* together.
LEMMA WithoutDraftsKeeps ==
  ASSUME NEW args \in Seq(Argument)
  PROVE  /\ WithoutDrafts(args) \in Seq(Argument)
         /\ ~Given(WithoutDrafts(args), DraftOption)
         /\ Paired(args) => Paired(WithoutDrafts(args)) /\ ~Drafts(WithoutDrafts(args))
<1> DEFINE n == Len(args)
           b == [out |-> <<>>, skip |-> FALSE]
           V == [out : Seq(Argument), skip : BOOLEAN]
           Fills(g) == g = [k \in 0 .. Len(args) |->
                              IF k = 0 THEN [out |-> <<>>, skip |-> FALSE]
                              ELSE KeepArgument(args, g[k - 1], k)]
           after == CHOOSE g : Fills(g)
           advance == [p \in V \X (1 .. n) |-> KeepArgument(args, p[1], p[2])]
           P == {k \in 0 .. n : Kept(args, after[k], k)}
<1>1. WithoutDrafts(args) = after[n].out
  BY DEF WithoutDrafts
<1>2. n \in Nat /\ \A k \in 1 .. n : args[k] \in Argument
  BY LenProperties, ElementOfSeq
<1>3. b \in V
  BY EmptySeq
<1> HIDE DEF n
<1>4. advance \in [V \X (1 .. n) -> V]
  <2>1. ASSUME NEW s \in V, NEW k \in 1 .. n
        PROVE  KeepArgument(args, s, k) \in V
    <3>1. s.out \in Seq(Argument) /\ args[k] \in Argument
      BY <1>2
    <3>2. Append(s.out, args[k]) \in Seq(Argument)
      BY <3>1, ArgumentAppended
    <3>3. \/ KeepArgument(args, s, k) = [out |-> s.out, skip |-> FALSE]
          \/ KeepArgument(args, s, k) = [out |-> s.out, skip |-> TRUE]
          \/ KeepArgument(args, s, k) = [out |-> Append(s.out, args[k]), skip |-> FALSE]
      BY DEF KeepArgument
    <3> DEFINE o == s.out
               r == Append(s.out, args[k])
               t == KeepArgument(args, s, k)
    <3> HIDE DEF o, r, t
    <3>4. o \in Seq(Argument) /\ r \in Seq(Argument)
      BY <3>1, <3>2 DEF o, r
    <3>5. \/ t = [out |-> o, skip |-> FALSE]
          \/ t = [out |-> o, skip |-> TRUE]
          \/ t = [out |-> r, skip |-> FALSE]
      BY <3>3 DEF o, r, t
    <3>9. t \in V
      <4>6. CASE t = [out |-> o, skip |-> FALSE]
        BY <3>4, <4>6
      <4>7. CASE t = [out |-> o, skip |-> TRUE]
        BY <3>4, <4>7
      <4>8. CASE t = [out |-> r, skip |-> FALSE]
        BY <3>4, <4>8
      <4> HIDE DEF V
      <4> QED BY <3>5, <4>6, <4>7, <4>8
    <3> QED BY <3>9 DEF t
  <2> HIDE DEF V
  <2> QED BY <2>1
<1>5. PICK g : Unfolds(g, n, V, b, advance)
  <2> HIDE DEF advance, V, b
  <2> QED BY <1>2, <1>3, <1>4, RecursionExists
<1>6. Fills(g)
  <2>1. g \in [0 .. n -> V] /\ g[0] = b /\ \A i \in 1 .. n : g[i] = advance[<<g[i - 1], i>>]
    BY <1>5 DEF Unfolds
  <2>2. \A i \in 1 .. n : advance[<<g[i - 1], i>>] = KeepArgument(args, g[i - 1], i)
    <3>1. \A i \in 1 .. n : g[i - 1] \in V
      BY <1>2, <2>1
    <3> HIDE DEF V
    <3> QED BY <3>1
  <2>3. \A k \in 0 .. n : k # 0 => k \in 1 .. n
    BY <1>2
  <2> HIDE DEF advance, V, b
  <2>4. g = [k \in 0 .. n |-> IF k = 0 THEN b ELSE KeepArgument(args, g[k - 1], k)]
    BY <2>1, <2>2, <2>3
  <2> QED BY <2>4 DEF n, b
<1>7. Fills(after)
  <2> HIDE DEF Fills
  <2> QED BY <1>6
<1>8. after[0] = b /\ \A k \in 1 .. n : after[k] = KeepArgument(args, after[k - 1], k)
  <2> HIDE DEF after
  <2>1. after = [k \in 0 .. n |-> IF k = 0 THEN b ELSE KeepArgument(args, after[k - 1], k)]
    BY <1>7 DEF n, b
  <2> HIDE DEF V, b
  <2>2. after[0] = b
    BY <1>2, <2>1
  <2>3. ASSUME NEW k \in 1 .. n
        PROVE  after[k] = KeepArgument(args, after[k - 1], k)
    <3>1. k \in 0 .. n /\ k # 0
      BY <1>2
    <3> QED BY <2>1, <3>1
  <2> QED BY <2>2, <2>3
<1> HIDE DEF after
<1>9. 0 \in P
  <2>1. DOMAIN <<>> = {} /\ Len(<<>>) = 0 /\ 0 % 2 = 0
    OBVIOUS
  <2>2. Kept(args, b, 0)
    BY <1>3, <2>1 DEF Kept, Keeps, Given, Alternates, Drafts
  <2>3. 0 \in 0 .. n
    BY <1>2
  <2> HIDE DEF b, V
  <2> QED BY <1>8, <2>2, <2>3
<1>10. ASSUME NEW k \in 1 .. n, k - 1 \in P
       PROVE  k \in P
  <2>1. Kept(args, KeepArgument(args, after[k - 1], k), k)
    <3>1. Kept(args, after[k - 1], k - 1) /\ k \in 1 .. Len(args)
      BY <1>10 DEF n
    <3> QED BY <3>1, ArgumentKept
  <2>2. k \in 0 .. n
    BY <1>2
  <2> QED BY <1>8, <2>1, <2>2
<1>11. n \in P
  <2> HIDE DEF P
  <2>1. \A i \in 0 .. n : i \in P
    BY <1>2, <1>9, <1>10, HoldsUpTo
  <2> QED BY <1>2, <2>1
<1>12. Kept(args, after[n], n)
  BY <1>11
<1>13. ASSUME Paired(args)
       PROVE  Paired(after[n].out) /\ ~Drafts(after[n].out)
  <2>1. Keeps(args, after[n], n) /\ n % 2 = 0
    BY <1>12, <1>13 DEF Kept, Paired, n
  <2> QED BY <2>1 DEF Keeps, Paired, Alternates
<1> QED BY <1>1, <1>12, <1>13 DEF Kept

\* A flag and its value are put last.
LEMMA PairAdded ==
  ASSUME NEW args \in Seq(Argument), NEW flag \in Text, NEW value \in Text
  PROVE  LET r == args \o <<Word(flag), Word(value)>>
         IN /\ r \in Seq(Argument) /\ Len(args) \in Nat /\ Len(r) = Len(args) + 2
            /\ DOMAIN args = 1 .. Len(args) /\ DOMAIN r = 1 .. Len(args) + 2
            /\ \A i \in 1 .. Len(args) : r[i] = args[i]
            /\ r[Len(args) + 1] = Word(flag) /\ r[Len(args) + 2] = Word(value)
            /\ SubSeq(r, 1, Len(args)) = args
<1> DEFINE pair == <<Word(flag), Word(value)>>
           r == args \o pair
<1>1. Word(flag) \in Argument /\ Word(value) \in Argument
  BY WordTyped
<1>2. pair \in Seq(Argument) /\ Len(pair) = 2 /\ pair[1] = Word(flag) /\ pair[2] = Word(value)
  BY <1>1
<1>3. Len(args) \in Nat /\ DOMAIN args = 1 .. Len(args)
  BY LenProperties
<1> HIDE DEF pair
<1>4. /\ r \in Seq(Argument) /\ Len(r) = Len(args) + 2
      /\ \A i \in 1 .. Len(args) + 2 :
           r[i] = IF i <= Len(args) THEN args[i] ELSE pair[i - Len(args)]
  <2>1. /\ r \in Seq(Argument) /\ Len(r) = Len(args) + Len(pair)
        /\ \A i \in 1 .. Len(args) + Len(pair) :
             r[i] = IF i <= Len(args) THEN args[i] ELSE pair[i - Len(args)]
    BY <1>2, ConcatProperties
  <2> HIDE DEF r
  <2> QED BY <1>2, <2>1
<1>5. DOMAIN r = 1 .. Len(args) + 2
  BY <1>4, LenProperties
<1> HIDE DEF r
<1>6. \A i \in 1 .. Len(args) : r[i] = args[i]
  BY <1>3, <1>4
<1>7. r[Len(args) + 1] = Word(flag) /\ r[Len(args) + 2] = Word(value)
  <2>1. /\ Len(args) + 1 \in 1 .. Len(args) + 2 /\ ~(Len(args) + 1 <= Len(args))
        /\ (Len(args) + 1) - Len(args) = 1
        /\ Len(args) + 2 \in 1 .. Len(args) + 2 /\ ~(Len(args) + 2 <= Len(args))
        /\ (Len(args) + 2) - Len(args) = 2
    BY <1>3
  <2> QED BY <1>2, <1>4, <2>1
<1>8. SubSeq(r, 1, Len(args)) = args
  <2> DEFINE q == SubSeq(r, 1, Len(args))
  <2>1. /\ q \in Seq(Argument) /\ Len(q) = Len(args)
        /\ \A i \in 1 .. Len(args) : q[i] = r[i]
    BY <1>3, <1>4, SubSeqProperties
  <2> HIDE DEF q
  <2>2. \A i \in 1 .. Len(args) : q[i] = args[i]
    BY <1>6, <2>1
  <2> QED BY <2>1, <2>2, SeqEqual DEF q
<1> QED BY <1>3, <1>4, <1>5, <1>6, <1>7, <1>8 DEF r, pair

LEMMA PairedWhenAdded ==
  ASSUME NEW args \in Seq(Argument), NEW flag \in Text, NEW value \in Text,
         flag \in Valued, value \notin Valued, Paired(args)
  PROVE  Paired(args \o <<Word(flag), Word(value)>>)
<1> DEFINE r == args \o <<Word(flag), Word(value)>>
           n == Len(args)
<1>1. /\ n \in Nat /\ Len(r) = n + 2 /\ DOMAIN args = 1 .. n /\ DOMAIN r = 1 .. n + 2
      /\ \A i \in 1 .. n : r[i] = args[i]
      /\ r[n + 1] = Word(flag) /\ r[n + 2] = Word(value)
  BY PairAdded
<1>2. n % 2 = 0 /\ \A i \in DOMAIN args : (args[i][1] \in Valued) = (i % 2 = 1)
  BY DEF Paired
<1> HIDE DEF r, n
<1>3. (n + 1) % 2 = 1 /\ (n + 2) % 2 = 0
  <2>1. n + 1 \in Nat /\ (n + 1) + 1 = n + 2
    BY <1>1
  <2>2. (n + 1) % 2 = 1
    BY <1>1, <1>2, Parity
  <2>3. ((n + 1) + 1) % 2 = 0
    BY <2>1, <2>2, Parity
  <2> QED BY <2>1, <2>2, <2>3
<1>4. r[n + 1][1] \in Valued /\ r[n + 2][1] \notin Valued
  BY <1>1, WordTyped
<1>5. ASSUME NEW i \in DOMAIN r
      PROVE  (r[i][1] \in Valued) = (i % 2 = 1)
  <2>1. i \in DOMAIN args \/ i = n + 1 \/ i = n + 2
    BY <1>1
  <2>2. CASE i \in DOMAIN args
    BY <1>1, <1>2, <2>2
  <2>3. CASE i = n + 1
    BY <1>3, <1>4, <2>3
  <2>4. CASE i = n + 2
    BY <1>3, <1>4, <2>4
  <2> QED BY <2>1, <2>2, <2>3, <2>4
<1>6. Len(r) % 2 = 0
  BY <1>1, <1>3
<1> QED BY <1>5, <1>6 DEF Paired, r

\* r is args with more arguments after it.
Continues(args, r) == Len(args) <= Len(r) /\ \A i \in 1 .. Len(args) : r[i] = args[i]

\* An option that is added if it is missing follows those there are.
LEMMA PushMissingKeeps ==
  ASSUME NEW args \in Seq(Argument), NEW flags, NEW flag \in Text, NEW value \in Text,
         flag \in Valued, value \notin Valued
  PROVE  LET r == PushMissing(args, flags, flag, value)
         IN r \in Seq(Argument) /\ Continues(args, r) /\ (Paired(args) => Paired(r))
<1> DEFINE r == PushMissing(args, flags, flag, value)
           q == args \o <<Word(flag), Word(value)>>
<1>1. r = args \/ r = q
  BY DEF PushMissing
<1>2. q \in Seq(Argument) /\ Continues(args, q)
  <2>1. /\ q \in Seq(Argument) /\ Len(args) \in Nat /\ Len(q) = Len(args) + 2
        /\ \A i \in 1 .. Len(args) : q[i] = args[i]
    BY PairAdded
  <2> HIDE DEF q
  <2> QED BY <2>1 DEF Continues
<1>3. Paired(args) => Paired(q)
  BY PairedWhenAdded
<1>4. Len(args) \in Nat
  BY LenProperties
<1> HIDE DEF r, q
<1>5. Continues(args, args)
  BY <1>4 DEF Continues
<1> QED BY <1>1, <1>2, <1>3, <1>5 DEF r

\* The safeguards of a Qwen model are added.
LEMMA QwenKeeps ==
  ASSUME NEW m, NEW long, NEW args \in Seq(Argument)
  PROVE  LET r == QwenSafeguards(m, long, args)
         IN r \in Seq(Argument) /\ Continues(args, r) /\ (Paired(args) => Paired(r))
<1> DEFINE one == PushMissing(args, {"--reasoning-format"}, "--reasoning-format", "none")
           two == PushMissing(one, {"-ctk", "--cache-type-k"}, "-ctk", "q8_0")
           three == PushMissing(two, {"-ctv", "--cache-type-v"}, "-ctv", "q8_0")
           Good(r) == r \in Seq(Argument) /\ Continues(args, r) /\ (Paired(args) => Paired(r))
<1>1. /\ {"--reasoning-format", "none", "-ctk", "-ctv", "q8_0"} \subseteq Text
      /\ {"--reasoning-format", "-ctk", "-ctv"} \subseteq Valued
      /\ "none" \notin Valued /\ "q8_0" \notin Valued
  BY LaunchAssumption DEF SafeguardText, Valued, DraftFlag
<1>2. QwenSafeguards(m, long, args) \in {args, one, three}
  BY DEF QwenSafeguards
<1>3. \A r, s \in Seq(Argument) :
        Good(r) /\ Continues(r, s) /\ (Paired(r) => Paired(s)) => Good(s)
  <2>1. SUFFICES ASSUME NEW r \in Seq(Argument), NEW s \in Seq(Argument),
                        Continues(args, r), Continues(r, s)
                 PROVE  Continues(args, s)
    OBVIOUS
  <2>2. Len(args) \in Nat /\ Len(r) \in Nat /\ Len(s) \in Nat
    BY LenProperties
  <2> QED BY <2>1, <2>2 DEF Continues
<1>4. Good(args)
  BY LenProperties DEF Continues
<1>5. Good(one)
  BY <1>1, PushMissingKeeps
<1>6. Good(two)
  <2>1. two \in Seq(Argument) /\ Continues(one, two) /\ (Paired(one) => Paired(two))
    BY <1>1, <1>5, PushMissingKeeps
  <2> HIDE DEF one, two, Good
  <2> QED BY <1>3, <1>5, <2>1 DEF Good
<1>7. Good(three)
  <2>1. three \in Seq(Argument) /\ Continues(two, three) /\ (Paired(two) => Paired(three))
    BY <1>1, <1>6, PushMissingKeeps
  <2> HIDE DEF one, two, three, Good
  <2> QED BY <1>3, <1>6, <2>1 DEF Good
<1> HIDE DEF one, two, three, Good
<1>8. Good(QwenSafeguards(m, long, args))
  BY <1>2, <1>4, <1>5, <1>7
<1> QED BY <1>8 DEF Good

\* An option that is set brings no draft, and takes no value from its flag.
LEMMA SetArgPairKeeps ==
  ASSUME NEW args \in Seq(Argument), NEW flags, NEW flag \in Text, NEW value \in Text,
         flags \subseteq Valued, flag \in Valued, flag \notin DraftOption, flag # "--spec-type",
         value \notin Valued, flag # "draft-mtp", value # "draft-mtp"
  PROVE  LET r == SetArgPair(args, flags, flag, value)
         IN /\ r \in Seq(Argument)
            /\ ~Given(args, DraftOption) => ~Given(r, DraftOption)
            /\ ~Drafts(args) => ~Drafts(r)
            /\ Paired(args) => Paired(r)
<1> DEFINE r == SetArgPair(args, flags, flag, value)
           places == {k \in DOMAIN args : args[k][1] \in flags}
           i == FirstOf(places)
           n == Len(args)
           Changed(q) == /\ q \in Seq(Argument)
                         /\ \A j \in DOMAIN q :
                              \/ j \in DOMAIN args /\ q[j] = args[j]
                              \/ q[j][1] \in {flag, value}
<1>1. n \in Nat /\ DOMAIN args = 1 .. n /\ \A j \in 1 .. n : args[j] \in Argument
  BY LenProperties, ElementOfSeq
<1>2. places \in SUBSET Nat /\ places \subseteq DOMAIN args
  BY <1>1
<1>3. \/ ~Given(args, flags) /\ r = args \o <<Word(flag), Word(value)>>
      \/ Given(args, flags) /\ i < n /\ r = [args EXCEPT ![i + 1] = Word(value)]
      \/ Given(args, flags) /\ ~(i < n) /\ r = Append(args, Word(value))
  BY DEF SetArgPair
<1>4. Given(args, flags) => i \in 1 .. n /\ args[i][1] \in flags
  <2>1. Given(args, flags) => places # {}
    BY DEF Given
  <2>2. \A k \in places : k \in DOMAIN args /\ args[k][1] \in flags
    OBVIOUS
  <2> HIDE DEF places
  <2>3. places # {} => i \in places
    BY <1>2, FirstIsLeast
  <2> QED BY <1>1, <2>1, <2>2, <2>3
<1>5. Word(value) \in Argument /\ Word(value)[1] = value /\ Word(flag)[1] = flag
  BY WordTyped
<1> HIDE DEF r, i, places
<1>6. ASSUME ~Given(args, flags) /\ r = args \o <<Word(flag), Word(value)>>
      PROVE  Changed(r) /\ (Paired(args) => Paired(r))
  <2>1. /\ r \in Seq(Argument) /\ DOMAIN r = 1 .. n + 2
        /\ \A j \in 1 .. n : r[j] = args[j]
        /\ r[n + 1] = Word(flag) /\ r[n + 2] = Word(value)
    BY <1>6, PairAdded
  <2>2. ASSUME NEW j \in DOMAIN r
        PROVE  (j \in DOMAIN args /\ r[j] = args[j]) \/ r[j][1] \in {flag, value}
    <3>1. j \in 1 .. n \/ j = n + 1 \/ j = n + 2
      BY <1>1, <2>1
    <3> QED BY <1>1, <1>5, <2>1, <3>1
  <2>3. Paired(args) => Paired(r)
    BY <1>6, PairedWhenAdded
  <2>4. Changed(r)
    BY <2>1, <2>2
  <2> QED BY <2>3, <2>4
<1>7. ASSUME Given(args, flags) /\ i < n /\ r = [args EXCEPT ![i + 1] = Word(value)]
      PROVE  Changed(r) /\ (Paired(args) => Paired(r))
  <2>1. i \in 1 .. n /\ i + 1 \in 1 .. n /\ args[i][1] \in flags
    BY <1>1, <1>4, <1>7
  <2>2. /\ r \in Seq(Argument) /\ Len(r) = n /\ DOMAIN r = 1 .. n
        /\ \A j \in 1 .. n : j # i + 1 => r[j] = args[j]
        /\ r[i + 1] = Word(value)
    BY <1>1, <1>5, <1>7, <2>1, ExceptSeq
  <2>3. Changed(r)
    BY <1>1, <1>5, <2>2
  <2>4. ASSUME Paired(args)
        PROVE  Paired(r)
    <3>1. n % 2 = 0 /\ \A j \in DOMAIN args : (args[j][1] \in Valued) = (j % 2 = 1)
      BY <2>4 DEF Paired
    <3>2. i % 2 = 1
      BY <1>1, <2>1, <3>1
    <3>3. (i + 1) % 2 = 0
      BY <2>1, <3>2, Parity
    <3> HIDE DEF n
    <3>4. ASSUME NEW j \in DOMAIN r
          PROVE  (r[j][1] \in Valued) = (j % 2 = 1)
      <4>1. CASE j = i + 1
        BY <1>5, <2>2, <3>3, <4>1
      <4>2. CASE j # i + 1
        BY <1>1, <2>2, <3>1, <4>2
      <4> QED BY <4>1, <4>2
    <3> QED BY <2>2, <3>1, <3>4 DEF Paired
  <2> QED BY <2>3, <2>4
<1>8. ASSUME Given(args, flags) /\ ~(i < n) /\ r = Append(args, Word(value))
      PROVE  Changed(r) /\ ~Paired(args)
  <2>1. i = n /\ args[i][1] \in flags /\ i \in DOMAIN args
    BY <1>1, <1>4, <1>8
  <2>2. ~Paired(args)
    <3>1. SUFFICES ASSUME n % 2 = 0, (args[i][1] \in Valued) = (i % 2 = 1)
                   PROVE  FALSE
      BY <2>1 DEF Paired
    <3>2. i % 2 = 1
      BY <2>1, <3>1
    <3>3. i % 2 = 0
      BY <2>1, <3>1
    <3> QED BY <3>2, <3>3
  <2>3. /\ r \in Seq(Argument) /\ DOMAIN r = 1 .. n + 1
        /\ (\A j \in 1 .. n : r[j] = args[j]) /\ r[n + 1] = Word(value)
    BY <1>5, <1>8, ArgumentAppended
  <2>4. \A j \in DOMAIN r : j \in 1 .. n \/ j = n + 1
    BY <1>1, <2>3
  <2>5. Changed(r)
    BY <1>1, <1>5, <2>3, <2>4
  <2> QED BY <2>2, <2>5
<1>9. Changed(r) /\ (Paired(args) => Paired(r))
  BY <1>3, <1>6, <1>7, <1>8
<1>10. ~Given(args, DraftOption) => ~Given(r, DraftOption)
  <2>1. flag \notin DraftOption /\ value \notin DraftOption
    BY DEF DraftOption, Valued
  <2> QED BY <1>9, <2>1 DEF Given
<1>11. ASSUME Drafts(r)
       PROVE  Drafts(args)
  <2>1. PICK j \in DOMAIN r : r[j][1] = "--spec-type" /\ j < Len(r) /\ r[j + 1][1] = "draft-mtp"
    BY <1>11 DEF Drafts, DraftMode
  <2>2. value # "--spec-type"
    BY DEF Valued
  <2>3. Len(r) \in Nat /\ DOMAIN r = 1 .. Len(r)
    BY <1>9, LenProperties
  <2>4. j + 1 \in DOMAIN r
    BY <2>1, <2>3
  <2>5. j \in DOMAIN args /\ r[j] = args[j]
    BY <1>9, <2>1, <2>2
  <2>6. j + 1 \in DOMAIN args /\ r[j + 1] = args[j + 1]
    BY <1>9, <2>1, <2>4
  <2>7. j < n
    BY <1>1, <2>5, <2>6
  <2> QED BY <2>1, <2>5, <2>6, <2>7 DEF Drafts, DraftMode
<1> QED BY <1>9, <1>10, <1>11 DEF r

\* So do those of a Prism model.
LEMMA PrismKeeps ==
  ASSUME NEW m, NEW args \in Seq(Argument)
  PROVE  LET r == PrismSafeguards(m, args)
         IN /\ r \in Seq(Argument)
            /\ ~Given(args, DraftOption) => ~Given(r, DraftOption)
            /\ ~Drafts(args) => ~Drafts(r)
            /\ Paired(args) => Paired(r)
<1> DEFINE one == SetArgPair(args, {"--parallel", "-np"}, "--parallel", "1")
           two == SetArgPair(one, {"--temp"}, "--temp", "1.0")
           r == PrismSafeguards(m, args)
<1>1. r = args \/ r = two
  BY DEF PrismSafeguards
<1>2. /\ {"--parallel", "1", "--temp", "1.0"} \subseteq Text
      /\ {"--parallel", "-np"} \subseteq Valued /\ {"--temp"} \subseteq Valued
      /\ "--parallel" \in Valued /\ "--temp" \in Valued
      /\ "--parallel" \notin DraftOption /\ "--temp" \notin DraftOption
      /\ "--parallel" # "--spec-type" /\ "--temp" # "--spec-type"
      /\ "1" \notin Valued /\ "1.0" \notin Valued
      /\ "--parallel" # "draft-mtp" /\ "--temp" # "draft-mtp"
      /\ "1" # "draft-mtp" /\ "1.0" # "draft-mtp"
  BY LaunchAssumption DEF SafeguardText, Valued, DraftOption, DraftFlag
<1>3. /\ one \in Seq(Argument)
      /\ ~Given(args, DraftOption) => ~Given(one, DraftOption)
      /\ ~Drafts(args) => ~Drafts(one)
      /\ Paired(args) => Paired(one)
  BY <1>2, SetArgPairKeeps
<1> HIDE DEF one
<1>4. /\ two \in Seq(Argument)
      /\ ~Given(one, DraftOption) => ~Given(two, DraftOption)
      /\ ~Drafts(one) => ~Drafts(two)
      /\ Paired(one) => Paired(two)
  BY <1>2, <1>3, SetArgPairKeeps
<1> HIDE DEF two, r
<1> QED BY <1>1, <1>3, <1>4 DEF r

(* The layers. *)

LEMMA ShareIsBelow ==
  ASSUME NEW a \in Nat, NEW b \in Nat \ {0}, a < 80 * b
  PROVE  a \div b \in 0 .. 79
OBVIOUS

\* A model that does not fit is not given all layers.
LEMMA LayersLeftOut ==
  ASSUME NEW m \in Model, NEW mb \in Nat, SizeMb[m] + OverheadMb > mb
  PROVE  RecommendedLayers(m, mb) \in 0 .. 79
<1> DEFINE size == SizeMb[m]
           usable == mb - OverheadMb
           share == (usable * 80) \div size
<1>1. size \in Nat \ {0} /\ OverheadMb = 768
  BY LaunchAssumption DEF OverheadMb
<1>2. RecommendedLayers(m, mb) =
        IF size + OverheadMb <= mb THEN 0 - 1
        ELSE IF mb > OverheadMb THEN IF share < 1 THEN 1 ELSE IF share > 80 THEN 80 ELSE share
        ELSE 0
  BY DEF RecommendedLayers
<1> HIDE DEF size
<1>3. ~(size + OverheadMb <= mb)
  BY <1>1 DEF size
<1>4. ASSUME mb > OverheadMb
      PROVE  share \in 0 .. 79
  <2>1. usable \in Nat /\ usable < size
    BY <1>1, <1>3, <1>4
  <2> HIDE DEF usable
  <2>2. usable * 80 \in Nat /\ usable * 80 < 80 * size
    BY <1>1, <2>1
  <2> QED BY <1>1, <2>2, ShareIsBelow
<1> HIDE DEF share
<1> QED BY <1>1, <1>2, <1>3, <1>4

(* What a start passes to llama-server. *)

LEMMA SettingsForTyped ==
  ASSUME profiles \in Profiles, server \in Settings, NEW m \in Model
  PROVE  /\ ServerSettingsFor(m) \in Settings
         /\ HasProfile(m) => \E i \in Matching(profiles, m) :
              /\ profiles[i] \in ProfileRecord
              /\ ServerSettingsFor(m) = ResolvedProfileServer(m, profiles[i], server)
<1>1. CASE HasProfile(m)
  <2>1. ServerSettingsFor(m) =
          ResolvedProfileServer(m, ProfileFor(profiles, activeProfile, m), server)
    BY <1>1 DEF ServerSettingsFor
  <2>2. PICK i \in Matching(profiles, m) : ProfileFor(profiles, activeProfile, m) = profiles[i]
    BY <1>1, ProfileIsOwn DEF HasProfile
  <2>3. profiles[i] \in ProfileRecord
    BY ProfilesTyped DEF Matching
  <2>4. ResolvedProfileServer(m, profiles[i], server) \in Settings
    BY <2>3, ResolvedTyped
  <2> QED BY <2>1, <2>2, <2>3, <2>4
<1>2. CASE ~HasProfile(m)
  BY <1>2 DEF ServerSettingsFor
<1> QED BY <1>1, <1>2

LEMMA ConfigFields ==
  ASSUME profiles \in Profiles, server \in Settings, NEW m \in Model, NEW mb
  PROVE  LET s == ServerSettingsFor(m)
             config == ServerConfig(m, mb)
         IN /\ s.args \in Seq(Argument) /\ s.layers \in Int
            /\ config.key = s.key /\ config.long = s.long
            /\ config.layers = ResolveGpuLayers(m, s, mb)
            /\ config.args = PrismSafeguards(m, MtpGuard(m, QwenSafeguards(m, s.long, s.args)))
<1> DEFINE s == ServerSettingsFor(m)
           layers == ResolveGpuLayers(m, s, mb)
           args == PrismSafeguards(m, MtpGuard(m, QwenSafeguards(m, s.long, s.args)))
<1>1. s \in Settings
  BY SettingsForTyped
<1>2. ServerConfig(m, mb) = [s EXCEPT !.layers = layers, !.args = args]
  BY DEF ServerConfig
<1> HIDE DEF s, layers, args
<1>3. s.args \in Seq(Argument) /\ s.layers \in Int
  BY <1>1 DEF Settings
<1>4. LET config == ServerConfig(m, mb)
      IN /\ config.key = s.key /\ config.long = s.long
         /\ config.layers = layers /\ config.args = args
  BY <1>1, <1>2 DEF Settings
<1> QED BY <1>3, <1>4 DEF s, layers, args

\* With typed settings, every model is started as its safeguards ask.
LEMMA StartsAsAsked ==
  ASSUME profiles \in Profiles, server \in Settings
  PROVE  TunedByProfile /\ DraftOnlyForMtp /\ PairsKept /\ LayersFit
<1>1. ASSUME NEW m \in Model, HasProfile(m)
      PROVE  LET config == ServerConfig(m, 0 - 1)
             IN \E i \in DOMAIN profiles :
                  LET tuned == ResolvedProfileServer(m, profiles[i], server)
                  IN /\ SameFile[profiles[i].model] = SameFile[m]
                     /\ tuned.key = config.key /\ tuned.long = config.long
                     /\ tuned.args = SubSeq(config.args, 1, Len(tuned.args))
  <2> DEFINE s == ServerSettingsFor(m)
             config == ServerConfig(m, 0 - 1)
             r == QwenSafeguards(m, s.long, s.args)
  <2>1. PICK i \in Matching(profiles, m) : s = ResolvedProfileServer(m, profiles[i], server)
    BY <1>1, SettingsForTyped
  <2>2. /\ s.args \in Seq(Argument) /\ config.key = s.key /\ config.long = s.long
        /\ config.args = PrismSafeguards(m, MtpGuard(m, r))
    BY ConfigFields
  <2>3. config.args = r
    <3>1. MtpGuard(m, r) = r
      BY <1>1 DEF MtpGuard
    <3>2. PrismSafeguards(m, r) = r
      BY <1>1 DEF PrismSafeguards
    <3> HIDE DEF r, config
    <3> QED BY <2>2, <3>1, <3>2
  <2>4. r \in Seq(Argument) /\ Continues(s.args, r)
    BY <2>2, QwenKeeps
  <2> HIDE DEF s, config, r
  <2>5. SubSeq(r, 1, Len(s.args)) = s.args
    <3> DEFINE args == s.args
               q == SubSeq(r, 1, Len(args))
    <3>1. args \in Seq(Argument) /\ Len(args) \in Nat /\ Len(r) \in Nat
      BY <2>2, <2>4, LenProperties
    <3> HIDE DEF args
    <3>2. Len(args) <= Len(r) /\ \A j \in 1 .. Len(args) : r[j] = args[j]
      BY <2>4 DEF Continues, args
    <3>3. \A j \in 1 .. Len(args) : r[j] \in Argument
      BY <3>1, <3>2, ElementOfSeq
    <3>4. /\ q \in Seq(Argument) /\ Len(q) = Len(args)
          /\ \A j \in 1 .. Len(args) : q[j] = r[j]
      BY <3>1, <3>3, SubSeqProperties
    <3> HIDE DEF q
    <3>5. \A j \in 1 .. Len(q) : q[j] = args[j]
      BY <3>2, <3>4
    <3>6. q = args
      BY <3>1, <3>4, <3>5, SeqEqual
    <3> QED BY <3>6 DEF q, args
  <2>6. i \in DOMAIN profiles /\ SameFile[profiles[i].model] = SameFile[m]
    BY DEF Matching
  <2> QED BY <2>1, <2>2, <2>3, <2>5, <2>6 DEF config
<1>2. ASSUME NEW m \in Model \ NativeMtp, ~HasProfile(m)
      PROVE  LET args == ServerConfig(m, 0 - 1).args
             IN /\ ~Given(args, DraftOption)
                /\ Paired(ServerSettingsFor(m).args) =>
                     \A i \in DOMAIN args : ~DraftMode(args, i)
  <2> DEFINE s == ServerSettingsFor(m)
             args == ServerConfig(m, 0 - 1).args
             q == QwenSafeguards(m, s.long, s.args)
             w == WithoutDrafts(q)
  <2>1. s.args \in Seq(Argument) /\ args = PrismSafeguards(m, MtpGuard(m, q))
    BY ConfigFields
  <2>2. MtpGuard(m, q) = w
    BY <1>2 DEF MtpGuard
  <2>3. q \in Seq(Argument) /\ (Paired(s.args) => Paired(q))
    BY <2>1, QwenKeeps
  <2> HIDE DEF q
  <2>4. w \in Seq(Argument) /\ ~Given(w, DraftOption) /\ (Paired(q) => ~Drafts(w))
    BY <2>3, WithoutDraftsKeeps
  <2> HIDE DEF w
  <2>5. ~Given(args, DraftOption) /\ (~Drafts(w) => ~Drafts(args))
    BY <2>1, <2>2, <2>4, PrismKeeps
  <2> QED BY <2>3, <2>4, <2>5 DEF Drafts
<1>3. ASSUME NEW m \in Model, Paired(ServerSettingsFor(m).args)
      PROVE  Paired(ServerConfig(m, 0 - 1).args)
  <2> DEFINE s == ServerSettingsFor(m)
             args == ServerConfig(m, 0 - 1).args
             q == QwenSafeguards(m, s.long, s.args)
             w == MtpGuard(m, q)
  <2>1. s.args \in Seq(Argument) /\ args = PrismSafeguards(m, w)
    BY ConfigFields
  <2>2. q \in Seq(Argument) /\ Paired(q)
    BY <1>3, <2>1, QwenKeeps
  <2> HIDE DEF q
  <2>3. w \in Seq(Argument) /\ Paired(w)
    <3>1. w = q \/ w = WithoutDrafts(q)
      BY DEF MtpGuard
    <3> QED BY <2>2, <3>1, WithoutDraftsKeeps
  <2> HIDE DEF w
  <2> QED BY <2>1, <2>3, PrismKeeps
<1>4. ASSUME NEW m \in Model, NEW mb \in Vram,
             ServerSettingsFor(m).layers = 0 - 1, SizeMb[m] + OverheadMb > mb
      PROVE  ServerConfig(m, mb).layers \in 0 .. 79
  <2>1. mb \in Nat
    BY LaunchAssumption
  <2>2. ServerConfig(m, mb).layers = ResolveGpuLayers(m, ServerSettingsFor(m), mb)
    BY ConfigFields
  <2>3. ResolveGpuLayers(m, ServerSettingsFor(m), mb) = RecommendedLayers(m, mb)
    BY <1>4, <2>1 DEF ResolveGpuLayers
  <2> QED BY <1>4, <2>1, <2>2, <2>3, LayersLeftOut
<1> QED BY <1>1, <1>2, <1>3, <1>4 DEF TunedByProfile, DraftOnlyForMtp, PairsKept, LayersFit

(* The state file. *)

Named(table, name) == \E i \in DOMAIN table : table[i].name = name

SavedTyped(file) ==
  /\ file.server \in Settings /\ file.profiles \in Profiles
  /\ file.chosen \in Model \union {NoPath}
  /\ file.active = "" \/ Named(file.profiles, file.active)

LEMMA TuningOfItself ==
  ASSUME NEW s \in Settings
  PROVE  SameTuning(s, s)
BY DEF SameTuning, Settings

\* The repair of a profile leaves its tuning alone.
LEMMA RepairedKeeps ==
  ASSUME NEW q \in ProfileRecord
  PROVE  /\ Repaired(q) \in ProfileRecord /\ Same(Repaired(q), q)
         /\ SameTuning(Repaired(q).server, q.server)
         /\ SameTuning(Repaired(q).server, LegacyServer) => SameTuning(q.server, LegacyServer)
<1> DEFINE s == q.server
           t == IF s.endpoint = RetiredEndpoint THEN [s EXCEPT !.endpoint = DefaultEndpoint] ELSE s
<1>1. s \in Settings /\ LegacyServer \in Settings /\ DefaultEndpoint \in Endpoint
  BY LaunchAssumption DEF ProfileRecord
<1>2. Repaired(q) = [q EXCEPT !.server = t]
  BY DEF Repaired
<1> HIDE DEF s
<1>3. /\ t \in Settings /\ SameTuning(t, s)
      /\ SameTuning(t, LegacyServer) => SameTuning(s, LegacyServer)
  <2>1. \A e : [[s EXCEPT !.endpoint = DefaultEndpoint] EXCEPT !.endpoint = e]
               = [s EXCEPT !.endpoint = e]
    BY <1>1 DEF Settings
  <2>2. CASE s.endpoint = RetiredEndpoint
    <3>1. t = [s EXCEPT !.endpoint = DefaultEndpoint]
      BY <2>2
    <3>2. t \in Settings
      BY <1>1, <3>1 DEF Settings
    <3> HIDE DEF t
    <3>3. \A u : SameTuning(t, u) = SameTuning(s, u)
      BY <2>1, <3>1 DEF SameTuning
    <3> QED BY <1>1, <3>2, <3>3, TuningOfItself
  <2>3. CASE s.endpoint # RetiredEndpoint
    BY <1>1, <2>3, TuningOfItself
  <2> QED BY <2>2, <2>3
<1> HIDE DEF t
<1>4. /\ Repaired(q) \in ProfileRecord /\ Repaired(q).server = t
      /\ Repaired(q).name = q.name /\ Repaired(q).model = q.model
  BY <1>2, <1>3 DEF ProfileRecord
<1> QED BY <1>3, <1>4 DEF Same, s

\* What is loaded has the endpoint of the file, its own profiles and the built-in ones.
LEMMA LoadKeeps ==
  ASSUME NEW file, SavedTyped(file)
  PROVE  LET loaded == LoadedState(file)
         IN /\ loaded.server \in Settings /\ loaded.server.endpoint = file.server.endpoint
            /\ loaded.profiles \in Profiles /\ loaded.chosen \in Model \union {NoPath}
            /\ Named(loaded.profiles, loaded.active)
            /\ \A b \in DOMAIN Builtin : Named(loaded.profiles, Builtin[b].name)
            /\ \A i \in DOMAIN file.profiles :
                 \/ SameTuning(file.profiles[i].server, LegacyServer)
                 \/ TuningIn(loaded.profiles, file.profiles[i])
<1> DEFINE old == file.profiles
           repaired == [i \in DOMAIN file.profiles |-> Repaired(file.profiles[i])]
           table == EnsureBuiltinProfiles(repaired)
           name == IF file.active = "" THEN Builtin[1].name ELSE file.active
           m == file.chosen
           has == m # NoPath /\ Matching(table, m) # {}
           its == ProfileFor(table, name, m)
           srv == IF has THEN [its.server EXCEPT !.endpoint = file.server.endpoint]
                  ELSE file.server
           act == IF has THEN its.name ELSE name
<1>1. LoadedState(file) = [server |-> srv, profiles |-> table, active |-> act, chosen |-> m]
  BY DEF LoadedState
<1>2. old \in Profiles
  BY DEF SavedTyped
<1>3. /\ repaired \in Profiles /\ DOMAIN repaired = DOMAIN old
       /\ \A i \in DOMAIN old :
            /\ old[i] \in ProfileRecord /\ repaired[i] = Repaired(old[i])
            /\ Repaired(old[i]) \in ProfileRecord
  <2>1. /\ Len(old) \in Nat /\ DOMAIN old = 1 .. Len(old)
        /\ \A i \in DOMAIN old : old[i] \in ProfileRecord
    BY <1>2, ProfilesTyped
  <2>2. \A i \in DOMAIN old : Repaired(old[i]) \in ProfileRecord
    BY <2>1, RepairedKeeps
  <2>3. repaired = [i \in 1 .. Len(old) |-> Repaired(old[i])]
    BY <2>1
  <2> HIDE DEF repaired, old
  <2>4. repaired \in [1 .. Len(old) -> ProfileRecord]
    BY <2>1, <2>2, <2>3
  <2>5. repaired \in Profiles
    <3>1. repaired \in Seq(ProfileRecord)
      BY <2>1, <2>4
    <3> QED BY <3>1 DEF Profiles, ProfileRecord
  <2> QED BY <2>1, <2>2, <2>3, <2>5
<1> HIDE DEF old, repaired
<1>4. /\ table \in Profiles
      /\ \A i \in DOMAIN old :
           /\ i \in DOMAIN table /\ table[i].name = old[i].name
           /\ SameTuning(old[i].server, LegacyServer) \/ TuningIn(table, old[i])
      /\ \A b \in DOMAIN Builtin : Named(table, Builtin[b].name)
  <2>1. /\ table \in Profiles
        /\ \A i \in DOMAIN repaired :
             /\ i \in DOMAIN table /\ table[i].name = repaired[i].name
             /\ SameTuning(repaired[i].server, LegacyServer) \/ table[i] = repaired[i]
        /\ \A b \in DOMAIN Builtin : Named(table, Builtin[b].name)
    BY <1>3, EnsureKeeps DEF Named
  <2> HIDE DEF table
  <2>2. ASSUME NEW i \in DOMAIN old
        PROVE  /\ i \in DOMAIN table /\ table[i].name = old[i].name
               /\ SameTuning(old[i].server, LegacyServer) \/ TuningIn(table, old[i])
    <3>1. /\ Same(repaired[i], old[i]) /\ SameTuning(repaired[i].server, old[i].server)
          /\ SameTuning(repaired[i].server, LegacyServer)
               => SameTuning(old[i].server, LegacyServer)
      BY <1>3, RepairedKeeps
    <3> QED BY <1>3, <2>1, <3>1 DEF Same, TuningIn
  <2> QED BY <2>1, <2>2
<1> HIDE DEF table
<1>5. ASSUME has
      PROVE  \E i \in DOMAIN table : its = table[i] /\ table[i] \in ProfileRecord
  <2>1. PICK i \in Matching(table, m) : its = table[i]
    BY <1>4, <1>5, ProfileIsOwn
  <2>2. i \in DOMAIN table
    BY DEF Matching
  <2> HIDE DEF its
  <2> QED BY <1>4, <2>1, <2>2, ProfilesTyped
<1>6. file.server \in Settings /\ file.server.endpoint \in Endpoint
  BY DEF SavedTyped, Settings
<1> HIDE DEF has, its
<1>7. srv \in Settings /\ srv.endpoint = file.server.endpoint
  <2>1. CASE has
    <3>1. its.server \in Settings
      BY <1>5, <2>1 DEF ProfileRecord
    <3>2. srv = [its.server EXCEPT !.endpoint = file.server.endpoint]
      BY <2>1
    <3> HIDE DEF srv
    <3> QED BY <1>6, <3>1, <3>2 DEF Settings
  <2>2. CASE ~has
    BY <1>6, <2>2
  <2> QED BY <2>1, <2>2
<1>8. Named(table, act)
  <2>1. CASE has
    BY <1>5, <2>1 DEF Named
  <2>2. CASE ~has /\ file.active = ""
    <3>1. 1 \in DOMAIN Builtin
      <4>1. Len(Builtin) \in Nat /\ DOMAIN Builtin = 1 .. Len(Builtin) /\ Len(Builtin) # 0
        BY LaunchAssumption, LenProperties, EmptySeq DEF Profiles
      <4> QED BY <4>1
    <3> QED BY <1>4, <2>2, <3>1
  <2>3. CASE ~has /\ file.active # ""
    <3>1. Named(old, file.active)
      BY <2>3 DEF SavedTyped, old
    <3>2. act = file.active
      BY <2>3
    <3> HIDE DEF act
    <3> QED BY <1>4, <3>1, <3>2 DEF Named
  <2> QED BY <2>1, <2>2, <2>3
<1>9. \A i \in DOMAIN old : SameTuning(old[i].server, LegacyServer) \/ TuningIn(table, old[i])
  BY <1>4
<1>10. m \in Model \union {NoPath}
  BY DEF SavedTyped
<1> HIDE DEF srv, act, m
<1>11. LET loaded == LoadedState(file)
       IN loaded.server = srv /\ loaded.profiles = table /\ loaded.active = act /\ loaded.chosen = m
  BY <1>1
<1> QED BY <1>4, <1>7, <1>8, <1>9, <1>10, <1>11 DEF old

(* Where the server listens, and which profiles there are, rest on what the file holds. *)
SettingsIInv ==
  /\ LaunchTypeOK /\ EndpointKept /\ OwnProfilesKept
  /\ server \in Settings /\ profiles \in Profiles /\ SavedTyped(saved)

\* What was loaded keeps the invariant.
LEMMA LoadedIsGood ==
  ASSUME SavedTyped(saved), changes \in 0 .. MaxChanges, Load(saved),
         entered = saved.server.endpoint
  PROVE  SettingsIInv
<1> DEFINE loaded == LoadedState(saved)
<1>1. /\ server = loaded.server /\ profiles = loaded.profiles
      /\ activeProfile = loaded.active /\ chosen = loaded.chosen
  BY DEF Load
<1>2. /\ loaded.server \in Settings /\ loaded.server.endpoint = saved.server.endpoint
      /\ loaded.profiles \in Profiles /\ loaded.chosen \in Model \union {NoPath}
      /\ Named(loaded.profiles, loaded.active)
      /\ \A b \in DOMAIN Builtin : Named(loaded.profiles, Builtin[b].name)
      /\ \A i \in DOMAIN saved.profiles :
           \/ SameTuning(saved.profiles[i].server, LegacyServer)
           \/ TuningIn(loaded.profiles, saved.profiles[i])
  BY LoadKeeps
<1> HIDE DEF loaded
<1>3. server.endpoint = entered /\ server.endpoint \in Endpoint
  BY <1>1, <1>2 DEF Settings
<1> QED BY <1>1, <1>2, <1>3 DEF SettingsIInv, LaunchTypeOK, EndpointKept, OwnProfilesKept, Named

LEMMA LaunchInitGood == LaunchInit => SettingsIInv
<1>1. SUFFICES ASSUME LaunchInit
               PROVE  SettingsIInv
  OBVIOUS
<1>2. PICK e \in Endpoint, known \in LoadedProfile :
        saved = [server |-> FreshServer(e), profiles |-> known, active |-> "", chosen |-> NoPath]
  BY <1>1 DEF LaunchInit
<1>3. FreshServer(e) \in Settings
  <2>1. <<>> \in Seq(Argument) /\ 0 - 1 \in Int
    BY EmptySeq
  <2> QED BY <2>1 DEF FreshServer, Settings
<1>4. known \in Profiles
  BY LaunchAssumption
<1>5. SavedTyped(saved)
  BY <1>2, <1>3, <1>4 DEF SavedTyped
<1>6. Load(saved) /\ changes = 0 /\ entered = saved.server.endpoint
  BY <1>1 DEF LaunchInit
<1>7. changes \in 0 .. MaxChanges
  BY <1>6, LaunchAssumption
<1> QED BY <1>5, <1>6, <1>7, LoadedIsGood

\* A change of the settings that is saved, or not, keeps the invariant.
LEMMA SavedIsGood ==
  ASSUME SettingsIInv, SaveLaunch, UNCHANGED profiles, server' \in Settings,
         server'.endpoint = entered', changes' \in 0 .. MaxChanges,
         chosen' \in Model \union {NoPath},
         activeProfile' = "" \/ Named(profiles, activeProfile')
  PROVE  SettingsIInv'
<1> DEFINE file == [server |-> server', profiles |-> profiles, active |-> activeProfile',
                    chosen |-> chosen']
<1>1. saved' = saved \/ saved' = file
  BY DEF SaveLaunch
<1>2. profiles' = profiles /\ profiles \in Profiles /\ SavedTyped(saved) /\ OwnProfilesKept
  BY DEF SettingsIInv
<1>3. SavedTyped(file)
  BY <1>2 DEF SavedTyped
<1>4. file.profiles = profiles
  OBVIOUS
<1> HIDE DEF file
<1>5. SavedTyped(saved)'
  <2>1. SavedTyped(saved')
    BY <1>1, <1>2, <1>3
  <2> QED BY <2>1 DEF SavedTyped
<1>6. OwnProfilesKept'
  <2>1. CASE saved' = saved
    BY <1>2, <2>1 DEF OwnProfilesKept
  <2>2. CASE saved' = file
    <3>1. \A i \in DOMAIN profiles : TuningIn(profiles, profiles[i])
      <4>1. \A i \in DOMAIN profiles : profiles[i].server \in Settings
        BY <1>2, ProfilesTyped
      <4> QED BY <4>1, TuningOfItself DEF TuningIn, Same
    <3> QED BY <1>2, <1>4, <2>2, <3>1 DEF OwnProfilesKept
  <2> QED BY <1>1, <2>1, <2>2
<1>7. LaunchTypeOK'
  <2>1. server'.endpoint \in Endpoint
    BY DEF Settings
  <2>2. \A i \in DOMAIN Builtin : \E j \in DOMAIN profiles : profiles[j].name = Builtin[i].name
    BY DEF SettingsIInv, LaunchTypeOK
  <2> QED BY <1>2, <2>1, <2>2 DEF LaunchTypeOK, Named
<1> QED BY <1>2, <1>5, <1>6, <1>7 DEF SettingsIInv, EndpointKept

LEMMA LaunchNextGood == SettingsIInv /\ [LaunchNext]_launchVars => SettingsIInv'
<1>1. SUFFICES ASSUME SettingsIInv, [LaunchNext]_launchVars
               PROVE  SettingsIInv'
  OBVIOUS
<1>2. /\ server \in Settings /\ profiles \in Profiles /\ SavedTyped(saved)
      /\ server.endpoint = entered /\ changes \in 0 .. MaxChanges
      /\ chosen \in Model \union {NoPath}
      /\ activeProfile = "" \/ Named(profiles, activeProfile)
  BY <1>1 DEF SettingsIInv, LaunchTypeOK, EndpointKept, Named
<1>3. ASSUME NEW m \in Model, NEW i \in Matching(profiles, m)
      PROVE  /\ ResolvedProfileServer(m, profiles[i], server) \in Settings
             /\ ResolvedProfileServer(m, profiles[i], server).endpoint = entered
             /\ Named(profiles, profiles[i].name)
  <2>1. i \in DOMAIN profiles
    BY DEF Matching
  <2>2. profiles[i] \in ProfileRecord
    BY <1>2, <2>1, ProfilesTyped
  <2> QED BY <1>2, <2>1, <2>2, ResolvedTyped DEF Named
<1>4. ASSUME NEW m \in Model, SelectModel(m)
      PROVE  SettingsIInv'
  <2>1. chosen' = m /\ SaveLaunch /\ UNCHANGED <<profiles, changes, entered>>
    BY <1>4 DEF SelectModel
  <2>2. /\ server' \in Settings /\ server'.endpoint = entered
        /\ activeProfile' = "" \/ Named(profiles, activeProfile')
    <3>1. CASE HasProfile(m)
      <4>1. PICK i \in Matching(profiles, m) :
              ProfileFor(profiles, activeProfile, m) = profiles[i]
        BY <1>2, <3>1, ProfileIsOwn DEF HasProfile
      <4>2. /\ activeProfile' = profiles[i].name
            /\ server' = ResolvedProfileServer(m, profiles[i], server)
        BY <1>4, <3>1, <4>1 DEF SelectModel
      <4> QED BY <1>3, <4>2
    <3>2. CASE ~HasProfile(m)
      BY <1>2, <1>4, <3>2 DEF SelectModel
    <3> QED BY <3>1, <3>2
  <2> QED BY <1>1, <1>2, <2>1, <2>2, SavedIsGood
<1>5. ASSUME NEW m \in Model, CycleRuntimeProfile(m)
      PROVE  SettingsIInv'
  <2>1. SaveLaunch /\ UNCHANGED <<profiles, changes, entered, chosen>> /\ HasProfile(m)
    BY <1>5 DEF CycleRuntimeProfile
  <2>2. PICK i \in Matching(profiles, m) : NextProfile(profiles, activeProfile, m) = profiles[i]
    BY <1>2, <2>1, ProfileIsOwn DEF HasProfile
  <2>3. PICK j \in Matching(profiles, m) : ProfileFor(profiles, activeProfile', m) = profiles[j]
    BY <1>2, <2>1, ProfileIsOwn DEF HasProfile
  <2>4. /\ activeProfile' = profiles[i].name
        /\ server' = ResolvedProfileServer(m, profiles[j], server)
    BY <1>5, <2>2, <2>3 DEF CycleRuntimeProfile
  <2>5. Named(profiles, activeProfile') /\ server' \in Settings /\ server'.endpoint = entered
    BY <1>3, <2>4
  <2> QED BY <1>1, <1>2, <2>1, <2>5, SavedIsGood
<1>6. ASSUME EditSettings
      PROVE  SettingsIInv'
  <2>1. /\ SaveLaunch /\ UNCHANGED <<activeProfile, chosen, profiles>>
        /\ changes < MaxChanges /\ changes' = changes + 1
    BY <1>6 DEF EditSettings
  <2>2. changes' \in 0 .. MaxChanges
    <3>1. MaxChanges \in Nat /\ changes \in Nat
      <4>1. MaxChanges \in Nat
        BY LaunchAssumption
      <4>2. changes \in 0 .. MaxChanges
        BY <1>2
      <4> QED BY <4>1, <4>2
    <3>2. changes < MaxChanges /\ changes' = changes + 1
      BY <2>1
    <3> QED BY <3>1, <3>2
  <2>3. server' \in Settings /\ server'.endpoint = entered'
    <3>1. CASE \E e \in Endpoint : server' = [server EXCEPT !.endpoint = e] /\ entered' = e
      BY <1>2, <3>1 DEF Settings
    <3>2. CASE entered' = entered /\ \E a \in Arguments : server' = [server EXCEPT !.args = a]
      BY <1>2, <3>2, LaunchAssumption DEF Settings
    <3>3. CASE entered' = entered /\ server' = [server EXCEPT !.key = ~@]
      BY <1>2, <3>3 DEF Settings
    <3>4. CASE entered' = entered /\ server' = [server EXCEPT !.long = ~@]
      BY <1>2, <3>4 DEF Settings
    <3>5. CASE /\ entered' = entered
               /\ server' = [server EXCEPT !.layers = IF @ = 0 - 1 THEN 20 ELSE 0 - 1]
      <4> DEFINE layers == IF server.layers = 0 - 1 THEN 20 ELSE 0 - 1
      <4>1. layers \in Int
        OBVIOUS
      <4>2. server' = [server EXCEPT !.layers = layers]
        BY <3>5
      <4> HIDE DEF layers
      <4> QED BY <1>2, <3>5, <4>1, <4>2 DEF Settings
    <3> QED BY <1>6, <3>1, <3>2, <3>3, <3>4, <3>5 DEF EditSettings
  <2> QED BY <1>1, <1>2, <2>1, <2>2, <2>3, SavedIsGood
<1>7. ASSUME ApprovedStart
      PROVE  SettingsIInv'
  <2>1. PICK e \in Endpoint : server' = [server EXCEPT !.endpoint = e] /\ entered' = e
    <3>1. PublicEndpoint[server.endpoint] \subseteq Endpoint
      <4>1. server.endpoint \in Endpoint
        BY <1>2 DEF Settings
      <4> QED BY <4>1, LaunchAssumption
    <3> QED BY <1>7, <3>1 DEF ApprovedStart
  <2>2. UNCHANGED <<profiles, activeProfile, chosen, saved, changes>>
    BY <1>7 DEF ApprovedStart
  <2>3. server' \in Settings /\ server'.endpoint = entered' /\ server'.endpoint \in Endpoint
    BY <1>2, <2>1 DEF Settings
  <2>4. LaunchTypeOK'
    BY <1>1, <2>2, <2>3 DEF SettingsIInv, LaunchTypeOK
  <2>5. OwnProfilesKept' /\ SavedTyped(saved)'
    BY <1>1, <2>2 DEF SettingsIInv, OwnProfilesKept, SavedTyped
  <2> QED BY <1>2, <2>2, <2>3, <2>4, <2>5 DEF SettingsIInv, EndpointKept
<1>8. ASSUME ReloadState
      PROVE  SettingsIInv'
  <2> DEFINE loaded == LoadedState(saved)
  <2>1. /\ server' = loaded.server /\ profiles' = loaded.profiles
        /\ activeProfile' = loaded.active /\ chosen' = loaded.chosen
        /\ entered' = saved.server.endpoint /\ UNCHANGED <<saved, changes>>
    BY <1>8 DEF ReloadState
  <2>2. /\ loaded.server \in Settings /\ loaded.server.endpoint = saved.server.endpoint
        /\ loaded.profiles \in Profiles /\ loaded.chosen \in Model \union {NoPath}
        /\ Named(loaded.profiles, loaded.active)
        /\ \A b \in DOMAIN Builtin : Named(loaded.profiles, Builtin[b].name)
        /\ \A i \in DOMAIN saved.profiles :
             \/ SameTuning(saved.profiles[i].server, LegacyServer)
             \/ TuningIn(loaded.profiles, saved.profiles[i])
    BY <1>2, LoadKeeps
  <2> HIDE DEF loaded
  <2>3. server'.endpoint = entered' /\ server'.endpoint \in Endpoint
    BY <2>1, <2>2 DEF Settings
  <2>4. LaunchTypeOK'
    BY <1>2, <2>1, <2>2, <2>3 DEF LaunchTypeOK, Named
  <2>5. OwnProfilesKept'
    BY <2>1, <2>2 DEF OwnProfilesKept
  <2>6. SavedTyped(saved)'
    BY <1>2, <2>1 DEF SavedTyped
  <2> QED BY <2>1, <2>2, <2>3, <2>4, <2>5, <2>6 DEF SettingsIInv, EndpointKept
<1>9. CASE UNCHANGED launchVars
  <2>1. /\ server' = server /\ profiles' = profiles /\ activeProfile' = activeProfile
        /\ chosen' = chosen /\ saved' = saved /\ changes' = changes /\ entered' = entered
    BY <1>9 DEF launchVars
  <2>2. LaunchTypeOK' /\ EndpointKept' /\ OwnProfilesKept' /\ SavedTyped(saved)'
    BY <1>1, <2>1 DEF SettingsIInv, LaunchTypeOK, EndpointKept, OwnProfilesKept, SavedTyped
  <2> QED BY <1>2, <2>1, <2>2 DEF SettingsIInv
<1> QED BY <1>1, <1>4, <1>5, <1>6, <1>7, <1>8, <1>9 DEF LaunchNext

\* A server is started with what its model and its user ask for: its endpoint is the one
\* the user entered last, with the port of the bundle started since, a model that has profiles is tuned by one of them, the safeguards
\* keep flags and values together and bring no draft of another model, and a model that
\* does not fit the card never has all its layers there (server_config and what it calls).
THEOREM SettingsCorrect == LaunchSpec => []SettingsInv
<1>1. SettingsIInv => SettingsInv
  BY StartsAsAsked DEF SettingsIInv, SettingsInv
<1> QED BY <1>1, LaunchInitGood, LaunchNextGood, PTL DEF LaunchSpec

================================================================================
